CONSTANTS
    app = app
    base = base
    anon = anon
    odd = odd
    appTag = appTag
    baseTag = baseTag
    oddTag = oddTag
    Image = {app, base, anon, odd}
    Name = {appTag, baseTag, oddTag}
    Names <- NodeNames
    Excluded = {oddTag}
    Vulnerable = {app, anon}
    MaxFaults = 0
SPECIFICATION FairSpec
PROPERTY RunsToCompletion
CHECK_DEADLOCK FALSE
