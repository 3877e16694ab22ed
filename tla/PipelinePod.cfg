CONSTANTS
    app = app
    base = base
    anon = anon
    odd = odd
    appTag = appTag
    baseTag = baseTag
    oddTag = oddTag
    Image = {app, base, anon, odd}
    Name = {appTag, baseTag, oddTag}
    Names <- NodeNames
    Excluded = {oddTag}
    Vulnerable = {app, anon}
    MaxFaults = 2
SPECIFICATION FairSpec
INVARIANTS TypeOK OnlyCondemnedErased SuccessMeansRemoved NoneWaitForEachOther
PROPERTIES RemovalHappens CompletesOrFails
CHECK_DEADLOCK FALSE
