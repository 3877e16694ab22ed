CONSTANTS
    app = app
    base = base
    appTag = appTag
    appDigest = appDigest
    baseTag = baseTag
    baseDigest = baseDigest
    Image = {app, base}
    Name = {appTag, appDigest, baseTag, baseDigest}
    Names <- NodeNames
    Excluded <- ExcludedByList
    Run = {manual}
    TargetLists <- NamedLists
    Star = Star
    Slash = Slash
    Colon = Colon
    Asterisk = Asterisk
    Piece <- Pieces
    Text <- NodeText
    ConfigMaps <- DigestList
SPECIFICATION Spec
INVARIANT NothingExcludedIsErased
CHECK_DEADLOCK FALSE
