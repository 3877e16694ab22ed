CONSTANTS
    app = app
    base = base
    appTag = appTag
    appDigest = appDigest
    baseTag = baseTag
    baseDigest = baseDigest
    Image = {app, base}
    Name = {appTag, baseTag}
    Names <- NodeNames
    Excluded <- ExcludedByList
    Run = {collected, manual}
    TargetLists <- OneList
    Star = Star
    Slash = Slash
    Colon = Colon
    Asterisk = Asterisk
    Piece <- Pieces
    Text <- NodeText
    ConfigMaps <- PatternLists
SPECIFICATION Spec
SYMMETRY RunSymmetry
INVARIANTS TypeOK ExcludedIsKept CoveredIsKept PruneIsComplete CountIsExact
PROPERTY InUseIsSpared
CHECK_DEADLOCK FALSE
