CONSTANTS
    l1 = l1
    None = None
    Junk = Junk
    Key = "page:count:1"
    Aliases <- OneAlias
    NodeCount = 2
    Listeners = {l1}
    Values = {0, 1}
    Rendered = 0
    Served = 0
    MaxLoads = 2
SPECIFICATION Spec
INVARIANT TypeOK
INVARIANT EditsReachStorage
PROPERTY OnlySnapshotOverwritesEdits
INVARIANT NodesOfOneNameShowTheirSignal
INVARIANT ListenersFollowTheSignal
