\* Four nodes, 256 graphs, every kind of every node. A walk ends.
SPECIFICATION FairSpec
CONSTANTS
    NumNodes = 4
    EdgeLists <- MCEdgeLists
INVARIANTS
    OnlyWhatIsReached
    AllThatIsReached
PROPERTY Terminates
CHECK_DEADLOCK FALSE
