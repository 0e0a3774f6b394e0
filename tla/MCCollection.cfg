SPECIFICATION FairSpec
CONSTANTS
    Nodes = {2, 3}
    WsnNum = 2
    Commands = {"Transfer", "TransferReady"}
    FirstOrbit <- MCFirstOrbit
    LastOrbit <- MCLastOrbit
    MaxLines <- MCMaxLines
    SerialBound = 2
INVARIANTS
    TypeOK
    ListedOnce
    SpoiledOnlyByStrayEnd
    WaitsForTheUnanswered
    NoTransferBySource
    FiledUnderItsOrbit
    InOrder
PROPERTIES
    SourceWaitsForEver
    ImplementsLog
    ListenEnds
