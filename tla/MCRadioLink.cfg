CONSTANTS
    mule = mule
    wsn1 = wsn1
    wsn2 = wsn2
    Nodes = {mule, wsn1}
    Broadcast = Broadcast
    NoPacket = NoPacket
    Broadcasters = {}
    Retries = 1
    IdSpace = 3
    MaxSends <- Many
    MaxBoots <- MuleBoots
SPECIFICATION FairSpec
INVARIANTS
    TypeOK
    AckedOrSameNumber
PROPERTIES
    ImplementsLink
    CallReturns
