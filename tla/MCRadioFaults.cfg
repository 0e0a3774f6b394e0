CONSTANTS
    mule = mule
    wsn1 = wsn1
    wsn2 = wsn2
    Nodes = {mule, wsn1, wsn2}
    Broadcast = Broadcast
    NoPacket = NoPacket
    Broadcasters = {mule}
    Retries = 1
    IdSpace = 3
    MaxSends <- FewSends
    MaxBoots <- NodeBoots
SPECIFICATION Spec
INVARIANTS
    AckMeansDelivered
    InOrderOnce
PROPERTY ImplementsLink
