CONSTANTS
    mule = mule
    wsn1 = wsn1
    wsn2 = wsn2
    Nodes = {mule, wsn1}
    Broadcast = Broadcast
    NoPacket = NoPacket
    Broadcasters = {mule}
    Retries = 0
    IdSpace = 256
    MaxSends <- Two
    MaxBoots <- None
SPECIFICATION Spec
INVARIANT DeliveredWasSent
