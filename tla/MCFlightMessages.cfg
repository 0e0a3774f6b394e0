CONSTANTS
    Deployer = Deployer
    Power = Power
    Comm = Comm
    RFM22B = RFM22B
    ADC = ADC
    Workers = {Power, RFM22B, ADC}
    EarlyReaders = {Power, ADC}
    QueueBound = 3
SPECIFICATION FairFlightSpec
INVARIANTS
    FlightTypeOK
    LowPowerNeverMissed
PROPERTY LowPowerHeeded
CHECK_DEADLOCK FALSE
