CONSTANTS
    Deployer = Deployer
    Power = Power
    Comm = Comm
    RFM22B = RFM22B
    ADC = ADC
    Workers = {Power, Comm, RFM22B, ADC}
    EarlyReaders = {Power, ADC}
    QueueBound = 2
SPECIFICATION FlightSpec
INVARIANT ExitIsStillToCome
CHECK_DEADLOCK FALSE
