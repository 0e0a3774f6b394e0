CONSTANTS
    Deployer = Deployer
    Power = Power
    Comm = Comm
    RFM22B = RFM22B
    ADC = ADC
    Workers = {Deployer, Power, Comm, RFM22B, ADC}
    EarlyReaders = {Power, ADC}
    QueueBound = 1
SPECIFICATION FlightSpec
INVARIANTS
    LoadIsShed
    NobodyLeftPaused
    PowerPassesTurnstile
CHECK_DEADLOCK FALSE
