SPECIFICATION Spec
CONSTANTS
    None = None
    MaxRetries = 2
    MaxNonce = 2
    MaxAssoc = 2
    MaxGtk = 2
    MaxHeld = 1
    MbufsFail = FALSE
CHECK_DEADLOCK FALSE
INVARIANTS TypeOK GroupKeysFresh PortsAgree StationsHaveGroupKey WaitsWithTimer
PROPERTIES Agrees HandshakeEnds
