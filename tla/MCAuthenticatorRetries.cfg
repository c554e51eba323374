SPECIFICATION Spec
CONSTANTS
    None = None
    MaxRetries = 3
    MaxNonce = 1
    MaxAssoc = 1
    MaxGtk = 2
    MaxHeld = 0
    MbufsFail = FALSE
CHECK_DEADLOCK FALSE
INVARIANTS AuthenticatorWillRetry
