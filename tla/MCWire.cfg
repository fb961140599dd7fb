SPECIFICATION Spec
CONSTANTS
    WordBytes = 2
    MaxString = 3
    MaxPayload = 200
    Messages <- MCMessages
    Bytes <- MCBytes
CHECK_DEADLOCK FALSE
INVARIANTS
    RoundTrip
    PartsAreRefused
    NothingOverlooked
    SettingsAreExact
