SPECIFICATION Spec
CONSTANTS
    AnomalyCode <- Codes
    AL_RECORD_MAX = 4
    Rules = 3
    DefaultRules <- UVCRules
    NewRules <- Registrations
    MaxAnomalies = 6
INVARIANTS NothingOutOfSight
PROPERTIES EveryAnomalyAnswered
