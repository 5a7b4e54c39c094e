CONSTANTS
    Batches <- MCBatches
    MaxCalls = 4
    MaxConnections = 2
    AudioCalls <- MCAudioCalls
    MaxAudioCalls = 2
SPECIFICATION RawSpec
INVARIANTS
    ShowsWhatWasGiven
    SuccessMeansWritten
    PlaysTheAudioGiven
CHECK_DEADLOCK FALSE
