SPECIFICATION RtlSpec
PROPERTY BurstIsDrained
CHECK_DEADLOCK FALSE
