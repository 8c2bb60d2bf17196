\* A signal while the sink runs.
CONSTANTS
  MaxMessages = 1
  MaxStreams = 2
SPECIFICATION SinkSpec
PROPERTIES
  StoppedBeforeExit
CHECK_DEADLOCK FALSE
