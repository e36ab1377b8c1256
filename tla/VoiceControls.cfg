SPECIFICATION FairSpec
CONSTANTS
  MaxStarts = 3
  MaxSockets = 3
INVARIANTS PanelInvariant AudioInsideUtterance RecordingHasMicrophone
PROPERTY StartsEnd
CHECK_DEADLOCK FALSE
