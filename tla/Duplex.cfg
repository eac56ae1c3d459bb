SPECIFICATION DuplexSpec
CONSTANTS
  Transfer = {"downlink", "uplink"}
  Options <- DuplexOptions
INVARIANTS
  DuplexTypeOK
  SuccessReleases
PROPERTIES
  FreedAfterUse
  StopEndsProcess
