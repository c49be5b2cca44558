SPECIFICATION Spec
CONSTANTS
  Runs = {"r1", "r2"}
  Guests = {"guest"}
  Connections <- MCConnections
  None = "none"
INVARIANT RunsApart
CHECK_DEADLOCK FALSE
