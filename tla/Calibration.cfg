SPECIFICATION Spec
CONSTANTS
  MaxSessions = 2
  MaxFailures = 2
  HostPoints = {2, 5}
  HostProtect = {1}
INVARIANTS TypeOK FieldsWhole SavedSurvives
PROPERTIES FlagComesLast
CHECK_DEADLOCK FALSE
