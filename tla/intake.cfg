SPECIFICATION Spec
CONSTANTS
  Pages <- SomePages
  Calls <- SomeCalls
  Alerts <- SomeAlerts
  Issues <- SomeIssues
  Within <- SomeWithin
  MaxEntries = 4
  MaxItems = 2
  MaxSessions = 2
INVARIANTS
  TypeOK
  SubmissionReported
  SessionFollowsUser
  ReportedIsTested
CHECK_DEADLOCK FALSE
