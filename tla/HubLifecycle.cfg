SPECIFICATION FairSpec
CONSTANT MaxWorld = 2
CHECK_DEADLOCK FALSE
INVARIANTS ReportedOver ForgottenIsTold JoinedIsOver
PROPERTIES StopConfirmed
