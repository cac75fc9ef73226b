CONSTANTS
  Chars = {c1}
  Addresses = {x1}
  Null = Null
  Client <- AnyClient
  Budget = 1
SPECIFICATION Spec
INVARIANTS QueueExact LoginExact CallbackExact NoNullPlayer
PROPERTIES OvertakesOnlyBeforeLogin NoLogoutInMapUpdate PacketsDealtWith CallbacksRun
CHECK_DEADLOCK FALSE
