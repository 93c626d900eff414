\* Three tasks, up to two permits, five attempts in all.
CONSTANTS
  Task = {t1, t2, t3}
  Initial = 1
  MaxPermits = 2
  MaxAttempts = 5
SPECIFICATION FairSpec
INVARIANTS
  PermitsCounted
  HeadWillLook
PROPERTIES
  FifoExceptRefused
  EveryTicketServed
CHECK_DEADLOCK FALSE
