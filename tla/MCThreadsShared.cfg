\* Two threads on one context, without a lock; every answer comes in time.
CONSTANTS
  t1 = t1
  t2 = t2
  t3 = t3
  ctx1 = ctx1
  ctx2 = ctx2
  Threads = {t1, t2}
  Contexts = {ctx1}
  ContextOf <- MCShared
  Lock = "none"
  CanTimeout = FALSE
  TidMod = 8
  MaxCalls = 1
SPECIFICATION Spec
INVARIANT
  SharedSafely
\* Every thread has made its calls.
CHECK_DEADLOCK FALSE
