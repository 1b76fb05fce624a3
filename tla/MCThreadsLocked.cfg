\* Two threads on one context, a third on its own, under the application's lock.
CONSTANTS
  t1 = t1
  t2 = t2
  t3 = t3
  ctx1 = ctx1
  ctx2 = ctx2
  Threads = {t1, t2, t3}
  Contexts = {ctx1, ctx2}
  ContextOf <- MCBoth
  Lock = "process"
  CanTimeout = TRUE
  TidMod = 3
  MaxCalls = 2
SPECIFICATION Spec
INVARIANTS
  UniqueTid
  OwnAnswer
\* Every thread has made its calls.
CHECK_DEADLOCK FALSE
