\* Four threads, four connections; three reconnections may fail.
CONSTANTS
  Threads = {t1, t2, t3, t4}
  Keepers = {t4}
  Conns = {k1, k2, k3, k4}
  None = None
  MaxFailures = 3
SPECIFICATION Spec
CHECK_DEADLOCK TRUE
INVARIANTS
  TypeOK
  OneHolder
  NoLostWakeup
  NobodySleeps
