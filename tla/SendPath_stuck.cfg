\* One other thread forwards to the session.
CONSTANTS
  Own = own
  Others = {t1}
  None = None
  BodyLen = 1
  InitialSize = 6
  Wrap = 16
  MaxBytes = 6
SPECIFICATION Spec
CHECK_DEADLOCK FALSE
INVARIANTS
  NeverStuck
