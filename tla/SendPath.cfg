\* Another thread forwards to the session while it answers: three frames, an array
\* that is compacted and grows, up to the first byte that is not the next one.
CONSTANTS
  Own = own
  Others = {t1}
  None = None
  BodyLen = 1
  InitialSize = 5
  Wrap = 16
  MaxBytes = 9
SPECIFICATION FairSpec
CHECK_DEADLOCK FALSE
CONSTRAINT UntilGarbled
INVARIANTS
  TypeOK
  AtMostOneWrite
  StreamInOrder
PROPERTIES
  AllSent
