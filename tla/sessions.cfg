\* Two calls at a time, from one tab or two.
SPECIFICATION FairSpec
CONSTANTS
  Pairs = {p1, p2, p3}
  None = None
  Calls = {c1, c2}
  Tabs = {t1, t2}
INVARIANTS TypeOK OneLiveToken EndedStaysEnded StoredIsLive
PROPERTIES RotationAtomic CallsSettle
\* All pairs may be used up.
CHECK_DEADLOCK FALSE
