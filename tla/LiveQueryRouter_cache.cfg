CONSTANTS
  t1 = t1
  t2 = t2
  q1 = q1
  q2 = q2
  w1 = w1
  w2 = w2
  Table = {t1, t2}
  Query = {q1, q2}
  Writer = {w1, w2}
  None = None
  TableOf <- OneEach
  MaxStamp = 2
  MaxWidth = 2
  MaxKills = 1
  Removable = {t2}
SPECIFICATION Spec
CHECK_DEADLOCK FALSE
INVARIANT ListsAreComplete
