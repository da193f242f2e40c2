SPECIFICATION Spec
CONSTANTS
  Tasks = {t1, t2}
  CaBuf = {t2}
  Keys = {k0, k1}
  DefKey = k0
  Option = FALSE
  First = t1
  Tweaks = {0, 1}
INVARIANTS TypeOK KeysFollowTask ScheduleCurrent LockStaysClosed EnabledNeedsMap
PROPERTIES ResetOnlyOnRequest
