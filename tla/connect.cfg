SPECIFICATION FairSpec
CONSTANTS
  Platform = "linux"
  Object = {o1, o2}
  Server = {s1}
  Fd = {3, 4}
  None = None
INVARIANTS TypeOK OwnedOnce OrphansKnown SuccessIsReal
PROPERTIES ConnectNoticed
