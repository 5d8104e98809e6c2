SPECIFICATION Spec
CONSTANTS
  Platform = "linux"
  Fd = {3, 4, 5}
  Client = {c1, c2}
  Urgent = {c1, c2}
  Ahead = {}
  Listener = Listener
  None = None
  MaxSend = 1
  SendBuf = 1
  Backlog = 2
  FdSetSize = 5
  Faults = {"stale_this", "peername", "socket", "nofile"}
SYMMETRY PeerSymmetry
INVARIANTS TypeOK HandlerOwnsSocket NoStaleDispatch ListenerStays NoEventDropped
PROPERTIES ImplementsReactor
