SPECIFICATION FairSpec
CONSTANTS
  Platform = "linux"
  Fd = {3, 4, 5}
  Client = {c1, c2}
  Urgent = {}
  Ahead = {c1}
  Listener = Listener
  None = None
  MaxSend = 2
  SendBuf = 1
  Backlog = 1
  FdSetSize = 6
  Faults = {}
PROPERTIES  EveryConnectionAccepted EveryPeerServed EveryResponseSent
