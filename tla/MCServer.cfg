SPECIFICATION Spec
CONSTANTS
  Conn = {c1, c2}
  Arg = {a1, a2}
  NoArg = NoArg
  Limits = {1, 2}
  BufSize = 2
  XidMod = 2
  Requests = {1}
  Answers = {0, 1, 2}
  Room = 0
INVARIANTS SocketsSound
PROPERTIES RefinesRpc CallReturns
CHECK_DEADLOCK FALSE
