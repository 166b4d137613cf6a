CONSTANTS
  Msgs = {"m1", "eof"}
  EofMsgs = {"eof"}
  Payloads = {p1, p2}
  MaxDepth = 6
  MaxVals = 3
  NoErr = NoErr
  NoRes = NoRes
  NoPayload = NoPayload
SPECIFICATION Spec
INVARIANT PanicReachesHost
PROPERTY PanicEventuallyReported
PROPERTY PanicCarriedDown
