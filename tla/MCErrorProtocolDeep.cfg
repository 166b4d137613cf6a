CONSTANTS
  Msgs = {"m1"}
  EofMsgs = {}
  Payloads = {p1}
  MaxDepth = 8
  MaxVals = 2
  NoErr = NoErr
  NoRes = NoRes
  NoPayload = NoPayload
SPECIFICATION Spec
INVARIANT PanicNeverScriptVisible
PROPERTY PanicEventuallyReported
