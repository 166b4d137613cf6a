--------------------------- MODULE PanicProofs ----------------------------
(***************************************************************************)
(* A proof that a Rust panic reaches the host as that panic               *)
(* (PanicReachesHost) for every value of the constants.  The invariant    *)
(* follows the panic from the trampoline that raised it: while a panic is *)
(* in flight the one frame that holds it is the protected call on top,    *)
(* with the WrappedPanic as its failed result, and only the binding's own *)
(* continuations (safe_pcall/safe_xpcall's re-raise, a callback's         *)
(* pop_error and resume_unwind, the host's pop_error) can move it.        *)
(***************************************************************************)
EXTENDS ErrorProtocolProofs, FiniteSetTheorems

(* Every frame above the host's lua_pcall is linked to a protected call:  *)
(* L->errorJmp always points at a lua_pcall, never at a callback or a     *)
(* script.                                                                 *)
BndOK(fs) == \A i \in 3..Len(fs) : fs[fs[i].bnd].kind \in Boundaries

(* A waiting result that holds no WrappedPanic. *)
NoPanicRes(r) == r = NoRes \/ NoPanic(r.vals)

(* Where a raised panic is: nowhere when none was raised; otherwise in    *)
(* flight to the host, or already the host's outcome.                     *)
Carried ==
  \/ /\ raised = {}
     /\ outcome.k /= "panic"
     /\ NoPanicRes(TopFrame.res)
  \/ \E p \in Payloads :
       /\ raised = {p}
       /\ \/ InFlight(p)
          \/ Len(frames) = 1 /\ outcome.k = "panic" /\ outcome.p = p

(* The part of the invariant about the frames below the top: the links    *)
(* point at protected calls, the host's frame never holds a result, and   *)
(* no frame below the top holds a WrappedPanic as a result.               *)
Rest(fs) ==
  /\ BndOK(fs)
  /\ fs[1].res = NoRes
  /\ \A i \in 1..(Len(fs) - 1) : NoPanicRes(fs[i].res)

(* What PInv adds to IInv: the chain, the host's outcome and the panic   *)
(* raised agree.                                                          *)
PanicShape ==
  /\ Rest(frames)
  /\ Len(frames) >= 2 => outcome = NoOutcome
  /\ Carried

PInv == IInv /\ PanicShape

-----------------------------------------------------------------------------
(* Lemmas on the frame chain. *)

(* Pushing a frame linked to a protected call keeps Rest, provided the    *)
(* old top held no WrappedPanic.                                          *)
LEMMA RestPush ==
  ASSUME NEW fs, FramesInv(fs), Rest(fs), NoPanicRes(fs[Len(fs)].res),
         NEW g \in Frames,
         Len(fs) + 1 >= 3 => g.bnd \in 1..Len(fs) /\ fs[g.bnd].kind \in Boundaries
  PROVE  Rest(Append(fs, g))
<1>1. PICK n \in Nat : n = Len(fs) /\ n >= 1
  BY LenProperties DEF FramesInv
<1>2. /\ Len(Append(fs, g)) = n + 1
      /\ \A i \in 1..n : Append(fs, g)[i] = fs[i]
      /\ Append(fs, g)[n + 1] = g
  BY <1>1, AppendProperties DEF FramesInv
<1>3. BndOK(Append(fs, g))
  <2> SUFFICES ASSUME NEW i \in 3..(n + 1)
               PROVE  Append(fs, g)[Append(fs, g)[i].bnd].kind \in Boundaries
    BY <1>2 DEF BndOK
  <2>1. CASE i = n + 1
    BY <1>1, <1>2, <2>1
  <2>2. CASE i <= n
    <3>1. FrameOK(fs, i) /\ fs[fs[i].bnd].kind \in Boundaries
      BY <1>1, <2>2 DEF FramesInv, Rest, BndOK
    <3>2. fs[i].bnd \in 1..n
      BY <3>1, <1>1, <2>2 DEF FrameOK
    <3>. QED
      BY <1>2, <2>2, <3>1, <3>2
  <2>3. i = n + 1 \/ i <= n
    BY <1>1
  <2>. QED
    BY <2>1, <2>2, <2>3
<1>4. \A i \in 1..n : NoPanicRes(Append(fs, g)[i].res)
  BY <1>1, <1>2 DEF Rest
<1>. QED
  BY <1>1, <1>2, <1>3, <1>4 DEF Rest

(* Unwinding to frame k >= 2 and replacing it by a frame of the same kind *)
(* and link keeps Rest.                                                   *)
LEMMA RestCut ==
  ASSUME NEW fs, FramesInv(fs), Rest(fs), NEW k \in 2..Len(fs), NEW g,
         g.kind = fs[k].kind, g.bnd = fs[k].bnd
  PROVE  /\ Rest(Append(SubSeq(fs, 1, k - 1), g))
         /\ Len(Append(SubSeq(fs, 1, k - 1), g)) = k
         /\ \A i \in 1..(k - 1) : Append(SubSeq(fs, 1, k - 1), g)[i] = fs[i]
         /\ Append(SubSeq(fs, 1, k - 1), g)[k] = g
<1> DEFINE new == Append(SubSeq(fs, 1, k - 1), g)
<1>1. PICK n \in Nat : n = Len(fs) /\ n >= 1
  BY LenProperties DEF FramesInv
<1>2. /\ Len(SubSeq(fs, 1, k - 1)) = k - 1
      /\ SubSeq(fs, 1, k - 1) \in Seq(Frames)
      /\ \A i \in 1..(k - 1) : SubSeq(fs, 1, k - 1)[i] = fs[i]
  BY <1>1, SubSeqProperties DEF FramesInv
<1>3. /\ Len(new) = k
      /\ \A i \in 1..(k - 1) : new[i] = fs[i]
      /\ new[k] = g
  BY <1>2, AppendProperties
<1>4. BndOK(new)
  <2> SUFFICES ASSUME NEW i \in 3..k
               PROVE  new[new[i].bnd].kind \in Boundaries
    BY <1>3 DEF BndOK
  <2>1. FrameOK(fs, i) /\ fs[fs[i].bnd].kind \in Boundaries
    BY <1>1 DEF FramesInv, Rest, BndOK
  <2>2. fs[i].bnd \in 1..(i - 1)
    BY <2>1 DEF FrameOK
  <2>3. new[i].bnd = fs[i].bnd
    BY <1>3
  <2>. QED
    BY <1>3, <2>1, <2>2, <2>3
<1>5. new[1].res = NoRes /\ \A i \in 1..(k - 1) : NoPanicRes(new[i].res)
  BY <1>1, <1>3 DEF Rest
<1>. QED
  BY <1>3, <1>4, <1>5 DEF Rest

(* Replacing the top frame's value stack keeps Rest and the top's result. *)
LEMMA RestStk ==
  ASSUME NEW fs, FramesInv(fs), Rest(fs), NEW s
  PROVE  LET new == [fs EXCEPT ![Len(fs)].stk = s] IN
         /\ Rest(new)
         /\ Len(new) = Len(fs)
         /\ new[Len(fs)].res = fs[Len(fs)].res
         /\ new[Len(fs)].kind = fs[Len(fs)].kind
<1> DEFINE new == [fs EXCEPT ![Len(fs)].stk = s]
<1>1. PICK n \in Nat : n = Len(fs) /\ n >= 1
  BY LenProperties DEF FramesInv
<1>2. fs[n] \in Frames
  BY <1>1, ElementOfSeq DEF FramesInv
<1>3. /\ DOMAIN new = DOMAIN fs
      /\ \A i \in 1..(n - 1) : new[i] = fs[i]
      /\ new[n] = [fs[n] EXCEPT !.stk = s]
  BY <1>1, LenProperties DEF FramesInv
<1>4. new[n].res = fs[n].res /\ new[n].kind = fs[n].kind /\ new[n].bnd = fs[n].bnd
  BY <1>2, <1>3 DEF Frames
<1>5. Len(new) = n
  BY <1>1, <1>3, LenProperties DEF FramesInv
<1>6. \A i \in 1..n : new[i].bnd = fs[i].bnd /\ new[i].kind = fs[i].kind /\ new[i].res = fs[i].res
  BY <1>3, <1>4
<1>7. BndOK(new)
  <2> SUFFICES ASSUME NEW i \in 3..n
               PROVE  new[new[i].bnd].kind \in Boundaries
    BY <1>5 DEF BndOK
  <2>1. FrameOK(fs, i) /\ fs[fs[i].bnd].kind \in Boundaries
    BY <1>1 DEF FramesInv, Rest, BndOK
  <2>2. fs[i].bnd \in 1..n
    BY <2>1 DEF FrameOK
  <2>. QED
    BY <1>6, <2>1, <2>2
<1>. QED
  BY <1>1, <1>4, <1>5, <1>6, <1>7 DEF Rest


(* A failure result whose error value is no WrappedPanic holds none.      *)
LEMMA ErrNoPanic ==
  ASSUME NEW st, NEW v, ~IsWrappedPanic(v)
  PROVE  NoPanicRes(ErrResult(st, v))
BY DEF NoPanicRes, NoPanic, ErrResult

(* lua_error from a chain of at least three frames (luaG_errormsg): the   *)
(* stack unwinds to a protected call, or a message handler is pushed.  A  *)
(* WrappedPanic lands as the failure result of that protected call,       *)
(* untouched by xpcall_msgh and error_traceback; any other value leaves   *)
(* no WrappedPanic at the top.                                            *)
LEMMA RaiseRest ==
  ASSUME NEW fs, FramesInv(fs), Rest(fs), Len(fs) >= 3, Len(fs) <= MaxDepth,
         NEW v \in Values, Raise(fs, v),
         ~IsWrappedPanic(v) => NoPanicRes(fs[Len(fs)].res)
  PROVE  /\ Rest(frames')
         /\ Len(frames') >= 2
         /\ IsWrappedPanic(v) =>
              /\ frames'[Len(frames')].kind \in Boundaries
              /\ frames'[Len(frames')].res = ErrResult("run", v)
              /\ Len(frames') < Len(fs)
         /\ ~IsWrappedPanic(v) => NoPanicRes(frames'[Len(frames')].res)
<1>1. PICK n \in Nat : n = Len(fs)
  BY LenProperties DEF FramesInv
<1> DEFINE b == fs[n].bnd
<1>2. b \in 1..(n - 1) /\ fs[b].kind \in Boundaries
  <2>1. FrameOK(fs, n)
    BY <1>1 DEF FramesInv
  <2>. QED
    BY <1>1, <2>1 DEF FrameOK, Rest, BndOK
<1>3. b >= 2
  <2>1. FrameOK(fs, 1)
    BY <1>1 DEF FramesInv
  <2>. QED
    BY <1>2, <2>1 DEF FrameOK, Boundaries
<1>4. NearestBoundary(fs) = b
  BY <1>1 DEF NearestBoundary
<1>5. fs[b] \in Frames
  BY <1>1, <1>2, ElementOfSeq DEF FramesInv
(* Every Deliver of the raise lands on the protected call b. *)
<1>6. ASSUME NEW r, Deliver(fs, b, r)
      PROVE  /\ Rest(frames') /\ Len(frames') = b
             /\ frames'[b].kind \in Boundaries /\ frames'[b].res = r
  <2> DEFINE gb == [fs[b] EXCEPT !.res = r]
  <2>1. gb.kind = fs[b].kind /\ gb.bnd = fs[b].bnd /\ gb.res = r
    BY <1>5 DEF Frames
  <2>2. b \in 2..Len(fs)
    BY <1>1, <1>2, <1>3
  <2>3. Rest(Append(SubSeq(fs, 1, b - 1), gb))
        /\ Len(Append(SubSeq(fs, 1, b - 1), gb)) = b
        /\ Append(SubSeq(fs, 1, b - 1), gb)[b] = gb
    <3>1. \A k \in 2..Len(fs) : \A gg :
            gg.kind = fs[k].kind /\ gg.bnd = fs[k].bnd =>
              /\ Rest(Append(SubSeq(fs, 1, k - 1), gg))
              /\ Len(Append(SubSeq(fs, 1, k - 1), gg)) = k
              /\ Append(SubSeq(fs, 1, k - 1), gg)[k] = gg
      BY RestCut
    <3>. QED
      BY <2>1, <2>2, <3>1
  <2>. QED
    BY <1>2, <1>6, <2>1, <2>3 DEF Deliver
<1>7. CASE fs[b].kind = "xpcall" /\ ~IsWrappedPanic(v) /\ n < MaxDepth
  <2> DEFINE h == [Frame("lua", "handler", b) EXCEPT !.stk = <<v>>]
  <2>1. frames' = Append(fs, h)
    BY <1>1, <1>4, <1>7 DEF Raise
  <2>2. h \in Frames /\ h.res = NoRes /\ h.bnd = b
    <3>1. Frame("lua", "handler", b) \in Frames
      BY <1>2, FrameTyped
    <3>2. <<v>> \in Seq(Values)
      OBVIOUS
    <3>. QED
      BY <3>1, <3>2, Zenon DEF Frame, Frames
  <2>3. Rest(Append(fs, h))
    <3>1. NoPanicRes(fs[Len(fs)].res)
      BY <1>7
    <3>2. h.bnd \in 1..Len(fs) /\ fs[h.bnd].kind \in Boundaries
      BY <1>1, <1>2, <2>2
    <3>. QED
      BY <2>2, <3>1, <3>2, RestPush, Zenon
  <2>4. Len(Append(fs, h)) = n + 1 /\ Append(fs, h)[n + 1] = h
    BY <1>1, AppendProperties DEF FramesInv
  <2>5. NoPanicRes(h.res)
    BY <2>2 DEF NoPanicRes
  <2>. QED
    BY <1>1, <1>7, <2>1, <2>3, <2>4, <2>5
<1>8. CASE fs[b].kind = "xpcall" /\ ~IsWrappedPanic(v) /\ ~(n < MaxDepth)
  <2>1. Deliver(fs, b, ErrResult("errerr", Str("errerr", FALSE)))
    BY <1>1, <1>4, <1>8 DEF Raise
  <2>2. NoPanicRes(ErrResult("errerr", Str("errerr", FALSE)))
    BY ErrNoPanic, ValueFacts DEF AllMsgs, FixedMsgs
  <2>. QED
    BY <1>3, <1>6, <1>8, <2>1, <2>2
<1>9. CASE ~(fs[b].kind = "xpcall" /\ ~IsWrappedPanic(v))
             /\ fs[b].kind = "hcall" /\ fs[b].tag = "tb"
  <2>1. Deliver(fs, b, ErrResult("run", ErrorTraceback(v)))
    BY <1>4, <1>9 DEF Raise
  <2>2. /\ IsWrappedPanic(v) => ErrorTraceback(v) = v
        /\ ~IsWrappedPanic(v) => NoPanicRes(ErrResult("run", ErrorTraceback(v)))
    BY TracebackKeepsPanic, ErrNoPanic
  <2>. QED
    BY <1>1, <1>2, <1>3, <1>6, <2>1, <2>2
<1>10. CASE ~(fs[b].kind = "xpcall" /\ ~IsWrappedPanic(v))
             /\ ~(fs[b].kind = "hcall" /\ fs[b].tag = "tb")
  <2>1. Deliver(fs, b, ErrResult("run", v))
    BY <1>4, <1>10 DEF Raise
  <2>2. ~IsWrappedPanic(v) => NoPanicRes(ErrResult("run", v))
    BY ErrNoPanic
  <2>. QED
    BY <1>1, <1>2, <1>3, <1>6, <2>1, <2>2
<1>. QED
  BY <1>7, <1>8, <1>9, <1>10


(* Pushing a protected call and the function it runs (lua_pcall from the  *)
(* host or a callback, safe_pcall from a script) keeps Rest.              *)
LEMMA PushCallRest ==
  ASSUME NEW fs, FramesInv(fs), Rest(fs), NoPanicRes(fs[Len(fs)].res),
         NEW h \in Frames, NEW f \in Frames,
         h.kind \in Boundaries, h.res = NoRes, f.bnd = Len(fs) + 1,
         Len(fs) + 1 >= 3 => h.bnd \in 1..Len(fs) /\ fs[h.bnd].kind \in Boundaries
  PROVE  /\ Rest(fs \o <<h, f>>)
         /\ Len(fs \o <<h, f>>) = Len(fs) + 2
         /\ (fs \o <<h, f>>)[Len(fs) + 2] = f
<1> DEFINE new == fs \o <<h, f>>
<1>1. PICK n \in Nat : n = Len(fs) /\ n >= 1
  BY LenProperties DEF FramesInv
<1>2. /\ Len(new) = n + 2
      /\ \A i \in 1..n : new[i] = fs[i]
      /\ new[n + 1] = h /\ new[n + 2] = f
  BY <1>1, ConcatProperties DEF FramesInv
<1>3. BndOK(new)
  <2> SUFFICES ASSUME NEW i \in 3..(n + 2)
               PROVE  new[new[i].bnd].kind \in Boundaries
    BY <1>2 DEF BndOK
  <2>1. CASE i <= n
    <3>1. FrameOK(fs, i) /\ fs[fs[i].bnd].kind \in Boundaries
      BY <1>1, <2>1 DEF FramesInv, Rest, BndOK
    <3>2. fs[i].bnd \in 1..n
      BY <3>1, <1>1, <2>1 DEF FrameOK
    <3>. QED
      BY <1>2, <2>1, <3>1, <3>2
  <2>2. CASE i = n + 1
    BY <1>1, <1>2, <2>2
  <2>3. CASE i = n + 2
    BY <1>1, <1>2, <2>3
  <2>4. i <= n \/ i = n + 1 \/ i = n + 2
    BY <1>1
  <2>. QED
    BY <2>1, <2>2, <2>3, <2>4
<1>4. new[1].res = NoRes
  BY <1>1, <1>2 DEF Rest
<1>5. \A i \in 1..(n + 1) : NoPanicRes(new[i].res)
  BY <1>1, <1>2 DEF Rest, NoPanicRes
<1>. QED
  BY <1>1, <1>2, <1>3, <1>4, <1>5 DEF Rest


-----------------------------------------------------------------------------
(* The steps of the protocol preserve PInv. *)

(* With a callback, a script or the host itself running, and the host not *)
(* holding a resumed panic, no panic has been raised and the running      *)
(* frame holds no WrappedPanic.                                           *)
LEMMA QuietTop ==
  ASSUME PInv, TopFrame.kind \notin Boundaries, outcome.k /= "panic"
  PROVE  raised = {} /\ NoPanicRes(TopFrame.res)
BY DEF PInv, PanicShape, Carried, InFlight

(* A lua_pcall is in progress only while the host has no outcome. *)
LEMMA DeepNoOutcome ==
  ASSUME PInv, Len(frames) >= 2
  PROVE  outcome = NoOutcome /\ outcome.k = "none"
BY DEF PInv, PanicShape, NoOutcome

(* No panic raised, no WrappedPanic at the top, no resumed panic at the   *)
(* host.                                                                   *)
LEMMA QuietCarried ==
  ASSUME raised' = {}, outcome'.k /= "panic", NoPanicRes(TopFrame.res)'
  PROVE  Carried'
BY DEF Carried

(* The panic raised is on its way to the host. *)
LEMMA InFlightCarried ==
  ASSUME NEW p \in Payloads, raised' = {p}, InFlight(p)'
  PROVE  Carried'
BY DEF Carried

(* The host before its first call. *)
LEMMA InitPInv == Init => PInv
<1> SUFFICES ASSUME Init PROVE PInv
  OBVIOUS
<1>1. IInv
  BY InitInv
<1>2. frames = <<Frame("rust", "root", 0)>> /\ Len(frames) = 1
      /\ frames[1].res = NoRes
  BY DEF Init, Frame
<1>3. Rest(frames)
  BY <1>2 DEF Rest, BndOK
<1>4. Carried
  BY <1>2 DEF Carried, Init, NoOutcome, NoPanicRes, TopFrame, TopIdx
<1>. QED
  BY <1>1, <1>2, <1>3, <1>4 DEF PInv, PanicShape

(* The host calls a Lua function through lua_pcall. *)
LEMMA HostCallPInv ==
  ASSUME PInv, NEW tag \in {"tb", "plain"}, HostCall(tag)
  PROVE  PanicShape'
<1> DEFINE h == Frame("hcall", tag, TopFrame.bnd)
           f == Frame("lua", "fn", TopIdx + 1)
<1>1. TopIdx = 1 /\ TopFrame.bnd \in Nat /\ TopFrame.kind = "rust"
      /\ TopFrame = frames[1]
  BY TopFacts DEF HostCall, Frames, TopIdx, TopFrame, FrameOK, PInv
<1>2. raised = {} /\ NoPanicRes(TopFrame.res)
  BY <1>1, QuietTop DEF HostCall, NoOutcome, Boundaries
<1>3. /\ h \in Frames /\ h.kind = "hcall" /\ h.res = NoRes
      /\ f \in Frames /\ f.bnd = 2 /\ f.res = NoRes
  BY <1>1, FrameTyped DEF Boundaries, Frame
<1>4. /\ Rest(frames \o <<h, f>>)
      /\ Len(frames \o <<h, f>>) = 3
      /\ (frames \o <<h, f>>)[3] = f
  <2>1. FramesInv(frames) /\ Rest(frames) /\ Len(frames) = 1
    BY <1>1 DEF PInv, PanicShape, IInv, TopIdx
  <2>2. NoPanicRes(frames[Len(frames)].res)
    BY <1>1, <1>2, <2>1
  <2>3. h.kind \in Boundaries /\ f.bnd = Len(frames) + 1
    BY <1>3, <2>1 DEF Boundaries
  <2>4. Len(frames) + 1 >= 3 =>
          h.bnd \in 1..Len(frames) /\ frames[h.bnd].kind \in Boundaries
    BY <2>1
  <2>5. /\ Rest(frames \o <<h, f>>)
        /\ Len(frames \o <<h, f>>) = Len(frames) + 2
        /\ (frames \o <<h, f>>)[Len(frames) + 2] = f
    BY <1>3, <2>1, <2>2, <2>3, <2>4, PushCallRest, Zenon
  <2>. QED
    BY <2>1, <2>5
<1>5. Carried'
  <2>1. NoPanicRes(TopFrame.res)'
    BY <1>3, <1>4 DEF HostCall, TopFrame, TopIdx, NoPanicRes
  <2>. QED
    BY <1>2, <2>1, QuietCarried DEF HostCall, NoOutcome
<1>. QED
  BY <1>4, <1>5 DEF HostCall, PanicShape

(* lua_load fails: the host's outcome is a syntax error. *)
LEMMA HostLoadFailsPInv ==
  ASSUME PInv, NEW m \in Msgs, HostLoadFails(m)
  PROVE  PanicShape'
<1>1. TopIdx = 1 /\ TopFrame.kind = "rust"
  BY TopFacts DEF HostLoadFails, TopIdx, TopFrame, FrameOK, PInv
<1>2. raised = {} /\ NoPanicRes(TopFrame.res)
  BY <1>1, QuietTop DEF HostLoadFails, NoOutcome, Boundaries
<1>3. outcome'.k /= "panic"
  <2>1. ~IsWrappedPanic(Str(m, FALSE))
    BY ValueFacts DEF AllMsgs
  <2>. QED
    BY <2>1, PopErrorPanic DEF HostLoadFails
<1>4. Carried'
  <2>1. NoPanicRes(TopFrame.res)'
    BY <1>2 DEF HostLoadFails, TopIdx, TopFrame
  <2>. QED
    BY <1>2, <1>3, <2>1, QuietCarried DEF HostLoadFails
<1>5. Rest(frames)' /\ (Len(frames') >= 2 => outcome' = NoOutcome)
  <2>1. frames' = frames /\ Rest(frames)
    BY DEF HostLoadFails, PInv, PanicShape
  <2>2. Rest(frames')
    BY <2>1, Zenon
  <2>3. Len(frames') = 1
    BY <1>1, <2>1 DEF TopIdx
  <2>. QED
    BY <2>2, <2>3
<1>. QED
  BY <1>4, <1>5 DEF PanicShape

(* The host goes on to its next call: the panic it resumed is spent. *)
LEMMA HostNextPInv ==
  ASSUME PInv, HostNext
  PROVE  PanicShape'
<1>1. Len(frames) = 1
  <2>1. IInv /\ (Len(frames) >= 2 => outcome = NoOutcome)
    BY DEF PInv, PanicShape
  <2>2. PICK n \in Nat : n = Len(frames) /\ 1 <= n
    BY <2>1, TopFacts DEF TopIdx
  <2>3. outcome /= NoOutcome
    BY DEF HostNext
  <2>4. ~(n >= 2)
    BY <2>1, <2>2, <2>3
  <2>. QED
    BY <2>2, <2>4
<1>2. NoPanicRes(TopFrame.res)'
  BY <1>1 DEF HostNext, PInv, PanicShape, Rest, TopFrame, TopIdx, NoPanicRes
<1>3. outcome'.k /= "panic"
  BY DEF HostNext, NoOutcome
<1>4. Carried'
  BY <1>2, <1>3, QuietCarried DEF HostNext
<1>5. Rest(frames)' /\ (Len(frames') >= 2 => outcome' = NoOutcome)
  <2>1. frames' = frames /\ Rest(frames)
    BY DEF HostNext, PInv, PanicShape
  <2>2. Rest(frames')
    BY <2>1, Zenon
  <2>. QED
    BY <1>1, <2>1, <2>2
<1>. QED
  BY <1>4, <1>5 DEF PanicShape


(* While a lua_pcall is in progress, either no panic has been raised and  *)
(* the top holds no WrappedPanic, or the one panic raised is in flight.   *)
LEMMA DeepCarried ==
  ASSUME PInv, Len(frames) >= 2
  PROVE  \/ raised = {} /\ NoPanicRes(TopFrame.res)
         \/ \E p \in Payloads : raised = {p} /\ InFlight(p)
<1>1. PICK n \in Nat : n = Len(frames) /\ n >= 2
  BY TopFacts DEF PInv, TopIdx
<1>2. Carried
  BY DEF PInv, PanicShape
<1>. QED
  BY <1>1, <1>2 DEF Carried

(* The host's lua_pcall returns: a resumed panic is the host's outcome,   *)
(* with the payload the callback panicked with.                           *)
LEMMA HostResumePInv ==
  ASSUME PInv, HostResume
  PROVE  PanicShape'
<1>1. PICK n \in Nat : n = Len(frames) /\ n = 2
  BY TopFacts DEF HostResume, PInv, TopIdx
<1>2. /\ frames[1] \in Frames /\ frames[1].res = NoRes
      /\ TopFrame \in Frames /\ FrameOK(frames, 2) /\ TopFrame.res /= NoRes
  BY <1>1, TopFacts DEF HostResume, PInv, PanicShape, Rest, TopIdx, TopFrame
<1>3. /\ Len(frames') = 1
      /\ frames'[1] = frames[1]
  BY <1>1, SubSeqProperties DEF HostResume, PInv, IInv, FramesInv
<1>4. Rest(frames') /\ (Len(frames') >= 2 => outcome' = NoOutcome)
  BY <1>2, <1>3 DEF Rest, BndOK
<1>5. NoPanicRes(TopFrame.res)'
  BY <1>2, <1>3 DEF TopFrame, TopIdx, NoPanicRes
<1>6. raised' = raised
  BY DEF HostResume
<1>7. raised = {} /\ NoPanicRes(TopFrame.res) => Carried'
  <2> SUFFICES ASSUME raised = {}, NoPanicRes(TopFrame.res)
               PROVE  Carried'
    OBVIOUS
  <2>1. CASE TopFrame.res.st = "ok"
    <3>1. outcome'.k = "ok"
      BY <2>1 DEF HostResume, NoOutcome
    <3>. QED
      BY <1>5, <1>6, <3>1, QuietCarried
  <2>3. CASE TopFrame.res.st /= "ok"
    <3>1. TopFrame.res \in Results /\ ResOK(TopFrame.res)
      BY <1>1, <1>2 DEF Frames, FrameOK, TopFrame, TopIdx
    <3>2. Len(TopFrame.res.vals) = 1 /\ NoPanic(TopFrame.res.vals)
      BY <1>2, <2>3, <3>1 DEF ResOK, NoPanicRes
    <3>3. ~IsWrappedPanic(TopFrame.res.vals[1])
      BY <3>1, <3>2 DEF NoPanic, Results
    <3>4. outcome'.k /= "panic"
      BY <2>3, <3>3, PopErrorPanic DEF HostResume
    <3>. QED
      BY <1>5, <1>6, <3>4, QuietCarried
  <2>. QED
    BY <2>1, <2>3
<1>8. \A p \in Payloads : raised = {p} /\ InFlight(p) => Carried'
  <2> SUFFICES ASSUME NEW p \in Payloads, raised = {p}, InFlight(p)
               PROVE  Carried'
    OBVIOUS
  <2>1. raised = {p} /\ InFlight(p)
    OBVIOUS
  <2>2. TopFrame.res.st = "run" /\ TopFrame.res.vals[1] = WPanic(p)
    BY <2>1 DEF InFlight, ErrResult
  <2>3. IsWrappedPanic(WPanic(p)) /\ WPanic(p).p = p
    BY DEF IsWrappedPanic, WPanic
  <2>4. outcome'.k = "panic" /\ outcome'.p = p
    BY <2>2, <2>3, PopErrorPanic DEF HostResume
  <2>. QED
    BY <1>3, <1>6, <2>1, <2>4 DEF Carried
<1>. QED
  <2>1. Carried'
    BY <1>1, <1>7, <1>8, DeepCarried
  <2>. QED
    BY <1>4, <2>1 DEF PanicShape


(* A call returns to its caller, one frame down, which is left with its   *)
(* kind, link and result: Rest holds of the shorter chain and the caller, *)
(* now on top, holds no WrappedPanic.                                     *)
LEMMA ReturnRest ==
  ASSUME PInv, TopIdx >= 3, NEW g,
         g.kind = frames[TopIdx - 1].kind, g.bnd = frames[TopIdx - 1].bnd,
         g.res = frames[TopIdx - 1].res
  PROVE  /\ Rest(Append(SubSeq(frames, 1, TopIdx - 2), g))
         /\ Len(Append(SubSeq(frames, 1, TopIdx - 2), g)) = TopIdx - 1
         /\ Append(SubSeq(frames, 1, TopIdx - 2), g)[TopIdx - 1] = g
         /\ NoPanicRes(g.res)
<1>1. PICK n \in Nat : n = TopIdx /\ n >= 3
  BY TopFacts DEF PInv
<1>2. FramesInv(frames) /\ Rest(frames) /\ Len(frames) = n
  BY <1>1 DEF PInv, PanicShape, IInv, TopIdx
<1>3. n - 1 \in 2..Len(frames) /\ (n - 1) - 1 = n - 2
  BY <1>1, <1>2
<1>4. \A k \in 2..Len(frames) : \A gg :
        gg.kind = frames[k].kind /\ gg.bnd = frames[k].bnd =>
          /\ Rest(Append(SubSeq(frames, 1, k - 1), gg))
          /\ Len(Append(SubSeq(frames, 1, k - 1), gg)) = k
          /\ Append(SubSeq(frames, 1, k - 1), gg)[k] = gg
  BY <1>2, RestCut
<1>5. NoPanicRes(frames[n - 1].res)
  BY <1>1, <1>2 DEF Rest
<1>. QED
  BY <1>1, <1>3, <1>4, <1>5

(* A callback's lua_pcall returns (the code after ffi::lua_pcall in the   *)
(* callback, with pop_error): a resumed panic unwinds the callback into  *)
(* its trampoline, which raises the same payload again.                   *)
LEMMA RustResumePInv ==
  ASSUME PInv, RustResume
  PROVE  PanicShape'
<1> DEFINE r == TopFrame.res
           caller == frames[TopIdx - 1]
           below == SubSeq(frames, 1, TopIdx - 2)
<1>1. /\ TopIdx \in Nat /\ TopIdx >= 3 /\ TopIdx <= MaxDepth
      /\ TopFrame.kind = "hcall" /\ r /= NoRes
      /\ caller \in Frames /\ FrameOK(frames, TopIdx - 1)
      /\ caller.kind = "rust"
  BY TopFacts DEF PInv, RustResume, FrameOK, TopIdx, TopFrame
<1>2. TopIdx - 1 >= 3
  BY <1>1 DEF FrameOK
<1>3. /\ outcome = NoOutcome /\ outcome' = outcome /\ raised' = raised
      /\ outcome.k /= "panic"
  BY <1>1, DeepNoOutcome DEF RustResume, TopIdx
<1>4. /\ r \in Results
      /\ r.st /= "ok" => Len(r.vals) = 1 /\ r.vals[1] \in Values
  BY <1>1, PendingResult DEF PInv
<1>5. \/ raised = {} /\ NoPanicRes(r)
      \/ \E p \in Payloads : raised = {p} /\ InFlight(p)
  BY <1>1, DeepCarried DEF TopIdx
(* Back in the callback with its frame unchanged but for got or stk. *)
<1>6. \A g : /\ g.kind = caller.kind /\ g.bnd = caller.bnd /\ g.res = caller.res
             /\ frames' = Append(below, g) /\ raised = {}
             => PanicShape'
  <2> SUFFICES ASSUME NEW g, g.kind = caller.kind, g.bnd = caller.bnd,
                      g.res = caller.res, frames' = Append(below, g), raised = {}
               PROVE  PanicShape'
    OBVIOUS
  <2>1. /\ Rest(frames')
        /\ Len(frames') = TopIdx - 1
        /\ frames'[TopIdx - 1] = g
        /\ NoPanicRes(g.res)
    BY <1>1, ReturnRest
  <2>2. NoPanicRes(TopFrame.res)'
    BY <2>1 DEF TopFrame, TopIdx
  <2>3. Carried'
    BY <1>3, <2>2, QuietCarried
  <2>. QED
    BY <1>3, <2>1, <2>3 DEF PanicShape
<1>7. CASE r.st = "ok"
  <2>1. raised = {}
    <3>1. \A p \in Payloads : ~InFlight(p)
      BY <1>7 DEF InFlight, ErrResult
    <3>. QED
      BY <1>5, <3>1
  <2>. QED
    BY <1>6, <1>7, <2>1 DEF RustResume
<1>8. CASE r.st /= "ok"
  <2> DEFINE pe == PopError(r.vals[1], r.st)
  <2>1. /\ pe.k \in {"err", "panic"}
        /\ pe.k = "err" => pe.e \in Errors
        /\ pe.k = "panic" <=> IsWrappedPanic(r.vals[1])
        /\ IsWrappedPanic(r.vals[1]) => pe.p = r.vals[1].p
    BY <1>4, <1>8, PopErrorTyped, PopErrorPanic
  <2>2. CASE pe.k = "err"
    <3>1. raised = {}
      <4>1. \A p \in Payloads : ~InFlight(p)
        BY <2>1, <2>2 DEF InFlight, ErrResult, IsWrappedPanic, WPanic
      <4>. QED
        BY <1>5, <4>1
    <3>2. PICK g : g = [caller EXCEPT !.got = pe.e]
      OBVIOUS
    <3>3. g.kind = caller.kind /\ g.bnd = caller.bnd /\ g.res = caller.res
      BY <1>1, <2>1, <2>2, <3>2, FrameGot, Zenon
    <3>4. frames' = Append(below, g)
      BY <1>8, <2>2, <3>2, Zenon DEF RustResume
    <3>. QED
      BY <1>6, <3>1, <3>3, <3>4
  <2>3. CASE pe.k /= "err"
    <3>1. IsWrappedPanic(r.vals[1]) /\ r.vals \in Seq(Values)
      BY <1>4, <2>1, <2>3 DEF Results
    <3>2. PICK p \in Payloads : raised = {p} /\ InFlight(p)
      <4>1. ~NoPanicRes(r)
        <5>1. 1 \in DOMAIN r.vals
          BY <1>4, <1>8, <3>1, LenProperties
        <5>. QED
          BY <1>1, <3>1, <5>1 DEF NoPanicRes, NoPanic
      <4>. QED
        BY <1>5, <4>1
    <3>3. r.vals[1] = WPanic(p) /\ pe.p = p
      BY <2>1, <3>1, <3>2 DEF InFlight, ErrResult, WPanic
    <3>4. PICK g : g = [caller EXCEPT !.stk = <<>>]
      OBVIOUS
    <3>5. /\ g \in Frames /\ g.kind = caller.kind /\ g.tag = caller.tag
          /\ g.bnd = caller.bnd /\ g.res = caller.res
      <4>1. <<>> \in Seq(Values)
        BY EmptySeq
      <4>. QED
        BY <1>1, <3>4, <4>1, FrameStk, Zenon
    <3>6. Raise(Append(below, g), WPanic(p))
      BY <1>8, <2>3, <3>3, <3>4, Zenon DEF RustResume
    <3>7. /\ FramesInv(Append(below, g))
          /\ Len(Append(below, g)) <= MaxDepth
          /\ Len(Append(below, g)) = TopIdx - 1
      <4>1. ResOK(g.res) /\ (g.kind = "lua" => NoPanic(g.stk))
        BY <1>1, <3>5 DEF FrameOK
      <4>2. IInv /\ TopIdx >= 2
        BY <1>1 DEF PInv
      <4>. QED
        BY <3>5, <4>1, <4>2, ReturnToCaller, Zenon
    <3>8. Rest(Append(below, g))
      BY <1>1, <3>5, ReturnRest
    <3>9. WPanic(p) \in Values /\ IsWrappedPanic(WPanic(p))
      BY ValueFacts DEF IsWrappedPanic, WPanic
    <3>10. Len(Append(below, g)) >= 3
      BY <1>2, <3>7
    <3>11. /\ Rest(frames')
           /\ Len(frames') >= 2
           /\ IsWrappedPanic(WPanic(p)) =>
                /\ frames'[Len(frames')].kind \in Boundaries
                /\ frames'[Len(frames')].res = ErrResult("run", WPanic(p))
           /\ ~IsWrappedPanic(WPanic(p)) => NoPanicRes(frames'[Len(frames')].res)
      BY <3>6, <3>7, <3>8, <3>9, <3>10, RaiseRest, Zenon
    <3>12. InFlight(p)'
      BY <3>9, <3>11 DEF InFlight, TopFrame, TopIdx
    <3>13. Carried'
      BY <1>3, <3>2, <3>12, InFlightCarried
    <3>. QED
      BY <1>3, <3>11, <3>13 DEF PanicShape
  <2>. QED
    BY <2>2, <2>3
<1>. QED
  BY <1>7, <1>8


(* A call with no panic raised returns to its caller one frame down,      *)
(* leaving the host's outcome alone: PanicShape holds after.              *)
LEMMA ReturnShape ==
  ASSUME PInv, TopIdx >= 3, raised = {}, raised' = raised, outcome' = outcome,
         NEW g, g.kind = frames[TopIdx - 1].kind, g.bnd = frames[TopIdx - 1].bnd,
         g.res = frames[TopIdx - 1].res,
         frames' = Append(SubSeq(frames, 1, TopIdx - 2), g)
  PROVE  PanicShape'
<1>1. /\ Rest(frames')
      /\ Len(frames') = TopIdx - 1
      /\ frames'[TopIdx - 1] = g
      /\ NoPanicRes(g.res)
  BY ReturnRest
<1>2. NoPanicRes(TopFrame.res)'
  BY <1>1 DEF TopFrame, TopIdx
<1>3. outcome = NoOutcome /\ outcome.k /= "panic"
  <2>1. PICK n \in Nat : n = TopIdx /\ n >= 3
    BY TopFacts DEF PInv
  <2>. QED
    BY <2>1, DeepNoOutcome DEF TopIdx
<1>4. Carried'
  BY <1>2, <1>3, QuietCarried
<1>. QED
  BY <1>1, <1>3, <1>4 DEF PanicShape

(* safe_pcall / safe_xpcall after lua_pcall has returned: a WrappedPanic  *)
(* is raised again and stays in flight; anything else returns to the     *)
(* script.                                                                *)
LEMMA PcallResumePInv ==
  ASSUME PInv, PcallResume
  PROVE  PanicShape'
<1> DEFINE r == TopFrame.res
           caller == frames[TopIdx - 1]
           below == SubSeq(frames, 1, TopIdx - 2)
<1>1. /\ TopIdx \in Nat /\ TopIdx >= 3 /\ TopIdx <= MaxDepth
      /\ r /= NoRes
      /\ caller \in Frames
  BY TopFacts DEF PInv, PcallResume
<1>2. /\ r \in Results
      /\ r.st /= "ok" => Len(r.vals) = 1 /\ r.vals[1] \in Values
  BY <1>1, PendingResult DEF PInv
<1>3. outcome = NoOutcome /\ outcome' = outcome /\ raised' = raised
  BY <1>1, DeepNoOutcome DEF PcallResume, TopIdx
<1>4. \/ raised = {} /\ NoPanicRes(r)
      \/ \E p \in Payloads : raised = {p} /\ InFlight(p)
  BY <1>1, DeepCarried DEF TopIdx
<1>5. CASE r.st /= "ok" /\ IsWrappedPanic(r.vals[1])
  <2>1. r.vals \in Seq(Values)
    BY <1>2 DEF Results
  <2>2. PICK p \in Payloads : raised = {p} /\ InFlight(p)
    <3>1. ~NoPanicRes(r)
      <4>1. 1 \in DOMAIN r.vals
        BY <1>2, <1>5, <2>1, LenProperties
      <4>. QED
        BY <1>1, <1>5, <4>1 DEF NoPanicRes, NoPanic
    <3>. QED
      BY <1>4, <3>1
  <2>3. r.vals[1] = WPanic(p)
    BY <2>2 DEF InFlight, ErrResult
  <2>4. Raise(frames, WPanic(p))
    BY <1>5, <2>3 DEF PcallResume
  <2>5. FramesInv(frames) /\ Rest(frames) /\ Len(frames) >= 3
        /\ Len(frames) <= MaxDepth
    BY <1>1 DEF PInv, PanicShape, IInv, TopIdx
  <2>6. WPanic(p) \in Values /\ IsWrappedPanic(WPanic(p))
    BY ValueFacts DEF IsWrappedPanic, WPanic
  <2>7. /\ Rest(frames')
        /\ Len(frames') >= 2
        /\ IsWrappedPanic(WPanic(p)) =>
             /\ frames'[Len(frames')].kind \in Boundaries
             /\ frames'[Len(frames')].res = ErrResult("run", WPanic(p))
        /\ ~IsWrappedPanic(WPanic(p)) => NoPanicRes(frames'[Len(frames')].res)
    BY <2>4, <2>5, <2>6, RaiseRest, Zenon
  <2>8. InFlight(p)'
    BY <2>6, <2>7 DEF InFlight, TopFrame, TopIdx
  <2>9. Carried'
    BY <1>3, <2>2, <2>8, InFlightCarried
  <2>. QED
    BY <1>3, <2>7, <2>9 DEF PanicShape
<1>6. CASE ~(r.st /= "ok" /\ IsWrappedPanic(r.vals[1]))
  <2>1. raised = {}
    <3>1. \A p \in Payloads : ~InFlight(p)
      BY <1>6 DEF InFlight, ErrResult, IsWrappedPanic, WPanic
    <3>. QED
      BY <1>4, <3>1
  <2>2. PICK g : g = [caller EXCEPT !.stk = (@ \o <<Bool(r.st = "ok")>>) \o r.vals]
    OBVIOUS
  <2>3. g.kind = caller.kind /\ g.bnd = caller.bnd /\ g.res = caller.res
    BY <1>1, <2>2, Zenon DEF Frames
  <2>4. frames' = Append(below, g)
    BY <1>6, <2>2, Zenon DEF PcallResume
  <2>. QED
    BY <1>1, <1>3, <2>1, <2>3, <2>4, ReturnShape
<1>. QED
  BY <1>5, <1>6


(* A callback or a script is running: no panic is in flight. *)
LEMMA RunningQuiet ==
  ASSUME PInv, TopFrame.kind \in {"rust", "lua"}, TopIdx >= 3
  PROVE  /\ raised = {} /\ NoPanicRes(TopFrame.res)
         /\ outcome = NoOutcome /\ outcome.k /= "panic"
<1>1. PICK n \in Nat : n = TopIdx /\ n >= 3
  BY TopFacts DEF PInv
<1>2. outcome = NoOutcome /\ outcome.k /= "panic"
  BY <1>1, DeepNoOutcome DEF TopIdx
<1>3. TopFrame.kind \notin Boundaries
  BY DEF Boundaries
<1>. QED
  BY <1>2, <1>3, QuietTop

(* A running frame hands a result with no WrappedPanic to the frame k     *)
(* below it (a return, or the end of a message handler).                 *)
LEMMA DeliverShape ==
  ASSUME PInv, TopIdx >= 3, raised = {}, raised' = raised, outcome' = outcome,
         NEW k \in 2..TopIdx, NEW res, NoPanicRes(res), Deliver(frames, k, res)
  PROVE  PanicShape'
<1>1. PICK n \in Nat : n = TopIdx /\ n >= 3
  BY TopFacts DEF PInv
<1>2. FramesInv(frames) /\ Rest(frames) /\ Len(frames) = n
  BY <1>1 DEF PInv, PanicShape, IInv, TopIdx
<1>3. frames[k] \in Frames
  BY <1>1, <1>2, ElementOfSeq DEF FramesInv
<1> DEFINE gb == [frames[k] EXCEPT !.res = res]
<1>4. gb.kind = frames[k].kind /\ gb.bnd = frames[k].bnd /\ gb.res = res
  BY <1>3 DEF Frames
<1>5. \A kk \in 2..Len(frames) : \A gg :
        gg.kind = frames[kk].kind /\ gg.bnd = frames[kk].bnd =>
          /\ Rest(Append(SubSeq(frames, 1, kk - 1), gg))
          /\ Len(Append(SubSeq(frames, 1, kk - 1), gg)) = kk
          /\ Append(SubSeq(frames, 1, kk - 1), gg)[kk] = gg
  BY <1>2, RestCut
<1>6. /\ Rest(frames') /\ Len(frames') = k /\ frames'[k] = gb
  BY <1>1, <1>2, <1>4, <1>5 DEF Deliver
<1>7. NoPanicRes(TopFrame.res)'
  BY <1>4, <1>6 DEF TopFrame, TopIdx
<1>8. outcome = NoOutcome /\ outcome.k /= "panic"
  BY <1>1, DeepNoOutcome DEF TopIdx
<1>9. Carried'
  BY <1>7, <1>8, QuietCarried
<1>. QED
  BY <1>6, <1>8, <1>9 DEF PanicShape

(* A callback or a script raises a value that is no WrappedPanic: it      *)
(* reaches a protected call, or a message handler, and no panic is in     *)
(* flight after.                                                          *)
LEMMA RaiseShape ==
  ASSUME PInv, TopIdx >= 3, raised = {}, raised' = raised, outcome' = outcome,
         NEW fs, FramesInv(fs), Rest(fs), Len(fs) >= 3, Len(fs) <= MaxDepth,
         NoPanicRes(fs[Len(fs)].res),
         NEW v \in Values, ~IsWrappedPanic(v), Raise(fs, v)
  PROVE  PanicShape'
<1>1. /\ Rest(frames')
      /\ Len(frames') >= 2
      /\ ~IsWrappedPanic(v) => NoPanicRes(frames'[Len(frames')].res)
  BY RaiseRest
<1>2. NoPanicRes(TopFrame.res)'
  BY <1>1 DEF TopFrame, TopIdx
<1>3. outcome = NoOutcome /\ outcome.k /= "panic"
  <2>1. PICK n \in Nat : n = TopIdx /\ n >= 3
    BY TopFacts DEF PInv
  <2>. QED
    BY <2>1, DeepNoOutcome DEF TopIdx
<1>4. Carried'
  BY <1>2, <1>3, QuietCarried
<1>. QED
  BY <1>1, <1>3, <1>4 DEF PanicShape


(* A callback's frame with its stack cleared, as callback_error and the   *)
(* trampoline leave it before lua_error.                                  *)
LEMMA ClearedRest ==
  ASSUME PInv, TopIdx >= 3
  PROVE  /\ FramesInv(Cleared(frames)) /\ Rest(Cleared(frames))
         /\ Len(Cleared(frames)) >= 3 /\ Len(Cleared(frames)) <= MaxDepth
         /\ Cleared(frames)[Len(Cleared(frames))].res = TopFrame.res
<1>1. FramesInv(frames) /\ Rest(frames) /\ IInv
  BY DEF PInv, PanicShape, IInv
<1>2. /\ Rest([frames EXCEPT ![Len(frames)].stk = <<>>])
      /\ Len([frames EXCEPT ![Len(frames)].stk = <<>>]) = Len(frames)
      /\ [frames EXCEPT ![Len(frames)].stk = <<>>][Len(frames)].res = frames[Len(frames)].res
  BY <1>1, RestStk, Zenon
<1>3. FramesInv(Cleared(frames)) /\ Len(Cleared(frames)) = Len(frames)
  BY <1>1, ClearedInv
<1>. QED
  BY <1>1, <1>2, <1>3 DEF Cleared, TopFrame, TopIdx, IInv

(* The callback returns Ok to its Lua caller. *)
LEMMA RustReturnOkPInv ==
  ASSUME PInv, NEW vals, RustReturnOk(vals)
  PROVE  PanicShape'
<1> DEFINE caller == frames[TopIdx - 1]
<1>1. TopIdx \in Nat /\ TopIdx >= 3 /\ caller \in Frames
  BY TopFacts DEF PInv, RustReturnOk, RustRunning
<1>2. raised = {}
  BY <1>1, RunningQuiet DEF RustReturnOk, RustRunning
<1>3. PICK g : g = [caller EXCEPT !.stk = caller.stk \o vals]
  OBVIOUS
<1>4. g.kind = caller.kind /\ g.bnd = caller.bnd /\ g.res = caller.res
  BY <1>1, <1>3, Zenon DEF Frames
<1>5. frames' = Append(SubSeq(frames, 1, TopIdx - 2), g)
  BY <1>3 DEF RustReturnOk
<1>. QED
  BY <1>1, <1>2, <1>4, <1>5, ReturnShape DEF RustReturnOk

(* The callback returns Err: callback_error raises a WrappedError, or the *)
(* VM's own stack error.                                                  *)
LEMMA RustReturnErrPInv ==
  ASSUME PInv, NEW e, RustReturnErr(e)
  PROVE  PanicShape'
<1>1. TopIdx >= 3 /\ TopFrame \in Frames
  BY TopFacts DEF PInv, RustReturnErr, RustRunning
<1>2. raised = {} /\ NoPanicRes(TopFrame.res)
  BY <1>1, RunningQuiet DEF RustReturnErr, RustRunning
<1>3. /\ FramesInv(Cleared(frames)) /\ Rest(Cleared(frames))
      /\ Len(Cleared(frames)) >= 3 /\ Len(Cleared(frames)) <= MaxDepth
      /\ NoPanicRes(Cleared(frames)[Len(Cleared(frames))].res)
  BY <1>1, <1>2, ClearedRest
<1>4. e \in Errors
  BY <1>1, OwnErrorsTyped DEF RustReturnErr, Frames
<1>5. /\ Str("stack", FALSE) \in Values /\ ~IsWrappedPanic(Str("stack", FALSE))
      /\ WErr(e) \in Values /\ ~IsWrappedPanic(WErr(e))
  BY <1>4, ValueFacts DEF AllMsgs, FixedMsgs
<1>6. raised' = raised /\ outcome' = outcome
  BY DEF RustReturnErr
<1>7. CASE TopFrame.tag = "rcb" /\ e = StackErr
  <2>1. Raise(Cleared(frames), Str("stack", FALSE))
    BY <1>7 DEF RustReturnErr
  <2>. QED
    BY <1>1, <1>2, <1>3, <1>5, <1>6, <2>1, RaiseShape
<1>8. CASE ~(TopFrame.tag = "rcb" /\ e = StackErr)
  <2>1. Raise(Cleared(frames), WErr(e))
    BY <1>8 DEF RustReturnErr
  <2>. QED
    BY <1>1, <1>2, <1>3, <1>5, <1>6, <2>1, RaiseShape
<1>. QED
  BY <1>7, <1>8

(* The callback panics: the trampoline raises a WrappedPanic with the     *)
(* payload, which lands, untouched, at the nearest protected call.        *)
LEMMA RustPanicPInv ==
  ASSUME PInv, NEW p \in Payloads, RustPanic(p)
  PROVE  PanicShape'
<1>1. TopIdx >= 3
  BY TopFacts DEF PInv, RustPanic, RustRunning
<1>2. raised = {} /\ outcome = NoOutcome
  BY <1>1, RunningQuiet DEF RustPanic, RustRunning
<1>3. /\ FramesInv(Cleared(frames)) /\ Rest(Cleared(frames))
      /\ Len(Cleared(frames)) >= 3 /\ Len(Cleared(frames)) <= MaxDepth
  BY <1>1, ClearedRest
<1>4. WPanic(p) \in Values /\ IsWrappedPanic(WPanic(p))
  BY ValueFacts DEF IsWrappedPanic, WPanic
<1>5. Raise(Cleared(frames), WPanic(p))
  BY DEF RustPanic
<1>6. /\ Rest(frames')
      /\ Len(frames') >= 2
      /\ IsWrappedPanic(WPanic(p)) =>
           /\ frames'[Len(frames')].kind \in Boundaries
           /\ frames'[Len(frames')].res = ErrResult("run", WPanic(p))
      /\ ~IsWrappedPanic(WPanic(p)) => NoPanicRes(frames'[Len(frames')].res)
  BY <1>3, <1>4, <1>5, RaiseRest, Zenon
<1>7. InFlight(p)'
  BY <1>4, <1>6 DEF InFlight, TopFrame, TopIdx
<1>8. raised' = {p} /\ outcome' = outcome
  BY <1>2 DEF RustPanic
<1>9. Carried'
  BY <1>7, <1>8, InFlightCarried
<1>. QED
  BY <1>2, <1>6, <1>8, <1>9 DEF PanicShape


(* A callback's lua_pcall, or a script's safe_pcall, pushes the protected *)
(* call and the function it runs.                                        *)
LEMMA PushCallShape ==
  ASSUME PInv, TopIdx >= 3, TopFrame.kind \in {"rust", "lua"},
         NEW kind \in Boundaries, NEW tag \in {"tb", "plain", "-"},
         frames' = frames \o <<Frame(kind, tag, TopFrame.bnd),
                               Frame("lua", "fn", TopIdx + 1)>>,
         raised' = raised, outcome' = outcome
  PROVE  PanicShape'
<1> DEFINE h == Frame(kind, tag, TopFrame.bnd)
           f == Frame("lua", "fn", TopIdx + 1)
<1>1. PICK n \in Nat : n = TopIdx /\ n >= 3
  BY TopFacts DEF PInv
<1>2. /\ raised = {} /\ NoPanicRes(TopFrame.res)
      /\ outcome = NoOutcome /\ outcome.k /= "panic"
  BY RunningQuiet
<1>3. /\ FramesInv(frames) /\ Rest(frames) /\ Len(frames) = n
      /\ TopFrame.bnd \in 1..(n - 1)
      /\ frames[TopFrame.bnd].kind \in Boundaries
  <2>1. FramesInv(frames) /\ Rest(frames) /\ Len(frames) = n
    BY <1>1 DEF PInv, PanicShape, IInv, TopIdx
  <2>2. FrameOK(frames, n)
    BY <1>1, <2>1 DEF FramesInv
  <2>. QED
    BY <1>1, <2>1, <2>2 DEF FrameOK, Rest, BndOK, TopFrame, TopIdx
<1>4. /\ h \in Frames /\ h.kind = kind /\ h.bnd = TopFrame.bnd /\ h.res = NoRes
      /\ f \in Frames /\ f.bnd = n + 1 /\ f.res = NoRes
  BY <1>1, <1>3, FrameTyped DEF Boundaries, Frame
<1>5. /\ Rest(frames \o <<h, f>>)
      /\ Len(frames \o <<h, f>>) = Len(frames) + 2
      /\ (frames \o <<h, f>>)[Len(frames) + 2] = f
  <2>1. NoPanicRes(frames[Len(frames)].res)
    BY <1>1, <1>2, <1>3 DEF TopFrame, TopIdx
  <2>2. Len(frames) + 1 >= 3 =>
          h.bnd \in 1..Len(frames) /\ frames[h.bnd].kind \in Boundaries
    BY <1>3, <1>4
  <2>3. f.bnd = Len(frames) + 1
    BY <1>3, <1>4
  <2>. QED
    BY <1>3, <1>4, <2>1, <2>2, <2>3, PushCallRest, Zenon
<1>6. NoPanicRes(TopFrame.res)'
  BY <1>4, <1>5 DEF TopFrame, TopIdx, NoPanicRes
<1>7. Carried'
  BY <1>2, <1>6, QuietCarried
<1>. QED
  BY <1>2, <1>5, <1>7 DEF PanicShape

(* The callback calls a Lua function through lua_pcall. *)
LEMMA RustCallLuaPInv ==
  ASSUME PInv, NEW tag \in {"tb", "plain"}, RustCallLua(tag)
  PROVE  PanicShape'
<1>1. TopIdx >= 3 /\ TopFrame.kind = "rust"
  BY TopFacts DEF PInv, RustCallLua, RustRunning
<1>. QED
  BY <1>1, PushCallShape DEF RustCallLua, Boundaries

(* The script calls safe_pcall(f) or safe_xpcall(f, h). *)
LEMMA ScriptPcallPInv ==
  ASSUME PInv, NEW kind \in {"pcall", "xpcall"}, ScriptPcall(kind)
  PROVE  PanicShape'
<1>1. TopIdx >= 3 /\ TopFrame.kind = "lua"
  BY TopFacts DEF PInv, ScriptPcall, ScriptRunning
<1>. QED
  BY <1>1, PushCallShape DEF ScriptPcall, Boundaries

(* The script calls a Rust callback. *)
LEMMA ScriptCallPInv ==
  ASSUME PInv, NEW tag \in {"cb", "rcb"}, ScriptCall(tag)
  PROVE  PanicShape'
<1> DEFINE g == Frame("rust", tag, TopFrame.bnd)
<1>1. PICK n \in Nat : n = TopIdx /\ n >= 3
  BY TopFacts DEF PInv, ScriptCall, ScriptRunning
<1>2. /\ raised = {} /\ NoPanicRes(TopFrame.res)
      /\ outcome = NoOutcome /\ outcome.k /= "panic"
  BY <1>1, RunningQuiet DEF ScriptCall, ScriptRunning
<1>3. /\ FramesInv(frames) /\ Rest(frames) /\ Len(frames) = n
      /\ TopFrame.bnd \in 1..(n - 1)
      /\ frames[TopFrame.bnd].kind \in Boundaries
  <2>1. FramesInv(frames) /\ Rest(frames) /\ Len(frames) = n
    BY <1>1 DEF PInv, PanicShape, IInv, TopIdx
  <2>2. FrameOK(frames, n)
    BY <1>1, <2>1 DEF FramesInv
  <2>. QED
    BY <1>1, <2>1, <2>2 DEF FrameOK, Rest, BndOK, TopFrame, TopIdx
<1>4. g \in Frames /\ g.bnd = TopFrame.bnd /\ g.res = NoRes
  BY <1>3, FrameTyped DEF Frame
<1>5. Rest(Append(frames, g))
  <2>1. NoPanicRes(frames[Len(frames)].res)
    BY <1>1, <1>2, <1>3 DEF TopFrame, TopIdx
  <2>2. Len(frames) + 1 >= 3 =>
          g.bnd \in 1..Len(frames) /\ frames[g.bnd].kind \in Boundaries
    BY <1>3, <1>4
  <2>. QED
    BY <1>3, <1>4, <2>1, <2>2, RestPush, Zenon
<1>6. Len(Append(frames, g)) = n + 1 /\ Append(frames, g)[n + 1] = g
  BY <1>3, AppendProperties DEF FramesInv
<1>7. NoPanicRes(TopFrame.res)'
  BY <1>4, <1>6 DEF ScriptCall, TopFrame, TopIdx, NoPanicRes
<1>8. Carried'
  BY <1>2, <1>7, QuietCarried DEF ScriptCall
<1>. QED
  BY <1>1, <1>2, <1>5, <1>6, <1>8 DEF ScriptCall, PanicShape


(* safe_pcall / safe_xpcall called with too few arguments raise a string. *)
LEMMA ScriptPcallNoArgsPInv ==
  ASSUME PInv, NEW kind, ScriptPcallNoArgs(kind)
  PROVE  PanicShape'
<1> DEFINE v == Str(IF kind = "pcall" THEN "pcall_args" ELSE "xpcall_args", FALSE)
<1>1. TopIdx >= 3 /\ TopFrame.kind = "lua"
  BY TopFacts DEF PInv, ScriptPcallNoArgs, ScriptRunning
<1>2. raised = {} /\ NoPanicRes(TopFrame.res)
  BY <1>1, RunningQuiet
<1>3. v \in Values /\ ~IsWrappedPanic(v)
  BY ValueFacts DEF AllMsgs, FixedMsgs
<1>4. FramesInv(frames) /\ Rest(frames) /\ Len(frames) >= 3
      /\ Len(frames) <= MaxDepth
  BY <1>1 DEF PInv, PanicShape, IInv, TopIdx
<1>. QED
  BY <1>1, <1>2, <1>3, <1>4, RaiseShape DEF ScriptPcallNoArgs, TopFrame, TopIdx

(* error(v) with a value the script made or holds: never a WrappedPanic, *)
(* which a script cannot get hold of.                                    *)
LEMMA ScriptRaisePInv ==
  ASSUME PInv, NEW v, ScriptRaise(v)
  PROVE  PanicShape'
<1>1. /\ TopIdx >= 3 /\ TopFrame \in Frames /\ TopFrame.kind = "lua"
      /\ NoPanic(TopFrame.stk)
  <2>1. /\ TopIdx >= 3 /\ TopFrame \in Frames /\ TopFrame.kind = "lua"
        /\ FrameOK(frames, TopIdx)
    BY TopFacts DEF PInv, ScriptRaise, ScriptRunning
  <2>. QED
    BY <2>1 DEF FrameOK, TopFrame
<1>2. raised = {} /\ NoPanicRes(TopFrame.res)
  BY <1>1, RunningQuiet
<1>3. v \in Values /\ ~IsWrappedPanic(v)
  <2>1. \A i \in DOMAIN TopFrame.stk : TopFrame.stk[i] \in Values
    BY <1>1, LenProperties, ElementOfSeq DEF Frames
  <2>. QED
    BY <1>1, <2>1, ValueFacts DEF ScriptRaise, NoPanic
<1>4. FramesInv(frames) /\ Rest(frames) /\ Len(frames) >= 3
      /\ Len(frames) <= MaxDepth
  BY <1>1 DEF PInv, PanicShape, IInv, TopIdx
<1>. QED
  BY <1>1, <1>2, <1>3, <1>4, RaiseShape DEF ScriptRaise, TopFrame, TopIdx

(* tostring on a WrappedError: the running script's stack grows. *)
LEMMA ScriptToStringPInv ==
  ASSUME PInv, NEW i, ScriptToString(i)
  PROVE  PanicShape'
<1> DEFINE s == Append(TopFrame.stk, Str("display", FALSE))
<1>1. TopIdx >= 3 /\ TopFrame.kind = "lua"
  BY TopFacts DEF PInv, ScriptToString, ScriptRunning
<1>2. /\ raised = {} /\ NoPanicRes(TopFrame.res)
      /\ outcome = NoOutcome /\ outcome.k /= "panic"
  BY <1>1, RunningQuiet
<1>3. FramesInv(frames) /\ Rest(frames)
  BY DEF PInv, PanicShape, IInv
<1>4. /\ Rest([frames EXCEPT ![Len(frames)].stk = s])
      /\ Len([frames EXCEPT ![Len(frames)].stk = s]) = Len(frames)
      /\ [frames EXCEPT ![Len(frames)].stk = s][Len(frames)].res = frames[Len(frames)].res
  BY <1>3, RestStk, Zenon
<1>5. frames' = [frames EXCEPT ![Len(frames)].stk = s]
  BY DEF ScriptToString, TopIdx, TopFrame
<1>6. NoPanicRes(TopFrame.res)'
  BY <1>2, <1>4, <1>5 DEF TopFrame, TopIdx
<1>7. Carried'
  BY <1>2, <1>6, QuietCarried DEF ScriptToString
<1>8. Len(frames') >= 2 => outcome' = NoOutcome
  BY <1>2 DEF ScriptToString
<1>. QED
  BY <1>4, <1>5, <1>7, <1>8 DEF PanicShape

(* The script returns: a function to the protected call below it, a      *)
(* message handler to the nearest protected call, with no WrappedPanic.  *)
LEMMA ScriptReturnPInv ==
  ASSUME PInv, ScriptReturn
  PROVE  PanicShape'
<1> DEFINE stk == TopFrame.stk
           vals == IF stk = <<>> THEN <<>> ELSE <<stk[Len(stk)]>>
<1>1. /\ TopIdx \in Nat /\ TopIdx >= 3 /\ TopFrame \in Frames
      /\ TopFrame.kind = "lua"
      /\ TopFrame.bnd \in 1..(TopIdx - 1) /\ NoPanic(stk)
  BY TopFacts DEF PInv, ScriptReturn, ScriptRunning, FrameOK, TopIdx, TopFrame
<1>2. /\ vals \in Seq(Values) /\ NoPanic(vals)
      /\ vals /= <<>> => vals[1] \in Values /\ ~IsWrappedPanic(vals[1])
  <2>1. stk \in Seq(Values)
    BY <1>1 DEF Frames
  <2>2. CASE stk = <<>>
    BY <2>2, EmptySeq DEF NoPanic
  <2>3. CASE stk /= <<>>
    <3>1. PICK n \in Nat : n = Len(stk) /\ n >= 1
      BY <2>1, <2>3, EmptySeq
    <3>2. stk[n] \in Values /\ ~IsWrappedPanic(stk[n])
      BY <1>1, <2>1, <3>1, ElementOfSeq, LenProperties DEF NoPanic
    <3>. QED
      BY <2>3, <3>1, <3>2 DEF NoPanic
  <2>. QED
    BY <2>2, <2>3
<1>3. raised = {} /\ raised' = raised /\ outcome' = outcome
  BY <1>1, RunningQuiet DEF ScriptReturn
<1>4. CASE TopFrame.tag = "fn"
  <2>1. Deliver(frames, TopIdx - 1, OkResult(vals))
    BY <1>4 DEF ScriptReturn
  <2>2. NoPanicRes(OkResult(vals))
    BY <1>2 DEF NoPanicRes, OkResult
  <2>3. TopIdx - 1 \in 2..TopIdx
    BY <1>1
  <2>. QED
    BY <1>1, <1>3, <2>1, <2>2, <2>3, DeliverShape
<1>5. CASE TopFrame.tag /= "fn"
  <2> DEFINE x == IF vals = <<>> THEN Nil ELSE vals[1]
  <2>1. Deliver(frames, TopFrame.bnd, ErrResult("run", x))
    BY <1>5 DEF ScriptReturn, NearestBoundary, TopFrame, TopIdx
  <2>2. ~IsWrappedPanic(x)
    BY <1>2, ValueFacts
  <2>3. NoPanicRes(ErrResult("run", x))
    BY <2>2, ErrNoPanic
  <2>4. TopFrame.bnd \in 2..TopIdx
    <3>1. frames[TopFrame.bnd].kind \in Boundaries /\ frames[1].kind = "rust"
      <4>1. FrameOK(frames, 1) /\ BndOK(frames)
        BY TopFacts DEF PInv, PanicShape, Rest, IInv, FramesInv
      <4>. QED
        BY <1>1, <4>1 DEF FrameOK, BndOK, TopFrame, TopIdx
    <3>. QED
      BY <1>1, <3>1 DEF Boundaries
  <2>. QED
    BY <1>1, <1>3, <2>1, <2>3, <2>4, DeliverShape
<1>. QED
  BY <1>4, <1>5


-----------------------------------------------------------------------------
(* PInv is inductive: every step of Next, and every stutter, keeps it.    *)
LEMMA PInvStep == PInv /\ [Next]_vars => PInv'
<1> SUFFICES ASSUME PInv, [Next]_vars PROVE PInv'
  OBVIOUS
<1>0. IInv'
  BY IInvStep DEF PInv
<1> SUFFICES PanicShape'
  BY <1>0 DEF PInv
<1>1. CASE \E tag \in {"tb", "plain"} : HostCall(tag) \/ RustCallLua(tag)
  <2>1. PICK tag \in {"tb", "plain"} : HostCall(tag) \/ RustCallLua(tag)
    BY <1>1
  <2>. QED
    BY <2>1, HostCallPInv, RustCallLuaPInv
<1>2. CASE \E m \in Msgs : HostLoadFails(m)
  BY <1>2, HostLoadFailsPInv
<1>3. CASE HostNext
  BY <1>3, HostNextPInv
<1>4. CASE ProtocolStep
  BY <1>4, HostResumePInv, RustResumePInv, PcallResumePInv DEF ProtocolStep
<1>5. CASE \E vals \in {<<>>} \cup {<<v>> : v \in ScriptValues} : RustReturnOk(vals)
  BY <1>5, RustReturnOkPInv
<1>6. CASE \E e \in OwnErrors \cup {TopFrame.got} : RustReturnErr(e)
  BY <1>6, RustReturnErrPInv
<1>7. CASE \E p \in Payloads : RustPanic(p)
  BY <1>7, RustPanicPInv
<1>8. CASE \E tag \in {"cb", "rcb"} : ScriptCall(tag)
  BY <1>8, ScriptCallPInv
<1>9. CASE \E kind \in {"pcall", "xpcall"} : ScriptPcall(kind) \/ ScriptPcallNoArgs(kind)
  <2>1. PICK kind \in {"pcall", "xpcall"} : ScriptPcall(kind) \/ ScriptPcallNoArgs(kind)
    BY <1>9
  <2>. QED
    BY <2>1, ScriptPcallPInv, ScriptPcallNoArgsPInv
<1>10. CASE \E v \in ScriptValues \cup {TopFrame.stk[i] : i \in DOMAIN TopFrame.stk} :
              ScriptRaise(v)
  BY <1>10, ScriptRaisePInv
<1>11. CASE \E i \in DOMAIN TopFrame.stk : ScriptToString(i)
  BY <1>11, ScriptToStringPInv
<1>12. CASE ScriptReturn
  BY <1>12, ScriptReturnPInv
<1>13. CASE UNCHANGED vars
  <2>1. frames' = frames /\ outcome' = outcome /\ raised' = raised
    BY <1>13 DEF vars
  <2>2. PanicShape
    BY DEF PInv
  <2>. QED
    BY <2>1, <2>2, Zenon DEF PanicShape, Carried, InFlight, TopFrame, TopIdx
<1>. QED
  BY <1>1, <1>2, <1>3, <1>4, <1>5, <1>6, <1>7, <1>8, <1>9, <1>10, <1>11,
     <1>12, <1>13 DEF Next

(* PInv gives PanicReachesHost: at most one panic in flight, a host       *)
(* outcome of ok or err only when none was raised, and a host panic       *)
(* outcome carrying the payload that was raised.                          *)
LEMMA PInvImplies == PInv => PanicReachesHost
<1> SUFFICES ASSUME PInv PROVE PanicReachesHost
  OBVIOUS
<1>1. Carried /\ (Len(frames) >= 2 => outcome = NoOutcome)
  BY DEF PInv, PanicShape
<1>2. PICK n \in Nat : n = Len(frames) /\ n >= 1
  BY TopFacts DEF PInv, TopIdx
<1>3. n = 1 => TopFrame.kind \notin Boundaries
  <2>1. FrameOK(frames, 1)
    BY <1>2 DEF PInv, IInv, FramesInv
  <2>. QED
    BY <1>2, <2>1 DEF FrameOK, Boundaries, TopFrame, TopIdx
<1>4. \A p \in Payloads : InFlight(p) => outcome.k = "none"
  BY <1>1, <1>2, <1>3 DEF InFlight, NoOutcome
<1>5. CASE raised = {} /\ outcome.k /= "panic"
  BY <1>5, FS_EmptySet DEF PanicReachesHost
<1>6. CASE \E p \in Payloads : raised = {p} /\ InFlight(p)
  <2>1. PICK p \in Payloads : raised = {p} /\ InFlight(p)
    BY <1>6
  <2>2. outcome.k = "none"
    BY <1>4, <2>1
  <2>. QED
    BY <2>1, <2>2, FS_Singleton DEF PanicReachesHost
<1>7. CASE \E p \in Payloads : raised = {p} /\ outcome.k = "panic" /\ outcome.p = p
  <2>1. PICK p \in Payloads : raised = {p} /\ outcome.k = "panic" /\ outcome.p = p
    BY <1>7
  <2>. QED
    BY <2>1, FS_Singleton DEF PanicReachesHost
<1>. QED
  BY <1>1, <1>5, <1>6, <1>7 DEF Carried

(* A panic in a Rust callback reaches the host as that panic, for every   *)
(* set of payloads and every depth bound: the trampoline wraps it, the     *)
(* safe_pcall / safe_xpcall and xpcall_msgh wrappers and error_traceback   *)
(* pass it on unchanged, each callback's pop_error resumes it and its     *)
(* trampoline wraps the same payload again, and the host's pop_error      *)
(* resumes it; no ok or err outcome follows a panic, and only one panic   *)
(* is ever in flight.                                                     *)
THEOREM PanicReachesHostHolds == Spec => []PanicReachesHost
BY InitPInv, PInvStep, PInvImplies, PTL DEF Spec


-----------------------------------------------------------------------------
(* The panic in flight is carried down, one continuation at a time. *)

(* safe_pcall / safe_xpcall with a WrappedPanic as their callee's failure *)
(* raise it again: it lands on a protected call below the pcall frame.   *)
LEMMA PcallResumeCarries ==
  ASSUME PInv, PcallResume, NEW p \in Payloads, InFlight(p)
  PROVE  InFlight(p)' /\ Len(frames') < Len(frames)
<1>1. TopIdx \in Nat /\ TopIdx >= 3 /\ TopIdx <= MaxDepth
  BY TopFacts DEF PInv, PcallResume
<1>2. /\ TopFrame.res.st /= "ok"
      /\ TopFrame.res.vals[1] = WPanic(p)
  BY DEF InFlight, ErrResult
<1>3. WPanic(p) \in Values /\ IsWrappedPanic(WPanic(p))
  BY ValueFacts DEF IsWrappedPanic, WPanic
<1>4. Raise(frames, WPanic(p))
  BY <1>2, <1>3 DEF PcallResume
<1>5. FramesInv(frames) /\ Rest(frames) /\ Len(frames) >= 3
      /\ Len(frames) <= MaxDepth
  BY <1>1 DEF PInv, PanicShape, IInv, TopIdx
<1>6. /\ frames'[Len(frames')].kind \in Boundaries
      /\ frames'[Len(frames')].res = ErrResult("run", WPanic(p))
      /\ Len(frames') < Len(frames)
  BY <1>3, <1>4, <1>5, RaiseRest, Zenon
<1>. QED
  BY <1>6 DEF InFlight, TopFrame, TopIdx

(* A callback's lua_pcall returns a WrappedPanic: pop_error resumes it,  *)
(* the callback unwinds into its trampoline, which raises the same       *)
(* payload again from the callback's frame.                              *)
LEMMA RustResumeCarries ==
  ASSUME PInv, RustResume, NEW p \in Payloads, InFlight(p)
  PROVE  InFlight(p)' /\ Len(frames') < Len(frames)
<1> DEFINE caller == frames[TopIdx - 1]
           below == SubSeq(frames, 1, TopIdx - 2)
           pe == PopError(TopFrame.res.vals[1], TopFrame.res.st)
<1>1. /\ TopIdx \in Nat /\ TopIdx >= 3 /\ TopIdx <= MaxDepth
      /\ TopFrame.kind = "hcall"
      /\ caller \in Frames /\ FrameOK(frames, TopIdx - 1)
      /\ caller.kind = "rust"
  <2>1. /\ TopIdx \in Nat /\ TopIdx <= MaxDepth /\ TopFrame.kind = "hcall"
        /\ TopIdx > 2
    BY TopFacts DEF PInv, RustResume, TopIdx
  <2>2. caller \in Frames /\ FrameOK(frames, TopIdx - 1) /\ FrameOK(frames, TopIdx)
    BY <2>1, TopFacts DEF PInv
  <2>3. caller.kind = "rust"
    BY <2>1, <2>2 DEF FrameOK, TopFrame
  <2>. QED
    BY <2>1, <2>2, <2>3
<1>2. TopIdx - 1 >= 3
  BY <1>1 DEF FrameOK
<1>3. /\ TopFrame.res.st /= "ok"
      /\ TopFrame.res.vals[1] = WPanic(p)
  BY DEF InFlight, ErrResult
<1>4. WPanic(p) \in Values /\ IsWrappedPanic(WPanic(p)) /\ WPanic(p).p = p
  BY ValueFacts DEF IsWrappedPanic, WPanic
<1>5. pe.k = "panic" /\ pe.p = p
  BY <1>3, <1>4, PopErrorPanic
<1>6. PICK g : g = [caller EXCEPT !.stk = <<>>]
  OBVIOUS
<1>7. /\ g \in Frames /\ g.kind = caller.kind /\ g.tag = caller.tag
      /\ g.bnd = caller.bnd /\ g.res = caller.res
  <2>1. <<>> \in Seq(Values)
    BY EmptySeq
  <2>. QED
    BY <1>1, <1>6, <2>1, FrameStk, Zenon
<1>8. Raise(Append(below, g), WPanic(p))
  BY <1>3, <1>5, <1>6, Zenon DEF RustResume
<1>9. /\ FramesInv(Append(below, g))
      /\ Len(Append(below, g)) <= MaxDepth
      /\ Len(Append(below, g)) = TopIdx - 1
  <2>1. ResOK(g.res) /\ (g.kind = "lua" => NoPanic(g.stk))
    BY <1>1, <1>7 DEF FrameOK
  <2>2. IInv /\ TopIdx >= 2
    BY <1>1 DEF PInv
  <2>. QED
    BY <1>7, <2>1, <2>2, ReturnToCaller, Zenon
<1>10. Rest(Append(below, g))
  BY <1>1, <1>7, ReturnRest
<1>11. Len(Append(below, g)) >= 3
  BY <1>2, <1>9
<1>12. /\ frames'[Len(frames')].kind \in Boundaries
       /\ frames'[Len(frames')].res = ErrResult("run", WPanic(p))
       /\ Len(frames') < Len(Append(below, g))
  BY <1>4, <1>8, <1>9, <1>10, <1>11, RaiseRest, Zenon
<1>13. Len(frames') < Len(frames)
  BY <1>1, <1>9, <1>12 DEF TopIdx
<1>. QED
  BY <1>12, <1>13 DEF InFlight, TopFrame, TopIdx

(* The host's lua_pcall returns a WrappedPanic: pop_error resumes it and  *)
(* the host's outcome is that payload.                                    *)
LEMMA HostResumeCarries ==
  ASSUME PInv, HostResume, NEW p \in Payloads, InFlight(p)
  PROVE  Len(frames') = 1 /\ outcome'.k = "panic" /\ outcome'.p = p
<1>1. Len(frames') = 1
  <2>1. PICK n \in Nat : n = Len(frames) /\ n = 2
    BY TopFacts DEF HostResume, PInv, TopIdx
  <2>. QED
    BY <2>1, SubSeqProperties DEF HostResume, PInv, IInv, FramesInv
<1>2. /\ TopFrame.res.st = "run"
      /\ TopFrame.res.vals[1] = WPanic(p)
  BY DEF InFlight, ErrResult
<1>3. IsWrappedPanic(WPanic(p)) /\ WPanic(p).p = p
  BY DEF IsWrappedPanic, WPanic
<1>4. outcome'.k = "panic" /\ outcome'.p = p
  BY <1>2, <1>3, PopErrorPanic DEF HostResume
<1>. QED
  BY <1>1, <1>4


(* While a panic is in flight no one but the three continuations can     *)
(* move: the top frame is a protected call, so no script or callback     *)
(* runs, the host is inside its lua_pcall, and each continuation carries *)
(* the payload one boundary down or hands it to the host.                *)
LEMMA CarriedDownStep ==
  ASSUME PInv, Next, NEW p \in Payloads, InFlight(p)
  PROVE  \/ /\ InFlight(p)'
            /\ Len(frames') < Len(frames)
            /\ raised' = raised
         \/ /\ Len(frames') = 1
            /\ outcome'.k = "panic"
            /\ outcome'.p = p
<1>1. TopFrame.kind \in Boundaries
  BY DEF InFlight
<1>2. Len(frames) /= 1 /\ Len(frames) >= 2
  <2>1. PICK n \in Nat : n = TopIdx /\ n >= 1 /\ FrameOK(frames, n)
    BY TopFacts DEF PInv
  <2>2. n /= 1
    BY <1>1, <2>1 DEF FrameOK, TopFrame, Boundaries
  <2>. QED
    BY <2>1, <2>2 DEF TopIdx
<1>3. outcome = NoOutcome
  BY <1>2 DEF PInv, PanicShape
<1>4. ~ScriptRunning /\ ~RustRunning
  BY <1>1 DEF ScriptRunning, RustRunning, Boundaries
<1>5. CASE HostResume
  BY <1>5, HostResumeCarries
<1>6. CASE RustResume
  <2>1. raised' = raised
    BY <1>6 DEF RustResume
  <2>. QED
    BY <1>6, <2>1, RustResumeCarries
<1>7. CASE PcallResume
  <2>1. raised' = raised
    BY <1>7 DEF PcallResume
  <2>. QED
    BY <1>7, <2>1, PcallResumeCarries
<1>8. ~\E tag \in {"tb", "plain"} : HostCall(tag) \/ RustCallLua(tag)
  BY <1>2, <1>4 DEF HostCall, RustCallLua
<1>9. ~\E m \in Msgs : HostLoadFails(m)
  BY <1>2 DEF HostLoadFails
<1>10. ~HostNext
  BY <1>3 DEF HostNext
<1>11. /\ ~\E vals \in {<<>>} \cup {<<v>> : v \in ScriptValues} : RustReturnOk(vals)
       /\ ~\E e \in OwnErrors \cup {TopFrame.got} : RustReturnErr(e)
       /\ ~\E q \in Payloads : RustPanic(q)
  BY <1>4 DEF RustReturnOk, RustReturnErr, RustPanic
<1>12. /\ ~\E tag \in {"cb", "rcb"} : ScriptCall(tag)
       /\ ~\E kind \in {"pcall", "xpcall"} : ScriptPcall(kind) \/ ScriptPcallNoArgs(kind)
       /\ ~\E v \in ScriptValues \cup {TopFrame.stk[i] : i \in DOMAIN TopFrame.stk} :
             ScriptRaise(v)
       /\ ~\E i \in DOMAIN TopFrame.stk : ScriptToString(i)
       /\ ~ScriptReturn
  BY <1>4 DEF ScriptCall, ScriptPcall, ScriptPcallNoArgs, ScriptRaise,
              ScriptToString, ScriptReturn
<1>. QED
  BY <1>5, <1>6, <1>7, <1>8, <1>9, <1>10, <1>11, <1>12, Zenon
     DEF Next, ProtocolStep

(* PanicCarriedDown holds for every set of payloads and every depth       *)
(* bound: no step of the binding drops, replaces or delays a panic in     *)
(* flight; each one the code takes moves it to a strictly lower protected *)
(* call, with no second panic raised, or gives it to the host.            *)
THEOREM PanicCarriedDownHolds == Spec => PanicCarriedDown
<1>1. PInv /\ [Next]_vars =>
        [\A p \in Payloads :
           InFlight(p) =>
             \/ /\ InFlight(p)'
                /\ Len(frames') < Len(frames)
                /\ raised' = raised
             \/ /\ Len(frames') = 1
                /\ outcome'.k = "panic"
                /\ outcome'.p = p]_vars
  BY CarriedDownStep
<1>. QED
  BY InitPInv, PInvStep, <1>1, PTL DEF Spec, PanicCarriedDown

=============================================================================
