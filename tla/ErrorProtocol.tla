---------------------------- MODULE ErrorProtocol ----------------------------
(***************************************************************************)
(* How errors and panics cross the Rust/Lua boundary in src/src/util.rs:   *)
(* the trampolines callback_error and rust_callback_error, the envelopes   *)
(* WrappedError and WrappedPanic, the message handler error_traceback,     *)
(* pop_error on the host side, and the script-facing safe_pcall and        *)
(* safe_xpcall with its message handler xpcall_msgh.                       *)
(*                                                                         *)
(* The state is the chain of activation frames of one Lua state, bottom    *)
(* first.  A frame is one of                                               *)
(*   "rust"   a Rust closure: the host itself (tag "root"), a callback     *)
(*            run by callback_error ("cb") or by rust_callback_error       *)
(*            ("rcb");                                                     *)
(*   "lua"    a script function ("fn") or a user message handler called    *)
(*            by xpcall_msgh ("handler");                                  *)
(*   "hcall"  the host's lua_pcall, with error_traceback as message        *)
(*            handler ("tb") or without one ("plain");                     *)
(*   "pcall", "xpcall"  safe_pcall / safe_xpcall waiting in lua_pcall.     *)
(* The three protected-call kinds are the boundaries where a Lua error     *)
(* (lua_error, a longjmp) stops.  Only the top frame runs.  A boundary     *)
(* frame whose callee has finished holds the callee's result in `res`      *)
(* until the C code after lua_pcall runs.                                  *)
(*                                                                         *)
(* Values are abstracted to what the code tells apart: strings (message    *)
(* and whether a traceback was appended), other printable-less values,     *)
(* booleans, WrappedError and WrappedPanic userdata.  An envelope is       *)
(* recognised by the identity of its metatable; scripts cannot reach       *)
(* those metatables (__metatable is false), so only the code below makes   *)
(* values of those two kinds.                                              *)
(***************************************************************************)
EXTENDS Integers, Sequences, FiniteSets

CONSTANTS
  Msgs,       \* messages of errors that scripts and callbacks raise
  EofMsgs,    \* those that end in "<eof>"
  Payloads,   \* payloads of Rust panics
  MaxDepth,   \* bound on the number of frames (the model's C stack)
  MaxVals,    \* bound on the values a script frame holds
  NoErr, NoRes, NoPayload

ASSUME MsgsAssumption == EofMsgs \subseteq Msgs
ASSUME DepthAssumption == MaxDepth \in Nat /\ MaxDepth >= 3
ASSUME ValsAssumption == MaxVals \in Nat /\ MaxVals >= 2

VARIABLES
  frames,    \* activation frames, bottom (the host) first
  outcome,   \* what the host's last protected call gave it
  raised     \* payloads of the panics raised during the host's call

vars == <<frames, outcome, raised>>

-----------------------------------------------------------------------------
(* Lua values *)
Str(m, tb) == [t |-> "str", m |-> m, tb |-> tb]
Nil == [t |-> "other"]
Bool(b) == [t |-> "bool", b |-> b]
WErr(e) == [t |-> "werr", e |-> e]
WPanic(p) == [t |-> "wpanic", p |-> p]

(* Fixed strings of the code and the VM. *)
FixedMsgs == {"pcall_args", "xpcall_args", "unprintable", "unprintable_lua",
              "display", "stack", "destructed", "errerr"}
AllMsgs == Msgs \cup FixedMsgs

(* The values a script can make by itself. *)
ScriptValues == {Str(m, FALSE) : m \in Msgs} \cup {Nil}

(* is_wrapped_error / is_wrapped_panic: a userdata whose metatable is      *)
(* raw-equal to the registry's error (panic) metatable.                    *)
IsWrappedError(v) == v.t = "werr"
IsWrappedPanic(v) == v.t = "wpanic"

(* Rust Error values.  A chain of CallbackError wrappers is recorded as   *)
(* its innermost error and the number of wrappers around it; the           *)
(* traceback strings the wrappers carry are left out.                      *)
Err(k, s) == [k |-> k, s |-> s, incomplete |-> FALSE, wraps |-> 0]
Runtime(s) == Err("runtime", s)
Syntax(s) == [Err("syntax", s) EXCEPT !.incomplete = s.m \in EofMsgs /\ ~s.tb]
StackErr == Err("stack", Str("stack", FALSE))
Destructed == Err("destructed", Str("destructed", FALSE))
CallbackErr(e) == [e EXCEPT !.wraps = @ + 1]

(* The errors a callback returns of its own accord. *)
OwnErrors == {Runtime(Str(m, FALSE)) : m \in Msgs} \cup {StackErr, Destructed}

(* An activation frame; bnd is the protected call a lua_error raised from  *)
(* it stops at, the VM's chain of error jump buffers (0 for the host).     *)
Frame(kind, tag, bnd) ==
  [kind |-> kind, tag |-> tag, stk |-> <<>>, got |-> NoErr, res |-> NoRes,
   bnd |-> bnd]

Boundaries == {"hcall", "pcall", "xpcall"}

OkResult(vals) == [st |-> "ok", vals |-> vals]
ErrResult(st, v) == [st |-> st, vals |-> <<v>>]

-----------------------------------------------------------------------------
(* lua_tostring on an error value, with the fallback text of the caller.   *)
ToStr(v, fallback) == IF v.t = "str" THEN v ELSE Str(fallback, FALSE)

(* Fault variant: error_traceback without the is_wrapped_panic test, so a  *)
(* panic raised again through it becomes a string with a traceback.        *)
ErrorTracebackNoPanicTest(v) ==
  IF IsWrappedError(v) THEN WErr(CallbackErr(v.e))
  ELSE Str(ToStr(v, "unprintable_lua").m, TRUE)

(* error_traceback, the host's message handler: a WrappedError becomes     *)
(* CallbackError{traceback, cause}, a plain Lua value becomes its string   *)
(* with a traceback appended, a WrappedPanic is passed through.            *)
ErrorTraceback(v) ==
  IF IsWrappedError(v) THEN WErr(CallbackErr(v.e))
  ELSE IF IsWrappedPanic(v) THEN v
  ELSE Str(ToStr(v, "unprintable_lua").m, TRUE)

(* Fault variant: no is_wrapped_panic test, so a WrappedPanic is read as   *)
(* an unprintable Lua error.                                               *)
PopErrorNoPanicTest(v, code) ==
  CASE IsWrappedError(v) -> [k |-> "err", e |-> v.e, p |-> NoPayload]
    [] OTHER -> [k |-> "err", e |-> Runtime(ToStr(v, "unprintable")), p |-> NoPayload]

(* pop_error: what the Rust side makes of the error value v returned with  *)
(* status code: a typed error, or the resumption of the wrapped panic.     *)
(* LUA_ERRMEM cannot occur (the allocator aborts) and is not a status of   *)
(* the model.                                                              *)
PopError(v, code) ==
  IF IsWrappedError(v) THEN [k |-> "err", e |-> v.e, p |-> NoPayload]
  ELSE IF IsWrappedPanic(v) THEN [k |-> "panic", e |-> NoErr, p |-> v.p]
  ELSE [k |-> "err",
        e |-> IF code = "syntax" THEN Syntax(ToStr(v, "unprintable"))
                                 ELSE Runtime(ToStr(v, "unprintable")),
        p |-> NoPayload]

NoOutcome == [k |-> "none", e |-> NoErr, p |-> NoPayload]

-----------------------------------------------------------------------------
(* Frame bookkeeping *)
TopIdx == Len(frames)
TopFrame == frames[TopIdx]

(* The protected call a lua_error raised by the top frame of fs stops at  *)
(* (L->errorJmp): each frame is linked to it when it is pushed.            *)
NearestBoundary(fs) == fs[Len(fs)].bnd

(* Unwind fs down to boundary b and hand it result r. *)
Deliver(fs, b, r) ==
  frames' = Append(SubSeq(fs, 1, b - 1), [fs[b] EXCEPT !.res = r])

(* lua_error with value v raised by the top frame of fs (luaG_errormsg):   *)
(* the message handler of the nearest protected call runs on top of the   *)
(* raising frame, then the stack unwinds to that call.  xpcall_msgh        *)
(* returns a WrappedPanic at once and calls the user handler on anything   *)
(* else; with no room left for the handler the VM gives up with            *)
(* LUA_ERRERR ("error in error handling").                                 *)
(* Fault variant: xpcall_msgh without its is_wrapped_panic short cut.     *)
RaiseHandlerSeesPanic(fs, v) ==
  LET b == NearestBoundary(fs) IN
  IF fs[b].kind = "xpcall"
    THEN IF Len(fs) < MaxDepth
           THEN frames' = Append(fs, [Frame("lua", "handler", b) EXCEPT !.stk = <<v>>])
           ELSE Deliver(fs, b, ErrResult("errerr", Str("errerr", FALSE)))
  ELSE IF fs[b].kind = "hcall" /\ fs[b].tag = "tb"
    THEN Deliver(fs, b, ErrResult("run", ErrorTraceback(v)))
  ELSE Deliver(fs, b, ErrResult("run", v))

Raise(fs, v) ==
  LET b == NearestBoundary(fs) IN
  IF fs[b].kind = "xpcall" /\ ~IsWrappedPanic(v)
    THEN IF Len(fs) < MaxDepth
           THEN frames' = Append(fs, [Frame("lua", "handler", b) EXCEPT !.stk = <<v>>])
           ELSE Deliver(fs, b, ErrResult("errerr", Str("errerr", FALSE)))
  ELSE IF fs[b].kind = "hcall" /\ fs[b].tag = "tb"
    THEN Deliver(fs, b, ErrResult("run", ErrorTraceback(v)))
  ELSE Deliver(fs, b, ErrResult("run", v))

(* The top frame of fs with its own stack cleared (lua_settop(state, 0)). *)
Cleared(fs) == [fs EXCEPT ![Len(fs)].stk = <<>>]

-----------------------------------------------------------------------------
(* The host *)

(* The host calls a Lua function through lua_pcall, with or without        *)
(* error_traceback as message handler.                                     *)
HostCall(tag) ==
  /\ Len(frames) = 1
  /\ outcome = NoOutcome
  /\ frames' = frames \o <<Frame("hcall", tag, TopFrame.bnd), Frame("lua", "fn", TopIdx + 1)>>
  /\ UNCHANGED <<outcome, raised>>

(* lua_load fails with LUA_ERRSYNTAX and the chunk's message on the stack; *)
(* the host hands it to pop_error.                                         *)
HostLoadFails(m) ==
  /\ Len(frames) = 1
  /\ outcome = NoOutcome
  /\ outcome' = PopError(Str(m, FALSE), "syntax")
  /\ UNCHANGED <<frames, raised>>

(* The host's lua_pcall has returned: pop_error on failure.  A resumed     *)
(* panic (resume_unwind) is the host's outcome.                            *)
HostResume ==
  /\ Len(frames) = 2
  /\ TopFrame.res /= NoRes
  /\ frames' = SubSeq(frames, 1, 1)
  /\ outcome' = IF TopFrame.res.st = "ok"
                  THEN [NoOutcome EXCEPT !.k = "ok"]
                  ELSE PopError(TopFrame.res.vals[1], TopFrame.res.st)
  /\ UNCHANGED raised

(* The host goes on to its next call. *)
HostNext ==
  /\ outcome /= NoOutcome
  /\ outcome' = NoOutcome
  /\ raised' = {}
  /\ UNCHANGED frames

-----------------------------------------------------------------------------
(* A Rust callback, running inside its trampoline. *)
RustRunning ==
  /\ TopFrame.kind = "rust"
  /\ TopFrame.tag \in {"cb", "rcb"}

(* The closure returns Ok with one value (or none) for its Lua caller.     *)
RustReturnOk(vals) ==
  /\ RustRunning
  /\ LET caller == frames[TopIdx - 1] IN
       /\ Len(caller.stk) + Len(vals) <= MaxVals
       /\ frames' = Append(SubSeq(frames, 1, TopIdx - 2),
                           [caller EXCEPT !.stk = @ \o vals])
  /\ UNCHANGED <<outcome, raised>>

(* The closure returns Err(e): an error of its own or, through `?`, the    *)
(* one pop_error gave it.  callback_error clears the stack, pushes a       *)
(* WrappedError and calls lua_error.  rust_callback_error returns          *)
(* RCALL_STACK_ERR for StackError, on which the VM raises its own stack    *)
(* error, and RCALL_ERR with a WrappedError on top otherwise.              *)
RustReturnErr(e) ==
  /\ RustRunning
  /\ e \in OwnErrors \cup ({TopFrame.got} \ {NoErr})
  /\ IF TopFrame.tag = "rcb" /\ e = StackErr
       THEN Raise(Cleared(frames), Str("stack", FALSE))
       ELSE Raise(Cleared(frames), WErr(e))
  /\ UNCHANGED <<outcome, raised>>

(* The closure panics: catch_unwind catches it, the trampoline clears the  *)
(* stack, pushes a WrappedPanic and raises it.                             *)
RustPanic(p) ==
  /\ RustRunning
  /\ Raise(Cleared(frames), WPanic(p))
  /\ raised' = raised \cup {p}
  /\ UNCHANGED outcome

(* The closure calls a Lua function through lua_pcall. *)
RustCallLua(tag) ==
  /\ RustRunning
  /\ TopFrame.res = NoRes
  /\ Len(frames) + 2 <= MaxDepth
  /\ frames' = frames \o <<Frame("hcall", tag, TopFrame.bnd),
                           Frame("lua", "fn", TopIdx + 1)>>
  /\ UNCHANGED <<outcome, raised>>

(* That lua_pcall has returned.  On failure pop_error either gives the     *)
(* closure an Error, which it keeps, or resumes the panic, which unwinds   *)
(* the closure into its trampoline, which wraps the same payload again.    *)
RustResume ==
  /\ Len(frames) > 2
  /\ TopFrame.kind = "hcall"
  /\ TopFrame.res /= NoRes
  /\ LET r == TopFrame.res
         caller == frames[TopIdx - 1]
         below == SubSeq(frames, 1, TopIdx - 2)
     IN IF r.st = "ok"
          THEN frames' = Append(below, caller)
          ELSE LET pe == PopError(r.vals[1], r.st) IN
               IF pe.k = "err"
                 THEN frames' = Append(below, [caller EXCEPT !.got = pe.e])
                 ELSE Raise(Append(below, [caller EXCEPT !.stk = <<>>]), WPanic(pe.p))
  /\ UNCHANGED <<outcome, raised>>

-----------------------------------------------------------------------------
(* A script function (or user message handler) at the top. *)
ScriptRunning ==
  /\ TopFrame.kind = "lua"

(* The script calls a Rust callback. *)
ScriptCall(tag) ==
  /\ ScriptRunning
  /\ Len(frames) < MaxDepth
  /\ frames' = Append(frames, Frame("rust", tag, TopFrame.bnd))
  /\ UNCHANGED <<outcome, raised>>

(* The script calls safe_pcall(f) or safe_xpcall(f, h): the C function     *)
(* calls f through lua_pcall.  Room for the two result values is kept.     *)
ScriptPcall(kind) ==
  /\ ScriptRunning
  /\ Len(TopFrame.stk) + 2 <= MaxVals
  /\ Len(frames) + 2 <= MaxDepth
  /\ frames' = frames \o <<Frame(kind, "-", TopFrame.bnd), Frame("lua", "fn", TopIdx + 1)>>
  /\ UNCHANGED <<outcome, raised>>

(* safe_pcall with no arguments, safe_xpcall with fewer than two: the C    *)
(* function raises a string error.                                         *)
ScriptPcallNoArgs(kind) ==
  /\ ScriptRunning
  /\ Raise(frames, Str(IF kind = "pcall" THEN "pcall_args" ELSE "xpcall_args", FALSE))
  /\ UNCHANGED <<outcome, raised>>

(* error(v) with a value the script holds or makes. *)
ScriptRaise(v) ==
  /\ ScriptRunning
  /\ v \in ScriptValues \cup {TopFrame.stk[i] : i \in DOMAIN TopFrame.stk}
  /\ Raise(frames, v)
  /\ UNCHANGED <<outcome, raised>>

(* tostring on a WrappedError the script holds: the __tostring metamethod  *)
(* error_tostring, run by rust_callback_error, pushes the error's text.    *)
ScriptToString(i) ==
  /\ ScriptRunning
  /\ IsWrappedError(TopFrame.stk[i])
  /\ Len(TopFrame.stk) < MaxVals
  /\ frames' = [frames EXCEPT ![TopIdx].stk = Append(@, Str("display", FALSE))]
  /\ UNCHANGED <<outcome, raised>>

(* The script returns its last value (or none).  A function returns to the *)
(* protected call below it; a message handler's first result is what       *)
(* xpcall_msgh returns, and the stack unwinds to the xpcall.               *)
ScriptReturn ==
  /\ ScriptRunning
  /\ LET stk == TopFrame.stk
         vals == IF stk = <<>> THEN <<>> ELSE <<stk[Len(stk)]>>
     IN IF TopFrame.tag = "fn"
          THEN Deliver(frames, TopIdx - 1, OkResult(vals))
          ELSE Deliver(frames, NearestBoundary(frames),
                       ErrResult("run", IF vals = <<>> THEN Nil ELSE vals[1]))
  /\ UNCHANGED <<outcome, raised>>

-----------------------------------------------------------------------------
(* safe_pcall / safe_xpcall after lua_pcall has returned.  A WrappedPanic  *)
(* is raised again with lua_error; any other failure becomes (false, err), *)
(* success (true, results...).                                             *)
(* Fault variant: safe_pcall without the is_wrapped_panic test after a    *)
(* failed lua_pcall.                                                       *)
PcallResumeCatchesPanic ==
  /\ TopFrame.kind \in {"pcall", "xpcall"}
  /\ TopFrame.res /= NoRes
  /\ LET r == TopFrame.res
         caller == frames[TopIdx - 1]
         below == SubSeq(frames, 1, TopIdx - 2)
     IN frames' = Append(below,
          [caller EXCEPT !.stk = @ \o <<Bool(r.st = "ok")>> \o r.vals])
  /\ UNCHANGED <<outcome, raised>>

PcallResume ==
  /\ TopFrame.kind \in {"pcall", "xpcall"}
  /\ TopFrame.res /= NoRes
  /\ LET r == TopFrame.res
         caller == frames[TopIdx - 1]
         below == SubSeq(frames, 1, TopIdx - 2)
     IN IF r.st /= "ok" /\ IsWrappedPanic(r.vals[1])
          THEN Raise(frames, r.vals[1])
          ELSE frames' = Append(below,
                 [caller EXCEPT !.stk = @ \o <<Bool(r.st = "ok")>> \o r.vals])
  /\ UNCHANGED <<outcome, raised>>

-----------------------------------------------------------------------------
Init ==
  /\ frames = <<Frame("rust", "root", 0)>>
  /\ outcome = NoOutcome
  /\ raised = {}

(* The steps of the binding's own code, which run to completion once      *)
(* enabled: the continuations after lua_pcall returns.                     *)
ProtocolStep == HostResume \/ RustResume \/ PcallResume

Next ==
  \/ \E tag \in {"tb", "plain"} : HostCall(tag) \/ RustCallLua(tag)
  \/ \E m \in Msgs : HostLoadFails(m)
  \/ HostNext
  \/ ProtocolStep
  \/ \E vals \in {<<>>} \cup {<<v>> : v \in ScriptValues} : RustReturnOk(vals)
  \/ \E e \in OwnErrors \cup {TopFrame.got} : RustReturnErr(e)
  \/ \E p \in Payloads : RustPanic(p)
  \/ \E tag \in {"cb", "rcb"} : ScriptCall(tag)
  \/ \E kind \in {"pcall", "xpcall"} : ScriptPcall(kind) \/ ScriptPcallNoArgs(kind)
  \/ \E v \in ScriptValues \cup {TopFrame.stk[i] : i \in DOMAIN TopFrame.stk} :
       ScriptRaise(v)
  \/ \E i \in DOMAIN TopFrame.stk : ScriptToString(i)
  \/ ScriptReturn

Spec == Init /\ [][Next]_vars /\ WF_vars(ProtocolStep)

-----------------------------------------------------------------------------
(* The value domains, for the type invariant. *)
Strs == [t : {"str"}, m : AllMsgs, tb : BOOLEAN]

ErrorKinds == {"runtime", "syntax", "stack", "destructed"}

Errors == [k : ErrorKinds, s : Strs, incomplete : BOOLEAN, wraps : Nat]

Values ==
  Strs \cup {Nil} \cup [t : {"bool"}, b : BOOLEAN]
    \cup [t : {"werr"}, e : Errors] \cup [t : {"wpanic"}, p : Payloads]

Results == [st : {"ok", "run", "errerr"}, vals : Seq(Values)]

Frames ==
  [kind : {"rust", "lua"} \cup Boundaries,
   tag : {"root", "cb", "rcb", "fn", "handler", "tb", "plain", "-"},
   stk : Seq(Values),
   got : Errors \cup {NoErr},
   res : Results \cup {NoRes},
   bnd : Nat]

Outcomes ==
  [k : {"none", "ok", "err", "panic"},
   e : Errors \cup {NoErr},
   p : Payloads \cup {NoPayload}]

TypeOK ==
  /\ frames \in Seq(Frames)
  /\ 1 <= Len(frames) /\ Len(frames) <= MaxDepth
  /\ outcome \in Outcomes
  /\ raised \subseteq Payloads

-----------------------------------------------------------------------------
(* Panic opacity (spec 4.6, 7): no script frame, and no user message       *)
(* handler, ever holds a WrappedPanic.  safe_pcall and safe_xpcall raise a *)
(* caught panic again instead of returning it, and xpcall_msgh returns it  *)
(* before the user handler can see it, however deeply callbacks, scripts   *)
(* and protected calls are nested.                                         *)
PanicNeverScriptVisible ==
  \A i \in 1..Len(frames) :
    frames[i].kind = "lua" =>
      \A j \in DOMAIN frames[i].stk : ~IsWrappedPanic(frames[i].stk[j])

(* A panic raised in a callback reaches the host as that panic: when the   *)
(* host's protected call ends in Ok or Err no panic was raised during it,  *)
(* when it ends in a panic the payload is the one raised, and no second    *)
(* panic is ever raised while one is being carried to the host (no user    *)
(* code runs while a WrappedPanic is in flight).                           *)
PanicReachesHost ==
  /\ Cardinality(raised) <= 1
  /\ outcome.k \in {"ok", "err"} => raised = {}
  /\ outcome.k = "panic" => outcome.p \in raised

(* The panic p is in flight: the protected call on top holds the          *)
(* WrappedPanic as the failed result of its callee.                       *)
InFlight(p) ==
  /\ TopFrame.kind \in Boundaries
  /\ TopFrame.res = ErrResult("run", WPanic(p))

(* No step drops, replaces or holds back a panic in flight.  While one is  *)
(* on its way (lua_pcall has returned it to safe_pcall, safe_xpcall, a    *)
(* Rust lua_pcall or the host), the next step of the code is the one after *)
(* that lua_pcall: it either gives the host the same payload as its        *)
(* outcome, or raises it again, and then it lands, unchanged and as the    *)
(* only panic raised, on a boundary strictly below the one it was on.      *)
(* Nothing else runs in between: no message handler, script or callback.   *)
PanicCarriedDown ==
  [][\A p \in Payloads :
       InFlight(p) =>
         \/ /\ InFlight(p)'
            /\ Len(frames') < Len(frames)
            /\ raised' = raised
         \/ /\ Len(frames') = 1
            /\ outcome'.k = "panic"
            /\ outcome'.p = p]_vars

(* Once a callback has panicked, the host's protected call ends with that  *)
(* panic: the continuations of safe_pcall, safe_xpcall and pop_error carry *)
(* it down without waiting on any script.                                  *)
PanicEventuallyReported ==
  raised /= {} ~> outcome.k = "panic"
=============================================================================
