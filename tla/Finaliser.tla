----------------------------- MODULE Finaliser -----------------------------
(***************************************************************************)
(* The collector side of util.rs: gc_guard, the userdata finaliser         *)
(* (userdata_destructor, take_userdata), the metatables of                 *)
(* init_error_metatables that decide which userdata have a __gc and what a *)
(* destructed one answers, and the three places that allocate under       *)
(* gc_guard (push_wrapped_error/push_wrapped_panic, error_tostring and     *)
(* pop_error's tostring).                                                  *)
(*                                                                         *)
(* One Lua state runs one thing at a time: the operation in op, or, when   *)
(* op is idle, the script and the host.  An allocation point is three      *)
(* steps: the allocation, the VM's luaC_checkGC, which may run one pending *)
(* finaliser (GCTM), and the code after it.  GCTM runs the finaliser with  *)
(* the collector flag cleared and restores it after, so it is one step.  A *)
(* finaliser that raises is reported by GCTM as LUA_ERRGCMM and thrown     *)
(* from the allocation point.                                              *)
(***************************************************************************)
EXTENDS Naturals

CONSTANTS
  Uds,      \* userdata slots
  Events,   \* the metamethod events a script can trigger on a userdata
  NoUd      \* no userdata

ASSUME UdsAssumption == NoUd \notin Uds

VARIABLES
  gcRunning,  \* the collector flag, lua_gc(LUA_GCISRUNNING)
  hostGc,     \* whether the host last asked the collector to run
  guard,      \* the open gc_guard: "closed", or whether it stopped the GC
  op,         \* the util.rs operation in progress and where it is
  st,         \* per slot: free, reachable or unreachable
  mt,         \* per slot: its metatable
  marked,     \* per slot: marked for finalisation (has a pending __gc)
  fin,        \* per slot: has been finalised
  drops,      \* per slot: how often its Rust value has been dropped
  gcError,    \* where the last LUA_ERRGCMM was thrown from
  lost,       \* a finaliser's panic has been turned into an error or dropped
  lastUse     \* the last operation on a userdata, and what it read

udVars == <<st, mt, marked, fin, drops>>
vars == <<gcRunning, hostGc, guard, op, udVars, gcError, lost, lastUse>>

Mts == {"none", "error", "panic", "user", "destructed"}
OpNames == {"idle", "wraperr", "wrappanic", "errstr", "popstr", "useralloc"}
Ops == [name : OpNames, at : {"none", "alloc", "gc", "exit"}, u : Uds \cup {NoUd}]
Idle == [name |-> "idle", at |-> "none", u |-> NoUd]
Results == {"value", "destructed", "vmerr"}
NoUse == [u |-> "none", ev |-> "none", res |-> "none"]
Uses == [u : Uds, ev : Events \cup {"pop"}, res : Results] \cup {NoUse}

(* The operation in progress, moved on to the given point. *)
OpAt(at, u) == [name |-> op.name, at |-> at, u |-> u]

(* Fault variant: the destructed metatable is built with a __gc too.     *)
HasGcDestructed(m) == m \in {"error", "panic", "user", "destructed"}

(* The metatables with a __gc: the error and panic metatables run        *)
(* userdata_destructor, as does the binding's metatable of a Rust type;   *)
(* the destructed metatable has none.                                     *)
HasGc(m) == m \in {"error", "panic", "user"}

(* The events the destructed metatable answers with destructed_error. *)
DestructedMethods ==
  {"__add", "__sub", "__mul", "__div", "__mod", "__pow", "__unm", "__idiv",
   "__band", "__bor", "__bxor", "__bnot", "__shl", "__shr", "__concat",
   "__len", "__eq", "__lt", "__le", "__index", "__newindex", "__call",
   "__tostring", "__pairs", "__ipairs"}

(* lua_setmetatable on slot u, whose mark was b: a metatable with a __gc  *)
(* marks the object for finalisation (luaC_checkfinalizer).               *)
SetMetatable(u, b, m) ==
  /\ mt' = [mt EXCEPT ![u] = m]
  /\ marked' = [marked EXCEPT ![u] = b \/ HasGc(m)]

(* Fault variant: take_userdata moves the value out and keeps the real   *)
(* metatable.                                                             *)
TakeUserdataNoSwap(v) ==
  /\ marked' = [marked EXCEPT ![v] = FALSE]
  /\ drops' = [drops EXCEPT ![v] = @ + 1]
  /\ UNCHANGED mt

(* take_userdata on slot v, called by userdata_destructor from GCTM,      *)
(* which has just taken v off the finaliser list: the destructed          *)
(* metatable goes on first, then the value is moved out and dropped by    *)
(* the finaliser's closure.                                               *)
TakeUserdata(v) ==
  /\ SetMetatable(v, FALSE, "destructed")
  /\ drops' = [drops EXCEPT ![v] = @ + 1]

(* A Rust type's Drop may panic; the envelopes' payloads do not. *)
DropMayPanic(v) == mt[v] = "user"

(* The outcomes of v's finaliser: TRUE when the drop panicked, and        *)
(* callback_error raised the wrapped panic, which GCTM turns into         *)
(* LUA_ERRGCMM.  The panic envelope is garbage at once and not tracked.   *)
DropOutcomes(v) == IF DropMayPanic(v) THEN BOOLEAN ELSE {FALSE}

(* GCTM running userdata_destructor on slot v. *)
Finalise(v) ==
  /\ TakeUserdata(v)
  /\ fin' = [fin EXCEPT ![v] = TRUE]

(* The objects the collector may finalise: unreachable and marked. *)
Pending == {v \in Uds : st[v] = "unreach" /\ marked[v]}

(* The bound of the model: an operation that allocates a userdata starts *)
(* only while a slot is free (the real allocator aborts instead of        *)
(* failing, so an allocation always succeeds).                            *)
SlotFree == \E u \in Uds : st[u] = "free"

(* Fault variant: gc_guard runs the operation without stopping the       *)
(* collector.                                                             *)
GcGuardEnterNoStop ==
  /\ guard' = IF gcRunning THEN "stopped" ELSE "notrunning"
  /\ gcRunning' = gcRunning

(* gc_guard's entry: stop a running collector and remember that it did. *)
GcGuardEnter ==
  /\ guard' = IF gcRunning THEN "stopped" ELSE "notrunning"
  /\ gcRunning' = IF gcRunning THEN FALSE ELSE gcRunning

(* Fault variant: gc_guard restarts the collector on every return.        *)
GcGuardExitAlways ==
  /\ gcRunning' = TRUE
  /\ guard' = "closed"

(* gc_guard's return: restart the collector only if this guard stopped it. *)
GcGuardExit ==
  /\ gcRunning' = IF guard = "stopped" THEN TRUE ELSE gcRunning
  /\ guard' = "closed"

Init ==
  /\ gcRunning = TRUE
  /\ hostGc = TRUE
  /\ guard = "closed"
  /\ op = Idle
  /\ st = [u \in Uds |-> "free"]
  /\ mt = [u \in Uds |-> "none"]
  /\ marked = [u \in Uds |-> FALSE]
  /\ fin = [u \in Uds |-> FALSE]
  /\ drops = [u \in Uds |-> 0]
  /\ gcError = "none"
  /\ lost = FALSE
  /\ lastUse = NoUse

-----------------------------------------------------------------------------
(* The util.rs operations that allocate. *)

(* callback_error's Err or panic arm calls push_wrapped_error or          *)
(* push_wrapped_panic, which allocate inside gc_guard.                    *)
StartWrap(name) ==
  /\ op = Idle
  /\ SlotFree
  /\ GcGuardEnter
  /\ op' = [name |-> name, at |-> "alloc", u |-> NoUd]
  /\ UNCHANGED <<hostGc, udVars, gcError, lost, lastUse>>

(* The allocation itself: a new userdata for an envelope or a Rust value, *)
(* a new string for error_tostring and pop_error.                         *)
Allocate ==
  /\ op.at = "alloc"
  /\ IF op.name \in {"wraperr", "wrappanic", "useralloc"}
       THEN \E u \in Uds :
              /\ st[u] = "free"
              /\ st' = [st EXCEPT ![u] = "reach"]
              /\ op' = OpAt("gc", u)
       ELSE /\ op' = OpAt("gc", op.u)
            /\ UNCHANGED st
  /\ UNCHANGED <<gcRunning, hostGc, guard, mt, marked, fin, drops, gcError, lost, lastUse>>

(* luaC_checkGC after the allocation: nothing, or a running collector     *)
(* finalises one pending object.  A finaliser that raised throws          *)
(* LUA_ERRGCMM from here: out of gc_guard, if one is open, without its    *)
(* restart, and the userdata being built is left as garbage.              *)
CheckGC ==
  /\ op.at = "gc"
  /\ \/ /\ op' = OpAt("exit", op.u)
        /\ UNCHANGED <<gcRunning, guard, udVars, gcError, lost>>
     \/ /\ gcRunning
        /\ \E v \in Pending :
             /\ Finalise(v)
             /\ \E err \in DropOutcomes(v) :
                  IF ~err
                    THEN /\ op' = OpAt("exit", op.u)
                         /\ UNCHANGED <<gcRunning, guard, st, gcError, lost>>
                    ELSE /\ st' = IF op.u = NoUd THEN st
                                  ELSE [st EXCEPT ![op.u] = "unreach"]
                         /\ gcError' = IF guard = "closed" THEN "script" ELSE "guard"
                         /\ lost' = TRUE
                         /\ op' = Idle
                         /\ guard' = "closed"
                         /\ UNCHANGED gcRunning
  /\ UNCHANGED <<hostGc, lastUse>>

(* The metatable an allocating operation gives its new userdata. *)
SetsMt(name) ==
  IF name = "wraperr" THEN "error" ELSE IF name = "wrappanic" THEN "panic" ELSE "user"

(* The code after the allocation: gc_guard returns, then                  *)
(* push_wrapped_error/push_wrapped_panic set the envelope's metatable,    *)
(* push_userdata's caller sets the Rust type's, and pop_error pops the    *)
(* value it printed.                                                      *)
Finish ==
  /\ op.at = "exit"
  /\ IF op.name = "useralloc" THEN UNCHANGED <<gcRunning, guard>> ELSE GcGuardExit
  /\ IF op.name \in {"wraperr", "wrappanic", "useralloc"}
       THEN SetMetatable(op.u, marked[op.u], SetsMt(op.name))
       ELSE UNCHANGED <<mt, marked>>
  /\ st' = IF op.name = "popstr" THEN [st EXCEPT ![op.u] = "unreach"] ELSE st
  /\ op' = Idle
  /\ UNCHANGED <<hostGc, fin, drops, gcError, lost, lastUse>>

-----------------------------------------------------------------------------
(* The script and the host, while no operation is in progress. *)

(* What a metamethod event on slot u reads: its metatable decides. *)
Dispatch(u, ev) ==
  IF mt[u] = "destructed" THEN IF ev \in DestructedMethods THEN "destructed" ELSE "vmerr"
  ELSE IF mt[u] = "user" THEN "value"
  ELSE IF mt[u] = "error" /\ ev = "__tostring" THEN "value"
  ELSE "vmerr"

(* A script applies an event to a userdata it holds.  __tostring on an    *)
(* error envelope runs error_tostring, which reads the error and pushes   *)
(* its string inside gc_guard.                                            *)
ScriptUse(u, ev) ==
  /\ op = Idle
  /\ st[u] = "reach"
  /\ lastUse' = [u |-> u, ev |-> ev, res |-> Dispatch(u, ev)]
  /\ IF mt[u] = "error" /\ ev = "__tostring"
       THEN /\ GcGuardEnter
            /\ op' = [name |-> "errstr", at |-> "alloc", u |-> NoUd]
       ELSE UNCHANGED <<gcRunning, guard, op>>
  /\ UNCHANGED <<hostGc, udVars, gcError, lost>>

(* push_userdata of a Rust value; its metatable is set after. *)
ScriptAlloc ==
  /\ op = Idle
  /\ SlotFree
  /\ op' = [name |-> "useralloc", at |-> "alloc", u |-> NoUd]
  /\ UNCHANGED <<gcRunning, hostGc, guard, udVars, gcError, lost, lastUse>>

(* pop_error on the value at the top: an error envelope is cloned out and *)
(* popped, a panic envelope's payload is taken and the stack cleared;     *)
(* anything else is printed with lua_tostring inside gc_guard.            *)
HostPopError(u) ==
  /\ op = Idle
  /\ st[u] = "reach"
  /\ IF mt[u] \in {"error", "panic"}
       THEN /\ lastUse' = [u |-> u, ev |-> "pop", res |-> "value"]
            /\ st' = [st EXCEPT ![u] = "unreach"]
            /\ UNCHANGED <<gcRunning, guard, op>>
       ELSE /\ lastUse' = [u |-> u, ev |-> "pop", res |-> "vmerr"]
            /\ GcGuardEnter
            /\ op' = [name |-> "popstr", at |-> "alloc", u |-> u]
            /\ UNCHANGED st
  /\ UNCHANGED <<hostGc, mt, marked, fin, drops, gcError, lost>>

(* A script drops its last reference to a userdata. *)
Release(u) ==
  /\ op = Idle
  /\ st[u] = "reach"
  /\ st' = [st EXCEPT ![u] = "unreach"]
  /\ UNCHANGED <<gcRunning, hostGc, guard, op, mt, marked, fin, drops, gcError, lost, lastUse>>

(* A Lua finaliser of another object stores a reference to an            *)
(* unreachable userdata, which is reachable again.                        *)
Resurrect(u) ==
  /\ op = Idle
  /\ st[u] = "unreach"
  /\ st' = [st EXCEPT ![u] = "reach"]
  /\ UNCHANGED <<gcRunning, hostGc, guard, op, mt, marked, fin, drops, gcError, lost, lastUse>>

(* The host stops or restarts the collector. *)
HostGc(on) ==
  /\ op = Idle
  /\ gcRunning' = on
  /\ hostGc' = on
  /\ UNCHANGED <<guard, op, udVars, gcError, lost, lastUse>>

(* collectgarbage("collect") or the host's lua_gc(LUA_GCCOLLECT): a full  *)
(* collection (luaC_fullgc) runs the pending finalisers whether or not    *)
(* the collector is stopped.  GCTM propagates a finaliser's error: it is  *)
(* thrown as LUA_ERRGCMM out of the call, which runs outside any gc_guard. *)
FullGC ==
  /\ op = Idle
  /\ \E v \in Pending :
       /\ Finalise(v)
       /\ \E err \in DropOutcomes(v) :
            /\ lost' = (lost \/ err)
            /\ gcError' = IF err THEN "script" ELSE gcError
  /\ UNCHANGED <<gcRunning, hostGc, guard, op, st, lastUse>>

Next ==
  \/ \E name \in {"wraperr", "wrappanic"} : StartWrap(name)
  \/ Allocate
  \/ CheckGC
  \/ Finish
  \/ ScriptAlloc
  \/ FullGC
  \/ \E on \in BOOLEAN : HostGc(on)
  \/ \E u \in Uds :
       \/ \E ev \in Events : ScriptUse(u, ev)
       \/ HostPopError(u)
       \/ Release(u)
       \/ Resurrect(u)

Spec == Init /\ [][Next]_vars

-----------------------------------------------------------------------------
(* Properties *)

(* The type invariant; drops in 0..1 says that no Rust value is dropped   *)
(* twice, which needs take_userdata's metatable swap to leave nothing for *)
(* a second __gc.                                                         *)
TypeOK ==
  /\ gcRunning \in BOOLEAN
  /\ hostGc \in BOOLEAN
  /\ guard \in {"closed", "stopped", "notrunning"}
  /\ op \in Ops
  /\ st \in [Uds -> {"free", "reach", "unreach"}]
  /\ mt \in [Uds -> Mts]
  /\ marked \in [Uds -> BOOLEAN]
  /\ fin \in [Uds -> BOOLEAN]
  /\ drops \in [Uds -> 0..1]
  /\ gcError \in {"none", "script", "guard"}
  /\ lost \in BOOLEAN
  /\ lastUse \in Uses

(* gc_guard gives the collector back as it found it: whenever util.rs is  *)
(* not inside an operation, the collector runs exactly when the host last *)
(* asked it to, whatever finalisers and errors happened meanwhile.        *)
GcRestored == op = Idle => gcRunning = hostGc

(* No finaliser error is thrown from an allocation inside gc_guard, so a  *)
(* GarbageCollectorError never replaces the error or panic that          *)
(* push_wrapped_error/push_wrapped_panic are carrying, nor the string of  *)
(* error_tostring or pop_error.                                           *)
NoShadowing == gcError /= "guard"

(* A panic in a Rust value's Drop, run by userdata_destructor from the    *)
(* collector, reaches the host as that panic, as callback_error promises  *)
(* for every callback (spec.md: panics are never suppressed).             *)
FinaliserPanicResumed == ~lost

(* The refinement mapping: a slot is free until allocated, dead once it   *)
(* carries the destructed metatable, live otherwise.                      *)
LifeBar == [u \in Uds |-> IF st[u] = "free" THEN "free"
                          ELSE IF mt[u] = "destructed" THEN "dead"
                          ELSE "live"]

Abs == INSTANCE UserdataLifecycle WITH life <- LifeBar, Intercepted <- DestructedMethods

(* The finaliser, take_userdata and the destructed metatable implement    *)
(* the userdata lifecycle: a value is dropped once, when its userdata     *)
(* dies, and is never read after; every intercepted operation on a dead   *)
(* handle answers CallbackDestructed.                                     *)
ImplementsLifecycle == Abs!Spec

=============================================================================
