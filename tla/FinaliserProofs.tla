-------------------------- MODULE FinaliserProofs --------------------------
(***************************************************************************)
(* Proofs about Finaliser for every set of slots and events: the type     *)
(* invariant, that gc_guard restores the collector and is never left by a *)
(* finaliser error, and that the finaliser implements UserdataLifecycle.  *)
(***************************************************************************)
EXTENDS Finaliser, TLAPS

(* The allocating operations, whose new userdata is in op.u after the    *)
(* allocation.                                                            *)
AllocOps == {"wraperr", "wrappanic", "useralloc"}

(* A slot's metatable decides its mark and its drop count, and a free   *)
(* slot has no metatable.                                                 *)
SlotOK(u) ==
  /\ st[u] = "free" => mt[u] = "none"
  /\ (marked[u] <=> HasGc(mt[u]))
  /\ drops[u] = IF mt[u] = "destructed" THEN 1 ELSE 0

(* The inductive invariant.  Beyond the type, it ties the open gc_guard  *)
(* to the operation and to the collector flag, says that the userdata    *)
(* being built has no metatable yet, and that a slot's mark and drop     *)
(* count follow from its metatable.                                       *)
IInv ==
  /\ TypeOK
  /\ guard = "closed" <=> op.name \in {"idle", "useralloc"}
  /\ guard = "closed" => gcRunning = hostGc
  /\ guard = "stopped" => ~gcRunning /\ hostGc
  /\ guard = "notrunning" => ~gcRunning /\ ~hostGc
  /\ op.name = "idle" => op = Idle
  /\ op.name /= "idle" => op.at \in {"alloc", "gc", "exit"}
  /\ op.name \in AllocOps /\ op.at \in {"gc", "exit"} =>
       op.u \in Uds /\ st[op.u] = "reach" /\ mt[op.u] = "none"
  /\ op.name = "popstr" => op.u \in Uds /\ st[op.u] = "reach"
  /\ \A u \in Uds : SlotOK(u)
  /\ gcError /= "guard"

(* An operation record built from a name, a point and a slot is an      *)
(* operation.                                                             *)
LEMMA OpTyped ==
  ASSUME NEW n \in OpNames, NEW a \in {"none", "alloc", "gc", "exit"},
         NEW x \in Uds \cup {NoUd}
  PROVE  [name |-> n, at |-> a, u |-> x] \in Ops
BY DEF Ops

-----------------------------------------------------------------------------
(* The invariant holds initially and is kept by every action. *)

LEMMA InitIInv == Init => IInv
<1> SUFFICES ASSUME Init PROVE IInv
  OBVIOUS
<1>1. Idle \in Ops
  BY OpTyped DEF Idle, OpNames
<1>2. NoUse \in Uses
  BY DEF NoUse, Uses
<1>3. st \in [Uds -> {"free", "reach", "unreach"}] /\ mt \in [Uds -> Mts]
  BY DEF Init, Mts
<1>4. marked \in [Uds -> BOOLEAN] /\ fin \in [Uds -> BOOLEAN]
  BY DEF Init
<1>5. drops \in [Uds -> 0..1]
  BY DEF Init
<1>6. TypeOK
  BY <1>1, <1>2, <1>3, <1>4, <1>5 DEF Init, TypeOK
<1>7. \A u \in Uds : (marked[u] <=> HasGc(mt[u]))
  BY DEF Init, HasGc
<1>8. \A u \in Uds : drops[u] = IF mt[u] = "destructed" THEN 1 ELSE 0
  BY DEF Init
<1>9. op.name = "idle" /\ op = Idle
  BY DEF Init, Idle
<1>10. QED
  BY <1>6, <1>7, <1>8, <1>9 DEF Init, IInv, SlotOK, AllocOps

(* push_wrapped_error/push_wrapped_panic entering gc_guard keep IInv. *)
LEMMA StartWrapInv ==
  ASSUME IInv, NEW name \in {"wraperr", "wrappanic"}, StartWrap(name)
  PROVE  IInv'
<1>1. op' \in Ops
  BY OpTyped DEF StartWrap, OpNames
<1>2. guard' \in {"stopped", "notrunning"} /\ ~gcRunning'
  BY DEF StartWrap, GcGuardEnter, IInv, TypeOK
<1>3. op = Idle /\ guard = "closed" /\ gcRunning = hostGc
  BY DEF StartWrap, IInv, Idle
<1>4. QED
  BY <1>1, <1>2, <1>3 DEF IInv, SlotOK, TypeOK, StartWrap, GcGuardEnter, AllocOps, udVars

(* push_userdata starting an allocation keeps IInv. *)
LEMMA ScriptAllocInv ==
  ASSUME IInv, ScriptAlloc
  PROVE  IInv'
<1>1. op' \in Ops
  BY OpTyped DEF ScriptAlloc, OpNames
<1>2. QED
  BY <1>1 DEF IInv, SlotOK, TypeOK, ScriptAlloc, Idle, AllocOps, udVars

(* The host's lua_gc stop or restart keeps IInv. *)
LEMMA HostGcInv ==
  ASSUME IInv, NEW on \in BOOLEAN, HostGc(on)
  PROVE  IInv'
BY DEF IInv, SlotOK, TypeOK, HostGc, Idle, udVars

(* A script dropping a reference keeps IInv. *)
LEMMA ReleaseInv ==
  ASSUME IInv, NEW u \in Uds, Release(u)
  PROVE  IInv'
BY DEF IInv, SlotOK, TypeOK, Release, Idle, AllocOps

(* Resurrection by another object's finaliser keeps IInv. *)
LEMMA ResurrectInv ==
  ASSUME IInv, NEW u \in Uds, Resurrect(u)
  PROVE  IInv'
BY DEF IInv, SlotOK, TypeOK, Resurrect, Idle, AllocOps

(* Finalising a pending slot: the slot was live and undropped; it ends    *)
(* destructed, unmarked and dropped once, and no other slot changes.      *)
LEMMA FinaliseFacts ==
  ASSUME IInv, NEW v \in Pending, Finalise(v)
  PROVE  /\ mt[v] /= "destructed" /\ mt[v] /= "none" /\ st[v] = "unreach"
         /\ mt' = [mt EXCEPT ![v] = "destructed"]
         /\ drops' = [drops EXCEPT ![v] = 1]
         /\ marked' = [marked EXCEPT ![v] = FALSE]
         /\ mt' \in [Uds -> Mts] /\ marked' \in [Uds -> BOOLEAN]
         /\ fin' \in [Uds -> BOOLEAN] /\ drops' \in [Uds -> 0..1]
         /\ \A u \in Uds : st'[u] = st[u] => SlotOK(u)'
<1>1. v \in Uds /\ st[v] = "unreach" /\ marked[v]
  BY DEF Pending
<1>2. HasGc(mt[v]) /\ mt[v] /= "destructed" /\ mt[v] /= "none" /\ drops[v] = 0
  BY <1>1 DEF IInv, SlotOK, HasGc
<1>3. mt' = [mt EXCEPT ![v] = "destructed"]
  BY DEF Finalise, TakeUserdata, SetMetatable
<1>4. marked' = [marked EXCEPT ![v] = FALSE]
  <2>1. (FALSE \/ HasGc("destructed")) = FALSE
    BY DEF HasGc
  <2>2. QED
    BY <2>1, Zenon DEF Finalise, TakeUserdata, SetMetatable
<1>5. drops' = [drops EXCEPT ![v] = 1]
  BY <1>1, <1>2 DEF Finalise, TakeUserdata, IInv, TypeOK
<1>6. fin' = [fin EXCEPT ![v] = TRUE]
  BY DEF Finalise
<1>7. QED
  BY <1>1, <1>2, <1>3, <1>4, <1>5, <1>6 DEF IInv, TypeOK, Mts, HasGc, SlotOK

(* A full collection running one finaliser keeps IInv. *)
LEMMA FullGCInv ==
  ASSUME IInv, FullGC
  PROVE  IInv'
<1>1. PICK v \in Pending : Finalise(v) /\ \E err \in DropOutcomes(v) : lost' = (lost \/ err)
  BY DEF FullGC
<1>2. lost' \in BOOLEAN
  BY <1>1 DEF DropOutcomes
<1>3. \A u \in Uds : SlotOK(u)'
  BY <1>1, FinaliseFacts DEF FullGC
<1>4. QED
  BY <1>1, <1>2, <1>3, FinaliseFacts DEF IInv, TypeOK, FullGC, Idle, AllocOps

(* The allocation inside gc_guard or push_userdata keeps IInv. *)
LEMMA AllocateInv ==
  ASSUME IInv, Allocate
  PROVE  IInv'
<1>1. op.name /= "idle" /\ op.at = "alloc"
  BY DEF Allocate, IInv, Idle
<1>2. CASE op.name \in AllocOps
  <2>1. PICK u \in Uds : /\ st[u] = "free"
                         /\ st' = [st EXCEPT ![u] = "reach"]
                         /\ op' = OpAt("gc", u)
    BY <1>2 DEF Allocate, AllocOps
  <2>2. op' \in Ops /\ op'.name = op.name /\ op'.at = "gc" /\ op'.u = u
    BY <2>1, OpTyped DEF OpAt, IInv, TypeOK, Ops
  <2>3. mt[u] = "none"
    BY <2>1 DEF IInv, SlotOK
  <2>4. \A x \in Uds : SlotOK(x)'
    BY <2>1, <2>3 DEF Allocate, IInv, SlotOK, TypeOK
  <2>5. QED
    BY <1>1, <1>2, <2>1, <2>2, <2>3, <2>4 DEF IInv, TypeOK, Allocate
<1>3. CASE op.name \notin AllocOps
  <2>1. op' = OpAt("gc", op.u) /\ st' = st
    BY <1>3 DEF Allocate, AllocOps
  <2>2. op' \in Ops /\ op'.name = op.name /\ op'.at = "gc" /\ op'.u = op.u
    BY <2>1, OpTyped DEF OpAt, IInv, TypeOK, Ops
  <2>3. QED
    BY <1>1, <1>3, <2>1, <2>2 DEF IInv, TypeOK, Allocate, SlotOK
<1>4. QED
  BY <1>2, <1>3

(* luaC_checkGC after an allocation, finaliser error included, keeps IInv. *)
LEMMA CheckGCInv ==
  ASSUME IInv, CheckGC
  PROVE  IInv'
<1>1. op.name /= "idle" /\ op.at = "gc"
  BY DEF CheckGC, IInv, Idle
<1>2. OpAt("exit", op.u) \in Ops
  BY <1>1, OpTyped DEF OpAt, IInv, TypeOK, Ops
<1>3. CASE /\ op' = OpAt("exit", op.u)
           /\ UNCHANGED <<gcRunning, guard, udVars, gcError, lost>>
  BY <1>1, <1>2, <1>3 DEF CheckGC, IInv, TypeOK, SlotOK, OpAt, udVars
<1>4. CASE /\ gcRunning
           /\ \E v \in Pending :
                /\ Finalise(v)
                /\ \E err \in DropOutcomes(v) :
                     IF ~err
                       THEN /\ op' = OpAt("exit", op.u)
                            /\ UNCHANGED <<gcRunning, guard, st, gcError, lost>>
                       ELSE /\ st' = IF op.u = NoUd THEN st
                                     ELSE [st EXCEPT ![op.u] = "unreach"]
                            /\ gcError' = IF guard = "closed" THEN "script" ELSE "guard"
                            /\ lost' = TRUE
                            /\ op' = Idle
                            /\ guard' = "closed"
                            /\ UNCHANGED gcRunning
  <2>1. guard = "closed" /\ op.name = "useralloc" /\ gcRunning = hostGc
    <3>1. gcRunning
      BY <1>4
    <3>2. guard \in {"closed", "stopped", "notrunning"}
      BY DEF IInv, TypeOK
    <3>3. guard = "closed"
      BY <3>1, <3>2 DEF IInv
    <3>4. op.name = "useralloc"
      BY <1>1, <3>3 DEF IInv
    <3>5. QED
      BY <3>3, <3>4 DEF IInv
  <2>2. PICK v \in Pending : /\ Finalise(v)
                             /\ \E err \in DropOutcomes(v) :
                                  IF ~err
                                    THEN /\ op' = OpAt("exit", op.u)
                                         /\ UNCHANGED <<gcRunning, guard, st, gcError, lost>>
                                    ELSE /\ st' = IF op.u = NoUd THEN st
                                                  ELSE [st EXCEPT ![op.u] = "unreach"]
                                         /\ gcError' = IF guard = "closed" THEN "script" ELSE "guard"
                                         /\ lost' = TRUE
                                         /\ op' = Idle
                                         /\ guard' = "closed"
                                         /\ UNCHANGED gcRunning
    BY <1>4
  <2>3. op.u \in Uds /\ st[op.u] = "reach" /\ mt[op.u] = "none" /\ v /= op.u
    BY <1>1, <2>1 DEF IInv, AllocOps, Pending
  <2>4. PICK err \in DropOutcomes(v) :
             IF ~err
               THEN /\ op' = OpAt("exit", op.u)
                    /\ UNCHANGED <<gcRunning, guard, st, gcError, lost>>
               ELSE /\ st' = IF op.u = NoUd THEN st
                             ELSE [st EXCEPT ![op.u] = "unreach"]
                    /\ gcError' = IF guard = "closed" THEN "script" ELSE "guard"
                    /\ lost' = TRUE
                    /\ op' = Idle
                    /\ guard' = "closed"
                    /\ UNCHANGED gcRunning
    BY <2>2
  <2>5. err \in BOOLEAN
    BY DEF DropOutcomes
  <2>6. CASE ~err
    <3>1. op' = OpAt("exit", op.u) /\ UNCHANGED <<gcRunning, guard, st, gcError, lost>>
      BY <2>4, <2>6
    <3>2. \A u \in Uds : SlotOK(u)'
      BY <2>2, <3>1, FinaliseFacts
    <3>3. mt'[op.u] = "none"
      BY <2>2, <2>3, FinaliseFacts
    <3>4. QED
      BY <1>1, <1>2, <2>1, <2>2, <2>3, <3>1, <3>2, <3>3, FinaliseFacts
         DEF IInv, TypeOK, CheckGC, OpAt
  <2>7. CASE err
    <3>1. /\ st' = [st EXCEPT ![op.u] = "unreach"]
          /\ gcError' = "script" /\ lost' = TRUE /\ op' = Idle /\ guard' = "closed"
          /\ UNCHANGED gcRunning
      BY <2>1, <2>3, <2>4, <2>7, UdsAssumption
    <3>2. \A u \in Uds : u /= op.u => st'[u] = st[u]
      BY <3>1
    <3>3. \A u \in Uds : SlotOK(u)'
      BY <2>2, <2>3, <3>1, <3>2, FinaliseFacts DEF SlotOK, IInv, TypeOK
    <3>4. st' \in [Uds -> {"free", "reach", "unreach"}]
      BY <3>1 DEF IInv, TypeOK
    <3>5. QED
      BY <2>1, <2>2, <3>1, <3>3, <3>4, FinaliseFacts
         DEF IInv, TypeOK, CheckGC, Idle, Ops, OpNames
  <2>8. QED
    BY <2>5, <2>6, <2>7
<1>5. QED
  BY <1>3, <1>4 DEF CheckGC

(* gc_guard's return and the lua_setmetatable or pop after it keep IInv. *)
LEMMA FinishInv ==
  ASSUME IInv, Finish
  PROVE  IInv'
<1>1. op.name /= "idle" /\ op.at = "exit" /\ op' = Idle
  BY DEF Finish, IInv, Idle
<1>2. Idle \in Ops
  BY OpTyped DEF Idle, OpNames
<1>3. UNCHANGED <<hostGc, fin, drops, gcError, lost, lastUse>>
  BY DEF Finish
<1>0. /\ st \in [Uds -> {"free", "reach", "unreach"}]
      /\ mt \in [Uds -> Mts] /\ marked \in [Uds -> BOOLEAN]
      /\ fin \in [Uds -> BOOLEAN] /\ drops \in [Uds -> 0..1]
      /\ gcRunning \in BOOLEAN /\ hostGc \in BOOLEAN
      /\ gcError \in {"none", "script", "guard"} /\ gcError /= "guard"
      /\ lost \in BOOLEAN /\ lastUse \in Uses
  BY DEF IInv, TypeOK
<1>4. gcRunning' = hostGc /\ guard' = "closed"
  <2>1. CASE op.name = "useralloc"
    BY <1>1, <2>1 DEF Finish, IInv
  <2>2. CASE op.name /= "useralloc"
    <3>1. GcGuardExit
      BY <2>2 DEF Finish
    <3>2. guard' = "closed"
      BY <3>1 DEF GcGuardExit
    <3>3. CASE guard = "stopped"
      <4>1. hostGc /\ gcRunning' = TRUE
        BY <3>1, <3>3 DEF GcGuardExit, IInv
      <4>2. QED
        BY <1>0, <3>2, <4>1
    <3>4. CASE guard = "notrunning"
      <4>1. ~hostGc /\ ~gcRunning /\ gcRunning' = gcRunning
        BY <3>1, <3>4 DEF GcGuardExit, IInv
      <4>2. QED
        BY <1>0, <3>2, <4>1
    <3>5. QED
      BY <1>1, <2>2, <3>3, <3>4 DEF IInv, TypeOK
  <2>3. QED
    BY <2>1, <2>2
<1>5. st' \in [Uds -> {"free", "reach", "unreach"}]
      /\ \A u \in Uds : u /= op.u => st'[u] = st[u]
  <2>1. CASE op.name = "popstr"
    BY <1>0, <2>1 DEF Finish
  <2>3. CASE op.name /= "popstr"
    BY <1>0, <2>3 DEF Finish
  <2>4. QED
    BY <2>1, <2>3
<1>9. ASSUME mt' \in [Uds -> Mts], marked' \in [Uds -> BOOLEAN],
             \A u \in Uds : SlotOK(u)'
      PROVE  IInv'
  <2>1. TypeOK'
    BY <1>0, <1>1, <1>2, <1>3, <1>4, <1>5, <1>9 DEF TypeOK
  <2>2. QED
    BY <1>1, <1>3, <1>4, <1>0, <1>9, <2>1 DEF IInv, Idle
<1>6. CASE op.name \in AllocOps
  <2>1. op.u \in Uds /\ st[op.u] = "reach" /\ mt[op.u] = "none" /\ op.name /= "popstr"
    BY <1>1, <1>6 DEF IInv, AllocOps
  <2>2. ~marked[op.u] /\ drops[op.u] = 0
    BY <2>1 DEF IInv, SlotOK, HasGc
  <2>3. SetsMt(op.name) \in {"error", "panic", "user"}
    BY DEF SetsMt
  <2>4. SetMetatable(op.u, marked[op.u], SetsMt(op.name))
    BY <1>6 DEF Finish, AllocOps
  <2>5. mt' = [mt EXCEPT ![op.u] = SetsMt(op.name)]
    BY <2>4 DEF SetMetatable
  <2>6. marked' = [marked EXCEPT ![op.u] = TRUE]
    <3>1. (marked[op.u] \/ HasGc(SetsMt(op.name))) = TRUE
      BY <2>3 DEF HasGc
    <3>2. QED
      BY <2>4, <3>1, Zenon DEF SetMetatable
  <2>7. st' = st
    BY <2>1 DEF Finish
  <2>8. mt' \in [Uds -> Mts] /\ marked' \in [Uds -> BOOLEAN]
    BY <1>0, <2>1, <2>3, <2>5, <2>6 DEF Mts
  <2>9. \A w \in Uds : w = op.u => SlotOK(w)'
    <3>0. SUFFICES ASSUME NEW w \in Uds, w = op.u PROVE SlotOK(w)'
      OBVIOUS
    <3>1. mt'[w] = SetsMt(op.name) /\ marked'[w] = TRUE
      BY <1>0, <2>1, <2>5, <2>6, <3>0
    <3>2. st'[w] = "reach" /\ drops'[w] = 0
      BY <1>3, <2>1, <2>2, <2>7, <3>0
    <3>3. HasGc(mt'[w]) /\ mt'[w] /= "destructed" /\ mt'[w] /= "none"
      BY <2>3, <3>1 DEF HasGc
    <3>4. QED
      BY <3>1, <3>2, <3>3 DEF SlotOK
  <2>10. \A u \in Uds : u /= op.u => SlotOK(u)'
    BY <1>3, <2>5, <2>6, <2>7 DEF IInv, SlotOK
  <2>11. QED
    BY <1>9, <2>8, <2>9, <2>10
<1>7. CASE op.name \notin AllocOps
  <2>1. UNCHANGED <<mt, marked>>
    BY <1>7 DEF Finish, AllocOps
  <2>2. \A u \in Uds : SlotOK(u)'
    <3>1. SUFFICES ASSUME NEW u \in Uds PROVE SlotOK(u)'
      OBVIOUS
    <3>2. CASE u = op.u
      <4>1. op.name = "popstr" => st'[u] = "unreach"
        BY <1>0, <3>2 DEF Finish
      <4>2. op.name /= "popstr" => st'[u] = st[u]
        BY DEF Finish
      <4>3. QED
        BY <1>3, <2>1, <4>1, <4>2 DEF IInv, SlotOK
    <3>3. CASE u /= op.u
      BY <1>3, <1>5, <2>1, <3>3 DEF IInv, SlotOK
    <3>4. QED
      BY <3>2, <3>3
  <2>3. QED
    BY <1>0, <1>9, <2>1, <2>2
<1>8. QED
  BY <1>6, <1>7

(* A script event on a userdata, error_tostring included, keeps IInv. *)
LEMMA ScriptUseInv ==
  ASSUME IInv, NEW u \in Uds, NEW ev \in Events, ScriptUse(u, ev)
  PROVE  IInv'
<1>1. op = Idle /\ guard = "closed" /\ gcRunning = hostGc
  BY DEF ScriptUse, IInv, Idle
<1>2. Dispatch(u, ev) \in Results
  BY DEF Dispatch, Results
<1>3. lastUse' \in Uses
  BY <1>2 DEF ScriptUse, Uses
<1>4. [name |-> "errstr", at |-> "alloc", u |-> NoUd] \in Ops
  BY OpTyped DEF OpNames
<1>5. CASE mt[u] = "error" /\ ev = "__tostring"
  <2>1. \/ guard' = "stopped" /\ gcRunning' = FALSE /\ hostGc = TRUE
        \/ guard' = "notrunning" /\ gcRunning' = FALSE /\ hostGc = FALSE
    BY <1>1, <1>5 DEF ScriptUse, GcGuardEnter, IInv, TypeOK
  <2>2. op' = [name |-> "errstr", at |-> "alloc", u |-> NoUd]
    BY <1>5 DEF ScriptUse
  <2>3. UNCHANGED <<hostGc, udVars, gcError, lost>>
    BY DEF ScriptUse
  <2>4. TypeOK'
    <3>1. TypeOK
      BY DEF IInv
    <3>2. UNCHANGED <<st, mt, marked, fin, drops>>
      BY <2>3 DEF udVars
    <3>3. gcRunning' = FALSE /\ guard' \in {"closed", "stopped", "notrunning"}
      BY <2>1
    <3>4. QED
      BY <1>3, <1>4, <2>2, <2>3, <3>1, <3>2, <3>3 DEF TypeOK
  <2>5. \A w \in Uds : SlotOK(w)'
    BY <2>3 DEF IInv, SlotOK, udVars
  <2>6. QED
    BY <2>1, <2>2, <2>3, <2>4, <2>5 DEF IInv, AllocOps
<1>6. CASE ~(mt[u] = "error" /\ ev = "__tostring")
  BY <1>1, <1>3, <1>6 DEF IInv, SlotOK, TypeOK, ScriptUse, udVars
<1>7. QED
  BY <1>5, <1>6

(* pop_error on a userdata keeps IInv. *)
LEMMA HostPopErrorInv ==
  ASSUME IInv, NEW u \in Uds, HostPopError(u)
  PROVE  IInv'
<1>1. op = Idle /\ guard = "closed" /\ gcRunning = hostGc /\ st[u] = "reach"
  BY DEF HostPopError, IInv, Idle
<1>2. CASE mt[u] \in {"error", "panic"}
  <2>1. lastUse' \in Uses
    BY <1>2 DEF HostPopError, Uses, Results
  <2>2. st' = [st EXCEPT ![u] = "unreach"] /\ UNCHANGED <<gcRunning, guard, op>>
    BY <1>2 DEF HostPopError
  <2>3. UNCHANGED <<hostGc, mt, marked, fin, drops, gcError, lost>>
    BY DEF HostPopError
  <2>4. \A w \in Uds : SlotOK(w)'
    BY <1>1, <2>2, <2>3 DEF IInv, SlotOK
  <2>5. QED
    BY <1>1, <2>1, <2>2, <2>3, <2>4 DEF IInv, TypeOK, Idle
<1>3. CASE mt[u] \notin {"error", "panic"}
  <2>1. lastUse' \in Uses
    BY <1>3 DEF HostPopError, Uses, Results
  <2>2. [name |-> "popstr", at |-> "alloc", u |-> u] \in Ops
    BY OpTyped DEF OpNames
  <2>3. \/ guard' = "stopped" /\ gcRunning' = FALSE /\ hostGc = TRUE
        \/ guard' = "notrunning" /\ gcRunning' = FALSE /\ hostGc = FALSE
    BY <1>1, <1>3 DEF HostPopError, GcGuardEnter, IInv, TypeOK
  <2>4. op' = [name |-> "popstr", at |-> "alloc", u |-> u]
    BY <1>3 DEF HostPopError
  <2>5. UNCHANGED <<hostGc, st, mt, marked, fin, drops, gcError, lost>>
    BY <1>3 DEF HostPopError
  <2>6. TypeOK'
    <3>1. TypeOK
      BY DEF IInv
    <3>2. gcRunning' = FALSE /\ guard' \in {"closed", "stopped", "notrunning"}
      BY <2>3
    <3>3. QED
      BY <2>1, <2>2, <2>4, <2>5, <3>1, <3>2 DEF TypeOK
  <2>7. \A w \in Uds : SlotOK(w)'
    BY <2>5 DEF IInv, SlotOK
  <2>8. st'[u] = "reach"
    BY <1>1, <2>5
  <2>9. QED
    BY <2>3, <2>4, <2>5, <2>6, <2>7, <2>8 DEF IInv, AllocOps
<1>4. QED
  BY <1>2, <1>3

(* Every step of the model, or a stutter, keeps the invariant. *)
LEMMA IInvStep == IInv /\ [Next]_vars => IInv'
<1> SUFFICES ASSUME IInv, [Next]_vars PROVE IInv'
  OBVIOUS
<1>1. CASE \E name \in {"wraperr", "wrappanic"} : StartWrap(name)
  BY <1>1, StartWrapInv
<1>2. CASE Allocate
  BY <1>2, AllocateInv
<1>3. CASE CheckGC
  BY <1>3, CheckGCInv
<1>4. CASE Finish
  BY <1>4, FinishInv
<1>5. CASE ScriptAlloc
  BY <1>5, ScriptAllocInv
<1>6. CASE FullGC
  BY <1>6, FullGCInv
<1>7. CASE \E on \in BOOLEAN : HostGc(on)
  BY <1>7, HostGcInv
<1>8. CASE \E u \in Uds : \E ev \in Events : ScriptUse(u, ev)
  BY <1>8, ScriptUseInv
<1>9. CASE \E u \in Uds : HostPopError(u)
  BY <1>9, HostPopErrorInv
<1>10. CASE \E u \in Uds : Release(u)
  BY <1>10, ReleaseInv
<1>11. CASE \E u \in Uds : Resurrect(u)
  BY <1>11, ResurrectInv
<1>12. CASE UNCHANGED vars
  <2>1. UNCHANGED <<gcRunning, hostGc, guard, op, st, mt, marked, fin, drops,
                    gcError, lost, lastUse>>
    BY <1>12 DEF vars, udVars
  <2>2. TypeOK'
    BY <2>1 DEF IInv, TypeOK
  <2>3. \A u \in Uds : SlotOK(u)'
    BY <2>1 DEF IInv, SlotOK
  <2>4. QED
    BY <2>1, <2>2, <2>3 DEF IInv
<1>13. QED
  BY <1>1, <1>2, <1>3, <1>4, <1>5, <1>6, <1>7, <1>8, <1>9, <1>10, <1>11, <1>12
     DEF Next

(* The invariant holds in every reachable state. *)
LEMMA IInvHolds == Spec => []IInv
BY InitIInv, IInvStep, PTL DEF Spec

-----------------------------------------------------------------------------
(* The theorems *)

(* Type correctness of the finaliser model for every set of slots and     *)
(* events: in particular no Rust value is ever dropped twice, however     *)
(* finalisers, full collections and resurrections interleave with         *)
(* take_userdata.                                                         *)
THEOREM FinaliserTypeCorrect == Spec => []TypeOK
<1>1. IInv => TypeOK
  BY DEF IInv
<1>2. QED
  BY <1>1, IInvHolds, PTL

(* gc_guard gives the collector back as it found it: outside an operation *)
(* the collector runs exactly when the host last asked it to, whatever     *)
(* finalisers and LUA_ERRGCMM errors happened inside a guard.             *)
THEOREM GcGuardRestores == Spec => []GcRestored
<1>1. IInv => GcRestored
  BY DEF IInv, GcRestored, Idle
<1>2. QED
  BY <1>1, IInvHolds, PTL

(* No finaliser error reaches a script from inside gc_guard: a collection *)
(* step only runs while no guard has stopped the collector.               *)
THEOREM NoShadowingHolds == Spec => []NoShadowing
<1>1. IInv => NoShadowing
  BY DEF IInv, NoShadowing
<1>2. QED
  BY <1>1, IInvHolds, PTL

-----------------------------------------------------------------------------
(* Refinement of UserdataLifecycle under the mapping LifeBar. *)

(* LifeBar does not move when no slot leaves or enters "free" and no     *)
(* allocated slot gains or loses the destructed metatable.               *)
LEMMA LifeBarSame ==
  ASSUME \A u \in Uds : /\ st'[u] = "free" <=> st[u] = "free"
                        /\ st[u] /= "free" =>
                             (mt'[u] = "destructed" <=> mt[u] = "destructed")
  PROVE  LifeBar' = LifeBar
BY DEF LifeBar

(* A collector finalising v is the abstract Destroy(v). *)
LEMMA FinaliseDestroys ==
  ASSUME IInv, NEW v \in Pending, Finalise(v), UNCHANGED lastUse,
         \A u \in Uds : st'[u] = "free" <=> st[u] = "free"
  PROVE  Abs!Destroy(v)
<1>1. v \in Uds /\ st[v] = "unreach"
  BY DEF Pending
<1>2. /\ mt[v] /= "destructed" /\ mt' = [mt EXCEPT ![v] = "destructed"]
      /\ drops' = [drops EXCEPT ![v] = 1]
  BY FinaliseFacts
<1>3. drops[v] = 0
  BY <1>1, <1>2 DEF IInv, SlotOK
<1>4. LifeBar[v] = "live"
  BY <1>1, <1>2 DEF LifeBar
<1>5. mt \in [Uds -> Mts] /\ drops \in [Uds -> 0..1]
  BY DEF IInv, TypeOK
<1>6. LifeBar' = [LifeBar EXCEPT ![v] = "dead"]
  BY <1>1, <1>2, <1>5 DEF LifeBar
<1>7. drops' = [drops EXCEPT ![v] = @ + 1]
  BY <1>2, <1>3, <1>5
<1>8. QED
  BY <1>4, <1>6, <1>7 DEF Abs!Destroy

(* An allocation is the abstract Create, or a stutter for a string. *)
LEMMA AllocateRefines ==
  ASSUME IInv, Allocate
  PROVE  [Abs!Next]_Abs!vars
<1>1. UNCHANGED <<mt, drops, lastUse>>
  BY DEF Allocate
<1>2. CASE op.name \in {"wraperr", "wrappanic", "useralloc"}
  <2>1. PICK u \in Uds : st[u] = "free" /\ st' = [st EXCEPT ![u] = "reach"]
    BY <1>2 DEF Allocate
  <2>2. mt[u] = "none" /\ st \in [Uds -> {"free", "reach", "unreach"}]
    BY <2>1 DEF IInv, SlotOK, TypeOK
  <2>3. LifeBar' = [LifeBar EXCEPT ![u] = "live"]
    BY <1>1, <2>1, <2>2 DEF LifeBar
  <2>4. Abs!Create(u)
    BY <1>1, <2>1, <2>3 DEF Abs!Create, LifeBar
  <2>5. QED
    BY <2>4 DEF Abs!Next
<1>3. CASE op.name \notin {"wraperr", "wrappanic", "useralloc"}
  BY <1>1, <1>3 DEF Allocate, LifeBar, Abs!vars
<1>4. QED
  BY <1>2, <1>3

(* A collection step after an allocation is Destroy or a stutter. *)
LEMMA CheckGCRefines ==
  ASSUME IInv, CheckGC
  PROVE  [Abs!Next]_Abs!vars
<1>1. UNCHANGED lastUse
  BY DEF CheckGC
<1>2. CASE UNCHANGED udVars
  BY <1>1, <1>2 DEF udVars, LifeBar, Abs!vars
<1>3. CASE ~UNCHANGED udVars
  <2>1. PICK v \in Pending : /\ Finalise(v)
                             /\ \E err \in DropOutcomes(v) :
                                  IF ~err
                                    THEN UNCHANGED st
                                    ELSE st' = IF op.u = NoUd THEN st
                                               ELSE [st EXCEPT ![op.u] = "unreach"]
    BY <1>3 DEF CheckGC, udVars
  <2>2. st \in [Uds -> {"free", "reach", "unreach"}]
    BY DEF IInv, TypeOK
  <2>3. \A u \in Uds : st'[u] = "free" <=> st[u] = "free"
    <3>1. CASE op.u \in Uds /\ st[op.u] = "reach"
      BY <2>1, <2>2, <3>1
    <3>2. CASE ~(op.u \in Uds /\ st[op.u] = "reach")
      <4>1. gcRunning
        BY <1>3 DEF CheckGC, udVars
      <4>2. guard \in {"closed", "stopped", "notrunning"}
        BY DEF IInv, TypeOK
      <4>3. guard = "closed"
        BY <4>1, <4>2 DEF IInv
      <4>4. op.name = "useralloc" /\ op.at = "gc"
        BY <4>3 DEF IInv, CheckGC, Idle
      <4>5. QED
        BY <3>2, <4>4 DEF IInv, AllocOps
    <3>3. QED
      BY <3>1, <3>2
  <2>4. Abs!Destroy(v)
    BY <1>1, <2>1, <2>3, FinaliseDestroys
  <2>5. v \in Uds
    BY DEF Pending
  <2>6. QED
    BY <2>4, <2>5 DEF Abs!Next
<1>4. QED
  BY <1>2, <1>3

(* A full collection's finaliser is Destroy. *)
LEMMA FullGCRefines ==
  ASSUME IInv, FullGC
  PROVE  [Abs!Next]_Abs!vars
<1>1. PICK v \in Pending : Finalise(v)
  BY DEF FullGC
<1>2. Abs!Destroy(v)
  BY <1>1, FinaliseDestroys DEF FullGC
<1>3. QED
  BY <1>2 DEF Abs!Next, Pending

(* gc_guard's return and lua_setmetatable leave the lifecycle alone. *)
LEMMA FinishRefines ==
  ASSUME IInv, Finish
  PROVE  [Abs!Next]_Abs!vars
<1>1. UNCHANGED <<drops, lastUse>>
  BY DEF Finish
<1>2. st \in [Uds -> {"free", "reach", "unreach"}]
  BY DEF IInv, TypeOK
<1>3. \A u \in Uds : st'[u] = "free" <=> st[u] = "free"
  <2>1. CASE op.name = "popstr"
    BY <1>2, <2>1 DEF Finish, IInv
  <2>2. CASE op.name /= "popstr"
    BY <2>2 DEF Finish
  <2>3. QED
    BY <2>1, <2>2
<1>4. \A u \in Uds : st[u] /= "free" =>
        (mt'[u] = "destructed" <=> mt[u] = "destructed")
  <2>1. CASE op.name \in AllocOps
    <3>1. op.u \in Uds /\ mt[op.u] = "none"
      BY <2>1 DEF Finish, IInv
    <3>2. SetsMt(op.name) /= "destructed"
      BY DEF SetsMt
    <3>3. mt' = [mt EXCEPT ![op.u] = SetsMt(op.name)]
      BY <2>1 DEF Finish, SetMetatable, AllocOps
    <3>4. QED
      BY <3>1, <3>2, <3>3
  <2>6. CASE op.name \notin AllocOps
    BY <2>6 DEF Finish, AllocOps
  <2>7. QED
    BY <2>1, <2>6
<1>5. LifeBar' = LifeBar
  BY <1>3, <1>4, LifeBarSame
<1>6. QED
  BY <1>1, <1>5 DEF Abs!vars

(* A script event is the abstract Use with the answer Dispatch gives. *)
LEMMA ScriptUseRefines ==
  ASSUME IInv, NEW u \in Uds, NEW ev \in Events, ScriptUse(u, ev)
  PROVE  [Abs!Next]_Abs!vars
<1>1. UNCHANGED <<st, mt, drops>> /\ st[u] = "reach"
  BY DEF ScriptUse, udVars
<1>2. LifeBar' = LifeBar
  BY <1>1 DEF LifeBar
<1>3. Dispatch(u, ev) \in Results
  BY DEF Dispatch, Results
<1>4. LifeBar[u] /= "free"
  BY <1>1 DEF LifeBar
<1>5. LifeBar[u] = "dead" =>
        Dispatch(u, ev) = IF ev \in DestructedMethods THEN "destructed" ELSE "vmerr"
  BY DEF LifeBar, Dispatch
<1>6. Abs!Use(u, ev, Dispatch(u, ev))
  BY <1>1, <1>2, <1>4, <1>5 DEF ScriptUse, Abs!Use
<1>7. QED
  BY <1>3, <1>6 DEF Abs!Next, Abs!Results, Results

(* pop_error on a userdata is the abstract Use of the event pop. *)
LEMMA HostPopErrorRefines ==
  ASSUME IInv, NEW u \in Uds, HostPopError(u)
  PROVE  [Abs!Next]_Abs!vars
<1>1. UNCHANGED <<mt, drops>> /\ st[u] = "reach"
  BY DEF HostPopError
<1>2. st \in [Uds -> {"free", "reach", "unreach"}]
  BY DEF IInv, TypeOK
<1>3. LifeBar' = LifeBar
  <2>1. \A w \in Uds : st'[w] = "free" <=> st[w] = "free"
    BY <1>1, <1>2 DEF HostPopError
  <2>2. QED
    BY <1>1, <2>1, LifeBarSame
<1>4. LifeBar[u] /= "free"
  BY <1>1 DEF LifeBar
<1>5. "pop" \notin DestructedMethods
  BY DEF DestructedMethods
<1>6. CASE mt[u] \in {"error", "panic"}
  <2>1. LifeBar[u] = "live"
    BY <1>1, <1>6 DEF LifeBar
  <2>2. Abs!Use(u, "pop", "value")
    BY <1>1, <1>3, <1>4, <1>6, <2>1 DEF HostPopError, Abs!Use
  <2>3. QED
    BY <2>2 DEF Abs!Next, Abs!Results
<1>7. CASE mt[u] \notin {"error", "panic"}
  <2>1. Abs!Use(u, "pop", "vmerr")
    BY <1>1, <1>3, <1>4, <1>5, <1>7 DEF HostPopError, Abs!Use
  <2>2. QED
    BY <2>1 DEF Abs!Next, Abs!Results
<1>8. QED
  BY <1>6, <1>7

(* Every step of the model is a step of UserdataLifecycle or leaves its   *)
(* variables alone.                                                       *)
LEMMA RefineStep == IInv /\ [Next]_vars => [Abs!Next]_Abs!vars
<1> SUFFICES ASSUME IInv, [Next]_vars PROVE [Abs!Next]_Abs!vars
  OBVIOUS
<1>1. CASE \E name \in {"wraperr", "wrappanic"} : StartWrap(name)
  BY <1>1 DEF StartWrap, udVars, LifeBar, Abs!vars
<1>2. CASE Allocate
  BY <1>2, AllocateRefines
<1>3. CASE CheckGC
  BY <1>3, CheckGCRefines
<1>4. CASE Finish
  BY <1>4, FinishRefines
<1>5. CASE ScriptAlloc
  BY <1>5 DEF ScriptAlloc, udVars, LifeBar, Abs!vars
<1>6. CASE FullGC
  BY <1>6, FullGCRefines
<1>7. CASE \E on \in BOOLEAN : HostGc(on)
  BY <1>7 DEF HostGc, udVars, LifeBar, Abs!vars
<1>8. CASE \E u \in Uds : \E ev \in Events : ScriptUse(u, ev)
  BY <1>8, ScriptUseRefines
<1>9. CASE \E u \in Uds : HostPopError(u)
  BY <1>9, HostPopErrorRefines
<1>10. CASE \E u \in Uds : Release(u) \/ Resurrect(u)
  <2>1. PICK u \in Uds : Release(u) \/ Resurrect(u)
    BY <1>10
  <2>2. st \in [Uds -> {"free", "reach", "unreach"}]
    BY DEF IInv, TypeOK
  <2>3. \A w \in Uds : st'[w] = "free" <=> st[w] = "free"
    BY <2>1, <2>2 DEF Release, Resurrect
  <2>4. UNCHANGED <<mt, drops, lastUse>>
    BY <2>1 DEF Release, Resurrect
  <2>5. QED
    BY <2>3, <2>4, LifeBarSame DEF Abs!vars
<1>11. CASE UNCHANGED vars
  BY <1>11 DEF vars, udVars, LifeBar, Abs!vars
<1>12. QED
  BY <1>1, <1>2, <1>3, <1>4, <1>5, <1>6, <1>7, <1>8, <1>9, <1>10, <1>11
     DEF Next

(* The finaliser model implements the userdata lifecycle for every set of *)
(* slots and events: take_userdata's swap to the destructed metatable,    *)
(* run by userdata_destructor from GCTM or a full collection, drops each  *)
(* Rust value exactly when its userdata dies, and every intercepted       *)
(* operation on a dead handle answers CallbackDestructed without reading  *)
(* the value.                                                             *)
THEOREM FinaliserRefinement == Spec => ImplementsLifecycle
<1>1. Init => Abs!Init
  BY DEF Init, Abs!Init, LifeBar, NoUse, Abs!NoUse
<1>2. QED
  BY <1>1, RefineStep, IInvHolds, PTL DEF Spec, ImplementsLifecycle, Abs!Spec

=============================================================================
