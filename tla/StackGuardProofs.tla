-------------------------- MODULE StackGuardProofs --------------------------
(***************************************************************************)
(* Proofs about the stack guards of StackGuard, for every MaxTop, MaxNest  *)
(* and set of declared Changes: the type invariant is inductive, and every *)
(* guard that returns to its caller leaves the stack at the depth it       *)
(* declared (GuardBalance).                                                *)
(***************************************************************************)
EXTENDS StackGuard, SequenceTheorems, TLAPS

(* Closing the innermost guard of a non-empty guard sequence leaves a      *)
(* guard sequence one shorter, and the guard closed is a guard record.     *)
LEMMA CloseInnermost ==
  ASSUME NEW gs \in Seq(GuardRecords), gs /= <<>>
  PROVE  /\ SubSeq(gs, 1, Len(gs) - 1) \in Seq(GuardRecords)
         /\ Len(SubSeq(gs, 1, Len(gs) - 1)) = Len(gs) - 1
         /\ gs[Len(gs)] \in GuardRecords
<1>1. PICK n \in Nat : n = Len(gs) /\ n >= 1
  BY EmptySeq
<1>2. \A i \in 1..(n - 1) : gs[i] \in GuardRecords
  BY <1>1, ElementOfSeq
<1>3. SubSeq(gs, 1, n - 1) \in Seq(GuardRecords)
  BY <1>1, <1>2, SubSeqProperties
<1>4. Len(SubSeq(gs, 1, n - 1)) = IF 1 <= n - 1 THEN n - 1 ELSE 0
  BY <1>1, <1>2, SubSeqProperties
<1>5. (IF 1 <= n - 1 THEN n - 1 ELSE 0) = n - 1
  BY <1>1
<1>6. gs[n] \in GuardRecords
  BY <1>1, ElementOfSeq
<1>. QED
  BY <1>1, <1>3, <1>4, <1>5, <1>6

(* Opening a guard appends one record to the guard sequence.               *)
LEMMA OpenGuard ==
  ASSUME NEW gs \in Seq(GuardRecords), NEW g \in GuardRecords
  PROVE  /\ Append(gs, g) \in Seq(GuardRecords)
         /\ Len(Append(gs, g)) = Len(gs) + 1
BY AppendProperties

(* The internal panic of lua_internal_assert leaves a well-typed state.    *)
LEMMA PanicTyped ==
  InternalPanic => TypeOK'
<1>1. <<>> \in Seq(GuardRecords) /\ Len(<<>>) = 0
  BY EmptySeq
<1>. QED
  BY <1>1, MaxTopAssumption, MaxNestAssumption DEF InternalPanic, TypeOK, Outcomes

(* Closing the innermost guard with the stack at depth d, d within what  *)
(* lua_checkstack grants, leaves a well-typed state.                       *)
LEMMA CloseTyped ==
  ASSUME TypeOK, guards /= <<>>,
         NEW d \in 0..MaxTop, NEW o \in Outcomes,
         guards' = SubSeq(guards, 1, Len(guards) - 1),
         top' = d, outcome' = o
  PROVE  TypeOK'
<1>1. SubSeq(guards, 1, Len(guards) - 1) \in Seq(GuardRecords)
      /\ Len(SubSeq(guards, 1, Len(guards) - 1)) = Len(guards) - 1
  BY CloseInnermost DEF TypeOK
<1>. QED
  BY <1>1, MaxNestAssumption DEF TypeOK

-----------------------------------------------------------------------------
(* The type invariant holds in every reachable state: the depth stays     *)
(* within what lua_checkstack grants, every open guard expects a depth     *)
(* that is not negative (the assertion in stack_guard and stack_err_guard) *)
(* and no more than MaxNest guards are open.                               *)
THEOREM TypeCorrect == Spec => []TypeOK
<1>1. Init => TypeOK
  <2>1. <<>> \in Seq(GuardRecords) /\ Len(<<>>) = 0
    BY EmptySeq
  <2>. QED
    BY <2>1, MaxNestAssumption DEF Init, TypeOK, Outcomes
<1>2. TypeOK /\ [Next]_vars => TypeOK'
  <2> SUFFICES ASSUME TypeOK, [Next]_vars PROVE TypeOK'
    OBVIOUS
  <2>a. Len(guards) \in Nat
    BY LenProperties DEF TypeOK
  <2>1. CASE OpPush
    BY <2>1, MaxTopAssumption DEF OpPush, TypeOK
  <2>2. CASE OpPop
    BY <2>2, MaxTopAssumption DEF OpPop, TypeOK
  <2>3. CASE \E n \in 1..2 : CheckStack(n) \/ CheckStackErr(n)
    <3>1. PICK n \in 1..2 : CheckStack(n) \/ CheckStackErr(n)
      BY <2>3
    <3>2. CASE CheckStack(n)
      BY <3>2, PanicTyped DEF CheckStack, vars, TypeOK
    <3>3. CASE CheckStackErr(n)
      BY <3>3 DEF CheckStackErr, vars, TypeOK
    <3>. QED
      BY <3>1, <3>2, <3>3
  <2>4. CASE \E k \in GuardKinds, c \in Changes : Enter(k, c)
    <3>1. PICK k \in GuardKinds, c \in Changes : Enter(k, c)
      BY <2>4
    <3>2. CASE top + c >= 0
      <4>1. [kind |-> k, expected |-> top + c] \in GuardRecords
        BY <3>2, ChangesAssumption DEF GuardRecords, TypeOK
      <4>2. /\ guards' = Append(guards, [kind |-> k, expected |-> top + c])
            /\ Len(guards) < MaxNest
            /\ UNCHANGED <<top, outcome>>
        BY <3>1, <3>2 DEF Enter
      <4>3. Append(guards, [kind |-> k, expected |-> top + c]) \in Seq(GuardRecords)
            /\ Len(Append(guards, [kind |-> k, expected |-> top + c])) = Len(guards) + 1
        BY <4>1, OpenGuard DEF TypeOK
      <4>. QED
        BY <4>2, <4>3, <2>a, MaxNestAssumption DEF TypeOK
    <3>3. CASE ~(top + c >= 0)
      BY <3>1, <3>3, PanicTyped DEF Enter
    <3>. QED
      BY <3>2, <3>3
  <2>5. CASE ExitOk
    <3>1. guards /= <<>>
      BY <2>5 DEF ExitOk
    <3>2. CASE top = guards[Len(guards)].expected
      <4>1. /\ guards' = SubSeq(guards, 1, Len(guards) - 1)
            /\ outcome' = "ok" /\ top' = top
        BY <2>5, <3>2 DEF ExitOk
      <4>. QED
        BY <4>1, <3>1, CloseTyped DEF TypeOK, Outcomes
    <3>3. CASE top /= guards[Len(guards)].expected
      BY <2>5, <3>3, PanicTyped DEF ExitOk
    <3>. QED
      BY <3>2, <3>3
  <2>6. CASE ExitErr
    <3>1. guards /= <<>>
      BY <2>6 DEF ExitErr
    <3>. DEFINE g == guards[Len(guards)]
    <3>2. g \in GuardRecords
      BY <3>1, CloseInnermost DEF TypeOK
    <3>3. CASE g.kind = "plain" /\ top = g.expected
      <4>1. /\ guards' = SubSeq(guards, 1, Len(guards) - 1)
            /\ outcome' = "err" /\ top' = top
        BY <2>6, <3>3 DEF ExitErr
      <4>. QED
        BY <4>1, <3>1, CloseTyped DEF TypeOK, Outcomes
    <3>4. CASE g.kind = "err" /\ top >= g.expected
      <4>1. /\ guards' = SubSeq(guards, 1, Len(guards) - 1)
            /\ outcome' = "err" /\ top' = g.expected
        BY <2>6, <3>4 DEF ExitErr
      <4>2. g.expected \in 0..MaxTop
        BY <3>2, <3>4, MaxTopAssumption DEF GuardRecords, TypeOK
      <4>. QED
        BY <4>1, <4>2, <3>1, CloseTyped DEF Outcomes
    <3>5. CASE g.kind = "plain" /\ top /= g.expected
      BY <2>6, <3>5, PanicTyped DEF ExitErr
    <3>6. CASE g.kind = "err" /\ ~(top >= g.expected)
      BY <2>6, <3>6, PanicTyped DEF ExitErr
    <3>7. g.kind \in {"plain", "err"}
      BY <3>2 DEF GuardRecords, GuardKinds
    <3>. QED
      BY <3>3, <3>4, <3>5, <3>6, <3>7
  <2>7. CASE UNCHANGED vars
    BY <2>7 DEF vars, TypeOK
  <2>. QED
    BY <2>1, <2>2, <2>3, <2>4, <2>5, <2>6, <2>7 DEF Next
<1>. QED
  BY <1>1, <1>2, PTL DEF Spec

-----------------------------------------------------------------------------
(* A step that leaves the guard sequence as long as it was, or longer,    *)
(* or that ends in the internal panic, is trivially a balanced return.     *)
LEMMA NoCloseBalanced ==
  ASSUME Len(guards') >= Len(guards) \/ outcome' = "internal"
  PROVE  BalancedReturn
BY DEF BalancedReturn

(* Every step from a well-typed state is a balanced return: stack_guard   *)
(* closes a guard only when lua_gettop equals its expected depth, and      *)
(* stack_err_guard on Err first trims the stack to that depth.             *)
LEMMA BalancedStep ==
  TypeOK /\ [Next]_vars => [BalancedReturn]_vars
<1> SUFFICES ASSUME TypeOK, [Next]_vars PROVE BalancedReturn
  BY DEF vars
<1>a. PICK n \in Nat : n = Len(guards)
  BY LenProperties DEF TypeOK
<1>1. CASE OpPush \/ OpPop \/ UNCHANGED vars
  <2>1. guards' = guards
    BY <1>1 DEF OpPush, OpPop, vars
  <2>. QED
    BY <2>1, <1>a, NoCloseBalanced
<1>2. CASE \E m \in 1..2 : CheckStack(m) \/ CheckStackErr(m)
  <2>1. guards' = guards \/ outcome' = "internal"
    BY <1>2 DEF CheckStack, CheckStackErr, InternalPanic, vars
  <2>. QED
    BY <2>1, <1>a, NoCloseBalanced
<1>3. CASE \E k \in GuardKinds, c \in Changes : Enter(k, c)
  <2>1. PICK k \in GuardKinds, c \in Changes : Enter(k, c)
    BY <1>3
  <2>2. CASE top + c >= 0
    <3>1. [kind |-> k, expected |-> top + c] \in GuardRecords
      BY <2>2, ChangesAssumption DEF GuardRecords, TypeOK
    <3>2. guards' = Append(guards, [kind |-> k, expected |-> top + c])
      BY <2>1, <2>2 DEF Enter
    <3>3. Len(guards') = n + 1
      BY <3>1, <3>2, <1>a, OpenGuard DEF TypeOK
    <3>. QED
      BY <3>3, <1>a, NoCloseBalanced
  <2>3. CASE ~(top + c >= 0)
    BY <2>1, <2>3, NoCloseBalanced DEF Enter, InternalPanic
  <2>. QED
    BY <2>2, <2>3
<1>4. CASE ExitOk
  <2>1. CASE top = guards[Len(guards)].expected
    <3>1. /\ guards /= <<>>
          /\ guards' = SubSeq(guards, 1, Len(guards) - 1)
          /\ top' = top
      BY <1>4, <2>1 DEF ExitOk
    <3>2. Len(guards') = n - 1
      BY <3>1, <1>a, CloseInnermost DEF TypeOK
    <3>. QED
      BY <3>1, <3>2, <1>a, <2>1 DEF BalancedReturn
  <2>2. CASE top /= guards[Len(guards)].expected
    BY <1>4, <2>2, NoCloseBalanced DEF ExitOk, InternalPanic
  <2>. QED
    BY <2>1, <2>2
<1>5. CASE ExitErr
  <2>. DEFINE g == guards[Len(guards)]
  <2>1. CASE g.kind = "plain" /\ top = g.expected
    <3>1. /\ guards /= <<>>
          /\ guards' = SubSeq(guards, 1, Len(guards) - 1)
          /\ top' = top
      BY <1>5, <2>1 DEF ExitErr
    <3>2. Len(guards') = n - 1
      BY <3>1, <1>a, CloseInnermost DEF TypeOK
    <3>. QED
      BY <3>1, <3>2, <1>a, <2>1 DEF BalancedReturn
  <2>2. CASE g.kind = "err" /\ top >= g.expected
    <3>1. /\ guards /= <<>>
          /\ guards' = SubSeq(guards, 1, Len(guards) - 1)
          /\ top' = g.expected
      BY <1>5, <2>2 DEF ExitErr
    <3>2. Len(guards') = n - 1
      BY <3>1, <1>a, CloseInnermost DEF TypeOK
    <3>. QED
      BY <3>1, <3>2, <1>a DEF BalancedReturn
  <2>3. CASE ~(g.kind = "plain" /\ top = g.expected)
             /\ ~(g.kind = "err" /\ top >= g.expected)
    <3>1. guards /= <<>>
      BY <1>5 DEF ExitErr
    <3>2. g.kind \in GuardKinds
      BY <3>1, CloseInnermost DEF TypeOK, GuardRecords
    <3>3. outcome' = "internal"
      BY <1>5, <2>3, <3>2 DEF ExitErr, InternalPanic, GuardKinds
    <3>. QED
      BY <3>3, NoCloseBalanced
  <2>. QED
    BY <2>1, <2>2, <2>3
<1>. QED
  BY <1>1, <1>2, <1>3, <1>4, <1>5 DEF Next

(* Stack balance for every MaxTop, MaxNest and set of declared changes:    *)
(* no guard ever returns to its caller with the stack at another depth     *)
(* than it declared on entry (GuardBalance, checked by TLC in the          *)
(* stackguard run).                                                        *)
THEOREM GuardBalanceHolds == Spec => GuardBalance
<1>1. TypeOK /\ [Next]_vars => [BalancedReturn]_vars
  BY BalancedStep
<1>. QED
  BY <1>1, TypeCorrect, PTL DEF Spec, GuardBalance
====
