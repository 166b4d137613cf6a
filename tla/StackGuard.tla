----------------------------- MODULE StackGuard -----------------------------
(***************************************************************************)
(* The stack accounting guards of src/src/util.rs: check_stack,            *)
(* check_stack_err, stack_guard and stack_err_guard.                       *)
(*                                                                         *)
(* The Lua value stack is abstracted to its depth `top` (lua_gettop).  A   *)
(* guard records the depth it expects when its operation returns; guards   *)
(* nest, because the operation of one guard may itself run guarded         *)
(* operations.  The operations are the closures the binding passes in:     *)
(* they push, pop, check stack space, open nested guards and return Ok or  *)
(* Err in any order, so that the guards are exercised on every sequence of *)
(* stack operations, including the miscounted ones they exist to catch.    *)
(*                                                                         *)
(* lua_internal_assert clears the stack and raises a Rust panic; the panic *)
(* unwinds every enclosing guard without running its check (Rust drops no  *)
(* guard state: the checks are ordinary code after `op()`).                *)
(***************************************************************************)
EXTENDS Integers, Sequences

CONSTANTS
  MaxTop,    \* the deepest stack lua_checkstack grants (LUAI_MAXSTACK)
  MaxNest,   \* how many guards may be open at once
  Changes    \* the stack changes the guarded operations declare

ASSUME MaxTopAssumption == MaxTop \in Nat \ {0}
ASSUME MaxNestAssumption == MaxNest \in Nat \ {0}
ASSUME ChangesAssumption == Changes \subseteq Int

VARIABLES
  top,      \* lua_gettop(state)
  guards,   \* the open guards, innermost last: [kind, expected]
  outcome   \* how the last guard left: "none", "ok", "err" or "internal"

vars == <<top, guards, outcome>>

GuardKinds == {"plain", "err"}   \* stack_guard, stack_err_guard

Outcomes == {"none", "ok", "err", "internal"}

(* An open guard: its kind and the depth it expects on return. *)
GuardRecords == [kind : GuardKinds, expected : Nat]

-----------------------------------------------------------------------------
(* lua_internal_assert failing: lua_settop(state, 0), then a Rust panic    *)
(* that unwinds all open guards.                                           *)
InternalPanic ==
  /\ top' = 0
  /\ guards' = <<>>
  /\ outcome' = "internal"

(* The guarded operation pushes a value (any lua_push* call).              *)
OpPush ==
  /\ guards /= <<>>
  /\ top < MaxTop
  /\ top' = top + 1
  /\ UNCHANGED <<guards, outcome>>

(* The guarded operation pops a value (lua_pop, lua_rawset, ...).          *)
OpPop ==
  /\ guards /= <<>>
  /\ top > 0
  /\ top' = top - 1
  /\ UNCHANGED <<guards, outcome>>

(* check_stack: lua_checkstack, and lua_internal_assert on its failure.    *)
CheckStack(amount) ==
  \/ /\ top + amount <= MaxTop
     /\ UNCHANGED vars
  \/ /\ top + amount > MaxTop
     /\ InternalPanic

(* check_stack_err: lua_checkstack, and Err(StackError) on its failure;    *)
(* either way the stack is left alone.                                     *)
CheckStackErr(amount) ==
  /\ guards /= <<>>
  /\ UNCHANGED vars

(* Entering stack_guard or stack_err_guard: expected = lua_gettop(state)   *)
(* + change, and the assertion that it is not negative.                    *)
(* Fault variant: no assertion that expected is not negative. *)
EnterUnchecked(kind, change) ==
  /\ Len(guards) < MaxNest
  /\ guards' = Append(guards, [kind |-> kind, expected |-> top + change])
  /\ UNCHANGED <<top, outcome>>

Enter(kind, change) ==
  /\ Len(guards) < MaxNest
  /\ LET expected == top + change IN
       IF expected >= 0
         THEN /\ guards' = Append(guards, [kind |-> kind, expected |-> expected])
              /\ UNCHANGED <<top, outcome>>
         ELSE InternalPanic

(* The innermost guard's operation returns.  stack_guard checks the depth  *)
(* whatever the result; stack_err_guard checks it on Ok and on Err trims   *)
(* residue down to expected, asserting that nothing below it was popped.   *)
ExitOk ==
  /\ guards /= <<>>
  /\ LET g == guards[Len(guards)] IN
       IF top = g.expected
         THEN /\ guards' = SubSeq(guards, 1, Len(guards) - 1)
              /\ outcome' = "ok"
              /\ UNCHANGED top
         ELSE InternalPanic

(* Fault variant: stack_err_guard that does not trim residue on Err. *)
ExitErrNoTrim ==
  /\ guards /= <<>>
  /\ LET g == guards[Len(guards)] IN
       IF top >= g.expected
         THEN /\ guards' = SubSeq(guards, 1, Len(guards) - 1)
              /\ outcome' = "err"
              /\ UNCHANGED top
         ELSE InternalPanic

ExitErr ==
  /\ guards /= <<>>
  /\ LET g == guards[Len(guards)] IN
       CASE g.kind = "plain" ->
              IF top = g.expected
                THEN /\ guards' = SubSeq(guards, 1, Len(guards) - 1)
                     /\ outcome' = "err"
                     /\ UNCHANGED top
                ELSE InternalPanic
         []  g.kind = "err" ->
              IF top >= g.expected
                THEN /\ top' = g.expected
                     /\ guards' = SubSeq(guards, 1, Len(guards) - 1)
                     /\ outcome' = "err"
                ELSE InternalPanic

Init ==
  /\ top \in 0..MaxTop
  /\ guards = <<>>
  /\ outcome = "none"

Next ==
  \/ OpPush
  \/ OpPop
  \/ \E n \in 1..2 : CheckStack(n) \/ CheckStackErr(n)
  \/ \E k \in GuardKinds, c \in Changes : Enter(k, c)
  \/ ExitOk
  \/ ExitErr

Spec == Init /\ [][Next]_vars

-----------------------------------------------------------------------------
TypeOK ==
  /\ top \in 0..MaxTop
  /\ guards \in Seq(GuardRecords)
  /\ Len(guards) <= MaxNest
  /\ outcome \in Outcomes

(* Stack balance (spec section 8): whenever a guard hands its operation's  *)
(* result back to the caller, Ok or Err, the stack is exactly as deep as   *)
(* the guard declared on entry; a miscount never reaches the caller, it    *)
(* ends in the internal panic with the stack cleared.                      *)
BalancedReturn ==
  (Len(guards') < Len(guards) /\ outcome' /= "internal") =>
     /\ Len(guards') = Len(guards) - 1
     /\ top' = guards[Len(guards)].expected

(* Every step of the guards, stack_guard's and stack_err_guard's returns   *)
(* included, is a balanced return in the sense above.                      *)
GuardBalance == [][BalancedReturn]_vars
=============================================================================
