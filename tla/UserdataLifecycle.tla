------------------------- MODULE UserdataLifecycle -------------------------
(***************************************************************************)
(* What util.rs promises about a foreign-owned userdata (spec.md 4.4), as  *)
(* an abstract specification.  A userdata slot is free, live or dead.  A   *)
(* live userdata's Rust value may be read; the value is dropped exactly    *)
(* once, when the userdata dies; and from then on every operation on the   *)
(* handle that the sentinel intercepts answers CallbackDestructed, and no  *)
(* operation reads the value.  Finaliser refines this specification.       *)
(***************************************************************************)
EXTENDS Naturals

CONSTANTS
  Uds,          \* userdata slots
  Events,       \* the operations a script can apply to a userdata
  Intercepted   \* the operations the destructed sentinel answers

VARIABLES life, drops, lastUse

vars == <<life, drops, lastUse>>

Lives == {"free", "live", "dead"}
Results == {"value", "destructed", "vmerr"}
NoUse == [u |-> "none", ev |-> "none", res |-> "none"]
Uses == [u : Uds, ev : Events \cup {"pop"}, res : Results] \cup {NoUse}

Init ==
  /\ life = [u \in Uds |-> "free"]
  /\ drops = [u \in Uds |-> 0]
  /\ lastUse = NoUse

(* A userdata is created. *)
Create(u) ==
  /\ life[u] = "free"
  /\ life' = [life EXCEPT ![u] = "live"]
  /\ UNCHANGED <<drops, lastUse>>

(* A userdata dies, and its value is dropped with it. *)
Destroy(u) ==
  /\ life[u] = "live"
  /\ life' = [life EXCEPT ![u] = "dead"]
  /\ drops' = [drops EXCEPT ![u] = @ + 1]
  /\ UNCHANGED lastUse

(* An operation on a handle: only a live userdata may give its value; a   *)
(* dead one answers every intercepted operation with CallbackDestructed   *)
(* and every other one with the VM's own error.                           *)
Use(u, ev, res) ==
  /\ life[u] /= "free"
  /\ life[u] = "dead" => res = IF ev \in Intercepted THEN "destructed" ELSE "vmerr"
  /\ lastUse' = [u |-> u, ev |-> ev, res |-> res]
  /\ UNCHANGED <<life, drops>>

Next ==
  \E u \in Uds :
    \/ Create(u)
    \/ Destroy(u)
    \/ \E ev \in Events \cup {"pop"}, res \in Results : Use(u, ev, res)

Spec == Init /\ [][Next]_vars

=============================================================================
