------------------------------ MODULE BlueGreen ------------------------------
(***************************************************************************)
(* What blue-green deployment promises to the users of a project, with no  *)
(* word about jobs, containers and route files: one release is live, it    *)
(* changes in one step and only to a release that was tested, and the      *)
(* release it replaces is retained, to be brought back or given up.        *)
(***************************************************************************)
CONSTANTS Release, None

VARIABLES live, tested, retained

vars == <<live, tested, retained>>

TypeOK ==
  /\ live \in Release \cup {None}
  /\ tested \subseteq Release
  /\ retained \subseteq Release

Init == live = None /\ tested = {} /\ retained = {}

(* A candidate passes its health check. *)
Test(r) ==
  /\ tested' = tested \cup {r}
  /\ UNCHANGED <<live, retained>>

Switch(r) ==
  /\ r \in tested /\ r # live
  /\ live' = r
  /\ retained' = (retained \cup ({live} \ {None})) \ {r}
  /\ UNCHANGED tested

(* Retained releases are taken out to be rolled back to, or have failed. *)
Withdraw(rs) ==
  /\ rs \subseteq retained /\ rs # {}
  /\ retained' = retained \ rs
  /\ UNCHANGED <<live, tested>>

Next ==
  \/ \E r \in Release : Test(r) \/ Switch(r)
  \/ \E rs \in SUBSET Release : Withdraw(rs)

Spec == Init /\ [][Next]_vars
==============================================================================
