----------------------------- MODULE ConfigStore -----------------------------
(***************************************************************************)
(* What saving a configuration promises: programs work on a copy each, and *)
(* a save makes one copy the stored configuration in a single step.  It is *)
(* never lost again, however the programs end.                             *)
(***************************************************************************)
CONSTANTS Procs, Versions, Default, None

VARIABLES
  saved,   \* the stored configuration, None before the first save
  working  \* working[p]: the copy p works on

Init ==
  /\ saved \in Versions \cup {None}
  /\ working = [p \in Procs |-> Default]

(* p starts from the stored configuration, or from the defaults.           *)
Load(p) ==
  /\ \E v \in {saved, Default} \cap Versions : working' = [working EXCEPT ![p] = v]
  /\ UNCHANGED saved

Edit(p) ==
  /\ \E v \in Versions : working' = [working EXCEPT ![p] = v]
  /\ UNCHANGED saved

Save(p) ==
  /\ saved' = working[p]
  /\ UNCHANGED working

Next == \E p \in Procs : Load(p) \/ Edit(p) \/ Save(p)

Spec == Init /\ [][Next]_<<saved, working>>
=============================================================================
