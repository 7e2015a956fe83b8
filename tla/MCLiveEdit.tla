----------------------------- MODULE MCLiveEdit -----------------------------
(***************************************************************************)
(* Two parameters of two values each; one sound in the library and on the  *)
(* panel besides the one the editor starts from.  The values differ in     *)
(* name only, so it is enough to start from one of the instrument's.       *)
(***************************************************************************)
EXTENDS LiveEdit
MCSounds   == {[p \in Param |-> 0], [p \in Param |-> 1]}
MCInit     == Init /\ temp = [p \in Param |-> 0]
MCSpec     == MCInit /\ [][Next]_vars
MCFairSpec ==
    /\ MCSpec /\ WF_vars(Run) /\ WF_vars(Deliver) /\ WF_vars(Settle)
    /\ WF_vars(AuditionSettle)
MCStored   == {[p \in Param |-> 1]}
None       == {}
=============================================================================
