----------------------------- MODULE MCRequest ------------------------------
(***************************************************************************)
(* A block of two cells, and its beginning, which a probe asks for.  The   *)
(* values of a cell differ in name only, so both may start from the same.  *)
(***************************************************************************)
EXTENDS Request
MCBlocks   == {{1, 2}, {1}}
MCInit     == Init /\ mem = [c \in Cell |-> 0]
MCFairSpec == MCInit /\ [][Next]_vars /\ WF_vars(World \/ Client)
=============================================================================
