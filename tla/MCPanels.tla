------------------------------ MODULE MCPanels ------------------------------
(***************************************************************************)
(* The panel that saves a patch and the bank, over two slots: the patch a  *)
(* goes into the first slot, b into the second, and the bank writes both.  *)
(***************************************************************************)
EXTENDS Panels, TLC
CONSTANTS s1, s2, a, b, x
TheSlots  == {s1, s2}
TheSounds == {a, b, x}
Before    == {x}
TheJobs   == [user |-> {s1 :> a, s2 :> b}, bank |-> {s1 :> a @@ s2 :> b}]
(* Swapping the slots and the sounds together.                             *)
Alike     == {s1 :> s2 @@ s2 :> s1 @@ a :> b @@ b :> a,
              s1 :> s1 @@ s2 :> s2 @@ a :> a @@ b :> b}
(* No property speaks of what follows once a phase was overwritten.        *)
InStep    == overrun = {}
=============================================================================
