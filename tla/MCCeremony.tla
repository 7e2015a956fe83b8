----------------------------- MODULE MCCeremony -----------------------------
(***************************************************************************)
(* Values for the ceremony's constants.  The user saves one sound; the     *)
(* panel stores another, or one that shares a block with both, so that a   *)
(* torn read or a half-written slot can look like any of them.             *)
(***************************************************************************)
EXTENDS Ceremony
CONSTANTS v0, v1, s1, s2, sys
Uniform(v) == [i \in 1..NBlocks |-> v]
Mixed      == [i \in 1..NBlocks |-> IF i = 1 THEN v0 ELSE v1]
MCPatches  == {Uniform(v1)}
MCPanel    == {Uniform(v0), Mixed}

(* What happens with saves and what happens with a bank are explored apart: *)
(* no bank is armed once a save's backup is there, no save once a bank's is *)
(* (only that has the second slot), and what the other would use stays as   *)
(* it was.  Panel, faults, expiry and restarts come in everywhere.          *)
BankMade == \E i \in Image : <<s2, i>> \in disk
SaveMade == disk # {} /\ ~BankMade
Apart ==
    /\ cmd' = "arm" =>
         IF kind' = "bank" THEN ~SaveMade /\ mem[sys] = Uniform(v0)
                           ELSE ~BankMade /\ mem[s2] = Uniform(v0) /\ area' # s2
    /\ mem'[s2] # mem[s2] => BankMade \/ (~SaveMade /\ kind = "bank")
    /\ mem'[sys] # mem[sys] => ~BankMade /\ kind # "bank"
    /\ SaveMade' => Cardinality(disk') <= 2
    /\ \A k \in DOMAIN plan' \ {"bank"} : plan'[k].age <= Lifetime + 1
=============================================================================
