---------------------------- MODULE SingleFlight ----------------------------
(***************************************************************************)
(* What the desktop shell promises of its long operations (bank reads,     *)
(* backups and bank writes; begin_long of src/crates/xppatch-app/src/      *)
(* lib.rs): one at a time, each starting afresh; one that has been told to *)
(* stop begins no further part of its work; and each ends.                 *)
(***************************************************************************)
EXTENDS Integers

CONSTANTS Caller, None

VARIABLES
    running,  \* the caller whose operation is running, or None
    told,     \* whether it has been told to stop: "no" or "yes"
    done      \* the parts of its work it has begun

vars == <<running, told, done>>

Init == running = None /\ told = "no" /\ done = 0

Start(c) == running = None /\ running' = c /\ told' = "no" /\ done' = 0

Work == running # None /\ told = "no" /\ done' = done + 1 /\ UNCHANGED <<running, told>>

Tell == running # None /\ told' = "yes" /\ UNCHANGED <<running, done>>

End == running # None /\ running' = None /\ told' = "no" /\ done' = 0

Next == (\E c \in Caller : Start(c)) \/ Work \/ Tell \/ End

Spec == Init /\ [][Next]_vars /\ WF_vars(End)
=============================================================================
