------------------------------ MODULE MCShell -------------------------------
(***************************************************************************)
(* Three threads, four commands between them.                      *)
(***************************************************************************)
EXTENDS Shell
=============================================================================
