----------------------------- MODULE MCLibrary -----------------------------
(***************************************************************************)
(* A small library: two places, two sounds under two names.  It starts     *)
(* new, or as one made before bulks with three patches from two files; the *)
(* other folder is empty or holds a library and a backup of its own.       *)
(***************************************************************************)
EXTENDS Storage
CONSTANTS s1, s2, n1, n2, a, b, t1, F
MCTyped == {<<a>>, <<b>>}

P(s, n) == [sound |-> s, name |-> n]
MCBanks ==
  { <<>>, 0 :> P(s1, n1), (0 :> P(s1, n1)) @@ (1 :> P(s2, n1)),
    (0 :> P(s1, n2)) @@ (1 :> P(s1, n2)),
    (0 :> P(s2, n2)) @@ (1 :> Damaged) }

Legacy(ps) == [NewFile EXCEPT !.patch = ps]
Folder(lib, backups) == [lib |-> lib, bak |-> NoFile, backups |-> backups]
From(p, s) == [NewPatch(p, s) EXCEPT !.favourite = FALSE]
OldPatches == <<From(P(s1, n1), a), From(P(s2, n1), b), From(P(s2, n2), a)>>
Theirs == Folder(Legacy(<<From(P(s1, n2), b)>>), "x" :> Old)

\* Every command three deep in one start, or one command among starts and
\* choices of a folder in any order.  `done`: commands and moves counted
\* already, what is left is explored.
InitWith(lib, there, done) ==
  /\ db = lib
  /\ bak = NoFile
  /\ phase = "closed"
  /\ clock = 0
  /\ acts = done[1]
  /\ moves = done[2]
  /\ meant = Nothing
  /\ inUse = Default
  /\ pointer = Default
  /\ shelf = [f \in AllFolders |->
                IF f = Default THEN Folder(lib, <<>>) ELSE there]
  /\ choice = NoChoice

MCInit ==
  /\ \E lib \in {NewFile, Legacy(OldPatches)},
        there \in {Folder(NoFile, <<>>), Theirs},
        done \in {<<0, MaxMoves - 1>>, <<MaxActs - 1, 0>>} :
       InitWith(lib, there, done)
  /\ Init
MCSpec == MCInit /\ [][Next]_libVars
=============================================================================
