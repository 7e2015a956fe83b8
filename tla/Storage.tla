------------------------------ MODULE Storage ------------------------------
(***************************************************************************)
(* Where the library and the backup files are (storage.rs): a folder named *)
(* by a pointer file in the default folder, read at every start.  Choosing *)
(* another folder copies the open library and the backups there, step by   *)
(* step, while the library's commands go on; it may fail, or the program   *)
(* be killed, after any step and in the middle of a copy, which is made    *)
(* under its final name: part of a file then stays there.                  *)
(***************************************************************************)
EXTENDS Library

CONSTANTS
  Folders,     \* folders a user may choose
  Default,     \* the application's own
  BackupNames, \* names of backup files
  Old, New     \* contents of two backup files of one name

AllFolders == Folders \cup {Default}
None == "none"

\* pointer: the folder named by storage.json, or Default when there is none.
\* shelf:   of every folder its library, the copy made before bulks, and its
\*          backups by name.  Of the folder in use, db and bak are the first
\*          two, and the shelf's own are not looked at.
\* choice:  the storage_set under way: the folder, the step, the backups it
\*          found to copy, and the files the folder had before (history).

FileIn(f) == IF f = inUse THEN db ELSE shelf[f].lib
CopyIn(f) == IF f = inUse THEN bak ELSE shelf[f].bak

NoChoice == [to |-> None, step |-> None, names |-> {}, had |-> {}]

LibraryFile == "library.sqlite"
Part == "part of a file"

Had(f) == DOMAIN shelf[f].backups
            \cup (IF FileIn(f) = NoFile THEN {} ELSE {LibraryFile})

-----------------------------------------------------------------------------
(* Starting and stopping.                                                  *)

\* resolve: the folder of the pointer, when it is there.
resolve(there) == IF pointer \in there THEN pointer ELSE Default

\* setup (lib.rs:911): the library of that folder, or a new one.  `there` are
\* the folders that can be reached now.
Start(there) ==
  LET f == resolve(there)
      file == IF FileIn(f) = NoFile THEN NewFile ELSE FileIn(f)
  IN /\ Open(file, CopyIn(f))
     /\ inUse' = f
     /\ shelf' = [shelf EXCEPT ![inUse] =
                     [lib |-> db, bak |-> bak, backups |-> @.backups]]
     /\ moves < MaxMoves
     /\ moves' = moves + 1
     /\ UNCHANGED <<pointer, choice>>

\* The program ends, or is killed, between any two steps.
Stop ==
  /\ phase # "closed"
  /\ phase' = "closed"
  /\ choice' = NoChoice
  /\ UNCHANGED <<db, bak, clock, acts, meant, inUse, pointer, shelf, moves>>

-----------------------------------------------------------------------------
(* storage_set.                                                            *)

Running == phase \in {"open", "failed"}
Step(s) == Running /\ choice.step = s
libraryVars == <<db, phase, bak, clock, acts, meant>>

\* The default again: the pointer is removed, nothing is copied.
ChooseDefault ==
  /\ Step(None)
  /\ moves < MaxMoves
  /\ moves' = moves + 1
  /\ pointer' = Default
  /\ UNCHANGED <<libraryVars, inUse, shelf, choice>>

\* set: a folder that can be written to; the folder in use needs no copy.
Choose(f) ==
  /\ Step(None)
  /\ moves < MaxMoves
  /\ moves' = moves + 1
  /\ choice' = [NoChoice EXCEPT !.to = f, !.had = Had(f),
                  !.step = IF f = inUse THEN "point" ELSE "library"]
  /\ UNCHANGED <<libraryVars, inUse, pointer, shelf>>

CopyAlways ==
  /\ Step("library")
  /\ shelf' = [shelf EXCEPT ![choice.to].lib = db]
  /\ choice' = [choice EXCEPT !.step = "backups",
                  !.names = DOMAIN shelf[inUse].backups]
  /\ UNCHANGED <<libraryVars, moves, inUse, pointer>>

\* The library is copied only where there is none; one that did not open has
\* nothing to copy.  VACUUM INTO holds the library's mutex.
CopyLibrary ==
  /\ Step("library")
  /\ shelf' = IF shelf[choice.to].lib = NoFile /\ phase = "open"
              THEN [shelf EXCEPT ![choice.to].lib = db] ELSE shelf
  /\ choice' = [choice EXCEPT !.step = "backups",
                  !.names = DOMAIN shelf[inUse].backups]
  /\ UNCHANGED <<libraryVars, moves, inUse, pointer>>

\* A disk that is full or a kill, in the middle of VACUUM INTO: the file is
\* there, without the mark and the tables; it opens as an empty library if it
\* opens at all.
LibraryCut ==
  /\ Step("library")
  /\ shelf[choice.to].lib = NoFile /\ phase = "open"
  /\ shelf' = [shelf EXCEPT ![choice.to].lib = NewFile]
  /\ choice' = NoChoice
  /\ UNCHANGED <<libraryVars, moves, inUse, pointer>>

\* copy_files: one file of the listing; a name that is taken is kept.
CopyBackup(n) ==
  /\ Step("backups")
  /\ n \in choice.names \ DOMAIN shelf[choice.to].backups
  /\ shelf' = [shelf EXCEPT ![choice.to].backups =
                 Put(@, n, shelf[inUse].backups[n])]
  /\ UNCHANGED <<libraryVars, moves, inUse, pointer, choice>>

CutUnnoticed(n) ==
  /\ Step("backups")
  /\ n \in choice.names \ DOMAIN shelf[choice.to].backups
  /\ shelf' = [shelf EXCEPT ![choice.to].backups = Put(@, n, Part)]
  /\ UNCHANGED <<libraryVars, moves, inUse, pointer, choice>>

\* The same in the middle of fs::copy, which writes to the final name.
BackupCut(n) ==
  /\ Step("backups")
  /\ n \in choice.names \ DOMAIN shelf[choice.to].backups
  /\ shelf' = [shelf EXCEPT ![choice.to].backups = Put(@, n, Part)]
  /\ choice' = NoChoice
  /\ UNCHANGED <<libraryVars, moves, inUse, pointer>>

BackupsCopied ==
  /\ Step("backups")
  /\ choice.names \subseteq DOMAIN shelf[choice.to].backups
  /\ choice' = [choice EXCEPT !.step = "point"]
  /\ UNCHANGED <<libraryVars, moves, inUse, pointer, shelf>>

\* Written beside the pointer and renamed over it: one step.
Point ==
  /\ Step("point")
  /\ pointer' = choice.to
  /\ choice' = NoChoice
  /\ UNCHANGED <<libraryVars, moves, inUse, shelf>>

\* A disk that is full or gone between two copies: what was copied stays.
ChoiceFails ==
  /\ Running
  /\ choice.step # None
  /\ choice' = NoChoice
  /\ UNCHANGED <<libraryVars, moves, inUse, pointer, shelf>>

\* A save's backup (module Ceremony) goes to the folder in use.
WriteBackup(n) ==
  /\ Running
  /\ n \notin DOMAIN shelf[inUse].backups
  /\ moves < MaxMoves
  /\ moves' = moves + 1
  /\ shelf' = [shelf EXCEPT ![inUse].backups = Put(@, n, New)]
  /\ UNCHANGED <<libraryVars, inUse, pointer, choice>>

-----------------------------------------------------------------------------
(* The specification.  A library may be new, or made before bulks; another *)
(* folder may hold a library and backups of its own.                       *)

\* A library made before bulks is kept as it was first.
Kept(file, copy) ==
  /\ copy # NoFile => copy.version = 0 /\ copy.bulk = <<>>
  /\ file # NoFile /\ file.bulk # <<>> /\ file.version = 0 => copy # NoFile

\* A folder as the program finds it: a library of its own or none, backups.
FolderOK(r) ==
  /\ DOMAIN r = {"lib", "bak", "backups"}
  /\ r.lib = NoFile \/ (WellFormed(r.lib) /\ OncePerBytes(r.lib))
  /\ Kept(r.lib, r.bak)
  /\ DOMAIN r.backups \subseteq BackupNames
  /\ r.backups \in [DOMAIN r.backups -> {Old, New}]

Init ==
  /\ WellFormed(db) /\ OncePerBytes(db) /\ db.version = 0 /\ db.bulk = <<>>
  /\ bak = NoFile
  /\ phase = "closed"
  /\ clock = 0
  /\ acts \in 0..MaxActs
  /\ moves \in 0..MaxMoves
  /\ meant = Nothing
  /\ inUse = Default
  /\ pointer = Default
  /\ DOMAIN shelf = AllFolders /\ \A f \in AllFolders : FolderOK(shelf[f])
  /\ choice = NoChoice

StorageStep ==
  \/ ChooseDefault
  \/ \E f \in Folders : Choose(f)
  \/ CopyLibrary
  \/ LibraryCut
  \/ \E n \in BackupNames : CopyBackup(n)
  \/ \E n \in BackupNames : BackupCut(n)
  \/ BackupsCopied
  \/ Point
  \/ ChoiceFails
  \/ \E n \in BackupNames : WriteBackup(n)

Opening == Group \/ Stamp \/ OpenFails

Next ==
  \/ \E there \in SUBSET Folders : Start(there)
  \/ Stop
  \/ Opening
  \/ Command
  \/ Tick
  \/ StorageStep

Spec == Init /\ [][Next]_libVars

-----------------------------------------------------------------------------
(* What choosing a folder promises.                                        *)

\* storage.rs:3 says "Choosing a folder never deletes or overwrites anything":
\* whatever is chosen, copied, cut short and started again, the library of a
\* folder changes only by commands while it is in use, and a backup file
\* never.
NothingOverwritten ==
  [][/\ \A f \in AllFolders :
          FileIn(f) # NoFile /\ (f # inUse \/ phase = "closed") =>
            FileIn(f)' = FileIn(f)
     /\ \A f \in AllFolders : \A n \in DOMAIN shelf[f].backups :
          /\ n \in DOMAIN shelf'[f].backups
          /\ shelf'[f].backups[n] = shelf[f].backups[n]]_libVars

\* The pointer moves only to a folder where the next start finds a library,
\* unless the one in use did not open, and every backup that was to be copied.
\* The library is a whole one (it has the mark, a part has none) and a backup
\* the same file as in the folder in use, whatever was cut short before, unless
\* the folder had a file of that name when this choice began: another one, or
\* part of one that an earlier choice left, which storage.rs:73 and :102 keep.
PointedIsReady ==
  [][pointer' \notin {pointer, Default} =>
       /\ phase = "open" =>
            /\ FileIn(pointer') # NoFile
            /\ LibraryFile \in choice.had \/ FileIn(pointer').version = 1
       /\ \A n \in choice.names :
            /\ n \in DOMAIN shelf[pointer'].backups
            /\ \/ n \in choice.had
               \/ shelf[pointer'].backups[n] = shelf[inUse].backups[n]]_libVars

\* storage.rs:3 says "an existing library there is used as it is, and otherwise
\* the current library and backups are copied in": no backup of the folder
\* that is pointed to is part of a file (violated: what a copy that was cut
\* short has left is taken for an existing file by the next choice).
PointedIsWhole ==
  [][pointer' \notin {pointer, Default} =>
       \A n \in DOMAIN shelf[pointer'].backups :
         shelf[pointer'].backups[n] # Part]_libVars

\* A library made before bulks is kept as it was first, however often the
\* grouping is cut short and begun again (lib.rs:127).
OriginalIsKept == Kept(db, bak)
=============================================================================
