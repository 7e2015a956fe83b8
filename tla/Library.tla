------------------------------ MODULE Library ------------------------------
(***************************************************************************)
(* The open library and the commands of the window.  Every command of the  *)
(* shell holds the library's mutex for its whole call (with_library,       *)
(* lib.rs:517), so a command is one step, and a refused one leaves the     *)
(* library as it was; a crash in the middle of one is SQLite's rollback.   *)
(* Only opening takes several steps: the copy of a library made before     *)
(* bulks, grouping it (one transaction), and the mark that it was done.    *)
(***************************************************************************)
EXTENDS LibraryTables

CONSTANTS
  Banks,    \* [place |-> bytes] that a file or the bank may hold
  Typed,    \* names of bulks typed by the user
  MaxClock, \* bound: how far time goes
  MaxActs,  \* bound: commands explored
  MaxMoves, \* bound: starts and choices of a folder explored
  MaxPatch, \* bound: ids of patches given as arguments
  MaxBulk   \* bound: ids of bulks given as arguments

ASSUME LibraryBounds ==
  /\ MaxClock \in Nat /\ MaxActs \in Nat /\ MaxMoves \in Nat
  /\ MaxPatch \in Nat /\ MaxBulk \in Nat

ASSUME BanksAssumption ==
  \A bank \in Banks :
    /\ DOMAIN bank \subseteq Places
    /\ bank \in [DOMAIN bank -> Bytes \cup {Damaged}]

VARIABLES
  db,     \* the library's file: [version, patch, bulk]
  phase,  \* "closed", "opening", "grouped" (but not marked), "open", "failed"
  bak,    \* library.before-bulks.bak beside it, or NoFile
  clock,  \* now_secs
  acts,   \* commands so far (bound)
  meant,  \* history: the bank or file the last command was to store, or Nothing
  inUse, pointer, shelf, choice, moves \* the folders: module Storage

storageVars == <<inUse, pointer, shelf, choice, moves>>
libVars == <<db, phase, bak, clock, acts, meant, storageVars>>

\* No such file.
NoFile  == [file |-> FALSE]
Nothing == [bulk |-> 0, name |-> <<>>, bank |-> <<>>]

-----------------------------------------------------------------------------
(* Opening.                                                                *)

CopiesAgain(file, copy) ==
  /\ phase = "closed"
  /\ phase' = "opening"
  /\ db' = file
  /\ bak' = IF file.version < 1 /\ file.patch # <<>> THEN file ELSE copy
  /\ UNCHANGED <<clock, acts, meant>>

\* open: a library with patches and no mark is first copied, once.  Which file
\* it is, and what else starts, is Start of module Storage.
Open(file, copy) ==
  /\ phase = "closed"
  /\ phase' = "opening"
  /\ db' = file
  /\ bak' = IF file.version < 1 /\ file.patch # <<>> /\ copy = NoFile
            THEN file ELSE copy
  /\ UNCHANGED <<clock, acts, meant>>

\* init: the tables, and the patches of a library without the mark grouped.
Group ==
  /\ phase = "opening"
  /\ phase' = IF db.version < 1 THEN "grouped" ELSE "open"
  /\ db' = IF db.version < 1 THEN migrate_to_bulks(db) ELSE db
  /\ UNCHANGED <<bak, clock, acts, meant, storageVars>>

\* PRAGMA user_version = 1, after the transaction.
Stamp ==
  /\ phase = "grouped"
  /\ phase' = "open"
  /\ db' = [db EXCEPT !.version = 1]
  /\ UNCHANGED <<bak, clock, acts, meant, storageVars>>

\* A file that cannot be opened: every command says why, until the next start.
OpenFails ==
  /\ phase = "opening"
  /\ phase' = "failed"
  /\ UNCHANGED <<db, bak, clock, acts, meant, storageVars>>

-----------------------------------------------------------------------------
(* The commands.                                                           *)

PatchIds == 1..MaxPatch
BulkIds  == 1..MaxBulk

\* with_library: one command, under the mutex.  A refusal leaves the library
\* as the command left it; putting it back is the command's own in_tx.
command(r, storing) ==
  /\ phase = "open"
  /\ acts < MaxActs
  /\ acts' = acts + 1
  /\ db' = r.db
  /\ meant' = storing
  /\ UNCHANGED <<phase, bak, clock, storageVars>>

with_library(r) == command(r, Nothing)

AddPatch(bytes)     == with_library(add_patch(db, bytes, "bank"))
SetFavourite(i, on) == with_library(set_favourite(db, i, on))
AddTag(i, tag)      == with_library(add_tag(db, i, tag))
RemoveTag(i, tag)   == with_library(remove_tag(db, i, tag))
Rename(i, name)     == with_library(rename(db, i, name))
Delete(i)           == with_library(delete(db, i))
ImportSyx(file, s)  ==
  command(import_syx(db, file, s), [bulk |-> 0, name |-> <<>>, bank |-> file])
SaveBulk(b, name, bank) ==
  command(save_bulk(db, b, name, bank, clock),
          [bulk |-> b, name |-> name, bank |-> bank])
RenameBulk(b, name) == with_library(rename_bulk(db, b, name))
DuplicateBulk(b, name) == with_library(duplicate_bulk(db, b, name))
DeleteBulk(b)       == with_library(delete_bulk(db, b))
BulkPlace(b, p, i)  == with_library(bulk_place(db, b, p, i, clock))
BulkAppend(b, i)    == with_library(bulk_append(db, b, i, clock))
BulkClear(b, p)     == with_library(bulk_clear(db, b, p, clock))
BulkSwap(b, p, q)   == with_library(bulk_swap(db, b, p, q, clock))
BulkMove(b, p, c, q) == with_library(bulk_move(db, b, p, c, q, clock))
Restore(b, v)       == with_library(restore_revision(db, b, v, clock))

\* Time passes.
Tick ==
  /\ phase = "open"
  /\ clock < MaxClock
  /\ clock' = clock + 1
  /\ UNCHANGED <<db, phase, bak, acts, meant, storageVars>>

PatchCommand ==
  \/ \E i \in PatchIds :
       \/ \E on \in BOOLEAN : SetFavourite(i, on)
       \/ \E tag \in Tags : AddTag(i, tag)
       \/ \E tag \in Tags : RemoveTag(i, tag)
       \/ \E name \in PatchNames : Rename(i, name)
       \/ Delete(i)
  \/ \E bytes \in Bytes \cup {Damaged} : AddPatch(bytes)

WholeBulkCommand ==
  \/ \E file \in Banks, s \in Bases : ImportSyx(file, s)
  \/ \E bank \in Banks, b \in {0} \cup BulkIds, name \in Typed :
       SaveBulk(b, name, bank)
  \/ \E b \in BulkIds :
       \/ \E name \in Typed : RenameBulk(b, name)
       \/ \E name \in Typed : DuplicateBulk(b, name)
       \/ DeleteBulk(b)
       \/ \E v \in 1..MAX_REVISIONS : Restore(b, v)

PlaceCommand ==
  \E b \in BulkIds :
    \/ \E p \in Places, i \in PatchIds : BulkPlace(b, p, i)
    \/ \E i \in PatchIds : BulkAppend(b, i)
    \/ \E p \in Places : BulkClear(b, p)
    \/ \E p, q \in Places : BulkSwap(b, p, q)
    \/ \E p, q \in Places, c \in BulkIds : BulkMove(b, p, c, q)

Command == PatchCommand \/ WholeBulkCommand \/ PlaceCommand

-----------------------------------------------------------------------------
(* What the library promises.                                              *)

Versions(d, b) == d.bulk[b].versions

\* The tables hold what they may, whatever the commands.
TypeOK ==
  /\ WellFormed(db)
  /\ phase \in {"closed", "opening", "grouped", "open", "failed"}
  /\ clock \in 0..MaxClock
  /\ acts \in 0..MaxActs

\* Identical patches are stored once, however they came in: by file, from the
\* bank, one by one, or by a rename.
StoredOnce == OncePerBytes(db)

\* A bank that is saved, or a file that is imported, is in the library whole
\* (each patch's bytes at its place of one bulk) or has left no trace in it.
WholeOrNotAtAll ==
  [][meant' # Nothing /\ phase = "open" =>
       \/ db' = db
       \/ \E c \in DOMAIN db'.bulk :
            /\ IF meant'.bulk = 0 THEN c \notin DOMAIN db.bulk
                                  ELSE c = meant'.bulk
            /\ meant'.name \in {<<>>, db'.bulk[c].name}
            /\ bulk_blocks(db', c) = meant'.bank]_libVars

\* What a bulk held before a change can be had back: it is the newest version
\* after the change.  Not kept are an empty bulk, what a deleted patch leaves,
\* and edits of single places within the throttle of the last version; a save
\* over the bulk and a restore always keep it.
ChangesAreKept ==
  [][\A b \in DOMAIN db.bulk \cap DOMAIN db'.bulk :
       LET was == db.bulk[b].slots
           vs  == Versions(db, b)
           is  == Versions(db', b)
           wholeBulk ==
             \/ \E v \in DOMAIN vs : Restore(b, v)
             \/ \E name \in Typed, bank \in Banks : SaveBulk(b, name, bank)
       IN phase = "open" /\ db'.bulk[b].slots # was =>
            \/ DOMAIN was = {}
            \/ is # <<>> /\ Newest(is).slots = was
            \/ DOMAIN db.patch \ DOMAIN db'.patch # {}
            \/ /\ vs # <<>> /\ clock - Newest(vs).at < THROTTLE
               /\ ~wholeBulk]_libVars

\* Deleting a bulk changes no other bulk and takes no marked patch with it,
\* though patches are shared between bulks and go with the last one.
DeletesOnlyItsOwn ==
  [][\A b \in BulkIds :
       DeleteBulk(b) =>
         /\ \A c \in DOMAIN db.bulk \ {b} :
              c \in DOMAIN db'.bulk /\ db'.bulk[c] = db.bulk[c]
         /\ \A i \in DOMAIN db.patch \ DOMAIN db'.patch :
              ~db.patch[i].favourite /\ db.patch[i].tags = {}]_libVars

\* bulk.rs:633 says of a version that is restored "A patch deleted since the
\* version was kept cannot come back; its position stays empty."
RestoreGivesWhatWasKept ==
  [][\A b \in BulkIds, v \in 1..MAX_REVISIONS :
       Restore(b, v) /\ b \in DOMAIN db.bulk /\ v \in DOMAIN Versions(db, b) =>
         \A p \in DOMAIN db'.bulk[b].slots :
           db'.patch[db'.bulk[b].slots[p]].bytes.sound
             = Versions(db, b)[v].held[p]]_libVars
=============================================================================
