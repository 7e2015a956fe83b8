--------------------------- MODULE LibraryTables ---------------------------
(***************************************************************************)
(* What the library's file holds (crates/xppatch-library) and what each    *)
(* command makes of it: patches stored once by their bytes, bulks that say *)
(* which patch is at which place, and the versions kept of each bulk.      *)
(* Each operator has the name of the function it stands for and takes the  *)
(* library first.                                                          *)
(*                                                                         *)
(* A patch's bytes are its sound and its name.  Times of change, what a    *)
(* list sorts by and the hash that finds candidates are left out; a name   *)
(* is the words and the numbers after them: "bank (2)" is <<"bank", 2>>.   *)
(***************************************************************************)
EXTENDS Integers, Sequences, FiniteSets, SequencesExt

CONSTANTS
  Sounds,        \* what a patch sounds like: its bytes but for the name
  PatchNames,    \* names of patches
  Bases,         \* names of files and bulks, as typed
  Tags,
  Damaged,       \* bytes that are no patch
  BULK_SLOTS,    \* places in a bulk (128)
  MAX_REVISIONS, \* versions kept of a bulk (10)
  THROTTLE       \* REVISION_THROTTLE_SECS (60)

ASSUME TablesAssumption ==
  /\ BULK_SLOTS \in Nat \ {0}
  /\ MAX_REVISIONS \in Nat \ {0}
  /\ THROTTLE \in Nat

-----------------------------------------------------------------------------
(* The tables.                                                             *)

Places  == 0..(BULK_SLOTS - 1)
Bytes   == [sound: Sounds, name: PatchNames]
Sources == Bases \cup {"bank"}
Patch   == [bytes: Bytes, favourite: BOOLEAN, tags: SUBSET Tags,
            source: Sources]
NewFile == [version |-> 0, patch |-> <<>>, bulk |-> <<>>]

\* A partial function over the places: the rows of bulk_patch of one bulk.
SlotMap(d) == UNION {[S -> DOMAIN d.patch] : S \in SUBSET Places}

TableIds(t) == DOMAIN t
\* SQLite numbers a new row after the largest id in use: the id of a row that
\* was deleted is given again when it was the last.
NextId(t) == 1 + Max({0} \cup TableIds(t))

\* What the tables hold, and that no place names a patch that is not stored:
\* of a patch deleted nothing is left in any bulk.
VersionOK(v) ==
  DOMAIN v = {"at", "slots", "held"} /\ v.at \in Int
  /\ DOMAIN v.slots \subseteq Places
BulkRow(name, slots, versions) ==
  [name |-> name, slots |-> slots, versions |-> versions]
BulkOK(d, r) ==
  /\ r = BulkRow(r.name, r.slots, r.versions)
  /\ DOMAIN r.slots \subseteq Places
  /\ r.slots \in [DOMAIN r.slots -> DOMAIN d.patch]
  /\ r.versions \in Seq(Range(r.versions)) /\ Len(r.versions) <= MAX_REVISIONS
  /\ \A v \in DOMAIN r.versions : VersionOK(r.versions[v])
WellFormed(d) ==
  /\ DOMAIN d = {"version", "patch", "bulk"} /\ d.version \in {0, 1}
  /\ IsFiniteSet(DOMAIN d.patch) /\ DOMAIN d.patch \subseteq Nat \ {0}
  /\ d.patch \in [DOMAIN d.patch -> Patch]
  /\ IsFiniteSet(DOMAIN d.bulk) /\ DOMAIN d.bulk \subseteq Nat \ {0}
  /\ \A b \in DOMAIN d.bulk : BulkOK(d, d.bulk[b])
  /\ \A b, c \in DOMAIN d.bulk : d.bulk[b].name = d.bulk[c].name => b = c
OncePerBytes(d) ==
  \A i, j \in DOMAIN d.patch : d.patch[i].bytes = d.patch[j].bytes => i = j

Put(f, x, y) == [z \in DOMAIN f \cup {x} |-> IF z = x THEN y ELSE f[z]]
Without(f, S) == [z \in DOMAIN f \ S |-> f[z]]

\* What a command comes to: the library afterwards, or a refusal.
Done(d)    == [ok |-> TRUE, db |-> d]
Refused(d) == [ok |-> FALSE, db |-> d]
NoRollback(before, r) == r
\* One transaction: all of it or none of it.
in_tx(before, r) == IF r.ok THEN r ELSE Refused(before)

-----------------------------------------------------------------------------
(* Patches, stored once.                                                   *)

Holding(d, bytes) == {i \in DOMAIN d.patch : d.patch[i].bytes = bytes}
NewPatch(bytes, source) ==
  [bytes |-> bytes, favourite |-> FALSE, tags |-> {}, source |-> source]

\* add_patch: damaged bytes are refused, known ones found, others stored.
add_patch(d, bytes, source) ==
  IF bytes = Damaged THEN Refused(d)
  ELSE IF Holding(d, bytes) # {} THEN Done(d)
  ELSE Done([d EXCEPT !.patch =
               Put(@, NextId(@), NewPatch(bytes, source))])

\* The places of a bank whose bytes are stored neither in the library nor at
\* an earlier place, and the id each gets.
FirstOfItsKind(d, bank) ==
  {p \in DOMAIN bank : /\ Holding(d, bank[p]) = {}
                       /\ \A q \in DOMAIN bank : bank[q] = bank[p] => p <= q}
IdAt(d, bank, p) ==
  NextId(d.patch) - 1
    + Cardinality({q \in FirstOfItsKind(d, bank) : q <= p})

\* add_patch for every patch of a bank in the order of the places, up to the
\* first damaged one.
add_all(d, bank, source) ==
  LET sound == {p \in DOMAIN bank :
                  \A q \in DOMAIN bank : q <= p => bank[q] # Damaged}
      good  == [p \in sound |-> bank[p]]
      fresh == FirstOfItsKind(d, good)
      given == {IdAt(d, good, p) : p \in fresh}
      at(i) == CHOOSE p \in fresh : IdAt(d, good, p) = i
      after == [d EXCEPT !.patch =
                  [i \in DOMAIN @ \cup given |->
                     IF i \in DOMAIN @ THEN @[i]
                     ELSE NewPatch(good[at(i)], source)]]
  IN IF sound = DOMAIN bank THEN Done(after) ELSE Refused(after)

\* Where the patches of a bank are once they are all stored.
SlotsOf(d, bank) ==
  [p \in DOMAIN bank |-> CHOOSE i \in Holding(d, bank[p]) : TRUE]

set_favourite(d, i, on) ==
  IF i \notin DOMAIN d.patch THEN Refused(d)
  ELSE Done([d EXCEPT !.patch[i].favourite = on])

add_tag(d, i, tag) ==
  IF i \notin DOMAIN d.patch THEN Refused(d)
  ELSE Done([d EXCEPT !.patch[i].tags = @ \cup {tag}])

remove_tag(d, i, tag) ==
  IF i \notin DOMAIN d.patch THEN Refused(d)
  ELSE Done([d EXCEPT !.patch[i].tags = @ \ {tag}])

RenamesAnyway(d, i, name) ==
  IF i \notin DOMAIN d.patch THEN Refused(d)
  ELSE Done([d EXCEPT !.patch[i].bytes.name = name])

\* rename: refused when another patch is exactly what this one would become.
rename(d, i, name) ==
  IF i \notin DOMAIN d.patch THEN Refused(d)
  ELSE LET bytes == [d.patch[i].bytes EXCEPT !.name = name]
       IN IF Holding(d, bytes) \ {i} # {} THEN Refused(d)
          ELSE Done([d EXCEPT !.patch[i].bytes = bytes])

NoForeignKeys(d, S) == [d EXCEPT !.patch = Without(@, S)]

\* DELETE FROM patch takes the rows of bulk_patch that name it along
\* (ON DELETE CASCADE); kept versions are text and keep the number.
DropPatches(d, S) ==
  LET left(s) == Without(s, {p \in DOMAIN s : s[p] \in S})
  IN [d EXCEPT
        !.patch = Without(@, S),
        !.bulk  = [b \in DOMAIN d.bulk |->
                     [d.bulk[b] EXCEPT !.slots = left(d.bulk[b].slots)]]]

delete(d, i) ==
  IF i \notin DOMAIN d.patch THEN Refused(d) ELSE Done(DropPatches(d, {i}))

-----------------------------------------------------------------------------
(* Bulks and their versions.                                               *)

bulk_name_taken(d, name, except) ==
  \E b \in DOMAIN d.bulk \ except : d.bulk[b].name = name

\* base, or base (2), base (3) ...: the first that nobody has.
unique_bulk_name(d, base) ==
  IF ~bulk_name_taken(d, base, {}) THEN base
  ELSE LET free == {n \in 2..(2 + Cardinality(DOMAIN d.bulk)) :
                      ~bulk_name_taken(d, Append(base, n), {})}
       IN Append(base, Min(free))

\* A version: when it was kept and what it names.  `held` is history: the
\* sounds that were at the places then, for RestoreGivesWhatWasKept.
Version(d, b, now) ==
  [at |-> now, slots |-> d.bulk[b].slots,
   held |-> [p \in DOMAIN d.bulk[b].slots |->
               d.patch[d.bulk[b].slots[p]].bytes.sound]]

Newest(vs) == vs[Len(vs)]
\* Versions over the limit are dropped, oldest first.
Pruned(vs) ==
  IF Len(vs) <= MAX_REVISIONS THEN vs
  ELSE SubSeq(vs, Len(vs) - MAX_REVISIONS + 1, Len(vs))

NeverForced(d, b, now, force) ==
  LET vs == d.bulk[b].versions
  IN IF \/ DOMAIN d.bulk[b].slots = {}
        \/ vs # <<>> /\ now - Newest(vs).at < THROTTLE
     THEN d
     ELSE [d EXCEPT !.bulk[b].versions =
             Pruned(Append(@, Version(d, b, now)))]

\* keep_version: nothing for an empty bulk, for contents kept last, or, when
\* not forced, moments after the last one.
keep_version(d, b, now, force) ==
  LET slots == d.bulk[b].slots
      vs    == d.bulk[b].versions
      same  == vs # <<>> /\ Newest(vs).slots = slots
      soon  == vs # <<>> /\ ~force /\ now - Newest(vs).at < THROTTLE
  IN IF DOMAIN slots = {} \/ same \/ soon THEN d
     ELSE [d EXCEPT !.bulk[b].versions =
             Pruned(Append(@, Version(d, b, now)))]

write_slot_map(d, b, slots) == [d EXCEPT !.bulk[b].slots = slots]

create_bulk_inner(d, name, slots) ==
  IF \/ bulk_name_taken(d, name, {})
     \/ \E p \in DOMAIN slots : slots[p] \notin DOMAIN d.patch
  THEN Refused(d)
  ELSE Done([d EXCEPT !.bulk =
               Put(@, NextId(@), BulkRow(name, slots, <<>>))])

\* import_syx: a file becomes a bulk named after it, whatever it is called.
import_syx(d, file, base) ==
  IF DOMAIN file = {} THEN Refused(d)
  ELSE in_tx(d,
         LET r == add_all(d, file, base)
         IN IF ~r.ok THEN r
            ELSE create_bulk_inner(r.db, unique_bulk_name(r.db, <<base>>),
                                   SlotsOf(r.db, file)))

\* save_bulk: the bank as a new bulk (target 0) or over the bulk `target`.
save_bulk(d, target, name, bank, now) ==
  in_tx(d,
    LET r == add_all(d, bank, "bank")
    IN IF ~r.ok THEN r
       ELSE IF target = 0
            THEN create_bulk_inner(r.db, name, SlotsOf(r.db, bank))
       ELSE IF \/ target \notin DOMAIN r.db.bulk
               \/ bulk_name_taken(r.db, name, {target})
            THEN Refused(r.db)
       ELSE LET kept    == keep_version(r.db, target, now, TRUE)
                written == write_slot_map(kept, target, SlotsOf(kept, bank))
            IN Done([written EXCEPT !.bulk[target].name = name]))

rename_bulk(d, b, name) ==
  IF b \notin DOMAIN d.bulk \/ bulk_name_taken(d, name, {b}) THEN Refused(d)
  ELSE Done([d EXCEPT !.bulk[b].name = name])

duplicate_bulk(d, b, name) ==
  IF b \notin DOMAIN d.bulk THEN Refused(d)
  ELSE in_tx(d, create_bulk_inner(d, name, d.bulk[b].slots))

DeletesShared(d, b) ==
  IF b \notin DOMAIN d.bulk THEN Refused(d)
  ELSE LET gone == {i \in Range(d.bulk[b].slots) :
                      ~d.patch[i].favourite /\ d.patch[i].tags = {}}
       IN Done(DropPatches([d EXCEPT !.bulk = Without(@, {b})], gone))

\* delete_bulk: with it go the patches that only it held, unless marked.
delete_bulk(d, b) ==
  IF b \notin DOMAIN d.bulk THEN Refused(d)
  ELSE LET left == [d EXCEPT !.bulk = Without(@, {b})]
           used == UNION {Range(left.bulk[c].slots) : c \in DOMAIN left.bulk}
           gone == {i \in Range(d.bulk[b].slots) :
                      /\ ~d.patch[i].favourite
                      /\ d.patch[i].tags = {}
                      /\ i \notin used}
       IN Done(DropPatches(left, gone))

bulk_place(d, b, p, i, now) ==
  IF b \notin DOMAIN d.bulk \/ i \notin DOMAIN d.patch THEN Refused(d)
  ELSE LET kept == keep_version(d, b, now, FALSE)
       IN Done([kept EXCEPT !.bulk[b].slots = Put(@, p, i)])

\* bulk_append: the first free place; a full bulk refuses.
bulk_append(d, b, i, now) ==
  IF b \notin DOMAIN d.bulk THEN Refused(d)
  ELSE LET free == Places \ DOMAIN d.bulk[b].slots
       IN IF free = {} THEN Refused(d)
          ELSE bulk_place(d, b, Min(free), i, now)

bulk_clear(d, b, p, now) ==
  IF b \notin DOMAIN d.bulk THEN Refused(d)
  ELSE LET kept == keep_version(d, b, now, FALSE)
       IN Done([kept EXCEPT !.bulk[b].slots = Without(@, {p})])

\* The slots of a bulk with a place holding what `from` holds at q: a patch,
\* or nothing.
Moved(to, p, from, q) ==
  IF q \in DOMAIN from THEN Put(to, p, from[q]) ELSE Without(to, {p})

bulk_swap(d, b, p, q, now) ==
  IF b \notin DOMAIN d.bulk THEN Refused(d)
  ELSE IF p = q THEN Done(d)
  ELSE LET kept == keep_version(d, b, now, FALSE)
           s    == d.bulk[b].slots
       IN Done(write_slot_map(kept, b, Moved(Moved(s, p, s, q), q, s, p)))

\* bulk_move: to another bulk; what is in the way takes the place left.
bulk_move(d, b, p, c, q, now) ==
  IF b = c THEN bulk_swap(d, b, p, q, now)
  ELSE IF b \notin DOMAIN d.bulk \/ c \notin DOMAIN d.bulk THEN Refused(d)
  ELSE LET s == d.bulk[b].slots
           t == d.bulk[c].slots
           kept == keep_version(keep_version(d, b, now, FALSE), c, now, FALSE)
       IN IF p \notin DOMAIN s THEN Refused(d)
          ELSE Done(write_slot_map(
                      write_slot_map(kept, c, Moved(t, q, s, p)),
                      b, Moved(s, p, t, q)))

\* restore_revision: the version is read first, then the contents are kept
\* (which may drop that version); patches that are gone leave gaps.
restore_revision(d, b, v, now) ==
  IF b \notin DOMAIN d.bulk \/ v \notin DOMAIN d.bulk[b].versions
  THEN Refused(d)
  ELSE LET was  == d.bulk[b].versions[v].slots
           kept == keep_version(d, b, now, TRUE)
           lost == {p \in DOMAIN was : was[p] \notin DOMAIN d.patch}
       IN Done(write_slot_map(kept, b, Without(was, lost)))

\* Every patch as (place, bytes), as it is loaded into the bank.
bulk_blocks(d, b) ==
  [p \in DOMAIN d.bulk[b].slots |-> d.patch[d.bulk[b].slots[p]].bytes]

-----------------------------------------------------------------------------
(* A library made before bulks existed (version 0) is grouped once: the    *)
(* patches of each source, in the order stored, in chunks of BULK_SLOTS.   *)

OfSource(d, s)  == {i \in DOMAIN d.patch : d.patch[i].source = s}
RankIn(d, i)    == Cardinality({j \in OfSource(d, d.patch[i].source) : j < i})
Chunk(d, s, n)  == {i \in OfSource(d, s) : RankIn(d, i) \div BULK_SLOTS = n}
Chunks(d)       == {<<d.patch[i].source, RankIn(d, i) \div BULK_SLOTS>> :
                      i \in DOMAIN d.patch}
ChunkSlots(d, s, n) ==
  [p \in {RankIn(d, i) % BULK_SLOTS : i \in Chunk(d, s, n)} |->
     CHOOSE i \in Chunk(d, s, n) : RankIn(d, i) % BULK_SLOTS = p]
ChunkName(s, n) == IF n = 0 THEN <<s>> ELSE <<s, n + 1>>

migrate_to_bulks(d) ==
  LET Before(x, y) ==
        \/ Min(OfSource(d, x[1])) < Min(OfSource(d, y[1]))
        \/ x[1] = y[1] /\ x[2] < y[2]
      order == SetToSortSeq(Chunks(d), Before)
      Create(e, c) ==
        create_bulk_inner(e, unique_bulk_name(e, ChunkName(c[1], c[2])),
                          ChunkSlots(d, c[1], c[2])).db
      after[n \in 0..Cardinality(Chunks(d))] ==
        IF n = 0 THEN d ELSE Create(after[n - 1], order[n])
  IN after[Cardinality(Chunks(d))]
=============================================================================
