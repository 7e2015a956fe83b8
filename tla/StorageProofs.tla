--------------------------- MODULE StorageProofs ---------------------------
(***************************************************************************)
(* Proofs about Storage and Library, for any folders, banks, names and     *)
(* limits: what the tables hold and that nothing is stored twice, that a   *)
(* library made before bulks is kept as it was, that choosing a folder     *)
(* overwrites nothing and points only where a library is, and what the     *)
(* commands promise of the bulks.  First what each command of the library  *)
(* makes of its tables: it keeps them well formed and every patch stored   *)
(* once (Good), whether it is carried out or refused.                      *)
(***************************************************************************)
EXTENDS Storage, FiniteSetTheorems, WellFoundedInduction, TLAPS

Good(d) == WellFormed(d) /\ OncePerBytes(d)

-----------------------------------------------------------------------------
(* Numbers.                                                                *)

(* A set of numbers has a least one.                                       *)
LEMMA LeastNumber ==
    ASSUME NEW T \in SUBSET Nat, T # {}
    PROVE  \E n \in T : \A m \in T : n <= m
  <1> DEFINE U == {0..(n - 1) : n \in T}
  <1>1. \A n \in Nat : IsFiniteSet(0..(n - 1))
    BY FS_Interval
  <1>2. U \subseteq FiniteSubsetsOf(Nat) /\ U # {}
    <2>1. ASSUME NEW n \in T PROVE 0..(n - 1) \in FiniteSubsetsOf(Nat)
      BY <1>1, <2>1 DEF FiniteSubsetsOf
    <2>2. QED
      BY <2>1
  <1>3. \E x \in U : \A y \in U : ~(<<y, x>> \in StrictSubsetOrdering(Nat))
    BY <1>2, FS_StrictSubsetOrderingWellFounded, WFMin
  <1>4. PICK n \in T : \A m \in T :
           <<0..(m - 1), 0..(n - 1)>> \notin StrictSubsetOrdering(Nat)
    BY <1>3
  <1>5. ASSUME NEW m \in T, m < n PROVE FALSE
    <2>1. /\ 0..(m - 1) \in FiniteSubsetsOf(Nat)
          /\ 0..(n - 1) \in FiniteSubsetsOf(Nat)
      BY <1>2
    <2>2. m \in 0..(n - 1) /\ m \notin 0..(m - 1)
      BY <1>5
    <2>3. 0..(m - 1) \subseteq 0..(n - 1) /\ 0..(m - 1) # 0..(n - 1)
      BY <2>2, <1>5
    <2>4. <<0..(m - 1), 0..(n - 1)>> \in StrictSubsetOrdering(Nat)
      BY <2>1, <2>3 DEF StrictSubsetOrdering, FiniteSubsetsOf
    <2>5. QED
      BY <1>4, <1>5, <2>4
  <1>6. QED
    BY <1>5

(* A finite set of numbers has a greatest one.                             *)
LEMMA GreatestNumber ==
    ASSUME NEW T \in SUBSET Nat, T # {}, IsFiniteSet(T)
    PROVE  Max(T) \in T /\ \A m \in T : m <= Max(T)
  <1> DEFINE Above(n) == {m \in T : m > n}
             U == {Above(n) : n \in T}
  <1>1. U \subseteq FiniteSubsetsOf(Nat) /\ U # {}
    <2>1. \A n \in T : IsFiniteSet(Above(n))
      BY FS_Subset
    <2>2. QED
      BY <2>1 DEF FiniteSubsetsOf
  <1>2. \E x \in U : \A y \in U : ~(<<y, x>> \in StrictSubsetOrdering(Nat))
    BY <1>1, FS_StrictSubsetOrderingWellFounded, WFMin
  <1>3. PICK n \in T : \A m \in T :
           <<Above(m), Above(n)>> \notin StrictSubsetOrdering(Nat)
    BY <1>2
  <1>4. ASSUME NEW m \in T, m > n PROVE FALSE
    <2>1. m \in Above(n) /\ m \notin Above(m)
      BY <1>4
    <2>2. Above(m) \subseteq Above(n) /\ Above(m) # Above(n)
      <3>1. \A k \in T : k > m => k > n
        BY <1>4
      <3>2. QED
        BY <2>1, <3>1
    <2>3. Above(m) \in FiniteSubsetsOf(Nat) /\ Above(n) \in FiniteSubsetsOf(Nat)
      BY <1>1
    <2>4. QED
      BY <2>2, <2>3, <1>3 DEF StrictSubsetOrdering
  <1>5. \E x \in T : \A y \in T : x >= y
    BY <1>4
  <1>6. Max(T) \in T /\ \A y \in T : Max(T) >= y
    BY <1>5 DEF Max
  <1>7. QED
    BY <1>6

(* A new id is after every one in use.                                     *)
LEMMA NextIdFacts ==
    ASSUME NEW t, IsFiniteSet(DOMAIN t), DOMAIN t \subseteq Nat \ {0}
    PROVE  /\ NextId(t) \in Nat \ {0} /\ NextId(t) \notin DOMAIN t
           /\ \A i \in DOMAIN t : i < NextId(t)
  <1> DEFINE T == {0} \cup DOMAIN t
  <1>1. T \in SUBSET Nat /\ T # {} /\ IsFiniteSet(T)
    <2>1. IsFiniteSet(DOMAIN t \cup {0})
      BY FS_AddElement
    <2>2. DOMAIN t \cup {0} = T
      OBVIOUS
    <2>3. QED
      BY <2>1, <2>2
  <1>2. Max(T) \in T /\ \A m \in T : m <= Max(T)
    BY <1>1, GreatestNumber
  <1>3. NextId(t) = 1 + Max(T)
    BY DEF NextId, TableIds
  <1>4. QED
    BY <1>2, <1>3

-----------------------------------------------------------------------------
(* Tables.                                                                 *)

Fields == {"version", "patch", "bulk"}

(* One table replaced.                                                     *)
LEMMA PatchReplaced ==
    ASSUME NEW d, DOMAIN d = Fields, NEW t
    PROVE  LET e == [d EXCEPT !.patch = t]
           IN  /\ DOMAIN e = Fields /\ e.version = d.version
               /\ e.patch = t /\ e.bulk = d.bulk
  BY DEF Fields

LEMMA BulksReplaced ==
    ASSUME NEW d, DOMAIN d = Fields, NEW t
    PROVE  LET e == [d EXCEPT !.bulk = t]
           IN  /\ DOMAIN e = Fields /\ e.version = d.version
               /\ e.patch = d.patch /\ e.bulk = t
  BY DEF Fields

(* The parts of a well-formed library.                                     *)
LEMMA Parts ==
    ASSUME NEW d, WellFormed(d)
    PROVE  /\ DOMAIN d = Fields /\ d.version \in {0, 1}
           /\ IsFiniteSet(DOMAIN d.patch) /\ DOMAIN d.patch \subseteq Nat \ {0}
           /\ d.patch \in [DOMAIN d.patch -> Patch]
           /\ IsFiniteSet(DOMAIN d.bulk) /\ DOMAIN d.bulk \subseteq Nat \ {0}
           /\ \A b \in DOMAIN d.bulk : BulkOK(d, d.bulk[b])
           /\ \A b, c \in DOMAIN d.bulk :
                d.bulk[b].name = d.bulk[c].name => b = c
  BY DEF WellFormed, Fields

(* More patches, or others under the same ids.                             *)
LEMMA PatchesChanged ==
    ASSUME NEW d, WellFormed(d), NEW e, DOMAIN e = Fields,
           e.version = d.version, e.bulk = d.bulk,
           IsFiniteSet(DOMAIN e.patch), DOMAIN e.patch \subseteq Nat \ {0},
           e.patch \in [DOMAIN e.patch -> Patch],
           DOMAIN d.patch \subseteq DOMAIN e.patch
    PROVE  WellFormed(e)
  <1>1. ASSUME NEW b \in DOMAIN e.bulk PROVE BulkOK(e, e.bulk[b])
    BY <1>1 DEF WellFormed, BulkOK
  <1>2. QED
    BY <1>1 DEF WellFormed, Fields

(* One bulk changed, or a new one.                                         *)
LEMMA BulkChanged ==
    ASSUME NEW d, WellFormed(d), NEW e, DOMAIN e = Fields,
           e.version = d.version, e.patch = d.patch,
           NEW b \in Nat \ {0}, DOMAIN e.bulk = DOMAIN d.bulk \cup {b},
           \A c \in DOMAIN d.bulk : c # b => e.bulk[c] = d.bulk[c],
           BulkOK(d, e.bulk[b]),
           \A c \in DOMAIN d.bulk : c # b => e.bulk[b].name # d.bulk[c].name
    PROVE  WellFormed(e)
  <1>1. ASSUME NEW c \in DOMAIN e.bulk PROVE BulkOK(e, e.bulk[c])
    <2>1. BulkOK(d, e.bulk[c])
      BY <1>1 DEF WellFormed
    <2>2. QED
      BY <2>1 DEF BulkOK
  <1>2. IsFiniteSet(DOMAIN e.bulk)
    BY FS_AddElement DEF WellFormed
  <1>3. QED
    BY <1>1, <1>2 DEF WellFormed, Fields

(* A library that differs from another in one bulk at most.                *)
OnlyBulk(d, e, b) ==
    /\ DOMAIN e = Fields /\ e.version = d.version /\ e.patch = d.patch
    /\ DOMAIN e.bulk = DOMAIN d.bulk
    /\ \A c \in DOMAIN d.bulk : c # b => e.bulk[c] = d.bulk[c]

IsRow(r) == r = BulkRow(r.name, r.slots, r.versions)

WithSlots(r, x)    == [r EXCEPT !.slots = x]
WithName(r, x)     == [r EXCEPT !.name = x]
WithVersions(r, x) == [r EXCEPT !.versions = x]

LEMMA RowReplaced ==
    ASSUME NEW r, IsRow(r), NEW x
    PROVE  /\ IsRow(WithSlots(r, x)) /\ WithSlots(r, x).slots = x
           /\ WithSlots(r, x).name = r.name
           /\ WithSlots(r, x).versions = r.versions
           /\ IsRow(WithName(r, x)) /\ WithName(r, x).name = x
           /\ WithName(r, x).slots = r.slots
           /\ WithName(r, x).versions = r.versions
           /\ IsRow(WithVersions(r, x)) /\ WithVersions(r, x).versions = x
           /\ WithVersions(r, x).name = r.name
           /\ WithVersions(r, x).slots = r.slots
  <1> DEFINE n == r.name
             s == r.slots
             v == r.versions
  <1>1. r = [name |-> n, slots |-> s, versions |-> v]
    BY DEF IsRow, BulkRow
  <1> HIDE DEF n, s, v
  <1>2. /\ WithSlots(r, x) = [name |-> n, slots |-> x, versions |-> v]
        /\ WithName(r, x) = [name |-> x, slots |-> s, versions |-> v]
        /\ WithVersions(r, x) = [name |-> n, slots |-> s, versions |-> x]
    BY <1>1 DEF WithSlots, WithName, WithVersions
  <1>3. QED
    BY <1>2 DEF IsRow, BulkRow, n, s, v

LEMMA RowIsItself ==
    ASSUME NEW r, IsRow(r)
    PROVE  WithSlots(r, r.slots) = r
  <1> DEFINE n == r.name
             s == r.slots
             v == r.versions
  <1>1. r = [name |-> n, slots |-> s, versions |-> v]
    BY DEF IsRow, BulkRow
  <1> HIDE DEF n, s, v
  <1>2. [r EXCEPT !.slots = s] = [name |-> n, slots |-> s, versions |-> v]
    BY <1>1
  <1>3. QED
    BY <1>1, <1>2 DEF s, WithSlots

LEMMA SlotsReplaced ==
    ASSUME NEW d, DOMAIN d = Fields, NEW b \in DOMAIN d.bulk,
           IsRow(d.bulk[b]), NEW x
    PROVE  LET e == write_slot_map(d, b, x)
           IN  /\ OnlyBulk(d, e, b) /\ IsRow(e.bulk[b])
               /\ e.bulk[b].slots = x /\ e.bulk[b].name = d.bulk[b].name
               /\ e.bulk[b].versions = d.bulk[b].versions
  <1> DEFINE row == WithSlots(d.bulk[b], x)
             t   == [d.bulk EXCEPT ![b] = row]
             e   == [d EXCEPT !.bulk = t]
  <1>1. /\ IsRow(row) /\ row.slots = x
        /\ row.name = d.bulk[b].name
        /\ row.versions = d.bulk[b].versions
    BY RowReplaced
  <1>2. write_slot_map(d, b, x) = e
    BY DEF WithSlots, write_slot_map
  <1> HIDE DEF row
  <1>3. /\ DOMAIN t = DOMAIN d.bulk /\ t[b] = row
        /\ \A c \in DOMAIN d.bulk : c # b => t[c] = d.bulk[c]
    OBVIOUS
  <1> HIDE DEF t
  <1>4. /\ DOMAIN e = Fields /\ e.version = d.version
        /\ e.patch = d.patch /\ e.bulk = t
    BY BulksReplaced
  <1> HIDE DEF e
  <1>5. QED
    BY <1>1, <1>2, <1>3, <1>4 DEF OnlyBulk

LEMMA NameReplaced ==
    ASSUME NEW d, DOMAIN d = Fields, NEW b \in DOMAIN d.bulk,
           IsRow(d.bulk[b]), NEW x
    PROVE  LET e == [d EXCEPT !.bulk[b].name = x]
           IN  /\ OnlyBulk(d, e, b) /\ IsRow(e.bulk[b])
               /\ e.bulk[b].name = x /\ e.bulk[b].slots = d.bulk[b].slots
               /\ e.bulk[b].versions = d.bulk[b].versions
  <1> DEFINE row == WithName(d.bulk[b], x)
             t   == [d.bulk EXCEPT ![b] = row]
             e   == [d EXCEPT !.bulk = t]
  <1>1. /\ IsRow(row) /\ row.name = x
        /\ row.slots = d.bulk[b].slots
        /\ row.versions = d.bulk[b].versions
    BY RowReplaced
  <1>2. [d EXCEPT !.bulk[b].name = x] = e
    BY DEF WithName
  <1> HIDE DEF row
  <1>3. /\ DOMAIN t = DOMAIN d.bulk /\ t[b] = row
        /\ \A c \in DOMAIN d.bulk : c # b => t[c] = d.bulk[c]
    OBVIOUS
  <1> HIDE DEF t
  <1>4. /\ DOMAIN e = Fields /\ e.version = d.version
        /\ e.patch = d.patch /\ e.bulk = t
    BY BulksReplaced
  <1> HIDE DEF e
  <1>5. QED
    BY <1>1, <1>2, <1>3, <1>4 DEF OnlyBulk

LEMMA VersionsReplaced ==
    ASSUME NEW d, DOMAIN d = Fields, NEW b \in DOMAIN d.bulk,
           IsRow(d.bulk[b]), NEW x
    PROVE  LET e == [d EXCEPT !.bulk[b].versions = x]
           IN  /\ OnlyBulk(d, e, b) /\ IsRow(e.bulk[b])
               /\ e.bulk[b].versions = x /\ e.bulk[b].name = d.bulk[b].name
               /\ e.bulk[b].slots = d.bulk[b].slots
  <1> DEFINE row == WithVersions(d.bulk[b], x)
             t   == [d.bulk EXCEPT ![b] = row]
             e   == [d EXCEPT !.bulk = t]
  <1>1. /\ IsRow(row) /\ row.versions = x
        /\ row.slots = d.bulk[b].slots
        /\ row.name = d.bulk[b].name
    BY RowReplaced
  <1>2. [d EXCEPT !.bulk[b].versions = x] = e
    BY DEF WithVersions
  <1> HIDE DEF row
  <1>3. /\ DOMAIN t = DOMAIN d.bulk /\ t[b] = row
        /\ \A c \in DOMAIN d.bulk : c # b => t[c] = d.bulk[c]
    OBVIOUS
  <1> HIDE DEF t
  <1>4. /\ DOMAIN e = Fields /\ e.version = d.version
        /\ e.patch = d.patch /\ e.bulk = t
    BY BulksReplaced
  <1> HIDE DEF e
  <1>5. QED
    BY <1>1, <1>2, <1>3, <1>4 DEF OnlyBulk

LEMMA PatchFieldsReplaced ==
    ASSUME NEW d, WellFormed(d), NEW i \in DOMAIN d.patch, NEW e,
           DOMAIN e = Fields, e.version = d.version, e.bulk = d.bulk,
           DOMAIN e.patch = DOMAIN d.patch,
           e.patch = [j \in DOMAIN e.patch |-> e.patch[j]],
           \A j \in DOMAIN d.patch : j # i => e.patch[j] = d.patch[j],
           e.patch[i] \in Patch
    PROVE  WellFormed(e)
  <1>1. \A j \in DOMAIN e.patch : e.patch[j] \in Patch
    BY Parts
  <1>2. e.patch \in [DOMAIN e.patch -> Patch]
    BY <1>1
  <1>3. QED
    BY <1>2, Parts, PatchesChanged

(* A library changed in one bulk.                                          *)
LEMMA OnlyBulkGood ==
    ASSUME NEW d, Good(d), NEW b \in DOMAIN d.bulk, NEW e, OnlyBulk(d, e, b),
           BulkOK(d, e.bulk[b]),
           \A c \in DOMAIN d.bulk : c # b => e.bulk[b].name # d.bulk[c].name
    PROVE  Good(e)
  <1>1. DOMAIN e.bulk = DOMAIN d.bulk \cup {b} /\ b \in Nat \ {0}
    BY Parts DEF OnlyBulk, Good
  <1>2. WellFormed(e)
    BY <1>1, BulkChanged DEF OnlyBulk, Good
  <1>3. QED
    BY <1>2 DEF Good, OncePerBytes, OnlyBulk

-----------------------------------------------------------------------------
(* Marking and renaming patches.                                           *)

LEMMA MarkedGood ==
    ASSUME NEW d, Good(d), NEW i \in DOMAIN d.patch, NEW p \in Patch,
           p.bytes = d.patch[i].bytes
    PROVE  LET e == [d EXCEPT !.patch = [@ EXCEPT ![i] = p]]
           IN  Good(e) /\ e.version = d.version /\ e.bulk = d.bulk
  <1> DEFINE t == [d.patch EXCEPT ![i] = p]
             e == [d EXCEPT !.patch = t]
  <1>1. /\ DOMAIN t = DOMAIN d.patch /\ t[i] = p
        /\ t = [j \in DOMAIN t |-> t[j]]
        /\ \A j \in DOMAIN d.patch : j # i => t[j] = d.patch[j]
    BY Parts DEF Good
  <1>2. e = [d EXCEPT !.patch = [@ EXCEPT ![i] = p]]
    OBVIOUS
  <1> HIDE DEF t
  <1>3. /\ DOMAIN e = Fields /\ e.version = d.version
        /\ e.patch = t /\ e.bulk = d.bulk
    BY PatchReplaced, Parts DEF Good
  <1> HIDE DEF e
  <1>4. WellFormed(e)
    <2>1. /\ \A j \in DOMAIN d.patch : j # i => e.patch[j] = d.patch[j]
          /\ e.patch[i] \in Patch
          /\ e.patch = [j \in DOMAIN e.patch |-> e.patch[j]]
          /\ WellFormed(d) /\ DOMAIN e.patch = DOMAIN d.patch
      BY <1>1, <1>3 DEF Good
    <2>2. QED
      BY <1>3, <2>1, PatchFieldsReplaced
  <1>5. OncePerBytes(e)
    BY <1>1, <1>3 DEF Good, OncePerBytes
  <1>6. QED
    BY <1>2, <1>3, <1>4, <1>5 DEF Good

LEMMA PatchFields ==
    ASSUME NEW d, Good(d), NEW i \in DOMAIN d.patch
    PROVE  /\ d.patch[i] \in Patch /\ d.patch[i].bytes \in Bytes
           /\ d.patch[i].tags \subseteq Tags
  <1>1. d.patch[i] \in Patch
    BY Parts DEF Good
  <1>2. QED
    BY <1>1 DEF Patch

LEMMA set_favouriteGood ==
    ASSUME NEW d, Good(d), NEW i, NEW on \in BOOLEAN
    PROVE  LET e == set_favourite(d, i, on).db
           IN  Good(e) /\ e.version = d.version /\ e.bulk = d.bulk
  <1>1. CASE i \notin DOMAIN d.patch
    BY <1>1 DEF set_favourite, Refused
  <1>2. CASE i \in DOMAIN d.patch
    <2> DEFINE p == [d.patch[i] EXCEPT !.favourite = on]
    <2>1. p \in Patch /\ p.bytes = d.patch[i].bytes
      BY <1>2, PatchFields DEF Patch
    <2>2. set_favourite(d, i, on).db = [d EXCEPT !.patch = [@ EXCEPT ![i] = p]]
      BY <1>2 DEF set_favourite, Done
    <2> HIDE DEF p
    <2>3. QED
      BY <1>2, <2>1, <2>2, MarkedGood
  <1>3. QED
    BY <1>1, <1>2

LEMMA add_tagGood ==
    ASSUME NEW d, Good(d), NEW i, NEW tag \in Tags
    PROVE  LET e == add_tag(d, i, tag).db
           IN  Good(e) /\ e.version = d.version /\ e.bulk = d.bulk
  <1>1. CASE i \notin DOMAIN d.patch
    BY <1>1 DEF add_tag, Refused
  <1>2. CASE i \in DOMAIN d.patch
    <2> DEFINE p == [d.patch[i] EXCEPT !.tags = @ \cup {tag}]
    <2>1. p \in Patch /\ p.bytes = d.patch[i].bytes
      BY <1>2, PatchFields DEF Patch
    <2>2. add_tag(d, i, tag).db = [d EXCEPT !.patch = [@ EXCEPT ![i] = p]]
      BY <1>2 DEF add_tag, Done
    <2> HIDE DEF p
    <2>3. QED
      BY <1>2, <2>1, <2>2, MarkedGood
  <1>3. QED
    BY <1>1, <1>2

LEMMA remove_tagGood ==
    ASSUME NEW d, Good(d), NEW i, NEW tag \in Tags
    PROVE  LET e == remove_tag(d, i, tag).db
           IN  Good(e) /\ e.version = d.version /\ e.bulk = d.bulk
  <1>1. CASE i \notin DOMAIN d.patch
    BY <1>1 DEF remove_tag, Refused
  <1>2. CASE i \in DOMAIN d.patch
    <2> DEFINE p == [d.patch[i] EXCEPT !.tags = @ \ {tag}]
    <2>1. p \in Patch /\ p.bytes = d.patch[i].bytes
      BY <1>2, PatchFields DEF Patch
    <2>2. remove_tag(d, i, tag).db = [d EXCEPT !.patch = [@ EXCEPT ![i] = p]]
      BY <1>2 DEF remove_tag, Done
    <2> HIDE DEF p
    <2>3. QED
      BY <1>2, <2>1, <2>2, MarkedGood
  <1>3. QED
    BY <1>1, <1>2

(* A patch renamed is another one than all the others.                     *)
LEMMA renameGood ==
    ASSUME NEW d, Good(d), NEW i, NEW name \in PatchNames
    PROVE  LET e == rename(d, i, name).db
           IN  Good(e) /\ e.version = d.version /\ e.bulk = d.bulk
  <1>1. CASE i \notin DOMAIN d.patch
    BY <1>1 DEF rename, Refused
  <1>2. CASE i \in DOMAIN d.patch
    <2> DEFINE bytes == [d.patch[i].bytes EXCEPT !.name = name]
    <2>1. CASE Holding(d, bytes) \ {i} # {}
      BY <1>2, <2>1 DEF rename, Refused
    <2>2. CASE Holding(d, bytes) \ {i} = {}
      <3>1. bytes \in Bytes
        BY <1>2, PatchFields DEF Bytes
      <3>2. \A j \in DOMAIN d.patch : j # i => d.patch[j].bytes # bytes
        BY <2>2 DEF Holding
      <3>3. rename(d, i, name).db = [d EXCEPT !.patch[i].bytes = bytes]
        BY <1>2, <2>2 DEF rename, Done
      <3> HIDE DEF bytes
      <3> DEFINE p == [d.patch[i] EXCEPT !.bytes = bytes]
                 t == [d.patch EXCEPT ![i] = p]
      <3>4. p \in Patch /\ p.bytes = bytes
        BY <1>2, <3>1, PatchFields DEF Patch
      <3>5. rename(d, i, name).db = [d EXCEPT !.patch = t]
        BY <3>3
      <3> HIDE DEF p
      <3>6. /\ DOMAIN t = DOMAIN d.patch /\ t[i] = p
            /\ t = [j \in DOMAIN t |-> t[j]]
            /\ \A j \in DOMAIN d.patch : j # i => t[j] = d.patch[j]
        BY <1>2, Parts DEF Good
      <3> HIDE DEF t
      <3> DEFINE e == rename(d, i, name).db
      <3>7. /\ DOMAIN e = Fields /\ e.version = d.version
            /\ e.patch = t /\ e.bulk = d.bulk
        BY <3>5, PatchReplaced, Parts DEF Good
      <3>8. WellFormed(e)
        BY <1>2, <3>4, <3>6, <3>7, PatchFieldsReplaced DEF Good
      <3>9. OncePerBytes(e)
        BY <3>2, <3>4, <3>6, <3>7 DEF Good, OncePerBytes
      <3>10. QED
        BY <3>7, <3>8, <3>9 DEF Good
    <2>3. QED
      BY <2>1, <2>2
  <1>3. QED
    BY <1>1, <1>2

-----------------------------------------------------------------------------
(* Versions.                                                               *)

LEMMA SeqWiden ==
    ASSUME NEW S, NEW T, S \subseteq T, NEW q \in Seq(S)
    PROVE  q \in Seq(T)
  OBVIOUS

LEMMA AppendNewest ==
    ASSUME NEW S, NEW q \in Seq(S), NEW e \in S
    PROVE  /\ Append(q, e) \in Seq(S) /\ Append(q, e) # <<>>
           /\ Newest(Append(q, e)) = e
  <1>1. /\ Append(q, e) \in Seq(S) /\ Append(q, e) # <<>>
        /\ Len(Append(q, e)) = Len(q) + 1 /\ Append(q, e)[Len(q) + 1] = e
    OBVIOUS
  <1>2. QED
    BY <1>1 DEF Newest

(* Of too many versions the newest are left.                               *)
LEMMA PrunedFacts ==
    ASSUME NEW S, NEW vs \in Seq(S), vs # <<>>
    PROVE  /\ Pruned(vs) \in Seq(S) /\ Pruned(vs) # <<>>
           /\ Len(Pruned(vs)) <= MAX_REVISIONS
           /\ Newest(Pruned(vs)) = Newest(vs)
  <1>1. MAX_REVISIONS \in Nat \ {0} /\ Len(vs) \in Nat \ {0}
    BY TablesAssumption
  <1>2. CASE Len(vs) <= MAX_REVISIONS
    BY <1>1, <1>2 DEF Pruned
  <1>3. CASE Len(vs) > MAX_REVISIONS
    <2> DEFINE m == Len(vs) - MAX_REVISIONS + 1
    <2>1. /\ m \in 1..Len(vs) /\ Len(vs) - m + 1 = MAX_REVISIONS
      BY <1>1, <1>3
    <2>2. Pruned(vs) = SubSeq(vs, m, Len(vs))
      BY <1>1, <1>3 DEF Pruned
    <2> HIDE DEF m
    <2>3. /\ SubSeq(vs, m, Len(vs)) \in Seq(S)
          /\ Len(SubSeq(vs, m, Len(vs))) = Len(vs) - m + 1
          /\ \A i \in 1..(Len(vs) - m + 1) :
                SubSeq(vs, m, Len(vs))[i] = vs[m + i - 1]
      BY <1>1, <2>1
    <2>4. m + (Len(vs) - m + 1) - 1 = Len(vs)
      BY <1>1, <2>1
    <2>5. SubSeq(vs, m, Len(vs))[MAX_REVISIONS] = vs[Len(vs)]
      BY <1>1, <2>1, <2>3, <2>4
    <2>6. Len(Pruned(vs)) = MAX_REVISIONS /\ Pruned(vs) \in Seq(S)
      BY <1>1, <2>1, <2>2, <2>3
    <2>7. Newest(Pruned(vs)) = Newest(vs)
      BY <2>2, <2>5, <2>6 DEF Newest
    <2>8. Pruned(vs) # <<>>
      BY <1>1, <2>6
    <2>9. QED
      BY <1>1, <2>6, <2>7, <2>8
  <1>4. QED
    BY <1>1, <1>2, <1>3

(* What is kept is the newest version; when nothing is kept, the bulk was  *)
(* empty, or held what was kept last, or the last version is moments old.  *)
KeptBefore(d, e, b, now, force) ==
    \/ DOMAIN d.bulk[b].slots = {}
    \/ /\ e.bulk[b].versions # <<>>
       /\ Newest(e.bulk[b].versions).slots = d.bulk[b].slots
    \/ /\ ~force /\ d.bulk[b].versions # <<>>
       /\ now - Newest(d.bulk[b].versions).at < THROTTLE

LEMMA keep_versionFacts ==
    ASSUME NEW d, Good(d), NEW b \in DOMAIN d.bulk, NEW now \in Nat,
           NEW force \in BOOLEAN
    PROVE  LET e == keep_version(d, b, now, force)
           IN  /\ Good(e) /\ OnlyBulk(d, e, b)
               /\ e.bulk[b].slots = d.bulk[b].slots
               /\ e.bulk[b].name = d.bulk[b].name
               /\ KeptBefore(d, e, b, now, force)
  <1> DEFINE v  == Version(d, b, now)
             vs == d.bulk[b].versions
             ns == Pruned(Append(vs, v))
             e  == [d EXCEPT !.bulk[b].versions = ns]
  <1>1. /\ DOMAIN d = Fields /\ IsRow(d.bulk[b]) /\ BulkOK(d, d.bulk[b])
        /\ vs \in Seq(Range(vs)) /\ \A i \in DOMAIN vs : VersionOK(vs[i])
    BY Parts DEF Good, BulkOK, IsRow
  <1>2. CASE keep_version(d, b, now, force) = d
             /\ \/ DOMAIN d.bulk[b].slots = {}
                \/ vs # <<>> /\ Newest(vs).slots = d.bulk[b].slots
                \/ vs # <<>> /\ ~force /\ now - Newest(vs).at < THROTTLE
    BY <1>1, <1>2 DEF OnlyBulk, KeptBefore
  <1>3. CASE keep_version(d, b, now, force) = e
    <2>1. v.slots = d.bulk[b].slots /\ VersionOK(v)
      BY <1>1 DEF Version, VersionOK, BulkOK
    <2> HIDE DEF v
    <2>2. /\ vs \in Seq(Range(vs) \cup {v})
          /\ Append(vs, v) \in Seq(Range(vs) \cup {v}) /\ Append(vs, v) # <<>>
          /\ Newest(Append(vs, v)) = v
      <3>1. vs \in Seq(Range(vs) \cup {v})
        BY <1>1, SeqWiden
      <3>2. QED
        BY <3>1, AppendNewest
    <2>3. /\ ns \in Seq(Range(vs) \cup {v}) /\ ns # <<>>
          /\ Len(ns) <= MAX_REVISIONS /\ Newest(ns) = v
      BY <2>2, PrunedFacts
    <2>4. \A i \in DOMAIN ns : VersionOK(ns[i])
      <3>1. \A x \in Range(vs) \cup {v} : VersionOK(x)
        BY <1>1, <2>1 DEF Range
      <3>2. \A i \in DOMAIN ns : ns[i] \in Range(vs) \cup {v}
        BY <2>3
      <3>3. QED
        BY <3>1, <3>2
    <2>5. ns \in Seq(Range(ns))
      BY <2>3 DEF Range
    <2> HIDE DEF ns
    <2>6. /\ OnlyBulk(d, e, b) /\ IsRow(e.bulk[b])
          /\ e.bulk[b].versions = ns /\ e.bulk[b].name = d.bulk[b].name
          /\ e.bulk[b].slots = d.bulk[b].slots
      <3>1. DOMAIN d = Fields /\ IsRow(d.bulk[b])
        BY <1>1
      <3>2. QED
        BY <3>1, VersionsReplaced
    <2> HIDE DEF e
    <2>7. BulkOK(d, e.bulk[b])
      BY <1>1, <2>3, <2>4, <2>5, <2>6 DEF BulkOK, IsRow
    <2>8. \A c \in DOMAIN d.bulk : c # b => e.bulk[b].name # d.bulk[c].name
      BY <2>6, Parts DEF Good
    <2>9. Good(e)
      BY <2>6, <2>7, <2>8, OnlyBulkGood
    <2>10. QED
      BY <1>3, <2>1, <2>3, <2>6, <2>9 DEF KeptBefore
  <1>4. QED
    BY <1>2, <1>3 DEF keep_version

-----------------------------------------------------------------------------
(* What a bulk holds.                                                      *)

(* What a command may make of a library: it stays a good one of the same   *)
(* version, and what a bulk held before is kept, unless it held nothing,   *)
(* was kept moments ago, or lost a patch that was deleted.                 *)
Change(d, e, now, force) ==
    /\ Good(e) /\ e.version = d.version
    /\ \A c \in DOMAIN d.bulk \cap DOMAIN e.bulk :
          \/ e.bulk[c].slots = d.bulk[c].slots
          \/ KeptBefore(d, e, c, now, force)
          \/ DOMAIN d.patch \ DOMAIN e.patch # {}

SlotsOK(d, s) ==
    DOMAIN s \subseteq Places /\ s \in [DOMAIN s -> DOMAIN d.patch]

LEMMA Unchanged ==
    ASSUME NEW d, Good(d), NEW now, NEW force
    PROVE  Change(d, d, now, force)
  BY DEF Change

LEMMA SlotsTyped ==
    ASSUME NEW d, Good(d), NEW b \in DOMAIN d.bulk
    PROVE  SlotsOK(d, d.bulk[b].slots) /\ IsRow(d.bulk[b])
           /\ BulkOK(d, d.bulk[b]) /\ DOMAIN d = Fields
  BY Parts DEF Good, BulkOK, SlotsOK, IsRow

(* A place filled, emptied, or given what another one holds.               *)
LEMMA SlotsPut ==
    ASSUME NEW d, NEW s, SlotsOK(d, s), NEW p \in Places,
           NEW i \in DOMAIN d.patch
    PROVE  SlotsOK(d, Put(s, p, i))
  BY DEF SlotsOK, Put

LEMMA SlotsWithout ==
    ASSUME NEW d, NEW s, SlotsOK(d, s), NEW S
    PROVE  SlotsOK(d, Without(s, S))
  BY DEF SlotsOK, Without

LEMMA SlotsMoved ==
    ASSUME NEW d, NEW s, SlotsOK(d, s), NEW t, SlotsOK(d, t),
           NEW p \in Places, NEW q
    PROVE  SlotsOK(d, Moved(s, p, t, q))
  <1>1. q \in DOMAIN t => t[q] \in DOMAIN d.patch
    BY DEF SlotsOK
  <1>2. QED
    BY <1>1, SlotsPut, SlotsWithout DEF Moved

(* A bulk gets new contents.                                               *)
LEMMA Written ==
    ASSUME NEW d, Good(d), NEW b \in DOMAIN d.bulk, NEW s, SlotsOK(d, s)
    PROVE  LET e == [d EXCEPT !.bulk[b].slots = s]
           IN  /\ Good(e) /\ OnlyBulk(d, e, b)
               /\ e.bulk[b].slots = s /\ e.bulk[b].name = d.bulk[b].name
               /\ e.bulk[b].versions = d.bulk[b].versions
  <1> DEFINE e == [d EXCEPT !.bulk[b].slots = s]
  <1>1. /\ OnlyBulk(d, e, b) /\ IsRow(e.bulk[b])
        /\ e.bulk[b].slots = s /\ e.bulk[b].name = d.bulk[b].name
        /\ e.bulk[b].versions = d.bulk[b].versions
    <2>1. e = write_slot_map(d, b, s)
      BY DEF write_slot_map
    <2> HIDE DEF e
    <2>2. DOMAIN d = Fields /\ IsRow(d.bulk[b])
      BY SlotsTyped
    <2>3. QED
      BY <2>1, <2>2, SlotsReplaced
  <1> HIDE DEF e
  <1>2. BulkOK(d, e.bulk[b])
    BY <1>1, SlotsTyped DEF BulkOK, SlotsOK, IsRow
  <1>3. \A c \in DOMAIN d.bulk : c # b => e.bulk[b].name # d.bulk[c].name
    BY <1>1, Parts DEF Good
  <1>4. Good(e)
    BY <1>1, <1>2, <1>3, OnlyBulkGood
  <1>5. QED
    BY <1>1, <1>4 DEF e

(* ... and what it held before is kept first.                              *)
LEMMA WrittenAfterKeeping ==
    ASSUME NEW d, Good(d), NEW b \in DOMAIN d.bulk, NEW s, SlotsOK(d, s),
           NEW now \in Nat, NEW force \in BOOLEAN
    PROVE  LET kept == keep_version(d, b, now, force)
               e    == [kept EXCEPT !.bulk[b].slots = s]
           IN  /\ Change(d, e, now, force) /\ OnlyBulk(d, e, b)
               /\ e.bulk[b].slots = s /\ e.bulk[b].name = d.bulk[b].name
  <1> DEFINE kept == keep_version(d, b, now, force)
             e    == [kept EXCEPT !.bulk[b].slots = s]
  <1>1. /\ Good(kept) /\ OnlyBulk(d, kept, b)
        /\ kept.bulk[b].slots = d.bulk[b].slots
        /\ kept.bulk[b].name = d.bulk[b].name
        /\ KeptBefore(d, kept, b, now, force)
    BY keep_versionFacts
  <1> HIDE DEF kept
  <1>2. SlotsOK(kept, s) /\ b \in DOMAIN kept.bulk
    BY <1>1 DEF OnlyBulk, SlotsOK
  <1>3. /\ Good(e) /\ OnlyBulk(kept, e, b)
        /\ e.bulk[b].slots = s /\ e.bulk[b].name = kept.bulk[b].name
        /\ e.bulk[b].versions = kept.bulk[b].versions
    BY <1>1, <1>2, Written
  <1> HIDE DEF e
  <1>4. OnlyBulk(d, e, b) /\ KeptBefore(d, e, b, now, force)
    BY <1>1, <1>3 DEF OnlyBulk, KeptBefore
  <1>5. Change(d, e, now, force)
    BY <1>3, <1>4 DEF Change, OnlyBulk
  <1>6. QED
    BY <1>1, <1>3, <1>4, <1>5 DEF e, kept

(* The same with what is to be kept named.                                 *)
Rewritten(d, b, s, now, force) ==
    [keep_version(d, b, now, force) EXCEPT !.bulk[b].slots = s]

LEMMA RewrittenFacts ==
    ASSUME NEW d, Good(d), NEW b \in DOMAIN d.bulk, NEW s, SlotsOK(d, s),
           NEW now \in Nat
    PROVE  /\ Change(d, Rewritten(d, b, s, now, FALSE), now, FALSE)
           /\ Change(d, Rewritten(d, b, s, now, TRUE), now, TRUE)
  <1>1. \A force \in BOOLEAN :
           Change(d, Rewritten(d, b, s, now, force), now, force)
    BY WrittenAfterKeeping DEF Rewritten
  <1>2. FALSE \in BOOLEAN /\ TRUE \in BOOLEAN
    OBVIOUS
  <1>3. QED
    BY <1>1, <1>2, Zenon

LEMMA bulk_placeChange ==
    ASSUME NEW d, Good(d), NEW b, NEW p \in Places, NEW i, NEW now \in Nat
    PROVE  Change(d, bulk_place(d, b, p, i, now).db, now, FALSE)
  <1>1. CASE b \notin DOMAIN d.bulk \/ i \notin DOMAIN d.patch
    BY <1>1, Unchanged DEF bulk_place, Refused
  <1>2. CASE b \in DOMAIN d.bulk /\ i \in DOMAIN d.patch
    <2> DEFINE kept == keep_version(d, b, now, FALSE)
               s    == Put(d.bulk[b].slots, p, i)
    <2>1. kept.bulk[b].slots = d.bulk[b].slots
      BY <1>2, keep_versionFacts
    <2>2. SlotsOK(d, s)
      BY <1>2, SlotsTyped, SlotsPut
    <2>3. bulk_place(d, b, p, i, now).db = Rewritten(d, b, s, now, FALSE)
      BY <1>2, <2>1 DEF bulk_place, Done, Rewritten
    <2> HIDE DEF s
    <2>4. QED
      BY <1>2, <2>2, <2>3, RewrittenFacts
  <1>3. QED
    BY <1>1, <1>2

LEMMA bulk_appendChange ==
    ASSUME NEW d, Good(d), NEW b, NEW i, NEW now \in Nat
    PROVE  Change(d, bulk_append(d, b, i, now).db, now, FALSE)
  <1> DEFINE free == Places \ DOMAIN d.bulk[b].slots
  <1>1. CASE b \notin DOMAIN d.bulk \/ free = {}
    BY <1>1, Unchanged DEF bulk_append, Refused
  <1>2. CASE b \in DOMAIN d.bulk /\ free # {}
    <2>1. free \in SUBSET Nat /\ free \subseteq Places
      BY TablesAssumption DEF Places
    <2>2. PICK p \in free : \A q \in free : p <= q
      BY <1>2, <2>1, LeastNumber
    <2>3. Min(free) \in free
      BY <2>2 DEF Min
    <2>4. QED
      BY <1>2, <2>1, <2>3, bulk_placeChange DEF bulk_append
  <1>3. QED
    BY <1>1, <1>2

LEMMA bulk_clearChange ==
    ASSUME NEW d, Good(d), NEW b, NEW p \in Places, NEW now \in Nat
    PROVE  Change(d, bulk_clear(d, b, p, now).db, now, FALSE)
  <1>1. CASE b \notin DOMAIN d.bulk
    BY <1>1, Unchanged DEF bulk_clear, Refused
  <1>2. CASE b \in DOMAIN d.bulk
    <2> DEFINE kept == keep_version(d, b, now, FALSE)
               s    == Without(d.bulk[b].slots, {p})
    <2>1. kept.bulk[b].slots = d.bulk[b].slots
      BY <1>2, keep_versionFacts
    <2>2. SlotsOK(d, s)
      BY <1>2, SlotsTyped, SlotsWithout
    <2>3. bulk_clear(d, b, p, now).db = Rewritten(d, b, s, now, FALSE)
      BY <1>2, <2>1 DEF bulk_clear, Done, Rewritten
    <2> HIDE DEF s
    <2>4. QED
      BY <1>2, <2>2, <2>3, RewrittenFacts
  <1>3. QED
    BY <1>1, <1>2

LEMMA bulk_swapChange ==
    ASSUME NEW d, Good(d), NEW b, NEW p \in Places, NEW q \in Places,
           NEW now \in Nat
    PROVE  Change(d, bulk_swap(d, b, p, q, now).db, now, FALSE)
  <1>1. CASE b \notin DOMAIN d.bulk \/ p = q
    BY <1>1, Unchanged DEF bulk_swap, Refused, Done
  <1>2. CASE b \in DOMAIN d.bulk /\ p # q
    <2> DEFINE kept == keep_version(d, b, now, FALSE)
               was  == d.bulk[b].slots
               s    == Moved(Moved(was, p, was, q), q, was, p)
    <2>1. SlotsOK(d, s)
      BY <1>2, SlotsTyped, SlotsMoved
    <2>2. bulk_swap(d, b, p, q, now).db = Rewritten(d, b, s, now, FALSE)
      BY <1>2 DEF bulk_swap, Done, write_slot_map, Rewritten
    <2> HIDE DEF s
    <2>3. QED
      BY <1>2, <2>1, <2>2, RewrittenFacts
  <1>3. QED
    BY <1>1, <1>2

LEMMA restore_revisionChange ==
    ASSUME NEW d, Good(d), NEW b, NEW v, NEW now \in Nat
    PROVE  Change(d, restore_revision(d, b, v, now).db, now, TRUE)
  <1>1. CASE b \notin DOMAIN d.bulk \/ v \notin DOMAIN d.bulk[b].versions
    BY <1>1, Unchanged DEF restore_revision, Refused
  <1>2. CASE b \in DOMAIN d.bulk /\ v \in DOMAIN d.bulk[b].versions
    <2> DEFINE was  == d.bulk[b].versions[v].slots
               lost == {p \in DOMAIN was : was[p] \notin DOMAIN d.patch}
               kept == keep_version(d, b, now, TRUE)
               s    == Without(was, lost)
    <2>1. DOMAIN was \subseteq Places
      BY <1>2, SlotsTyped DEF BulkOK, VersionOK
    <2>2. SlotsOK(d, s)
      BY <2>1 DEF SlotsOK, Without
    <2>3. restore_revision(d, b, v, now).db = Rewritten(d, b, s, now, TRUE)
      BY <1>2 DEF restore_revision, Done, write_slot_map, Rewritten
    <2> HIDE DEF s
    <2>4. QED
      BY <1>2, <2>2, <2>3, RewrittenFacts
  <1>3. QED
    BY <1>1, <1>2

(* Two bulks that change at once are both kept.                            *)
LEMMA KeptTwo ==
    ASSUME NEW d, Good(d), NEW b \in DOMAIN d.bulk, NEW c \in DOMAIN d.bulk,
           b # c, NEW now \in Nat
    PROVE  LET k == keep_version(keep_version(d, b, now, FALSE), c, now, FALSE)
           IN  /\ Good(k) /\ DOMAIN k = Fields /\ k.version = d.version
               /\ k.patch = d.patch /\ DOMAIN k.bulk = DOMAIN d.bulk
               /\ \A x \in DOMAIN d.bulk :
                     k.bulk[x].slots = d.bulk[x].slots
               /\ KeptBefore(d, k, b, now, FALSE)
               /\ KeptBefore(d, k, c, now, FALSE)
  <1> DEFINE j == keep_version(d, b, now, FALSE)
             k == keep_version(j, c, now, FALSE)
  <1>1. /\ Good(j) /\ OnlyBulk(d, j, b)
        /\ j.bulk[b].slots = d.bulk[b].slots
        /\ KeptBefore(d, j, b, now, FALSE)
    BY keep_versionFacts
  <1> HIDE DEF j
  <1>2. c \in DOMAIN j.bulk
    BY <1>1 DEF OnlyBulk
  <1>3. /\ Good(k) /\ OnlyBulk(j, k, c)
        /\ k.bulk[c].slots = j.bulk[c].slots
        /\ KeptBefore(j, k, c, now, FALSE)
    BY <1>1, <1>2, keep_versionFacts
  <1> HIDE DEF k
  <1>4. /\ DOMAIN k = Fields /\ k.version = d.version
        /\ k.patch = d.patch /\ DOMAIN k.bulk = DOMAIN d.bulk
        /\ \A x \in DOMAIN d.bulk : k.bulk[x].slots = d.bulk[x].slots
    BY <1>1, <1>3 DEF OnlyBulk
  <1>5. KeptBefore(d, k, b, now, FALSE)
    BY <1>1, <1>3 DEF OnlyBulk, KeptBefore
  <1>6. KeptBefore(d, k, c, now, FALSE)
    BY <1>1, <1>3 DEF OnlyBulk, KeptBefore
  <1>7. QED
    BY <1>3, <1>4, <1>5, <1>6 DEF k, j

LEMMA bulk_moveChange ==
    ASSUME NEW d, Good(d), NEW b, NEW c, NEW p \in Places, NEW q \in Places,
           NEW now \in Nat
    PROVE  Change(d, bulk_move(d, b, p, c, q, now).db, now, FALSE)
  <1>1. CASE b = c
    BY <1>1, bulk_swapChange DEF bulk_move
  <1>2. CASE b # c /\ (\/ b \notin DOMAIN d.bulk \/ c \notin DOMAIN d.bulk
                       \/ p \notin DOMAIN d.bulk[b].slots)
    BY <1>2, Unchanged DEF bulk_move, Refused
  <1>3. CASE /\ b # c /\ b \in DOMAIN d.bulk /\ c \in DOMAIN d.bulk
             /\ p \in DOMAIN d.bulk[b].slots
    <2> DEFINE s == Moved(d.bulk[b].slots, p, d.bulk[c].slots, q)
               t == Moved(d.bulk[c].slots, q, d.bulk[b].slots, p)
               k == keep_version(keep_version(d, b, now, FALSE), c, now, FALSE)
               w == [k EXCEPT !.bulk[c].slots = t]
               e == [w EXCEPT !.bulk[b].slots = s]
    <2>1. SlotsOK(d, s) /\ SlotsOK(d, t)
      BY <1>3, SlotsTyped, SlotsMoved
    <2>2. bulk_move(d, b, p, c, q, now).db = e
      BY <1>3 DEF bulk_move, Done, write_slot_map
    <2> HIDE DEF s, t
    <2>3. /\ Good(k) /\ DOMAIN k = Fields /\ k.version = d.version
          /\ k.patch = d.patch /\ DOMAIN k.bulk = DOMAIN d.bulk
          /\ \A x \in DOMAIN d.bulk : k.bulk[x].slots = d.bulk[x].slots
          /\ KeptBefore(d, k, b, now, FALSE)
          /\ KeptBefore(d, k, c, now, FALSE)
      BY <1>3, KeptTwo
    <2> HIDE DEF k
    <2>4. SlotsOK(k, s) /\ SlotsOK(k, t)
      BY <2>1, <2>3 DEF SlotsOK
    <2>5. /\ Good(w) /\ OnlyBulk(k, w, c)
          /\ w.bulk[c].versions = k.bulk[c].versions
      BY <1>3, <2>3, <2>4, Written
    <2> HIDE DEF w
    <2>6. SlotsOK(w, s) /\ b \in DOMAIN w.bulk
      BY <1>3, <2>3, <2>4, <2>5 DEF SlotsOK, OnlyBulk
    <2>7. /\ Good(e) /\ OnlyBulk(w, e, b)
          /\ e.bulk[b].versions = w.bulk[b].versions
      BY <2>5, <2>6, Written
    <2> HIDE DEF e
    <2>8. /\ e.version = d.version /\ DOMAIN e.bulk = DOMAIN d.bulk
          /\ \A x \in DOMAIN d.bulk : x # b /\ x # c =>
                e.bulk[x].slots = d.bulk[x].slots
      BY <2>3, <2>5, <2>7 DEF OnlyBulk
    <2>9. /\ e.bulk[b].versions = k.bulk[b].versions
          /\ e.bulk[c].versions = k.bulk[c].versions
      BY <1>3, <2>3, <2>5, <2>7 DEF OnlyBulk
    <2>10. KeptBefore(d, e, b, now, FALSE) /\ KeptBefore(d, e, c, now, FALSE)
      BY <2>3, <2>9 DEF KeptBefore
    <2>11. Change(d, e, now, FALSE)
      BY <2>7, <2>8, <2>10 DEF Change
    <2>12. QED
      BY <2>2, <2>11
  <1>4. QED
    BY <1>1, <1>2, <1>3

-----------------------------------------------------------------------------
(* New bulks.                                                              *)

(* A library with more patches and bulks, those it had as they were.       *)
Grown(d, e) ==
    /\ DOMAIN e = Fields /\ e.version = d.version
    /\ DOMAIN d.patch \subseteq DOMAIN e.patch
    /\ \A i \in DOMAIN d.patch : e.patch[i] = d.patch[i]
    /\ DOMAIN d.bulk \subseteq DOMAIN e.bulk
    /\ \A c \in DOMAIN d.bulk : e.bulk[c] = d.bulk[c]

LEMMA GrownChange ==
    ASSUME NEW d, NEW e, Good(e), Grown(d, e), NEW now, NEW force
    PROVE  Change(d, e, now, force)
  BY DEF Grown, Change

LEMMA GrownFurther ==
    ASSUME NEW d, NEW e, NEW f, Grown(d, e), Grown(e, f)
    PROVE  Grown(d, f)
  BY DEF Grown

LEMMA GrownAtAll ==
    ASSUME NEW d, Good(d)
    PROVE  Grown(d, d)
  BY Parts DEF Grown, Good

(* The bulk that is created is a new one, with the name and the patches    *)
(* asked for.                                                              *)
LEMMA create_bulk_innerFacts ==
    ASSUME NEW d, Good(d), NEW name, NEW slots, DOMAIN slots \subseteq Places,
           slots \in [DOMAIN slots -> Range(slots)]
    PROVE  LET r == create_bulk_inner(d, name, slots)
           IN  /\ Good(r.db) /\ Grown(d, r.db) /\ r.db.patch = d.patch
               /\ ~r.ok => r.db = d
               /\ r.ok => \E c \in DOMAIN r.db.bulk :
                     /\ c \notin DOMAIN d.bulk
                     /\ r.db.bulk[c].name = name /\ r.db.bulk[c].slots = slots
  <1>1. CASE \/ bulk_name_taken(d, name, {})
             \/ \E p \in DOMAIN slots : slots[p] \notin DOMAIN d.patch
    BY <1>1, GrownAtAll DEF create_bulk_inner, Refused
  <1>2. CASE ~(\/ bulk_name_taken(d, name, {})
               \/ \E p \in DOMAIN slots : slots[p] \notin DOMAIN d.patch)
    <2> DEFINE n   == NextId(d.bulk)
               row == BulkRow(name, slots, <<>>)
               t   == Put(d.bulk, n, row)
               e   == [d EXCEPT !.bulk = t]
    <2>1. n \in Nat \ {0} /\ n \notin DOMAIN d.bulk
      BY NextIdFacts, Parts DEF Good
    <2>2. /\ create_bulk_inner(d, name, slots).db = e
          /\ create_bulk_inner(d, name, slots).ok
      BY <1>2 DEF create_bulk_inner, Done
    <2>3. BulkOK(d, row) /\ row.name = name /\ row.slots = slots
      <3>1. slots \in [DOMAIN slots -> DOMAIN d.patch]
        BY <1>2 DEF Range
      <3>2. /\ <<>> \in Seq(Range(<<>>)) /\ Len(<<>>) <= MAX_REVISIONS
            /\ DOMAIN <<>> = {}
        BY TablesAssumption
      <3>3. QED
        BY <3>1, <3>2 DEF BulkOK, BulkRow
    <2> HIDE DEF n, row
    <2>4. /\ DOMAIN t = DOMAIN d.bulk \cup {n} /\ t[n] = row
          /\ \A c \in DOMAIN d.bulk : t[c] = d.bulk[c]
      <3>1. DOMAIN t = DOMAIN d.bulk \cup {n} /\ t[n] = row
        BY DEF Put
      <3>2. \A c \in DOMAIN d.bulk : c # n /\ t[c] = d.bulk[c]
        BY <2>1 DEF Put
      <3>3. QED
        BY <3>1, <3>2
    <2> HIDE DEF t
    <2>5. /\ DOMAIN e = Fields /\ e.version = d.version
          /\ e.patch = d.patch /\ e.bulk = t
      BY BulksReplaced, Parts DEF Good
    <2> HIDE DEF e
    <2>6. \A c \in DOMAIN d.bulk : d.bulk[c].name # name
      BY <1>2 DEF bulk_name_taken
    <2>7. WellFormed(e)
      <3>1. WellFormed(d)
        BY DEF Good
      <3>2. QED
        BY <2>1, <2>3, <2>4, <2>5, <2>6, <3>1, BulkChanged
    <2>8. Good(e)
      BY <2>5, <2>7 DEF Good, OncePerBytes
    <2>9. Grown(d, e)
      BY <2>4, <2>5 DEF Grown
    <2>10. QED
      BY <2>1, <2>2, <2>3, <2>4, <2>5, <2>8, <2>9
  <1>3. QED
    BY <1>1, <1>2

LEMMA duplicate_bulkChange ==
    ASSUME NEW d, Good(d), NEW b, NEW name, NEW now, NEW force
    PROVE  Change(d, duplicate_bulk(d, b, name).db, now, force)
  <1>1. CASE b \notin DOMAIN d.bulk
    BY <1>1, Unchanged DEF duplicate_bulk, Refused
  <1>2. CASE b \in DOMAIN d.bulk
    <2> DEFINE s == d.bulk[b].slots
               r == create_bulk_inner(d, name, s)
    <2>1. DOMAIN s \subseteq Places /\ s \in [DOMAIN s -> Range(s)]
      BY <1>2, SlotsTyped DEF SlotsOK, Range
    <2> HIDE DEF s
    <2>2. Good(r.db) /\ Grown(d, r.db)
      BY <2>1, create_bulk_innerFacts
    <2>3. duplicate_bulk(d, b, name).db = IF r.ok THEN r.db ELSE d
      BY <1>2 DEF duplicate_bulk, in_tx, Refused, s
    <2>4. QED
      BY <2>2, <2>3, GrownChange, Unchanged
  <1>3. QED
    BY <1>1, <1>2

(* A bulk gets a name that no other has.                                   *)
LEMMA Renamed ==
    ASSUME NEW d, Good(d), NEW b \in DOMAIN d.bulk, NEW name,
           ~bulk_name_taken(d, name, {b})
    PROVE  LET e == [d EXCEPT !.bulk[b].name = name]
           IN  /\ Good(e) /\ OnlyBulk(d, e, b)
               /\ e.bulk[b].name = name /\ e.bulk[b].slots = d.bulk[b].slots
               /\ e.bulk[b].versions = d.bulk[b].versions
  <1> DEFINE e == [d EXCEPT !.bulk[b].name = name]
  <1>1. /\ OnlyBulk(d, e, b) /\ IsRow(e.bulk[b])
        /\ e.bulk[b].name = name /\ e.bulk[b].slots = d.bulk[b].slots
        /\ e.bulk[b].versions = d.bulk[b].versions
    BY SlotsTyped, NameReplaced
  <1> HIDE DEF e
  <1>2. BulkOK(d, e.bulk[b])
    BY <1>1, SlotsTyped DEF BulkOK, IsRow
  <1>3. \A c \in DOMAIN d.bulk : c # b => e.bulk[b].name # d.bulk[c].name
    BY <1>1 DEF bulk_name_taken
  <1>4. Good(e)
    BY <1>1, <1>2, <1>3, OnlyBulkGood
  <1>5. QED
    BY <1>1, <1>4 DEF e

LEMMA rename_bulkChange ==
    ASSUME NEW d, Good(d), NEW b, NEW name, NEW now, NEW force
    PROVE  Change(d, rename_bulk(d, b, name).db, now, force)
  <1>1. CASE b \notin DOMAIN d.bulk \/ bulk_name_taken(d, name, {b})
    BY <1>1, Unchanged DEF rename_bulk, Refused
  <1>2. CASE b \in DOMAIN d.bulk /\ ~bulk_name_taken(d, name, {b})
    <2> DEFINE e == [d EXCEPT !.bulk[b].name = name]
    <2>1. rename_bulk(d, b, name).db = e
      BY <1>2 DEF rename_bulk, Done
    <2>2. /\ Good(e) /\ OnlyBulk(d, e, b)
          /\ e.bulk[b].slots = d.bulk[b].slots
      BY <1>2, Renamed
    <2> HIDE DEF e
    <2>3. Change(d, e, now, force)
      BY <2>2 DEF Change, OnlyBulk
    <2>4. QED
      BY <2>1, <2>3
  <1>3. QED
    BY <1>1, <1>2

-----------------------------------------------------------------------------
(* Deleting.                                                               *)

(* With patches go the places that name them, and nothing else.            *)
SlotsLeft(d, S, b) ==
    Without(d.bulk[b].slots,
            {p \in DOMAIN d.bulk[b].slots : d.bulk[b].slots[p] \in S})

LEMMA DropPatchesFields ==
    ASSUME NEW d, Good(d), NEW S
    PROVE  LET e == DropPatches(d, S)
           IN  /\ DOMAIN e = Fields /\ e.version = d.version
               /\ e.patch = Without(d.patch, S)
               /\ DOMAIN e.bulk = DOMAIN d.bulk
               /\ \A b \in DOMAIN d.bulk :
                     e.bulk[b] = WithSlots(d.bulk[b], SlotsLeft(d, S, b))
  <1> DEFINE t == Without(d.patch, S)
             u == [b \in DOMAIN d.bulk |->
                     WithSlots(d.bulk[b], SlotsLeft(d, S, b))]
             f == [d EXCEPT !.patch = t]
             e == [f EXCEPT !.bulk = u]
  <1>1. DOMAIN d = Fields
    BY Parts DEF Good
  <1>2. DropPatches(d, S) = e
    <2>1. DropPatches(d, S) = [d EXCEPT !.patch = t, !.bulk = u]
      BY DEF DropPatches, WithSlots, SlotsLeft
    <2> HIDE DEF t, u
    <2>2. QED
      BY <1>1, <2>1 DEF Fields
  <1>3. /\ DOMAIN u = DOMAIN d.bulk
        /\ \A b \in DOMAIN d.bulk :
              u[b] = WithSlots(d.bulk[b], SlotsLeft(d, S, b))
    OBVIOUS
  <1> HIDE DEF t, u
  <1>4. /\ DOMAIN f = Fields /\ f.version = d.version
        /\ f.patch = t /\ f.bulk = d.bulk
    BY <1>1, PatchReplaced
  <1> HIDE DEF f
  <1>5. /\ DOMAIN e = Fields /\ e.version = f.version
        /\ e.patch = f.patch /\ e.bulk = u
    BY <1>4, BulksReplaced
  <1> HIDE DEF e
  <1>6. /\ DOMAIN e = Fields /\ e.version = d.version /\ e.patch = t
        /\ DOMAIN e.bulk = DOMAIN d.bulk
        /\ \A b \in DOMAIN d.bulk :
              e.bulk[b] = WithSlots(d.bulk[b], SlotsLeft(d, S, b))
    BY <1>3, <1>4, <1>5
  <1>7. QED
    BY <1>2, <1>6 DEF t

LEMMA DropPatchesFacts ==
    ASSUME NEW d, Good(d), NEW S
    PROVE  LET e == DropPatches(d, S)
           IN  /\ Good(e) /\ e.version = d.version
               /\ DOMAIN e.patch = DOMAIN d.patch \ S
               /\ DOMAIN e.bulk = DOMAIN d.bulk
               /\ \A b \in DOMAIN d.bulk :
                     (\A p \in DOMAIN d.bulk[b].slots :
                         d.bulk[b].slots[p] \notin S) =>
                       e.bulk[b] = d.bulk[b]
  <1> DEFINE e == DropPatches(d, S)
  <1>1. /\ DOMAIN e = Fields /\ e.version = d.version
        /\ e.patch = Without(d.patch, S)
        /\ DOMAIN e.bulk = DOMAIN d.bulk
        /\ \A b \in DOMAIN d.bulk :
              e.bulk[b] = WithSlots(d.bulk[b], SlotsLeft(d, S, b))
    BY DropPatchesFields
  <1> HIDE DEF e
  <1>2. /\ DOMAIN e.patch = DOMAIN d.patch \ S
        /\ \A i \in DOMAIN e.patch : e.patch[i] = d.patch[i]
        /\ e.patch = [i \in DOMAIN e.patch |-> e.patch[i]]
    BY <1>1 DEF Without
  <1>3. \A b \in DOMAIN d.bulk :
           /\ IsRow(e.bulk[b])
           /\ e.bulk[b].name = d.bulk[b].name
           /\ e.bulk[b].versions = d.bulk[b].versions
           /\ e.bulk[b].slots = SlotsLeft(d, S, b)
    BY <1>1, SlotsTyped, RowReplaced
  <1>4. ASSUME NEW b \in DOMAIN d.bulk PROVE SlotsOK(e, SlotsLeft(d, S, b))
    BY <1>2, SlotsTyped DEF SlotsOK, SlotsLeft, Without
  <1>5. ASSUME NEW b \in DOMAIN d.bulk PROVE BulkOK(e, e.bulk[b])
    BY <1>3, <1>4, SlotsTyped DEF BulkOK, SlotsOK, IsRow
  <1>6. WellFormed(e)
    <2>1. /\ e.version \in {0, 1}
          /\ IsFiniteSet(DOMAIN d.patch) /\ DOMAIN d.patch \subseteq Nat \ {0}
          /\ \A i \in DOMAIN d.patch : d.patch[i] \in Patch
          /\ IsFiniteSet(DOMAIN e.bulk) /\ DOMAIN e.bulk \subseteq Nat \ {0}
      BY <1>1, Parts DEF Good
    <2>2. IsFiniteSet(DOMAIN e.patch)
      BY <1>2, <2>1, FS_Subset
    <2>3. e.patch \in [DOMAIN e.patch -> Patch]
      <3>1. \A i \in DOMAIN e.patch : e.patch[i] \in Patch
        BY <1>2, <2>1
      <3>2. QED
        BY <1>2, <3>1
    <2>4. \A b, c \in DOMAIN e.bulk : e.bulk[b].name = e.bulk[c].name => b = c
      BY <1>1, <1>3, Parts DEF Good
    <2>5. QED
      BY <1>1, <1>2, <1>5, <2>1, <2>2, <2>3, <2>4 DEF WellFormed, Fields
  <1>7. Good(e)
    BY <1>2, <1>6 DEF Good, OncePerBytes
  <1>8. ASSUME NEW b \in DOMAIN d.bulk,
               \A p \in DOMAIN d.bulk[b].slots : d.bulk[b].slots[p] \notin S
        PROVE  e.bulk[b] = d.bulk[b]
    <2> DEFINE s == d.bulk[b].slots
    <2>1. SlotsLeft(d, S, b) = [z \in DOMAIN s |-> s[z]]
      BY <1>8 DEF SlotsLeft, Without
    <2>2. s = [z \in DOMAIN s |-> s[z]] /\ IsRow(d.bulk[b])
      BY SlotsTyped DEF SlotsOK
    <2>3. SlotsLeft(d, S, b) = s
      BY <2>1, <2>2
    <2> HIDE DEF s
    <2>4. WithSlots(d.bulk[b], s) = d.bulk[b]
      BY <2>2, RowIsItself DEF s
    <2>5. QED
      BY <1>1, <2>3, <2>4
  <1>9. QED
    BY <1>1, <1>2, <1>7, <1>8 DEF e

LEMMA deleteChange ==
    ASSUME NEW d, Good(d), NEW i, NEW now, NEW force
    PROVE  Change(d, delete(d, i).db, now, force)
  <1>1. CASE i \notin DOMAIN d.patch
    BY <1>1, Unchanged DEF delete, Refused
  <1>2. CASE i \in DOMAIN d.patch
    <2> DEFINE e == DropPatches(d, {i})
    <2>1. delete(d, i).db = e
      BY <1>2 DEF delete, Done
    <2>2. /\ Good(e) /\ e.version = d.version
          /\ DOMAIN e.patch = DOMAIN d.patch \ {i}
      BY DropPatchesFacts
    <2>3. DOMAIN d.patch \ DOMAIN e.patch # {}
      BY <1>2, <2>2
    <2>4. QED
      BY <2>1, <2>2, <2>3 DEF Change
  <1>3. QED
    BY <1>1, <1>2

(* What deleting a bulk takes away: the bulk, and patches that nobody      *)
(* marked and no other bulk holds.                                         *)
OnlyItsOwn(d, e, b) ==
    /\ \A c \in DOMAIN d.bulk \ {b} :
          c \in DOMAIN e.bulk /\ e.bulk[c] = d.bulk[c]
    /\ \A i \in DOMAIN d.patch \ DOMAIN e.patch :
          ~d.patch[i].favourite /\ d.patch[i].tags = {}

LEMMA BulkTakenOut ==
    ASSUME NEW d, Good(d), NEW b
    PROVE  LET e == [d EXCEPT !.bulk = Without(@, {b})]
           IN  /\ Good(e) /\ e.version = d.version /\ e.patch = d.patch
               /\ DOMAIN e.bulk = DOMAIN d.bulk \ {b}
               /\ \A c \in DOMAIN e.bulk : e.bulk[c] = d.bulk[c]
  <1> DEFINE t == Without(d.bulk, {b})
             e == [d EXCEPT !.bulk = t]
  <1>1. DOMAIN t = DOMAIN d.bulk \ {b} /\ \A c \in DOMAIN t : t[c] = d.bulk[c]
    BY DEF Without
  <1>2. e = [d EXCEPT !.bulk = Without(@, {b})]
    OBVIOUS
  <1> HIDE DEF t
  <1>3. /\ DOMAIN e = Fields /\ e.version = d.version
        /\ e.patch = d.patch /\ e.bulk = t
    BY BulksReplaced, Parts DEF Good
  <1> HIDE DEF e
  <1>4. ASSUME NEW c \in DOMAIN e.bulk PROVE BulkOK(e, e.bulk[c])
    <2>1. BulkOK(d, e.bulk[c])
      BY <1>1, <1>3, Parts DEF Good
    <2>2. QED
      BY <1>3, <2>1 DEF BulkOK
  <1>5. WellFormed(e)
    <2>1. IsFiniteSet(DOMAIN e.bulk)
      BY <1>1, <1>3, Parts, FS_Subset DEF Good
    <2>2. \A x, y \in DOMAIN e.bulk : e.bulk[x].name = e.bulk[y].name => x = y
      BY <1>1, <1>3, Parts DEF Good
    <2>3. /\ e.version \in {0, 1}
          /\ IsFiniteSet(DOMAIN e.patch) /\ DOMAIN e.patch \subseteq Nat \ {0}
          /\ e.patch \in [DOMAIN e.patch -> Patch]
          /\ DOMAIN e.bulk \subseteq Nat \ {0}
      BY <1>1, <1>3, Parts DEF Good
    <2>4. QED
      BY <1>3, <1>4, <2>1, <2>2, <2>3 DEF WellFormed, Fields
  <1>6. Good(e)
    BY <1>3, <1>5 DEF Good, OncePerBytes
  <1>7. QED
    BY <1>1, <1>2, <1>3, <1>6

LEMMA delete_bulkChange ==
    ASSUME NEW d, Good(d), NEW b, NEW now, NEW force
    PROVE  LET e == delete_bulk(d, b).db
           IN  Change(d, e, now, force) /\ OnlyItsOwn(d, e, b)
  <1>1. CASE b \notin DOMAIN d.bulk
    BY <1>1, Unchanged DEF delete_bulk, Refused, OnlyItsOwn
  <1>2. CASE b \in DOMAIN d.bulk
    <2> DEFINE left == [d EXCEPT !.bulk = Without(@, {b})]
               used == UNION {Range(left.bulk[c].slots) :
                                c \in DOMAIN left.bulk}
               gone == {i \in Range(d.bulk[b].slots) :
                          /\ ~d.patch[i].favourite
                          /\ d.patch[i].tags = {}
                          /\ i \notin used}
               e    == DropPatches(left, gone)
    <2>1. /\ Good(left) /\ left.version = d.version /\ left.patch = d.patch
          /\ DOMAIN left.bulk = DOMAIN d.bulk \ {b}
          /\ \A c \in DOMAIN left.bulk : left.bulk[c] = d.bulk[c]
      BY BulkTakenOut
    <2>2. delete_bulk(d, b).db = e
      BY <1>2 DEF delete_bulk, Done
    <2> HIDE DEF left
    <2>3. \A c \in DOMAIN left.bulk : \A p \in DOMAIN left.bulk[c].slots :
             left.bulk[c].slots[p] \notin gone
      <3>1. \A c \in DOMAIN left.bulk : \A p \in DOMAIN left.bulk[c].slots :
               left.bulk[c].slots[p] \in used
        BY DEF Range
      <3>2. QED
        BY <3>1
    <2>4. \A i \in gone : ~d.patch[i].favourite /\ d.patch[i].tags = {}
      OBVIOUS
    <2> HIDE DEF gone
    <2>5. /\ Good(e) /\ e.version = left.version
          /\ DOMAIN e.patch = DOMAIN left.patch \ gone
          /\ DOMAIN e.bulk = DOMAIN left.bulk
          /\ \A c \in DOMAIN left.bulk : e.bulk[c] = left.bulk[c]
      BY <2>1, <2>3, DropPatchesFacts
    <2> HIDE DEF e
    <2>6. OnlyItsOwn(d, e, b)
      BY <2>1, <2>4, <2>5 DEF OnlyItsOwn
    <2>7. Change(d, e, now, force)
      BY <2>1, <2>5 DEF Change
    <2>8. QED
      BY <2>2, <2>6, <2>7
  <1>3. QED
    BY <1>1, <1>2

-----------------------------------------------------------------------------
(* Storing patches.                                                        *)

Bank(bank) ==
    /\ DOMAIN bank \subseteq Places
    /\ bank \in [DOMAIN bank -> Bytes \cup {Damaged}]

(* More patches, each with bytes nobody had.                               *)
LEMMA PatchesStored ==
    ASSUME NEW d, Good(d), NEW t, IsFiniteSet(DOMAIN t),
           DOMAIN t \subseteq Nat \ {0}, t \in [DOMAIN t -> Patch],
           DOMAIN d.patch \subseteq DOMAIN t,
           \A i \in DOMAIN d.patch : t[i] = d.patch[i],
           \A i, j \in DOMAIN t : t[i].bytes = t[j].bytes => i = j
    PROVE  LET e == [d EXCEPT !.patch = t]
           IN  Good(e) /\ Grown(d, e) /\ e.patch = t /\ e.bulk = d.bulk
  <1> DEFINE e == [d EXCEPT !.patch = t]
  <1>1. /\ DOMAIN e = Fields /\ e.version = d.version
        /\ e.patch = t /\ e.bulk = d.bulk
    BY PatchReplaced, Parts DEF Good
  <1> HIDE DEF e
  <1>2. WellFormed(e)
    BY <1>1, PatchesChanged DEF Good
  <1>3. Good(e) /\ Grown(d, e)
    BY <1>1, <1>2 DEF Good, Grown, OncePerBytes
  <1>4. QED
    BY <1>1, <1>3 DEF e

LEMMA add_patchFacts ==
    ASSUME NEW d, Good(d), NEW bytes \in Bytes \cup {Damaged},
           NEW source \in Sources
    PROVE  LET e == add_patch(d, bytes, source).db
           IN  Good(e) /\ Grown(d, e)
  <1>1. CASE bytes = Damaged \/ Holding(d, bytes) # {}
    BY <1>1, GrownAtAll DEF add_patch, Refused, Done
  <1>2. CASE bytes # Damaged /\ Holding(d, bytes) = {}
    <2> DEFINE n == NextId(d.patch)
               p == NewPatch(bytes, source)
               t == Put(d.patch, n, p)
    <2>1. n \in Nat \ {0} /\ n \notin DOMAIN d.patch
      BY NextIdFacts, Parts DEF Good
    <2>2. p \in Patch /\ p.bytes = bytes
      BY <1>2 DEF Patch, NewPatch
    <2>3. add_patch(d, bytes, source).db = [d EXCEPT !.patch = t]
      BY <1>2 DEF add_patch, Done
    <2> HIDE DEF n, p
    <2>4. /\ DOMAIN t = DOMAIN d.patch \cup {n} /\ t[n] = p
          /\ \A i \in DOMAIN d.patch : i # n /\ t[i] = d.patch[i]
      <3>1. DOMAIN t = DOMAIN d.patch \cup {n} /\ t[n] = p
        BY DEF Put
      <3>2. \A c \in DOMAIN d.patch : c # n /\ t[c] = d.patch[c]
        BY <2>1 DEF Put
      <3>3. QED
        BY <3>1, <3>2
    <2>5. t \in [DOMAIN t -> Patch]
      <3>1. \A i \in DOMAIN d.patch : d.patch[i] \in Patch
        BY Parts DEF Good
      <3>2. QED
        BY <2>1, <2>2, <3>1 DEF Put
    <2> HIDE DEF t
    <2>6. IsFiniteSet(DOMAIN t) /\ DOMAIN t \subseteq Nat \ {0}
      BY <2>1, <2>4, FS_AddElement, Parts DEF Good
    <2>7. \A i, j \in DOMAIN t : t[i].bytes = t[j].bytes => i = j
      <3>1. \A i \in DOMAIN d.patch : d.patch[i].bytes # bytes
        BY <1>2 DEF Holding
      <3>2. QED
        BY <2>2, <2>4, <3>1 DEF Good, OncePerBytes
    <2>8. DOMAIN d.patch \subseteq DOMAIN t
      BY <2>4
    <2> DEFINE e == [d EXCEPT !.patch = t]
    <2>9. Good(e) /\ Grown(d, e)
      BY <2>4, <2>5, <2>6, <2>7, <2>8, PatchesStored
    <2>10. QED
      BY <2>3, <2>9
  <1>3. QED
    BY <1>1, <1>2

(* The ids of a bank's new patches are new, and no two have the same.      *)
LEMMA IdsGiven ==
    ASSUME NEW d, Good(d), NEW bank, DOMAIN bank \subseteq Places
    PROVE  LET fresh == FirstOfItsKind(d, bank)
               given == {IdAt(d, bank, p) : p \in fresh}
           IN  /\ \A p \in fresh : /\ IdAt(d, bank, p) \in Nat \ {0}
                                   /\ IdAt(d, bank, p) \notin DOMAIN d.patch
               /\ \A p, q \in fresh :
                     IdAt(d, bank, p) = IdAt(d, bank, q) => p = q
               /\ IsFiniteSet(given)
  <1> DEFINE fresh == FirstOfItsKind(d, bank)
             upto(p) == {q \in fresh : q <= p}
             base == NextId(d.patch)
             given == {IdAt(d, bank, p) : p \in fresh}
  <1>1. /\ base \in Nat \ {0}
        /\ \A i \in DOMAIN d.patch : i < base /\ i \in Nat
    BY NextIdFacts, Parts DEF Good
  <1>2. IsFiniteSet(fresh) /\ fresh \subseteq Places /\ Places \subseteq Nat
    <2>1. IsFiniteSet(Places) /\ Places \subseteq Nat
      BY FS_Interval, TablesAssumption DEF Places
    <2>2. fresh \subseteq Places
      BY DEF FirstOfItsKind
    <2>3. QED
      BY <2>1, <2>2, FS_Subset
  <1>3. \A p \in fresh : IdAt(d, bank, p) = base - 1 + Cardinality(upto(p))
    BY DEF IdAt
  <1> HIDE DEF fresh, base
  <1>4. ASSUME NEW p \in fresh
        PROVE  /\ IsFiniteSet(upto(p)) /\ Cardinality(upto(p)) \in Nat \ {0}
               /\ Cardinality(upto(p)) <= Cardinality(fresh)
    <2>1. upto(p) \in SUBSET fresh /\ p \in upto(p)
      BY <1>2
    <2> HIDE DEF upto
    <2>2. IsFiniteSet(upto(p)) /\ Cardinality(upto(p)) <= Cardinality(fresh)
      BY <1>2, <2>1, FS_Subset
    <2>3. Cardinality(upto(p)) \in Nat /\ Cardinality(upto(p)) # 0
      BY <2>1, <2>2, FS_EmptySet, FS_CardinalityType
    <2>4. QED
      BY <2>2, <2>3
  <1>5. ASSUME NEW p \in fresh, NEW q \in fresh, p < q
        PROVE  Cardinality(upto(p)) < Cardinality(upto(q))
    <2>1. upto(p) \in SUBSET upto(q) /\ q \in upto(q) /\ q \notin upto(p)
      <3>1. \A r \in fresh : r \in Nat
        BY <1>2
      <3>2. \A r \in fresh : r <= p => r <= q
        BY <1>5, <3>1
      <3>3. q <= q /\ ~(q <= p)
        BY <1>5, <3>1
      <3>4. QED
        BY <3>2, <3>3
    <2>2. IsFiniteSet(upto(q)) /\ Cardinality(upto(q)) \in Nat
          /\ Cardinality(upto(p)) \in Nat
      BY <1>4
    <2> HIDE DEF upto
    <2>3. /\ Cardinality(upto(p)) <= Cardinality(upto(q))
          /\ Cardinality(upto(p)) # Cardinality(upto(q))
      BY <2>1, <2>2, FS_Subset
    <2>4. QED
      BY <2>2, <2>3
  <1>6. ASSUME NEW p \in fresh
        PROVE  /\ IdAt(d, bank, p) \in Nat \ {0}
               /\ IdAt(d, bank, p) \notin DOMAIN d.patch
               /\ IdAt(d, bank, p) <= base + Cardinality(fresh)
    <2>1. Cardinality(upto(p)) \in Nat \ {0}
          /\ Cardinality(upto(p)) <= Cardinality(fresh)
      BY <1>4
    <2>2. Cardinality(fresh) \in Nat
      BY <1>2, FS_CardinalityType
    <2> HIDE DEF upto
    <2>3. QED
      BY <1>1, <1>3, <2>1, <2>2
  <1>7. ASSUME NEW p \in fresh, NEW q \in fresh,
               IdAt(d, bank, p) = IdAt(d, bank, q)
        PROVE  p = q
    <2>1. /\ Cardinality(upto(p)) \in Nat /\ Cardinality(upto(q)) \in Nat
          /\ ~(p < q) /\ ~(q < p)
      <3>1. Cardinality(upto(p)) \in Nat /\ Cardinality(upto(q)) \in Nat
        BY <1>4
      <3> HIDE DEF upto
      <3>2. Cardinality(upto(p)) = Cardinality(upto(q))
        BY <1>1, <1>3, <1>7, <3>1
      <3>3. ~(p < q) /\ ~(q < p)
        BY <1>5, <3>1, <3>2
      <3>4. QED
        BY <3>1, <3>3
    <2>2. QED
      BY <1>2, <2>1
  <1>8. IsFiniteSet(given)
    <2>1. given \in SUBSET Nat /\ \A i \in given : i <= base + Cardinality(fresh)
      BY <1>6
    <2>2. base + Cardinality(fresh) \in Nat
      BY <1>1, <1>2, FS_CardinalityType
    <2> HIDE DEF given
    <2>3. QED
      BY <2>1, <2>2, FS_BoundedSetOfNaturals
  <1>9. QED
    BY <1>6, <1>7, <1>8 DEF fresh

(* Of every kind that is not stored there is a first place.                *)
LEMMA FirstPlace ==
    ASSUME NEW d, NEW bank, DOMAIN bank \subseteq Places, NEW p \in DOMAIN bank,
           Holding(d, bank[p]) = {}
    PROVE  \E q \in FirstOfItsKind(d, bank) : bank[q] = bank[p]
  <1> DEFINE T == {q \in DOMAIN bank : bank[q] = bank[p]}
  <1>1. T \in SUBSET Nat /\ T # {}
    BY TablesAssumption DEF Places
  <1>2. PICK q \in T : \A r \in T : q <= r
    BY <1>1, LeastNumber
  <1>3. q \in FirstOfItsKind(d, bank)
    BY <1>2 DEF FirstOfItsKind
  <1>4. QED
    BY <1>2, <1>3

(* Every patch of a bank is stored, or the bank holds a damaged one.       *)
LEMMA add_allFacts ==
    ASSUME NEW d, Good(d), NEW bank, Bank(bank), NEW source \in Sources,
           add_all(d, bank, source).ok
    PROVE  LET e == add_all(d, bank, source).db
           IN  /\ Good(e) /\ Grown(d, e) /\ e.bulk = d.bulk
               /\ \A p \in DOMAIN bank : Holding(e, bank[p]) # {}
  <1> DEFINE sound == {p \in DOMAIN bank :
                         \A q \in DOMAIN bank : q <= p => bank[q] # Damaged}
             good  == [p \in sound |-> bank[p]]
             fresh == FirstOfItsKind(d, bank)
             given == {IdAt(d, bank, p) : p \in fresh}
             at(i) == CHOOSE p \in fresh : IdAt(d, bank, p) = i
             new(i) == NewPatch(bank[at(i)], source)
             t     == [i \in DOMAIN d.patch \cup given |->
                         IF i \in DOMAIN d.patch THEN d.patch[i] ELSE new(i)]
             e     == [d EXCEPT !.patch = t]
  <1>1. sound = DOMAIN bank
    BY DEF add_all, Done, Refused
  <1>2. good = bank
    BY <1>1 DEF Bank
  <1>3. add_all(d, bank, source).db = e
    <2> DEFINE After(k) ==
                 [d EXCEPT !.patch =
                    [i \in DOMAIN d.patch
                             \cup {IdAt(d, k, p) : p \in FirstOfItsKind(d, k)} |->
                       IF i \in DOMAIN d.patch THEN d.patch[i]
                       ELSE NewPatch(k[CHOOSE p \in FirstOfItsKind(d, k) :
                                         IdAt(d, k, p) = i], source)]]
    <2>1. add_all(d, bank, source).db = After(good)
      BY DEF add_all, Done, Refused
    <2>2. After(bank) = e
      OBVIOUS
    <2> HIDE DEF After, good, e
    <2>3. QED
      BY <1>2, <2>1, <2>2
  <1>4. \A p \in DOMAIN bank : bank[p] \in Bytes
    <2>1. \A p \in DOMAIN bank : p <= p
      BY TablesAssumption DEF Bank, Places
    <2>2. \A p \in DOMAIN bank : bank[p] # Damaged
      BY <1>1, <2>1
    <2>3. QED
      BY <2>2 DEF Bank
  <1>5. /\ \A p \in fresh : /\ IdAt(d, bank, p) \in Nat \ {0}
                            /\ IdAt(d, bank, p) \notin DOMAIN d.patch
        /\ \A p, q \in fresh : IdAt(d, bank, p) = IdAt(d, bank, q) => p = q
        /\ IsFiniteSet(given)
    BY IdsGiven DEF Bank
  <1>6. /\ fresh \subseteq DOMAIN bank
        /\ \A p \in fresh : Holding(d, bank[p]) = {}
        /\ \A p, q \in fresh : bank[p] = bank[q] => p = q
    <2>1. /\ fresh \subseteq DOMAIN bank
          /\ \A p \in fresh : Holding(d, bank[p]) = {}
          /\ \A p, q \in fresh : bank[p] = bank[q] => p <= q /\ q <= p
      BY DEF FirstOfItsKind
    <2>2. \A p \in fresh : p \in Nat
      BY <2>1, TablesAssumption DEF Bank, Places
    <2>3. QED
      BY <2>1, <2>2
  <1> HIDE DEF sound, good, fresh
  <1>7. \A i \in given : at(i) \in fresh /\ IdAt(d, bank, at(i)) = i
    OBVIOUS
  <1>8. given \subseteq Nat \ {0} /\ \A i \in given : i \notin DOMAIN d.patch
    BY <1>5
  <1>9. \A p \in fresh : IdAt(d, bank, p) \in given /\ at(IdAt(d, bank, p)) = p
    BY <1>5, <1>7
  <1> HIDE DEF given, at
  <1>10. \A i \in given : new(i) \in Patch /\ new(i).bytes = bank[at(i)]
    BY <1>4, <1>6, <1>7 DEF NewPatch, Patch
  <1> HIDE DEF new
  <1>11. /\ DOMAIN t = DOMAIN d.patch \cup given
         /\ \A i \in DOMAIN d.patch : t[i] = d.patch[i]
         /\ \A i \in given : t[i] = new(i)
         /\ t = [i \in DOMAIN t |-> t[i]]
    BY <1>8
  <1> HIDE DEF t
  <1>12. t \in [DOMAIN t -> Patch]
    <2>1. \A i \in DOMAIN d.patch : d.patch[i] \in Patch
      BY Parts DEF Good
    <2>2. \A i \in DOMAIN t : t[i] \in Patch
      BY <1>10, <1>11, <2>1
    <2>3. QED
      BY <1>11, <2>2
  <1>13. IsFiniteSet(DOMAIN t) /\ DOMAIN t \subseteq Nat \ {0}
         /\ DOMAIN d.patch \subseteq DOMAIN t
    <2>1. IsFiniteSet(DOMAIN d.patch) /\ DOMAIN d.patch \subseteq Nat \ {0}
      BY Parts DEF Good
    <2>2. IsFiniteSet(DOMAIN d.patch \cup given)
      BY <1>5, <2>1, FS_Union
    <2>3. QED
      BY <1>8, <1>11, <2>1, <2>2
  <1>14. \A i, j \in DOMAIN t : t[i].bytes = t[j].bytes => i = j
    <2>1. \A i \in DOMAIN d.patch : \A j \in given : t[i].bytes # t[j].bytes
      BY <1>6, <1>7, <1>10, <1>11 DEF Holding
    <2>2. \A i, j \in given : t[i].bytes = t[j].bytes => i = j
      BY <1>6, <1>7, <1>10, <1>11
    <2>3. \A i, j \in DOMAIN d.patch : t[i].bytes = t[j].bytes => i = j
      BY <1>11 DEF Good, OncePerBytes
    <2>4. QED
      BY <1>11, <2>1, <2>2, <2>3
  <1>15. Good(e) /\ Grown(d, e) /\ e.patch = t /\ e.bulk = d.bulk
    BY <1>11, <1>12, <1>13, <1>14, PatchesStored
  <1> HIDE DEF e
  <1>16. ASSUME NEW p \in DOMAIN bank PROVE Holding(e, bank[p]) # {}
    <2>1. CASE Holding(d, bank[p]) # {}
      BY <1>11, <1>15, <2>1 DEF Holding
    <2>2. CASE Holding(d, bank[p]) = {}
      <3>1. PICK q \in fresh : bank[q] = bank[p]
        BY <2>2, FirstPlace DEF Bank, fresh
      <3> DEFINE i == IdAt(d, bank, q)
      <3>2. i \in given /\ at(i) = q
        BY <1>9
      <3> HIDE DEF i
      <3>3. i \in DOMAIN e.patch /\ e.patch[i].bytes = bank[p]
        BY <1>10, <1>11, <1>15, <3>1, <3>2
      <3>4. QED
        BY <3>3 DEF Holding
    <2>3. QED
      BY <2>1, <2>2
  <1>17. QED
    BY <1>3, <1>15, <1>16

(* Where they are.                                                         *)
LEMMA SlotsOfFacts ==
    ASSUME NEW d, Good(d), NEW bank, Bank(bank),
           \A p \in DOMAIN bank : Holding(d, bank[p]) # {}
    PROVE  LET s == SlotsOf(d, bank)
           IN  /\ SlotsOK(d, s) /\ DOMAIN s = DOMAIN bank
               /\ s \in [DOMAIN s -> Range(s)]
               /\ \A p \in DOMAIN bank : d.patch[s[p]].bytes = bank[p]
  <1> DEFINE s == SlotsOf(d, bank)
  <1>1. s = [p \in DOMAIN bank |-> CHOOSE i \in Holding(d, bank[p]) : TRUE]
    BY DEF SlotsOf
  <1>2. DOMAIN s = DOMAIN bank /\ s \in [DOMAIN s -> Range(s)]
    BY <1>1 DEF Range
  <1>3. \A p \in DOMAIN bank : s[p] \in Holding(d, bank[p])
    BY <1>1
  <1> HIDE DEF s
  <1>4. \A p \in DOMAIN bank :
           s[p] \in DOMAIN d.patch /\ d.patch[s[p]].bytes = bank[p]
    BY <1>3 DEF Holding
  <1>5. SlotsOK(d, s)
    BY <1>2, <1>4 DEF SlotsOK, Bank
  <1>6. QED
    BY <1>2, <1>4, <1>5 DEF s

-----------------------------------------------------------------------------
(* Storing a whole bank.                                                   *)

(* It is in the library whole, in one bulk, or nothing of it is.           *)
Whole(d, e, target, name, bank) ==
    \/ e = d
    \/ \E c \in DOMAIN e.bulk :
         /\ IF target = 0 THEN c \notin DOMAIN d.bulk ELSE c = target
         /\ name \in {<<>>, e.bulk[c].name}
         /\ bulk_blocks(e, c) = bank

LEMMA BlocksRead ==
    ASSUME NEW d, NEW b, NEW bank, Bank(bank),
           DOMAIN d.bulk[b].slots = DOMAIN bank,
           \A p \in DOMAIN bank : d.patch[d.bulk[b].slots[p]].bytes = bank[p]
    PROVE  bulk_blocks(d, b) = bank
  <1>1. bank = [p \in DOMAIN bank |-> bank[p]]
    BY DEF Bank
  <1>2. QED
    BY <1>1 DEF bulk_blocks

(* Stored as a new bulk.                                                   *)
LEMMA StoredAsNew ==
    ASSUME NEW d, Good(d), NEW f, Good(f), Grown(d, f), f.bulk = d.bulk,
           NEW bank, Bank(bank), NEW name,
           \A p \in DOMAIN bank : Holding(f, bank[p]) # {},
           NEW now, NEW force
    PROVE  LET r == create_bulk_inner(f, name, SlotsOf(f, bank))
           IN  /\ Change(d, r.db, now, force)
               /\ r.ok => Whole(d, r.db, 0, name, bank)
               /\ r.ok => Whole(d, r.db, 0, <<>>, bank)
  <1> DEFINE s == SlotsOf(f, bank)
             r == create_bulk_inner(f, name, s)
  <1>1. /\ SlotsOK(f, s) /\ DOMAIN s = DOMAIN bank
        /\ s \in [DOMAIN s -> Range(s)]
        /\ \A p \in DOMAIN bank : f.patch[s[p]].bytes = bank[p]
    BY SlotsOfFacts
  <1>2. DOMAIN s \subseteq Places
    BY <1>1 DEF SlotsOK
  <1> HIDE DEF s
  <1>3. /\ Good(r.db) /\ Grown(f, r.db) /\ r.db.patch = f.patch
        /\ r.ok => \E c \in DOMAIN r.db.bulk :
              /\ c \notin DOMAIN f.bulk
              /\ r.db.bulk[c].name = name /\ r.db.bulk[c].slots = s
    BY <1>1, <1>2, create_bulk_innerFacts
  <1> HIDE DEF r
  <1>4. Change(d, r.db, now, force)
    BY <1>3, GrownFurther, GrownChange
  <1>5. ASSUME r.ok
        PROVE  Whole(d, r.db, 0, name, bank) /\ Whole(d, r.db, 0, <<>>, bank)
    <2>1. PICK c \in DOMAIN r.db.bulk :
             /\ c \notin DOMAIN f.bulk
             /\ r.db.bulk[c].name = name /\ r.db.bulk[c].slots = s
      BY <1>3, <1>5
    <2>2. bulk_blocks(r.db, c) = bank
      BY <1>1, <1>3, <2>1, BlocksRead
    <2>3. QED
      BY <2>1, <2>2 DEF Whole
  <1>6. QED
    BY <1>4, <1>5 DEF r, s

LEMMA import_syxFacts ==
    ASSUME NEW d, Good(d), NEW file, Bank(file), NEW base \in Bases,
           NEW now, NEW force
    PROVE  LET e == import_syx(d, file, base).db
           IN  Change(d, e, now, force) /\ Whole(d, e, 0, <<>>, file)
  <1> DEFINE a    == add_all(d, file, base)
             name == unique_bulk_name(a.db, <<base>>)
             r    == create_bulk_inner(a.db, name, SlotsOf(a.db, file))
  <1>1. CASE DOMAIN file = {} \/ ~a.ok \/ ~r.ok
    <2>1. import_syx(d, file, base).db = d
      BY <1>1 DEF import_syx, in_tx, Refused
    <2>2. QED
      BY <2>1, Unchanged DEF Whole
  <1>2. CASE DOMAIN file # {} /\ a.ok /\ r.ok
    <2>1. import_syx(d, file, base).db = r.db
      BY <1>2 DEF import_syx, in_tx
    <2>2. /\ Good(a.db) /\ Grown(d, a.db) /\ a.db.bulk = d.bulk
          /\ \A p \in DOMAIN file : Holding(a.db, file[p]) # {}
      BY <1>2, add_allFacts DEF Sources
    <2> HIDE DEF name, a
    <2>3. /\ Change(d, r.db, now, force) /\ Whole(d, r.db, 0, <<>>, file)
      BY <1>2, <2>2, StoredAsNew
    <2>4. QED
      BY <2>1, <2>3
  <1>3. QED
    BY <1>1, <1>2

(* Stored over a bulk, what it held being kept first.                      *)
LEMMA StoredOver ==
    ASSUME NEW d, Good(d), NEW f, Good(f), Grown(d, f), f.bulk = d.bulk,
           NEW bank, Bank(bank), NEW name, NEW b \in DOMAIN f.bulk,
           ~bulk_name_taken(f, name, {b}),
           \A p \in DOMAIN bank : Holding(f, bank[p]) # {},
           NEW now \in Nat
    PROVE  LET kept    == keep_version(f, b, now, TRUE)
               written == write_slot_map(kept, b, SlotsOf(kept, bank))
               e       == [written EXCEPT !.bulk[b].name = name]
           IN  Change(d, e, now, TRUE) /\ (b # 0 => Whole(d, e, b, name, bank))
  <1> DEFINE kept    == keep_version(f, b, now, TRUE)
             s       == SlotsOf(kept, bank)
             written == write_slot_map(kept, b, s)
             e       == [written EXCEPT !.bulk[b].name = name]
  <1>1. /\ Good(kept) /\ OnlyBulk(f, kept, b)
        /\ kept.bulk[b].slots = f.bulk[b].slots
        /\ kept.bulk[b].name = f.bulk[b].name
        /\ KeptBefore(f, kept, b, now, TRUE)
    BY keep_versionFacts
  <1> HIDE DEF kept
  <1>2. b \in DOMAIN kept.bulk
        /\ \A p \in DOMAIN bank : Holding(kept, bank[p]) # {}
    BY <1>1 DEF OnlyBulk, Holding
  <1>3. /\ SlotsOK(kept, s) /\ DOMAIN s = DOMAIN bank
        /\ \A p \in DOMAIN bank : kept.patch[s[p]].bytes = bank[p]
    <2>1. Good(kept) /\ \A p \in DOMAIN bank : Holding(kept, bank[p]) # {}
      BY <1>1, <1>2
    <2>2. QED
      BY <2>1, SlotsOfFacts
  <1> HIDE DEF s
  <1>4. /\ Good(written) /\ OnlyBulk(kept, written, b)
        /\ written.bulk[b].slots = s
        /\ written.bulk[b].versions = kept.bulk[b].versions
    BY <1>1, <1>2, <1>3, Written DEF write_slot_map
  <1> HIDE DEF written
  <1>5. ~bulk_name_taken(written, name, {b}) /\ b \in DOMAIN written.bulk
    BY <1>1, <1>2, <1>4 DEF OnlyBulk, bulk_name_taken
  <1>6. /\ Good(e) /\ OnlyBulk(written, e, b)
        /\ e.bulk[b].name = name /\ e.bulk[b].slots = s
        /\ e.bulk[b].versions = kept.bulk[b].versions
    BY <1>4, <1>5, Renamed
  <1> HIDE DEF e
  <1>7. OnlyBulk(f, e, b)
    BY <1>1, <1>4, <1>6 DEF OnlyBulk
  <1>8. KeptBefore(d, e, b, now, TRUE)
    BY <1>1, <1>6 DEF KeptBefore
  <1>9. Change(d, e, now, TRUE)
    BY <1>6, <1>7, <1>8 DEF Change, OnlyBulk, Grown
  <1>10. ASSUME b # 0 PROVE Whole(d, e, b, name, bank)
    <2>1. bulk_blocks(e, b) = bank
      <3>1. e.patch = kept.patch
        BY <1>4, <1>6 DEF OnlyBulk
      <3>2. QED
        BY <1>3, <1>6, <3>1, BlocksRead
    <2>2. b \in DOMAIN e.bulk
      BY <1>7 DEF OnlyBulk
    <2>3. QED
      BY <1>6, <1>10, <2>1, <2>2 DEF Whole
  <1>11. QED
    BY <1>9, <1>10 DEF e, written, s, kept

LEMMA save_bulkFacts ==
    ASSUME NEW d, Good(d), NEW b, NEW name, NEW bank, Bank(bank),
           NEW now \in Nat
    PROVE  LET e == save_bulk(d, b, name, bank, now).db
           IN  Change(d, e, now, TRUE) /\ Whole(d, e, b, name, bank)
  <1> DEFINE a       == add_all(d, bank, "bank")
             r       == create_bulk_inner(a.db, name, SlotsOf(a.db, bank))
             kept    == keep_version(a.db, b, now, TRUE)
             written == write_slot_map(kept, b, SlotsOf(kept, bank))
             over    == [written EXCEPT !.bulk[b].name = name]
             saved   == save_bulk(d, b, name, bank, now).db
             refused == b \notin DOMAIN a.db.bulk
                        \/ bulk_name_taken(a.db, name, {b})
  <1>1. \/ saved = d
        \/ a.ok /\ b = 0 /\ r.ok /\ saved = r.db
        \/ a.ok /\ b # 0 /\ ~refused /\ saved = over
    BY DEF save_bulk, in_tx, Refused, Done
  <1>2. CASE saved = d
    BY <1>2, Unchanged DEF Whole
  <1>3. ASSUME a.ok
        PROVE  /\ Good(a.db) /\ Grown(d, a.db) /\ a.db.bulk = d.bulk
               /\ \A p \in DOMAIN bank : Holding(a.db, bank[p]) # {}
    BY <1>3, add_allFacts DEF Sources
  <1> HIDE DEF a, saved
  <1>4. CASE a.ok /\ b = 0 /\ r.ok /\ saved = r.db
    <2>1. /\ Change(d, r.db, now, TRUE) /\ Whole(d, r.db, 0, name, bank)
      BY <1>3, <1>4, StoredAsNew
    <2>2. QED
      BY <1>4, <2>1 DEF saved
  <1>5. CASE a.ok /\ b # 0 /\ ~refused /\ saved = over
    <2>1. Change(d, over, now, TRUE) /\ Whole(d, over, b, name, bank)
      BY <1>3, <1>5, StoredOver
    <2>2. QED
      BY <1>5, <2>1 DEF saved
  <1>6. QED
    BY <1>1, <1>2, <1>4, <1>5 DEF saved

-----------------------------------------------------------------------------
(* A library made before bulks existed, grouped.                           *)

GroupInto(d, e, c) ==
    create_bulk_inner(e, unique_bulk_name(e, ChunkName(c[1], c[2])),
                      ChunkSlots(d, c[1], c[2])).db
(* The library after each of the first m chunks.                           *)
Grouping(d, order, m, g) ==
    g = [n \in 0..m |-> IF n = 0 THEN d ELSE GroupInto(d, g[n - 1], order[n])]

(* The chunks can be grouped one after the other, however many they are.   *)
LEMMA GroupingExists ==
    ASSUME NEW d, NEW order, NEW N \in Nat
    PROVE  \E g : Grouping(d, order, N, g)
  <1> DEFINE T == {m \in Nat : ~\E g : Grouping(d, order, m, g)}
  <1>1. ASSUME T # {} PROVE FALSE
    <2>1. PICK m \in T : \A k \in T : m <= k
      BY <1>1, LeastNumber
    <2>2. m \in Nat /\ ~\E g : Grouping(d, order, m, g)
      OBVIOUS
    <2>3. CASE m = 0
      <3> DEFINE g == [n \in 0..0 |-> d]
      <3>1. Grouping(d, order, 0, g)
        BY DEF Grouping
      <3>2. QED
        BY <2>2, <2>3, <3>1
    <2>4. CASE m # 0
      <3>1. m - 1 \in Nat /\ ~(m <= m - 1)
        BY <2>2, <2>4
      <3>2. PICK g : Grouping(d, order, m - 1, g)
        BY <2>1, <3>1
      <3> DEFINE last == GroupInto(d, g[m - 1], order[m])
                 h == [n \in 0..m |-> IF n = m THEN last ELSE g[n]]
      <3>3. \A n \in 0..(m - 1) :
               g[n] = IF n = 0 THEN d ELSE GroupInto(d, g[n - 1], order[n])
        BY <3>2 DEF Grouping
      <3>4. \A n \in 0..m : n # 0 => n - 1 \in 0..m /\ n - 1 # m
        BY <2>2
      <3>5. \A n \in 0..m : n # 0 => h[n - 1] = g[n - 1]
        BY <3>4
      <3>6. \A n \in 0..m :
               h[n] = IF n = 0 THEN d ELSE GroupInto(d, h[n - 1], order[n])
        <4>1. h[m] = last /\ \A n \in 0..m : n # m => h[n] = g[n]
          BY <2>2
        <4>2. \A n \in 0..m : n # m => n \in 0..(m - 1)
          BY <2>2
        <4> HIDE DEF h
        <4>3. QED
          BY <2>2, <2>4, <3>3, <3>5, <4>1, <4>2
      <3>7. h = [n \in 0..m |-> h[n]]
        OBVIOUS
      <3> HIDE DEF h
      <3>8. Grouping(d, order, m, h)
        BY <3>6, <3>7 DEF Grouping
      <3>9. QED
        BY <2>2, <3>8
    <2>5. QED
      BY <2>3, <2>4
  <1>2. QED
    BY <1>1

(* The chunks are finitely many, and a chunk fits a bulk.                  *)
LEMMA RankFacts ==
    ASSUME NEW d, Good(d), NEW i \in DOMAIN d.patch
    PROVE  RankIn(d, i) \in Nat
  <1> DEFINE T == {j \in OfSource(d, d.patch[i].source) : j < i}
  <1>1. T \subseteq DOMAIN d.patch
    BY DEF OfSource
  <1> HIDE DEF T
  <1>2. IsFiniteSet(T)
    BY <1>1, FS_Subset, Parts DEF Good
  <1>3. Cardinality(T) \in Nat
    BY <1>2, FS_CardinalityType
  <1>4. QED
    BY <1>3 DEF RankIn, T

LEMMA ChunksFinite ==
    ASSUME NEW d, Good(d)
    PROVE  Cardinality(Chunks(d)) \in Nat /\ (d.patch = <<>> => Chunks(d) = {})
  <1> DEFINE c(i) == <<d.patch[i].source, RankIn(d, i) \div BULK_SLOTS>>
             f == [i \in DOMAIN d.patch |-> c(i)]
  <1>1. f \in Surjection(DOMAIN d.patch, Chunks(d))
    BY DEF Surjection, Chunks
  <1>2. IsFiniteSet(Chunks(d))
    BY <1>1, FS_Surjection, Parts DEF Good
  <1>3. d.patch = <<>> => Chunks(d) = {}
    BY DEF Chunks
  <1>4. QED
    BY <1>2, <1>3, FS_CardinalityType

LEMMA ChunkSlotsFacts ==
    ASSUME NEW d, Good(d), NEW s, NEW n
    PROVE  LET slots == ChunkSlots(d, s, n)
           IN  /\ DOMAIN slots \subseteq Places
               /\ slots \in [DOMAIN slots -> Range(slots)]
  <1> DEFINE slots == ChunkSlots(d, s, n)
  <1>1. DOMAIN slots = {RankIn(d, i) % BULK_SLOTS : i \in Chunk(d, s, n)}
        /\ slots = [p \in DOMAIN slots |-> slots[p]]
    BY DEF ChunkSlots
  <1> HIDE DEF slots
  <1>2. \A i \in Chunk(d, s, n) : i \in DOMAIN d.patch
    BY DEF Chunk, OfSource
  <1>3. \A k \in Nat : k % BULK_SLOTS \in Places
    BY TablesAssumption DEF Places
  <1>4. DOMAIN slots \subseteq Places
    BY <1>1, <1>2, <1>3, RankFacts
  <1>5. slots \in [DOMAIN slots -> Range(slots)]
    BY <1>1 DEF Range
  <1>6. QED
    BY <1>4, <1>5 DEF slots

LEMMA GroupIntoFacts ==
    ASSUME NEW d, Good(d), NEW e, Good(e), NEW c
    PROVE  LET f == GroupInto(d, e, c)
           IN  Good(f) /\ f.version = e.version /\ f.patch = e.patch
  <1> DEFINE slots == ChunkSlots(d, c[1], c[2])
             name  == unique_bulk_name(e, ChunkName(c[1], c[2]))
  <1>1. DOMAIN slots \subseteq Places /\ slots \in [DOMAIN slots -> Range(slots)]
    BY ChunkSlotsFacts
  <1>2. GroupInto(d, e, c) = create_bulk_inner(e, name, slots).db
    BY DEF GroupInto
  <1> HIDE DEF slots, name
  <1>3. QED
    BY <1>1, <1>2, create_bulk_innerFacts DEF Grown

(* Grouping stores no patch twice, loses none, and leaves the mark to      *)
(* be made afterwards; without patches it does nothing.                    *)
LEMMA migrate_to_bulksFacts ==
    ASSUME NEW d, Good(d)
    PROVE  LET e == migrate_to_bulks(d)
           IN  /\ Good(e) /\ e.version = d.version /\ e.patch = d.patch
               /\ d.patch = <<>> => e = d
  <1> DEFINE N == Cardinality(Chunks(d))
  <1>1. PICK order :
           migrate_to_bulks(d) = (CHOOSE g : Grouping(d, order, N, g))[N]
    BY DEF migrate_to_bulks, Grouping, GroupInto
  <1>2. N \in Nat
    BY ChunksFinite
  <1>3. d.patch = <<>> => N = 0
    BY ChunksFinite, FS_EmptySet
  <1> HIDE DEF N
  <1> DEFINE g == CHOOSE g : Grouping(d, order, N, g)
  <1>4. Grouping(d, order, N, g)
    BY <1>2, GroupingExists
  <1> HIDE DEF g
  <1>5. \A n \in 0..N :
           g[n] = IF n = 0 THEN d ELSE GroupInto(d, g[n - 1], order[n])
    BY <1>4 DEF Grouping
  <1> DEFINE OK(n) == /\ Good(g[n]) /\ g[n].version = d.version
                      /\ g[n].patch = d.patch
             T     == {n \in 0..N : ~OK(n)}
  <1>6. ASSUME T # {} PROVE FALSE
    <2>1. PICK n \in T : \A k \in T : n <= k
      <3>1. T \in SUBSET Nat
        BY <1>2
      <3> HIDE DEF T
      <3>2. QED
        BY <1>6, <3>1, LeastNumber
    <2>2. n \in 0..N /\ ~OK(n)
      OBVIOUS
    <2>3. n # 0
      BY <1>2, <1>5, <2>2
    <2>4. n - 1 \in 0..N /\ ~(n <= n - 1)
      BY <1>2, <2>2, <2>3
    <2>5. OK(n - 1)
      BY <2>1, <2>4
    <2>6. g[n] = GroupInto(d, g[n - 1], order[n])
      BY <1>5, <2>2, <2>3
    <2>7. OK(n)
      BY <2>5, <2>6, GroupIntoFacts
    <2>8. QED
      BY <2>2, <2>7
  <1>7. OK(N)
    BY <1>2, <1>6
  <1>8. d.patch = <<>> => g[N] = d
    BY <1>2, <1>3, <1>5
  <1>9. migrate_to_bulks(d) = g[N]
    BY <1>1 DEF g
  <1>10. QED
    BY <1>7, <1>8, <1>9

-----------------------------------------------------------------------------
(* The inductive invariant.                                                *)

ShelfFields == {"lib", "bak", "backups"}

Types ==
    /\ phase \in {"closed", "opening", "grouped", "open", "failed"}
    /\ clock \in 0..MaxClock /\ acts \in 0..MaxActs
    /\ inUse \in AllFolders /\ pointer \in AllFolders
    /\ DOMAIN shelf = AllFolders
    /\ \A f \in AllFolders : /\ DOMAIN shelf[f] = ShelfFields
                             /\ DOMAIN shelf[f].backups \subseteq BackupNames

(* In every folder is a good library or none, and the copy made before its *)
(* bulks when they are not marked as done.                                 *)
Shelves ==
    \A f \in AllFolders :
       /\ FileIn(f) = NoFile \/ Good(FileIn(f))
       /\ Kept(FileIn(f), CopyIn(f))

(* How far the opening of the library in use has come.                     *)
Opened ==
    /\ phase = "open" => db.version = 1
    /\ phase = "grouped" => db.version = 0
    /\ phase = "opening" /\ db.version = 0 /\ db.patch # <<>> => bak # NoFile

(* How far the choice of a folder has come.                                *)
ChoiceFields == {"to", "step", "names", "had"}

(* A backup to be copied that is in the folder chosen is the same there,   *)
(* unless the folder had it.                                               *)
Listed ==
    \A n \in choice.names :
       /\ n \in DOMAIN shelf[inUse].backups
       /\ n \in DOMAIN shelf[choice.to].backups =>
            \/ n \in choice.had
            \/ shelf[choice.to].backups[n] = shelf[inUse].backups[n]

(* The library of the folder chosen.                                       *)
HasLibrary ==
    /\ FileIn(choice.to) # NoFile
    /\ LibraryFile \in choice.had \/ FileIn(choice.to).version = 1

Chosen ==
    /\ DOMAIN choice = ChoiceFields
    /\ choice.step \in {None, "library", "backups", "point"}
    /\ choice.step # None =>
         phase \in {"open", "failed"} /\ choice.to \in Folders /\ Listed
    /\ choice.step \in {"library", "backups"} => choice.to # inUse
    /\ choice.step = "library" => Had(choice.to) \subseteq choice.had
    /\ choice.step \in {"backups", "point"} /\ phase = "open" => HasLibrary
    /\ choice.step = "point" =>
         choice.names \subseteq DOMAIN shelf[choice.to].backups

IInv == Good(db) /\ Types /\ Shelves /\ Opened /\ Chosen

-----------------------------------------------------------------------------
(* The commands.                                                           *)

LEMMA NotNoFile ==
    ASSUME NEW d, Good(d)
    PROVE  d # NoFile
  <1>1. DOMAIN d = Fields
    BY Parts DEF Good
  <1>2. "bulk" \in DOMAIN d /\ "bulk" \notin DOMAIN NoFile
    BY <1>1 DEF Fields, NoFile
  <1>3. QED
    BY <1>2

LEMMA Unforced ==
    ASSUME NEW d, NEW e, NEW now, Change(d, e, now, TRUE)
    PROVE  Change(d, e, now, FALSE)
  BY DEF Change, KeptBefore

(* Whatever the command.                                                   *)
LEMMA CommandChange ==
    ASSUME Good(db), Types, Command
    PROVE  Change(db, db', clock, FALSE)
  <1>1. clock \in Nat
    BY LibraryBounds DEF Types
  <1>2. \A bank \in Banks : Bank(bank)
    BY BanksAssumption DEF Bank
  <1>3. ASSUME NEW i, NEW on \in BOOLEAN, SetFavourite(i, on)
        PROVE  Change(db, db', clock, FALSE)
    <2>1. db' = set_favourite(db, i, on).db
      BY <1>3 DEF SetFavourite, with_library, command
    <2>2. Good(db') /\ db'.version = db.version /\ db'.bulk = db.bulk
      BY <2>1, set_favouriteGood
    <2>3. QED
      BY <2>2 DEF Change
  <1>4. ASSUME NEW i, NEW tag \in Tags, AddTag(i, tag)
        PROVE  Change(db, db', clock, FALSE)
    <2>1. db' = add_tag(db, i, tag).db
      BY <1>4 DEF AddTag, with_library, command
    <2>2. Good(db') /\ db'.version = db.version /\ db'.bulk = db.bulk
      BY <2>1, add_tagGood
    <2>3. QED
      BY <2>2 DEF Change
  <1>5. ASSUME NEW i, NEW tag \in Tags, RemoveTag(i, tag)
        PROVE  Change(db, db', clock, FALSE)
    <2>1. db' = remove_tag(db, i, tag).db
      BY <1>5 DEF RemoveTag, with_library, command
    <2>2. Good(db') /\ db'.version = db.version /\ db'.bulk = db.bulk
      BY <2>1, remove_tagGood
    <2>3. QED
      BY <2>2 DEF Change
  <1>6. ASSUME NEW i, NEW name \in PatchNames, Rename(i, name)
        PROVE  Change(db, db', clock, FALSE)
    <2>1. db' = rename(db, i, name).db
      BY <1>6 DEF Rename, with_library, command
    <2>2. Good(db') /\ db'.version = db.version /\ db'.bulk = db.bulk
      BY <2>1, renameGood
    <2>3. QED
      BY <2>2 DEF Change
  <1>7. ASSUME NEW i, Delete(i) PROVE Change(db, db', clock, FALSE)
    BY <1>7, deleteChange DEF Delete, with_library, command
  <1>8. ASSUME NEW bytes \in Bytes \cup {Damaged}, AddPatch(bytes)
        PROVE  Change(db, db', clock, FALSE)
    <2>1. db' = add_patch(db, bytes, "bank").db /\ "bank" \in Sources
      BY <1>8 DEF AddPatch, with_library, command, Sources
    <2>2. Good(db') /\ Grown(db, db')
      BY <2>1, add_patchFacts
    <2>3. QED
      BY <2>2, GrownChange
  <1>9. PatchCommand => Change(db, db', clock, FALSE)
    BY <1>3, <1>4, <1>5, <1>6, <1>7, <1>8 DEF PatchCommand
  <1>10. ASSUME NEW file \in Banks, NEW s \in Bases, ImportSyx(file, s)
         PROVE  Change(db, db', clock, FALSE)
    BY <1>2, <1>10, import_syxFacts DEF ImportSyx, command
  <1>11. ASSUME NEW bank \in Banks, NEW b, NEW name, SaveBulk(b, name, bank)
         PROVE  Change(db, db', clock, FALSE)
    BY <1>1, <1>2, <1>11, save_bulkFacts, Unforced DEF SaveBulk, command
  <1>12. ASSUME NEW b, NEW name, RenameBulk(b, name)
         PROVE  Change(db, db', clock, FALSE)
    BY <1>12, rename_bulkChange DEF RenameBulk, with_library, command
  <1>13. ASSUME NEW b, NEW name, DuplicateBulk(b, name)
         PROVE  Change(db, db', clock, FALSE)
    BY <1>13, duplicate_bulkChange DEF DuplicateBulk, with_library, command
  <1>14. ASSUME NEW b, DeleteBulk(b) PROVE Change(db, db', clock, FALSE)
    BY <1>14, delete_bulkChange DEF DeleteBulk, with_library, command
  <1>15. ASSUME NEW b, NEW v, Restore(b, v) PROVE Change(db, db', clock, FALSE)
    BY <1>1, <1>15, restore_revisionChange, Unforced
       DEF Restore, with_library, command
  <1>16. WholeBulkCommand => Change(db, db', clock, FALSE)
    BY <1>10, <1>11, <1>12, <1>13, <1>14, <1>15 DEF WholeBulkCommand
  <1>17. ASSUME NEW b, NEW p \in Places, NEW i, BulkPlace(b, p, i)
         PROVE  Change(db, db', clock, FALSE)
    BY <1>1, <1>17, bulk_placeChange DEF BulkPlace, with_library, command
  <1>18. ASSUME NEW b, NEW i, BulkAppend(b, i)
         PROVE  Change(db, db', clock, FALSE)
    BY <1>1, <1>18, bulk_appendChange DEF BulkAppend, with_library, command
  <1>19. ASSUME NEW b, NEW p \in Places, BulkClear(b, p)
         PROVE  Change(db, db', clock, FALSE)
    BY <1>1, <1>19, bulk_clearChange DEF BulkClear, with_library, command
  <1>20. ASSUME NEW b, NEW p \in Places, NEW q \in Places, BulkSwap(b, p, q)
         PROVE  Change(db, db', clock, FALSE)
    BY <1>1, <1>20, bulk_swapChange DEF BulkSwap, with_library, command
  <1>21. ASSUME NEW b, NEW p \in Places, NEW q \in Places, NEW c,
                BulkMove(b, p, c, q)
         PROVE  Change(db, db', clock, FALSE)
    BY <1>1, <1>21, bulk_moveChange DEF BulkMove, with_library, command
  <1>22. PlaceCommand => Change(db, db', clock, FALSE)
    BY <1>17, <1>18, <1>19, <1>20, <1>21 DEF PlaceCommand
  <1>23. QED
    BY <1>9, <1>16, <1>22 DEF Command

(* What every command leaves as it is.                                     *)
LEMMA CommandLeaves ==
    ASSUME Command
    PROVE  /\ phase = "open" /\ acts < MaxActs /\ acts' = acts + 1
           /\ UNCHANGED <<phase, bak, clock, storageVars>>
  BY DEF Command, PatchCommand, WholeBulkCommand, PlaceCommand, command,
         with_library, AddPatch, SetFavourite, AddTag, RemoveTag, Rename,
         Delete, ImportSyx, SaveBulk, RenameBulk, DuplicateBulk, DeleteBulk,
         BulkPlace, BulkAppend, BulkClear, BulkSwap, BulkMove, Restore

-----------------------------------------------------------------------------
(* The invariant holds at the start.                                       *)

LEMMA InitGood == ASSUME Init PROVE IInv
  <1>1. Good(db) /\ db.version = 0 /\ db.bulk = <<>>
    BY DEF Init, Good
  <1>2. Types
    BY LibraryBounds DEF Init, Types, FolderOK, ShelfFields, AllFolders
  <1>3. Shelves
    BY <1>1 DEF Init, Shelves, FileIn, CopyIn, FolderOK, Good, Kept
  <1>4. Opened
    BY DEF Init, Opened
  <1>5. Chosen
    BY DEF Init, Chosen, NoChoice, None, ChoiceFields
  <1>6. QED
    BY <1>1, <1>2, <1>3, <1>4, <1>5 DEF IInv

-----------------------------------------------------------------------------
(* The tables and the types.                                               *)

LEMMA StampGood ==
    ASSUME NEW d, Good(d)
    PROVE  LET e == [d EXCEPT !.version = 1]
           IN  /\ Good(e) /\ e.version = 1
               /\ e.patch = d.patch /\ e.bulk = d.bulk
  <1> DEFINE e == [d EXCEPT !.version = 1]
  <1>1. /\ DOMAIN e = Fields /\ e.version = 1
        /\ e.patch = d.patch /\ e.bulk = d.bulk
    BY Parts DEF Good, Fields
  <1> HIDE DEF e
  <1>2. ASSUME NEW b \in DOMAIN e.bulk PROVE BulkOK(e, e.bulk[b])
    BY <1>1, <1>2, Parts DEF Good, BulkOK
  <1>3. Good(e)
    BY <1>1, <1>2, Parts DEF Good, WellFormed, Fields, OncePerBytes
  <1>4. QED
    BY <1>1, <1>3 DEF e

LEMMA NewFileGood ==
    /\ Good(NewFile) /\ NewFile.version = 0
    /\ NewFile.bulk = <<>> /\ NewFile.patch = <<>>
  <1>1. /\ DOMAIN NewFile = Fields /\ NewFile.version = 0
        /\ NewFile.bulk = <<>> /\ NewFile.patch = <<>>
    BY DEF NewFile, Fields
  <1>2. DOMAIN <<>> = {} /\ <<>> \in [{} -> Patch]
    OBVIOUS
  <1>3. QED
    BY <1>1, <1>2, FS_EmptySet DEF Good, WellFormed, OncePerBytes, Fields

(* What a start finds in the folder it opens.                              *)
Found(f) == IF FileIn(f) = NoFile THEN NewFile ELSE FileIn(f)

LEMMA FoundGood ==
    ASSUME IInv, NEW f \in AllFolders
    PROVE  Good(Found(f)) /\ Kept(Found(f), CopyIn(f))
  <1>1. FileIn(f) = NoFile \/ Good(FileIn(f))
    BY DEF IInv, Shelves
  <1>2. Kept(FileIn(f), CopyIn(f))
    BY DEF IInv, Shelves
  <1>3. QED
    BY <1>1, <1>2, NewFileGood DEF Found, Kept

LEMMA ResolvedFolder ==
    ASSUME Types, NEW there
    PROVE  resolve(there) \in AllFolders
  BY DEF Types, resolve, AllFolders

LEMMA StartFacts ==
    ASSUME IInv, NEW there, Start(there)
    PROVE  /\ phase = "closed" /\ phase' = "opening"
           /\ inUse' \in AllFolders
           /\ db' = Found(inUse') /\ Good(db')
           /\ bak' = IF db'.version < 1 /\ db'.patch # <<>>
                        /\ CopyIn(inUse') = NoFile
                     THEN db' ELSE CopyIn(inUse')
           /\ shelf' = [shelf EXCEPT ![inUse] =
                          [lib |-> db, bak |-> bak, backups |-> @.backups]]
           /\ UNCHANGED <<clock, acts, meant, pointer, choice>>
  <1>1. resolve(there) \in AllFolders
    BY ResolvedFolder DEF IInv
  <1>2. inUse' = resolve(there)
    BY DEF Start
  <1>3. db' = Found(inUse')
    BY <1>2 DEF Start, Open, Found
  <1>4. Good(db')
    BY <1>1, <1>2, <1>3, FoundGood
  <1>5. QED
    BY <1>1, <1>2, <1>3, <1>4 DEF Start, Open, Found

LEMMA GroupFacts ==
    ASSUME IInv, Group
    PROVE  /\ phase = "opening" /\ Good(db') /\ db'.version = db.version
           /\ IF db.version = 0 THEN phase' = "grouped" ELSE phase' = "open"
           /\ db.patch = <<>> => db' = db
           /\ db.version # 0 => db' = db
           /\ UNCHANGED <<bak, clock, acts, meant, storageVars>>
  <1>1. Good(db) /\ db.version \in {0, 1}
    BY Parts DEF IInv, Good
  <1>2. QED
    BY <1>1, migrate_to_bulksFacts DEF Group

LEMMA GoodKept == ASSUME IInv, [Next]_libVars PROVE Good(db')
  <1>1. ASSUME NEW there, Start(there) PROVE Good(db')
    BY <1>1, StartFacts
  <1>2. Group => Good(db')
    BY GroupFacts
  <1>3. Stamp => Good(db')
    BY StampGood DEF Stamp, IInv
  <1>4. Command => Good(db')
    BY CommandChange DEF IInv, Change
  <1>5. Stop \/ OpenFails \/ Tick \/ StorageStep => db' = db
    BY DEF Stop, OpenFails, Tick, StorageStep, ChooseDefault, Choose,
           CopyLibrary, LibraryCut, CopyBackup, BackupCut, BackupsCopied,
           Point, ChoiceFails, WriteBackup, libraryVars
  <1>6. UNCHANGED libVars => db' = db
    BY DEF libVars
  <1>7. QED
    BY <1>1, <1>2, <1>3, <1>4, <1>5, <1>6 DEF IInv, Next, Opening

(* A shelf with one entry changed.                                         *)
LEMMA ShelfReplaced ==
    ASSUME Types, NEW f \in AllFolders, NEW r,
           DOMAIN r = ShelfFields, DOMAIN r.backups \subseteq BackupNames,
           NEW s, s = [shelf EXCEPT ![f] = r]
    PROVE  /\ DOMAIN s = AllFolders /\ s[f] = r
           /\ \A g \in AllFolders : g # f => s[g] = shelf[g]
           /\ \A g \in AllFolders :
                 /\ DOMAIN s[g] = ShelfFields
                 /\ DOMAIN s[g].backups \subseteq BackupNames
  BY DEF Types

(* More backups and nothing else: what s is to the shelves.                *)
Backed(s) ==
    /\ DOMAIN s = AllFolders
    /\ \A g \in AllFolders :
          /\ DOMAIN s[g] = ShelfFields
          /\ s[g].lib = shelf[g].lib /\ s[g].bak = shelf[g].bak
          /\ DOMAIN s[g].backups \subseteq BackupNames
          /\ \A n \in DOMAIN shelf[g].backups :
                n \in DOMAIN s[g].backups
                /\ s[g].backups[n] = shelf[g].backups[n]

WithBackup(f, n, x) == [shelf EXCEPT ![f].backups = Put(@, n, x)]

LEMMA BackupStored ==
    ASSUME Types, NEW f \in AllFolders, NEW n \in BackupNames, NEW x,
           n \notin DOMAIN shelf[f].backups
    PROVE  LET s == WithBackup(f, n, x)
           IN  /\ Backed(s)
               /\ \A g \in AllFolders : g # f => s[g] = shelf[g]
               /\ DOMAIN s[f].backups = DOMAIN shelf[f].backups \cup {n}
               /\ s[f].backups[n] = x
  <1> DEFINE old == shelf[f].backups
             new == Put(old, n, x)
             r   == [shelf[f] EXCEPT !.backups = new]
             s   == [shelf EXCEPT ![f] = r]
  <1>1. /\ DOMAIN new = DOMAIN old \cup {n}
        /\ \A m \in DOMAIN old : new[m] = old[m]
        /\ new[n] = x
    BY DEF Put
  <1>2. WithBackup(f, n, x) = s
    BY DEF WithBackup
  <1> HIDE DEF new
  <1>3. /\ DOMAIN shelf = AllFolders /\ DOMAIN shelf[f] = ShelfFields
        /\ DOMAIN old \subseteq BackupNames
    BY DEF Types
  <1>4. /\ DOMAIN r = ShelfFields /\ r.backups = new
        /\ r.lib = shelf[f].lib /\ r.bak = shelf[f].bak
    BY <1>3 DEF ShelfFields
  <1> HIDE DEF r
  <1>5. /\ DOMAIN s = AllFolders /\ s[f] = r
        /\ \A g \in AllFolders : g # f => s[g] = shelf[g]
    BY <1>3
  <1> HIDE DEF s
  <1>6. QED
    BY <1>1, <1>2, <1>3, <1>4, <1>5 DEF Backed, Types

(* What each step of choosing a folder makes of the shelves.               *)
LEMMA CopyBackupFacts ==
    ASSUME Types, Chosen, NEW n \in BackupNames, CopyBackup(n) \/ BackupCut(n)
    PROVE  /\ Backed(shelf')
           /\ \A g \in AllFolders : g # choice.to => shelf'[g] = shelf[g]
           /\ DOMAIN shelf'[choice.to].backups
                = DOMAIN shelf[choice.to].backups \cup {n}
           /\ CopyBackup(n) =>
                shelf'[choice.to].backups[n] = shelf[inUse].backups[n]
  <1>1. choice.to \in AllFolders /\ n \notin DOMAIN shelf[choice.to].backups
    BY DEF CopyBackup, BackupCut, Step, Chosen, None, AllFolders
  <1>2. PICK x : /\ shelf' = WithBackup(choice.to, n, x)
                 /\ CopyBackup(n) => x = shelf[inUse].backups[n]
    <2>1. CASE CopyBackup(n)
      BY <2>1 DEF CopyBackup, WithBackup
    <2>2. CASE BackupCut(n) /\ ~CopyBackup(n)
      BY <2>2 DEF BackupCut, WithBackup
    <2>3. QED
      BY <2>1, <2>2
  <1>3. QED
    BY <1>1, <1>2, BackupStored

LEMMA WriteBackupFacts ==
    ASSUME Types, NEW n \in BackupNames, WriteBackup(n)
    PROVE  /\ Backed(shelf')
           /\ \A g \in AllFolders : g # inUse => shelf'[g] = shelf[g]
  <1>1. inUse \in AllFolders /\ n \notin DOMAIN shelf[inUse].backups
    BY DEF WriteBackup, Types
  <1>2. shelf' = WithBackup(inUse, n, New)
    BY DEF WriteBackup, WithBackup
  <1>3. QED
    BY <1>1, <1>2, BackupStored

LEMMA NothingStored == ASSUME Types PROVE Backed(shelf)
  BY DEF Types, Backed

(* A library copied, or part of one, to where there was none.              *)
Copying == CopyLibrary \/ LibraryCut

LEMMA CopyingFacts ==
    ASSUME Types, Chosen, Copying
    PROVE  LET to == choice.to
           IN  /\ to \in AllFolders /\ to \in Folders /\ to # inUse
               /\ UNCHANGED <<db, phase, bak, clock, acts, inUse>>
               /\ phase \in {"open", "failed"} /\ choice.step = "library"
               /\ DOMAIN shelf' = AllFolders
               /\ DOMAIN shelf'[to] = ShelfFields
               /\ \A g \in AllFolders : g # to => shelf'[g] = shelf[g]
               /\ shelf'[to].bak = shelf[to].bak
               /\ shelf'[to].backups = shelf[to].backups
               /\ \/ /\ shelf'[to].lib = shelf[to].lib
                     /\ shelf[to].lib # NoFile \/ phase = "failed"
                  \/ /\ shelf[to].lib = NoFile /\ phase = "open"
                     /\ shelf'[to].lib \in {db, NewFile}
                     /\ CopyLibrary => shelf'[to].lib = db
  <1> DEFINE to == choice.to
             r(x) == [shelf[to] EXCEPT !.lib = x]
             s(x) == [shelf EXCEPT ![to] = r(x)]
  <1>1. to \in AllFolders /\ to \in Folders /\ to # inUse
    BY DEF Copying, CopyLibrary, LibraryCut, Step, Chosen, None, AllFolders
  <1>2. DOMAIN shelf = AllFolders /\ DOMAIN shelf[to] = ShelfFields
    BY <1>1 DEF Types
  <1>3. /\ UNCHANGED <<db, phase, bak, clock, acts, inUse>>
        /\ phase \in {"open", "failed"} /\ choice.step = "library"
    BY DEF Copying, CopyLibrary, LibraryCut, Step, Running, libraryVars
  <1>4. \/ /\ shelf' = shelf
           /\ shelf[to].lib # NoFile \/ phase = "failed"
        \/ /\ shelf[to].lib = NoFile /\ phase = "open"
           /\ \E x \in {db, NewFile} :
                shelf' = s(x) /\ (CopyLibrary => x = db)
    <2>1. CASE CopyLibrary
      BY <1>3, <2>1 DEF CopyLibrary
    <2>2. CASE LibraryCut /\ ~CopyLibrary
      BY <2>2 DEF LibraryCut
    <2>3. QED
      BY <2>1, <2>2 DEF Copying
  <1>5. ASSUME NEW x
        PROVE  /\ DOMAIN s(x) = AllFolders
               /\ DOMAIN s(x)[to] = ShelfFields /\ s(x)[to].lib = x
               /\ s(x)[to].bak = shelf[to].bak
               /\ s(x)[to].backups = shelf[to].backups
               /\ \A g \in AllFolders : g # to => s(x)[g] = shelf[g]
    <2>1. /\ DOMAIN r(x) = ShelfFields /\ r(x).lib = x
          /\ r(x).bak = shelf[to].bak /\ r(x).backups = shelf[to].backups
      BY <1>2 DEF ShelfFields
    <2> HIDE DEF r
    <2>2. s(x)[to] = r(x)
      BY <1>1, <1>2
    <2>3. /\ DOMAIN s(x) = AllFolders
          /\ \A g \in AllFolders : g # to => s(x)[g] = shelf[g]
      BY <1>1, <1>2
    <2>4. QED
      BY <2>1, <2>2, <2>3
  <1> HIDE DEF s, to
  <1>6. CASE /\ shelf' = shelf
             /\ shelf[to].lib # NoFile \/ phase = "failed"
    BY <1>1, <1>2, <1>3, <1>6 DEF to
  <1>7. CASE /\ shelf[to].lib = NoFile /\ phase = "open"
             /\ \E x \in {db, NewFile} :
                  shelf' = s(x) /\ (CopyLibrary => x = db)
    <2>1. PICK x \in {db, NewFile} :
             shelf' = s(x) /\ (CopyLibrary => x = db)
      BY <1>7
    <2>2. QED
      BY <1>1, <1>3, <1>5, <1>7, <2>1 DEF to
  <1>8. QED
    BY <1>4, <1>6, <1>7

(* The folder left is given what was in use.                               *)
LEMMA StartShelves ==
    ASSUME IInv, NEW there, Start(there)
    PROVE  /\ DOMAIN shelf' = AllFolders
           /\ \A g \in AllFolders :
                 /\ DOMAIN shelf'[g] = ShelfFields
                 /\ shelf'[g].lib = FileIn(g) /\ shelf'[g].bak = CopyIn(g)
                 /\ shelf'[g].backups = shelf[g].backups
  <1> DEFINE r == [lib |-> db, bak |-> bak, backups |-> shelf[inUse].backups]
             s == [shelf EXCEPT ![inUse] = r]
  <1>1. shelf' = s
    BY StartFacts
  <1>2. /\ DOMAIN r = ShelfFields /\ r.lib = db /\ r.bak = bak
        /\ r.backups = shelf[inUse].backups
    BY DEF ShelfFields
  <1>3. /\ DOMAIN shelf = AllFolders /\ inUse \in AllFolders
        /\ \A g \in AllFolders : DOMAIN shelf[g] = ShelfFields
    BY DEF IInv, Types
  <1> HIDE DEF r
  <1>4. /\ DOMAIN s = AllFolders /\ s[inUse] = r
        /\ \A g \in AllFolders : g # inUse => s[g] = shelf[g]
    BY <1>3
  <1> HIDE DEF s
  <1>5. QED
    BY <1>1, <1>2, <1>3, <1>4 DEF FileIn, CopyIn

(* The steps that leave the shelves and the folder in use alone, but for   *)
(* backups.                                                                *)
Quiet ==
    \/ Stop \/ Opening \/ Command \/ Tick \/ ChooseDefault
    \/ \E f \in Folders : Choose(f)
    \/ BackupsCopied \/ Point \/ ChoiceFails
    \/ \E n \in BackupNames : CopyBackup(n) \/ BackupCut(n)
                                      \/ WriteBackup(n)
    \/ UNCHANGED libVars

LEMMA StepKinds ==
    ASSUME [Next]_libVars
    PROVE  (\E there \in SUBSET Folders : Start(there)) \/ Copying \/ Quiet
  BY DEF Next, StorageStep, Copying, Quiet

LEMMA QuietShelves ==
    ASSUME Types, Chosen, Quiet
    PROVE  Backed(shelf') /\ inUse' = inUse
  <1>1. CASE Command
    BY <1>1, CommandLeaves, NothingStored DEF storageVars
  <1>2. CASE \E n \in BackupNames : CopyBackup(n) \/ BackupCut(n)
                                      \/ WriteBackup(n)
    BY <1>2, CopyBackupFacts, WriteBackupFacts
       DEF CopyBackup, BackupCut, WriteBackup
  <1>3. CASE \/ Stop \/ Opening \/ Tick \/ ChooseDefault
             \/ \E f \in Folders : Choose(f)
             \/ BackupsCopied \/ Point \/ ChoiceFails
             \/ UNCHANGED libVars
    <2>1. shelf' = shelf /\ inUse' = inUse
      BY <1>3 DEF Stop, Opening, Group, Stamp, OpenFails, Tick, ChooseDefault,
             Choose, BackupsCopied, Point, ChoiceFails, libVars, storageVars
    <2>2. QED
      BY <2>1, NothingStored
  <1>4. QED
    BY <1>1, <1>2, <1>3 DEF Quiet

LEMMA TypesKept == ASSUME IInv, [Next]_libVars PROVE Types'
  <1>1. /\ phase' \in {"closed", "opening", "grouped", "open", "failed"}
        /\ clock' \in 0..MaxClock
    <2>1. phase' \in {"closed", "opening", "grouped", "open", "failed"}
      BY CommandLeaves
         DEF IInv, Types, Next, Start, Open, Stop, Opening, Group, Stamp,
             OpenFails, Tick, StorageStep, ChooseDefault, Choose, CopyLibrary,
             LibraryCut, CopyBackup, BackupCut, BackupsCopied, Point,
           ChoiceFails, WriteBackup,   libraryVars, libVars
    <2>2. Tick => clock' \in 0..MaxClock
      BY LibraryBounds DEF IInv, Types, Tick
    <2>3. ~Tick => clock' = clock
      BY CommandLeaves
         DEF Next, Start, Open, Stop, Opening, Group, Stamp,
             OpenFails, StorageStep, ChooseDefault, Choose, CopyLibrary,
             LibraryCut, CopyBackup, BackupCut, BackupsCopied, Point,
           ChoiceFails, WriteBackup,   libraryVars, libVars
    <2>4. QED
      BY <2>1, <2>2, <2>3 DEF IInv, Types
  <1>2. acts' \in 0..MaxActs
    <2>1. Command => acts' \in 0..MaxActs
      BY CommandLeaves, LibraryBounds DEF IInv, Types
    <2>2. ~Command => acts' = acts
      BY DEF Next, Start, Open, Stop, Opening, Group, Stamp,
           OpenFails, Tick, StorageStep, ChooseDefault, Choose, CopyLibrary,
           LibraryCut, CopyBackup, BackupCut, BackupsCopied, Point,
           ChoiceFails, WriteBackup, libraryVars, libVars, storageVars
    <2>3. QED
      BY <2>1, <2>2 DEF IInv, Types
  <1>3. inUse' \in AllFolders
    BY StepKinds, StartFacts, QuietShelves, CopyingFacts DEF IInv, Types
  <1>4. pointer' \in AllFolders
    BY CommandLeaves
       DEF IInv, Types, Next, Start, Open, Stop, Opening, Group, Stamp,
           OpenFails, Tick, StorageStep, ChooseDefault, Choose, CopyLibrary,
           LibraryCut, CopyBackup, BackupCut, BackupsCopied, Point,
           ChoiceFails, WriteBackup, libraryVars, libVars, storageVars,
           Chosen, Step, None, AllFolders
  <1>5. /\ DOMAIN shelf' = AllFolders
        /\ \A f \in AllFolders :
              /\ DOMAIN shelf'[f] = ShelfFields
              /\ DOMAIN shelf'[f].backups \subseteq BackupNames
    <2>1. CASE \E there \in SUBSET Folders : Start(there)
      BY <2>1, StartShelves DEF IInv, Types
    <2>2. CASE Copying
      BY <2>2, CopyingFacts DEF IInv, Types
    <2>3. CASE Quiet
      BY <2>3, QuietShelves DEF IInv, Backed
    <2>4. QED
      BY <2>1, <2>2, <2>3, StepKinds
  <1>6. QED
    BY <1>1, <1>2, <1>3, <1>4, <1>5 DEF Types

-----------------------------------------------------------------------------
(* The libraries and the copies made before bulks.                         *)

(* What a step makes of the library in use and the copy beside it.         *)
LEMMA InUseKept ==
    ASSUME IInv, Quiet, Good(db')
    PROVE  Kept(db', bak') /\ Opened'
  <1>1. /\ Kept(db, bak) /\ db # NoFile /\ db.version \in {0, 1}
    <2>1. inUse \in AllFolders /\ FileIn(inUse) = db /\ CopyIn(inUse) = bak
      BY DEF IInv, Types, FileIn, CopyIn
    <2>2. QED
      BY <2>1, NotNoFile, Parts DEF IInv, Shelves, Good
  <1>2. CASE Group
    <2>1. /\ phase = "opening" /\ Good(db') /\ db'.version = db.version
          /\ IF db.version = 0 THEN phase' = "grouped" ELSE phase' = "open"
          /\ db.patch = <<>> => db' = db
          /\ db.version # 0 => db' = db
          /\ bak' = bak
      BY <1>2, GroupFacts
    <2>2. CASE db.version = 0 /\ db.patch # <<>>
      <3>1. bak # NoFile
        BY <2>1, <2>2 DEF IInv, Opened
      <3>2. QED
        BY <1>1, <2>1, <2>2, <3>1 DEF Kept, Opened
    <2>3. CASE ~(db.version = 0 /\ db.patch # <<>>)
      BY <1>1, <2>1, <2>3 DEF Kept, Opened
    <2>4. QED
      BY <2>2, <2>3
  <1>3. CASE Stamp
    <2>1. /\ db'.version = 1 /\ phase' = "open" /\ bak' = bak
      BY <1>3, StampGood DEF IInv, Stamp
    <2>2. QED
      BY <1>1, <2>1 DEF Kept, Opened
  <1>4. CASE Command
    <2>1. /\ phase = "open" /\ phase' = "open" /\ bak' = bak
          /\ db'.version = db.version
      BY <1>4, CommandLeaves, CommandChange DEF IInv, Change
    <2>2. db.version = 1
      BY <2>1 DEF IInv, Opened
    <2>3. QED
      BY <1>1, <2>1, <2>2 DEF Kept, Opened
  <1>5. CASE /\ db' = db /\ bak' = bak
             /\ phase' = phase \/ phase' \in {"closed", "failed"}
    BY <1>1, <1>5 DEF Kept, Opened, IInv
  <1>6. CASE \/ Stop \/ OpenFails \/ Tick \/ ChooseDefault
             \/ \E f \in Folders : Choose(f)
             \/ BackupsCopied \/ Point \/ ChoiceFails
             \/ \E n \in BackupNames : CopyBackup(n) \/ BackupCut(n)
                                      \/ WriteBackup(n)
             \/ UNCHANGED libVars
    BY <1>5, <1>6 DEF Stop, OpenFails, Tick, ChooseDefault, Choose,
       BackupsCopied, Point, ChoiceFails, CopyBackup, BackupCut, WriteBackup,
       libraryVars, libVars
  <1>7. QED
    BY <1>2, <1>3, <1>4, <1>6 DEF Quiet, Opening

LEMMA QuietKeeps ==
    ASSUME IInv, Quiet, Good(db')
    PROVE  Shelves' /\ Opened'
  <1>1. Kept(db', bak') /\ Opened'
    BY InUseKept
  <1>2. Backed(shelf') /\ inUse' = inUse
    BY QuietShelves DEF IInv
  <1>3. \A f \in AllFolders : f # inUse =>
           FileIn(f)' = FileIn(f) /\ CopyIn(f)' = CopyIn(f)
    BY <1>2 DEF Backed, FileIn, CopyIn
  <1>4. FileIn(inUse)' = db' /\ CopyIn(inUse)' = bak'
    BY <1>2 DEF FileIn, CopyIn
  <1>5. ASSUME NEW f \in AllFolders
        PROVE  /\ (FileIn(f) = NoFile \/ Good(FileIn(f)))'
               /\ Kept(FileIn(f), CopyIn(f))'
    <2>1. CASE f = inUse
      BY <1>1, <1>2, <2>1 DEF FileIn, CopyIn, Good
    <2>2. CASE f # inUse
      <3>1. FileIn(f)' = FileIn(f) /\ CopyIn(f)' = CopyIn(f)
        BY <1>3, <2>2
      <3>2. /\ FileIn(f) = NoFile \/ Good(FileIn(f))
            /\ Kept(FileIn(f), CopyIn(f))
        BY DEF IInv, Shelves
      <3>3. QED
        BY <3>1, <3>2 DEF Good
    <2>3. QED
      BY <2>1, <2>2
  <1>6. QED
    BY <1>1, <1>5 DEF Shelves

LEMMA CopyKeeps ==
    ASSUME IInv, Copying
    PROVE  Shelves' /\ Opened'
  <1>1. UNCHANGED <<db, phase, bak, inUse>>
    BY CopyingFacts DEF IInv
  <1>2. PICK to \in AllFolders :
        /\ to # inUse
        /\ \A g \in AllFolders : g # to => shelf'[g] = shelf[g]
        /\ shelf'[to].bak = shelf[to].bak
        /\ \/ shelf'[to].lib = shelf[to].lib
           \/ shelf'[to].lib \in {db, NewFile} /\ phase = "open"
    BY CopyingFacts DEF IInv
  <1>3. Opened'
    BY <1>1 DEF IInv, Opened
  <1>4. \A f \in AllFolders : f # to =>
           FileIn(f)' = FileIn(f) /\ CopyIn(f)' = CopyIn(f)
    BY <1>1, <1>2 DEF FileIn, CopyIn
  <1>5. /\ CopyIn(to)' = CopyIn(to)
        /\ \/ FileIn(to)' = FileIn(to)
           \/ FileIn(to)' \in {db, NewFile} /\ phase = "open"
    BY <1>1, <1>2 DEF FileIn, CopyIn
  <1>6. ASSUME NEW f \in AllFolders
        PROVE  /\ (FileIn(f) = NoFile \/ Good(FileIn(f)))'
               /\ Kept(FileIn(f), CopyIn(f))'
    <2>1. (FileIn(f) = NoFile \/ Good(FileIn(f))) /\ Kept(FileIn(f), CopyIn(f))
      BY DEF IInv, Shelves
    <2>2. CASE FileIn(f)' = FileIn(f) /\ CopyIn(f)' = CopyIn(f)
      BY <2>1, <2>2 DEF Good
    <2>3. CASE FileIn(f)' = db /\ CopyIn(f)' = CopyIn(f) /\ phase = "open"
      <3>1. Good(db) /\ db.version = 1
        BY <2>3 DEF IInv, Opened
      <3>2. Kept(db, CopyIn(f))
        BY <2>1, <3>1 DEF Kept
      <3>3. QED
        BY <2>3, <3>1, <3>2 DEF Good
    <2>4. CASE FileIn(f)' = NewFile /\ CopyIn(f)' = CopyIn(f)
      <3>1. Kept(NewFile, CopyIn(f))
        BY <2>1, NewFileGood DEF Kept
      <3>2. QED
        BY <2>4, <3>1, NewFileGood DEF Good
    <2>5. QED
      BY <1>2, <1>4, <1>5, <2>2, <2>3, <2>4
  <1>7. QED
    BY <1>3, <1>6 DEF Shelves

LEMMA StartKeeps ==
    ASSUME IInv, NEW there, Start(there)
    PROVE  Shelves' /\ Opened'
  <1>1. /\ phase' = "opening" /\ inUse' \in AllFolders
        /\ db' = Found(inUse') /\ Good(db')
        /\ bak' = IF db'.version < 1 /\ db'.patch # <<>>
                     /\ CopyIn(inUse') = NoFile
                  THEN db' ELSE CopyIn(inUse')
    BY StartFacts
  <1>2. db' # NoFile /\ db'.version \in {0, 1}
    BY <1>1, NotNoFile, Parts DEF Good
  <1>3. Kept(db', CopyIn(inUse'))
    BY <1>1, FoundGood
  <1>4. Kept(db', bak')
    BY <1>1, <1>2, <1>3 DEF Kept
  <1>5. Opened'
    BY <1>1, <1>2 DEF Opened
  <1>6. ASSUME NEW f \in AllFolders
        PROVE  /\ (FileIn(f) = NoFile \/ Good(FileIn(f)))'
               /\ Kept(FileIn(f), CopyIn(f))'
    <2>1. CASE f = inUse'
      BY <1>1, <1>4, <2>1 DEF FileIn, CopyIn, Good
    <2>2. CASE f # inUse'
      <3>1. FileIn(f)' = FileIn(f) /\ CopyIn(f)' = CopyIn(f)
        BY <2>2, StartShelves DEF FileIn, CopyIn
      <3>2. /\ FileIn(f) = NoFile \/ Good(FileIn(f))
            /\ Kept(FileIn(f), CopyIn(f))
        BY DEF IInv, Shelves
      <3>3. QED
        BY <3>1, <3>2 DEF Good
    <2>3. QED
      BY <2>1, <2>2
  <1>7. QED
    BY <1>5, <1>6 DEF Shelves

LEMMA ShelvesKept == ASSUME IInv, [Next]_libVars PROVE Shelves' /\ Opened'
  BY GoodKept, StepKinds, StartKeeps, CopyKeeps, QuietKeeps

-----------------------------------------------------------------------------
(* The choice of a folder.                                                 *)

LEMMA UnchosenChosen ==
    ASSUME choice'.step = None, DOMAIN choice' = ChoiceFields
    PROVE  Chosen'
  BY DEF Chosen, None

(* While a choice goes on, the shelves stay but for one more backup.       *)
LEMMA GoingOn ==
    ASSUME IInv, Quiet, choice' = choice, choice.step # None
    PROVE  \/ shelf' = shelf
           \/ \E n \in BackupNames : CopyBackup(n) \/ WriteBackup(n)
  <1>1. CASE Command
    BY <1>1, CommandLeaves DEF storageVars
  <1>2. CASE \E n \in BackupNames : CopyBackup(n) \/ BackupCut(n)
                                      \/ WriteBackup(n)
    <2>1. ASSUME NEW n \in BackupNames, BackupCut(n) PROVE FALSE
      BY <2>1 DEF BackupCut, NoChoice
    <2>2. QED
      BY <1>2, <2>1
  <1>3. CASE \/ Stop \/ Opening \/ Tick \/ ChooseDefault
             \/ \E f \in Folders : Choose(f)
             \/ BackupsCopied \/ Point \/ ChoiceFails
             \/ UNCHANGED libVars
    BY <1>3 DEF Stop, Opening, Group, Stamp, OpenFails, Tick, ChooseDefault,
           Choose, BackupsCopied, Point, ChoiceFails, libVars, storageVars
  <1>4. QED
    BY <1>1, <1>2, <1>3 DEF Quiet

LEMMA ListedKept ==
    ASSUME IInv, Quiet, choice' = choice, choice.step # None
    PROVE  Listed'
  <1> DEFINE to == choice.to
  <1>1. /\ to \in AllFolders /\ inUse \in AllFolders /\ Listed
        /\ Backed(shelf') /\ inUse' = inUse
    BY QuietShelves DEF IInv, Types, Chosen, None, AllFolders
  <1>2. CASE shelf' = shelf
    BY <1>1, <1>2 DEF Listed
  <1>3. ASSUME NEW n \in BackupNames, CopyBackup(n) PROVE Listed'
    <2>1. to # inUse
      BY <1>3 DEF CopyBackup, Step, IInv, Chosen
    <2>2. /\ shelf'[inUse] = shelf[inUse]
          /\ DOMAIN shelf'[to].backups = DOMAIN shelf[to].backups \cup {n}
          /\ shelf'[to].backups[n] = shelf[inUse].backups[n]
      BY <1>1, <1>3, <2>1, CopyBackupFacts DEF IInv
    <2>3. \A m \in DOMAIN shelf[to].backups :
             shelf'[to].backups[m] = shelf[to].backups[m]
      BY <1>1 DEF Backed
    <2>4. QED
      BY <1>1, <2>2, <2>3 DEF Listed
  <1>4. ASSUME NEW n \in BackupNames, WriteBackup(n) PROVE Listed'
    <2>1. \A g \in AllFolders : g # inUse => shelf'[g] = shelf[g]
      BY <1>4, WriteBackupFacts DEF IInv
    <2>2. \A m \in DOMAIN shelf[inUse].backups :
             /\ m \in DOMAIN shelf'[inUse].backups
             /\ shelf'[inUse].backups[m] = shelf[inUse].backups[m]
      BY <1>1 DEF Backed
    <2>3. CASE to = inUse
      BY <1>1, <2>2, <2>3 DEF Listed
    <2>4. CASE to # inUse
      BY <1>1, <2>1, <2>2, <2>4 DEF Listed
    <2>5. QED
      BY <2>3, <2>4
  <1>5. QED
    BY <1>2, <1>3, <1>4, GoingOn

(* The library of the folder in use has the mark once it is open.          *)
LEMMA InUseHasLibrary ==
    ASSUME Good(db), Opened, phase = "open", choice.to = inUse
    PROVE  HasLibrary
  BY NotNoFile DEF Opened, FileIn, HasLibrary

LEMMA LibraryStays ==
    ASSUME IInv, Quiet, choice' = choice, phase' = phase, phase = "open",
           choice.step \in {"backups", "point"}, Good(db'), Opened'
    PROVE  HasLibrary'
  <1>1. /\ choice.to \in AllFolders /\ HasLibrary
        /\ Backed(shelf') /\ inUse' = inUse
    BY QuietShelves DEF IInv, Chosen, None, AllFolders
  <1>2. CASE choice.to = inUse
    <2>1. FileIn(choice.to)' = db' /\ db'.version = 1 /\ db' # NoFile
      BY <1>1, <1>2, NotNoFile DEF FileIn, Opened
    <2>2. QED
      BY <2>1 DEF HasLibrary
  <1>3. CASE choice.to # inUse
    <2>1. FileIn(choice.to)' = FileIn(choice.to)
      BY <1>1, <1>3 DEF FileIn, Backed
    <2>2. QED
      BY <1>1, <2>1 DEF HasLibrary
  <1>4. QED
    BY <1>2, <1>3

LEMMA HadKept ==
    ASSUME IInv, Quiet, choice' = choice, choice.step = "library"
    PROVE  (Had(choice.to) \subseteq choice.had)'
  <1>1. /\ choice.to \in AllFolders /\ choice.to # inUse
        /\ Had(choice.to) \subseteq choice.had /\ inUse' = inUse
    BY QuietShelves DEF IInv, Chosen, None, AllFolders
  <1>2. shelf'[choice.to] = shelf[choice.to]
    <2>1. ASSUME NEW n \in BackupNames PROVE ~CopyBackup(n)
      BY DEF CopyBackup, Step
    <2>2. QED
      BY <1>1, <2>1, GoingOn, WriteBackupFacts DEF IInv, None
  <1>3. QED
    BY <1>1, <1>2 DEF Had, FileIn

LEMMA ChosenKept ==
    ASSUME IInv, [Next]_libVars, Good(db'), Opened'
    PROVE  Chosen'
  <1>1. CASE choice' = NoChoice
    BY <1>1, UnchosenChosen DEF NoChoice, ChoiceFields
  <1>2. CASE choice' = choice /\ choice.step = None
    BY <1>2, UnchosenChosen DEF IInv, Chosen
  <1>3. CASE Quiet /\ choice' = choice /\ phase' = phase /\ choice.step # None
    <2>1. inUse' = inUse /\ Backed(shelf') /\ choice.to \in AllFolders
      BY <1>3, QuietShelves DEF IInv, Chosen, AllFolders
    <2>2. Listed'
      BY <1>3, ListedKept
    <2>3. choice.step = "library" => (Had(choice.to) \subseteq choice.had)'
      BY <1>3, HadKept
    <2>4. choice.step \in {"backups", "point"} /\ phase = "open" => HasLibrary'
      BY <1>3, LibraryStays
    <2>5. choice.step = "point" =>
             choice.names \subseteq DOMAIN shelf'[choice.to].backups
      BY <2>1 DEF IInv, Chosen, Backed
    <2>6. QED
      BY <1>3, <2>1, <2>2, <2>3, <2>4, <2>5 DEF IInv, Chosen
  <1>4. ASSUME NEW f \in Folders, Choose(f) PROVE Chosen'
    <2>1. /\ UNCHANGED <<db, phase, inUse, shelf>>
          /\ phase \in {"open", "failed"}
          /\ choice' = [NoChoice EXCEPT !.to = f, !.had = Had(f),
                          !.step = IF f = inUse THEN "point" ELSE "library"]
      BY <1>4 DEF Choose, Step, Running, libraryVars
    <2>2. /\ choice'.to = f /\ choice'.names = {} /\ choice'.had = Had(f)
          /\ DOMAIN choice' = ChoiceFields
          /\ choice'.step = IF f = inUse THEN "point" ELSE "library"
      BY <2>1 DEF NoChoice, ChoiceFields
    <2>3. Listed'
      BY <2>2 DEF Listed
    <2>4. (Had(choice.to) \subseteq choice.had)'
      BY <2>1, <2>2 DEF Had, FileIn
    <2>5. f = inUse /\ phase = "open" => HasLibrary'
      <3>1. ASSUME f = inUse, phase = "open" PROVE HasLibrary'
        <4>1. db.version = 1 /\ db # NoFile
          BY <3>1, NotNoFile DEF IInv, Opened
        <4>2. FileIn(choice.to)' = db
          BY <2>1, <2>2, <3>1 DEF FileIn
        <4>3. QED
          BY <4>1, <4>2 DEF HasLibrary
      <3>2. QED
        BY <3>1
    <2>6. QED
      BY <2>1, <2>2, <2>3, <2>4, <2>5 DEF Chosen, None
  <1>5. CASE CopyLibrary
    <2> DEFINE to == choice.to
    <2>1. /\ UNCHANGED <<db, phase, inUse>> /\ phase \in {"open", "failed"}
          /\ choice.step = "library"
          /\ to \in AllFolders /\ to \in Folders /\ to # inUse
          /\ inUse \in AllFolders
          /\ \A g \in AllFolders : g # to => shelf'[g] = shelf[g]
          /\ shelf'[to].backups = shelf[to].backups
          /\ phase = "open" =>
               \/ shelf'[to].lib = shelf[to].lib /\ shelf[to].lib # NoFile
               \/ shelf'[to].lib = db
      BY <1>5, CopyingFacts DEF IInv, Copying, Types
    <2>2. /\ choice'.step = "backups" /\ choice'.to = to
          /\ choice'.had = choice.had
          /\ choice'.names = DOMAIN shelf[inUse].backups
          /\ DOMAIN choice' = ChoiceFields
      <3>1. choice' = [choice EXCEPT !.step = "backups",
                         !.names = DOMAIN shelf[inUse].backups]
        BY <1>5 DEF CopyLibrary
      <3>2. DOMAIN choice = ChoiceFields
        BY DEF IInv, Chosen
      <3>3. QED
        BY <3>1, <3>2 DEF ChoiceFields
    <2>3. Had(to) \subseteq choice.had
      BY <2>1 DEF IInv, Chosen
    <2>4. Listed'
      BY <2>1, <2>2, <2>3 DEF Listed, Had
    <2>5. phase = "open" => HasLibrary'
      <3>1. ASSUME phase = "open" PROVE HasLibrary'
        <4>1. FileIn(choice.to)' = shelf'[to].lib
          BY <2>1, <2>2 DEF FileIn
        <4>2. CASE shelf'[to].lib = shelf[to].lib /\ shelf[to].lib # NoFile
          <5>1. LibraryFile \in choice.had
            BY <2>1, <2>3, <4>2 DEF Had, FileIn
          <5>2. FileIn(choice.to)' # NoFile
            BY <4>1, <4>2
          <5>3. QED
            BY <2>2, <5>1, <5>2 DEF HasLibrary
        <4>3. CASE shelf'[to].lib = db
          <5>1. db.version = 1 /\ db # NoFile
            BY <3>1, NotNoFile DEF IInv, Opened
          <5>2. FileIn(choice.to)' = db
            BY <4>1, <4>3
          <5>3. QED
            BY <5>1, <5>2 DEF HasLibrary
        <4>4. QED
          BY <2>1, <3>1, <4>2, <4>3
      <3>2. QED
        BY <3>1
    <2>6. QED
      BY <2>1, <2>2, <2>4, <2>5 DEF Chosen, None
  <1>6. CASE BackupsCopied
    <2>1. /\ UNCHANGED <<db, phase, inUse, shelf>>
          /\ phase \in {"open", "failed"}
          /\ choice.step = "backups"
          /\ choice.names \subseteq DOMAIN shelf[choice.to].backups
          /\ choice' = [choice EXCEPT !.step = "point"]
      BY <1>6 DEF BackupsCopied, Step, Running, libraryVars
    <2>2. /\ choice'.step = "point" /\ choice'.to = choice.to
          /\ choice'.names = choice.names /\ choice'.had = choice.had
          /\ DOMAIN choice' = ChoiceFields
      BY <2>1 DEF IInv, Chosen, ChoiceFields
    <2>3. Listed'
      BY <2>1, <2>2 DEF IInv, Chosen, Listed, None
    <2>4. phase = "open" => HasLibrary'
      BY <2>1, <2>2 DEF IInv, Chosen, HasLibrary, FileIn
    <2>5. QED
      BY <2>1, <2>2, <2>3, <2>4 DEF IInv, Chosen, None
  <1>7. CASE \/ Stop \/ Point \/ ChoiceFails \/ LibraryCut
             \/ \E n \in BackupNames : BackupCut(n)
    BY <1>1, <1>7 DEF Stop, Point, ChoiceFails, LibraryCut, BackupCut
  <1>8. CASE (\E there \in SUBSET Folders : Start(there)) \/ Opening
    <2>1. choice' = choice /\ phase \in {"closed", "opening", "grouped"}
      BY <1>8 DEF Start, Open, Opening, Group, Stamp, OpenFails, storageVars
    <2>2. choice.step = None
      BY <2>1 DEF IInv, Chosen
    <2>3. QED
      BY <1>2, <2>1, <2>2
  <1>9. CASE Command \/ Tick \/ ChooseDefault \/ UNCHANGED libVars
             \/ \E n \in BackupNames : CopyBackup(n) \/ WriteBackup(n)
    <2>1. choice' = choice /\ phase' = phase
      BY <1>9, CommandLeaves
         DEF Tick, ChooseDefault, CopyBackup, WriteBackup, libraryVars,
             storageVars, libVars
    <2>2. QED
      BY <1>2, <1>3, <1>9, <2>1 DEF Quiet
  <1>10. QED
    BY <1>4, <1>5, <1>6, <1>7, <1>8, <1>9, StepKinds DEF Quiet, Copying

-----------------------------------------------------------------------------
(* The theorems.                                                           *)

(* The invariant holds in every state.                                     *)
THEOREM Inductive == Spec => []IInv
  <1>1. Init => IInv
    BY InitGood
  <1>2. IInv /\ [Next]_libVars => IInv'
    <2>1. ASSUME IInv, [Next]_libVars PROVE IInv'
      <3>1. Good(db')
        BY <2>1, GoodKept
      <3>2. Types' /\ Shelves' /\ Opened'
        BY <2>1, TypesKept, ShelvesKept
      <3>3. Chosen'
        BY <2>1, <3>1, <3>2, ChosenKept
      <3>4. QED
        BY <3>1, <3>2, <3>3 DEF IInv, Good
    <2>2. QED
      BY <2>1
  <1>3. QED
    BY <1>1, <1>2, PTL DEF Spec

(* The tables hold what they may and the times are within their bounds.    *)
THEOREM TypeCorrect == Spec => []TypeOK
  <1>1. IInv => TypeOK
    BY DEF IInv, Good, Types, TypeOK
  <1>2. QED
    BY <1>1, Inductive, PTL

(* Whatever is added, imported, saved, renamed or grouped, no two stored   *)
(* patches have the same bytes.                                            *)
THEOREM NothingTwice == Spec => []StoredOnce
  <1>1. IInv => StoredOnce
    BY DEF IInv, Good, StoredOnce
  <1>2. QED
    BY <1>1, Inductive, PTL

(* A library made before bulks is kept as it was first, however often its  *)
(* grouping is cut short.                                                  *)
THEOREM KeepsTheOriginal == Spec => []OriginalIsKept
  <1>1. IInv => OriginalIsKept
    <2>1. ASSUME IInv PROVE OriginalIsKept
      <3>1. inUse \in AllFolders /\ FileIn(inUse) = db /\ CopyIn(inUse) = bak
        BY <2>1 DEF IInv, Types, FileIn, CopyIn
      <3>2. QED
        BY <2>1, <3>1 DEF IInv, Shelves, OriginalIsKept
    <2>2. QED
      BY <2>1
  <1>2. QED
    BY <1>1, Inductive, PTL

-----------------------------------------------------------------------------
(* What a step never does.                                                 *)

(* A step that is no start and no copy leaves the files of folders not in  *)
(* use, and that of the folder in use while nothing is open.               *)
LEMMA QuietOverwritesNothing ==
    ASSUME IInv, Quiet, NEW f \in AllFolders, f # inUse \/ phase = "closed"
    PROVE  FileIn(f)' = FileIn(f)
  <1>1. Backed(shelf') /\ inUse' = inUse
    BY QuietShelves DEF IInv
  <1>2. CASE f # inUse
    BY <1>1, <1>2 DEF Backed, FileIn
  <1>3. CASE phase = "closed"
    <2>1. choice.step = None
      BY <1>3 DEF IInv, Chosen
    <2>2. db' = db
      BY <1>3, <2>1, CommandLeaves
         DEF Quiet, Stop, Opening, Group, Stamp, OpenFails, Tick,
             ChooseDefault, Choose, BackupsCopied, Point, ChoiceFails,
             CopyBackup, BackupCut, WriteBackup, Step, Running,
             libraryVars, libVars
    <2>3. QED
      BY <1>1, <2>2 DEF Backed, FileIn
  <1>4. QED
    BY <1>2, <1>3

(* "Choosing a folder never deletes or overwrites anything" (storage.rs:3).*)
THEOREM OverwritesNothing == Spec => NothingOverwritten
  <1>1. ASSUME IInv, [Next]_libVars
        PROVE  [/\ \A f \in AllFolders :
                     FileIn(f) # NoFile /\ (f # inUse \/ phase = "closed") =>
                       FileIn(f)' = FileIn(f)
                /\ \A f \in AllFolders : \A n \in DOMAIN shelf[f].backups :
                     /\ n \in DOMAIN shelf'[f].backups
                     /\ shelf'[f].backups[n] = shelf[f].backups[n]]_libVars
    <2>1. ASSUME NEW f \in AllFolders, FileIn(f) # NoFile,
                 f # inUse \/ phase = "closed"
          PROVE  FileIn(f)' = FileIn(f)
      <3>1. CASE \E there \in SUBSET Folders : Start(there)
        <4>1. db' = Found(inUse') /\ shelf'[f].lib = FileIn(f)
          BY <1>1, <3>1, StartFacts, StartShelves
        <4>2. QED
          BY <2>1, <4>1 DEF FileIn, Found
      <3>2. CASE Copying
        <4>1. /\ UNCHANGED <<db, inUse>> /\ phase \in {"open", "failed"}
              /\ choice.to # inUse
              /\ \A g \in AllFolders : g # choice.to => shelf'[g] = shelf[g]
              /\ \/ shelf'[choice.to].lib = shelf[choice.to].lib
                 \/ shelf[choice.to].lib = NoFile
          BY <1>1, <3>2, CopyingFacts DEF IInv
        <4>2. QED
          BY <2>1, <4>1 DEF FileIn
      <3>3. CASE Quiet
        BY <1>1, <2>1, <3>3, QuietOverwritesNothing
      <3>4. QED
        BY <1>1, <3>1, <3>2, <3>3, StepKinds
    <2>2. ASSUME NEW f \in AllFolders, NEW n \in DOMAIN shelf[f].backups
          PROVE  /\ n \in DOMAIN shelf'[f].backups
                 /\ shelf'[f].backups[n] = shelf[f].backups[n]
      <3>1. CASE \E there \in SUBSET Folders : Start(there)
        BY <1>1, <2>2, <3>1, StartShelves
      <3>2. CASE Copying
        BY <1>1, <2>2, <3>2, CopyingFacts DEF IInv
      <3>3. CASE Quiet
        BY <1>1, <2>2, <3>3, QuietShelves DEF IInv, Backed
      <3>4. QED
        BY <1>1, <3>1, <3>2, <3>3, StepKinds
    <2>3. QED
      BY <2>1, <2>2
  <1>2. QED
    BY <1>1, Inductive, PTL DEF Spec, NothingOverwritten

(* The pointer is moved to a folder that holds a whole library, and under  *)
(* the name of every backup to be copied the same file as the folder in    *)
(* use, unless it had a file of that name when the choice began.           *)
THEOREM PointsWhereItIsReady == Spec => PointedIsReady
  <1>1. ASSUME IInv, [Next]_libVars
        PROVE  [pointer' \notin {pointer, Default} =>
                  /\ phase = "open" =>
                       /\ FileIn(pointer') # NoFile
                       /\ \/ LibraryFile \in choice.had
                          \/ FileIn(pointer').version = 1
                  /\ \A n \in choice.names :
                       /\ n \in DOMAIN shelf[pointer'].backups
                       /\ \/ n \in choice.had
                          \/ shelf[pointer'].backups[n]
                               = shelf[inUse].backups[n]]_libVars
    <2>1. CASE pointer' \notin {pointer, Default}
      <3>1. Point
        BY <1>1, <2>1, CommandLeaves
           DEF Next, Start, Open, Stop, Opening, Group, Stamp, OpenFails, Tick,
               StorageStep, ChooseDefault, Choose, CopyLibrary, LibraryCut,
               CopyBackup, BackupCut, BackupsCopied, ChoiceFails, WriteBackup,
               libVars, storageVars
      <3>2. pointer' = choice.to /\ choice.step = "point"
        BY <3>1 DEF Point, Step
      <3>3. /\ phase = "open" => HasLibrary
            /\ Listed /\ choice.names \subseteq DOMAIN shelf[choice.to].backups
        BY <1>1, <3>2 DEF IInv, Chosen, None
      <3>4. QED
        BY <3>2, <3>3 DEF HasLibrary, Listed
    <2>2. QED
      BY <2>1
  <1>2. QED
    BY <1>1, Inductive, PTL DEF Spec, PointedIsReady

-----------------------------------------------------------------------------
(* What the commands promise.                                              *)

(* A step with an open library that is no command leaves the library.      *)
LEMMA OnlyCommands ==
    ASSUME [Next]_libVars, phase = "open", ~Command
    PROVE  db' = db
  BY DEF Next, Start, Open, Stop, Opening, Group, Stamp, OpenFails, Tick,
         StorageStep, ChooseDefault, Choose, CopyLibrary, LibraryCut,
             CopyBackup, BackupCut,
         BackupsCopied, Point, ChoiceFails, WriteBackup, libraryVars, libVars

(* A command that stores no bank says so.                                  *)
LEMMA CommandStores ==
    ASSUME Command, meant' # Nothing
    PROVE  \/ \E file \in Banks, s \in Bases : ImportSyx(file, s)
           \/ \E bank \in Banks, b \in {0} \cup BulkIds, name \in Typed :
                SaveBulk(b, name, bank)
  BY DEF Command, PatchCommand, WholeBulkCommand, PlaceCommand, command,
         with_library, AddPatch, SetFavourite, AddTag, RemoveTag, Rename,
         Delete, RenameBulk, DuplicateBulk, DeleteBulk,
         BulkPlace, BulkAppend, BulkClear, BulkSwap, BulkMove, Restore

(* A bank saved or a file imported is in the library whole or not at all.  *)
THEOREM StoresWhole == Spec => WholeOrNotAtAll
  <1>1. ASSUME IInv, [Next]_libVars
        PROVE  [meant' # Nothing /\ phase = "open" =>
                  \/ db' = db
                  \/ \E c \in DOMAIN db'.bulk :
                       /\ IF meant'.bulk = 0 THEN c \notin DOMAIN db.bulk
                                             ELSE c = meant'.bulk
                       /\ meant'.name \in {<<>>, db'.bulk[c].name}
                       /\ bulk_blocks(db', c) = meant'.bank]_libVars
    <2>1. clock \in Nat /\ \A bank \in Banks : Bank(bank)
      BY <1>1, LibraryBounds, BanksAssumption DEF IInv, Types, Bank
    <2>2. ASSUME meant' # Nothing, phase = "open"
          PROVE  Whole(db, db', meant'.bulk, meant'.name, meant'.bank)
      <3>1. CASE ~Command
        BY <1>1, <2>2, <3>1, OnlyCommands DEF Whole
      <3>2. ASSUME NEW file \in Banks, NEW s \in Bases, ImportSyx(file, s)
            PROVE  Whole(db, db', meant'.bulk, meant'.name, meant'.bank)
        <4>1. /\ db' = import_syx(db, file, s).db
              /\ meant'.bulk = 0 /\ meant'.name = <<>> /\ meant'.bank = file
          BY <3>2 DEF ImportSyx, command
        <4>2. Whole(db, import_syx(db, file, s).db, 0, <<>>, file)
          BY <1>1, <2>1, import_syxFacts DEF IInv
        <4>3. QED
          BY <4>1, <4>2
      <3>3. ASSUME NEW bank \in Banks, NEW b, NEW name, SaveBulk(b, name, bank)
            PROVE  Whole(db, db', meant'.bulk, meant'.name, meant'.bank)
        <4>1. /\ db' = save_bulk(db, b, name, bank, clock).db
              /\ meant'.bulk = b /\ meant'.name = name /\ meant'.bank = bank
          BY <3>3 DEF SaveBulk, command
        <4>2. Whole(db, save_bulk(db, b, name, bank, clock).db, b, name, bank)
          BY <1>1, <2>1, save_bulkFacts DEF IInv
        <4>3. QED
          BY <4>1, <4>2
      <3>4. QED
        BY <2>2, <3>1, <3>2, <3>3, CommandStores
    <2>3. QED
      BY <2>2 DEF Whole
  <1>2. QED
    BY <1>1, Inductive, PTL DEF Spec, WholeOrNotAtAll

(* What a bulk held before a change is its newest version after it.        *)
THEOREM KeepsWhatWasThere == Spec => ChangesAreKept
  <1>1. ASSUME IInv, [Next]_libVars
        PROVE  [\A b \in DOMAIN db.bulk \cap DOMAIN db'.bulk :
                  LET was == db.bulk[b].slots
                      vs  == Versions(db, b)
                      is  == Versions(db', b)
                      wholeBulk ==
                        \/ \E v \in DOMAIN vs : Restore(b, v)
                        \/ \E name \in Typed, bank \in Banks :
                             SaveBulk(b, name, bank)
                  IN phase = "open" /\ db'.bulk[b].slots # was =>
                       \/ DOMAIN was = {}
                       \/ is # <<>> /\ Newest(is).slots = was
                       \/ DOMAIN db.patch \ DOMAIN db'.patch # {}
                       \/ /\ vs # <<>> /\ clock - Newest(vs).at < THROTTLE
                          /\ ~wholeBulk]_libVars
    <2>1. clock \in Nat /\ \A bank \in Banks : Bank(bank)
      BY <1>1, LibraryBounds, BanksAssumption DEF IInv, Types, Bank
    <2>2. ASSUME NEW b \in DOMAIN db.bulk \cap DOMAIN db'.bulk,
                 phase = "open", db'.bulk[b].slots # db.bulk[b].slots,
                 DOMAIN db.patch \ DOMAIN db'.patch = {}
          PROVE  /\ KeptBefore(db, db', b, clock, FALSE)
                 /\ \A v : Restore(b, v) => KeptBefore(db, db', b, clock, TRUE)
                 /\ \A name : \A bank \in Banks :
                      SaveBulk(b, name, bank) =>
                        KeptBefore(db, db', b, clock, TRUE)
      <3>1. Command
        BY <1>1, <2>2, OnlyCommands
      <3>2. Change(db, db', clock, FALSE)
        BY <1>1, <3>1, CommandChange DEF IInv
      <3>3. ASSUME NEW v, Restore(b, v) PROVE Change(db, db', clock, TRUE)
        BY <1>1, <2>1, <3>3, restore_revisionChange
           DEF IInv, Restore, with_library, command
      <3>4. ASSUME NEW name, NEW bank \in Banks, SaveBulk(b, name, bank)
            PROVE  Change(db, db', clock, TRUE)
        BY <1>1, <2>1, <3>4, save_bulkFacts DEF IInv, SaveBulk, command
      <3>5. Change(db, db', clock, TRUE) => KeptBefore(db, db', b, clock, TRUE)
        BY <2>2 DEF Change
      <3>6. KeptBefore(db, db', b, clock, FALSE)
        BY <2>2, <3>2 DEF Change
      <3>7. QED
        BY <3>3, <3>4, <3>5, <3>6
    <2>3. ASSUME NEW b \in DOMAIN db.bulk \cap DOMAIN db'.bulk
          PROVE  LET was == db.bulk[b].slots
                     vs  == Versions(db, b)
                     is  == Versions(db', b)
                     wholeBulk ==
                       \/ \E v \in DOMAIN vs : Restore(b, v)
                       \/ \E name \in Typed, bank \in Banks :
                            SaveBulk(b, name, bank)
                 IN phase = "open" /\ db'.bulk[b].slots # was =>
                      \/ DOMAIN was = {}
                      \/ is # <<>> /\ Newest(is).slots = was
                      \/ DOMAIN db.patch \ DOMAIN db'.patch # {}
                      \/ /\ vs # <<>> /\ clock - Newest(vs).at < THROTTLE
                         /\ ~wholeBulk
      <3> DEFINE wholeBulk ==
                   \/ \E v \in DOMAIN Versions(db, b) : Restore(b, v)
                   \/ \E name \in Typed, bank \in Banks :
                        SaveBulk(b, name, bank)
      <3>1. ASSUME phase = "open", db'.bulk[b].slots # db.bulk[b].slots,
                   DOMAIN db.patch \ DOMAIN db'.patch = {}
            PROVE  /\ KeptBefore(db, db', b, clock, FALSE)
                   /\ wholeBulk => KeptBefore(db, db', b, clock, TRUE)
        BY <2>2, <3>1
      <3> HIDE DEF wholeBulk
      <3>2. phase = "open" /\ db'.bulk[b].slots # db.bulk[b].slots =>
              \/ DOMAIN db.bulk[b].slots = {}
              \/ /\ Versions(db', b) # <<>>
                 /\ Newest(Versions(db', b)).slots = db.bulk[b].slots
              \/ DOMAIN db.patch \ DOMAIN db'.patch # {}
              \/ /\ Versions(db, b) # <<>>
                 /\ clock - Newest(Versions(db, b)).at < THROTTLE
                 /\ ~wholeBulk
        BY <3>1 DEF KeptBefore, Versions
      <3>3. QED
        BY <3>2, Zenon DEF wholeBulk
    <2>4. QED
      BY <2>3, Zenon
  <1>2. QED
    BY <1>1, Inductive, PTL DEF Spec, ChangesAreKept

(* Deleting a bulk leaves every other bulk and every marked patch.         *)
THEOREM DeletesNoOthers == Spec => DeletesOnlyItsOwn
  <1>1. ASSUME IInv, [Next]_libVars
        PROVE  [\A b \in BulkIds :
                  DeleteBulk(b) =>
                    /\ \A c \in DOMAIN db.bulk \ {b} :
                         c \in DOMAIN db'.bulk /\ db'.bulk[c] = db.bulk[c]
                    /\ \A i \in DOMAIN db.patch \ DOMAIN db'.patch :
                         ~db.patch[i].favourite /\ db.patch[i].tags = {}]_libVars
    <2>1. ASSUME NEW b \in BulkIds, DeleteBulk(b)
          PROVE  OnlyItsOwn(db, db', b)
      BY <1>1, <2>1, delete_bulkChange
         DEF IInv, DeleteBulk, with_library, command
    <2>2. QED
      BY <2>1 DEF OnlyItsOwn
  <1>2. QED
    BY <1>1, Inductive, PTL DEF Spec, DeletesOnlyItsOwn
=============================================================================
