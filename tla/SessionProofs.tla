--------------------------- MODULE SessionProofs ----------------------------
(***************************************************************************)
(* Proofs about Session, for any parameter map, any documents, a history   *)
(* of any length and messages of any size: UndoReturns, InstrumentFollows  *)
(* and SameThroughMidi.                                                    *)
(*                                                                         *)
(* The history is of bytes, so it leads back to the document only because  *)
(* a snapshot is cut into the blocks it was made of (RoundTrip), which     *)
(* takes that every document is whole (IsDocument), those read from files  *)
(* as well as those edited.                                                *)
(*                                                                         *)
(* The instrument holds the document because a message that was framed is  *)
(* read back as it was (ReadBack), every byte of a block has a place of    *)
(* its own in temporary memory (PlaceFacts, Apart), a frame of the         *)
(* document carries only bytes of one block to their places, so that the   *)
(* backend lets it through and it spoils no byte that was right (FrameOf,  *)
(* HearFrame), and the frames that are sent, cut or not, cover every byte  *)
(* that was not right before (PatchFrames, CutFrames, ParamFrame).         *)
(*                                                                         *)
(* A MIDI file is read as it was saved because every track stays one that  *)
(* holds messages whole or in two parts (Track), what a sequencer does     *)
(* leaves what the track yields (EventSplit, EventAdded, CutTrack), and    *)
(* the reader gives just that (ReadTrack).                                 *)
(***************************************************************************)
EXTENDS Session, SequenceTheorems, FiniteSetTheorems, WellFoundedInduction,
        TLAPS

(* A snapshot of a document of that kind.                                  *)
StartAfter(k, i) == StartOf(k, i) + DefOf(k, i).size
Whole(k)         == StartAfter(k, 1 + items(k))
IsSnapshot(k, b) == IsBytes(b, Whole(k))
IsEntry(k, e)    == IsSnapshot(k, e.before) /\ IsSnapshot(k, e.after)

(* The entries, and how many of them are in the document.                  *)
IsHistory(k, h) ==
    /\ h = [items |-> h.items, applied |-> h.applied]
    /\ h.items \in Seq(ToSet(h.items))
    /\ \A n \in DOMAIN h.items : IsEntry(k, h.items[n])

(* They are a chain that passes through a state.                           *)
Chain(h, here) ==
    /\ h.applied \in 0..Len(h.items)
    /\ h.applied > 0 => h.items[h.applied].after = here
    /\ h.applied < Len(h.items) => h.items[h.applied + 1].before = here
    /\ \A n \in 2..Len(h.items) : h.items[n].before = h.items[n - 1].after

Here == IF group = <<>> THEN to_block_bytes(doc) ELSE group

IInv ==
    /\ IsDocument(doc)
    /\ group = <<>> \/ IsSnapshot(kind, group)
    /\ IsHistory(kind, history)
    /\ Chain(history, Here)

-----------------------------------------------------------------------------
(* Numbers.                                                                *)

(* A set of numbers has a least one.                                       *)
LEMMA LeastNumber ==
    ASSUME NEW T \in SUBSET Nat, T # {}
    PROVE  \E n \in T : \A m \in T : n <= m
  <1> DEFINE U == {0..(n - 1) : n \in T}
  <1>1. \A n \in Nat : IsFiniteSet(0..(n - 1))
    BY FS_Interval
  <1>2. U \subseteq FiniteSubsetsOf(Nat) /\ U # {}
    <2>1. ASSUME NEW n \in T PROVE 0..(n - 1) \in FiniteSubsetsOf(Nat)
      BY <1>1, <2>1 DEF FiniteSubsetsOf
    <2>2. QED
      BY <2>1
  <1>3. \E x \in U : \A y \in U : ~(<<y, x>> \in StrictSubsetOrdering(Nat))
    BY <1>2, FS_StrictSubsetOrderingWellFounded, WFMin
  <1>4. PICK n \in T : \A m \in T :
           <<0..(m - 1), 0..(n - 1)>> \notin StrictSubsetOrdering(Nat)
    BY <1>3
  <1>5. ASSUME NEW m \in T, m < n PROVE FALSE
    <2>1. /\ 0..(m - 1) \in FiniteSubsetsOf(Nat)
          /\ 0..(n - 1) \in FiniteSubsetsOf(Nat)
      BY <1>2
    <2>2. m \in 0..(n - 1) /\ m \notin 0..(m - 1)
      BY <1>5
    <2>3. 0..(m - 1) \subseteq 0..(n - 1) /\ 0..(m - 1) # 0..(n - 1)
      BY <2>2, <1>5
    <2>4. <<0..(m - 1), 0..(n - 1)>> \in StrictSubsetOrdering(Nat)
      BY <2>1, <2>3 DEF StrictSubsetOrdering, FiniteSubsetsOf
    <2>5. QED
      BY <1>4, <1>5, <2>4
  <1>6. QED
    BY <1>5
LEMMA MaxOfTwo ==
    ASSUME NEW a \in Int, NEW b \in Int
    PROVE  Max({a, b}) = IF a >= b THEN a ELSE b
  <1> DEFINE m == IF a >= b THEN a ELSE b
  <1>1. m \in {a, b} /\ \A y \in {a, b} : m >= y
    OBVIOUS
  <1>2. \A x \in {a, b} : (\A y \in {a, b} : x >= y) => x = m
    OBVIOUS
  <1> HIDE DEF m
  <1>3. Max({a, b}) = m
    BY <1>1, <1>2 DEF Max
  <1>4. QED
    BY <1>3 DEF m

-----------------------------------------------------------------------------
(* Where a block begins.                                                   *)

Starting(k, n, f) ==
    f = [j \in 1..n |-> IF j = 1 THEN 0 ELSE f[j - 1] + DefOf(k, j - 1).size]

(* What the map has of a kind.                                             *)
LEMMA LayoutFacts ==
    ASSUME NEW k \in Kinds
    PROVE  /\ items(k) \in Nat
           /\ DOMAIN layout(k) = 1..(1 + items(k))
           /\ \A i \in 1..(1 + items(k)) : DefOf(k, i).size \in Nat
  <1>1. /\ MAP[k].items \in Nat
        /\ MAP[k].common.size \in Nat /\ MAP[k].item.size \in Nat
    <2>1. /\ MAP[k].items \in Nat
          /\ validate_block(MAP[k].common) /\ validate_block(MAP[k].item)
      BY MapAssumption
    <2>2. /\ MAP[k].common.size \in 0..MAX_BLOCK_SIZE
          /\ MAP[k].item.size \in 0..MAX_BLOCK_SIZE
      BY <2>1 DEF validate_block
    <2>3. 0..MAX_BLOCK_SIZE \subseteq Nat
      BY DEF MAX_BLOCK_SIZE
    <2>4. QED
      BY <2>1, <2>2, <2>3
  <1>2. \A i \in 1..(1 + items(k)) :
           DefOf(k, i) \in {MAP[k].common, MAP[k].item}
    BY DEF layout, DefOf
  <1>3. DOMAIN layout(k) = 1..(1 + items(k))
    BY DEF layout
  <1>4. QED
    BY <1>1, <1>2, <1>3 DEF items

(* The beginnings can be counted up, one block after the other.            *)
LEMMA StartsExist ==
    ASSUME NEW k, NEW N \in Nat
    PROVE  \E f : Starting(k, N, f)
  <1> DEFINE T == {m \in Nat : ~\E f : Starting(k, m, f)}
  <1>1. ASSUME T # {} PROVE FALSE
    <2>1. PICK m \in T : \A n \in T : m <= n
      BY <1>1, LeastNumber
    <2>2. m \in Nat /\ ~\E f : Starting(k, m, f)
      OBVIOUS
    <2>3. CASE m = 0
      <3> DEFINE f == [j \in 1..0 |-> 0]
      <3>1. Starting(k, 0, f)
        BY DEF Starting
      <3>2. QED
        BY <2>2, <2>3, <3>1
    <2>4. CASE m # 0
      <3>1. m - 1 \in Nat /\ ~(m <= m - 1)
        BY <2>2, <2>4
      <3>2. PICK f : Starting(k, m - 1, f)
        BY <2>1, <3>1
      <3> DEFINE last == IF m = 1 THEN 0 ELSE f[m - 1] + DefOf(k, m - 1).size
                 h == [j \in 1..m |-> IF j = m THEN last ELSE f[j]]
      <3>3. \A j \in 1..(m - 1) :
               f[j] = IF j = 1 THEN 0 ELSE f[j - 1] + DefOf(k, j - 1).size
        BY <3>2 DEF Starting
      <3>4. \A j \in 1..m : j # 1 => h[j - 1] = f[j - 1]
        BY <2>2
      <3>5. \A j \in 1..m :
               h[j] = IF j = 1 THEN 0 ELSE h[j - 1] + DefOf(k, j - 1).size
        <4>1. h[m] = last /\ \A j \in 1..m : j # m => h[j] = f[j]
          BY <2>2, <2>4
        <4>2. \A j \in 1..m : j # m => j \in 1..(m - 1)
          BY <2>2
        <4> HIDE DEF h
        <4>3. QED
          BY <2>2, <2>4, <3>3, <3>4, <4>1, <4>2
      <3>6. h = [j \in 1..m |-> h[j]]
        OBVIOUS
      <3> HIDE DEF h
      <3>7. Starting(k, m, h)
        BY <3>5, <3>6 DEF Starting
      <3>8. QED
        BY <2>2, <3>7
    <2>5. QED
      BY <2>3, <2>4
  <1>2. QED
    BY <1>1

(* Each block begins where the one before it ends.                         *)
LEMMA StartFacts ==
    ASSUME NEW k \in Kinds
    PROVE  /\ StartOf(k, 1) = 0
           /\ \A i \in 2..(1 + items(k)) : StartOf(k, i) = StartAfter(k, i - 1)
           /\ \A i \in 1..(1 + items(k)) : /\ StartOf(k, i) \in Nat
                                           /\ StartAfter(k, i) \in Nat
                                           /\ StartOf(k, i) <= StartAfter(k, i)
  <1> DEFINE N == 1 + items(k)
             f == CHOOSE f : Starting(k, N, f)
  <1>1. N \in Nat /\ N >= 1 /\ DOMAIN layout(k) = 1..N
        /\ \A i \in 1..N : DefOf(k, i).size \in Nat
    BY LayoutFacts
  <1> HIDE DEF N
  <1>2. Starting(k, N, f)
    BY <1>1, StartsExist
  <1>3. \A i \in 1..N : StartOf(k, i) = f[i]
    BY <1>1 DEF StartOf, Starting
  <1> HIDE DEF f
  <1>4. \A i \in 1..N :
           f[i] = IF i = 1 THEN 0 ELSE f[i - 1] + DefOf(k, i - 1).size
    BY <1>2 DEF Starting
  <1> DEFINE T == {i \in 1..N : f[i] \notin Nat}
  <1>5. ASSUME T # {} PROVE FALSE
    <2>0. T \in SUBSET Nat
      BY <1>1
    <2>1. PICK m \in T : \A n \in T : m <= n
      BY <1>5, <2>0, LeastNumber
    <2>2. CASE m = 1
      BY <1>4, <2>1, <2>2
    <2>3. CASE m # 1
      <3>1. m \in 1..N /\ m - 1 \in 1..N /\ ~(m <= m - 1)
        BY <2>3, <1>1
      <3>2. f[m - 1] \in Nat
        BY <2>1, <3>1
      <3>3. f[m] = f[m - 1] + DefOf(k, m - 1).size
        BY <1>4, <2>3, <3>1
      <3>4. f[m] \in Nat
        BY <1>1, <3>1, <3>2, <3>3
      <3>5. QED
        BY <3>4
    <2>4. QED
      BY <2>2, <2>3
  <1>6. \A i \in 1..N : f[i] \in Nat
    BY <1>5
  <1>7. QED
    BY SMTT(30), <1>1, <1>3, <1>4, <1>6 DEF StartAfter, N

(* A block ends where the last one does, or before.                        *)
LEMMA EndsWithin ==
    ASSUME NEW k \in Kinds, NEW i \in 1..(1 + items(k))
    PROVE  StartAfter(k, i) <= Whole(k)
  <1> DEFINE N == 1 + items(k)
             T == {n \in 0..(N - i) : StartAfter(k, i) > StartAfter(k, i + n)}
  <1>1. items(k) \in Nat
    BY LayoutFacts
  <1>2. ASSUME T # {} PROVE FALSE
    <2>0. T \in SUBSET Nat
      BY <1>1
    <2>1. PICK m \in T : \A n \in T : m <= n
      BY <1>2, <2>0, LeastNumber
    <2>2. StartAfter(k, i) \in Nat /\ m \in 0..(N - i)
          /\ StartAfter(k, i) > StartAfter(k, i + m)
      BY StartFacts
    <2>3. CASE m = 0
      <3>1. i + m = i
        BY <2>3
      <3>2. QED
        BY <2>2, <3>1
    <2>4. CASE m # 0
      <3>1. m - 1 \in 0..(N - i) /\ ~(m <= m - 1)
        BY <2>2, <2>4, <1>1
      <3>2. ~(StartAfter(k, i) > StartAfter(k, i + (m - 1)))
        BY <2>1, <3>1
      <3>3. i + m \in 2..N /\ i + m \in 1..N /\ i + (m - 1) \in 1..N
            /\ (i + m) - 1 = i + (m - 1)
        BY <2>2, <2>4, <1>1
      <3>4. /\ StartOf(k, i + m) = StartAfter(k, i + (m - 1))
            /\ StartOf(k, i + m) <= StartAfter(k, i + m)
            /\ StartAfter(k, i + (m - 1)) \in Nat
            /\ StartAfter(k, i + m) \in Nat
        BY <3>3, StartFacts
      <3>5. QED
        BY <2>2, <3>2, <3>4
    <2>5. QED
      BY <2>3, <2>4
  <1>3. N - i \in 0..(N - i)
    BY <1>1
  <1>4. ~(StartAfter(k, i) > StartAfter(k, i + (N - i)))
    BY <1>2, <1>3
  <1>5. i + (N - i) = N /\ N \in 1..N
    BY <1>1
  <1>6. StartAfter(k, i) \in Nat /\ StartAfter(k, N) \in Nat
    BY <1>5, StartFacts
  <1>7. QED
    BY <1>4, <1>5, <1>6 DEF Whole

-----------------------------------------------------------------------------
(* Snapshots.                                                              *)

Flattening(s, n, f) ==
    f = [i \in 1..n |-> IF i = 1 THEN s[i] ELSE f[i - 1] \o s[i]]

(* Sequences can be put one behind the other, however many they are.       *)
LEMMA FlatteningExists ==
    ASSUME NEW s, NEW N \in Nat
    PROVE  \E f : Flattening(s, N, f)
  <1> DEFINE T == {m \in Nat : ~\E f : Flattening(s, m, f)}
  <1>1. ASSUME T # {} PROVE FALSE
    <2>1. PICK m \in T : \A n \in T : m <= n
      BY <1>1, LeastNumber
    <2>2. m \in Nat /\ ~\E f : Flattening(s, m, f)
      OBVIOUS
    <2>3. CASE m = 0
      <3> DEFINE f == [j \in 1..0 |-> s]
      <3>1. Flattening(s, 0, f)
        BY DEF Flattening
      <3>2. QED
        BY <2>2, <2>3, <3>1
    <2>4. CASE m # 0
      <3>1. m - 1 \in Nat /\ ~(m <= m - 1)
        BY <2>2, <2>4
      <3>2. PICK f : Flattening(s, m - 1, f)
        BY <2>1, <3>1
      <3> DEFINE last == IF m = 1 THEN s[m] ELSE f[m - 1] \o s[m]
                 h == [j \in 1..m |-> IF j = m THEN last ELSE f[j]]
      <3>3. \A j \in 1..(m - 1) :
               f[j] = IF j = 1 THEN s[j] ELSE f[j - 1] \o s[j]
        BY <3>2 DEF Flattening
      <3>4. \A j \in 1..m : j # 1 => h[j - 1] = f[j - 1]
        BY <2>2
      <3>5. \A j \in 1..m :
               h[j] = IF j = 1 THEN s[j] ELSE h[j - 1] \o s[j]
        <4>1. h[m] = last /\ \A j \in 1..m : j # m => h[j] = f[j]
          BY <2>2, <2>4
        <4>2. \A j \in 1..m : j # m => j \in 1..(m - 1)
          BY <2>2
        <4> HIDE DEF h
        <4>3. QED
          BY <2>2, <2>4, <3>3, <3>4, <4>1, <4>2
      <3>6. h = [j \in 1..m |-> h[j]]
        OBVIOUS
      <3> HIDE DEF h
      <3>7. Flattening(s, m, h)
        BY <3>5, <3>6 DEF Flattening
      <3>8. QED
        BY <2>2, <3>7
    <2>5. QED
      BY <2>3, <2>4
  <1>2. QED
    BY <1>1

LEMMA FlattenFacts ==
    ASSUME NEW S, NEW s \in Seq(S), s # <<>>
    PROVE  \E f : /\ FlattenSeq(s) = f[Len(s)]
                  /\ f[1] = s[1]
                  /\ \A i \in 2..Len(s) : f[i] = f[i - 1] \o s[i]
  <1> DEFINE N == Len(s)
             f == CHOOSE f : Flattening(s, N, f)
  <1>1. N \in Nat /\ N # 0
    BY EmptySeq
  <1>2. FlattenSeq(s) = f[N]
    BY <1>1 DEF FlattenSeq, Flattening
  <1> HIDE DEF N
  <1>3. Flattening(s, N, f)
    BY <1>1, FlatteningExists
  <1> HIDE DEF f
  <1>4. \A i \in 1..N : f[i] = IF i = 1 THEN s[i] ELSE f[i - 1] \o s[i]
    BY <1>3 DEF Flattening
  <1>5. /\ f[1] = s[1]
        /\ \A i \in 2..N : f[i] = f[i - 1] \o s[i]
    <2>1. 1 \in 1..N /\ \A i \in 2..N : i \in 1..N /\ i # 1
      BY <1>1
    <2>2. f[1] = s[1]
      BY <1>4, <2>1
    <2>3. \A i \in 2..N : f[i] = f[i - 1] \o s[i]
      BY <1>4, <2>1
    <2>4. QED
      BY <2>2, <2>3
  <1>6. QED
    BY <1>2, <1>5 DEF N

(* The bytes of a document: the blocks up to the i-th fill it up to the    *)
(* end of that block.                                                      *)
LEMMA SnapshotOfDocument ==
    ASSUME NEW d, IsDocument(d)
    PROVE  IsSnapshot(d.kind, to_block_bytes(d))
  <1> DEFINE k == d.kind
             N == 1 + items(k)
             s == d.blocks
             S == UNION {ToSet(s[i]) : i \in 1..N}
  <1>1. /\ k \in Kinds /\ N \in Nat /\ N >= 1
        /\ DOMAIN s = 1..N /\ s \in [1..N -> ToSet(s)]
        /\ \A i \in 1..N : IsBytes(s[i], DefOf(k, i).size)
        /\ \A i \in 1..N : DefOf(k, i).size \in Nat
    BY LayoutFacts DEF IsDocument
  <1> HIDE DEF k, N, s
  <1>2. \A i \in 1..N : s[i] \in Seq(S) /\ Len(s[i]) = DefOf(k, i).size
    <2>1. ASSUME NEW i \in 1..N
          PROVE  s[i] \in Seq(S) /\ Len(s[i]) = DefOf(k, i).size
      <3>1. s[i] \in [1..DefOf(k, i).size -> ToSet(s[i])]
            /\ DefOf(k, i).size \in Nat
        BY <1>1 DEF IsBytes
      <3>2. ToSet(s[i]) \subseteq S
        OBVIOUS
      <3> HIDE DEF S
      <3>3. QED
        BY <3>1, <3>2
    <2>2. QED
      BY <2>1
  <1> HIDE DEF S
  <1>3. s \in Seq(Seq(S)) /\ Len(s) = N /\ s # <<>>
    BY <1>1, <1>2
  <1>4. PICK f : /\ FlattenSeq(s) = f[N] /\ f[1] = s[1]
                 /\ \A i \in 2..N : f[i] = f[i - 1] \o s[i]
    BY <1>3, FlattenFacts
  <1> DEFINE T == {i \in 1..N : ~(f[i] \in Seq(S)
                                  /\ Len(f[i]) = StartAfter(k, i))}
  <1>5. ASSUME T # {} PROVE FALSE
    <2>0. T \in SUBSET Nat
      BY <1>1
    <2>1. PICK m \in T : \A n \in T : m <= n
      BY <1>5, <2>0, LeastNumber
    <2>2. m \in 1..N /\ ~(f[m] \in Seq(S) /\ Len(f[m]) = StartAfter(k, m))
      OBVIOUS
    <2>3. CASE m = 1
      <3>1. StartAfter(k, 1) = DefOf(k, 1).size
        BY <1>1, StartFacts DEF StartAfter
      <3>2. QED
        BY <1>1, <1>2, <1>4, <2>2, <2>3, <3>1
    <2>4. CASE m # 1
      <3>1. m - 1 \in 1..N /\ ~(m <= m - 1) /\ m \in 2..N
        BY <2>2, <2>4, <1>1
      <3>2. f[m - 1] \in Seq(S) /\ Len(f[m - 1]) = StartAfter(k, m - 1)
        BY <2>1, <3>1
      <3>3. s[m] \in Seq(S) /\ Len(s[m]) = DefOf(k, m).size
        BY <1>2, <2>2
      <3>4. f[m] \in Seq(S)
            /\ Len(f[m]) = StartAfter(k, m - 1) + DefOf(k, m).size
        <4>1. f[m] = f[m - 1] \o s[m]
          BY <1>4, <3>1
        <4>2. f[m - 1] \o s[m] \in Seq(S)
              /\ Len(f[m - 1] \o s[m]) = Len(f[m - 1]) + Len(s[m])
          BY <3>2, <3>3, ConcatProperties
        <4>3. QED
          BY <3>2, <3>3, <4>1, <4>2
      <3>5. StartAfter(k, m) = StartAfter(k, m - 1) + DefOf(k, m).size
        BY <1>1, <3>1, StartFacts DEF StartAfter, N
      <3>6. QED
        BY <2>2, <3>4, <3>5
    <2>5. QED
      BY <2>3, <2>4
  <1>6. f[N] \in Seq(S) /\ Len(f[N]) = StartAfter(k, N)
    BY <1>1, <1>5
  <1>7. f[N] \in [1..Whole(k) -> ToSet(f[N])]
    BY <1>6 DEF Whole, N, ToSet
  <1>8. to_block_bytes(d) = f[N]
    BY <1>4 DEF to_block_bytes, s
  <1>9. QED
    BY <1>7, <1>8 DEF IsSnapshot, IsBytes, k

(* A snapshot is cut into blocks as long as they must be ...               *)
LEMMA DocumentOfSnapshot ==
    ASSUME NEW k \in Kinds, NEW b, IsSnapshot(k, b)
    PROVE  LET d == from_block_bytes(k, b)
           IN  /\ IsDocument(d) /\ d.kind = k
               /\ \A i \in 1..(1 + items(k)) :
                    d.blocks[i] = SubSeq(b, StartOf(k, i) + 1, StartAfter(k, i))
  <1> DEFINE N == 1 + items(k)
             S == ToSet(b)
             d == from_block_bytes(k, b)
             s == d.blocks
  <1>1. N \in Nat /\ DOMAIN layout(k) = 1..N
        /\ \A i \in 1..N : DefOf(k, i).size \in Nat
    BY LayoutFacts
  <1>2. Whole(k) \in Nat /\ b \in [1..Whole(k) -> S]
    BY <1>1, LayoutFacts, StartFacts DEF IsSnapshot, IsBytes, Whole
  <1>3. d = [kind |-> k, blocks |-> s] /\ d.kind = k /\ DOMAIN s = 1..N
        /\ s = [i \in 1..N |-> s[i]]
        /\ \A i \in 1..N : s[i] = SubSeq(b, StartOf(k, i) + 1, StartAfter(k, i))
    BY <1>1 DEF from_block_bytes, CutIntoBlocks, StartAfter
  <1> HIDE DEF d, s, S
  <1>4. ASSUME NEW i \in 1..N PROVE IsBytes(s[i], DefOf(k, i).size)
    <2> DEFINE l == StartOf(k, i)
               h == StartAfter(k, i)
               n == DefOf(k, i).size
    <2>1. l \in Nat /\ h \in Nat /\ h <= Whole(k) /\ h = l + n /\ n \in Nat
      BY <1>1, StartFacts, EndsWithin DEF StartAfter
    <2> HIDE DEF l, h, n
    <2>2. \A j \in (l + 1)..h : b[j] \in S
      BY <1>2, <2>1
    <2>3. SubSeq(b, l + 1, h) \in Seq(S)
          /\ Len(SubSeq(b, l + 1, h)) = IF l + 1 <= h THEN h - (l + 1) + 1 ELSE 0
      BY <2>1, <2>2, SubSeqProperties
    <2>4. Len(SubSeq(b, l + 1, h)) = n
      BY <2>1, <2>3
    <2>5. s[i] = SubSeq(b, l + 1, h)
      BY <1>3 DEF l, h
    <2>6. s[i] \in Seq(S) /\ Len(s[i]) = n
      BY <2>3, <2>4, <2>5
    <2>7. s[i] \in [1..n -> ToSet(s[i])]
      BY <2>6 DEF ToSet
    <2>8. QED
      BY <2>7 DEF IsBytes, n
  <1>5. s \in [1..N -> ToSet(s)]
    BY <1>3 DEF ToSet
  <1>6. IsDocument(d)
    BY <1>1, <1>3, <1>4, <1>5 DEF IsDocument, s
  <1>7. QED
    BY <1>3, <1>6 DEF d, s

(* ... which put one behind the other are the snapshot again.              *)
LEMMA RoundTrip ==
    ASSUME NEW k \in Kinds, NEW b, IsSnapshot(k, b)
    PROVE  to_block_bytes(from_block_bytes(k, b)) = b
  <1> DEFINE N == 1 + items(k)
             S == ToSet(b)
             s == from_block_bytes(k, b).blocks
  <1>1. N \in Nat /\ N >= 1
    BY LayoutFacts
  <1>2. Whole(k) \in Nat /\ b \in [1..Whole(k) -> S] /\ b \in Seq(S)
        /\ Len(b) = Whole(k)
    BY <1>1, StartFacts DEF IsSnapshot, IsBytes, Whole
  <1>3. \A i \in 1..N : s[i] = SubSeq(b, StartOf(k, i) + 1, StartAfter(k, i))
    BY DocumentOfSnapshot
  <1>4. s \in [1..N -> ToSet(s)]
    <2>1. IsDocument(from_block_bytes(k, b)) /\ from_block_bytes(k, b).kind = k
      BY DocumentOfSnapshot
    <2>2. QED
      BY <2>1, LayoutFacts DEF IsDocument
  <1> HIDE DEF N, S, s
  <1>5. s \in Seq(ToSet(s)) /\ Len(s) = N /\ s # <<>>
    BY <1>1, <1>4
  <1>6. PICK f : /\ FlattenSeq(s) = f[N] /\ f[1] = s[1]
                 /\ \A i \in 2..N : f[i] = f[i - 1] \o s[i]
    BY <1>5, FlattenFacts
  <1> DEFINE T == {i \in 1..N : f[i] # SubSeq(b, 1, StartAfter(k, i))}
  <1>7. ASSUME T # {} PROVE FALSE
    <2>0. T \in SUBSET Nat
      BY <1>1
    <2>1. PICK m \in T : \A n \in T : m <= n
      BY <1>7, <2>0, LeastNumber
    <2>2. m \in 1..N /\ f[m] # SubSeq(b, 1, StartAfter(k, m))
      OBVIOUS
    <2>3. CASE m = 1
      <3>1. StartOf(k, 1) + 1 = 1
        BY StartFacts
      <3>2. QED
        BY <1>3, <1>6, <2>2, <2>3, <3>1
    <2>4. CASE m # 1
      <3>1. m - 1 \in 1..N /\ ~(m <= m - 1) /\ m \in 2..N
        BY <2>2, <2>4, <1>1
      <3>2. f[m - 1] = SubSeq(b, 1, StartAfter(k, m - 1))
        BY <2>1, <3>1
      <3> DEFINE l == StartOf(k, m)
                 h == StartAfter(k, m)
      <3>3. StartAfter(k, m - 1) = l /\ l \in Nat /\ h \in Nat /\ l <= h
            /\ h <= Whole(k)
        BY <2>2, <3>1, StartFacts, EndsWithin DEF N
      <3>4. s[m] = SubSeq(b, l + 1, h)
        BY <1>3, <2>2
      <3> HIDE DEF l, h
      <3>5. l \in 0..Len(b) /\ h \in l..Len(b) /\ 1 \in 1..(Len(b) + 1)
        BY <1>2, <3>3
      <3>6. SubSeq(b, 1, l) \o SubSeq(b, l + 1, h) = SubSeq(b, 1, h)
        BY <1>2, <3>5, ConcatAdjacentSubSeq
      <3>7. f[m] = f[m - 1] \o s[m]
        BY <1>6, <3>1
      <3>8. QED
        BY <2>2, <3>2, <3>3, <3>4, <3>6, <3>7 DEF h
    <2>5. QED
      BY <2>3, <2>4
  <1>8. f[N] = SubSeq(b, 1, Len(b))
    BY <1>1, <1>2, <1>7 DEF Whole, N
  <1>9. f[N] = b
    BY <1>2, <1>8, SubSeqFull
  <1>10. QED
    BY <1>6, <1>9 DEF to_block_bytes, s

-----------------------------------------------------------------------------
(* The history.                                                            *)

(* A new entry, made where the history has come to, is its end.            *)
LEMMA RecordFacts ==
    ASSUME NEW k, NEW h, IsHistory(k, h), NEW before, NEW after,
           Chain(h, before), IsSnapshot(k, before), IsSnapshot(k, after)
    PROVE  /\ IsHistory(k, record(h, before, after))
           /\ Chain(record(h, before, after), after)
  <1> DEFINE n    == h.applied
             S    == ToSet(h.items)
             e    == [before |-> before, after |-> after]
             past == SubSeq(h.items, 1, n)
             all  == Append(past, e)
             m    == Max({1, Len(all) - HISTORY_LIMIT + 1})
             kept == SubSeq(all, m, Len(all))
             r    == record(h, before, after)
  <1>1. h.items \in Seq(S) /\ n \in 0..Len(h.items) /\ n \in Nat
        /\ Len(h.items) \in Nat
    BY DEF IsHistory, Chain
  <1>2. r = [items |-> kept, applied |-> Len(kept)]
    BY DEF record
  <1> HIDE DEF S
  <1>3. /\ past \in Seq(S) /\ Len(past) = n
        /\ \A j \in 1..n : past[j] = h.items[j]
    BY <1>1
  <1> HIDE DEF past, e
  <1>4. /\ all \in Seq(S \cup {e}) /\ Len(all) = n + 1
        /\ \A j \in 1..n : all[j] = h.items[j]
        /\ all[n + 1] = e
    <2>1. past \in Seq(S \cup {e})
      BY <1>3
    <2>2. QED
      BY <1>1, <1>3, <2>1
  <1> HIDE DEF all
  <1>5. m \in 1..(n + 1)
    <2>1. Len(all) - HISTORY_LIMIT + 1 \in Int
          /\ Len(all) - HISTORY_LIMIT + 1 <= n + 1
      BY <1>1, <1>4, SessionAssumption
    <2>2. m = IF 1 >= Len(all) - HISTORY_LIMIT + 1 THEN 1
              ELSE Len(all) - HISTORY_LIMIT + 1
      BY <2>1, MaxOfTwo
    <2>3. QED
      BY <1>1, <2>1, <2>2
  <1> HIDE DEF m, n
  <1>6. /\ kept \in Seq(S \cup {e}) /\ Len(kept) = n - m + 2
        /\ \A j \in 1..(n - m + 2) : kept[j] = all[m + j - 1]
    <2>1. \A j \in m..(n + 1) : all[j] \in S \cup {e}
      BY <1>1, <1>4, <1>5
    <2>2. kept = SubSeq(all, m, n + 1)
      BY <1>4
    <2>3. /\ m \in Int /\ n + 1 \in Int /\ m <= n + 1
          /\ (n + 1) - m + 1 = n - m + 2
      BY <1>1, <1>5
    <2>4. /\ SubSeq(all, m, n + 1) \in Seq(S \cup {e})
          /\ Len(SubSeq(all, m, n + 1)) = (n + 1) - m + 1
          /\ \A j \in 1..((n + 1) - m + 1) :
               SubSeq(all, m, n + 1)[j] = all[m + j - 1]
      BY <2>1, <2>3, SubSeqProperties
    <2>5. QED
      BY <2>2, <2>3, <2>4
  <1> HIDE DEF kept
  <1>7. \A j \in 1..(n + 1) : IsEntry(k, all[j])
    <2>1. e.before = before /\ e.after = after
      BY DEF e
    <2>2. IsEntry(k, e)
      BY <2>1 DEF IsEntry
    <2>3. \A j \in 1..n : j \in DOMAIN h.items
      BY <1>1 DEF n
    <2>4. \A j \in 1..n : IsEntry(k, all[j])
      BY <1>4, <2>3 DEF IsHistory
    <2>5. \A j \in 1..(n + 1) : j \in 1..n \/ j = n + 1
      BY <1>1
    <2>6. QED
      BY <1>4, <2>2, <2>4, <2>5
  <1>8. kept \in Seq(ToSet(kept)) /\ Len(kept) = n - m + 2
        /\ Len(kept) \in Nat /\ DOMAIN kept = 1..Len(kept)
    BY <1>1, <1>5, <1>6 DEF ToSet
  <1>9. r.items = kept /\ r.applied = Len(kept)
        /\ r = [items |-> r.items, applied |-> r.applied]
    BY <1>2
  <1> HIDE DEF r
  <1>10. IsHistory(k, r)
    <2>1. ASSUME NEW j \in DOMAIN kept PROVE IsEntry(k, kept[j])
      <3>1. m + j - 1 \in 1..(n + 1) /\ j \in 1..(n - m + 2)
        BY <1>1, <1>5, <1>8, <2>1
      <3>2. QED
        BY <1>6, <1>7, <3>1
    <2>2. QED
      BY <1>8, <1>9, <2>1 DEF IsHistory
  <1>11. kept[Len(kept)] = e
    <2>1. m + (n - m + 2) - 1 = n + 1 /\ n - m + 2 \in 1..(n - m + 2)
      BY <1>1, <1>5
    <2>2. QED
      BY <1>4, <1>6, <2>1
  <1>12. ASSUME NEW j \in 2..Len(kept)
         PROVE  kept[j].before = kept[j - 1].after
    <2>1. /\ j \in 1..(n - m + 2) /\ j - 1 \in 1..(n - m + 2)
          /\ m + (j - 1) - 1 \in 1..n /\ m + j - 1 \in 2..(n + 1)
          /\ m + j - 1 = (m + (j - 1) - 1) + 1
      BY <1>1, <1>5, <1>6
    <2>2. PICK i \in 1..n : i = m + (j - 1) - 1
      BY <2>1
    <2>3. kept[j] = all[i + 1] /\ kept[j - 1] = h.items[i]
      BY <1>4, <1>6, <2>1, <2>2
    <2>4. CASE i = n
      <3>1. n > 0
        BY <2>2, <2>4, <1>1
      <3>2. h.items[n].after = before
        BY <3>1 DEF Chain, n
      <3>3. QED
        BY <1>4, <2>3, <2>4, <3>2 DEF e
    <2>5. CASE i # n
      <3>1. i + 1 \in 1..n /\ i + 1 \in 2..Len(h.items) /\ (i + 1) - 1 = i
        BY <1>1, <2>2, <2>5 DEF n
      <3>2. h.items[i + 1].before = h.items[i].after
        BY <3>1 DEF Chain
      <3>3. QED
        BY <1>4, <2>3, <3>1, <3>2
    <2>6. QED
      BY <2>4, <2>5
  <1>13. kept[Len(kept)].after = after
    BY <1>11 DEF e
  <1>14. Chain(r, after)
    BY <1>8, <1>9, <1>12, <1>13 DEF Chain
  <1>15. QED
    BY <1>10, <1>14 DEF r

(* A step back or forth, or a jump.                                        *)
LEMMA Moved ==
    ASSUME NEW k, NEW h, IsHistory(k, h), NEW here, Chain(h, here),
           NEW n \in 0..Len(h.items), h.items # <<>>
    PROVE  LET r == [h EXCEPT !.applied = n]
               there == IF n = 0 THEN h.items[1].before ELSE h.items[n].after
           IN  IsHistory(k, r) /\ Chain(r, there) /\ IsSnapshot(k, there)
  <1> DEFINE r == [h EXCEPT !.applied = n]
             there == IF n = 0 THEN h.items[1].before ELSE h.items[n].after
             s == h.items
  <1>1. r.items = s /\ r.applied = n
        /\ r = [items |-> r.items, applied |-> r.applied]
    BY DEF IsHistory
  <1>2. s \in Seq(ToSet(s)) /\ Len(s) \in Nat /\ Len(s) >= 1
        /\ DOMAIN s = 1..Len(s)
    BY DEF IsHistory
  <1> HIDE DEF r
  <1>3. IsHistory(k, r)
    BY <1>1 DEF IsHistory
  <1>4. IsSnapshot(k, there)
    <2>1. IF n = 0 THEN 1 \in DOMAIN s ELSE n \in DOMAIN s
      BY <1>2
    <2>2. QED
      BY <2>1 DEF IsHistory, IsEntry
  <1>5. \A j \in 2..Len(s) : s[j].before = s[j - 1].after
    BY DEF Chain
  <1>6. n > 0 => s[n].after = there
    OBVIOUS
  <1>7. n < Len(s) => s[n + 1].before = there
    <2>1. CASE n = 0
      BY <2>1
    <2>2. CASE n # 0 /\ n < Len(s)
      <3>1. n + 1 \in 2..Len(s) /\ (n + 1) - 1 = n
        BY <1>2, <2>2
      <3>2. s[n + 1].before = s[n].after
        BY <1>5, <3>1
      <3>3. QED
        BY <2>2, <3>2
    <2>3. QED
      BY <2>1, <2>2
  <1> HIDE DEF there, s
  <1>8. Chain(r, there)
    BY <1>1, <1>2, <1>5, <1>6, <1>7 DEF Chain, s
  <1>9. QED
    BY <1>3, <1>4, <1>8 DEF r, there

(* A group that changed something is one entry.                            *)
LEMMA RecordedFacts ==
    ASSUME IsHistory(kind, history), NEW before, Chain(history, before),
           IsSnapshot(kind, before), NEW new, IsDocument(new), new.kind = kind
    PROVE  /\ IsHistory(kind, Recorded(before, new))
           /\ Chain(Recorded(before, new), to_block_bytes(new))
  <1> DEFINE after == to_block_bytes(new)
  <1>1. IsSnapshot(kind, after)
    BY SnapshotOfDocument
  <1>2. CASE before = after
    BY <1>2 DEF Recorded
  <1>3. CASE before # after
    <2>1. Recorded(before, new) = record(history, before, after)
      BY <1>3 DEF Recorded
    <2> HIDE DEF after
    <2>2. /\ IsHistory(kind, record(history, before, after))
          /\ Chain(record(history, before, after), after)
      BY <1>1, RecordFacts
    <2>3. QED
      BY <2>1, <2>2 DEF after
  <1>4. QED
    BY <1>2, <1>3

(* With the open group ended, the history has come to the document.        *)
LEMMA EndedFacts ==
    ASSUME IInv
    PROVE  IsHistory(kind, Ended) /\ Chain(Ended, to_block_bytes(doc))
  <1>1. CASE group = <<>>
    BY <1>1 DEF IInv, Ended, Here
  <1>2. CASE group # <<>>
    BY <1>2, RecordedFacts DEF IInv, Ended, Here, kind
  <1>3. QED
    BY <1>1, <1>2

-----------------------------------------------------------------------------
(* Documents.                                                              *)

(* A block written to is as long as it was.                                *)
LEMMA WrittenFacts ==
    ASSUME NEW b, NEW n, IsBytes(b, n), NEW p, NEW v
    PROVE  IsBytes(write(p, v, b), n) /\ IsBytes(write_all(p, v, b), n)
  <1>1. DOMAIN b = 1..n
    BY DEF IsBytes
  <1>2. write(p, v, b) = [k \in 1..n |-> write(p, v, b)[k]]
    BY <1>1 DEF write
  <1>3. write_all(p, v, b) = [k \in 1..n |-> write_all(p, v, b)[k]]
    BY <1>1 DEF write_all
  <1>4. \A c : c = [k \in 1..n |-> c[k]] => IsBytes(c, n)
    BY DEF IsBytes, ToSet
  <1>5. QED
    BY <1>2, <1>3, <1>4

(* One block replaced, or all of them.                                     *)
LEMMA BlockReplaced ==
    ASSUME NEW d, IsDocument(d), NEW i \in DOMAIN d.blocks, NEW b,
           IsBytes(b, DefOf(d.kind, i).size)
    PROVE  LET e == [d EXCEPT !.blocks[i] = b]
           IN  IsDocument(e) /\ e.kind = d.kind
  <1> DEFINE s == [d.blocks EXCEPT ![i] = b]
             e == [d EXCEPT !.blocks[i] = b]
  <1>1. d = [kind |-> d.kind, blocks |-> d.blocks]
    BY DEF IsDocument
  <1>2. e = [kind |-> d.kind, blocks |-> s]
    BY <1>1
  <1>3. /\ DOMAIN s = DOMAIN d.blocks /\ s = [j \in DOMAIN s |-> s[j]]
        /\ \A j \in DOMAIN s : s[j] = IF j = i THEN b ELSE d.blocks[j]
    BY DEF IsDocument
  <1> HIDE DEF s, e
  <1>4. DOMAIN d.blocks = DOMAIN layout(d.kind)
    BY DEF IsDocument
  <1>5. s \in [DOMAIN layout(d.kind) -> ToSet(s)]
    BY <1>3, <1>4 DEF ToSet
  <1>6. \A j \in DOMAIN s : IsBytes(s[j], DefOf(d.kind, j).size)
    BY <1>3 DEF IsDocument
  <1>7. e.kind = d.kind /\ e.blocks = s /\ e = [kind |-> e.kind, blocks |-> e.blocks]
    BY <1>2
  <1>8. QED
    BY <1>5, <1>6, <1>7 DEF IsDocument, e

LEMMA DocumentOf ==
    ASSUME NEW k \in Kinds, NEW s, s = [i \in DOMAIN layout(k) |-> s[i]],
           \A i \in DOMAIN layout(k) : IsBytes(s[i], DefOf(k, i).size)
    PROVE  IsDocument([kind |-> k, blocks |-> s])
  <1>1. DOMAIN s = DOMAIN layout(k)
    OBVIOUS
  <1>2. s \in [DOMAIN layout(k) -> ToSet(s)]
    BY <1>1 DEF ToSet
  <1>3. QED
    BY <1>1, <1>2 DEF IsDocument

(* What is put together from pieces, or set to its initial values.         *)
LEMMA FromPieces ==
    ASSUME NEW k \in Kinds, NEW base, NEW pieces
    PROVE  IsDocument(from_dt1(k, base, pieces))
           /\ from_dt1(k, base, pieces).kind = k
  <1> DEFINE byte(i, j) ==
               CHOOSE b \in DataAt(pieces, base + layout(k)[i].offset + j - 1) :
                 TRUE
             s == [i \in DOMAIN layout(k) |->
                     [j \in 1..DefOf(k, i).size |-> byte(i, j)]]
  <1>1. from_dt1(k, base, pieces) = [kind |-> k, blocks |-> s]
    BY DEF from_dt1
  <1> HIDE DEF byte
  <1>2. s = [i \in DOMAIN layout(k) |-> s[i]]
    OBVIOUS
  <1>3. \A i \in DOMAIN layout(k) : s[i] = [j \in 1..DefOf(k, i).size |-> s[i][j]]
    OBVIOUS
  <1> HIDE DEF s
  <1>4. \A c, n : c = [j \in 1..n |-> c[j]] => IsBytes(c, n)
    BY DEF IsBytes, ToSet
  <1>5. \A i \in DOMAIN layout(k) : IsBytes(s[i], DefOf(k, i).size)
    BY <1>3, <1>4
  <1>6. QED
    BY <1>1, <1>2, <1>5, DocumentOf

-----------------------------------------------------------------------------
(* Files.                                                                  *)

(* What a reading found are documents.                                     *)
HoldsDocuments(r) ==
    "slots" \in DOMAIN r /\ \A s \in DOMAIN r.slots : IsDocument(r.slots[s])

LEMMA AlsoSaying ==
    ASSUME NEW r, HoldsDocuments(r), NEW filled, NEW skipped
    PROVE  /\ HoldsDocuments(WithFilled(r, filled))
           /\ HoldsDocuments(Report(r, skipped))
  BY DEF HoldsDocuments, WithFilled, Report

LEMMA AllOrNothingFacts ==
    ASSUME NEW k \in Kinds, NEW pieces
    PROVE  HoldsDocuments(AllOrNothing(k, pieces))
  <1> DEFINE r == AllOrNothing(k, pieces)
             base(s) == user_base(k, s)
  <1>1. "slots" \in DOMAIN r
    BY DEF AllOrNothing
  <1>2. \A s \in DOMAIN r.slots : r.slots[s] = from_dt1(k, base(s), pieces[s])
    BY DEF AllOrNothing
  <1> HIDE DEF r, base
  <1>3. QED
    BY <1>1, <1>2, FromPieces DEF HoldsDocuments, r

LEMMA LenientOrFacts ==
    ASSUME NEW strict, HoldsDocuments(strict), NEW full, HoldsDocuments(full),
           NEW filled, NEW damaged
    PROVE  HoldsDocuments(LenientOr(strict, full, filled, damaged))
  BY AlsoSaying DEF LenientOr

LEMMA HeldFacts ==
    ASSUME NEW k \in Kinds, NEW base, NEW records, NEW skipped
    PROVE  HoldsDocuments(Held(area_document(k, base, records), skipped))
  <1> DEFINE d == area_document(k, base, records)
             r == Held(d, skipped)
  <1>1. \A x \in d.held : \E p : x = from_dt1(k, base, p)
    BY DEF area_document, OneDocument
  <1> HIDE DEF d
  <1>2. \A x \in d.held : IsDocument(x)
    BY <1>1, FromPieces
  <1>3. "slots" \in DOMAIN r
        /\ \A s \in DOMAIN r.slots : r.slots[s] \in d.held
    BY DEF Held
  <1> HIDE DEF r
  <1>4. QED
    BY <1>2, <1>3 DEF HoldsDocuments, r, d

(* Nothing is a reading without documents.                                 *)
LEMMA NothingHeld == HoldsDocuments(Nothing)
  <1>1. "slots" \in DOMAIN Nothing /\ Nothing.slots = <<>>
    BY DEF Nothing
  <1>2. QED
    BY <1>1 DEF HoldsDocuments

LEMMA PatchFileFacts ==
    ASSUME "patch" \in Kinds, NEW lenient
    PROVE  HoldsDocuments(PatchFile(lenient))
  <1> DEFINE patches == user_patches_lenient(lenient.records, lenient.skipped)
  <1>1. HoldsDocuments(patches)
    BY AllOrNothingFacts, LenientOrFacts
       DEF user_patches_lenient, user_documents
  <1>2. HoldsDocuments(Held(temp_patch(lenient.records), lenient.skipped))
    BY HeldFacts DEF temp_patch
  <1> HIDE DEF patches
  <1>3. HoldsDocuments(Report(patches, lenient.skipped))
    BY <1>1, AlsoSaying
  <1>4. HoldsDocuments(OrTemporary(patches, lenient))
    BY <1>2, <1>3, NothingHeld DEF OrTemporary
  <1>5. QED
    BY <1>4 DEF PatchFile, patches

LEMMA StrictFileFacts ==
    ASSUME kind \in Kinds, NEW strict
    PROVE  HoldsDocuments(StrictFile(strict))
  <1>1. HoldsDocuments(user_documents(kind, strict.records))
    BY AllOrNothingFacts DEF user_documents
  <1>2. HoldsDocuments(Report(
          WithFilled(user_documents(kind, strict.records), {}), 0))
    BY <1>1, AlsoSaying
  <1>3. kind = "system" => HoldsDocuments(Held(system_document(strict.records), 0))
    BY HeldFacts DEF system_document
  <1>4. QED
    BY <1>2, <1>3, NothingHeld DEF StrictFile

LEMMA ReadingFacts ==
    ASSUME kind \in Kinds, NEW picked
    PROVE  HoldsDocuments(ReadingOf(picked))
  <1>1. HoldsDocuments(Reading(picked.bytes))
    <2>1. CASE kind = "patch"
      <3>1. "patch" \in Kinds
        BY <2>1
      <3>2. QED
        BY <2>1, <3>1, PatchFileFacts DEF Reading
    <2>2. CASE kind # "patch"
      BY <2>2, StrictFileFacts DEF Reading
    <2>3. QED
      BY <2>1, <2>2
  <1>2. QED
    BY <1>1, NothingHeld DEF ReadingOf

-----------------------------------------------------------------------------
(* The steps.                                                              *)

LEMMA InitInv == Init => IInv
  <1> SUFFICES ASSUME Init PROVE IInv
    OBVIOUS
  <1>1. IsDocument(doc)
    BY OpenedAssumption DEF Init
  <1>2. history.items = <<>> /\ history.applied = 0
        /\ history = [items |-> history.items, applied |-> history.applied]
    BY DEF Init, NoHistory
  <1>3. IsHistory(kind, history)
    BY <1>2 DEF IsHistory
  <1>4. Chain(history, Here)
    BY <1>2 DEF Chain
  <1>5. QED
    BY <1>1, <1>3, <1>4 DEF IInv, Init

(* The invariant speaks of the document and its history alone.             *)
LEMMA SameEdits == IInv /\ UNCHANGED editVars => IInv'
  BY DEF IInv, editVars, Here, kind, IsDocument, to_block_bytes

LEMMA BeginStep == IInv /\ Begin => IInv'
  <1> SUFFICES ASSUME IInv, Begin PROVE IInv'
    OBVIOUS
  <1>1. /\ group = <<>> /\ group' = to_block_bytes(doc)
        /\ doc' = doc /\ history' = history /\ kind' = kind
    BY DEF Begin, kind
  <1>2. IsSnapshot(kind, group')
    BY <1>1, SnapshotOfDocument DEF IInv, kind
  <1>3. Here' = Here
    BY <1>1 DEF Here
  <1>4. QED
    BY <1>1, <1>2, <1>3 DEF IInv

LEMMA EndStep == IInv /\ End => IInv'
  <1> SUFFICES ASSUME IInv, End PROVE IInv'
    OBVIOUS
  <1>1. /\ group # <<>> /\ group' = <<>> /\ doc' = doc /\ kind' = kind
        /\ history' = Ended
    BY DEF End, Ended, kind
  <1>2. IsHistory(kind, history') /\ Chain(history', to_block_bytes(doc'))
    BY <1>1, EndedFacts
  <1>3. Here' = to_block_bytes(doc')
    BY <1>1 DEF Here
  <1>4. QED
    BY <1>1, <1>2, <1>3 DEF IInv

LEMMA EditStep ==
    ASSUME IInv, NEW new, IsDocument(new), new.kind = kind, Edit(new)
    PROVE  IInv' /\ kind' = kind
  <1>1. doc' = new /\ kind' = kind /\ group' = group
    BY DEF Edit, kind
  <1>2. ASSUME group = <<>> PROVE IInv'
    <2> DEFINE before == to_block_bytes(doc)
    <2>1. history' = Recorded(before, new)
      BY <1>2 DEF Edit
    <2>2. IsHistory(kind, history) /\ Chain(history, before)
          /\ IsSnapshot(kind, before)
      BY <1>2, SnapshotOfDocument DEF IInv, Here, kind
    <2> HIDE DEF before
    <2>3. IsHistory(kind, history') /\ Chain(history', to_block_bytes(new))
      BY <2>1, <2>2, RecordedFacts
    <2>4. Here' = to_block_bytes(new)
      BY <1>1, <1>2 DEF Here
    <2>5. QED
      BY <1>1, <1>2, <2>3, <2>4 DEF IInv
  <1>3. ASSUME group # <<>> PROVE IInv'
    <2>1. history' = history /\ Here' = Here
      BY <1>1, <1>3 DEF Edit, Here
    <2>2. QED
      BY <1>1, <2>1 DEF IInv
  <1>4. QED
    BY <1>1, <1>2, <1>3

LEMMA SetStep == IInv /\ Set => IInv' /\ kind' = kind
  <1> SUFFICES ASSUME IInv, Set PROVE IInv' /\ kind' = kind
    OBVIOUS
  <1>0. PICK i \in DOMAIN doc.blocks :
           \E p, v : Edit(WithBlock(i, write(p, v, doc.blocks[i])))
    BY DEF Set
  <1>1. PICK p, v : Edit(WithBlock(i, write(p, v, doc.blocks[i])))
    BY <1>0
  <1> DEFINE b == write(p, v, doc.blocks[i])
  <1>2. IsBytes(b, DefOf(doc.kind, i).size)
    BY WrittenFacts DEF IInv, IsDocument
  <1> HIDE DEF b
  <1>3. IsDocument(WithBlock(i, b)) /\ WithBlock(i, b).kind = kind
    BY <1>2, BlockReplaced DEF IInv, WithBlock, kind
  <1>4. QED
    BY <1>1, <1>3, EditStep DEF b

LEMMA NameStep == IInv /\ setName => IInv' /\ kind' = kind
  <1> SUFFICES ASSUME IInv, setName PROVE IInv' /\ kind' = kind
    OBVIOUS
  <1>1. PICK chars :
           Edit(WithBlock(1, set_text(DefOf(kind, 1), chars, doc.blocks[1])))
    BY DEF setName
  <1> DEFINE b == set_text(DefOf(kind, 1), chars, doc.blocks[1])
  <1>2. 1 \in DOMAIN doc.blocks
    BY LayoutFacts DEF IInv, IsDocument
  <1>3. IsBytes(b, DefOf(doc.kind, 1).size)
    BY <1>2, WrittenFacts DEF IInv, IsDocument, set_text
  <1> HIDE DEF b
  <1>4. IsDocument(WithBlock(1, b)) /\ WithBlock(1, b).kind = kind
    BY <1>2, <1>3, BlockReplaced DEF IInv, WithBlock, kind
  <1>5. QED
    BY <1>1, <1>4, EditStep DEF b

LEMMA ManyStep == IInv /\ applyMany => IInv' /\ kind' = kind
  <1> SUFFICES ASSUME IInv, applyMany PROVE IInv' /\ kind' = kind
    OBVIOUS
  <1> DEFINE ps(i) == DefOf(kind, i).params
             G(i) == write_all(ps(i), [j \in DOMAIN ps(i) |-> ps(i)[j].max],
                               doc.blocks[i])
             s == [i \in DOMAIN doc.blocks |-> G(i)]
             new == [doc EXCEPT !.blocks = s]
  <1>1. Edit(new)
    BY DEF applyMany
  <1>2. \A i \in DOMAIN doc.blocks : IsBytes(G(i), DefOf(doc.kind, i).size)
    BY WrittenFacts DEF IInv, IsDocument
  <1> HIDE DEF G
  <1>3. /\ doc.kind \in Kinds /\ DOMAIN doc.blocks = DOMAIN layout(doc.kind)
        /\ doc = [kind |-> doc.kind, blocks |-> doc.blocks]
    BY DEF IInv, IsDocument
  <1>4. new = [kind |-> doc.kind, blocks |-> s]
    BY <1>3
  <1>5. s = [i \in DOMAIN layout(doc.kind) |-> s[i]]
        /\ \A i \in DOMAIN layout(doc.kind) :
             IsBytes(s[i], DefOf(doc.kind, i).size)
    BY <1>2, <1>3
  <1> HIDE DEF s
  <1>6. IsDocument([kind |-> doc.kind, blocks |-> s])
    BY <1>3, <1>5, DocumentOf
  <1>7. IsDocument(new) /\ new.kind = kind
    BY <1>4, <1>6 DEF kind
  <1> HIDE DEF new
  <1>8. QED
    BY <1>1, <1>7, EditStep

(* undo, redo and a jump restore the snapshot the history has come to.     *)
LEMMA RestoreStep ==
    ASSUME IInv, NEW h, NEW snapshot, IsHistory(kind, h), Chain(h, snapshot),
           IsSnapshot(kind, snapshot), Restore(h, snapshot)
    PROVE  IInv' /\ kind' = kind
  <1> DEFINE d == from_block_bytes(kind, snapshot)
  <1>0. kind \in Kinds
    BY DEF IInv, IsDocument, kind
  <1>1. IsDocument(d) /\ d.kind = kind /\ to_block_bytes(d) = snapshot
    BY <1>0, DocumentOfSnapshot, RoundTrip
  <1>2. doc' = d /\ group' = <<>> /\ history' = h
    BY DEF Restore
  <1> HIDE DEF d
  <1>3. kind' = kind /\ Here' = snapshot
    BY <1>1, <1>2 DEF kind, Here
  <1>4. QED
    BY <1>1, <1>2, <1>3 DEF IInv

(* Each of the three moves within the history.                             *)
LEMMA MoveStep ==
    IInv /\ (undo \/ redo \/ jumpTo) => IInv' /\ kind' = kind
  <1> SUFFICES ASSUME IInv, undo \/ redo \/ jumpTo PROVE IInv' /\ kind' = kind
    OBVIOUS
  <1> DEFINE At(n) == [Ended EXCEPT !.applied = n]
             There(n) == IF n = 0 THEN Ended.items[1].before
                         ELSE Ended.items[n].after
  <1>1. IsHistory(kind, Ended) /\ Chain(Ended, to_block_bytes(doc))
    BY EndedFacts
  <1>2. Ended.applied \in 0..Len(Ended.items) /\ Len(Ended.items) \in Nat
        /\ Ended.items \in Seq(ToSet(Ended.items))
    BY <1>1 DEF IsHistory, Chain
  <1>3. ASSUME NEW n \in 0..Len(Ended.items), Len(Ended.items) > 0,
               Restore(At(n), There(n))
        PROVE  IInv' /\ kind' = kind
    <2>1. Ended.items # <<>>
      BY <1>3
    <2>2. IsHistory(kind, At(n)) /\ Chain(At(n), There(n))
          /\ IsSnapshot(kind, There(n))
      BY <1>1, <2>1, Moved
    <2> HIDE DEF At, There
    <2>3. QED
      BY <1>3, <2>2, RestoreStep
  <1>4. CASE undo
    <2> DEFINE n == Ended.applied - 1
    <2>1. Ended.applied > 0
          /\ Restore([Ended EXCEPT !.applied = @ - 1],
                     Ended.items[Ended.applied].before)
      BY <1>4 DEF undo
    <2>2. n \in 0..Len(Ended.items) /\ Len(Ended.items) > 0
      BY <1>2, <2>1
    <2>3. [Ended EXCEPT !.applied = @ - 1] = At(n)
      OBVIOUS
    <2>4. Ended.items[Ended.applied].before = There(n)
      <3>1. CASE n = 0
        <4>1. Ended.applied = 1
          BY <1>2, <3>1
        <4>2. QED
          BY <3>1, <4>1
      <3>2. CASE n # 0
        <4>1. Ended.applied \in 2..Len(Ended.items)
          BY <1>2, <2>1, <3>2
        <4>2. QED
          BY <1>1, <3>2, <4>1 DEF Chain
      <3>3. QED
        BY <3>1, <3>2
    <2> HIDE DEF n, At, There
    <2>5. QED
      BY <1>3, <2>1, <2>2, <2>3, <2>4
  <1>5. CASE redo
    <2> DEFINE n == Ended.applied + 1
    <2>1. Ended.applied < Len(Ended.items)
          /\ Restore([Ended EXCEPT !.applied = @ + 1],
                     Ended.items[Ended.applied + 1].after)
      BY <1>5 DEF redo
    <2>2. n \in 0..Len(Ended.items) /\ Len(Ended.items) > 0 /\ n # 0
      BY <1>2, <2>1
    <2>3. [Ended EXCEPT !.applied = @ + 1] = At(n)
          /\ Ended.items[Ended.applied + 1].after = There(n)
      BY <2>2
    <2> HIDE DEF n, At, There
    <2>4. QED
      BY <1>3, <2>1, <2>2, <2>3
  <1>6. CASE jumpTo
    <2>1. PICK n \in 0..Len(Ended.items) :
             /\ Ended.items # <<>>
             /\ Restore([Ended EXCEPT !.applied = n],
                        IF n = 0 THEN Ended.items[1].before
                        ELSE Ended.items[n].after)
      BY <1>6 DEF jumpTo
    <2>2. Len(Ended.items) > 0
      BY <1>2, <2>1, EmptySeq
    <2>3. QED
      BY <1>3, <2>1, <2>2
  <1>7. QED
    BY <1>4, <1>5, <1>6

(* A file that is opened has a document, and the history starts again.     *)
LEMMA OpenStep == IInv /\ OpenFile => IInv'
  <1> SUFFICES ASSUME IInv, OpenFile PROVE IInv'
    OBVIOUS
  <1>1. PICK s \in DOMAIN ReadingOf(Picked).slots :
           doc' = ReadingOf(Picked).slots[s]
    BY DEF OpenFile
  <1>2. HoldsDocuments(ReadingOf(Picked))
    BY ReadingFacts DEF IInv, IsDocument, kind
  <1>3. IsDocument(doc')
    BY <1>1, <1>2 DEF HoldsDocuments
  <1>4. group' = <<>> /\ history' = NoHistory
    BY DEF OpenFile
  <1>5. history'.items = <<>> /\ history'.applied = 0
        /\ history' = [items |-> history'.items, applied |-> history'.applied]
    BY <1>4 DEF NoHistory
  <1>6. IsHistory(kind', history') /\ Chain(history', Here')
    BY <1>5 DEF IsHistory, Chain
  <1>7. QED
    BY <1>3, <1>4, <1>6 DEF IInv

-----------------------------------------------------------------------------
(* Every step.                                                             *)

LEMMA StepInv ==
    ASSUME IInv, [Next]_vars
    PROVE  IInv'
  <1>1. CASE \E on \in BOOLEAN : setLive(on)
    BY <1>1, SameEdits DEF setLive
  <1>2. CASE Export \/ Lose \/ Double \/ Swap \/ Insert \/ Tick \/ Damage
    <2>1. UNCHANGED editVars
      BY <1>2 DEF Export, Lose, Double, Swap, Insert, Tick, Damage, Harm
    <2>2. QED
      BY <2>1, SameEdits
  <1>3. CASE SaveAsMidi \/ SplitEvent \/ AddEvent \/ SplitTrack \/ CloseFile
    <2>1. UNCHANGED editVars
      BY <1>3 DEF SaveAsMidi, SplitEvent, AddEvent, SplitTrack, Sequence,
                  CloseFile
    <2>2. QED
      BY <2>1, SameEdits
  <1>4. CASE UNCHANGED vars
    BY <1>4, SameEdits DEF vars
  <1>5. QED
    BY <1>1, <1>2, <1>3, <1>4, BeginStep, EndStep, SetStep, NameStep,
       ManyStep, MoveStep, OpenStep DEF Next

-----------------------------------------------------------------------------
(* The instrument: what is sent of the document is what it then holds.     *)

(* What holds for 0, and for the next number, holds up to n.               *)
LEMMA CountingUp ==
    ASSUME NEW n \in Nat, NEW G, 0 \in G,
           \A i \in 1..n : i - 1 \in G => i \in G
    PROVE  0..n \subseteq G
  <1> DEFINE T == {i \in 0..n : i \notin G}
  <1>1. ASSUME T # {} PROVE FALSE
    <2>0. T \in SUBSET Nat
      OBVIOUS
    <2>1. PICK m \in T : \A i \in T : m <= i
      BY <1>1, <2>0, LeastNumber
    <2>2. m \in 1..n /\ m - 1 \in 0..n /\ ~(m <= m - 1) /\ m \notin G
      OBVIOUS
    <2>3. m - 1 \in G
      BY <2>1, <2>2
    <2>4. QED
      BY <2>2, <2>3
  <1>2. QED
    BY <1>1

-----------------------------------------------------------------------------
(* Addresses, sums and frames.                                             *)

(* The four lanes of an address are 7-bit and make the address again.      *)
LEMMA LaneFacts ==
    ASSUME NEW a \in Nat, a <= MAX_COMPACT
    PROVE  /\ lanes(a) \in Seq(SevenBit) /\ Len(lanes(a)) = 4
           /\ from_lanes(lanes(a)) = a
  <1> DEFINE r == a \div 128
             q == r \div 128
             p == q \div 128
  <1>1. a \in Nat /\ a <= 268435455
    BY DEF MAX_COMPACT
  <1>2. \A n \in Nat : /\ n \div 128 \in Nat /\ n % 128 \in 0..127
                       /\ n = (n \div 128) * 128 + (n % 128)
    OBVIOUS
  <1>3. /\ a \in Nat /\ r \in Nat /\ q \in Nat /\ p \in Nat
        /\ a % 128 \in 0..127 /\ r % 128 \in 0..127 /\ q % 128 \in 0..127
        /\ a = r * 128 + (a % 128) /\ r = q * 128 + (r % 128)
        /\ q = p * 128 + (q % 128)
    BY <1>1, <1>2
  <1>4. p \in 0..127
    BY <1>1, <1>3
  <1>5. a \div 16384 = q /\ a \div 2097152 = p
    <2> HIDE DEF p, q, r
    <2>1. \E m \in Nat : m <= 16383 /\ a = q * 16384 + m
      BY <1>3
    <2>2. \E m \in Nat : m <= 2097151 /\ a = p * 2097152 + m
      BY <1>3
    <2>3. a \div 16384 = q
      BY <1>3, <2>1
    <2>4. a \div 2097152 = p
      BY <1>3, <2>2
    <2>5. QED
      BY <2>3, <2>4
  <1>6. lanes(a) = <<p, q % 128, r % 128, a % 128>>
    BY <1>5 DEF lanes
  <1> HIDE DEF p, q, r
  <1>7. <<p, q % 128, r % 128, a % 128>> \in Seq(SevenBit)
    BY <1>3, <1>4 DEF SevenBit
  <1>8. from_lanes(<<p, q % 128, r % 128, a % 128>>) = a
    <2>1. from_lanes(<<p, q % 128, r % 128, a % 128>>)
            = ((p * 128 + (q % 128)) * 128 + (r % 128)) * 128 + (a % 128)
      BY DEF from_lanes
    <2>2. p * 128 + (q % 128) = q
      BY <1>3
    <2>3. q * 128 + (r % 128) = r
      BY <1>3
    <2>4. r * 128 + (a % 128) = a
      BY <1>3
    <2>5. QED
      BY <2>1, <2>2, <2>3, <2>4
  <1>9. QED
    BY <1>6, <1>7, <1>8

LEMMA SevenBitNat == SevenBit \subseteq Nat
  <1>1. \A x \in 0..127 : x \in Nat
    OBVIOUS
  <1>2. QED
    BY <1>1 DEF SevenBit

(* A sum of bytes is a number.                                             *)
Summing(bs, n, f) ==
    f = [i \in 0..n |-> IF i = 0 THEN 0 ELSE f[i - 1] + bs[i]]
LEMMA SummingExists ==
    ASSUME NEW bs, NEW N \in Nat
    PROVE  \E f : Summing(bs, N, f)
  <1> DEFINE G == {m \in 0..N : \E f : Summing(bs, m, f)}
  <1>1. 0 \in G
    <2> DEFINE f == [i \in 0..0 |-> 0]
    <2>1. Summing(bs, 0, f)
      BY DEF Summing
    <2>2. QED
      BY <2>1
  <1>2. ASSUME NEW m \in 1..N, m - 1 \in G PROVE m \in G
    <2>1. PICK f : Summing(bs, m - 1, f)
      BY <1>2
    <2> DEFINE h == [i \in 0..m |-> IF i = m THEN f[m - 1] + bs[m] ELSE f[i]]
    <2>2. \A i \in 0..m : /\ i # m => i \in 0..(m - 1)
                          /\ i # 0 => i - 1 \in 0..(m - 1)
                          /\ i - 1 # m
      OBVIOUS
    <2>3. \A i \in 0..(m - 1) :
             f[i] = IF i = 0 THEN 0 ELSE f[i - 1] + bs[i]
      BY <2>1 DEF Summing
    <2>4. /\ h[m] = f[m - 1] + bs[m] /\ m # 0
          /\ \A i \in 0..(m - 1) : h[i] = f[i]
          /\ h = [i \in 0..m |-> h[i]]
      OBVIOUS
    <2> HIDE DEF h
    <2>5. \A i \in 0..m : h[i] = IF i = 0 THEN 0 ELSE h[i - 1] + bs[i]
      <3>1. ASSUME NEW i \in 0..m, i # m
            PROVE  h[i] = IF i = 0 THEN 0 ELSE h[i - 1] + bs[i]
        BY <2>2, <2>3, <2>4, <3>1
      <3>2. h[m] = h[m - 1] + bs[m]
        <4>1. m - 1 \in 0..(m - 1)
          OBVIOUS
        <4>2. QED
          BY <2>4, <4>1
      <3>3. QED
        BY <2>4, <3>1, <3>2
    <2>6. Summing(bs, m, h)
      BY <2>4, <2>5 DEF Summing
    <2>7. QED
      BY <2>6
  <1> HIDE DEF G
  <1>3. 0..N \subseteq G
    BY <1>1, <1>2, CountingUp
  <1>4. N \in 0..N
    OBVIOUS
  <1>5. QED
    BY <1>3, <1>4 DEF G

LEMMA SumFacts ==
    ASSUME NEW bs \in Seq(SevenBit)
    PROVE  SumOf(bs) \in Nat /\ checksum(bs) \in SevenBit
  <1> DEFINE N == Len(bs)
             f == CHOOSE f : Summing(bs, N, f)
             G == {i \in 0..N : f[i] \in Nat}
  <1>1. N \in Nat /\ \A i \in 1..N : bs[i] \in Nat
    <2>1. \A x \in SevenBit : x \in Nat
      BY DEF SevenBit
    <2>2. N \in Nat /\ \A i \in 1..N : bs[i] \in SevenBit
      OBVIOUS
    <2>3. QED
      BY <2>1, <2>2
  <1>2. SumOf(bs) = f[N]
    BY DEF SumOf, Summing
  <1>3. Summing(bs, N, f)
    BY <1>1, SummingExists
  <1> HIDE DEF N, f
  <1>4. \A i \in 0..N : f[i] = IF i = 0 THEN 0 ELSE f[i - 1] + bs[i]
    BY <1>3 DEF Summing
  <1>5. 0 \in G
    BY <1>1, <1>4
  <1>6. ASSUME NEW i \in 1..N, i - 1 \in G PROVE i \in G
    <2>1. i \in 0..N /\ i # 0 /\ f[i - 1] \in Nat /\ bs[i] \in Nat
      BY <1>1, <1>6
    <2>2. f[i] = f[i - 1] + bs[i]
      BY <1>4, <2>1
    <2>3. QED
      BY <2>1, <2>2
  <1> HIDE DEF G
  <1>7. 0..N \subseteq G
    BY <1>1, <1>5, <1>6, CountingUp
  <1>8. SumOf(bs) \in Nat
    BY <1>1, <1>2, <1>7 DEF G
  <1>9. \A s \in Nat : (128 - (s % 128)) % 128 \in 0..127
    OBVIOUS
  <1>10. QED
    BY <1>8, <1>9 DEF checksum, SevenBit
(* A part of a sequence that has the elements of another is that other.    *)
LEMMA PartIs ==
    ASSUME NEW S, NEW s, NEW t \in Seq(S), NEW m \in Int, NEW n \in Int,
           n = m + Len(t) - 1, \A i \in 1..Len(t) : s[m + i - 1] = t[i]
    PROVE  SubSeq(s, m, n) = t
  <1>1. ASSUME NEW i \in m..n PROVE s[i] \in S
    <2>1. i - m + 1 \in 1..Len(t) /\ m + (i - m + 1) - 1 = i
      OBVIOUS
    <2>2. s[m + (i - m + 1) - 1] = t[i - m + 1] /\ t[i - m + 1] \in S
      BY <2>1
    <2>3. QED
      BY <2>1, <2>2
  <1>2. /\ SubSeq(s, m, n) \in Seq(S)
        /\ Len(SubSeq(s, m, n)) = IF m <= n THEN n - m + 1 ELSE 0
        /\ \A i \in 1..(n - m + 1) : SubSeq(s, m, n)[i] = s[m + i - 1]
    BY <1>1, SubSeqProperties
  <1>3. Len(t) \in Nat /\ n - m + 1 = Len(t)
    OBVIOUS
  <1>4. Len(SubSeq(s, m, n)) = Len(t)
    BY <1>2, <1>3
  <1>5. \A i \in 1..Len(t) : SubSeq(s, m, n)[i] = t[i]
    BY <1>2, <1>3
  <1>6. QED
    BY <1>2, <1>4, <1>5, SeqEqual

(* The bytes of a frame, one by one.                                       *)
FramedAs(f, n, a, data, body) ==
    /\ f \in Seq(Nat) /\ Len(f) = n + 11 /\ n \in Nat /\ n > 0
    /\ body \in Seq(SevenBit) /\ Len(body) = n + 4
    /\ f[1] = 240 /\ f[2] = 65 /\ f[3] = 16 /\ f[4] = 106 /\ f[5] = 18
    /\ \A i \in 1..(n + 4) : f[i + 5] = body[i]
    /\ \A i \in 1..4 : f[i + 5] = lanes(a)[i]
    /\ \A i \in 1..n : f[i + 9] = data[i]
    /\ f[n + 10] = checksum(body) /\ f[n + 11] = 247
LEMMA FrameBytes ==
    ASSUME NEW a \in Nat, NEW data \in Seq(SevenBit), SpanFits(a, Len(data))
    PROVE  FramedAs(encode(Dt1(a, data), DEVICE), Len(data), a, data,
                    lanes(a) \o data)
  <1> DEFINE n    == Len(data)
             l    == lanes(a)
             body == l \o data
             head == <<240, 65, 16, 106, 18>>
             c    == checksum(body)
             tail == <<c, 247>>
             f    == encode(Dt1(a, data), DEVICE)
  <1>1. n \in Nat /\ n > 0
    BY DEF SpanFits
  <1>2. l \in Seq(SevenBit) /\ Len(l) = 4
    <2>1. a <= MAX_COMPACT
      <3>1. MAX_COMPACT \in Nat
        BY DEF MAX_COMPACT
      <3>2. QED
        BY <1>1, <3>1 DEF SpanFits
    <2>2. QED
      BY <2>1, LaneFacts
  <1>3. f = (head \o body) \o tail
    BY DEF encode, Dt1, DEVICE, SYSEX_START, SYSEX_END
  <1>4. /\ body \in Seq(SevenBit) /\ Len(body) = n + 4
        /\ \A i \in 1..(n + 4) : body[i] = IF i <= 4 THEN l[i] ELSE data[i - 4]
    <2> HIDE DEF l
    <2>1. /\ body \in Seq(SevenBit) /\ Len(body) = Len(l) + Len(data)
          /\ \A i \in 1..(Len(l) + Len(data)) :
               body[i] = IF i <= Len(l) THEN l[i] ELSE data[i - Len(l)]
      BY <1>2, ConcatProperties
    <2>2. QED
      BY <1>1, <1>2, <2>1
  <1>5. c \in Nat
    <2>1. c \in SevenBit
      BY <1>4, SumFacts
    <2>2. QED
      BY <2>1, SevenBitNat
  <1> HIDE DEF l, body, c, n
  <1>6. /\ head \in Seq(Nat) /\ Len(head) = 5
        /\ tail \in Seq(Nat) /\ Len(tail) = 2
    BY <1>5
  <1>7. body \in Seq(Nat)
    BY <1>4, SevenBitNat, SeqMonotonic
  <1>8. head[1] = 240 /\ head[2] = 65 /\ head[3] = 16 /\ head[4] = 106
        /\ head[5] = 18 /\ tail[1] = c /\ tail[2] = 247
    OBVIOUS
  <1> HIDE DEF head, tail, f
  <1>9. /\ head \o body \in Seq(Nat) /\ Len(head \o body) = n + 9
        /\ \A i \in 1..(n + 9) :
             (head \o body)[i] = IF i <= 5 THEN head[i] ELSE body[i - 5]
    <2> DEFINE hb == head \o body
    <2>1. /\ hb \in Seq(Nat)
          /\ Len(hb) = Len(head) + Len(body)
          /\ \A i \in 1..(Len(head) + Len(body)) :
               hb[i] = IF i <= Len(head) THEN head[i] ELSE body[i - Len(head)]
      BY <1>6, <1>7, ConcatProperties
    <2> HIDE DEF hb
    <2>2. Len(head) + Len(body) = n + 9
      BY <1>1, <1>4, <1>6
    <2>3. /\ hb \in Seq(Nat) /\ Len(hb) = n + 9
          /\ \A i \in 1..(n + 9) :
               hb[i] = IF i <= 5 THEN head[i] ELSE body[i - 5]
      BY <1>6, <2>1, <2>2
    <2>4. QED
      BY <2>3 DEF hb
  <1>10. /\ f \in Seq(Nat) /\ Len(f) = n + 11
         /\ \A i \in 1..(n + 11) :
              f[i] = IF i <= n + 9 THEN (head \o body)[i] ELSE tail[i - (n + 9)]
    <2> DEFINE hb == head \o body
    <2>0. hb \in Seq(Nat) /\ Len(hb) = n + 9
      BY <1>9
    <2>1. f = hb \o tail
      BY <1>3
    <2> HIDE DEF hb
    <2>2. /\ f \in Seq(Nat)
          /\ Len(f) = Len(hb) + Len(tail)
          /\ \A i \in 1..(Len(hb) + Len(tail)) :
               f[i] = IF i <= Len(hb) THEN hb[i] ELSE tail[i - Len(hb)]
      BY <1>6, <2>0, <2>1, ConcatProperties
    <2>3. Len(hb) + Len(tail) = n + 11
      BY <1>1, <1>6, <2>0
    <2>4. /\ f \in Seq(Nat) /\ Len(f) = n + 11
          /\ \A i \in 1..(n + 11) :
               f[i] = IF i <= n + 9 THEN hb[i] ELSE tail[i - (n + 9)]
      BY <2>0, <2>2, <2>3
    <2>5. QED
      BY <2>4 DEF hb
  <1>11. \A i \in 1..(n + 4) : f[i + 5] = body[i]
    <2>1. ASSUME NEW i \in 1..(n + 4) PROVE f[i + 5] = body[i]
      <3>1. /\ i + 5 \in 1..(n + 9) /\ i + 5 \in 1..(n + 11)
            /\ i + 5 <= n + 9 /\ ~(i + 5 <= 5) /\ (i + 5) - 5 = i
        BY <1>1
      <3>2. f[i + 5] = (head \o body)[i + 5]
        BY <1>10, <3>1
      <3>3. (head \o body)[i + 5] = body[(i + 5) - 5]
        BY <1>9, <3>1
      <3>4. QED
        BY <3>1, <3>2, <3>3
    <2>2. QED
      BY <2>1
  <1>12. /\ f[1] = 240 /\ f[2] = 65 /\ f[3] = 16 /\ f[4] = 106 /\ f[5] = 18
    <2>1. ASSUME NEW i \in 1..5 PROVE f[i] = head[i]
      <3>1. /\ i \in 1..(n + 11) /\ i \in 1..(n + 9)
            /\ i <= n + 9 /\ i <= 5
        BY <1>1
      <3>2. f[i] = (head \o body)[i]
        BY <1>10, <3>1
      <3>3. (head \o body)[i] = head[i]
        BY <1>9, <3>1
      <3>4. QED
        BY <3>2, <3>3
    <2>2. QED
      BY <1>8, <2>1
  <1>13. f[n + 10] = c /\ f[n + 11] = 247
    <2>1. /\ n + 10 \in 1..(n + 11) /\ ~(n + 10 <= n + 9)
          /\ n + 11 \in 1..(n + 11) /\ ~(n + 11 <= n + 9)
          /\ (n + 10) - (n + 9) = 1 /\ (n + 11) - (n + 9) = 2
      BY <1>1
    <2>2. f[n + 10] = tail[(n + 10) - (n + 9)]
          /\ f[n + 11] = tail[(n + 11) - (n + 9)]
      BY <1>10, <2>1
    <2>3. QED
      BY <1>8, <2>1, <2>2
  <1>14. \A i \in 1..4 : f[i + 5] = l[i]
    BY <1>1, <1>4, <1>11
  <1>15. \A i \in 1..n : f[i + 9] = data[i]
    <2>1. ASSUME NEW i \in 1..n PROVE f[i + 9] = data[i]
      <3>1. i + 4 \in 1..(n + 4) /\ ~(i + 4 <= 4) /\ (i + 4) - 4 = i
            /\ (i + 4) + 5 = i + 9
        BY <1>1
      <3>2. f[(i + 4) + 5] = body[i + 4] /\ body[i + 4] = data[(i + 4) - 4]
        BY <1>4, <1>11, <3>1
      <3>3. QED
        BY <3>1, <3>2
    <2>2. QED
      BY <2>1
  <1>16. QED
    BY <1>1, <1>4, <1>10, <1>11, <1>12, <1>13, <1>14, <1>15
       DEF FramedAs, f, body, l, n, c

(* A message of data is accepted, and read as it was sent.                 *)
LEMMA ReadBack ==
    ASSUME NEW a \in Nat, NEW data \in Seq(SevenBit), SpanFits(a, Len(data)),
           Len(data) <= MAX_DT1_DATA_TO_DEVICE
    PROVE  LET f == encode(Dt1(a, data), DEVICE)
           IN Parses(f) /\ f[3] = DEVICE /\ f[5] = 18
              /\ MessageOf(f) = Dt1(a, data)
  <1> DEFINE n    == Len(data)
             body == lanes(a) \o data
             f    == encode(Dt1(a, data), DEVICE)
             d    == Dt1(a, data)
  <1>0. FramedAs(f, n, a, data, body)
    BY FrameBytes
  <1>2. /\ lanes(a) \in Seq(SevenBit) /\ Len(lanes(a)) = 4
        /\ from_lanes(lanes(a)) = a
    <2>1. a <= MAX_COMPACT
      <3>1. MAX_COMPACT \in Nat
        BY DEF MAX_COMPACT
      <3>2. Len(data) \in Nat
        OBVIOUS
      <3>3. QED
        BY <3>1, <3>2 DEF SpanFits
    <2>2. QED
      BY <2>1, LaneFacts
  <1>3. n + 11 <= MAX_FRAME_LEN /\ MAX_FRAME_LEN \in Nat
    BY SysexAssumption, SessionAssumption
  <1> HIDE DEF n, body, f
  <1>1. /\ f \in Seq(Nat) /\ Len(f) = n + 11 /\ n \in Nat /\ n > 0
        /\ body \in Seq(SevenBit) /\ Len(body) = n + 4
        /\ f[1] = 240 /\ f[2] = 65 /\ f[3] = 16 /\ f[4] = 106 /\ f[5] = 18
        /\ \A i \in 1..(n + 4) : f[i + 5] = body[i]
        /\ \A i \in 1..4 : f[i + 5] = lanes(a)[i]
        /\ \A i \in 1..n : f[i + 9] = data[i]
        /\ f[n + 10] = checksum(body) /\ f[n + 11] = 247
    BY <1>0 DEF FramedAs
  <1>4. BodyOf(f) = body
    <2>1. 6 \in Int /\ n + 9 \in Int /\ n + 9 = 6 + Len(body) - 1
          /\ Len(f) - 2 = n + 9
      BY <1>1
    <2>2. \A i \in 1..Len(body) : f[6 + i - 1] = body[i]
      <3>1. \A i \in 1..(n + 4) : 6 + i - 1 = i + 5
        BY <1>1
      <3>2. QED
        BY <1>1, <3>1
    <2>3. SubSeq(f, 6, n + 9) = body
      BY <1>1, <2>1, <2>2, PartIs
    <2>4. QED
      BY <2>1, <2>3 DEF BodyOf
  <1>5. SubSeq(f, 6, 9) = lanes(a)
    <2>1. 9 = 6 + Len(lanes(a)) - 1
      BY <1>2
    <2>2. \A i \in 1..Len(lanes(a)) : f[6 + i - 1] = lanes(a)[i]
      <3>1. ASSUME NEW i \in 1..4 PROVE f[6 + i - 1] = lanes(a)[i]
        <4>1. 6 + i - 1 = i + 5
          OBVIOUS
        <4>2. f[i + 5] = lanes(a)[i]
          BY <1>1
        <4>3. QED
          BY <4>1, <4>2
      <3>2. QED
        BY <1>2, <3>1
    <2>3. QED
      BY <1>2, <2>1, <2>2, PartIs
  <1>6. SubSeq(f, 10, Len(f) - 2) = data
    <2>1. Len(f) - 2 = 10 + Len(data) - 1 /\ Len(f) - 2 \in Int
      BY <1>1 DEF n
    <2>2. \A i \in 1..Len(data) : f[10 + i - 1] = data[i]
      <3>1. \A i \in 1..n : 10 + i - 1 = i + 9
        BY <1>1
      <3>2. QED
        BY <1>1, <3>1 DEF n
    <2>3. QED
      BY <2>1, <2>2, PartIs
  <1>7. MessageOf(f) = d
    BY <1>1, <1>2, <1>5, <1>6 DEF MessageOf, Dt1
  <1>8. \A i \in 2..(Len(f) - 1) : f[i] \in SevenBit
    <2>1. ASSUME NEW i \in 2..(Len(f) - 1) PROVE f[i] \in SevenBit
      <3>1. i \in 2..(n + 10)
        BY <1>1
      <3>2. CASE i <= 5
        <4>1. i \in {2, 3, 4, 5}
          BY <3>1, <3>2
        <4>2. {65, 16, 106, 18} \subseteq SevenBit
          BY DEF SevenBit
        <4>3. f[2] = 65 /\ f[3] = 16 /\ f[4] = 106 /\ f[5] = 18
          BY <1>1
        <4>4. f[i] \in {65, 16, 106, 18}
          BY <4>1, <4>3
        <4>5. QED
          BY <4>2, <4>4
      <3>3. CASE i = n + 10
        BY <1>1, <3>3, SumFacts
      <3>4. CASE i > 5 /\ i # n + 10
        <4>1. i - 5 \in 1..(n + 4) /\ (i - 5) + 5 = i
          BY <1>1, <3>1, <3>4
        <4>2. f[(i - 5) + 5] = body[i - 5]
          BY <1>1, <4>1
        <4>3. body[i - 5] \in SevenBit
          BY <1>1, <4>1
        <4>4. QED
          BY <4>1, <4>2, <4>3
      <3>5. QED
        BY <3>1, <3>2, <3>3, <3>4
    <2>2. QED
      BY <2>1
  <1>9. Sane(d)
    <2>1. \A i \in DOMAIN data : data[i] \in SevenBit
      OBVIOUS
    <2>2. QED
      BY <2>1 DEF Sane, IsDt1, Dt1
  <1>10. Len(f) \in 12..MAX_FRAME_LEN /\ f[Len(f)] = 247
         /\ f[Len(f) - 1] = checksum(body)
    <2>1. Len(f) - 1 = n + 10 /\ Len(f) \in 12..MAX_FRAME_LEN
      BY <1>1, <1>3
    <2>2. QED
      BY <1>1, <2>1
  <1>11. Parses(f)
    <2>1. 16 \in 16..31 /\ 18 \in {17, 18} /\ 18 # 17
      OBVIOUS
    <2>2. QED
      BY <1>1, <1>4, <1>7, <1>8, <1>9, <1>10, <2>1
         DEF Parses, SYSEX_START, SYSEX_END
  <1>12. f[3] = DEVICE
    BY <1>1 DEF DEVICE
  <1>13. QED
    BY <1>1, <1>7, <1>11, <1>12 DEF f


-----------------------------------------------------------------------------
(* Where the blocks of a document lie in temporary memory.                 *)

Place(k, i) == temp_base(k) + layout(k)[i].offset

LEMMA TempAddress ==
    ASSUME NEW a \in Nat, 2097152 <= a, a < 8388608
    PROVE  classify(a) = "temporary"
  <1>1. a \div 2097152 \in 1..3
    OBVIOUS
  <1>2. lanes(a)[1] = a \div 2097152
    BY DEF lanes
  <1>3. QED
    BY <1>1, <1>2 DEF classify

(* What the map has of a block.                                            *)
LEMMA BlockFacts ==
    ASSUME NEW k \in Kinds, NEW i \in 1..(1 + items(k))
    PROVE  /\ DefOf(k, i) = layout(k)[i].def
           /\ DefOf(k, i) \in {MAP[k].common, MAP[k].item}
           /\ validate_block(DefOf(k, i)) /\ AllParameters(DefOf(k, i))
           /\ layout(k)[i].offset = IF i = 1 THEN 0 ELSE item_offset(k, i - 2)
           /\ DefOf(k, i).size \in Nat
           /\ DefOf(k, i).size <= IF i = 1 THEN 1024 ELSE Stride(k)
  <1>1. layout(k)[i] = IF i = 1 THEN [offset |-> 0, def |-> MAP[k].common]
                       ELSE [offset |-> item_offset(k, i - 2),
                             def |-> MAP[k].item]
    BY DEF layout
  <1>2. /\ layout(k)[i].offset = IF i = 1 THEN 0 ELSE item_offset(k, i - 2)
        /\ layout(k)[i].def = IF i = 1 THEN MAP[k].common ELSE MAP[k].item
    BY <1>1
  <1>3. /\ validate_block(MAP[k].common) /\ validate_block(MAP[k].item)
        /\ AllParameters(MAP[k].common) /\ AllParameters(MAP[k].item)
        /\ MAP[k].item.size <= Stride(k)
    BY MapAssumption
  <1>4. MAP[k].common.size <= 1024
    <2>1. MAP[k].common.size \in 0..MAX_BLOCK_SIZE
      BY <1>3 DEF validate_block
    <2>2. \A n \in 0..MAX_BLOCK_SIZE : n <= 1024
      BY DEF MAX_BLOCK_SIZE
    <2>3. QED
      BY <2>1, <2>2
  <1>5. DefOf(k, i).size \in Nat
    BY LayoutFacts
  <1>6. DefOf(k, i) = IF i = 1 THEN MAP[k].common ELSE MAP[k].item
    BY <1>2 DEF DefOf
  <1>7. DefOf(k, i).size <= IF i = 1 THEN 1024 ELSE Stride(k)
    BY <1>3, <1>4, <1>6
  <1>8. QED
    BY <1>2, <1>3, <1>5, <1>6, <1>7

(* Where a kind begins, and how its blocks follow.                         *)
Spread(k, base, gap, most, step) ==
    /\ base \in Nat /\ gap \in Nat /\ most \in Nat /\ step \in Nat
    /\ temp_base(k) = base /\ base >= 2097152
    /\ Stride(k) = step /\ items(k) <= most
    /\ gap >= 1024 /\ base + gap + most * step < 8388608
    /\ \A i \in Nat : item_offset(k, i) = gap + step * i
LEMMA KindFacts ==
    ASSUME NEW k \in Kinds, k # "system"
    PROVE  \E base, gap, most, step : Spread(k, base, gap, most, step)
  <1>1. k \in {"patch", "performance", "rhythm"} /\ items(k) <= MostItems(k)
    BY MapAssumption DEF items
  <1>2. CASE k = "patch"
    <2>1. temp_base(k) = TEMP_PATCH /\ TEMP_PATCH = 6291456
      <3>1. temp_base(k) = TEMP_PATCH
        BY <1>2 DEF temp_base
      <3>2. TEMP_PATCH = 6291456
        BY SMT DEF TEMP_PATCH, from_lanes
      <3>3. QED
        BY <3>1, <3>2, SMT
    <2>2. Stride(k) = 256 /\ MostItems(k) = 4
      BY <1>2 DEF Stride, MostItems, TONES
    <2>3. \A i \in Nat : item_offset(k, i) = 2048 + 256 * i
      BY <1>2, <2>2 DEF item_offset
    <2>4. Spread(k, 6291456, 2048, 4, 256)
      BY <1>1, <2>1, <2>2, <2>3, SMT DEF Spread
    <2>5. QED
      BY <2>4, SMT
  <1>3. CASE k = "performance"
    <2>1. temp_base(k) = TEMP_PERFORMANCE /\ TEMP_PERFORMANCE = 2097152
      <3>1. temp_base(k) = TEMP_PERFORMANCE
        BY <1>3 DEF temp_base
      <3>2. TEMP_PERFORMANCE = 2097152
        BY SMT DEF TEMP_PERFORMANCE, from_lanes
      <3>3. QED
        BY <3>1, <3>2, SMT
    <2>2. Stride(k) = 128 /\ MostItems(k) = 16
      BY <1>3 DEF Stride, MostItems, PARTS
    <2>3. \A i \in Nat : item_offset(k, i) = 2048 + 128 * i
      BY <1>3, <2>2 DEF item_offset
    <2>4. Spread(k, 2097152, 2048, 16, 128)
      BY <1>1, <2>1, <2>2, <2>3, SMT DEF Spread
    <2>5. QED
      BY <2>4, SMT
  <1>4. CASE k = "rhythm"
    <2>1. temp_base(k) = temp_patch_part(9) /\ temp_patch_part(9) = 4341760
      <3>1. temp_base(k) = temp_patch_part(9)
        BY <1>4 DEF temp_base
      <3>2. temp_patch_part(9) = 4341760
        BY SMT DEF temp_patch_part, from_lanes
      <3>3. QED
        BY <3>1, <3>2, SMT
    <2>2. Stride(k) = 128 /\ MostItems(k) = 64
      BY <1>4 DEF Stride, MostItems, RHYTHM_NOTES
    <2>3. \A i \in Nat : item_offset(k, i) = 4480 + 128 * i
      BY <1>4, <2>2 DEF item_offset
    <2>4. Spread(k, 4341760, 4480, 64, 128)
      BY <1>1, <2>1, <2>2, <2>3, SMT DEF Spread
    <2>5. QED
      BY <2>4, SMT
  <1>5. QED
    BY <1>1, <1>2, <1>3, <1>4

(* Every block lies in temporary memory, and they follow one another.      *)
LEMMA PlaceFacts ==
    ASSUME NEW k \in Kinds, k # "system", NEW i \in 1..(1 + items(k))
    PROVE  /\ Place(k, i) \in Nat /\ Place(k, i) >= 2097152
           /\ Place(k, i) + DefOf(k, i).size < 8388608
           /\ \A j \in (i + 1)..(1 + items(k)) :
                Place(k, i) + DefOf(k, i).size <= Place(k, j)
  <1>0. PICK base, gap, most, step : Spread(k, base, gap, most, step)
    BY KindFacts
  <1>1. /\ base \in Nat /\ gap \in Nat /\ most \in Nat /\ step \in Nat
        /\ temp_base(k) = base /\ base >= 2097152
        /\ Stride(k) = step /\ items(k) <= most
        /\ gap >= 1024 /\ base + gap + most * step < 8388608
        /\ \A n \in Nat : item_offset(k, n) = gap + step * n
    BY <1>0, SMT DEF Spread
  <1>2. items(k) \in Nat
    BY LayoutFacts
  <1>3. ASSUME NEW j \in 1..(1 + items(k))
        PROVE  Place(k, j) = IF j = 1 THEN base ELSE base + gap + step * (j - 2)
    <2>1. j # 1 => j - 2 \in Nat
      BY <1>2
    <2>2. layout(k)[j].offset = IF j = 1 THEN 0 ELSE gap + step * (j - 2)
      BY <1>1, <2>1, BlockFacts
    <2>3. j # 1 => step * (j - 2) \in Nat
      BY <1>1, <2>1
    <2>4. QED
      BY <1>1, <2>2, <2>3 DEF Place
  <1>4. /\ DefOf(k, i).size \in Nat
        /\ DefOf(k, i).size <= IF i = 1 THEN 1024 ELSE step
    BY <1>1, BlockFacts
  <1>5. CASE i = 1
    <2>1. Place(k, i) = base
      BY <1>3, <1>5
    <2>2. most * step \in Nat
      BY <1>1
    <2>3. base + DefOf(k, i).size < 8388608
      BY <1>1, <1>4, <1>5, <2>2
    <2>4. ASSUME NEW j \in (i + 1)..(1 + items(k))
          PROVE  base + DefOf(k, i).size <= Place(k, j)
      <3>1. j \in 1..(1 + items(k)) /\ j # 1 /\ j - 2 \in Nat
        BY <1>2, <1>5
      <3>2. Place(k, j) = base + gap + step * (j - 2)
            /\ step * (j - 2) \in Nat
        <4>1. \A x, y \in Nat : x * y \in Nat
          OBVIOUS
        <4>2. step * (j - 2) \in Nat
          BY <1>1, <3>1, <4>1
        <4>3. Place(k, j) = base + gap + step * (j - 2)
          BY <1>3, <3>1
        <4>4. QED
          BY <4>2, <4>3
      <3>3. QED
        BY <1>1, <1>4, <1>5, <3>2
    <2>5. QED
      BY <1>1, <2>1, <2>3, <2>4
  <1>6. CASE i # 1
    <2> DEFINE m == i - 2
    <2>1. m \in Nat /\ m + 1 <= items(k) /\ m + 1 <= most
      BY <1>1, <1>2, <1>6
    <2>2. Place(k, i) = base + gap + step * m
      BY <1>3, <1>6
    <2> HIDE DEF m
    <2>3. step * m \in Nat /\ step * m + step = step * (m + 1)
      BY <1>1, <2>1
    <2>4. step * (m + 1) <= most * step
      BY <1>1, <2>1
    <2>5. base + gap + step * m + DefOf(k, i).size < 8388608
      BY <1>1, <1>4, <1>6, <2>1, <2>3, <2>4
    <2>6. ASSUME NEW j \in (i + 1)..(1 + items(k))
          PROVE  Place(k, i) + DefOf(k, i).size <= Place(k, j)
      <3> DEFINE n == j - 2
      <3>1. j \in 1..(1 + items(k)) /\ j # 1 /\ n \in Nat /\ m + 1 <= n
        BY <1>2, <1>6 DEF m
      <3>2. Place(k, j) = base + gap + step * n
        BY <1>3, <3>1
      <3> HIDE DEF n
      <3>3. step * (m + 1) <= step * n /\ step * n \in Nat
        BY <1>1, <2>1, <3>1
      <3>4. QED
        BY <1>1, <1>4, <1>6, <2>2, <2>3, <3>2, <3>3
    <2>7. QED
      BY <1>1, <2>2, <2>3, <2>5, <2>6
  <1>7. QED
    BY <1>5, <1>6

(* What lies within a block is let through, all of it.                     *)
LEMMA LetThrough ==
    ASSUME NEW k \in Kinds, k # "system",
           NEW i \in FirstBlock(k)..(1 + items(k)),
           NEW o \in Nat, NEW n \in Nat, n > 0, o + n <= DefOf(k, i).size
    PROVE  LET a == Place(k, i) + o
           IN /\ a \in Nat /\ SpanFits(a, n)
              /\ classify_range(a, n) = "temporary"
              /\ inside_temp_patch_block(a, n)
              /\ \A x \in a..(a + n - 1) : classify(x) = "temporary"
  <1> DEFINE p == Place(k, i)
             a == p + o
             size == DefOf(k, i).size
  <1>1. i \in 1..(1 + items(k))
    BY LayoutFacts DEF FirstBlock
  <1>2. p \in Nat /\ p >= 2097152 /\ p + size < 8388608 /\ size \in Nat
    BY <1>1, PlaceFacts, BlockFacts
  <1> HIDE DEF p
  <1>3. a \in Nat /\ a >= 2097152 /\ a + n < 8388608 /\ a + n - 1 \in Nat
    BY <1>2
  <1>4. \A x \in a..(a + n - 1) : classify(x) = "temporary"
    <2>1. ASSUME NEW x \in a..(a + n - 1) PROVE classify(x) = "temporary"
      <3>1. x \in Nat /\ 2097152 <= x /\ x < 8388608
        BY <1>3
      <3>2. QED
        BY <3>1, TempAddress
    <2>2. QED
      BY <2>1
  <1>5. SpanFits(a, n)
    BY <1>3 DEF SpanFits, MAX_COMPACT
  <1>6. classify_range(a, n) = "temporary"
    <2>1. a \in a..(a + n - 1) /\ a + n - 1 \in a..(a + n - 1)
      BY <1>3
    <2>2. classify(a) = "temporary" /\ classify(a + n - 1) = "temporary"
      BY <1>4, <2>1
    <2>3. QED
      BY <1>5, <2>2 DEF classify_range
  <1>7. inside_temp_patch_block(a, n)
    <2> DEFINE l == layout(k)[i]
    <2>1. temp_base(k) + l.offset = p /\ l.def.size = size
      BY <1>1, BlockFacts DEF p, Place
    <2> HIDE DEF l
    <2>2. a >= temp_base(k) + l.offset
      BY <1>2, <2>1
    <2>3. a + n <= temp_base(k) + l.offset + l.def.size
      BY <1>2, <2>1
    <2>4. k \in Kinds \ {"system"}
      OBVIOUS
    <2>5. QED
      BY <2>2, <2>3, <2>4 DEF inside_temp_patch_block, l
  <1>8. QED
    BY <1>3, <1>4, <1>5, <1>6, <1>7 DEF p

(* No two blocks share an address.                                         *)
LEMMA Apart ==
    ASSUME NEW k \in Kinds, k # "system",
           NEW i \in 1..(1 + items(k)), NEW j \in 1..(1 + items(k)),
           NEW b \in 1..DefOf(k, i).size, NEW c \in 1..DefOf(k, j).size,
           Place(k, i) + b = Place(k, j) + c
    PROVE  i = j /\ b = c
  <1>1. items(k) \in Nat
    BY LayoutFacts
  <1>2. /\ Place(k, i) \in Nat /\ Place(k, j) \in Nat
        /\ DefOf(k, i).size \in Nat /\ DefOf(k, j).size \in Nat
    BY PlaceFacts, BlockFacts
  <1>3. ~(i < j)
    <2>1. ASSUME i < j PROVE FALSE
      <3>1. j \in (i + 1)..(1 + items(k))
        BY <1>1, <2>1
      <3>2. Place(k, i) + DefOf(k, i).size <= Place(k, j)
        BY <3>1, PlaceFacts
      <3>3. QED
        BY <1>2, <3>2
    <2>2. QED
      BY <2>1
  <1>4. ~(j < i)
    <2>1. ASSUME j < i PROVE FALSE
      <3>1. i \in (j + 1)..(1 + items(k))
        BY <1>1, <2>1
      <3>2. Place(k, j) + DefOf(k, j).size <= Place(k, i)
        BY <3>1, PlaceFacts
      <3>3. QED
        BY <1>2, <3>2
    <2>2. QED
      BY <2>1
  <1>5. i = j
    BY <1>1, <1>3, <1>4
  <1>6. QED
    BY <1>2, <1>5

-----------------------------------------------------------------------------
(* Frames that carry bytes of a document to their place.                   *)

(* Bytes o + 1 and on of block i, as they are in the document ...          *)
PieceOf(d, i, o, data) ==
    /\ i \in FirstBlock(d.kind)..(1 + items(d.kind))
    /\ o \in Nat /\ data \in Seq(SevenBit)
    /\ o + Len(data) <= DefOf(d.kind, i).size
    /\ \A m \in 1..Len(data) : data[m] = d.blocks[i][o + m]

(* ... in one message.                                                     *)
Carries(f, d, i, o, data) ==
    /\ PieceOf(d, i, o, data)
    /\ Len(data) > 0 /\ Len(data) <= MAX_DT1_DATA_TO_DEVICE
    /\ f = encode(Dt1(Place(d.kind, i) + o, data), DEVICE)
FrameOf(d, f)       == \E i, o, data : Carries(f, d, i, o, data)
Covers(f, d, i, b)  == \E o, data : /\ Carries(f, d, i, o, data)
                                    /\ b \in (o + 1)..(o + Len(data))

Temporary(memory)   == \A a \in DOMAIN memory : classify(a) = "temporary"
Holds(memory, d, i, b) ==
    /\ Place(d.kind, i) + b - 1 \in DOMAIN memory
    /\ memory[Place(d.kind, i) + b - 1] = d.blocks[i][b]

LEMMA MessageHeard ==
    ASSUME NEW d, d.kind \in Kinds, d.kind # "system",
           NEW i, NEW o, NEW data, NEW f, Carries(f, d, i, o, data)
    PROVE  /\ send_temp_frame(f)
           /\ Record(f).address = Place(d.kind, i) + o /\ Record(f).data = data
           /\ \A x \in (Place(d.kind, i) + o)
                       ..(Place(d.kind, i) + o + Len(data) - 1) :
                classify(x) = "temporary"
  <1> DEFINE a == Place(d.kind, i) + o
             n == Len(data)
  <1>1. /\ i \in FirstBlock(d.kind)..(1 + items(d.kind))
        /\ o \in Nat /\ data \in Seq(SevenBit) /\ n > 0 /\ n \in Nat
        /\ o + n <= DefOf(d.kind, i).size
        /\ n <= MAX_DT1_DATA_TO_DEVICE /\ f = encode(Dt1(a, data), DEVICE)
    BY DEF Carries, PieceOf
  <1>2. /\ a \in Nat /\ SpanFits(a, n)
        /\ classify_range(a, n) = "temporary"
        /\ inside_temp_patch_block(a, n)
        /\ \A x \in a..(a + n - 1) : classify(x) = "temporary"
    BY <1>1, LetThrough
  <1>3. /\ Parses(f) /\ f[3] = DEVICE /\ MessageOf(f) = Dt1(a, data)
    BY <1>1, <1>2, ReadBack
  <1> HIDE DEF a, n
  <1>4. Record(f).address = a /\ Record(f).data = data
    BY <1>3 DEF Record, Dt1
  <1>5. Stored(f)
    BY <1>3 DEF Stored, IsDt1, Dt1
  <1>6. send_temp_frame(f)
    BY <1>1, <1>2, <1>3, <1>4, <1>5 DEF send_temp_frame, n
  <1>7. QED
    BY <1>2, <1>4, <1>6 DEF a, n

(* A frame of the document writes nothing but the document.                *)
LEMMA HearFrame ==
    ASSUME NEW d, d.kind \in Kinds, d.kind # "system", NEW f, FrameOf(d, f),
           NEW memory
    PROVE  /\ Temporary(memory) => Temporary(Hear(memory, f))
           /\ \A i \in 1..(1 + items(d.kind)) :
                \A b \in 1..DefOf(d.kind, i).size :
                  Holds(memory, d, i, b) \/ Covers(f, d, i, b)
                  => Holds(Hear(memory, f), d, i, b)
  <1>1. PICK j, p, sent : Carries(f, d, j, p, sent)
    BY DEF FrameOf
  <1> DEFINE r    == Record(f)
             a    == Place(d.kind, j) + p
             n    == Len(sent)
             span == a..(a + n - 1)
             now  == Hear(memory, f)
  <1>2. /\ j \in 1..(1 + items(d.kind)) /\ p \in Nat /\ n \in Nat /\ n > 0
        /\ p + n <= DefOf(d.kind, j).size
        /\ \A m \in 1..n : sent[m] = d.blocks[j][p + m]
    <2>1. FirstBlock(d.kind) \in 1..2
      BY DEF FirstBlock
    <2>2. items(d.kind) \in Nat
      BY LayoutFacts
    <2>3. QED
      BY <1>1, <2>1, <2>2 DEF Carries, PieceOf
  <1>3. /\ send_temp_frame(f) /\ r.address = a /\ r.data = sent
        /\ \A x \in span : classify(x) = "temporary"
    BY <1>1, MessageHeard
  <1>4. Place(d.kind, j) \in Nat /\ a \in Nat /\ DefOf(d.kind, j).size \in Nat
    BY <1>2, PlaceFacts, BlockFacts
  <1>5. now = [x \in DOMAIN memory \cup span |->
                 IF x \in span THEN sent[x - a + 1] ELSE memory[x]]
    BY <1>3 DEF Hear
  <1> HIDE DEF r, a, n, now
  <1>6. Temporary(memory) => Temporary(now)
    BY <1>3, <1>5 DEF Temporary
  <1>7. ASSUME NEW i \in 1..(1 + items(d.kind)),
               NEW b \in 1..DefOf(d.kind, i).size,
               Holds(memory, d, i, b) \/ Covers(f, d, i, b)
        PROVE  Holds(now, d, i, b)
    <2> DEFINE x == Place(d.kind, i) + b - 1
    <2>1. Place(d.kind, i) \in Nat /\ b \in Nat /\ b > 0 /\ x \in Nat
          /\ DefOf(d.kind, i).size \in Nat
      BY PlaceFacts, BlockFacts
    <2>2. CASE x \in span
      <3> DEFINE c == p + (x - a + 1)
      <3>1. x - a + 1 \in 1..n
        BY <1>2, <1>4, <2>1, <2>2
      <3>2. c \in 1..DefOf(d.kind, j).size /\ Place(d.kind, i) + b
              = Place(d.kind, j) + c
        BY <1>2, <1>4, <2>1, <3>1 DEF a
      <3> HIDE DEF c
      <3>3. i = j /\ b = c
        BY <1>2, <3>2, Apart
      <3>4. now[x] = sent[x - a + 1] /\ x \in DOMAIN now
        BY <1>5, <2>2
      <3>5. sent[x - a + 1] = d.blocks[j][p + (x - a + 1)]
        BY <1>2, <3>1
      <3>6. now[x] = d.blocks[i][b]
        BY <3>3, <3>4, <3>5 DEF c
      <3>7. QED
        BY <3>4, <3>6 DEF Holds
    <2>3. CASE x \notin span
      <3>1. ~Covers(f, d, i, b)
        <4>1. ASSUME NEW o, NEW data, Carries(f, d, i, o, data),
                     b \in (o + 1)..(o + Len(data))
              PROVE  FALSE
          <5>1. r.address = Place(d.kind, i) + o /\ r.data = data
            BY <4>1, MessageHeard DEF r
          <5>2. a = Place(d.kind, i) + o /\ n = Len(data) /\ o \in Nat
            BY <1>3, <4>1, <5>1 DEF Carries, PieceOf, n
          <5>3. x \in span
            BY SMTT(30), <1>2, <2>1, <4>1, <5>2
          <5>4. QED
            BY <2>3, <5>3
        <4>2. QED
          BY <4>1 DEF Covers
      <3>2. x \in DOMAIN memory /\ memory[x] = d.blocks[i][b]
        BY <1>7, <3>1 DEF Holds
      <3>3. x \in DOMAIN now /\ now[x] = memory[x]
        BY <1>5, <2>3, <3>2
      <3>4. QED
        BY <3>2, <3>3 DEF Holds
    <2>4. QED
      BY <2>2, <2>3
  <1>8. QED
    BY <1>6, <1>7 DEF now

(* One frame after the other.                                              *)
Hearing(memory, fs, n, g) ==
    g = [k \in 0..n |-> IF k = 0 THEN memory ELSE Hear(g[k - 1], fs[k])]
LEMMA HearingExists ==
    ASSUME NEW memory, NEW fs, NEW N \in Nat
    PROVE  \E g : Hearing(memory, fs, N, g)
  <1> DEFINE G == {m \in 0..N : \E g : Hearing(memory, fs, m, g)}
  <1>1. 0 \in G
    <2> DEFINE g == [k \in 0..0 |-> memory]
    <2>1. Hearing(memory, fs, 0, g)
      BY DEF Hearing
    <2>2. QED
      BY <2>1
  <1>2. ASSUME NEW m \in 1..N, m - 1 \in G PROVE m \in G
    <2>1. PICK g : Hearing(memory, fs, m - 1, g)
      BY <1>2
    <2> DEFINE h == [k \in 0..m |->
                       IF k = m THEN Hear(g[m - 1], fs[m]) ELSE g[k]]
    <2>2. \A k \in 0..m : /\ k # m => k \in 0..(m - 1)
                          /\ k # 0 => k - 1 \in 0..(m - 1)
                          /\ k - 1 # m
      OBVIOUS
    <2>3. \A k \in 0..(m - 1) :
             g[k] = IF k = 0 THEN memory ELSE Hear(g[k - 1], fs[k])
      BY <2>1 DEF Hearing
    <2>4. /\ h[m] = Hear(g[m - 1], fs[m]) /\ m # 0
          /\ \A k \in 0..(m - 1) : h[k] = g[k]
          /\ h = [k \in 0..m |-> h[k]]
      OBVIOUS
    <2> HIDE DEF h
    <2>5. \A k \in 0..m :
             h[k] = IF k = 0 THEN memory ELSE Hear(h[k - 1], fs[k])
      <3>1. ASSUME NEW k \in 0..m, k # m
            PROVE  h[k] = IF k = 0 THEN memory ELSE Hear(h[k - 1], fs[k])
        BY <2>2, <2>3, <2>4, <3>1
      <3>2. h[m] = Hear(h[m - 1], fs[m])
        <4>1. m - 1 \in 0..(m - 1)
          OBVIOUS
        <4>2. QED
          BY <2>4, <4>1
      <3>3. QED
        BY <2>4, <3>1, <3>2
    <2>6. Hearing(memory, fs, m, h)
      BY <2>4, <2>5 DEF Hearing
    <2>7. QED
      BY <2>6
  <1> HIDE DEF G
  <1>3. 0..N \subseteq G
    BY <1>1, <1>2, CountingUp
  <1>4. N \in 0..N
    OBVIOUS
  <1>5. QED
    BY <1>3, <1>4 DEF G

LEMMA HearFrames ==
    ASSUME NEW d, d.kind \in Kinds, d.kind # "system", NEW memory, NEW fs,
           Len(fs) \in Nat, \A n \in 1..Len(fs) : FrameOf(d, fs[n])
    PROVE  /\ Temporary(memory) => Temporary(HearAll(memory, fs))
           /\ \A i \in 1..(1 + items(d.kind)) :
                \A b \in 1..DefOf(d.kind, i).size :
                  \/ Holds(memory, d, i, b)
                  \/ \E n \in 1..Len(fs) : Covers(fs[n], d, i, b)
                  => Holds(HearAll(memory, fs), d, i, b)
  <1> DEFINE N == Len(fs)
             g == CHOOSE g : Hearing(memory, fs, N, g)
             Byte(i, b) == /\ i \in 1..(1 + items(d.kind))
                           /\ b \in 1..DefOf(d.kind, i).size
             Good(n) ==
               /\ Temporary(memory) => Temporary(g[n])
               /\ \A i, b : /\ Byte(i, b)
                            /\ \/ Holds(memory, d, i, b)
                               \/ \E m \in 1..n : Covers(fs[m], d, i, b)
                            => Holds(g[n], d, i, b)
             G == {n \in 0..N : Good(n)}
  <1>1. HearAll(memory, fs) = g[N]
    BY DEF HearAll, Hearing
  <1>2. Hearing(memory, fs, N, g)
    BY HearingExists
  <1> HIDE DEF g
  <1>3. \A n \in 0..N : g[n] = IF n = 0 THEN memory ELSE Hear(g[n - 1], fs[n])
    BY <1>2 DEF Hearing
  <1>4. 0 \in G
    <2>1. g[0] = memory /\ 0 \in 0..N /\ ~\E m \in 1..0 : TRUE
      BY <1>3
    <2>2. QED
      BY <2>1
  <1>5. ASSUME NEW n \in 1..N, n - 1 \in G PROVE n \in G
    <2>1. n \in 0..N /\ n # 0 /\ g[n] = Hear(g[n - 1], fs[n])
      BY <1>3
    <2>2. Good(n - 1)
      BY <1>5
    <2>3. /\ Temporary(g[n - 1]) => Temporary(g[n])
          /\ \A i, b : Byte(i, b) =>
               (Holds(g[n - 1], d, i, b) \/ Covers(fs[n], d, i, b)
                => Holds(g[n], d, i, b))
      BY <2>1, HearFrame
    <2>4. \A m \in 1..n : m = n \/ m \in 1..(n - 1)
      OBVIOUS
    <2> HIDE DEF Byte
    <2>5. Temporary(memory) => Temporary(g[n])
      BY <2>2, <2>3
    <2>6. ASSUME NEW i, NEW b, Byte(i, b),
                 \/ Holds(memory, d, i, b)
                 \/ \E m \in 1..n : Covers(fs[m], d, i, b)
          PROVE  Holds(g[n], d, i, b)
      <3>1. Holds(g[n - 1], d, i, b) \/ Covers(fs[n], d, i, b)
        BY <2>2, <2>4, <2>6
      <3>2. QED
        BY <2>3, <2>6, <3>1
    <2>7. Good(n)
      BY <2>5, <2>6
    <2>8. QED
      BY <2>1, <2>7
  <1> HIDE DEF G
  <1>6. 0..N \subseteq G /\ N \in 0..N
    <2>1. 0..N \subseteq G
      BY <1>4, <1>5, CountingUp
    <2>2. QED
      BY <2>1
  <1>7. Good(N)
    BY <1>6 DEF G
  <1>8. QED
    BY <1>1, <1>7

-----------------------------------------------------------------------------
(* What is in sequences that are put one behind the other.                 *)

LEMMA CountedSeq ==
    ASSUME NEW n \in Nat, NEW T, NEW s \in [1..n -> T]
    PROVE  s \in Seq(T) /\ s \in Seq(ToSet(s)) /\ Len(s) = n
  <1>1. DOMAIN s = 1..n
    OBVIOUS
  <1>2. \A k \in 1..n : s[k] \in ToSet(s)
    BY <1>1 DEF ToSet
  <1>3. s \in [1..n -> ToSet(s)]
    BY <1>2
  <1>4. ASSUME NEW U, s \in [1..n -> U] PROVE s \in Seq(U) /\ Len(s) = n
    BY <1>4
  <1>5. s \in Seq(T) /\ Len(s) = n
    BY <1>4
  <1>6. s \in Seq(ToSet(s))
    BY <1>3, <1>4
  <1>7. QED
    BY <1>5, <1>6

LEMMA ToSetConcat ==
    ASSUME NEW S, NEW s \in Seq(S), NEW t \in Seq(S)
    PROVE  ToSet(s \o t) = ToSet(s) \cup ToSet(t)
  <1>1. /\ s \o t \in Seq(S) /\ Len(s \o t) = Len(s) + Len(t)
        /\ \A i \in 1..(Len(s) + Len(t)) :
             (s \o t)[i] = IF i <= Len(s) THEN s[i] ELSE t[i - Len(s)]
    BY ConcatProperties
  <1> DEFINE st == s \o t
  <1>2. /\ ToSet(s) = {s[i] : i \in 1..Len(s)}
        /\ ToSet(t) = {t[i] : i \in 1..Len(t)}
        /\ ToSet(st) = {st[i] : i \in 1..(Len(s) + Len(t))}
    BY <1>1 DEF ToSet
  <1> HIDE DEF st
  <1>3. \A i \in 1..(Len(s) + Len(t)) :
           st[i] = IF i <= Len(s) THEN s[i] ELSE t[i - Len(s)]
    BY <1>1 DEF st
  <1>4. Len(s) \in Nat /\ Len(t) \in Nat
    OBVIOUS
  <1>5. ASSUME NEW i \in 1..(Len(s) + Len(t))
        PROVE  st[i] \in ToSet(s) \cup ToSet(t)
    <2>1. CASE i <= Len(s)
      <3>1. i \in 1..Len(s) /\ st[i] = s[i]
        BY <1>3, <1>4, <2>1
      <3>2. QED
        BY <1>2, <3>1
    <2>2. CASE ~(i <= Len(s))
      <3>1. i - Len(s) \in 1..Len(t) /\ st[i] = t[i - Len(s)]
        BY <1>3, <1>4, <2>2
      <3>2. QED
        BY <1>2, <3>1
    <2>3. QED
      BY <2>1, <2>2
  <1>6. ASSUME NEW i \in 1..Len(s) PROVE s[i] \in ToSet(st)
    <2>1. i \in 1..(Len(s) + Len(t)) /\ i <= Len(s)
      BY <1>4
    <2>2. st[i] = s[i]
      BY <1>3, <2>1
    <2>3. QED
      BY <1>2, <2>1, <2>2
  <1>7. ASSUME NEW i \in 1..Len(t) PROVE t[i] \in ToSet(st)
    <2>1. /\ Len(s) + i \in 1..(Len(s) + Len(t)) /\ ~(Len(s) + i <= Len(s))
          /\ (Len(s) + i) - Len(s) = i
      BY <1>4
    <2>2. st[Len(s) + i] = t[(Len(s) + i) - Len(s)]
      BY <1>3, <2>1
    <2>3. QED
      BY <1>2, <2>1, <2>2
  <1>8. ToSet(st) = ToSet(s) \cup ToSet(t)
    <2>1. ToSet(st) \subseteq ToSet(s) \cup ToSet(t)
      BY <1>2, <1>5
    <2>2. ToSet(s) \subseteq ToSet(st) /\ ToSet(t) \subseteq ToSet(st)
      BY <1>2, <1>6, <1>7
    <2>3. QED
      BY <2>1, <2>2
  <1>9. QED
    BY <1>8 DEF st

LEMMA FlattenElements ==
    ASSUME NEW N \in Nat, NEW T, NEW s \in [1..N -> T],
           \A i \in 1..N : s[i] \in Seq(ToSet(s[i]))
    PROVE  /\ FlattenSeq(s) \in Seq(ToSet(FlattenSeq(s)))
           /\ ToSet(FlattenSeq(s)) = UNION {ToSet(s[i]) : i \in 1..N}
  <1> DEFINE S == UNION {ToSet(s[i]) : i \in 1..N}
             upto(n) == UNION {ToSet(s[i]) : i \in 1..n}
  <1>1. \A i \in 1..N : s[i] \in Seq(S)
    <2>1. ASSUME NEW i \in 1..N PROVE s[i] \in Seq(S)
      <3>1. ToSet(s[i]) \subseteq S
        OBVIOUS
      <3> HIDE DEF S
      <3>2. QED
        BY <3>1, SeqMonotonic
    <2>2. QED
      BY <2>1
  <1> HIDE DEF S
  <1>2. s \in Seq(Seq(S)) /\ Len(s) = N
    <2>1. s \in [1..N -> Seq(S)]
      BY <1>1
    <2>2. QED
      BY <2>1
  <1>3. CASE N = 0
    <2>1. FlattenSeq(s) = s
      BY <1>2, <1>3 DEF FlattenSeq
    <2>2. s \in Seq(ToSet(s)) /\ DOMAIN s = {}
      <3>1. DOMAIN s = 1..N
        OBVIOUS
      <3>2. QED
        BY <1>3, <3>1, CountedSeq
    <2>3. ToSet(s) = {} /\ UNION {ToSet(s[i]) : i \in 1..N} = {}
      BY <1>3, <2>2 DEF ToSet
    <2>4. QED
      BY <2>1, <2>2, <2>3
  <1>4. CASE N # 0
    <2>1. s # <<>>
      BY <1>2, <1>4
    <2>2. PICK f : /\ FlattenSeq(s) = f[N] /\ f[1] = s[1]
                   /\ \A i \in 2..N : f[i] = f[i - 1] \o s[i]
      BY <1>2, <2>1, FlattenFacts
    <2> DEFINE Good(n) == n > 0 => f[n] \in Seq(S) /\ ToSet(f[n]) = upto(n)
               G == {n \in 0..N : Good(n)}
    <2>3. 0 \in G
      OBVIOUS
    <2>4. ASSUME NEW n \in 1..N, n - 1 \in G PROVE n \in G
      <3>1. CASE n = 1
        <4>1. upto(n) = ToSet(s[1])
          BY <3>1
        <4>2. QED
          BY <1>1, <2>2, <3>1, <4>1
      <3>2. CASE n # 1
        <4>1. n - 1 > 0 /\ n \in 2..N
          BY <3>2
        <4>2. f[n - 1] \in Seq(S) /\ ToSet(f[n - 1]) = upto(n - 1)
          BY <2>4, <4>1
        <4>3. f[n] = f[n - 1] \o s[n] /\ s[n] \in Seq(S)
          BY <1>1, <2>2, <4>1
        <4>4. f[n] \in Seq(S)
          BY <4>2, <4>3, ConcatProperties
        <4>5. ToSet(f[n]) = upto(n - 1) \cup ToSet(s[n])
          BY <4>2, <4>3, ToSetConcat
        <4>6. 1..n = (1..(n - 1)) \cup {n}
          OBVIOUS
        <4>7. upto(n) = upto(n - 1) \cup ToSet(s[n])
          BY <4>6
        <4> HIDE DEF upto
        <4>8. Good(n)
          BY <4>4, <4>5, <4>7
        <4> HIDE DEF Good
        <4>9. QED
          BY <4>8
      <3>3. QED
        BY <3>1, <3>2
    <2> HIDE DEF G
    <2>5. N \in G
      <3>1. 0..N \subseteq G
        BY <2>3, <2>4, CountingUp
      <3>2. QED
        BY <3>1
    <2>6. f[N] \in Seq(S) /\ ToSet(f[N]) = upto(N)
      BY <1>4, <2>5 DEF G
    <2>7. f[N] \in Seq(ToSet(f[N]))
      <3>1. ToSet(f[N]) = S
        BY <2>6 DEF S
      <3>2. QED
        BY <2>6, <3>1
    <2>8. QED
      BY <2>2, <2>6, <2>7
  <1>5. QED
    BY <1>3, <1>4

-----------------------------------------------------------------------------
(* Pieces of pieces.                                                       *)

LEMMA DivFacts ==
    ASSUME NEW x \in Nat, NEW n \in Nat, n > 0
    PROVE  /\ x \div n \in Nat /\ (x \div n) * n <= x
           /\ x < (x \div n) * n + n
  OBVIOUS
LEMMA TimesFacts ==
    /\ \A x, n \in Nat : x * n \in Nat /\ (x + 1) * n = x * n + n
    /\ \A x, y, n \in Nat : x * n < y * n => x < y
    /\ \A x, y, n \in Nat : x <= y => x * n <= y * n
  <1>1. \A x, n \in Nat : x * n \in Nat /\ (x + 1) * n = x * n + n
    OBVIOUS
  <1>2. \A x, y, n \in Nat : x * n < y * n => x < y
    OBVIOUS
  <1>3. \A x, y, n \in Nat : x <= y => x * n <= y * n
    OBVIOUS
  <1>4. QED
    BY <1>1, <1>2, <1>3

(* Piece p of L bytes cut into pieces of n: where it begins and ends.      *)
LEMMA CutFacts ==
    ASSUME NEW L \in Nat, NEW n \in Nat, n > 0
    PROVE  /\ CeilDiv(L, n) \in Nat
           /\ \A p \in 1..CeilDiv(L, n) :
                /\ (p - 1) * n \in Nat /\ (p - 1) * n < L
                /\ AtMost(p * n, L) \in Nat
                /\ AtMost(p * n, L) > (p - 1) * n
                /\ AtMost(p * n, L) <= L
                /\ AtMost(p * n, L) <= (p - 1) * n + n
           /\ \A q \in 1..L : \E p \in 1..CeilDiv(L, n) :
                q \in ((p - 1) * n + 1)..AtMost(p * n, L)
  <1> DEFINE x == L + n - 1
             C == CeilDiv(L, n)
  <1>1. x \in Nat /\ C = x \div n
    BY DEF CeilDiv
  <1>2. C \in Nat /\ C * n <= x /\ x < C * n + n
    BY <1>1, DivFacts
  <1> HIDE DEF C
  <1>3. ASSUME NEW p \in 1..C
        PROVE  /\ (p - 1) * n \in Nat /\ (p - 1) * n < L
               /\ AtMost(p * n, L) \in Nat
               /\ AtMost(p * n, L) > (p - 1) * n
               /\ AtMost(p * n, L) <= L
               /\ AtMost(p * n, L) <= (p - 1) * n + n
    <2>1. p - 1 \in Nat /\ p \in Nat /\ p <= C /\ (p - 1) + 1 = p
      BY <1>2
    <2>2. (p - 1) * n \in Nat /\ p * n = (p - 1) * n + n /\ p * n <= C * n
      BY <1>2, <2>1, TimesFacts
    <2>3. (p - 1) * n < L
      BY <1>2, <2>2
    <2>4. QED
      BY <2>2, <2>3 DEF AtMost
  <1>4. ASSUME NEW q \in 1..L
        PROVE  \E p \in 1..C : q \in ((p - 1) * n + 1)..AtMost(p * n, L)
    <2> DEFINE m == (q - 1) \div n
               p == m + 1
    <2>1. q - 1 \in Nat
      OBVIOUS
    <2>2. m \in Nat /\ m * n <= q - 1 /\ q - 1 < m * n + n
      BY <2>1, DivFacts
    <2> HIDE DEF m
    <2>3. p * n = m * n + n /\ m * n \in Nat /\ (C + 1) * n = C * n + n
      BY <1>2, <2>2, TimesFacts
    <2>4. p * n < (C + 1) * n
      BY <1>2, <2>2, <2>3
    <2>5. p < C + 1
      BY <1>2, <2>2, <2>4, TimesFacts
    <2>6. p \in 1..C /\ p - 1 = m
      BY <1>2, <2>2, <2>5
    <2>7. q \in (m * n + 1)..AtMost(p * n, L)
      BY <2>2, <2>3 DEF AtMost
    <2>8. QED
      BY <2>6, <2>7
  <1>5. QED
    BY <1>2, <1>3, <1>4 DEF C

(* A part of a piece is a piece.                                           *)
LEMMA PartOfPiece ==
    ASSUME NEW d, NEW i, NEW o, NEW data, PieceOf(d, i, o, data),
           NEW l \in Nat, NEW h \in Nat, l < h, h <= Len(data),
           DefOf(d.kind, i).size \in Nat
    PROVE  LET t == SubSeq(data, l + 1, h)
           IN PieceOf(d, i, o + l, t) /\ Len(t) = h - l
  <1> DEFINE t == SubSeq(data, l + 1, h)
  <1>1. /\ o \in Nat /\ data \in Seq(SevenBit) /\ Len(data) \in Nat
        /\ o + Len(data) <= DefOf(d.kind, i).size
        /\ i \in FirstBlock(d.kind)..(1 + items(d.kind))
        /\ \A m \in 1..Len(data) : data[m] = d.blocks[i][o + m]
    BY DEF PieceOf
  <1>2. \A m \in (l + 1)..h : data[m] \in SevenBit
    BY <1>1
  <1>3. /\ t \in Seq(SevenBit)
        /\ Len(t) = IF l + 1 <= h THEN h - (l + 1) + 1 ELSE 0
        /\ \A m \in 1..(h - (l + 1) + 1) : t[m] = data[l + 1 + m - 1]
    BY <1>2, SubSeqProperties
  <1> HIDE DEF t
  <1>4. Len(t) = h - l /\ h - l > 0
    BY <1>3
  <1>5. ASSUME NEW m \in 1..Len(t) PROVE t[m] = d.blocks[i][o + l + m]
    <2>1. /\ m \in 1..(h - (l + 1) + 1) /\ l + 1 + m - 1 = l + m
          /\ l + m \in 1..Len(data) /\ o + (l + m) = o + l + m
      BY <1>1, <1>4
    <2>2. t[m] = data[l + m]
      BY <1>3, <2>1
    <2>3. data[l + m] = d.blocks[i][o + (l + m)]
      BY <1>1, <2>1
    <2>4. QED
      BY <2>1, <2>2, <2>3
  <1>6. o + l \in Nat /\ o + l + Len(t) <= DefOf(d.kind, i).size
    <2>1. o + l + Len(t) = o + h
      BY <1>1, <1>4
    <2>2. QED
      BY <1>1, <2>1
  <1>7. QED
    BY <1>1, <1>3, <1>4, <1>5, <1>6 DEF PieceOf, t

(* A piece that is split is carried, every byte of it, by its frames.      *)
LEMMA SplitFacts ==
    ASSUME NEW d, d.kind \in Kinds, d.kind # "system",
           NEW i, NEW o, NEW data, PieceOf(d, i, o, data),
           NEW n \in Nat, n > 0, n <= MAX_DT1_DATA_TO_DEVICE
    PROVE  LET s == split_dt1(Place(d.kind, i) + o, data, n)
           IN /\ s \in Seq(ToSet(s))
              /\ \A m \in ToSet(s) : FrameOf(d, encode(m, DEVICE))
              /\ \A b \in (o + 1)..(o + Len(data)) : \E m \in ToSet(s) :
                   Covers(encode(m, DEVICE), d, i, b)
  <1> DEFINE a == Place(d.kind, i) + o
             L == Len(data)
             C == CeilDiv(L, n)
             l(p) == (p - 1) * n
             h(p) == AtMost(p * n, L)
             t(p) == SubSeq(data, l(p) + 1, h(p))
             s == split_dt1(a, data, n)
  <1>1. /\ o \in Nat /\ L \in Nat /\ i \in 1..(1 + items(d.kind))
        /\ o + L <= DefOf(d.kind, i).size
    <2>1. FirstBlock(d.kind) \in 1..2 /\ items(d.kind) \in Nat
      BY LayoutFacts DEF FirstBlock
    <2>2. QED
      BY <2>1 DEF PieceOf
  <1>2. Place(d.kind, i) \in Nat /\ DefOf(d.kind, i).size \in Nat
    BY <1>1, PlaceFacts, BlockFacts
  <1>3. /\ C \in Nat
        /\ \A p \in 1..C : /\ l(p) \in Nat /\ l(p) < L
                           /\ h(p) \in Nat /\ h(p) > l(p) /\ h(p) <= L
                           /\ h(p) <= l(p) + n
        /\ \A q \in 1..L : \E p \in 1..C : q \in (l(p) + 1)..h(p)
    BY <1>1, CutFacts
  <1>4. s = [p \in 1..C |-> Dt1(a + l(p), t(p))]
    BY DEF split_dt1
  <1> HIDE DEF C, s, l, h
  <1>5. s \in Seq(ToSet(s)) /\ ToSet(s) = {s[p] : p \in 1..C}
    <2>1. DOMAIN s = 1..C
      BY <1>4
    <2>2. ToSet(s) = {s[p] : p \in 1..C}
      BY <2>1 DEF ToSet
    <2>3. s \in [1..C -> ToSet(s)]
      <3>1. \A p \in 1..C : s[p] \in ToSet(s)
        BY <2>2
      <3>2. s = [p \in 1..C |-> s[p]]
        BY <1>4
      <3>3. QED
        BY <3>1, <3>2
    <2>4. QED
      BY <1>3, <2>2, <2>3, CountedSeq
  <1>6. ASSUME NEW p \in 1..C
        PROVE  /\ Carries(encode(s[p], DEVICE), d, i, o + l(p), t(p))
               /\ Len(t(p)) = h(p) - l(p)
    <2>0. /\ l(p) \in Nat /\ h(p) \in Nat /\ l(p) < h(p) /\ h(p) <= Len(data)
          /\ h(p) - l(p) <= n
      BY <1>1, <1>3
    <2>1. PieceOf(d, i, o + l(p), t(p)) /\ Len(t(p)) = h(p) - l(p)
      BY <1>2, <2>0, PartOfPiece
    <2>2. Len(t(p)) <= MAX_DT1_DATA_TO_DEVICE
      <3>1. MAX_DT1_DATA_TO_DEVICE \in Nat
        BY SysexAssumption
      <3>2. QED
        BY <2>0, <2>1, <3>1
    <2>3. s[p] = Dt1(Place(d.kind, i) + (o + l(p)), t(p))
      <3>1. Place(d.kind, i) + o + l(p) = Place(d.kind, i) + (o + l(p))
        BY <1>1, <1>2, <1>3
      <3>2. QED
        BY <1>4, <3>1
    <2>4. Len(t(p)) > 0
      BY <2>0, <2>1
    <2>5. QED
      BY <2>1, <2>2, <2>3, <2>4 DEF Carries
  <1>7. \A p \in 1..C : FrameOf(d, encode(s[p], DEVICE))
    BY <1>6 DEF FrameOf
  <1>8. ASSUME NEW b \in (o + 1)..(o + L)
        PROVE  \E p \in 1..C : Covers(encode(s[p], DEVICE), d, i, b)
    <2>1. b - o \in 1..L
      BY <1>1
    <2>2. PICK p \in 1..C : b - o \in (l(p) + 1)..h(p)
      BY <1>3, <2>1
    <2>3. b \in (o + l(p) + 1)..(o + l(p) + Len(t(p)))
      <3>1. l(p) \in Nat /\ h(p) \in Nat /\ Len(t(p)) = h(p) - l(p)
        BY <1>3, <1>6
      <3>2. QED
        BY <1>1, <2>2, <3>1
    <2>4. QED
      BY <1>6, <2>3 DEF Covers
  <1>9. QED
    BY <1>3, <1>5, <1>7, <1>8 DEF s

-----------------------------------------------------------------------------
(* What is sent of a document.                                             *)

AllOf(fs, d) == fs \in Seq(ToSet(fs)) /\ \A f \in ToSet(fs) : FrameOf(d, f)
CoveredBy(fs, d, i, b) == \E f \in ToSet(fs) : Covers(f, d, i, b)

(* A byte of a parameter that may be sent is 7-bit, and every byte of a    *)
(* valid block is one.                                                     *)
LEMMA SendableByte ==
    ASSUME NEW k \in Kinds, NEW i \in 1..(1 + items(k)),
           NEW j \in DOMAIN DefOf(k, i).params, NEW data,
           ~Issue(DefOf(k, i).params[j], data),
           NEW b \in BytesOf(DefOf(k, i).params[j])
    PROVE  data[b] \in SevenBit
  <1> DEFINE p == DefOf(k, i).params[j]
  <1>1. data[b] \in 0..(Unit(p) - 1)
    BY DEF Issue
  <1>2. Unit(p) = 16 \/ Unit(p) = 128
    BY DEF Unit
  <1> HIDE DEF p
  <1>3. QED
    BY <1>1, <1>2 DEF SevenBit

LEMMA ParamFacts ==
    ASSUME NEW k \in Kinds, NEW i \in 1..(1 + items(k)),
           NEW j \in DOMAIN DefOf(k, i).params
    PROVE  LET p == DefOf(k, i).params[j]
           IN /\ p.offset \in Nat /\ p.bytes \in Nat /\ p.bytes > 0
              /\ p.offset + p.bytes <= DefOf(k, i).size
              /\ p.bytes <= MAX_DT1_DATA_TO_DEVICE
              /\ BytesOf(p) \subseteq 1..DefOf(k, i).size
  <1> DEFINE def == DefOf(k, i)
             p == def.params[j]
  <1>1. validate_block(def) /\ AllParameters(def) /\ def.size \in Nat
    BY BlockFacts
  <1> HIDE DEF def
  <1>2. /\ p.offset \in Nat /\ p.offset + p.bytes <= def.size
        /\ p.bytes \in 1..(IF p.encoding = "nibble" THEN MAX_NIBBLE_BYTES
                           ELSE 1)
    BY <1>1 DEF validate_block, def
  <1>3. p.bytes <= MAX_DT1_DATA_TO_DEVICE
    BY <1>1 DEF AllParameters, def
  <1> HIDE DEF p
  <1>4. p.bytes \in Nat /\ p.bytes > 0
    BY <1>2 DEF MAX_NIBBLE_BYTES
  <1>5. BytesOf(p) \subseteq 1..def.size
    BY <1>1, <1>2, <1>4 DEF BytesOf
  <1>6. QED
    BY <1>2, <1>3, <1>4, <1>5 DEF p, def

LEMMA ValidBlock ==
    ASSUME NEW d, IsDocument(d), ~Invalid(d), NEW i \in 1..(1 + items(d.kind))
    PROVE  /\ d.blocks[i] \in Seq(SevenBit)
           /\ Len(d.blocks[i]) = DefOf(d.kind, i).size
  <1> DEFINE data == d.blocks[i]
             def  == DefOf(d.kind, i)
  <1>1. /\ d.kind \in Kinds /\ i \in DOMAIN d.blocks
        /\ IsBytes(data, def.size)
    BY LayoutFacts DEF IsDocument
  <1>2. def.size \in Nat /\ AllParameters(def)
    BY <1>1, BlockFacts
  <1>3. ASSUME NEW b \in 1..def.size PROVE data[b] \in SevenBit
    <2>1. PICK j \in DOMAIN def.params : b \in BytesOf(def.params[j])
      BY <1>2 DEF AllParameters
    <2>2. def.params[j] \in ToSet(def.params)
      BY DEF ToSet
    <2>3. ~Issue(def.params[j], data)
      BY <1>1, <2>2 DEF Invalid
    <2>4. QED
      BY <1>1, <2>1, <2>3, SendableByte
  <1> HIDE DEF def
  <1>4. data \in [1..def.size -> ToSet(data)]
    BY <1>1 DEF IsBytes
  <1> HIDE DEF data
  <1>5. data \in [1..def.size -> SevenBit]
    BY <1>3, <1>4
  <1>6. data \in Seq(SevenBit) /\ Len(data) = def.size
    BY <1>2, <1>5, CountedSeq
  <1>7. QED
    BY <1>6 DEF data, def

LEMMA ValidPiece ==
    ASSUME NEW d, IsDocument(d), ~Invalid(d),
           NEW i \in FirstBlock(d.kind)..(1 + items(d.kind))
    PROVE  PieceOf(d, i, 0, d.blocks[i])
  <1>1. i \in 1..(1 + items(d.kind))
    <2>1. d.kind \in Kinds
      BY DEF IsDocument
    <2>2. FirstBlock(d.kind) \in 1..2 /\ items(d.kind) \in Nat
      BY <2>1, LayoutFacts DEF FirstBlock
    <2>3. QED
      BY <2>2
  <1>2. /\ d.blocks[i] \in Seq(SevenBit)
        /\ Len(d.blocks[i]) = DefOf(d.kind, i).size
    BY <1>1, ValidBlock
  <1> DEFINE data == d.blocks[i]
  <1>3. 0 + Len(data) <= DefOf(d.kind, i).size
    BY <1>2
  <1>4. \A m \in 1..Len(data) : data[m] = d.blocks[i][0 + m]
    OBVIOUS
  <1>5. QED
    BY <1>2, <1>3, <1>4 DEF PieceOf

(* The frames of messages.                                                 *)
LEMMA EncodedFacts ==
    ASSUME NEW ms, ms \in Seq(ToSet(ms)), NEW device
    PROVE  LET fs == [k \in DOMAIN ms |-> encode(ms[k], device)]
           IN /\ fs \in Seq(ToSet(fs))
              /\ ToSet(fs) = {encode(m, device) : m \in ToSet(ms)}
  <1> DEFINE n  == Len(ms)
             fs == [k \in DOMAIN ms |-> encode(ms[k], device)]
  <1>1. n \in Nat /\ DOMAIN ms = 1..n
    OBVIOUS
  <1> HIDE DEF n
  <1>2. DOMAIN fs = 1..n /\ \A k \in 1..n : fs[k] = encode(ms[k], device)
    BY <1>1
  <1>3. fs \in [1..n -> ToSet(fs)]
    <2>1. \A k \in 1..n : fs[k] \in ToSet(fs)
      BY <1>2 DEF ToSet
    <2>2. fs = [k \in 1..n |-> fs[k]]
      BY <1>1
    <2>3. QED
      BY <2>1, <2>2
  <1> HIDE DEF fs
  <1>4. fs \in Seq(ToSet(fs))
    BY <1>1, <1>3, CountedSeq
  <1>5. ToSet(fs) = {fs[k] : k \in 1..n} /\ ToSet(ms) = {ms[k] : k \in 1..n}
    BY <1>1, <1>2 DEF ToSet
  <1>6. {fs[k] : k \in 1..n} = {encode(m, device) : m \in {ms[k] : k \in 1..n}}
    BY <1>2
  <1>7. QED
    BY <1>4, <1>5, <1>6 DEF fs

(* All of a valid document that is sent is in the frames of the document.  *)
LEMMA PatchFrames ==
    ASSUME NEW d, IsDocument(d), ~Invalid(d), d.kind = kind,
           d.kind # "system"
    PROVE  /\ AllOf(patch_frames(d), d)
           /\ \A i \in FirstBlock(d.kind)..(1 + items(d.kind)) :
                \A b \in 1..DefOf(d.kind, i).size :
                  CoveredBy(patch_frames(d), d, i, b)
  <1> DEFINE F == FirstBlock(d.kind)
             N == 1 + items(d.kind)
             all == to_dt1(d, temp_base(d.kind))
             pieces == SubSeq(all, F, N)
             n == MAX_DT1_DATA_TO_DEVICE
             Split(q) == split_dt1(pieces[q].address, pieces[q].data, n)
             ss == [q \in DOMAIN pieces |-> Split(q)]
             ms == FlattenSeq(ss)
             M == IF F <= N THEN N - F + 1 ELSE 0
  <1>1. /\ d.kind \in Kinds /\ F \in 1..2 /\ N \in Nat /\ DOMAIN d.blocks = 1..N
    BY LayoutFacts DEF FirstBlock, IsDocument
  <1>2. n \in Nat /\ n > 0
    BY SysexAssumption
  <1>3. Len(d.blocks) = N
    <2>1. d.blocks \in [1..N -> ToSet(d.blocks)]
      BY <1>1 DEF IsDocument
    <2>2. QED
      BY <1>1, <2>1, CountedSeq
  <1>4. \A i \in 1..N :
           /\ all[i].address = temp_base(d.kind) + layout(d.kind)[i].offset
           /\ all[i].data = d.blocks[i]
    BY <1>1 DEF to_dt1
  <1> HIDE DEF F, N, all, n
  <1>5. /\ pieces \in Seq({all[i] : i \in F..N}) /\ Len(pieces) = M
        /\ \A q \in 1..M : pieces[q] = all[F + q - 1]
    <2> DEFINE A == {all[i] : i \in F..N}
    <2>1. \A i \in F..N : all[i] \in A
      OBVIOUS
    <2> HIDE DEF A
    <2>2. /\ pieces \in Seq(A)
          /\ Len(pieces) = IF F <= N THEN N - F + 1 ELSE 0
          /\ \A q \in 1..(N - F + 1) : pieces[q] = all[F + q - 1]
      BY <1>1, <2>1, SubSeqProperties
    <2> HIDE DEF pieces
    <2>3. 1..M \subseteq 1..(N - F + 1)
      BY <1>1
    <2>4. QED
      BY <2>2, <2>3 DEF A
  <1>6. M \in Nat /\ DOMAIN pieces = 1..M
    <2>1. M \in Nat
      BY <1>1
    <2> HIDE DEF pieces, M
    <2>2. QED
      BY <1>5, <2>1
  <1> HIDE DEF pieces
  <1>7. ASSUME NEW q \in 1..M
        PROVE  /\ Split(q) \in Seq(ToSet(Split(q)))
               /\ \A m \in ToSet(Split(q)) : FrameOf(d, encode(m, DEVICE))
               /\ \A b \in 1..DefOf(d.kind, F + q - 1).size :
                    \E m \in ToSet(Split(q)) :
                      Covers(encode(m, DEVICE), d, F + q - 1, b)
    <2> DEFINE i == F + q - 1
               a == Place(d.kind, i) + 0
    <2>1. i \in F..N /\ i \in 1..N
      BY <1>1
    <2> HIDE DEF i
    <2>2. Place(d.kind, i) \in Nat
      BY <1>1, <2>1, PlaceFacts DEF N
    <2>3. pieces[q].address = a /\ pieces[q].data = d.blocks[i]
      <3>1. pieces[q] = all[i]
        BY <1>5 DEF i
      <3>2. QED
        BY <1>4, <2>1, <2>2, <3>1 DEF Place
    <2>4. Split(q) = split_dt1(a, d.blocks[i], n)
      BY <2>3
    <2>5. PieceOf(d, i, 0, d.blocks[i])
      BY <2>1, ValidPiece DEF F, N
    <2>6. Len(d.blocks[i]) = DefOf(d.kind, i).size
      BY <2>1, ValidBlock DEF N
    <2>7. DefOf(d.kind, i).size \in Nat
      BY <1>1, <2>1, BlockFacts DEF N
    <2> DEFINE s == split_dt1(a, d.blocks[i], n)
    <2>0. d.kind \in Kinds /\ n <= MAX_DT1_DATA_TO_DEVICE
      BY <1>1, <1>2 DEF n
    <2>8. /\ s \in Seq(ToSet(s))
          /\ \A m \in ToSet(s) : FrameOf(d, encode(m, DEVICE))
          /\ \A b \in (0 + 1)..(0 + Len(d.blocks[i])) : \E m \in ToSet(s) :
               Covers(encode(m, DEVICE), d, i, b)
      BY <1>2, <2>0, <2>5, SplitFacts
    <2> HIDE DEF s
    <2>9. (0 + 1)..(0 + Len(d.blocks[i])) = 1..DefOf(d.kind, i).size
      BY <2>6, <2>7
    <2>10. Split(q) = s
      BY <2>4 DEF s
    <2> HIDE DEF Split
    <2>11. QED
      BY <2>8, <2>9, <2>10 DEF i
  <1> HIDE DEF Split
  <1>8. /\ ms \in Seq(ToSet(ms))
        /\ ToSet(ms) = UNION {ToSet(Split(q)) : q \in 1..M}
    <2>1. ss = [q \in 1..M |-> Split(q)]
      BY <1>6
    <2> HIDE DEF ss
    <2>2. /\ ss \in [1..M -> {Split(q) : q \in 1..M}]
          /\ \A q \in 1..M : ss[q] = Split(q)
      BY <2>1
    <2>3. \A q \in 1..M : ss[q] \in Seq(ToSet(ss[q]))
      BY <1>7, <2>2
    <2>4. /\ ms \in Seq(ToSet(ms))
          /\ ToSet(ms) = UNION {ToSet(ss[q]) : q \in 1..M}
      BY <1>6, <2>2, <2>3, FlattenElements
    <2>5. {ToSet(ss[q]) : q \in 1..M} = {ToSet(Split(q)) : q \in 1..M}
      BY <2>2
    <2>6. QED
      BY <2>4, <2>5
  <1> DEFINE fs == [k \in DOMAIN ms |-> encode(ms[k], DEVICE)]
  <1>9. patch_frames(d) = fs
    <2>1. FirstSent = F
      BY DEF FirstSent, F
    <2>2. QED
      BY <1>3, <2>1 DEF patch_frames, ss, Split, pieces, all, n
  <1> HIDE DEF ms
  <1>10. /\ fs \in Seq(ToSet(fs))
         /\ ToSet(fs) = {encode(m, DEVICE) : m \in ToSet(ms)}
    BY SMTT(30), <1>8, EncodedFacts
  <1> HIDE DEF fs
  <1>11. \A f \in ToSet(fs) : FrameOf(d, f)
    BY <1>7, <1>8, <1>10
  <1>12. ASSUME NEW i \in F..N, NEW b \in 1..DefOf(d.kind, i).size
         PROVE  CoveredBy(fs, d, i, b)
    <2> DEFINE q == i - F + 1
    <2>1. q \in 1..M /\ F + q - 1 = i
      BY <1>1
    <2> HIDE DEF q
    <2>2. PICK m \in ToSet(Split(q)) : Covers(encode(m, DEVICE), d, i, b)
      BY <1>7, <2>1
    <2>3. m \in ToSet(ms)
      BY <1>8, <2>1
    <2>4. QED
      BY <1>10, <2>2, <2>3 DEF CoveredBy
  <1>13. QED
    BY <1>9, <1>10, <1>11, <1>12 DEF AllOf, F, N

(* What a frame carries is read back from it.                              *)
LEMMA CarriedMessage ==
    ASSUME NEW d, d.kind \in Kinds, d.kind # "system",
           NEW i, NEW o, NEW data, NEW f, Carries(f, d, i, o, data)
    PROVE  /\ MessageOf(f).address = Place(d.kind, i) + o
           /\ MessageOf(f).body = data /\ f[3] = DEVICE
  <1> DEFINE a == Place(d.kind, i) + o
             n == Len(data)
  <1>1. /\ i \in FirstBlock(d.kind)..(1 + items(d.kind))
        /\ o \in Nat /\ data \in Seq(SevenBit) /\ n > 0 /\ n \in Nat
        /\ o + n <= DefOf(d.kind, i).size
        /\ n <= MAX_DT1_DATA_TO_DEVICE /\ f = encode(Dt1(a, data), DEVICE)
    BY DEF Carries, PieceOf
  <1>2. a \in Nat /\ SpanFits(a, n)
    BY <1>1, LetThrough
  <1>3. f[3] = DEVICE /\ MessageOf(f) = Dt1(a, data)
    BY <1>1, <1>2, ReadBack
  <1> HIDE DEF a
  <1>4. MessageOf(f).address = a /\ MessageOf(f).body = data
    BY <1>3 DEF Dt1
  <1>5. QED
    BY <1>3, <1>4 DEF a

(* A frame that is cut again: its pieces are frames that cover the same.   *)
LEMMA FrameCutAgain ==
    ASSUME NEW d, d.kind \in Kinds, d.kind # "system", NEW f, FrameOf(d, f),
           NEW n \in Nat, n > 0, n <= MAX_DT1_DATA_TO_DEVICE
    PROVE  LET s == split_dt1(MessageOf(f).address, MessageOf(f).body, n)
           IN /\ s \in Seq(ToSet(s)) /\ f[3] = DEVICE
              /\ \A m \in ToSet(s) : FrameOf(d, encode(m, DEVICE))
              /\ \A i, b : Covers(f, d, i, b) =>
                   \E m \in ToSet(s) : Covers(encode(m, DEVICE), d, i, b)
  <1> DEFINE s == split_dt1(MessageOf(f).address, MessageOf(f).body, n)
  <1>1. ASSUME NEW i, NEW o, NEW data, Carries(f, d, i, o, data)
        PROVE  /\ s \in Seq(ToSet(s)) /\ f[3] = DEVICE
               /\ \A m \in ToSet(s) : FrameOf(d, encode(m, DEVICE))
               /\ \A b \in (o + 1)..(o + Len(data)) : \E m \in ToSet(s) :
                    Covers(encode(m, DEVICE), d, i, b)
    <2>1. f[3] = DEVICE /\ s = split_dt1(Place(d.kind, i) + o, data, n)
      BY <1>1, CarriedMessage
    <2>2. PieceOf(d, i, o, data)
      BY <1>1 DEF Carries
    <2> DEFINE t == split_dt1(Place(d.kind, i) + o, data, n)
    <2>3. /\ t \in Seq(ToSet(t))
          /\ \A m \in ToSet(t) : FrameOf(d, encode(m, DEVICE))
          /\ \A b \in (o + 1)..(o + Len(data)) : \E m \in ToSet(t) :
               Covers(encode(m, DEVICE), d, i, b)
      BY <2>2, SplitFacts
    <2>4. s = t
      BY <2>1
    <2> HIDE DEF s, t
    <2>5. QED
      BY <2>1, <2>3, <2>4
  <1> HIDE DEF s
  <1>2. ASSUME NEW i, NEW b, Covers(f, d, i, b)
        PROVE  \E m \in ToSet(s) : Covers(encode(m, DEVICE), d, i, b)
    <2>1. PICK o, data : /\ Carries(f, d, i, o, data)
                         /\ b \in (o + 1)..(o + Len(data))
      BY <1>2 DEF Covers
    <2>2. QED
      BY <1>1, <2>1
  <1>3. QED
    BY <1>1, <1>2 DEF FrameOf, s

LEMMA CutFrames ==
    ASSUME NEW d, d.kind \in Kinds, d.kind # "system", NEW fs, AllOf(fs, d)
    PROVE  /\ AllOf(cutFrames(fs), d)
           /\ \A i, b : CoveredBy(fs, d, i, b) =>
                          CoveredBy(cutFrames(fs), d, i, b)
  <1>1. CASE CHUNK >= MAX_DT1_DATA_TO_DEVICE
    BY <1>1 DEF cutFrames
  <1>2. CASE ~(CHUNK >= MAX_DT1_DATA_TO_DEVICE)
    <2> DEFINE Pieces(f) ==
                 split_dt1(MessageOf(f).address, MessageOf(f).body, CHUNK)
               G(f) == [p \in DOMAIN Pieces(f) |-> encode(Pieces(f)[p], f[3])]
               N == Len(fs)
               ss == [k \in DOMAIN fs |-> G(fs[k])]
               cut == FlattenSeq(ss)
    <2>1. /\ CHUNK \in Nat /\ CHUNK > 0 /\ CHUNK <= MAX_DT1_DATA_TO_DEVICE
          /\ AtMost(CHUNK, MAX_DT1_DATA_TO_DEVICE) = CHUNK
      BY <1>2, SysexAssumption, SessionAssumption DEF AtMost
    <2>2. cutFrames(fs) = cut
      BY <1>2, <2>1 DEF cutFrames, resplit_dt1
    <2>3. /\ N \in Nat /\ DOMAIN fs = 1..N
          /\ ToSet(fs) = {fs[k] : k \in 1..N}
          /\ \A f \in ToSet(fs) : FrameOf(d, f)
      BY DEF AllOf, ToSet
    <2> HIDE DEF N
    <2>4. ASSUME NEW f \in ToSet(fs)
          PROVE  /\ G(f) \in Seq(ToSet(G(f)))
                 /\ \A e \in ToSet(G(f)) : FrameOf(d, e)
                 /\ \A i, b : Covers(f, d, i, b) =>
                      \E e \in ToSet(G(f)) : Covers(e, d, i, b)
      <3> DEFINE s == Pieces(f)
      <3>1. /\ s \in Seq(ToSet(s)) /\ f[3] = DEVICE
            /\ \A m \in ToSet(s) : FrameOf(d, encode(m, DEVICE))
            /\ \A i, b : Covers(f, d, i, b) =>
                 \E m \in ToSet(s) : Covers(encode(m, DEVICE), d, i, b)
        BY <2>1, <2>3, FrameCutAgain
      <3>2. G(f) = [p \in DOMAIN s |-> encode(s[p], DEVICE)]
        BY <3>1
      <3> HIDE DEF s, G, Pieces
      <3>3. /\ G(f) \in Seq(ToSet(G(f)))
            /\ ToSet(G(f)) = {encode(m, DEVICE) : m \in ToSet(s)}
        BY <3>1, <3>2, EncodedFacts
      <3>4. QED
        BY <3>1, <3>3
    <2> HIDE DEF G
    <2>5. /\ cut \in Seq(ToSet(cut))
          /\ ToSet(cut) = UNION {ToSet(G(f)) : f \in ToSet(fs)}
      <3>1. ss = [k \in 1..N |-> G(fs[k])]
        BY <2>3
      <3> HIDE DEF ss
      <3>2. /\ ss \in [1..N -> {G(f) : f \in ToSet(fs)}]
            /\ \A k \in 1..N : ss[k] = G(fs[k])
        BY <2>3, <3>1
      <3>3. \A k \in 1..N : ss[k] \in Seq(ToSet(ss[k]))
        BY <2>3, <2>4, <3>2
      <3>4. /\ cut \in Seq(ToSet(cut))
            /\ ToSet(cut) = UNION {ToSet(ss[k]) : k \in 1..N}
        BY <2>3, <3>2, <3>3, FlattenElements
      <3>5. {ToSet(ss[k]) : k \in 1..N} = {ToSet(G(f)) : f \in ToSet(fs)}
        BY <2>3, <3>2
      <3>6. QED
        BY <3>4, <3>5
    <2> HIDE DEF cut
    <2>6. AllOf(cut, d)
      BY <2>4, <2>5 DEF AllOf
    <2>7. \A i, b : CoveredBy(fs, d, i, b) => CoveredBy(cut, d, i, b)
      <3>1. ASSUME NEW i, NEW b, CoveredBy(fs, d, i, b)
            PROVE  CoveredBy(cut, d, i, b)
        <4>1. PICK f \in ToSet(fs) : Covers(f, d, i, b)
          BY <3>1 DEF CoveredBy
        <4>2. PICK e \in ToSet(G(f)) : Covers(e, d, i, b)
          BY <2>4, <4>1
        <4>3. e \in ToSet(cut)
          BY <2>5
        <4>4. QED
          BY <4>2, <4>3 DEF CoveredBy
      <3>2. QED
        BY <3>1
    <2>8. QED
      BY <2>2, <2>6, <2>7
  <1>3. QED
    BY <1>1, <1>2

(* One parameter in a frame of its own.                                    *)
LEMMA ParamFrame ==
    ASSUME NEW d, IsDocument(d), d.kind # "system",
           NEW i \in FirstBlock(d.kind)..(1 + items(d.kind)),
           NEW j \in DOMAIN DefOf(d.kind, i).params, ParamSendable(d, i, j)
    PROVE  LET f == param_frame(d, <<i, j>>)
           IN /\ FrameOf(d, f)
              /\ \A b \in BytesOf(DefOf(d.kind, i).params[j]) :
                   Covers(f, d, i, b)
  <1> DEFINE p == DefOf(d.kind, i).params[j]
             o == p.offset
             n == p.bytes
             data == SubSeq(d.blocks[i], o + 1, o + n)
             f == param_frame(d, <<i, j>>)
  <1>1. d.kind \in Kinds /\ i \in 1..(1 + items(d.kind))
    <2>1. d.kind \in Kinds
      BY DEF IsDocument
    <2>2. FirstBlock(d.kind) \in 1..2 /\ items(d.kind) \in Nat
      BY <2>1, LayoutFacts DEF FirstBlock
    <2>3. QED
      BY <2>1, <2>2
  <1>2. /\ o \in Nat /\ n \in Nat /\ n > 0 /\ o + n <= DefOf(d.kind, i).size
        /\ n <= MAX_DT1_DATA_TO_DEVICE
    BY <1>1, ParamFacts
  <1>3. \A b \in BytesOf(p) : d.blocks[i][b] \in SevenBit
    BY <1>1, SendableByte DEF ParamSendable
  <1>4. BytesOf(p) = (o + 1)..(o + n)
    BY DEF BytesOf
  <1>5. Place(d.kind, i) \in Nat
    BY <1>1, PlaceFacts
  <1>6. f = encode(Dt1(Place(d.kind, i) + o, data), DEVICE)
    BY DEF param_frame, param_dt1, Place
  <1> HIDE DEF p, o, n, f
  <1>7. /\ data \in Seq(SevenBit) /\ Len(data) = n
        /\ \A m \in 1..n : data[m] = d.blocks[i][o + m]
    <2>1. \A b \in (o + 1)..(o + n) : d.blocks[i][b] \in SevenBit
      BY <1>3, <1>4
    <2>2. /\ data \in Seq(SevenBit)
          /\ Len(data) = IF o + 1 <= o + n THEN o + n - (o + 1) + 1 ELSE 0
          /\ \A m \in 1..(o + n - (o + 1) + 1) :
               data[m] = d.blocks[i][o + 1 + m - 1]
      BY <1>2, <2>1, SubSeqProperties
    <2> HIDE DEF data
    <2>3. Len(data) = n /\ o + n - (o + 1) + 1 = n
      BY <1>2, <2>2
    <2>4. ASSUME NEW m \in 1..n PROVE data[m] = d.blocks[i][o + m]
      <3>1. o + 1 + m - 1 = o + m
        BY <1>2
      <3>2. data[m] = d.blocks[i][o + 1 + m - 1]
        BY <2>2, <2>3
      <3>3. QED
        BY <3>1, <3>2
    <2>5. QED
      BY <2>2, <2>3, <2>4
  <1> HIDE DEF data
  <1>8. Carries(f, d, i, o, data)
    BY <1>2, <1>6, <1>7 DEF Carries, PieceOf
  <1>9. \A b \in BytesOf(p) : Covers(f, d, i, b)
    BY <1>4, <1>7, <1>8 DEF Covers
  <1>10. QED
    BY <1>8, <1>9 DEF FrameOf, f, p

(* A finite set as a sequence has the same elements.                       *)
LEMMA AsSequence ==
    ASSUME NEW S, IsFiniteSet(S)
    PROVE  SetToSeq(S) \in Seq(S) /\ ToSet(SetToSeq(S)) = S
  <1> DEFINE n == Cardinality(S)
             f == SetToSeq(S)
  <1>1. n \in Nat /\ ExistsBijection(1..n, S)
    BY FS_CardinalityType
  <1>2. \E g \in [1..n -> S] : IsInjective(g)
    BY <1>1 DEF ExistsBijection, Bijection, Injection
  <1>3. f \in [1..n -> S] /\ IsInjective(f)
    BY <1>2 DEF SetToSeq
  <1> HIDE DEF f
  <1>4. f \in Injection(1..n, S)
    BY <1>3 DEF Injection
  <1>5. Cardinality(1..n) = n /\ IsFiniteSet(1..n)
    BY <1>1, FS_Interval
  <1>6. f \in Surjection(1..n, S)
    BY <1>4, <1>5, FS_Injection
  <1> HIDE DEF n
  <1>7. \A t \in S : \E k \in 1..n : f[k] = t
    BY <1>6 DEF Surjection
  <1>8. DOMAIN f = 1..n /\ \A k \in 1..n : f[k] \in S
    BY <1>3
  <1>9. ToSet(f) = S
    BY <1>7, <1>8 DEF ToSet
  <1>10. f \in Seq(S)
    BY <1>1, <1>3
  <1>11. QED
    BY <1>9, <1>10 DEF f

-----------------------------------------------------------------------------
(* What the instrument holds.                                              *)

Follows(memory, d) ==
    \A i \in FirstBlock(d.kind)..(1 + items(d.kind)) :
      \A b \in 1..DefOf(d.kind, i).size : Holds(memory, d, i, b)

(* InstrumentFollows, and why it stays so: only a kind that has a          *)
(* temporary memory is ever sent.                                          *)
SentInv ==
    /\ Temporary(heard)
    /\ baseSent => kind # "system"
    /\ baseSent /\ ~refused => Follows(heard, doc)

LEMMA HeardAll ==
    ASSUME NEW d, d.kind \in Kinds, d.kind # "system", NEW fs, AllOf(fs, d),
           NEW memory
    PROVE  /\ Temporary(memory) => Temporary(HearAll(memory, fs))
           /\ \A i \in 1..(1 + items(d.kind)) :
                \A b \in 1..DefOf(d.kind, i).size :
                  Holds(memory, d, i, b) \/ CoveredBy(fs, d, i, b)
                  => Holds(HearAll(memory, fs), d, i, b)
  <1>1. /\ Len(fs) \in Nat /\ DOMAIN fs = 1..Len(fs)
        /\ ToSet(fs) = {fs[n] : n \in 1..Len(fs)}
        /\ \A f \in ToSet(fs) : FrameOf(d, f)
    BY DEF AllOf, ToSet
  <1>2. \A n \in 1..Len(fs) : FrameOf(d, fs[n])
    BY <1>1
  <1>3. /\ Temporary(memory) => Temporary(HearAll(memory, fs))
        /\ \A i \in 1..(1 + items(d.kind)) :
             \A b \in 1..DefOf(d.kind, i).size :
               (\/ Holds(memory, d, i, b)
                \/ \E n \in 1..Len(fs) : Covers(fs[n], d, i, b))
               => Holds(HearAll(memory, fs), d, i, b)
    BY <1>1, <1>2, HearFrames
  <1>4. \A i, b : CoveredBy(fs, d, i, b) =>
                    \E n \in 1..Len(fs) : Covers(fs[n], d, i, b)
    BY <1>1 DEF CoveredBy
  <1>5. QED
    BY <1>3, <1>4

LEMMA SentBlocks ==
    ASSUME NEW d, IsDocument(d)
    PROVE  /\ d.kind \in Kinds
           /\ FirstBlock(d.kind)..(1 + items(d.kind)) \subseteq
                1..(1 + items(d.kind))
           /\ Len(d.blocks) = 1 + items(d.kind)
           /\ DOMAIN d.blocks = 1..(1 + items(d.kind))
           /\ \A i \in 1..(1 + items(d.kind)) :
                DOMAIN d.blocks[i] = 1..DefOf(d.kind, i).size
  <1> DEFINE N == 1 + items(d.kind)
  <1>1. /\ d.kind \in Kinds /\ N \in Nat /\ DOMAIN layout(d.kind) = 1..N
        /\ d.blocks \in [1..N -> ToSet(d.blocks)]
    BY LayoutFacts DEF IsDocument
  <1>2. \A i \in 1..N : DOMAIN d.blocks[i] = 1..DefOf(d.kind, i).size
    BY <1>1 DEF IsDocument, IsBytes
  <1> HIDE DEF N
  <1>3. Len(d.blocks) = N /\ DOMAIN d.blocks = 1..N
    BY <1>1, CountedSeq
  <1>4. FirstBlock(d.kind)..N \subseteq 1..N
    BY <1>1 DEF FirstBlock
  <1>5. QED
    BY <1>1, <1>2, <1>3, <1>4 DEF N

(* The property is the invariant, block by block.                          *)
LEMMA FollowsIs ==
    ASSUME IsDocument(doc), SentInv
    PROVE  InstrumentFollows
  <1>1. \A a \in DOMAIN heard : classify(a) = "temporary"
    BY DEF SentInv, Temporary
  <1>2. ASSUME baseSent, ~refused,
               NEW i \in FirstSent..Len(doc.blocks),
               NEW k \in DOMAIN doc.blocks[i]
        PROVE  LET a == temp_base(kind) + layout(kind)[i].offset + k - 1
               IN a \in DOMAIN heard /\ heard[a] = doc.blocks[i][k]
    <2>1. Follows(heard, doc)
      BY <1>2 DEF SentInv
    <2>2. i \in FirstBlock(doc.kind)..(1 + items(doc.kind))
      BY <1>2, SentBlocks DEF FirstSent, kind
    <2>3. k \in 1..DefOf(doc.kind, i).size
      BY <1>2, <2>2, SentBlocks
    <2>4. Holds(heard, doc, i, k)
      BY <2>1, <2>2, <2>3 DEF Follows
    <2>5. QED
      BY <2>4 DEF Holds, Place, kind
  <1>3. QED
    BY <1>1, <1>2 DEF InstrumentFollows

-----------------------------------------------------------------------------
(* What is sent makes the instrument follow.                               *)

LEMMA SendPatch ==
    ASSUME NEW d, IsDocument(d), d.kind = kind, kind # "system",
           Temporary(heard), sendPatch(d)
    PROVE  /\ Temporary(heard')
           /\ ~refused' => Follows(heard', d)
  <1>1. CASE Invalid(d)
    BY <1>1 DEF sendPatch
  <1>2. CASE ~Invalid(d)
    <2> DEFINE fs == patch_frames(d)
               cut == cutFrames(fs)
    <2>1. heard' = HearAll(heard, cut)
      BY <1>2 DEF sendPatch
    <2>2. /\ AllOf(fs, d)
          /\ \A i \in FirstBlock(d.kind)..(1 + items(d.kind)) :
               \A b \in 1..DefOf(d.kind, i).size : CoveredBy(fs, d, i, b)
      BY <1>2, PatchFrames
    <2> HIDE DEF fs
    <2>3. d.kind \in Kinds
          /\ FirstBlock(d.kind)..(1 + items(d.kind)) \subseteq
               1..(1 + items(d.kind))
      BY SentBlocks
    <2>4. /\ AllOf(cut, d)
          /\ \A i, b : CoveredBy(fs, d, i, b) => CoveredBy(cut, d, i, b)
      BY <2>2, <2>3, CutFrames
    <2> HIDE DEF cut
    <2>5. /\ Temporary(HearAll(heard, cut))
          /\ \A i \in 1..(1 + items(d.kind)) :
               \A b \in 1..DefOf(d.kind, i).size :
                 CoveredBy(cut, d, i, b) => Holds(HearAll(heard, cut), d, i, b)
      BY <2>3, <2>4, HeardAll
    <2>6. Follows(HearAll(heard, cut), d)
      BY <2>2, <2>3, <2>4, <2>5 DEF Follows
    <2>7. QED
      BY <2>1, <2>5, <2>6
  <1>3. QED
    BY <1>1, <1>2

(* There are only so many parameters.                                      *)
LEMMA FinitelyChanged ==
    ASSUME NEW old, NEW new, IsDocument(new),
           NEW S \in SUBSET changedParams(old, new)
    PROVE  IsFiniteSet(S)
  <1> DEFINE k == new.kind
             N == 1 + items(k)
             c == Len(MAP[k].common.params)
             t == Len(MAP[k].item.params)
             P == (1..N) \X (1..(c + t))
  <1>1. k \in Kinds /\ N \in Nat /\ DOMAIN new.blocks = 1..N
    BY SentBlocks, LayoutFacts
  <1>2. /\ c \in Nat /\ DOMAIN MAP[k].common.params = 1..c
        /\ t \in Nat /\ DOMAIN MAP[k].item.params = 1..t
    <2>1. /\ MAP[k].common.params \in Seq(ToSet(MAP[k].common.params))
          /\ MAP[k].item.params \in Seq(ToSet(MAP[k].item.params))
      BY <1>1, MapAssumption DEF validate_block
    <2>2. QED
      BY <2>1
  <1>3. \A i \in 1..N : DOMAIN DefOf(k, i).params \subseteq 1..(c + t)
    <2>1. ASSUME NEW i \in 1..N
          PROVE  DOMAIN DefOf(k, i).params \subseteq 1..(c + t)
      <3>1. DefOf(k, i) \in {MAP[k].common, MAP[k].item}
        <4>1. k \in Kinds /\ i \in 1..(1 + items(k))
          BY <1>1, <2>1
        <4>2. QED
          BY <4>1, BlockFacts
      <3>2. 1..c \subseteq 1..(c + t) /\ 1..t \subseteq 1..(c + t)
        <4>1. c \in Nat /\ t \in Nat
          BY <1>2
        <4> HIDE DEF c, t
        <4>2. QED
          BY <4>1
      <3>3. QED
        BY <1>2, <3>1, <3>2
    <2>2. QED
      BY <2>1
  <1> HIDE DEF N, c, t
  <1>4. changedParams(old, new) \subseteq P
    BY <1>1, <1>3 DEF changedParams, k
  <1>5. IsFiniteSet(1..N) /\ IsFiniteSet(1..(c + t))
    BY <1>1, <1>2, FS_Interval
  <1>6. IsFiniteSet(P)
    BY <1>5, FS_Product
  <1> HIDE DEF P
  <1>7. S \in SUBSET P
    BY <1>4
  <1>8. QED
    BY <1>6, <1>7, FS_Subset

(* The changed parameters, one by one.                                     *)
LEMMA SendChanges ==
    ASSUME NEW old, IsDocument(old), NEW new, IsDocument(new),
           new.kind = old.kind, new.kind # "system", NEW memory,
           Temporary(memory), NEW fit,
           NEW sendable, sendable = {c \in changedParams(old, new) :
                                       c[1] >= FirstBlock(new.kind)},
           fit = {c \in sendable : ParamSendable(new, c[1], c[2])}
    PROVE  LET fs == param_frames(new, SetToSeq(fit))
           IN /\ Temporary(HearAll(memory, fs))
              /\ fit = sendable /\ Follows(memory, old)
                 => Follows(HearAll(memory, fs), new)
  <1> DEFINE k == new.kind
             N == 1 + items(k)
             F == FirstBlock(k)
             cs == SetToSeq(fit)
             fs == param_frames(new, cs)
  <1>1. /\ k \in Kinds /\ N \in Nat /\ DOMAIN new.blocks = 1..N
        /\ F..N \subseteq 1..N /\ F \in Nat
    BY SentBlocks, LayoutFacts DEF FirstBlock
  <1>2. cs \in Seq(fit) /\ ToSet(cs) = fit
    <2>1. fit \in SUBSET changedParams(old, new)
      OBVIOUS
    <2>2. IsFiniteSet(fit)
      BY <2>1, FinitelyChanged
    <2>3. QED
      BY <2>2, AsSequence
  <1>3. \A c \in changedParams(old, new) :
           \E i \in 1..N : \E j \in DOMAIN DefOf(k, i).params : c = <<i, j>>
    BY <1>1 DEF changedParams
  <1> HIDE DEF N, F, cs
  <1>4. ASSUME NEW c \in fit
        PROVE  \E i \in F..N : \E j \in DOMAIN DefOf(k, i).params :
                 c = <<i, j>> /\ ParamSendable(new, i, j)
    <2>1. PICK i \in 1..N : \E j \in DOMAIN DefOf(k, i).params : c = <<i, j>>
      BY <1>3
    <2>2. PICK j \in DOMAIN DefOf(k, i).params : c = <<i, j>>
      BY <2>1
    <2>3. c[1] = i /\ c[2] = j
      BY <2>2
    <2>4. i >= F /\ ParamSendable(new, i, j)
      BY <2>3 DEF F
    <2>5. i \in F..N
      BY <1>1, <2>4
    <2>6. QED
      BY <2>2, <2>4, <2>5
  <1>5. /\ fs \in Seq(ToSet(fs))
        /\ ToSet(fs) = {param_frame(new, c) : c \in fit}
    <2> DEFINE n == Len(cs)
    <2>1. n \in Nat /\ DOMAIN cs = 1..n /\ fit = {cs[m] : m \in 1..n}
      BY <1>2 DEF ToSet
    <2> HIDE DEF n
    <2>2. fs = [m \in 1..n |-> param_frame(new, cs[m])]
      BY <2>1 DEF param_frames
    <2> HIDE DEF fs
    <2>3. DOMAIN fs = 1..n /\ \A m \in 1..n : fs[m] = param_frame(new, cs[m])
      BY <2>2
    <2>4. ToSet(fs) = {fs[m] : m \in 1..n}
      BY <2>3 DEF ToSet
    <2>5. fs \in [1..n -> ToSet(fs)]
      BY <2>2, <2>3, <2>4
    <2>6. fs \in Seq(ToSet(fs))
      BY <2>1, <2>5, CountedSeq
    <2>7. {fs[m] : m \in 1..n} = {param_frame(new, c) : c \in fit}
      BY <2>1, <2>3
    <2>8. QED
      BY <2>4, <2>6, <2>7
  <1> HIDE DEF fs
  <1>6. ASSUME NEW c \in fit PROVE FrameOf(new, param_frame(new, c))
    <2>1. PICK i \in F..N : \E j \in DOMAIN DefOf(k, i).params :
                               c = <<i, j>> /\ ParamSendable(new, i, j)
      BY <1>4
    <2>2. PICK j \in DOMAIN DefOf(k, i).params :
             c = <<i, j>> /\ ParamSendable(new, i, j)
      BY <2>1
    <2>3. QED
      BY <2>2, ParamFrame DEF F, N
  <1>7. AllOf(fs, new)
    BY <1>5, <1>6 DEF AllOf
  <1>8. /\ Temporary(HearAll(memory, fs))
        /\ \A i \in 1..N : \A b \in 1..DefOf(k, i).size :
             Holds(memory, new, i, b) \/ CoveredBy(fs, new, i, b)
             => Holds(HearAll(memory, fs), new, i, b)
    BY <1>1, <1>7, HeardAll DEF N
  <1>9. ASSUME fit = sendable, Follows(memory, old),
               NEW i \in F..N, NEW b \in 1..DefOf(k, i).size
        PROVE  Holds(HearAll(memory, fs), new, i, b)
    <2>1. i \in 1..N
      BY <1>1
    <2>2. CASE old.blocks[i][b] = new.blocks[i][b]
      <3>1. Holds(memory, old, i, b)
        BY <1>9 DEF Follows, F, N
      <3>2. Holds(memory, new, i, b)
        BY <2>2, <3>1 DEF Holds
      <3>3. QED
        BY <1>8, <2>1, <3>2
    <2>3. CASE old.blocks[i][b] # new.blocks[i][b]
      <3>1. PICK j \in DOMAIN DefOf(k, i).params :
               b \in BytesOf(DefOf(k, i).params[j])
        BY <1>1, <2>1, BlockFacts DEF AllParameters, N
      <3>2. <<i, j>> \in changedParams(old, new)
        BY <1>1, <2>1, <2>3, <3>1 DEF changedParams
      <3>3. <<i, j>> \in fit
        <4>1. i >= FirstBlock(new.kind)
          BY <1>1 DEF F
        <4>2. QED
          BY <1>9, <3>2, <4>1
      <3>4. ParamSendable(new, i, j)
        <4>1. <<i, j>>[1] = i /\ <<i, j>>[2] = j
          OBVIOUS
        <4>2. QED
          BY <3>3, <4>1
      <3>5. Covers(param_frame(new, <<i, j>>), new, i, b)
        BY <3>1, <3>4, ParamFrame DEF F, N
      <3>6. CoveredBy(fs, new, i, b)
        BY <1>5, <3>3, <3>5 DEF CoveredBy
      <3>7. QED
        BY <1>8, <2>1, <3>6
    <2>4. QED
      BY <2>2, <2>3
  <1>10. QED
    BY <1>8, <1>9 DEF Follows, fs, cs, F, N

(* What an edit sends keeps the instrument following.                      *)
LEMMA AfterEdit ==
    ASSUME IsDocument(doc), SentInv, NEW new, IsDocument(new),
           new.kind = kind, afterEdit(new)
    PROVE  /\ Temporary(heard')
           /\ baseSent' => kind # "system"
           /\ baseSent' /\ ~refused' => Follows(heard', new)
  <1> DEFINE sendable == {c \in changedParams(doc, new) : c[1] >= FirstSent}
             fit == {c \in sendable : ParamSendable(new, c[1], c[2])}
  <1>1. Temporary(heard) /\ (baseSent => kind # "system")
        /\ (baseSent /\ ~refused => Follows(heard, doc))
    BY DEF SentInv
  <1>2. CASE ~live \/ ~is_live_editable(kind)
    BY <1>1, <1>2 DEF afterEdit
  <1>3. CASE /\ live /\ is_live_editable(kind)
             /\ ~baseSent \/ Cardinality(sendable) > BULK_LIVE_LIMIT
    <2>1. kind # "system" /\ sendPatch(new)
      BY <1>3 DEF afterEdit, is_live_editable
    <2>2. QED
      BY <1>1, <2>1, SendPatch
  <1>4. CASE /\ live /\ is_live_editable(kind)
             /\ ~(~baseSent \/ Cardinality(sendable) > BULK_LIVE_LIMIT)
    <2> DEFINE fs == param_frames(new, SetToSeq(fit))
    <2>1. /\ heard' = HearAll(heard, fs)
          /\ refused' = (refused \/ fit # sendable)
          /\ baseSent' = baseSent /\ kind # "system" /\ baseSent
      BY <1>4 DEF afterEdit, is_live_editable
    <2>2. FirstSent = FirstBlock(new.kind) /\ new.kind = doc.kind
      BY DEF FirstSent, kind
    <2>3. sendable = {c \in changedParams(doc, new) :
                        c[1] >= FirstBlock(new.kind)}
      BY <2>2
    <2>4. fit = {c \in sendable : ParamSendable(new, c[1], c[2])}
      OBVIOUS
    <2> HIDE DEF sendable, fit
    <2>5. /\ Temporary(HearAll(heard, fs))
          /\ fit = sendable /\ Follows(heard, doc)
             => Follows(HearAll(heard, fs), new)
      BY <1>1, <2>1, <2>2, <2>3, <2>4, SendChanges DEF kind
    <2> HIDE DEF fs
    <2>6. ~refused' => ~refused /\ fit = sendable
      BY <2>1
    <2>7. QED
      BY <1>1, <2>1, <2>5, <2>6
  <1>5. QED
    BY <1>2, <1>3, <1>4

(* The step of an edit, and that of a move within the history.             *)
LEMMA SentStep ==
    ASSUME IsDocument(doc), SentInv, IsDocument(doc'), kind' = kind,
           NEW new, doc' = new, afterEdit(new)
    PROVE  SentInv'
  <1>1. IsDocument(new) /\ new.kind = kind
    BY DEF kind
  <1>2. /\ Temporary(heard')
        /\ baseSent' => kind # "system"
        /\ baseSent' /\ ~refused' => Follows(heard', new)
    BY <1>1, AfterEdit
  <1>3. QED
    BY <1>2 DEF SentInv

(* Turning live editing on sends the document.                             *)
LEMMA LiveStep ==
    ASSUME IsDocument(doc), SentInv, NEW on, setLive(on)
    PROVE  SentInv'
  <1>1. doc' = doc /\ kind' = kind /\ kind # "system"
    BY DEF setLive, editVars, kind, is_live_editable
  <1>2. CASE on
    <2>1. sendPatch(doc)
      BY <1>2 DEF setLive
    <2>2. /\ Temporary(heard')
          /\ ~refused' => Follows(heard', doc)
      BY <1>1, <2>1, SendPatch DEF SentInv, kind
    <2>3. QED
      BY <1>1, <2>2 DEF SentInv
  <1>3. CASE ~on
    <2>1. baseSent' = FALSE /\ heard' = heard
      BY <1>3 DEF setLive
    <2>2. QED
      BY <2>1 DEF SentInv
  <1>4. QED
    BY <1>2, <1>3

LEMMA SameSent ==
    ASSUME SentInv, UNCHANGED <<doc, liveVars>>
    PROVE  SentInv'
  BY DEF SentInv, liveVars, kind

(* Every edit, and every move within the history, is sent.                 *)
LEMMA EveryEditIsSent ==
    ASSUME Set \/ setName \/ applyMany \/ undo \/ redo \/ jumpTo
    PROVE  \E new : doc' = new /\ afterEdit(new)
  <1>1. ASSUME NEW new, Edit(new)
        PROVE  doc' = new /\ afterEdit(new)
    BY <1>1 DEF Edit
  <1>2. ASSUME NEW h, NEW snapshot, Restore(h, snapshot)
        PROVE  \E new : doc' = new /\ afterEdit(new)
    BY <1>2 DEF Restore
  <1>3. CASE Set
    <2>1. PICK i \in DOMAIN doc.blocks :
             \E p, v : Edit(WithBlock(i, write(p, v, doc.blocks[i])))
      BY <1>3 DEF Set
    <2>2. QED
      BY <1>1, <2>1
  <1>4. CASE setName
    <2>1. \E chars :
             Edit(WithBlock(1, set_text(DefOf(kind, 1), chars,
                                        doc.blocks[1])))
      BY <1>4 DEF setName
    <2>2. QED
      BY <1>1, <2>1
  <1>5. CASE applyMany
    <2>1. \E new : Edit(new)
      BY <1>5 DEF applyMany
    <2>2. QED
      BY <1>1, <2>1
  <1>6. CASE undo
    BY <1>2, <1>6 DEF undo
  <1>7. CASE redo
    BY <1>2, <1>7 DEF redo
  <1>8. CASE jumpTo
    <2>1. PICK n \in 0..Len(Ended.items) :
             Restore([Ended EXCEPT !.applied = n],
                     IF n = 0 THEN Ended.items[1].before
                     ELSE Ended.items[n].after)
      BY <1>8 DEF jumpTo
    <2>2. QED
      BY <1>2, <2>1
  <1>9. QED
    BY <1>3, <1>4, <1>5, <1>6, <1>7, <1>8

LEMMA StepSent ==
    ASSUME IInv, SentInv, [Next]_vars
    PROVE  SentInv'
  <1>1. IsDocument(doc) /\ IsDocument(doc')
    BY StepInv DEF IInv
  <1>2. CASE \E on \in BOOLEAN : setLive(on)
    BY <1>1, <1>2, LiveStep
  <1>3. CASE Set \/ setName \/ applyMany \/ undo \/ redo \/ jumpTo
    <2>1. kind' = kind
      BY <1>3, SetStep, NameStep, ManyStep, MoveStep
    <2>2. PICK new : doc' = new /\ afterEdit(new)
      BY <1>3, EveryEditIsSent
    <2>3. QED
      BY <1>1, <2>1, <2>2, SentStep
  <1>4. CASE OpenFile
    <2>1. baseSent' = FALSE /\ heard' = heard
      BY <1>4 DEF OpenFile
    <2>2. QED
      BY <2>1 DEF SentInv
  <1>5. CASE Begin \/ End \/ Export
    <2>1. UNCHANGED <<doc, liveVars>>
      BY <1>5 DEF Begin, End, Export, editVars
    <2>2. QED
      BY <2>1, SameSent
  <1>6. CASE Lose \/ Double \/ Swap \/ Insert \/ Tick \/ Damage
    <2>1. UNCHANGED <<doc, liveVars>>
      BY <1>6 DEF Lose, Double, Swap, Insert, Tick, Damage, Harm, editVars
    <2>2. QED
      BY <2>1, SameSent
  <1>7. CASE SaveAsMidi \/ SplitEvent \/ AddEvent \/ SplitTrack \/ CloseFile
    <2>1. UNCHANGED <<doc, liveVars>>
      BY <1>7 DEF SaveAsMidi, SplitEvent, AddEvent, SplitTrack, Sequence,
                  CloseFile, editVars
    <2>2. QED
      BY <2>1, SameSent
  <1>8. CASE UNCHANGED vars
    BY <1>8, SameSent DEF vars, editVars
  <1>9. QED
    BY <1>2, <1>3, <1>4, <1>5, <1>6, <1>7, <1>8 DEF Next

LEMMA InitSent == Init => SentInv
  BY DEF Init, SentInv, Temporary

-----------------------------------------------------------------------------
(* Sequences of sequences.                                                 *)

(* A sequence, whatever it is of.                                          *)
IsSeq(s) == s \in Seq(ToSet(s))

LEMMA SeqFacts ==
    ASSUME NEW S, NEW s \in Seq(S)
    PROVE  /\ IsSeq(s) /\ ToSet(s) \subseteq S
           /\ Len(s) \in Nat /\ DOMAIN s = 1..Len(s)
           /\ ToSet(s) = {s[i] : i \in 1..Len(s)}
  <1>1. Len(s) \in Nat /\ DOMAIN s = 1..Len(s) /\ s \in [1..Len(s) -> S]
    OBVIOUS
  <1>2. ToSet(s) = {s[i] : i \in 1..Len(s)}
    BY <1>1 DEF ToSet
  <1>3. s \in Seq(ToSet(s))
    <2>1. s \in [1..Len(s) -> ToSet(s)]
      BY <1>1, <1>2
    <2>2. QED
      BY <1>1, <2>1, CountedSeq
  <1>4. QED
    BY <1>1, <1>2, <1>3 DEF IsSeq

(* A flattened sequence grows by one element at a time.                    *)
FlatBy(s, F) ==
    /\ F[0] = <<>> /\ F[Len(s)] = FlattenSeq(s)
    /\ \A i \in 1..Len(s) : F[i] = F[i - 1] \o s[i]
LEMMA FlatSteps ==
    ASSUME NEW S, NEW s \in Seq(Seq(S))
    PROVE  \E F : FlatBy(s, F) /\ \A i \in 0..Len(s) : F[i] \in Seq(S)
  <1> DEFINE N == Len(s)
  <1>1. N \in Nat /\ \A i \in 1..N : s[i] \in Seq(S)
    OBVIOUS
  <1>2. CASE N = 0
    <2>1. s = <<>> /\ FlattenSeq(s) = s
      BY <1>1, <1>2, EmptySeq DEF FlattenSeq
    <2> DEFINE F == [i \in 0..0 |-> <<>>]
    <2>2. F[0] = <<>> /\ <<>> \in Seq(S)
      OBVIOUS
    <2> HIDE DEF F
    <2>3. FlatBy(s, F)
      BY <1>2, <2>1, <2>2 DEF FlatBy
    <2>4. \A i \in 0..Len(s) : F[i] \in Seq(S)
      <3>1. \A i \in 0..0 : i = 0
        OBVIOUS
      <3>2. \A i \in 0..0 : F[i] \in Seq(S)
        BY <2>2, <3>1
      <3>3. QED
        BY <1>2, <3>2
    <2>5. QED
      BY <2>3, <2>4
  <1>3. CASE N # 0
    <2>1. s # <<>>
      BY <1>3
    <2>2. PICK f : /\ FlattenSeq(s) = f[N] /\ f[1] = s[1]
                   /\ \A i \in 2..N : f[i] = f[i - 1] \o s[i]
      BY <2>1, FlattenFacts
    <2> DEFINE F == [i \in 0..N |-> IF i = 0 THEN <<>> ELSE f[i]]
    <2> HIDE DEF N
    <2>3. F[0] = <<>> /\ \A i \in 1..N : F[i] = f[i]
      BY <1>1
    <2> HIDE DEF F
    <2>4. \A i \in 1..N : F[i] = F[i - 1] \o s[i]
      <3>1. ASSUME NEW i \in 1..N PROVE F[i] = F[i - 1] \o s[i]
        <4>1. CASE i = 1
          <5>1. F[i] = s[1] /\ F[i - 1] = <<>>
            BY <2>2, <2>3, <4>1
          <5>2. <<>> \o s[1] = s[1]
            BY <1>1, <4>1, ConcatEmptySeq
          <5>3. QED
            BY <4>1, <5>1, <5>2
        <4>2. CASE i # 1
          <5>1. i \in 2..N /\ i - 1 \in 1..N
            BY <1>1, <4>2
          <5>2. F[i] = f[i] /\ F[i - 1] = f[i - 1]
            BY <2>3, <5>1
          <5>3. QED
            BY <2>2, <5>1, <5>2
        <4>3. QED
          BY <4>1, <4>2
      <3>2. QED
        BY <3>1
    <2> DEFINE G == {i \in 0..N : F[i] \in Seq(S)}
    <2>5. 0 \in G
      <3>1. 0 \in 0..N /\ <<>> \in Seq(S)
        BY <1>1
      <3>2. QED
        BY <2>3, <3>1
    <2>6. ASSUME NEW i \in 1..N, i - 1 \in G PROVE i \in G
      <3>1. F[i - 1] \in Seq(S) /\ s[i] \in Seq(S)
        BY <1>1, <2>6
      <3>2. F[i - 1] \o s[i] \in Seq(S)
        BY <3>1, ConcatProperties
      <3>3. F[i] \in Seq(S)
        BY <2>4, <3>2
      <3>4. i \in 0..N
        BY <1>1
      <3>5. QED
        BY <3>3, <3>4
    <2> HIDE DEF G
    <2>7. 0..N \subseteq G
      BY <1>1, <2>5, <2>6, CountingUp
    <2>8. \A i \in 0..N : F[i] \in Seq(S)
      BY <2>7 DEF G
    <2>9. N \in 1..N
      BY <1>1, <1>3 DEF N
    <2>10. F[N] = FlattenSeq(s)
      BY <2>2, <2>3, <2>9
    <2>11. QED
      BY <2>3, <2>4, <2>8, <2>10 DEF FlatBy, N
  <1>4. QED
    BY <1>2, <1>3

LEMMA FlatConcat ==
    ASSUME NEW S, NEW a \in Seq(Seq(S)), NEW b \in Seq(Seq(S))
    PROVE  /\ FlattenSeq(a \o b) = FlattenSeq(a) \o FlattenSeq(b)
           /\ FlattenSeq(a) \in Seq(S) /\ FlattenSeq(b) \in Seq(S)
  <1> DEFINE m == Len(a)
             n == Len(b)
             c == a \o b
  <1>1. /\ m \in Nat /\ n \in Nat
        /\ c \in Seq(Seq(S)) /\ Len(c) = m + n
        /\ \A i \in 1..(m + n) : c[i] = IF i <= m THEN a[i] ELSE b[i - m]
    BY ConcatProperties
  <1>2. PICK A : FlatBy(a, A) /\ \A i \in 0..m : A[i] \in Seq(S)
    BY FlatSteps
  <1>3. PICK B : FlatBy(b, B) /\ \A i \in 0..n : B[i] \in Seq(S)
    BY FlatSteps
  <1> HIDE DEF c
  <1>4. PICK C : FlatBy(c, C) /\ \A i \in 0..(m + n) : C[i] \in Seq(S)
    BY <1>1, FlatSteps
  <1> HIDE DEF m, n
  <1>5. /\ A[0] = <<>> /\ A[m] = FlattenSeq(a)
        /\ \A i \in 1..m : A[i] = A[i - 1] \o a[i]
    BY <1>2 DEF FlatBy, m
  <1>6. /\ B[0] = <<>> /\ B[n] = FlattenSeq(b)
        /\ \A i \in 1..n : B[i] = B[i - 1] \o b[i]
    BY <1>3 DEF FlatBy, n
  <1>7. /\ C[0] = <<>> /\ C[m + n] = FlattenSeq(c)
        /\ \A i \in 1..(m + n) : C[i] = C[i - 1] \o c[i]
    BY <1>1, <1>4 DEF FlatBy
  <1> DEFINE G == {i \in 0..m : C[i] = A[i]}
             H == {j \in 0..n : C[m + j] = A[m] \o B[j]}
  <1>8. 0..m \subseteq G
    <2>1. 0 \in G
      BY <1>1, <1>5, <1>7
    <2>2. ASSUME NEW i \in 1..m, i - 1 \in G PROVE i \in G
      <3>1. i \in 1..(m + n) /\ i <= m
        BY <1>1
      <3>2. c[i] = a[i] /\ C[i] = C[i - 1] \o c[i]
        BY <1>1, <1>7, <3>1
      <3>3. C[i - 1] = A[i - 1]
        BY <2>2
      <3>4. A[i] = A[i - 1] \o a[i]
        BY <1>5
      <3>5. i \in 0..m
        BY <1>1
      <3>6. C[i] = A[i]
        BY <3>2, <3>3, <3>4
      <3>7. QED
        BY <3>5, <3>6
    <2> HIDE DEF G
    <2>3. QED
      BY <1>1, <2>1, <2>2, CountingUp
  <1>9. A[m] \in Seq(S) /\ C[m] = A[m]
    <2>1. m \in 0..m
      BY <1>1
    <2>2. QED
      BY <1>2, <1>8, <2>1
  <1>10. 0..n \subseteq H
    <2>1. 0 \in H
      <3>1. A[m] \o <<>> = A[m]
        BY <1>9, ConcatEmptySeq
      <3>2. m + 0 = m /\ 0 \in 0..n
        BY <1>1
      <3>3. C[m + 0] = A[m] \o B[0]
        BY <1>6, <1>9, <3>1, <3>2
      <3>4. QED
        BY <3>2, <3>3
    <2>2. ASSUME NEW j \in 1..n, j - 1 \in H PROVE j \in H
      <3>1. /\ m + j \in 1..(m + n) /\ ~(m + j <= m) /\ (m + j) - m = j
            /\ (m + j) - 1 = m + (j - 1) /\ j - 1 \in 0..n
        BY <1>1
      <3>2. c[m + j] = b[j]
        BY <1>1, <3>1
      <3>3. C[m + j] = C[m + (j - 1)] \o b[j]
        BY <1>7, <3>1, <3>2
      <3>4. C[m + (j - 1)] = A[m] \o B[j - 1]
        BY <2>2
      <3>5. B[j - 1] \in Seq(S) /\ b[j] \in Seq(S)
        <4>1. b[j] \in Seq(S)
          BY DEF n
        <4>2. QED
          BY <1>3, <3>1, <4>1
      <3>6. (A[m] \o B[j - 1]) \o b[j] = A[m] \o (B[j - 1] \o b[j])
        <4> DEFINE x == A[m]
                   y == B[j - 1]
                   z == b[j]
        <4>1. x \in Seq(S) /\ y \in Seq(S) /\ z \in Seq(S)
          BY <1>9, <3>5
        <4> HIDE DEF x, y, z
        <4>2. (x \o y) \o z = x \o (y \o z)
          BY SMTT(30), <4>1, ConcatAssociative
        <4>3. QED
          BY <4>2 DEF x, y, z
      <3>7. C[m + j] = A[m] \o B[j]
        <4>1. B[j] = B[j - 1] \o b[j]
          BY <1>6
        <4>2. QED
          BY <3>3, <3>4, <3>6, <4>1
      <3>8. j \in 0..n
        BY <1>1
      <3>9. QED
        BY <3>7, <3>8
    <2> HIDE DEF H
    <2>3. QED
      BY <1>1, <2>1, <2>2, CountingUp
  <1>11. n \in 0..n
    BY <1>1
  <1>12. C[m + n] = A[m] \o B[n] /\ B[n] \in Seq(S)
    BY <1>3, <1>10, <1>11
  <1>13. QED
    BY <1>5, <1>6, <1>7, <1>9, <1>12 DEF c

(* One sequence, and two.                                                  *)
LEMMA FlatOne ==
    ASSUME NEW S, NEW a \in Seq(S), NEW b \in Seq(S)
    PROVE  /\ FlattenSeq(<<a>>) = a
           /\ FlattenSeq(<<a, b>>) = a \o b
           /\ \A e : e = <<>> => FlattenSeq(e) = <<>>
  <1>1. <<a>> \in Seq(Seq(S)) /\ Len(<<a>>) = 1 /\ <<a>> # <<>>
    OBVIOUS
  <1>2. <<a, b>> \in Seq(Seq(S)) /\ Len(<<a, b>>) = 2 /\ <<a, b>> # <<>>
    OBVIOUS
  <1>3. FlattenSeq(<<a>>) = a
    <2>1. \E f : FlattenSeq(<<a>>) = f[1] /\ f[1] = <<a>>[1]
      BY <1>1, FlattenFacts
    <2>2. QED
      BY <2>1
  <1>4. FlattenSeq(<<a, b>>) = a \o b
    <2>1. PICK f : /\ FlattenSeq(<<a, b>>) = f[2] /\ f[1] = <<a, b>>[1]
                   /\ \A i \in 2..2 : f[i] = f[i - 1] \o <<a, b>>[i]
      <3>1. \E f : /\ FlattenSeq(<<a, b>>) = f[Len(<<a, b>>)]
                   /\ f[1] = <<a, b>>[1]
                   /\ \A i \in 2..Len(<<a, b>>) :
                        f[i] = f[i - 1] \o <<a, b>>[i]
        BY <1>2, FlattenFacts, Zenon
      <3>2. QED
        BY <1>2, <3>1
    <2>2. 2 \in 2..2 /\ 2 - 1 = 1
      OBVIOUS
    <2>3. f[2] = f[1] \o b
      BY <2>1, <2>2
    <2>4. QED
      BY <2>1, <2>3
  <1>5. ASSUME NEW e, e = <<>> PROVE FlattenSeq(e) = <<>>
    BY <1>5 DEF FlattenSeq
  <1>6. QED
    BY <1>3, <1>4, <1>5

-----------------------------------------------------------------------------
(* The frames of some bytes.                                               *)

LEMMA MaxFacts ==
    ASSUME NEW n \in Nat, NEW T \in SUBSET (0..n), T # {}
    PROVE  Max(T) \in T
  <1> DEFINE D == {n - t : t \in T}
  <1>1. D \in SUBSET Nat /\ D # {}
    <2>1. \A t \in T : n - t \in Nat
      OBVIOUS
    <2>2. QED
      BY <2>1
  <1>2. PICK d \in D : \A e \in D : d <= e
    BY <1>1, LeastNumber
  <1>3. PICK x \in T : d = n - x
    OBVIOUS
  <1>4. \A y \in T : x >= y
    <2>1. ASSUME NEW y \in T PROVE x >= y
      <3>1. n - x <= n - y
        BY <1>2, <1>3
      <3>2. x \in Int /\ y \in Int
        OBVIOUS
      <3>3. QED
        BY <3>1, <3>2
    <2>2. QED
      BY <2>1
  <1>5. QED
    BY <1>4 DEF Max

LEMMA MinFacts ==
    ASSUME NEW T \in SUBSET Nat, T # {}
    PROVE  Min(T) \in T /\ \A y \in T : Min(T) <= y
  <1>1. PICK x \in T : \A y \in T : x <= y
    BY LeastNumber
  <1>2. QED
    BY <1>1 DEF Min

(* What is kept of some bytes, one after the other.                        *)
Filtering(bs, n, g) ==
    g = [k \in 0..n |->
           IF k = 0 THEN <<>>
           ELSE IF bs[k] < REALTIME_MIN THEN Append(g[k - 1], bs[k])
           ELSE g[k - 1]]
LEMMA FilteringExists ==
    ASSUME NEW bs, NEW N \in Nat
    PROVE  \E g : Filtering(bs, N, g)
  <1> DEFINE Longer(before, k) ==
               IF bs[k] < REALTIME_MIN THEN Append(before, bs[k]) ELSE before
             G == {m \in 0..N : \E g : Filtering(bs, m, g)}
  <1>1. 0 \in G
    <2> DEFINE g == [k \in 0..0 |-> <<>>]
    <2>1. Filtering(bs, 0, g)
      BY DEF Filtering
    <2>2. QED
      BY <2>1
  <1>2. ASSUME NEW m \in 1..N, m - 1 \in G PROVE m \in G
    <2>1. PICK g : Filtering(bs, m - 1, g)
      BY <1>2
    <2> DEFINE h == [k \in 0..m |-> IF k = m THEN Longer(g[m - 1], m) ELSE g[k]]
    <2>2. \A k \in 0..m : /\ k # m => k \in 0..(m - 1)
                          /\ k # 0 => k - 1 \in 0..(m - 1)
                          /\ k - 1 # m
      OBVIOUS
    <2>3. \A k \in 0..(m - 1) :
             g[k] = IF k = 0 THEN <<>> ELSE Longer(g[k - 1], k)
      BY <2>1 DEF Filtering
    <2> HIDE DEF Longer
    <2>4. /\ h[m] = Longer(g[m - 1], m) /\ m # 0
          /\ \A k \in 0..(m - 1) : h[k] = g[k]
          /\ h = [k \in 0..m |-> h[k]]
      OBVIOUS
    <2> HIDE DEF h
    <2>5. \A k \in 0..m : h[k] = IF k = 0 THEN <<>> ELSE Longer(h[k - 1], k)
      <3>1. ASSUME NEW k \in 0..m, k # m
            PROVE  h[k] = IF k = 0 THEN <<>> ELSE Longer(h[k - 1], k)
        BY <2>2, <2>3, <2>4, <3>1
      <3>2. h[m] = Longer(h[m - 1], m)
        <4>1. m - 1 \in 0..(m - 1)
          OBVIOUS
        <4>2. QED
          BY <2>4, <4>1
      <3>3. QED
        BY <2>4, <3>1, <3>2
    <2>6. Filtering(bs, m, h)
      BY <2>4, <2>5 DEF Filtering, Longer
    <2>7. QED
      BY <2>6
  <1> HIDE DEF G
  <1>3. 0..N \subseteq G
    BY <1>1, <1>2, CountingUp
  <1>4. N \in 0..N
    OBVIOUS
  <1>5. QED
    BY <1>3, <1>4 DEF G

(* Bytes that begin a message and end none before the last.                *)
Opening(S, f) ==
    /\ f \in Seq(S) /\ f # <<>> /\ f[1] = SYSEX_START
    /\ \A e \in 1..(Len(f) - 1) : f[e] # SYSEX_END
(* A whole message.                                                        *)
Sealed(S, f) == Opening(S, f) /\ Complete(f)

LEMMA OneByteMore ==
    ASSUME NEW S, NEW f \in Seq(S), NEW b \in S
    PROVE  /\ Append(f, b) \in Seq(S) /\ Append(f, b) # <<>>
           /\ Len(Append(f, b)) = Len(f) + 1
           /\ Append(f, b)[Len(f) + 1] = b
           /\ \A i \in 1..Len(f) : Append(f, b)[i] = f[i]
  BY AppendProperties

LEMMA KeptOpening ==
    ASSUME NEW S, NEW bs, Opening(S, bs)
    PROVE  Opening(S, WithoutRealtime(bs))
  <1> DEFINE n == Len(bs)
             g == CHOOSE g : Filtering(bs, n, g)
             Free(f) == \A e \in 1..Len(f) : f[e] # SYSEX_END
             G == {k \in 0..n : k # 0 => /\ Opening(S, g[k])
                                         /\ k < n => Free(g[k])}
  <1>1. /\ n \in Nat /\ n > 0 /\ \A k \in 1..n : bs[k] \in S
        /\ bs[1] = SYSEX_START
        /\ \A k \in 1..n : k < n => bs[k] # SYSEX_END
    BY DEF Opening
  <1>2. WithoutRealtime(bs) = g[n]
    BY DEF WithoutRealtime, Filtering
  <1>3. Filtering(bs, n, g)
    BY <1>1, FilteringExists
  <1> HIDE DEF g, n
  <1>4. /\ g[0] = <<>>
        /\ \A k \in 1..n :
             g[k] = IF bs[k] < REALTIME_MIN THEN Append(g[k - 1], bs[k])
                    ELSE g[k - 1]
    <2>1. 0 \in 0..n /\ \A k \in 1..n : k \in 0..n /\ k # 0
      BY <1>1
    <2>2. \A k \in 0..n : g[k] = IF k = 0 THEN <<>>
             ELSE IF bs[k] < REALTIME_MIN THEN Append(g[k - 1], bs[k])
             ELSE g[k - 1]
      BY <1>3 DEF Filtering
    <2>3. QED
      BY <2>1, <2>2
  <1>5. 0 \in G
    BY <1>1
  <1>6. ASSUME NEW k \in 1..n, k - 1 \in G PROVE k \in G
    <2>1. k \in 0..n /\ bs[k] \in S /\ k - 1 < n
      BY <1>1
    <2>2. CASE k = 1
      <3>1. g[1] = Append(<<>>, bs[1])
        <4>1. 1 - 1 = 0 /\ 1 \in 1..n /\ bs[1] < REALTIME_MIN
          BY <1>1 DEF SYSEX_START, REALTIME_MIN
        <4>2. g[1] = Append(g[0], bs[1])
          BY <1>4, <4>1
        <4>3. QED
          BY <1>4, <4>2
      <3>2. g[1] = <<bs[1]>> /\ bs[1] \in S
        BY <2>1, <2>2, <3>1
      <3>3. Opening(S, g[1])
        BY <3>2, <1>1 DEF Opening
      <3>4. Free(g[1])
        BY <3>2, <1>1 DEF SYSEX_START, SYSEX_END
      <3>5. QED
        BY <2>1, <2>2, <3>3, <3>4
    <2>3. CASE k # 1
      <3>1. Opening(S, g[k - 1]) /\ Free(g[k - 1])
        BY <1>6, <2>1, <2>3
      <3>2. CASE ~(bs[k] < REALTIME_MIN)
        BY <1>4, <2>1, <3>1, <3>2
      <3>3. CASE bs[k] < REALTIME_MIN
        <4> DEFINE f == g[k - 1]
                   h == Append(f, bs[k])
        <4>1. f \in Seq(S) /\ Len(f) \in Nat /\ Len(f) > 0
              /\ f[1] = SYSEX_START /\ Free(f)
          BY <3>1 DEF Opening
        <4>2. g[k] = h
          BY <1>4, <3>3
        <4> HIDE DEF f
        <4>3. /\ h \in Seq(S) /\ h # <<>> /\ Len(h) = Len(f) + 1
              /\ h[Len(f) + 1] = bs[k] /\ \A i \in 1..Len(f) : h[i] = f[i]
          BY <2>1, <4>1, OneByteMore
        <4> HIDE DEF h
        <4>4. Opening(S, h)
          <5>1. 1 \in 1..Len(f) /\ 1..(Len(h) - 1) = 1..Len(f)
            BY <4>1, <4>3
          <5>2. QED
            BY <4>1, <4>3, <5>1 DEF Opening
        <4>5. k < n => Free(h)
          <5>1. \A e \in 1..Len(h) : e = Len(f) + 1 \/ e \in 1..Len(f)
            BY <4>1, <4>3
          <5>2. QED
            BY <1>1, <4>1, <4>3, <5>1
        <4>6. QED
          BY <2>1, <4>2, <4>4, <4>5
      <3>4. QED
        BY <3>2, <3>3
    <2>4. QED
      BY <2>2, <2>3
  <1> HIDE DEF G
  <1>7. 0..n \subseteq G
    BY <1>1, <1>5, <1>6, CountingUp
  <1>8. n \in G /\ n # 0
    BY <1>1, <1>7
  <1>9. QED
    BY <1>2, <1>8 DEF G

LEMMA FrameOpens ==
    ASSUME NEW S, NEW bytes \in Seq(S), NEW j \in 0..Len(bytes),
           Starts(bytes, j) # {}
    PROVE  LET i == Max(Starts(bytes, j))
           IN i \in 1..j /\ Opening(S, FrameFrom(bytes, i, j))
  <1> DEFINE T == Starts(bytes, j)
             i == Max(T)
             E == {j} \cup {e \in i..j : bytes[e] = SYSEX_END}
             stop == StopOf(bytes, i, j)
             s == SubSeq(bytes, i, stop)
  <1>1. T \in SUBSET (0..j) /\ T # {} /\ j \in Nat
    BY DEF Starts
  <1> HIDE DEF T
  <1>2. i \in T
    BY <1>1, MaxFacts
  <1>3. i \in 1..j /\ bytes[i] = SYSEX_START
    BY <1>2 DEF T, Starts
  <1> HIDE DEF i
  <1>4. E \in SUBSET Nat /\ E # {} /\ E \subseteq i..j
    BY <1>1, <1>3
  <1>5. stop = Min(E)
    BY DEF StopOf
  <1> HIDE DEF E, stop
  <1>6. stop \in i..j /\ \A e \in E : stop <= e
    BY <1>4, <1>5, MinFacts
  <1>7. \A e \in i..j : e < stop => bytes[e] # SYSEX_END
    <2>1. ASSUME NEW e \in i..j, e < stop, bytes[e] = SYSEX_END PROVE FALSE
      <3>1. e \in E
        BY <2>1 DEF E
      <3>2. stop <= e /\ e \in Int /\ stop \in Int
        BY <1>6, <3>1
      <3>3. QED
        BY <2>1, <3>2
    <2>2. QED
      BY <2>1
  <1>8. /\ s \in Seq(S) /\ Len(s) = stop - i + 1
        /\ \A e \in 1..(stop - i + 1) : s[e] = bytes[i + e - 1]
    <2>1. i \in 1..(Len(bytes) + 1) /\ stop \in (i - 1)..Len(bytes)
      BY <1>1, <1>3, <1>6
    <2>2. QED
      BY <2>1, SubSeqProperties
  <1> HIDE DEF s
  <1>9. Opening(S, s)
    <2>1. 1 \in 1..(stop - i + 1) /\ i + 1 - 1 = i
      BY <1>3, <1>6
    <2>2. s # <<>> /\ s[1] = SYSEX_START
      BY <1>3, <1>8, <2>1
    <2>3. ASSUME NEW e \in 1..(Len(s) - 1) PROVE s[e] # SYSEX_END
      <3>1. e \in 1..(stop - i + 1) /\ i + e - 1 \in i..j /\ i + e - 1 < stop
        BY <1>3, <1>6, <1>8
      <3>2. QED
        BY <1>7, <1>8, <3>1
    <2>4. QED
      BY <1>8, <2>2, <2>3 DEF Opening
  <1>10. Opening(S, WithoutRealtime(s))
    BY <1>9, KeptOpening
  <1>11. QED
    BY <1>3, <1>10 DEF FrameFrom, s, stop, i, T

FrameAfter(bytes, g, j) ==
    IF Starts(bytes, j) = {} THEN <<>>
    ELSE Append(g[Max(Starts(bytes, j)) - 1],
                FrameFrom(bytes, Max(Starts(bytes, j)), j))
Framing(bytes, n, g) == g = [j \in 0..n |-> FrameAfter(bytes, g, j)]

LEMMA FramingExists ==
    ASSUME NEW S, NEW bytes \in Seq(S)
    PROVE  \E g : Framing(bytes, Len(bytes), g)
  <1> DEFINE n == Len(bytes)
             G == {m \in 0..n : \E g : Framing(bytes, m, g)}
  <1>1. n \in Nat
    OBVIOUS
  <1>2. \A j \in 0..n : Starts(bytes, j) # {} => Max(Starts(bytes, j)) \in 1..j
    BY FrameOpens
  <1> HIDE DEF n
  <1>3. 0 \in G
    <2> DEFINE g == [j \in 0..0 |-> <<>>]
    <2>1. Starts(bytes, 0) = {}
      BY DEF Starts
    <2>2. \A j \in 0..0 : FrameAfter(bytes, g, j) = <<>>
      BY <2>1 DEF FrameAfter
    <2>3. Framing(bytes, 0, g)
      BY <2>2, Zenon DEF Framing
    <2>4. QED
      BY <1>1, <2>3
  <1>4. ASSUME NEW m \in 1..n, m - 1 \in G PROVE m \in G
    <2>1. PICK g : Framing(bytes, m - 1, g)
      BY <1>4
    <2> DEFINE last == FrameAfter(bytes, g, m)
               h == [j \in 0..m |-> IF j = m THEN last ELSE g[j]]
    <2>2. \A j \in 0..(m - 1) : g[j] = FrameAfter(bytes, g, j)
      <3>1. g = [j \in 0..(m - 1) |-> FrameAfter(bytes, g, j)]
        BY <2>1 DEF Framing
      <3> HIDE DEF h, last
      <3>2. QED
        BY <3>1
    <2> HIDE DEF last
    <2>3. /\ h[m] = last /\ h = [j \in 0..m |-> h[j]]
          /\ \A j \in 0..(m - 1) : h[j] = g[j]
      BY <1>1
    <2> HIDE DEF h
    <2>4. \A j \in 0..m : FrameAfter(bytes, h, j) = FrameAfter(bytes, g, j)
      <3>1. ASSUME NEW j \in 0..m
            PROVE  FrameAfter(bytes, h, j) = FrameAfter(bytes, g, j)
        <4>1. CASE Starts(bytes, j) = {}
          BY <4>1 DEF FrameAfter
        <4>2. CASE Starts(bytes, j) # {}
          <5>1. Max(Starts(bytes, j)) \in 1..j
            BY <1>1, <1>2, <4>2
          <5>2. Max(Starts(bytes, j)) - 1 \in 0..(m - 1)
            BY <5>1
          <5>3. QED
            BY <2>3, <4>2, <5>2 DEF FrameAfter
        <4>3. QED
          BY <4>1, <4>2
      <3>2. QED
        BY <3>1
    <2>5. \A j \in 0..m : h[j] = FrameAfter(bytes, h, j)
      <3>1. \A j \in 0..m : j # m => j \in 0..(m - 1)
        OBVIOUS
      <3>2. QED
        BY <2>2, <2>3, <2>4, <3>1 DEF last
    <2>6. h = [j \in 0..m |-> FrameAfter(bytes, h, j)]
      BY <2>3, <2>5, Zenon
    <2>7. Framing(bytes, m, h) /\ m \in 0..n
      BY <1>1, <2>6 DEF Framing
    <2>8. QED
      BY <2>7
  <1> HIDE DEF G
  <1>5. 0..n \subseteq G
    BY <1>1, <1>3, <1>4, CountingUp
  <1>6. n \in G
    BY <1>1, <1>5
  <1>7. QED
    BY <1>6 DEF G, n

(* Every frame begins a message and ends none before its last byte.        *)
LEMMA FramesOpen ==
    ASSUME NEW S, NEW bytes \in Seq(S)
    PROVE  frames(bytes) \in Seq({f \in Seq(S) : Opening(S, f)})
  <1> DEFINE n == Len(bytes)
             g == CHOOSE g : Framing(bytes, n, g)
             O == {f \in Seq(S) : Opening(S, f)}
             G == {m \in 0..n : \A j \in 0..m : g[j] \in Seq(O)}
  <1>1. n \in Nat
    OBVIOUS
  <1>2. frames(bytes) = g[n]
    BY DEF frames, Framing, FrameAfter
  <1>3. Framing(bytes, n, g)
    BY FramingExists
  <1> HIDE DEF g
  <1>4. \A j \in 0..n : g[j] = FrameAfter(bytes, g, j)
    <2>1. g = [j \in 0..n |-> FrameAfter(bytes, g, j)]
      BY <1>3 DEF Framing
    <2> HIDE DEF n
    <2>2. QED
      BY <2>1
  <1>5. \A j \in 0..n : Starts(bytes, j) # {} =>
          /\ Max(Starts(bytes, j)) \in 1..j
          /\ FrameFrom(bytes, Max(Starts(bytes, j)), j) \in O
    BY FrameOpens DEF Opening
  <1> HIDE DEF n, O
  <1>6. 0 \in G
    <2>1. Starts(bytes, 0) = {} /\ <<>> \in Seq(O)
      BY DEF Starts
    <2>2. g[0] = <<>>
      <3>1. 0 \in 0..n
        BY <1>1
      <3>2. QED
        BY <1>4, <2>1, <3>1 DEF FrameAfter
    <2>3. \A j \in 0..0 : j = 0
      OBVIOUS
    <2>4. \A j \in 0..0 : g[j] \in Seq(O)
      BY <2>1, <2>2, <2>3
    <2>5. 0 \in 0..n
      BY <1>1
    <2>6. QED
      BY <2>4, <2>5
  <1>7. ASSUME NEW m \in 1..n, m - 1 \in G PROVE m \in G
    <2>1. m \in 0..n /\ \A j \in 0..m : j # m => j \in 0..(m - 1)
      BY <1>1
    <2>2. g[m] \in Seq(O)
      <3>1. CASE Starts(bytes, m) = {}
        <4>1. <<>> \in Seq(O)
          OBVIOUS
        <4>2. QED
          BY <1>4, <2>1, <3>1, <4>1 DEF FrameAfter
      <3>2. CASE Starts(bytes, m) # {}
        <4> DEFINE i == Max(Starts(bytes, m))
                   f == FrameFrom(bytes, i, m)
        <4>1. i \in 1..m /\ f \in O
          BY <1>5, <2>1, <3>2
        <4>2. g[m] = Append(g[i - 1], f)
          BY <1>4, <2>1, <3>2 DEF FrameAfter
        <4> HIDE DEF i, f
        <4>3. i - 1 \in 0..(m - 1)
          BY <4>1
        <4>4. g[i - 1] \in Seq(O)
          BY <1>7, <4>3
        <4>5. QED
          BY <4>1, <4>2, <4>4
      <3>3. QED
        BY <3>1, <3>2
    <2>3. QED
      BY <1>7, <2>1, <2>2
  <1> HIDE DEF G
  <1>8. 0..n \subseteq G
    BY <1>1, <1>6, <1>7, CountingUp
  <1>9. n \in G /\ n \in 0..n
    BY <1>1, <1>8
  <1>10. g[n] \in Seq(O)
    BY <1>9 DEF G
  <1>11. QED
    BY <1>2, <1>10 DEF O

(* The complete ones of some frames, one after the other.                  *)
Choosing(fs, n, g) ==
    g = [k \in 0..n |->
           IF k = 0 THEN <<>>
           ELSE IF Complete(fs[k]) THEN Append(g[k - 1], fs[k])
           ELSE g[k - 1]]
LEMMA ChoosingExists ==
    ASSUME NEW fs, NEW N \in Nat
    PROVE  \E g : Choosing(fs, N, g)
  <1> DEFINE Longer(before, k) ==
               IF Complete(fs[k]) THEN Append(before, fs[k]) ELSE before
             G == {m \in 0..N : \E g : Choosing(fs, m, g)}
  <1>1. 0 \in G
    <2> DEFINE g == [k \in 0..0 |-> <<>>]
    <2>1. Choosing(fs, 0, g)
      BY DEF Choosing
    <2>2. QED
      BY <2>1
  <1>2. ASSUME NEW m \in 1..N, m - 1 \in G PROVE m \in G
    <2>1. PICK g : Choosing(fs, m - 1, g)
      BY <1>2
    <2> DEFINE h == [k \in 0..m |-> IF k = m THEN Longer(g[m - 1], m) ELSE g[k]]
    <2>2. \A k \in 0..m : /\ k # m => k \in 0..(m - 1)
                          /\ k # 0 => k - 1 \in 0..(m - 1)
                          /\ k - 1 # m
      OBVIOUS
    <2>3. \A k \in 0..(m - 1) :
             g[k] = IF k = 0 THEN <<>> ELSE Longer(g[k - 1], k)
      BY <2>1 DEF Choosing
    <2> HIDE DEF Longer
    <2>4. /\ h[m] = Longer(g[m - 1], m) /\ m # 0
          /\ \A k \in 0..(m - 1) : h[k] = g[k]
          /\ h = [k \in 0..m |-> h[k]]
      OBVIOUS
    <2> HIDE DEF h
    <2>5. \A k \in 0..m : h[k] = IF k = 0 THEN <<>> ELSE Longer(h[k - 1], k)
      <3>1. ASSUME NEW k \in 0..m, k # m
            PROVE  h[k] = IF k = 0 THEN <<>> ELSE Longer(h[k - 1], k)
        BY <2>2, <2>3, <2>4, <3>1
      <3>2. h[m] = Longer(h[m - 1], m)
        <4>1. m - 1 \in 0..(m - 1)
          OBVIOUS
        <4>2. QED
          BY <2>4, <4>1
      <3>3. QED
        BY <2>4, <3>1, <3>2
    <2>6. Choosing(fs, m, h)
      BY <2>4, <2>5 DEF Choosing, Longer
    <2>7. QED
      BY <2>6
  <1> HIDE DEF G
  <1>3. 0..N \subseteq G
    BY <1>1, <1>2, CountingUp
  <1>4. N \in 0..N
    OBVIOUS
  <1>5. QED
    BY <1>3, <1>4 DEF G

LEMMA CompleteFrames ==
    ASSUME NEW S, NEW bytes \in Seq(S)
    PROVE  complete_frames(bytes) \in Seq({f \in Seq(S) : Sealed(S, f)})
  <1> DEFINE fs == frames(bytes)
             n == Len(fs)
             g == CHOOSE g : Choosing(fs, n, g)
             O == {f \in Seq(S) : Opening(S, f)}
             W == {f \in Seq(S) : Sealed(S, f)}
             G == {k \in 0..n : g[k] \in Seq(W)}
  <1>1. complete_frames(bytes) = g[n]
    BY DEF complete_frames, Choosing
  <1>2. fs \in Seq(O)
    BY FramesOpen
  <1> HIDE DEF fs
  <1>3. n \in Nat /\ \A k \in 1..n : fs[k] \in O
    <2> HIDE DEF O
    <2>1. QED
      BY <1>2
  <1>4. Choosing(fs, n, g)
    BY <1>3, ChoosingExists
  <1> HIDE DEF g, n
  <1>5. /\ g[0] = <<>>
        /\ \A k \in 1..n :
             g[k] = IF Complete(fs[k]) THEN Append(g[k - 1], fs[k])
                    ELSE g[k - 1]
    <2>1. 0 \in 0..n /\ \A k \in 1..n : k \in 0..n /\ k # 0
      BY <1>3
    <2>2. \A k \in 0..n : g[k] = IF k = 0 THEN <<>>
             ELSE IF Complete(fs[k]) THEN Append(g[k - 1], fs[k])
             ELSE g[k - 1]
      BY <1>4 DEF Choosing
    <2>3. QED
      BY <2>1, <2>2
  <1>6. \A k \in 1..n : Complete(fs[k]) => fs[k] \in W
    BY <1>3 DEF Sealed
  <1> HIDE DEF O, W
  <1>7. 0 \in G
    <2>1. <<>> \in Seq(W) /\ 0 \in 0..n
      BY <1>3
    <2>2. QED
      BY <1>5, <2>1
  <1>8. ASSUME NEW k \in 1..n, k - 1 \in G PROVE k \in G
    <2>1. k \in 0..n /\ g[k - 1] \in Seq(W)
      BY <1>3, <1>8
    <2>2. CASE Complete(fs[k])
      <3>1. Append(g[k - 1], fs[k]) \in Seq(W)
        BY <1>6, <2>1, <2>2
      <3>2. QED
        BY <1>5, <2>1, <2>2, <3>1
    <2>3. CASE ~Complete(fs[k])
      BY <1>5, <2>1, <2>3
    <2>4. QED
      BY <2>2, <2>3
  <1> HIDE DEF G
  <1>9. 0..n \subseteq G
    BY <1>3, <1>7, <1>8, CountingUp
  <1>10. n \in G
    BY <1>3, <1>9
  <1>11. QED
    BY <1>1, <1>10 DEF G, W

-----------------------------------------------------------------------------
(* Tracks that hold messages whole, or split over two events.              *)

Statuses  == {0, 144, SYSEX_START, SYSEX_END, META}
Events(S) == [status : Statuses, data : Seq(S)]

EndsIn(data) == data # <<>> /\ data[Len(data)] = SYSEX_END
(* An event that leaves a message open, and one that ends it.              *)
Opens(e)  == e.status = SYSEX_START /\ ~EndsIn(e.data)
Closes(e) == e.status = SYSEX_END /\ EndsIn(e.data)
(* A message is not ended before its last byte.                            *)
Sound(e) ==
    e.status = SYSEX_START =>
      /\ e.data # <<>>
      /\ \A j \in 1..(Len(e.data) - 1) : e.data[j] # SYSEX_END
Follow(e, f) == /\ Opens(e) <=> Closes(f)
                /\ f.status = 0 => e.status = 144
Rests(e) == e.status # 0 /\ ~Closes(e)
Track(S, s) ==
    /\ s \in Seq(Events(S))
    /\ \A k \in 1..Len(s) : Sound(s[k])
    /\ \A k \in 2..Len(s) : Follow(s[k - 1], s[k])
    /\ s # <<>> => Rests(s[1]) /\ ~Opens(s[Len(s)])

(* What an event adds to the messages, and what a track holds.             *)
Gives(e) == IF e.status = SYSEX_START THEN <<SYSEX_START>> \o e.data
            ELSE IF Closes(e) THEN e.data ELSE <<>>
Yield(s) == FlattenSeq([k \in DOMAIN s |-> Gives(s[k])])

LEMMA GivesBytes ==
    ASSUME NEW S, SYSEX_START \in S, NEW e \in Events(S)
    PROVE  Gives(e) \in Seq(S)
  <1>1. e.data \in Seq(S) /\ <<SYSEX_START>> \in Seq(S) /\ <<>> \in Seq(S)
    BY DEF Events
  <1>2. <<SYSEX_START>> \o e.data \in Seq(S)
    BY <1>1, ConcatProperties
  <1>3. QED
    BY <1>1, <1>2 DEF Gives

LEMMA GivenBytes ==
    ASSUME NEW S, SYSEX_START \in S, NEW s \in Seq(Events(S))
    PROVE  LET g == [k \in DOMAIN s |-> Gives(s[k])]
           IN /\ g \in Seq(Seq(S)) /\ Len(g) = Len(s)
              /\ \A k \in 1..Len(s) : g[k] = Gives(s[k])
  <1>1. Len(s) \in Nat /\ DOMAIN s = 1..Len(s)
        /\ \A k \in 1..Len(s) : s[k] \in Events(S)
    OBVIOUS
  <1> DEFINE g == [k \in DOMAIN s |-> Gives(s[k])]
  <1>2. \A k \in 1..Len(s) : Gives(s[k]) \in Seq(S)
    BY <1>1, GivesBytes
  <1>3. g \in [1..Len(s) -> Seq(S)]
    BY <1>1, <1>2
  <1>4. g \in Seq(Seq(S)) /\ Len(g) = Len(s)
    BY <1>1, <1>3, CountedSeq
  <1>5. QED
    BY <1>1, <1>4

LEMMA YieldConcat ==
    ASSUME NEW S, SYSEX_START \in S,
           NEW a \in Seq(Events(S)), NEW b \in Seq(Events(S))
    PROVE  /\ Yield(a \o b) = Yield(a) \o Yield(b)
           /\ Yield(a) \in Seq(S) /\ Yield(b) \in Seq(S)
  <1> DEFINE m == Len(a)
             n == Len(b)
             c == a \o b
             ga == [k \in DOMAIN a |-> Gives(a[k])]
             gb == [k \in DOMAIN b |-> Gives(b[k])]
             gc == [k \in DOMAIN c |-> Gives(c[k])]
  <1>1. /\ m \in Nat /\ n \in Nat
        /\ c \in Seq(Events(S)) /\ Len(c) = m + n
        /\ \A k \in 1..(m + n) : c[k] = IF k <= m THEN a[k] ELSE b[k - m]
    BY ConcatProperties
  <1>2. /\ ga \in Seq(Seq(S)) /\ Len(ga) = m
        /\ \A k \in 1..m : ga[k] = Gives(a[k])
    BY GivenBytes
  <1>3. /\ gb \in Seq(Seq(S)) /\ Len(gb) = n
        /\ \A k \in 1..n : gb[k] = Gives(b[k])
    BY GivenBytes
  <1> HIDE DEF c
  <1>4. /\ gc \in Seq(Seq(S)) /\ Len(gc) = m + n
        /\ \A k \in 1..(m + n) : gc[k] = Gives(c[k])
    BY <1>1, GivenBytes
  <1>5. Yield(a) = FlattenSeq(ga) /\ Yield(b) = FlattenSeq(gb)
        /\ Yield(c) = FlattenSeq(gc)
    BY DEF Yield
  <1> HIDE DEF ga, gb, gc, m, n
  <1>6. gc = ga \o gb
    <2> DEFINE gd == ga \o gb
    <2>1. /\ gd \in Seq(Seq(S)) /\ Len(gd) = m + n
          /\ \A k \in 1..(m + n) : gd[k] = IF k <= m THEN ga[k]
                                           ELSE gb[k - m]
      BY <1>2, <1>3, ConcatProperties
    <2> HIDE DEF gd
    <2>2. ASSUME NEW k \in 1..(m + n) PROVE gc[k] = gd[k]
      <3>1. CASE k <= m
        <4>1. k \in 1..m
          BY <1>1, <3>1
        <4>2. QED
          BY <1>1, <1>2, <1>4, <2>1, <3>1, <4>1
      <3>2. CASE ~(k <= m)
        <4>1. k - m \in 1..n
          BY <1>1, <3>2
        <4>2. QED
          BY <1>1, <1>3, <1>4, <2>1, <3>2, <4>1
      <3>3. QED
        BY <3>1, <3>2
    <2>3. gc = gd
      BY <1>1, <1>4, <2>1, <2>2, SeqEqual
    <2>4. QED
      BY <2>3 DEF gd
  <1>7. QED
    BY <1>2, <1>3, <1>5, <1>6, FlatConcat DEF c

LEMMA YieldOne ==
    ASSUME NEW S, SYSEX_START \in S, NEW e \in Events(S)
    PROVE  /\ Yield(<<e>>) = Gives(e)
           /\ \A s : s = <<>> => Yield(s) = <<>>
  <1>1. Gives(e) \in Seq(S)
    BY GivesBytes
  <1>2. [k \in DOMAIN <<e>> |-> Gives(<<e>>[k])] = <<Gives(e)>>
    OBVIOUS
  <1>3. FlattenSeq(<<Gives(e)>>) = Gives(e)
    BY <1>1, FlatOne
  <1>4. ASSUME NEW s, s = <<>> PROVE Yield(s) = <<>>
    <2>1. [k \in DOMAIN s |-> Gives(s[k])] = <<>>
      BY <1>4
    <2>2. QED
      BY <1>1, <2>1, FlatOne DEF Yield
  <1>5. QED
    BY <1>2, <1>3, <1>4 DEF Yield

(* Two tracks one after the other are a track.                             *)
LEMMA JoinTracks ==
    ASSUME NEW S, SYSEX_START \in S, NEW a, NEW b, Track(S, a), Track(S, b)
    PROVE  Track(S, a \o b) /\ Yield(a \o b) = Yield(a) \o Yield(b)
  <1> DEFINE m == Len(a)
             n == Len(b)
             c == a \o b
  <1>1. a \in Seq(Events(S)) /\ b \in Seq(Events(S))
    BY DEF Track
  <1>2. /\ m \in Nat /\ n \in Nat
        /\ c \in Seq(Events(S)) /\ Len(c) = m + n
        /\ \A k \in 1..(m + n) : c[k] = IF k <= m THEN a[k] ELSE b[k - m]
    BY <1>1, ConcatProperties
  <1>3. /\ \A k \in 1..m : Sound(a[k])
        /\ \A k \in 2..m : Follow(a[k - 1], a[k])
        /\ m > 0 => Rests(a[1]) /\ ~Opens(a[m])
    <2>1. m > 0 => a # <<>>
      OBVIOUS
    <2>2. QED
      BY <2>1 DEF Track
  <1>4. /\ \A k \in 1..n : Sound(b[k])
        /\ \A k \in 2..n : Follow(b[k - 1], b[k])
        /\ n > 0 => Rests(b[1]) /\ ~Opens(b[n])
    <2>1. n > 0 => b # <<>>
      OBVIOUS
    <2>2. QED
      BY <2>1 DEF Track
  <1> HIDE DEF c, m, n
  <1>5. \A k \in 1..(m + n) : Sound(c[k])
    <2>1. \A k \in 1..(m + n) : \/ k <= m /\ k \in 1..m
                                \/ ~(k <= m) /\ k - m \in 1..n
      BY <1>2
    <2>2. QED
      BY <1>2, <1>3, <1>4, <2>1
  <1>6. ASSUME NEW k \in 2..(m + n) PROVE Follow(c[k - 1], c[k])
    <2>1. k \in 1..(m + n) /\ k - 1 \in 1..(m + n)
      BY <1>2
    <2>2. CASE k <= m
      <3>1. k \in 2..m /\ k - 1 <= m
        BY <1>2, <2>2
      <3>2. c[k] = a[k] /\ c[k - 1] = a[k - 1]
        BY <1>2, <2>1, <2>2, <3>1
      <3>3. QED
        BY <1>3, <3>1, <3>2
    <2>3. CASE k = m + 1
      <3>1. k - 1 = m /\ m <= m /\ m > 0 /\ n > 0 /\ ~(k <= m) /\ k - m = 1
        BY <1>2, <2>3
      <3>2. c[k] = b[1] /\ c[k - 1] = a[m]
        BY <1>2, <2>1, <3>1
      <3>3. QED
        BY <1>3, <1>4, <3>1, <3>2 DEF Follow, Rests
    <2>4. CASE k > m + 1
      <3>1. /\ ~(k <= m) /\ ~(k - 1 <= m) /\ k - m \in 2..n
            /\ (k - 1) - m = (k - m) - 1
        BY <1>2, <2>4
      <3>2. c[k] = b[k - m] /\ c[k - 1] = b[(k - m) - 1]
        BY <1>2, <2>1, <3>1
      <3>3. QED
        BY <1>4, <3>1, <3>2
    <2>5. QED
      BY <1>2, <2>2, <2>3, <2>4
  <1>7. m + n > 0 => Rests(c[1]) /\ ~Opens(c[m + n])
    <2>1. ASSUME m + n > 0 PROVE Rests(c[1])
      <3>1. 1 \in 1..(m + n)
        BY <1>2, <2>1
      <3>2. CASE m > 0
        <4>1. 1 <= m
          BY <1>2, <3>2
        <4>2. QED
          BY <1>2, <1>3, <3>1, <3>2, <4>1
      <3>3. CASE m = 0
        <4>1. ~(1 <= m) /\ 1 - m = 1 /\ n > 0
          BY <1>2, <2>1, <3>3
        <4>2. QED
          BY <1>2, <1>4, <3>1, <4>1
      <3>4. QED
        BY <1>2, <3>2, <3>3
    <2>2. ASSUME m + n > 0 PROVE ~Opens(c[m + n])
      <3>1. m + n \in 1..(m + n)
        BY <1>2, <2>2
      <3>2. CASE n > 0
        <4>1. ~(m + n <= m) /\ (m + n) - m = n
          BY <1>2, <3>2
        <4>2. QED
          BY <1>2, <1>4, <3>1, <3>2, <4>1
      <3>3. CASE n = 0
        <4>1. m + n <= m /\ m + n = m /\ m > 0
          BY <1>2, <2>2, <3>3
        <4>2. QED
          BY <1>2, <1>3, <3>1, <4>1
      <3>4. QED
        BY <1>2, <3>2, <3>3
    <2>3. QED
      BY <2>1, <2>2
  <1>8. Track(S, c)
    <2>1. c # <<>> => m + n > 0
      BY <1>2, EmptySeq
    <2>2. QED
      BY <1>2, <1>5, <1>6, <1>7, <2>1 DEF Track
  <1>9. QED
    BY <1>1, <1>8, YieldConcat DEF c

(* A track may be cut where no message is open and a status is given.      *)
LEMMA CutTrack ==
    ASSUME NEW S, SYSEX_START \in S, NEW s, Track(S, s),
           NEW k \in 1..(Len(s) + 1), k <= Len(s) => Rests(s[k])
    PROVE  LET a == SubSeq(s, 1, k - 1)
               b == SubSeq(s, k, Len(s))
           IN /\ Track(S, a) /\ Track(S, b) /\ s = a \o b
              /\ Yield(s) = Yield(a) \o Yield(b)
  <1> DEFINE n == Len(s)
             a == SubSeq(s, 1, k - 1)
             b == SubSeq(s, k, n)
  <1>1. s \in Seq(Events(S)) /\ n \in Nat /\ k \in Nat /\ k > 0 /\ k <= n + 1
    BY DEF Track
  <1>2. /\ \A i \in 1..n : Sound(s[i])
        /\ \A i \in 2..n : Follow(s[i - 1], s[i])
        /\ n > 0 => Rests(s[1]) /\ ~Opens(s[n])
        /\ k <= n => Rests(s[k])
    <2>1. n > 0 => s # <<>>
      OBVIOUS
    <2>2. QED
      BY <2>1 DEF Track
  <1>3. /\ a \in Seq(Events(S)) /\ Len(a) = k - 1
        /\ \A i \in 1..(k - 1) : a[i] = s[i]
    <2>1. 1 \in 1..(n + 1) /\ k - 1 \in (1 - 1)..n
      BY <1>1
    <2>2. /\ a \in Seq(Events(S)) /\ Len(a) = (k - 1) - 1 + 1
          /\ \A i \in 1..((k - 1) - 1 + 1) : a[i] = s[1 + i - 1]
      BY <1>1, <2>1, SubSeqProperties
    <2>3. (k - 1) - 1 + 1 = k - 1 /\ \A i \in 1..(k - 1) : 1 + i - 1 = i
      BY <1>1
    <2>4. QED
      BY <2>2, <2>3
  <1>4. /\ b \in Seq(Events(S)) /\ Len(b) = n - k + 1
        /\ \A i \in 1..(n - k + 1) : b[i] = s[k + i - 1]
    <2>1. k \in 1..(n + 1) /\ n \in (k - 1)..n
      BY <1>1
    <2>2. QED
      BY <1>1, <2>1, SubSeqProperties
  <1> HIDE DEF a, b, n
  <1>5. Track(S, a)
    <2>1. \A i \in 1..(k - 1) : i \in 1..n
      BY <1>1
    <2>2. \A i \in 2..(k - 1) : /\ i \in 2..n /\ i \in 1..(k - 1)
                                /\ i - 1 \in 1..(k - 1)
      BY <1>1
    <2>3. \A i \in 1..(k - 1) : Sound(a[i])
      BY <1>2, <1>3, <2>1
    <2>4. \A i \in 2..(k - 1) : Follow(a[i - 1], a[i])
      BY <1>2, <1>3, <2>2
    <2>5. ASSUME a # <<>> PROVE Rests(a[1]) /\ ~Opens(a[k - 1])
      <3>1. k - 1 > 0
        <4>1. Len(a) # 0
          BY <1>3, <2>5, EmptySeq
        <4>2. QED
          BY <1>1, <1>3, <4>1
      <3>2. 1 \in 1..(k - 1) /\ k - 1 \in 1..(k - 1) /\ n > 0
        BY <1>1, <3>1
      <3>3. a[1] = s[1] /\ a[k - 1] = s[k - 1]
        BY <1>3, <3>2
      <3>4. ~Opens(s[k - 1])
        <4>1. CASE k = n + 1
          <5>1. k - 1 = n
            BY <1>1, <4>1
          <5>2. QED
            BY <1>2, <3>2, <5>1
        <4>2. CASE k # n + 1
          <5>1. k \in 2..n /\ k <= n
            BY <1>1, <3>1, <4>2
          <5>2. QED
            BY <1>2, <5>1 DEF Follow, Rests
        <4>3. QED
          BY <4>1, <4>2
      <3>5. QED
        BY <1>2, <3>2, <3>3, <3>4
    <2>6. QED
      BY <1>3, <2>3, <2>4, <2>5 DEF Track
  <1>6. Track(S, b)
    <2>1. \A i \in 1..(n - k + 1) : k + i - 1 \in 1..n
      BY <1>1
    <2>2. \A i \in 2..(n - k + 1) :
            /\ k + i - 1 \in 2..n /\ i \in 1..(n - k + 1)
            /\ i - 1 \in 1..(n - k + 1) /\ k + (i - 1) - 1 = (k + i - 1) - 1
      BY <1>1
    <2>3. \A i \in 1..(n - k + 1) : Sound(b[i])
      BY <1>2, <1>4, <2>1
    <2>4. \A i \in 2..(n - k + 1) : Follow(b[i - 1], b[i])
      BY <1>2, <1>4, <2>2
    <2>5. ASSUME b # <<>> PROVE Rests(b[1]) /\ ~Opens(b[n - k + 1])
      <3>1. n - k + 1 > 0
        <4>1. Len(b) # 0
          BY <1>4, <2>5, EmptySeq
        <4>2. QED
          BY <1>1, <1>4, <4>1
      <3>2. /\ 1 \in 1..(n - k + 1) /\ n - k + 1 \in 1..(n - k + 1) /\ n > 0
            /\ k + 1 - 1 = k /\ k + (n - k + 1) - 1 = n /\ k <= n
        BY <1>1, <3>1
      <3>3. b[1] = s[k] /\ b[n - k + 1] = s[n]
        BY <1>4, <3>2
      <3>4. QED
        BY <1>2, <3>2, <3>3
    <2>6. QED
      BY <1>4, <2>3, <2>4, <2>5 DEF Track
  <1>7. s = a \o b
    <2> DEFINE c == a \o b
    <2>1. /\ c \in Seq(Events(S)) /\ Len(c) = Len(a) + Len(b)
          /\ \A i \in 1..(Len(a) + Len(b)) :
               c[i] = IF i <= Len(a) THEN a[i] ELSE b[i - Len(a)]
      BY <1>3, <1>4, ConcatProperties
    <2> HIDE DEF c
    <2>2. Len(a) + Len(b) = n
      BY <1>1, <1>3, <1>4
    <2>3. ASSUME NEW i \in 1..n PROVE c[i] = s[i]
      <3>1. c[i] = IF i <= k - 1 THEN a[i] ELSE b[i - (k - 1)]
        BY <1>3, <2>1, <2>2
      <3>2. CASE i <= k - 1
        <4>1. i \in 1..(k - 1)
          BY <1>1, <3>2
        <4>2. QED
          BY <1>3, <3>1, <3>2, <4>1
      <3>3. CASE ~(i <= k - 1)
        <4>1. i - (k - 1) \in 1..(n - k + 1) /\ k + (i - (k - 1)) - 1 = i
          BY <1>1, <3>3
        <4>2. QED
          BY <1>4, <3>1, <3>3, <4>1
      <3>4. QED
        BY <3>2, <3>3
    <2>4. c = s
      <3>1. Len(c) = Len(s) /\ Len(s) = n
        BY <2>1, <2>2 DEF n
      <3>2. QED
        BY <1>1, <2>1, <2>3, <3>1, SeqEqual
    <2>5. QED
      BY <2>4 DEF c
  <1>8. Yield(s) = Yield(a) \o Yield(b)
    BY <1>3, <1>4, <1>7, YieldConcat
  <1>9. QED
    BY <1>5, <1>6, <1>7, <1>8 DEF a, b, n

(* Reading a track, one event after the other.                             *)
Reading0 == [running |-> 0, pending |-> <<>>, out |-> <<>>, ok |-> TRUE]
ReadingBy(s, n, g) ==
    g = [k \in 0..n |-> IF k = 0 THEN Reading0 ELSE ReadEvent(g[k - 1], s[k])]
LEMMA ReadingExists ==
    ASSUME NEW s, NEW N \in Nat
    PROVE  \E g : ReadingBy(s, N, g)
  <1> DEFINE G == {m \in 0..N : \E g : ReadingBy(s, m, g)}
  <1>1. 0 \in G
    <2> DEFINE g == [k \in 0..0 |-> Reading0]
    <2>1. ReadingBy(s, 0, g)
      BY DEF ReadingBy
    <2>2. QED
      BY <2>1
  <1>2. ASSUME NEW m \in 1..N, m - 1 \in G PROVE m \in G
    <2>1. PICK g : ReadingBy(s, m - 1, g)
      BY <1>2
    <2> DEFINE h == [k \in 0..m |->
                       IF k = m THEN ReadEvent(g[m - 1], s[m]) ELSE g[k]]
    <2>2. \A k \in 0..m : /\ k # m => k \in 0..(m - 1)
                          /\ k # 0 => k - 1 \in 0..(m - 1)
                          /\ k - 1 # m
      OBVIOUS
    <2>3. \A k \in 0..(m - 1) :
             g[k] = IF k = 0 THEN Reading0 ELSE ReadEvent(g[k - 1], s[k])
      BY <2>1 DEF ReadingBy
    <2>4. /\ h[m] = ReadEvent(g[m - 1], s[m]) /\ m # 0
          /\ \A k \in 0..(m - 1) : h[k] = g[k]
          /\ h = [k \in 0..m |-> h[k]]
      OBVIOUS
    <2> HIDE DEF h
    <2>5. \A k \in 0..m :
             h[k] = IF k = 0 THEN Reading0 ELSE ReadEvent(h[k - 1], s[k])
      <3>1. ASSUME NEW k \in 0..m, k # m
            PROVE  h[k] = IF k = 0 THEN Reading0
                          ELSE ReadEvent(h[k - 1], s[k])
        BY <2>2, <2>3, <2>4, <3>1
      <3>2. h[m] = ReadEvent(h[m - 1], s[m])
        <4>1. m - 1 \in 0..(m - 1)
          OBVIOUS
        <4>2. QED
          BY <2>4, <4>1
      <3>3. QED
        BY <2>4, <3>1, <3>2
    <2>6. ReadingBy(s, m, h)
      BY <2>4, <2>5 DEF ReadingBy
    <2>7. QED
      BY <2>6
  <1> HIDE DEF G
  <1>3. 0..N \subseteq G
    BY <1>1, <1>2, CountingUp
  <1>4. N \in 0..N
    OBVIOUS
  <1>5. QED
    BY <1>3, <1>4 DEF G

(* Some events into a track, the reader has their messages but for one     *)
(* that is open.                                                           *)
Partly(S, r, got) ==
    /\ r = [running |-> r.running, pending |-> r.pending, out |-> r.out,
            ok |-> TRUE]
    /\ r.pending \in Seq(S) /\ r.out \in Seq(S)
    /\ r.out \o r.pending = got
Within(e, r) == /\ r.pending # <<>> <=> Opens(e)
                /\ e.status = 144 => r.running = 144

(* A reader that waits for the end of a message is given it.               *)
LEMMA ReadClosing ==
    ASSUME NEW S, NEW r, NEW got, Partly(S, r, got), NEW e \in Events(S),
           Closes(e), r.pending # <<>>
    PROVE  /\ Partly(S, ReadEvent(r, e), got \o Gives(e))
           /\ Within(e, ReadEvent(r, e))
  <1>1. /\ r.pending \in Seq(S) /\ r.out \in Seq(S) /\ e.data \in Seq(S)
        /\ r.out \o r.pending = got /\ r.ok = TRUE
        /\ e.status = SYSEX_END /\ EndsIn(e.data)
    <2>1. r.ok = TRUE
      BY DEF Partly
    <2>2. QED
      BY <2>1 DEF Partly, Events, Closes
  <1> DEFINE p == r.pending
             d == e.data
             o == r.out
             m == p \o d
  <1>2. p \in Seq(S) /\ d \in Seq(S) /\ o \in Seq(S) /\ d # <<>>
        /\ d[Len(d)] = SYSEX_END
    BY <1>1 DEF EndsIn
  <1> HIDE DEF p, d, o
  <1>3. m \in Seq(S) /\ m[Len(m)] = SYSEX_END
    <2>1. /\ m \in Seq(S) /\ Len(m) = Len(p) + Len(d)
          /\ \A i \in 1..(Len(p) + Len(d)) :
               m[i] = IF i <= Len(p) THEN p[i] ELSE d[i - Len(p)]
      BY <1>2, ConcatProperties
    <2>2. Len(d) > 0 /\ Len(p) \in Nat /\ Len(d) \in Nat
      BY <1>2, EmptySeq
    <2>3. /\ Len(p) + Len(d) \in 1..(Len(p) + Len(d))
          /\ ~(Len(p) + Len(d) <= Len(p))
          /\ (Len(p) + Len(d)) - Len(p) = Len(d)
      BY <2>2
    <2>4. QED
      BY <1>2, <2>1, <2>3
  <1> HIDE DEF m
  <1>5. ReadEvent(r, e) = [running |-> r.running, pending |-> <<>>,
                           out |-> o \o m, ok |-> TRUE]
    <2>1. e.status = 247 /\ 247 \notin 128..239 /\ 247 # 240 /\ 247 # 255
          /\ 247 # 0
      BY <1>1 DEF SYSEX_END
    <2>2. p # <<>>
      BY DEF p
    <2>3. StatusOf(r, e) = 247
      BY <2>1 DEF StatusOf
    <2>4. ReadEvent(r, e) = Received(r, m)
      BY <2>1, <2>2, <2>3
         DEF ReadEvent, META, SYSEX_START, SYSEX_END, p, d, m
    <2>5. QED
      BY <1>1, <1>3, <2>4 DEF Received, o
  <1>6. o \o m = got \o d /\ o \o m \in Seq(S)
    <2>0. o \in Seq(S) /\ p \in Seq(S) /\ d \in Seq(S)
      BY <1>2
    <2>1. (o \o p) \o d = o \o (p \o d)
      BY <2>0, ConcatAssociative
    <2>2. o \o m \in Seq(S)
      BY <1>2, <1>3, ConcatProperties
    <2>3. QED
      BY <1>1, <2>1, <2>2 DEF o, p, m
  <1>7. Gives(e) = d
    BY <1>1 DEF Gives, Closes, d, SYSEX_START, SYSEX_END
  <1>8. (o \o m) \o <<>> = o \o m /\ <<>> \in Seq(S)
    BY <1>6, ConcatEmptySeq
  <1>9. ~Opens(e) /\ e.status # 144
    BY <1>1 DEF Opens, SYSEX_START, SYSEX_END
  <1> DEFINE q == ReadEvent(r, e)
  <1>10. /\ q.running = r.running /\ q.pending = <<>> /\ q.out = o \o m
         /\ q.ok = TRUE
         /\ q = [running |-> q.running, pending |-> q.pending,
                 out |-> q.out, ok |-> TRUE]
    BY <1>5
  <1> HIDE DEF q
  <1>11. Partly(S, q, got \o Gives(e))
    BY <1>6, <1>7, <1>8, <1>10 DEF Partly
  <1>12. Within(e, q)
    BY <1>9, <1>10 DEF Within
  <1>13. QED
    BY <1>11, <1>12 DEF q

(* A reader that waits for nothing.                                        *)
LEMMA ReadOther ==
    ASSUME NEW S, SYSEX_START \in S, NEW r, NEW got, Partly(S, r, got),
           NEW e \in Events(S), Sound(e), ~Closes(e), r.pending = <<>>,
           e.status = 0 => r.running = 144
    PROVE  /\ Partly(S, ReadEvent(r, e), got \o Gives(e))
           /\ Within(e, ReadEvent(r, e))
  <1> DEFINE q == ReadEvent(r, e)
             d == e.data
             o == r.out
  <1>1. /\ o \in Seq(S) /\ d \in Seq(S) /\ e.status \in Statuses
        /\ o = got /\ r.ok = TRUE /\ <<>> \in Seq(S)
        /\ r = [running |-> r.running, pending |-> <<>>, out |-> o,
                ok |-> TRUE]
    <2>1. r.out \in Seq(S) /\ r.out \o <<>> = got
      BY DEF Partly
    <2>2. r.out = got
      BY <2>1, ConcatEmptySeq
    <2>3. r = [running |-> r.running, pending |-> r.pending, out |-> r.out,
               ok |-> TRUE]
      BY DEF Partly
    <2>4. r = [running |-> r.running, pending |-> <<>>, out |-> r.out,
               ok |-> TRUE]
      BY <2>3
    <2>5. r.ok = TRUE
      BY <2>4
    <2>6. QED
      BY <2>1, <2>2, <2>4, <2>5 DEF Events
  <1>2. CASE e.status = SYSEX_START
    <2> DEFINE m == <<SYSEX_START>> \o d
    <2>1. /\ m \in Seq(S) /\ Len(m) = 1 + Len(d)
          /\ \A i \in 1..(1 + Len(d)) :
               m[i] = IF i <= 1 THEN SYSEX_START ELSE d[i - 1]
      <3>1. <<SYSEX_START>> \in Seq(S) /\ Len(<<SYSEX_START>>) = 1
            /\ <<SYSEX_START>>[1] = SYSEX_START
        OBVIOUS
      <3>2. /\ m \in Seq(S) /\ Len(m) = 1 + Len(d)
            /\ \A i \in 1..(1 + Len(d)) :
                 m[i] = IF i <= 1 THEN <<SYSEX_START>>[i] ELSE d[i - 1]
        BY <1>1, <3>1, ConcatProperties
      <3>3. \A i \in 1..(1 + Len(d)) : i <= 1 => i = 1
        OBVIOUS
      <3>4. QED
        BY <3>1, <3>2, <3>3
    <2>2. d # <<>> /\ Len(d) > 0 /\ Len(d) \in Nat
      BY <1>1, <1>2, EmptySeq DEF Sound
    <2> HIDE DEF m
    <2>3. m[Len(m)] = d[Len(d)] /\ m # <<>>
      <3>1. /\ 1 + Len(d) \in 1..(1 + Len(d)) /\ ~(1 + Len(d) <= 1)
            /\ (1 + Len(d)) - 1 = Len(d) /\ 1 + Len(d) # 0
        BY <2>2
      <3>2. QED
        BY <2>1, <3>1
    <2>4. (m[Len(m)] = SYSEX_END) <=> ~Opens(e)
      BY <1>2, <2>2, <2>3 DEF Opens, EndsIn, d
    <2>5. q = IF ~Opens(e)
              THEN [running |-> r.running, pending |-> <<>>,
                    out |-> o \o m, ok |-> TRUE]
              ELSE [running |-> r.running, pending |-> m, out |-> o,
                    ok |-> TRUE]
      <3>1. e.status = 240 /\ 240 \notin 128..239 /\ 240 # 255 /\ 240 # 0
        BY <1>2 DEF SYSEX_START
      <3>2. StatusOf(r, e) = 240
        BY <3>1 DEF StatusOf
      <3>3. q = Received(r, m)
        BY <3>1, <3>2 DEF ReadEvent, META, SYSEX_START, SYSEX_END, d, m
      <3> HIDE DEF q
      <3>4. CASE ~Opens(e)
        BY <1>1, <2>4, <3>3, <3>4 DEF Received, o
      <3>5. CASE Opens(e)
        BY <1>1, <2>4, <3>3, <3>5 DEF Received, o
      <3>6. QED
        BY <3>4, <3>5
    <2>6. Gives(e) = m
      BY <1>2 DEF Gives, d, m
    <2>7. o \o m \in Seq(S) /\ (o \o m) \o <<>> = o \o m
      <3>1. o \o m \in Seq(S)
        BY <1>1, <2>1, ConcatProperties
      <3>2. QED
        BY <3>1, ConcatEmptySeq
    <2>8. e.status # 144
      BY <1>2 DEF SYSEX_START
    <2> HIDE DEF q, o
    <2>9. CASE ~Opens(e)
      <3>1. /\ q.pending = <<>> /\ q.out = o \o m
            /\ q = [running |-> q.running, pending |-> q.pending,
                    out |-> q.out, ok |-> TRUE]
        BY <1>1, <2>5, <2>9
      <3>2. Partly(S, q, got \o Gives(e))
        BY <1>1, <2>6, <2>7, <3>1 DEF Partly
      <3>3. Within(e, q)
        BY <2>8, <2>9, <3>1 DEF Within
      <3>4. QED
        BY <3>2, <3>3 DEF q
    <2>10. CASE Opens(e)
      <3>1. /\ q.pending = m /\ q.out = o
            /\ q = [running |-> q.running, pending |-> q.pending,
                    out |-> q.out, ok |-> TRUE]
        BY <1>1, <2>5, <2>10
      <3>2. Partly(S, q, got \o Gives(e))
        BY <1>1, <2>1, <2>6, <3>1 DEF Partly
      <3>3. Within(e, q)
        BY <2>3, <2>8, <2>10, <3>1 DEF Within
      <3>4. QED
        BY <3>2, <3>3 DEF q
    <2>11. QED
      BY <2>9, <2>10
  <1>3. CASE e.status # SYSEX_START
    <2>1. Gives(e) = <<>> /\ ~Opens(e) /\ got \o <<>> = got
      <3>1. got \o <<>> = got
        BY <1>1, ConcatEmptySeq
      <3>2. QED
        BY <1>3, <3>1 DEF Gives, Opens
    <2>2. q = r \/ q = [r EXCEPT !.running = 144]
      <3>1. CASE e.status = 0
        <4>1. r.running = 144 /\ 144 # 255 /\ 144 \in 128..239
          BY <3>1
        <4>2. QED
          BY <3>1, <4>1 DEF ReadEvent, StatusOf, META, SYSEX_START,
                               SYSEX_END
      <3>2. CASE e.status = 144
        <4>1. 144 # 255 /\ 144 \in 128..239 /\ 144 # 0
          OBVIOUS
        <4>2. QED
          BY <3>2, <4>1 DEF ReadEvent, StatusOf, META, SYSEX_START,
                               SYSEX_END
      <3>3. CASE e.status = META
        <4>1. META # 0
          BY DEF META
        <4>2. QED
          BY <3>3, <4>1 DEF ReadEvent, StatusOf, META, SYSEX_START,
                               SYSEX_END
      <3>4. CASE e.status = SYSEX_END
        <4>1. 247 # 255 /\ 247 \notin 128..239 /\ 247 # 0 /\ 247 # 240
          OBVIOUS
        <4>2. QED
          BY <3>4, <4>1 DEF ReadEvent, StatusOf, META, SYSEX_START,
                               SYSEX_END
      <3>5. QED
        BY <1>1, <1>3, <3>1, <3>2, <3>3, <3>4 DEF Statuses
    <2>3. e.status = 144 => q.running = 144
      <3>1. ASSUME e.status = 144 PROVE q = [r EXCEPT !.running = 144]
        <4>1. 144 # 255 /\ 144 \in 128..239 /\ 144 # 0
          OBVIOUS
        <4>2. QED
          BY <3>1, <4>1 DEF ReadEvent, StatusOf, META, SYSEX_START,
                               SYSEX_END
      <3> HIDE DEF q, o
      <3>2. QED
        BY <1>1, <3>1
    <2> HIDE DEF q, o
    <2>4. /\ q.pending = <<>> /\ q.out = o
          /\ q = [running |-> q.running, pending |-> q.pending,
                  out |-> q.out, ok |-> TRUE]
      BY <1>1, <2>2
    <2>5. Partly(S, q, got \o Gives(e))
      BY <1>1, <2>1, <2>4 DEF Partly
    <2>6. Within(e, q)
      BY <2>1, <2>3, <2>4 DEF Within
    <2>7. QED
      BY <2>5, <2>6 DEF q
  <1>4. QED
    BY <1>2, <1>3

(* Reading a track gives the messages it holds.                            *)
LEMMA ReadTrack ==
    ASSUME NEW S, SYSEX_START \in S, NEW s, Track(S, s)
    PROVE  read_track(s).ok = TRUE /\ read_track(s).out = Yield(s)
  <1> DEFINE n == Len(s)
             g == CHOOSE g : ReadingBy(s, n, g)
             y == [k \in DOMAIN s |-> Gives(s[k])]
  <1>1. s \in Seq(Events(S)) /\ n \in Nat
        /\ \A k \in 1..n : s[k] \in Events(S)
    BY DEF Track
  <1>2. /\ \A k \in 1..n : Sound(s[k])
        /\ \A k \in 2..n : Follow(s[k - 1], s[k])
        /\ n > 0 => Rests(s[1]) /\ ~Opens(s[n])
    <2>1. n > 0 => s # <<>>
      OBVIOUS
    <2>2. QED
      BY <2>1 DEF Track
  <1>3. read_track(s) = [ok |-> g[n].ok /\ g[n].pending = <<>>,
                         out |-> g[n].out]
    BY DEF read_track, ReadingBy, Reading0
  <1>4. ReadingBy(s, n, g)
    BY <1>1, ReadingExists
  <1> HIDE DEF g
  <1>5. /\ y \in Seq(Seq(S)) /\ Len(y) = n
        /\ \A k \in 1..n : y[k] = Gives(s[k])
    BY <1>1, GivenBytes
  <1>6. Yield(s) = FlattenSeq(y)
    BY DEF Yield
  <1> HIDE DEF y
  <1>7. PICK F : FlatBy(y, F) /\ \A i \in 0..Len(y) : F[i] \in Seq(S)
    BY <1>5, FlatSteps
  <1> HIDE DEF n
  <1>8. F[0] = <<>> /\ F[n] = Yield(s)
        /\ \A k \in 1..n : F[k] = F[k - 1] \o Gives(s[k])
    BY <1>5, <1>6, <1>7 DEF FlatBy
  <1>9. /\ g[0] = Reading0
        /\ \A k \in 1..n : g[k] = ReadEvent(g[k - 1], s[k])
    <2>1. 0 \in 0..n /\ \A k \in 1..n : k \in 0..n /\ k # 0
      BY <1>1
    <2>2. \A k \in 0..n : g[k] = IF k = 0 THEN Reading0
                                 ELSE ReadEvent(g[k - 1], s[k])
      BY <1>4 DEF ReadingBy
    <2>3. QED
      BY <2>1, <2>2
  <1> DEFINE G == {k \in 0..n : /\ Partly(S, g[k], F[k])
                                /\ k # 0 => Within(s[k], g[k])
                                /\ k = 0 => g[k].pending = <<>>}
  <1>10. 0 \in G
    <2>1. Partly(S, g[0], F[0]) /\ g[0].pending = <<>>
      <3>1. <<>> \in Seq(S) /\ <<>> \o <<>> = <<>>
        BY ConcatEmptySeq
      <3>2. QED
        BY <1>8, <1>9, <3>1 DEF Partly, Reading0
    <2>2. 0 \in 0..n
      BY <1>1
    <2>3. QED
      BY <2>1, <2>2
  <1>11. ASSUME NEW k \in 1..n, k - 1 \in G PROVE k \in G
    <2>1. k \in 0..n /\ k # 0
      BY <1>1
    <2>2. Partly(S, g[k - 1], F[k - 1]) /\ Sound(s[k]) /\ s[k] \in Events(S)
      BY <1>1, <1>2, <1>11
    <2>3. \/ Closes(s[k]) /\ g[k - 1].pending # <<>>
          \/ /\ ~Closes(s[k]) /\ g[k - 1].pending = <<>>
             /\ s[k].status = 0 => g[k - 1].running = 144
      <3>1. CASE k = 1
        <4>1. k - 1 = 0 /\ n > 0
          BY <1>1, <3>1
        <4>2. g[k - 1].pending = <<>> /\ Rests(s[k])
          BY <1>2, <1>11, <3>1, <4>1
        <4>3. QED
          BY <4>2 DEF Rests
      <3>2. CASE k # 1
        <4>1. k - 1 # 0 /\ k \in 2..n
          BY <1>1, <3>2
        <4>2. Within(s[k - 1], g[k - 1]) /\ Follow(s[k - 1], s[k])
          BY <1>2, <1>11, <4>1
        <4>3. QED
          BY <4>2 DEF Within, Follow
      <3>3. QED
        BY <3>1, <3>2
    <2>4. /\ Partly(S, ReadEvent(g[k - 1], s[k]), F[k - 1] \o Gives(s[k]))
          /\ Within(s[k], ReadEvent(g[k - 1], s[k]))
      BY <2>2, <2>3, ReadClosing, ReadOther
    <2>5. Partly(S, g[k], F[k]) /\ Within(s[k], g[k])
      BY <1>8, <1>9, <2>4
    <2>6. QED
      BY <2>1, <2>5
  <1> HIDE DEF G
  <1>12. 0..n \subseteq G
    BY <1>1, <1>10, <1>11, CountingUp
  <1>13. n \in G
    BY <1>1, <1>12
  <1>14. Partly(S, g[n], F[n]) /\ g[n].pending = <<>>
    <2>1. CASE n = 0
      BY <1>13, <2>1 DEF G
    <2>2. CASE n # 0
      <3>1. n > 0
        BY <1>1, <2>2
      <3>2. QED
        BY <1>2, <1>13, <2>2, <3>1 DEF G, Within
    <2>3. QED
      BY <2>1, <2>2
  <1>15. g[n].ok = TRUE /\ g[n].out = F[n]
    <2>1. /\ g[n] = [running |-> g[n].running, pending |-> g[n].pending,
                     out |-> g[n].out, ok |-> TRUE]
          /\ g[n].out \in Seq(S) /\ g[n].out \o g[n].pending = F[n]
      BY <1>14 DEF Partly
    <2>2. g[n].ok = TRUE
      BY <2>1
    <2>3. g[n].out \o <<>> = g[n].out
      BY <2>1, ConcatEmptySeq
    <2>4. QED
      BY <1>14, <2>1, <2>2, <2>3
  <1>16. read_track(s).ok = (g[n].ok /\ g[n].pending = <<>>)
         /\ read_track(s).out = g[n].out
    BY <1>3 DEF n
  <1>17. QED
    BY <1>8, <1>14, <1>15, <1>16

(* A message as an event.                                                  *)
LEMMA MessageEvent ==
    ASSUME NEW S, SYSEX_START \in S, NEW f, Sealed(S, f)
    PROVE  /\ EventOf(f) \in Events(S) /\ Sound(EventOf(f))
           /\ ~Opens(EventOf(f)) /\ ~Closes(EventOf(f))
           /\ EventOf(f).status = SYSEX_START
           /\ Gives(EventOf(f)) = f
  <1> DEFINE d == Tail(f)
             e == EventOf(f)
  <1>1. /\ f \in Seq(S) /\ Len(f) \in Nat /\ Len(f) >= 3 /\ f # <<>>
        /\ f[1] = SYSEX_START /\ f[Len(f)] = SYSEX_END
        /\ \A i \in 1..(Len(f) - 1) : f[i] # SYSEX_END
    BY DEF Sealed, Opening, Complete
  <1>2. /\ d \in Seq(S) /\ Len(d) = Len(f) - 1
        /\ \A i \in 1..Len(d) : d[i] = f[i + 1]
    BY <1>1
  <1>3. e.status = SYSEX_START /\ e.data = d /\ e \in Events(S)
    BY <1>2 DEF EventOf, Events, Statuses
  <1>4. f = <<SYSEX_START>> \o d
    <2> DEFINE g == <<SYSEX_START>> \o d
    <2>1. <<SYSEX_START>> \in Seq(S) /\ Len(<<SYSEX_START>>) = 1
      OBVIOUS
    <2>2. /\ g \in Seq(S) /\ Len(g) = 1 + Len(d)
          /\ \A i \in 1..(1 + Len(d)) :
               g[i] = IF i <= 1 THEN <<SYSEX_START>>[i] ELSE d[i - 1]
      BY <1>2, <2>1, ConcatProperties
    <2> HIDE DEF g
    <2>3. Len(g) = Len(f)
      BY <1>1, <1>2, <2>2
    <2> HIDE DEF d
    <2>4. ASSUME NEW i \in 1..Len(f) PROVE f[i] = g[i]
      <3>1. CASE i = 1
        BY <1>1, <1>2, <2>2, <3>1
      <3>2. CASE i # 1
        <4>1. /\ i \in 1..(1 + Len(d)) /\ ~(i <= 1) /\ i - 1 \in 1..Len(d)
              /\ (i - 1) + 1 = i
          BY <1>1, <1>2, <3>2
        <4>2. QED
          BY <1>2, <2>2, <4>1
      <3>3. QED
        BY <3>1, <3>2
    <2>5. f = g
      BY <1>1, <2>2, <2>3, <2>4, SeqEqual
    <2>6. QED
      BY <2>5 DEF g
  <1> HIDE DEF d, e
  <1>5. d # <<>> /\ EndsIn(d)
    <2>1. Len(d) \in 1..Len(d) /\ Len(d) + 1 = Len(f)
      BY <1>1, <1>2
    <2>2. d # <<>>
      BY <1>1, <1>2
    <2>3. d[Len(d)] = f[Len(f)]
      BY <1>2, <2>1
    <2>4. QED
      BY <1>1, <2>2, <2>3 DEF EndsIn
  <1>6. Sound(e)
    <2>1. ASSUME NEW j \in 1..(Len(d) - 1) PROVE d[j] # SYSEX_END
      <3>1. j \in 1..Len(d) /\ j + 1 \in 1..(Len(f) - 1)
        BY <1>1, <1>2
      <3>2. QED
        BY <1>1, <1>2, <3>1
    <2>2. QED
      BY <1>3, <1>5, <2>1 DEF Sound
  <1>7. ~Opens(e)
    BY <1>3, <1>5 DEF Opens
  <1>8. ~Closes(e)
    BY <1>3 DEF Closes, SYSEX_START, SYSEX_END
  <1>9. Gives(e) = f
    BY <1>3, <1>4 DEF Gives
  <1>10. QED
    BY <1>3, <1>6, <1>7, <1>8, <1>9 DEF e

LEMMA OneEvent ==
    ASSUME NEW S, NEW e \in Events(S), Sound(e), ~Opens(e), Rests(e)
    PROVE  Track(S, <<e>>)
  <1>1. /\ <<e>> \in Seq(Events(S)) /\ Len(<<e>>) = 1 /\ <<e>>[1] = e
        /\ \A k \in 1..1 : k = 1
        /\ \A k \in 2..1 : FALSE
    OBVIOUS
  <1>2. QED
    BY <1>1 DEF Track

LEMMA TwoEvents ==
    ASSUME NEW S, SYSEX_START \in S,
           NEW d \in Events(S), NEW e \in Events(S), Sound(d), Sound(e),
           Rests(d), Follow(d, e), ~Opens(e)
    PROVE  Track(S, <<d, e>>) /\ Yield(<<d, e>>) = Gives(d) \o Gives(e)
  <1>1. /\ <<d, e>> \in Seq(Events(S)) /\ Len(<<d, e>>) = 2
        /\ <<d, e>>[1] = d /\ <<d, e>>[2] = e
        /\ \A k \in 1..2 : k = 1 \/ k = 2
        /\ \A k \in 2..2 : k = 2 /\ k - 1 = 1
    OBVIOUS
  <1>2. Track(S, <<d, e>>)
    <2>1. \A k \in 1..2 : Sound(<<d, e>>[k])
      BY <1>1
    <2>2. \A k \in 2..2 : Follow(<<d, e>>[k - 1], <<d, e>>[k])
      BY <1>1
    <2>3. QED
      BY <1>1, <2>1, <2>2 DEF Track
  <1>3. <<d>> \in Seq(Events(S)) /\ <<e>> \in Seq(Events(S))
        /\ <<d, e>> = <<d>> \o <<e>>
    <2>1. <<d>> \in Seq(Events(S)) /\ <<e>> \in Seq(Events(S))
      OBVIOUS
    <2>2. <<d, e>> = Append(<<d>>, e)
      OBVIOUS
    <2>3. Append(<<d>>, e) = <<d>> \o <<e>>
      BY <2>1, AppendIsConcat
    <2>4. QED
      BY <2>1, <2>2, <2>3
  <1>4. Yield(<<d, e>>) = Yield(<<d>>) \o Yield(<<e>>)
    BY <1>3, YieldConcat
  <1>5. QED
    BY <1>2, <1>4, YieldOne

(* What syx_to_smf writes is a track that holds the messages.              *)
LEMMA SavedTrack ==
    ASSUME NEW S, SYSEX_START \in S,
           NEW fs \in Seq({f \in Seq(S) : Sealed(S, f)})
    PROVE  LET s == Append([k \in DOMAIN fs |-> EventOf(fs[k])], EndOfTrack)
           IN Track(S, s) /\ Yield(s) = FlattenSeq(fs)
  <1> DEFINE W == {f \in Seq(S) : Sealed(S, f)}
             a == [k \in DOMAIN fs |-> EventOf(fs[k])]
             n == Len(fs)
  <1>1. n \in Nat /\ DOMAIN fs = 1..n /\ \A k \in 1..n : fs[k] \in W
    <2> HIDE DEF W
    <2>1. QED
      BY DEF W
  <1>2. \A k \in 1..n : Sealed(S, fs[k]) /\ fs[k] \in Seq(S)
    BY <1>1
  <1>3. /\ a \in Seq(Events(S)) /\ Len(a) = n
        /\ \A k \in 1..n : a[k] = EventOf(fs[k])
    <2>1. \A k \in 1..n : EventOf(fs[k]) \in Events(S)
      BY <1>2, MessageEvent
    <2>2. a \in [1..n -> Events(S)]
      BY <1>1, <2>1
    <2>3. QED
      BY <1>1, <2>2, CountedSeq
  <1>4. \A k \in 1..n : /\ Sound(a[k]) /\ ~Opens(a[k]) /\ ~Closes(a[k])
                        /\ a[k].status = SYSEX_START
                        /\ Gives(a[k]) = fs[k]
    BY <1>2, <1>3, MessageEvent
  <1>5. DOMAIN a = 1..n
    BY <1>1
  <1> HIDE DEF a, n
  <1>6. Track(S, a)
    <2>1. \A k \in 2..n : k \in 1..n /\ k - 1 \in 1..n
      BY <1>1
    <2>2. \A k \in 2..n : Follow(a[k - 1], a[k])
      BY <1>4, <2>1 DEF Follow, SYSEX_START
    <2>3. ASSUME a # <<>> PROVE Rests(a[1]) /\ ~Opens(a[n])
      <3>1. n # 0
        BY <1>3, <2>3, EmptySeq
      <3>2. 1 \in 1..n /\ n \in 1..n
        BY <1>1, <3>1
      <3>3. QED
        BY <1>4, <3>2 DEF Rests, SYSEX_START
    <2>4. QED
      BY <1>3, <1>4, <2>2, <2>3 DEF Track
  <1>7. Yield(a) = FlattenSeq(fs)
    <2>1. [k \in DOMAIN a |-> Gives(a[k])] = [k \in 1..n |-> fs[k]]
      BY <1>4, <1>5
    <2>2. fs = [k \in 1..n |-> fs[k]]
      BY <1>1
    <2>3. QED
      BY <2>1, <2>2 DEF Yield
  <1> DEFINE z == EndOfTrack
  <1>8. /\ z \in Events(S) /\ Sound(z) /\ ~Opens(z) /\ Rests(z)
        /\ Gives(z) = <<>>
    <2>1. z = [status |-> 255, data |-> <<>>] /\ <<>> \in Seq(S)
      BY DEF EndOfTrack, META
    <2>2. z.status = 255 /\ z \in [status : {255}, data : Seq(S)]
      BY <2>1
    <2> HIDE DEF z
    <2>3. QED
      BY <2>2 DEF Events, Statuses, META, Sound, Opens, Closes, Rests,
                  Gives, SYSEX_START, SYSEX_END
  <1> HIDE DEF z
  <1>9. Track(S, <<z>>) /\ Yield(<<z>>) = <<>>
    BY <1>8, OneEvent, YieldOne
  <1>10. Track(S, a \o <<z>>) /\ Yield(a \o <<z>>) = Yield(a) \o <<>>
    <2>1. /\ Track(S, a \o <<z>>)
          /\ Yield(a \o <<z>>) = Yield(a) \o Yield(<<z>>)
      BY <1>6, <1>9, JoinTracks
    <2>2. QED
      BY <1>9, <2>1, Zenon
  <1>11. Yield(a) \o <<>> = Yield(a)
    <2>1. Yield(a) \in Seq(S)
      BY <1>3, YieldConcat
    <2>2. QED
      BY <2>1, ConcatEmptySeq
  <1>12. Append(a, z) = a \o <<z>>
    BY <1>3, <1>8, AppendIsConcat
  <1>13. QED
    BY <1>7, <1>10, <1>11, <1>12 DEF a, z

(* Events of a sequencer, put where no message is open.                    *)
LEMMA OthersAreTracks ==
    ASSUME NEW S, {0, 1, 60, 64, 243, SYSEX_START} \subseteq S,
           NEW es \in Others
    PROVE  Track(S, es) /\ Yield(es) = <<>>
  <1>1. CASE es = <<[status |-> 144, data |-> <<60, 64>>],
                    [status |-> 0, data |-> <<60, 0>>]>>
    <2> DEFINE d == [status |-> 144, data |-> <<60, 64>>]
               e == [status |-> 0, data |-> <<60, 0>>]
    <2>1. <<60, 64>> \in Seq(S) /\ <<60, 0>> \in Seq(S)
      OBVIOUS
    <2>2. d \in Events(S) /\ e \in Events(S)
      BY <2>1 DEF Events, Statuses
    <2>3. d.status = 144 /\ e.status = 0
      OBVIOUS
    <2> HIDE DEF d, e
    <2>4. /\ Sound(d) /\ Sound(e) /\ Rests(d) /\ Follow(d, e) /\ ~Opens(e)
          /\ Gives(d) = <<>> /\ Gives(e) = <<>>
      BY <2>3 DEF Sound, Rests, Follow, Opens, Closes, Gives, SYSEX_START,
                  SYSEX_END
    <2>5. <<>> \o <<>> = <<>>
      BY ConcatEmptySeq
    <2>6. Track(S, <<d, e>>) /\ Yield(<<d, e>>) = <<>>
      <3>1. /\ Track(S, <<d, e>>)
            /\ Yield(<<d, e>>) = Gives(d) \o Gives(e)
        BY <2>2, <2>4, TwoEvents
      <3>2. QED
        BY <2>4, <2>5, <3>1
    <2>7. QED
      BY <1>1, <2>6 DEF d, e
  <1>2. CASE es = <<[status |-> META, data |-> <<>>]>>
    <2> DEFINE z == [status |-> META, data |-> <<>>]
    <2>1. z \in Events(S) /\ z.status = 255
      BY DEF Events, Statuses, META
    <2> HIDE DEF z
    <2>2. Sound(z) /\ ~Opens(z) /\ Rests(z) /\ Gives(z) = <<>>
      BY <2>1 DEF Sound, Rests, Opens, Closes, Gives, SYSEX_START, SYSEX_END
    <2>3. Track(S, <<z>>) /\ Yield(<<z>>) = <<>>
      BY <2>1, <2>2, OneEvent, YieldOne
    <2>4. QED
      BY <1>2, <2>3 DEF z
  <1>3. CASE es = <<[status |-> SYSEX_END, data |-> <<243, 1>>]>>
    <2> DEFINE z == [status |-> SYSEX_END, data |-> <<243, 1>>]
    <2>1. <<243, 1>> \in Seq(S) /\ Len(<<243, 1>>) = 2 /\ <<243, 1>>[2] = 1
      OBVIOUS
    <2>2. z \in Events(S) /\ z.status = SYSEX_END /\ z.data = <<243, 1>>
      BY <2>1 DEF Events, Statuses
    <2>3. ~EndsIn(z.data)
      BY <2>1, <2>2 DEF EndsIn, SYSEX_END
    <2> HIDE DEF z
    <2>4. Sound(z) /\ ~Opens(z) /\ Rests(z) /\ Gives(z) = <<>>
      BY <2>2, <2>3
         DEF Sound, Rests, Opens, Closes, Gives, SYSEX_START, SYSEX_END
    <2>5. Track(S, <<z>>) /\ Yield(<<z>>) = <<>>
      BY <2>2, <2>4, OneEvent, YieldOne
    <2>6. QED
      BY <1>3, <2>5 DEF z
  <1>4. QED
    BY <1>1, <1>2, <1>3 DEF Others

LEMMA EventAdded ==
    ASSUME NEW S, {0, 1, 60, 64, 243, SYSEX_START} \subseteq S,
           NEW s, Track(S, s), NEW k \in 1..Len(s), Rests(s[k]),
           NEW es \in Others
    PROVE  LET t == SubSeq(s, 1, k - 1) \o es \o SubSeq(s, k, Len(s))
           IN Track(S, t) /\ Yield(t) = Yield(s)
  <1> DEFINE a == SubSeq(s, 1, k - 1)
             b == SubSeq(s, k, Len(s))
  <1>1. k \in 1..(Len(s) + 1) /\ SYSEX_START \in S
    BY DEF Track
  <1>2. Track(S, a) /\ Track(S, b) /\ Yield(s) = Yield(a) \o Yield(b)
    BY <1>1, CutTrack
  <1> HIDE DEF a, b
  <1>3. Track(S, es) /\ Yield(es) = <<>>
    BY OthersAreTracks
  <1>4. Track(S, a \o es) /\ Yield(a \o es) = Yield(a) \o <<>>
    <2>1. /\ Track(S, a \o es)
          /\ Yield(a \o es) = Yield(a) \o Yield(es)
      <3>1. SYSEX_START \in S /\ Track(S, a) /\ Track(S, es)
        BY <1>1, <1>2, <1>3
      <3>2. QED
        BY <3>1, JoinTracks
    <2>2. QED
      BY <1>3, <2>1, Zenon
  <1>5. Yield(a) \o <<>> = Yield(a)
    <2>1. a \in Seq(Events(S))
      BY <1>2 DEF Track
    <2>2. Yield(a) \in Seq(S)
      BY <1>1, <2>1, YieldConcat
    <2>3. QED
      BY <2>2, ConcatEmptySeq
  <1>6. /\ Track(S, (a \o es) \o b)
        /\ Yield((a \o es) \o b) = Yield(a \o es) \o Yield(b)
    <2>1. SYSEX_START \in S /\ Track(S, a \o es) /\ Track(S, b)
      BY <1>1, <1>2, <1>4
    <2>2. QED
      BY <2>1, JoinTracks
  <1>7. QED
    BY <1>2, <1>4, <1>5, <1>6 DEF a, b

LEMMA TwoParts ==
    ASSUME NEW S, NEW x \in Seq(S), Len(x) > 8, NEW o \in Seq(S)
    PROVE  (o \o SubSeq(x, 1, 8)) \o SubSeq(x, 9, Len(x)) = o \o x
  <1> DEFINE n == Len(x)
             p == SubSeq(x, 1, 8)
             q == SubSeq(x, 9, n)
             y == p \o q
  <1>1. n \in Nat /\ n > 8
    OBVIOUS
  <1>2. p \in Seq(S) /\ Len(p) = 8 /\ \A j \in 1..8 : p[j] = x[j]
    <2>1. 1 \in 1..(n + 1) /\ 8 \in (1 - 1)..n
      BY <1>1
    <2>2. /\ p \in Seq(S) /\ Len(p) = 8 - 1 + 1
          /\ \A j \in 1..(8 - 1 + 1) : p[j] = x[1 + j - 1]
      BY <2>1, SubSeqProperties
    <2>3. QED
      BY <2>2
  <1>3. /\ q \in Seq(S) /\ Len(q) = n - 8
        /\ \A j \in 1..(n - 8) : q[j] = x[j + 8]
    <2>1. 9 \in 1..(n + 1) /\ n \in (9 - 1)..n
      BY <1>1
    <2>2. /\ q \in Seq(S) /\ Len(q) = n - 9 + 1
          /\ \A j \in 1..(n - 9 + 1) : q[j] = x[9 + j - 1]
      BY <2>1, SubSeqProperties
    <2>3. n - 9 + 1 = n - 8 /\ \A j \in 1..(n - 8) : 9 + j - 1 = j + 8
      BY <1>1
    <2>4. QED
      BY <2>2, <2>3
  <1> HIDE DEF p, q
  <1>a. p \in Seq(S) /\ q \in Seq(S)
    BY <1>2, <1>3
  <1>4. /\ y \in Seq(S) /\ Len(y) = Len(p) + Len(q)
        /\ \A i \in 1..(Len(p) + Len(q)) :
             y[i] = IF i <= Len(p) THEN p[i] ELSE q[i - Len(p)]
    BY <1>a, ConcatProperties
  <1>5. (o \o p) \o q = o \o (p \o q)
    BY SMTT(30), <1>a, ConcatAssociative
  <1> HIDE DEF y
  <1>6. Len(y) = n /\ Len(p) + Len(q) = n
    BY <1>1, <1>2, <1>3, <1>4
  <1>7. ASSUME NEW i \in 1..Len(y) PROVE y[i] = x[i]
    <2>1. CASE i <= 8
      <3>1. i \in 1..8
        BY <2>1
      <3>2. QED
        BY <1>2, <1>4, <1>6, <2>1, <3>1
    <2>2. CASE ~(i <= 8)
      <3>1. i - 8 \in 1..(n - 8) /\ (i - 8) + 8 = i
        BY <1>1, <1>6, <2>2
      <3>2. QED
        BY <1>2, <1>3, <1>4, <1>6, <2>2, <3>1
    <2>3. QED
      BY <2>1, <2>2
  <1>8. y = x
    BY <1>4, <1>6, <1>7, SeqEqual DEF n
  <1>9. QED
    BY <1>5, <1>8 DEF p, q, y, n

(* A message split over two events.                                        *)
Parted(s, k) ==
    LET data == s[k].data
    IN SubSeq(s, 1, k - 1)
       \o <<[status |-> SYSEX_START, data |-> SubSeq(data, 1, 8)],
            [status |-> SYSEX_END, data |-> SubSeq(data, 9, Len(data))]>>
       \o SubSeq(s, k + 1, Len(s))
LEMMA EventSplit ==
    ASSUME NEW S, SYSEX_START \in S, NEW s, Track(S, s),
           NEW k \in 1..Len(s), s[k].status = SYSEX_START,
           Len(s[k].data) > 8, Last(s[k].data) = SYSEX_END
    PROVE  Track(S, Parted(s, k)) /\ Yield(Parted(s, k)) = Yield(s)
  <1> DEFINE n == Len(s)
             x == s[k].data
             p == SubSeq(x, 1, 8)
             q == SubSeq(x, 9, Len(x))
             d == [status |-> SYSEX_START, data |-> p]
             e == [status |-> SYSEX_END, data |-> q]
             a == SubSeq(s, 1, k - 1)
             h == SubSeq(s, 1, k)
             b == SubSeq(s, k + 1, n)
  <1>1. /\ s \in Seq(Events(S)) /\ n \in Nat /\ s[k] \in Events(S)
        /\ Sound(s[k]) /\ \A i \in 2..n : Follow(s[i - 1], s[i])
        /\ ~Opens(s[n])
    <2>1. s # <<>>
      OBVIOUS
    <2>2. QED
      BY <2>1 DEF Track
  <1>2. /\ x \in Seq(S) /\ Len(x) \in Nat /\ Len(x) > 8 /\ x # <<>>
        /\ x[Len(x)] = SYSEX_END
        /\ \A j \in 1..(Len(x) - 1) : x[j] # SYSEX_END
    <2>1. x \in Seq(S)
      BY <1>1 DEF Events
    <2>2. QED
      BY <1>1, <2>1 DEF Sound, Last
  <1>3. ~Opens(s[k]) /\ Rests(s[k])
    BY <1>2 DEF Opens, EndsIn, Rests, Closes, SYSEX_START, SYSEX_END
  <1> HIDE DEF x
  <1>4. /\ p \in Seq(S) /\ Len(p) = 8 /\ \A j \in 1..8 : p[j] = x[j]
    <2>1. 1 \in 1..(Len(x) + 1) /\ 8 \in (1 - 1)..Len(x)
      BY <1>2
    <2>2. /\ p \in Seq(S) /\ Len(p) = 8 - 1 + 1
          /\ \A j \in 1..(8 - 1 + 1) : p[j] = x[1 + j - 1]
      BY <1>2, <2>1, SubSeqProperties
    <2>3. QED
      BY <2>2
  <1>5. /\ q \in Seq(S) /\ Len(q) = Len(x) - 8
        /\ \A j \in 1..(Len(x) - 8) : q[j] = x[j + 8]
    <2>1. 9 \in 1..(Len(x) + 1) /\ Len(x) \in (9 - 1)..Len(x)
      BY <1>2
    <2>2. /\ q \in Seq(S) /\ Len(q) = Len(x) - 9 + 1
          /\ \A j \in 1..(Len(x) - 9 + 1) : q[j] = x[9 + j - 1]
      BY <1>2, <2>1, SubSeqProperties
    <2>3. Len(x) - 9 + 1 = Len(x) - 8
          /\ \A j \in 1..(Len(x) - 8) : 9 + j - 1 = j + 8
      BY <1>2
    <2>4. QED
      BY <2>2, <2>3
  <1> HIDE DEF p, q
  <1>6. /\ d \in Events(S) /\ e \in Events(S)
        /\ d.status = SYSEX_START /\ d.data = p
        /\ e.status = SYSEX_END /\ e.data = q
    BY <1>4, <1>5 DEF Events, Statuses
  <1> HIDE DEF d, e
  <1>7. p # <<>> /\ ~EndsIn(p)
    <2>1. 8 \in 1..8 /\ 8 \in 1..(Len(x) - 1)
      BY <1>2
    <2>2. p[Len(p)] # SYSEX_END /\ Len(p) # 0
      BY <1>2, <1>4, <2>1
    <2>3. p # <<>>
      BY <2>2
    <2>4. QED
      BY <2>2, <2>3 DEF EndsIn
  <1>8. q # <<>> /\ EndsIn(q)
    <2>1. /\ Len(q) \in 1..(Len(x) - 8) /\ Len(q) + 8 = Len(x)
      BY <1>2, <1>5
    <2>2. q # <<>>
      BY <1>2, <1>5
    <2>3. QED
      BY <1>2, <1>5, <2>1, <2>2 DEF EndsIn
  <1>9. Sound(d) /\ Sound(e)
    <2>1. ASSUME NEW j \in 1..(Len(p) - 1) PROVE p[j] # SYSEX_END
      <3>1. j \in 1..8 /\ j \in 1..(Len(x) - 1)
        BY <1>2, <1>4
      <3>2. QED
        BY <1>2, <1>4, <3>1
    <2>2. Sound(d)
      BY <1>6, <1>7, <2>1 DEF Sound
    <2>3. Sound(e)
      BY <1>6 DEF Sound, SYSEX_START, SYSEX_END
    <2>4. QED
      BY <2>2, <2>3
  <1>10. Opens(d) /\ ~Closes(d) /\ Closes(e) /\ ~Opens(e)
    BY <1>6, <1>7, <1>8 DEF Opens, Closes, SYSEX_START, SYSEX_END
  <1>11. Rests(d) /\ Follow(d, e)
    BY <1>6, <1>10 DEF Rests, Follow, SYSEX_START, SYSEX_END
  <1>12. Track(S, <<d, e>>) /\ Yield(<<d, e>>) = Gives(d) \o Gives(e)
    BY <1>6, <1>9, <1>10, <1>11, TwoEvents
  <1>13. Gives(d) \o Gives(e) = Gives(s[k])
    <2> DEFINE o == <<SYSEX_START>>
    <2>1. o \in Seq(S)
      OBVIOUS
    <2>2. Gives(d) = o \o p /\ Gives(e) = q /\ Gives(s[k]) = o \o x
      <3>1. Gives(d) = o \o p
        BY <1>6 DEF Gives, o
      <3>2. Gives(e) = q
        BY <1>6, <1>10 DEF Gives, SYSEX_START, SYSEX_END
      <3>3. Gives(s[k]) = o \o x
        BY DEF Gives, o, x
      <3>4. QED
        BY <3>1, <3>2, <3>3
    <2> HIDE DEF o
    <2>3. (o \o p) \o q = o \o x
      BY <1>2, <2>1, TwoParts DEF p, q
    <2>4. QED
      BY <2>2, <2>3
  <1>14. /\ Track(S, h) /\ Track(S, b) /\ Yield(s) = Yield(h) \o Yield(b)
    <2>1. k + 1 \in 1..(n + 1) /\ (k + 1) - 1 = k
      BY <1>1
    <2>2. ASSUME k + 1 <= n PROVE Rests(s[k + 1])
      <3>1. k + 1 \in 2..n
        BY <1>1, <2>2
      <3>2. Follow(s[k], s[k + 1])
        BY <1>1, <2>1, <3>1
      <3>3. QED
        BY <1>3, <3>2 DEF Follow, Rests, SYSEX_START
    <2>3. QED
      BY <2>1, <2>2, CutTrack
  <1>15. h = Append(a, s[k])
    <2>1. k \in 1..n /\ a \in Seq(Events(S)) /\ Len(a) = k - 1
          /\ \A i \in 1..(k - 1) : a[i] = s[i]
      <3>1. 1 \in 1..(n + 1) /\ k - 1 \in (1 - 1)..n
        BY <1>1
      <3>2. /\ a \in Seq(Events(S)) /\ Len(a) = (k - 1) - 1 + 1
            /\ \A i \in 1..((k - 1) - 1 + 1) : a[i] = s[1 + i - 1]
        BY <1>1, <3>1, SubSeqProperties
      <3>3. (k - 1) - 1 + 1 = k - 1 /\ \A i \in 1..(k - 1) : 1 + i - 1 = i
        BY <1>1
      <3>4. QED
        BY <3>2, <3>3
    <2>2. h \in Seq(Events(S)) /\ Len(h) = k /\ \A i \in 1..k : h[i] = s[i]
      <3>1. 1 \in 1..(n + 1) /\ k \in (1 - 1)..n
        BY <1>1
      <3>2. /\ h \in Seq(Events(S)) /\ Len(h) = k - 1 + 1
            /\ \A i \in 1..(k - 1 + 1) : h[i] = s[1 + i - 1]
        BY <1>1, <3>1, SubSeqProperties
      <3>3. k - 1 + 1 = k /\ \A i \in 1..k : 1 + i - 1 = i
        BY <1>1
      <3>4. QED
        BY <3>2, <3>3
    <2> HIDE DEF a, h
    <2> DEFINE g == Append(a, s[k])
    <2>3. /\ g \in Seq(Events(S)) /\ Len(g) = k /\ g[k] = s[k]
          /\ \A i \in 1..(k - 1) : g[i] = a[i]
      <3>1. Len(a) + 1 = k
        BY <1>1, <2>1
      <3>2. QED
        BY <1>1, <2>1, <3>1, AppendProperties
    <2> HIDE DEF g
    <2>4. ASSUME NEW i \in 1..Len(h) PROVE h[i] = g[i]
      <3>1. i = k \/ i \in 1..(k - 1)
        BY <1>1, <2>2
      <3>2. QED
        BY <2>1, <2>2, <2>3, <3>1
    <2>5. h = g
      BY <2>2, <2>3, <2>4, SeqEqual
    <2>6. QED
      BY <2>5 DEF g
  <1>16. Track(S, a) /\ Yield(h) = Yield(a) \o Gives(s[k])
    <2>1. k \in 1..(n + 1)
      BY <1>1
    <2>2. Track(S, a)
      BY <1>3, <2>1, CutTrack
    <2>3. a \in Seq(Events(S)) /\ <<s[k]>> \in Seq(Events(S))
      BY <1>1, <2>2 DEF Track
    <2> HIDE DEF a, h
    <2>4. h = a \o <<s[k]>>
      BY <1>1, <1>15, <2>3, AppendIsConcat
    <2>5. Yield(h) = Yield(a) \o Yield(<<s[k]>>)
      BY <2>3, <2>4, YieldConcat
    <2>6. QED
      BY <1>1, <2>2, <2>5, YieldOne
  <1> HIDE DEF a, h, b
  <1>17. /\ Track(S, a \o <<d, e>>)
         /\ Yield(a \o <<d, e>>) = Yield(a) \o Gives(s[k])
    <2>1. /\ Track(S, a \o <<d, e>>)
          /\ Yield(a \o <<d, e>>) = Yield(a) \o Yield(<<d, e>>)
      <3>1. SYSEX_START \in S /\ Track(S, a) /\ Track(S, <<d, e>>)
        BY <1>12, <1>16
      <3>2. QED
        BY <3>1, JoinTracks
    <2>2. QED
      BY <1>12, <1>13, <2>1, Zenon
  <1>18. /\ Track(S, (a \o <<d, e>>) \o b)
         /\ Yield((a \o <<d, e>>) \o b) = Yield(h) \o Yield(b)
    <2>1. /\ Track(S, (a \o <<d, e>>) \o b)
          /\ Yield((a \o <<d, e>>) \o b) = Yield(a \o <<d, e>>) \o Yield(b)
      <3> DEFINE u == a \o <<d, e>>
      <3>1. SYSEX_START \in S /\ Track(S, u) /\ Track(S, b)
        BY <1>14, <1>17
      <3> HIDE DEF u
      <3>2. Track(S, u \o b) /\ Yield(u \o b) = Yield(u) \o Yield(b)
        BY <3>1, JoinTracks
      <3>3. QED
        BY <3>2 DEF u
    <2>2. QED
      BY <1>16, <1>17, <2>1, Zenon
  <1>19. QED
    BY <1>14, <1>18 DEF Parted, a, b, d, e, p, q, x, n

-----------------------------------------------------------------------------
(* A file is messages, and a message bytes.                                *)

IsFile(fs) == IsSeq(fs) /\ \A f \in ToSet(fs) : IsSeq(f)

LEMMA FrameSeq ==
    ASSUME NEW m, IsSeq(m.body), NEW device
    PROVE  IsSeq(encode(m, device))
  <1> DEFINE l == lanes(m.address)
             body == l \o m.body
             head == <<SYSEX_START, 65, device, 106, m.command>>
             tail == <<checksum(body), SYSEX_END>>
             S == ToSet(l) \cup ToSet(m.body) \cup ToSet(head) \cup ToSet(tail)
  <1>1. l \in Seq(S)
    <2>1. l = <<l[1], l[2], l[3], l[4]>>
      BY DEF lanes
    <2>2. {l[1], l[2], l[3], l[4]} \subseteq ToSet(l)
      BY <2>1 DEF ToSet
    <2> HIDE DEF l
    <2>3. {l[1], l[2], l[3], l[4]} \subseteq S
      BY <2>2
    <2> HIDE DEF S
    <2>4. <<l[1], l[2], l[3], l[4]>> \in Seq(S)
      BY <2>3
    <2>5. QED
      BY <2>1, <2>4
  <1>2. m.body \in Seq(S)
    <2> HIDE DEF l, head, tail
    <2>1. m.body \in Seq(ToSet(m.body)) /\ ToSet(m.body) \subseteq S
      BY DEF IsSeq
    <2> HIDE DEF S
    <2>2. QED
      BY <2>1
  <1>3. head \in Seq(S)
    <2>1. {SYSEX_START, 65, device, 106, m.command} \subseteq ToSet(head)
      BY DEF ToSet
    <2> HIDE DEF l, tail
    <2>2. {SYSEX_START, 65, device, 106, m.command} \subseteq S
      BY <2>1
    <2> HIDE DEF S
    <2>3. QED
      BY <2>2
  <1>4. tail \in Seq(S)
    <2>1. {checksum(body), SYSEX_END} \subseteq ToSet(tail)
      BY DEF ToSet
    <2> HIDE DEF l, head, body
    <2>2. {checksum(body), SYSEX_END} \subseteq S
      BY <2>1
    <2> HIDE DEF S
    <2>3. QED
      BY <2>2
  <1> HIDE DEF S, head, tail, l
  <1>5. body \in Seq(S)
    BY <1>1, <1>2, ConcatProperties
  <1> HIDE DEF body
  <1>6. head \o body \in Seq(S)
    BY <1>3, <1>5, ConcatProperties
  <1>7. (head \o body) \o tail \in Seq(S)
    BY <1>4, <1>6, ConcatProperties
  <1>8. IsSeq((head \o body) \o tail)
    BY <1>7, SeqFacts
  <1>9. QED
    BY <1>8 DEF encode, head, tail, body, l

(* Files one after the other are a file.                                   *)
LEMMA FilesOfFiles ==
    ASSUME NEW N \in Nat, NEW T, NEW s \in [1..N -> T],
           \A i \in 1..N : IsFile(s[i])
    PROVE  IsFile(FlattenSeq(s))
  <1>1. \A i \in 1..N : s[i] \in Seq(ToSet(s[i]))
    BY DEF IsFile, IsSeq
  <1>2. /\ FlattenSeq(s) \in Seq(ToSet(FlattenSeq(s)))
        /\ ToSet(FlattenSeq(s)) = UNION {ToSet(s[i]) : i \in 1..N}
    BY <1>1, FlattenElements
  <1>3. ASSUME NEW f \in ToSet(FlattenSeq(s)) PROVE IsSeq(f)
    <2>1. PICK i \in 1..N : f \in ToSet(s[i])
      BY <1>2
    <2>2. QED
      BY <2>1 DEF IsFile
  <1>4. QED
    BY <1>2, <1>3 DEF IsFile, IsSeq

(* The bytes of a file.                                                    *)
LEMMA BytesOfFile ==
    ASSUME NEW fs, IsFile(fs) PROVE IsSeq(FlattenSeq(fs))
  <1> DEFINE N == Len(fs)
  <1>1. fs \in Seq(ToSet(fs))
    BY DEF IsFile, IsSeq
  <1>2. /\ N \in Nat /\ fs \in [1..N -> ToSet(fs)]
        /\ \A i \in 1..N : fs[i] \in ToSet(fs)
    BY <1>1
  <1>3. \A i \in 1..N : fs[i] \in Seq(ToSet(fs[i]))
    BY <1>2 DEF IsFile, IsSeq
  <1> HIDE DEF N
  <1>4. QED
    BY <1>2, <1>3, FlattenElements DEF IsSeq

(* A piece of a block, cut into messages.                                  *)
LEMMA CutBlock ==
    ASSUME NEW data, IsSeq(data), NEW n \in Nat, n > 0, NEW a
    PROVE  LET s == split_dt1(a, data, n)
           IN IsSeq(s) /\ \A m \in ToSet(s) : IsSeq(m.body)
  <1> DEFINE L == Len(data)
             C == CeilDiv(L, n)
             Lo(k) == (k - 1) * n + 1
             Hi(k) == AtMost(k * n, L)
             s == split_dt1(a, data, n)
  <1>1. L \in Nat /\ data \in Seq(ToSet(data)) /\ DOMAIN data = 1..L
    BY DEF IsSeq
  <1>2. /\ C \in Nat
        /\ \A k \in 1..C : Lo(k) \in Int /\ Hi(k) \in Int
                            /\ Lo(k) >= 1 /\ Hi(k) <= L
    <2> HIDE DEF L
    <2>1. /\ C \in Nat
          /\ \A p \in 1..C : (p - 1) * n \in Nat /\ AtMost(p * n, L) \in Nat
                             /\ AtMost(p * n, L) <= L
      BY <1>1, CutFacts
    <2> HIDE DEF C
    <2>2. \A k \in 1..C : Hi(k) \in Int /\ Hi(k) <= L
      BY <2>1
    <2>3. ASSUME NEW k \in 1..C PROVE Lo(k) \in Int /\ Lo(k) >= 1
      <3> DEFINE x == (k - 1) * n
      <3>1. x \in Nat
        BY <2>1
      <3> HIDE DEF x
      <3>2. x + 1 \in Int /\ x + 1 >= 1
        BY <3>1
      <3>3. QED
        BY <3>2 DEF x
    <2>4. QED
      BY <2>1, <2>2, <2>3
  <1>3. s = [k \in 1..C |-> Dt1(a + (k - 1) * n, SubSeq(data, Lo(k), Hi(k)))]
    BY DEF split_dt1
  <1> HIDE DEF C, Lo, Hi, L, s
  <1>4. ASSUME NEW k \in 1..C PROVE IsSeq(s[k].body)
    <2> DEFINE lo == Lo(k)
               hi == Hi(k)
    <2>1. lo \in Int /\ hi \in Int /\ lo >= 1 /\ hi <= L
      BY <1>2
    <2>2. s[k].body = SubSeq(data, lo, hi)
      BY <1>3 DEF Dt1
    <2> HIDE DEF lo, hi
    <2>3. \A i \in lo..hi : data[i] \in ToSet(data)
      BY <1>1, <2>1
    <2>4. SubSeq(data, lo, hi) \in Seq(ToSet(data))
      BY <2>1, <2>3, SubSeqProperties
    <2>5. QED
      BY <2>2, <2>4, SeqFacts
  <1>5. s \in [1..C -> ToSet(s)]
    <2>1. DOMAIN s = 1..C /\ s = [k \in 1..C |-> s[k]]
      BY <1>3
    <2>2. \A k \in 1..C : s[k] \in ToSet(s)
      BY <2>1 DEF ToSet
    <2>3. QED
      BY <2>1, <2>2
  <1>6. IsSeq(s)
    BY <1>2, <1>5, CountedSeq DEF IsSeq
  <1>7. ToSet(s) = {s[k] : k \in 1..C}
    BY <1>5 DEF ToSet
  <1>8. QED
    BY <1>4, <1>6, <1>7 DEF s

(* The messages of a list of messages.                                     *)
LEMMA EncodedFile ==
    ASSUME NEW ms, IsSeq(ms), \A m \in ToSet(ms) : IsSeq(m.body), NEW device
    PROVE  IsFile([k \in DOMAIN ms |-> encode(ms[k], device)])
  <1> DEFINE fs == [k \in DOMAIN ms |-> encode(ms[k], device)]
  <1>1. ms \in Seq(ToSet(ms))
    BY DEF IsSeq
  <1>2. /\ fs \in Seq(ToSet(fs))
        /\ ToSet(fs) = {encode(m, device) : m \in ToSet(ms)}
    BY SMTT(30), <1>1, EncodedFacts
  <1> HIDE DEF fs
  <1>3. ASSUME NEW f \in ToSet(fs) PROVE IsSeq(f)
    <2>1. PICK m \in ToSet(ms) : f = encode(m, device)
      BY <1>2
    <2>2. QED
      BY <2>1, FrameSeq
  <1>4. QED
    BY <1>2, <1>3 DEF IsFile, IsSeq, fs

LEMMA BlockSeq ==
    ASSUME NEW d, IsDocument(d)
    PROVE  /\ 1 + items(d.kind) \in Nat
           /\ DOMAIN d.blocks = 1..(1 + items(d.kind))
           /\ \A i \in 1..(1 + items(d.kind)) : IsSeq(d.blocks[i])
  <1>1. /\ d.kind \in Kinds /\ DOMAIN d.blocks = DOMAIN layout(d.kind)
        /\ \A i \in DOMAIN d.blocks :
             IsBytes(d.blocks[i], DefOf(d.kind, i).size)
    BY DEF IsDocument
  <1>2. /\ 1 + items(d.kind) \in Nat
        /\ DOMAIN layout(d.kind) = 1..(1 + items(d.kind))
    BY <1>1, LayoutFacts
  <1>3. ASSUME NEW i \in 1..(1 + items(d.kind)) PROVE IsSeq(d.blocks[i])
    <2>1. DefOf(d.kind, i).size \in Nat
      BY <1>1, BlockFacts
    <2>2. d.blocks[i] \in [1..DefOf(d.kind, i).size -> ToSet(d.blocks[i])]
      BY <1>1, <1>2 DEF IsBytes
    <2>3. QED
      BY <2>1, <2>2, CountedSeq DEF IsSeq
  <1>4. QED
    BY <1>1, <1>2, <1>3

LEMMA DocumentFile ==
    ASSUME NEW d, IsDocument(d), NEW base, NEW device, NEW split \in Nat
    PROVE  IsFile(document_messages(d, base, device, split))
  <1> DEFINE N == 1 + items(d.kind)
             all == to_dt1(d, base)
             Cut(p) == IF split = 0 THEN <<Dt1(p.address, p.data)>>
                       ELSE split_dt1(p.address, p.data, split)
             ss == [i \in DOMAIN all |-> Cut(all[i])]
             ms == FlattenSeq(ss)
  <1>1. /\ N \in Nat /\ DOMAIN d.blocks = 1..N
        /\ \A i \in 1..N : IsSeq(d.blocks[i])
    BY BlockSeq
  <1> HIDE DEF N
  <1>2. DOMAIN all = 1..N /\ \A i \in 1..N : all[i].data = d.blocks[i]
    BY <1>1 DEF to_dt1
  <1>3. document_messages(d, base, device, split)
          = [k \in DOMAIN ms |-> encode(ms[k], device)]
    BY DEF document_messages
  <1> HIDE DEF all
  <1>4. ASSUME NEW i \in 1..N
        PROVE  /\ IsSeq(Cut(all[i]))
               /\ \A m \in ToSet(Cut(all[i])) : IsSeq(m.body)
    <2> DEFINE a == all[i].address
               b == all[i].data
    <2>1. IsSeq(b)
      BY <1>1, <1>2
    <2>2. CASE split = 0
      <3> DEFINE m == Dt1(a, b)
      <3>1. m.body = b
        BY DEF Dt1
      <3>2. Cut(all[i]) = <<m>>
        BY <2>2
      <3> HIDE DEF m, b, a
      <3>3. <<m>> \in Seq({m})
        OBVIOUS
      <3>4. IsSeq(<<m>>) /\ ToSet(<<m>>) \subseteq {m}
        BY <3>3, SeqFacts
      <3>5. QED
        BY <2>1, <3>1, <3>2, <3>4
    <2>3. CASE split # 0
      <3>1. Cut(all[i]) = split_dt1(a, b, split)
        BY <2>3
      <3>2. split > 0
        BY <2>3
      <3> HIDE DEF a, b
      <3>3. QED
        BY <2>1, <3>1, <3>2, CutBlock
    <2>4. QED
      BY <2>2, <2>3
  <1> HIDE DEF Cut
  <1>5. /\ ss \in [1..N -> {Cut(all[i]) : i \in 1..N}]
        /\ \A i \in 1..N : ss[i] = Cut(all[i])
    BY <1>2
  <1> HIDE DEF ss
  <1>6. \A i \in 1..N : ss[i] \in Seq(ToSet(ss[i]))
    BY <1>4, <1>5 DEF IsSeq
  <1>7. /\ ms \in Seq(ToSet(ms))
        /\ ToSet(ms) = UNION {ToSet(ss[i]) : i \in 1..N}
    BY <1>1, <1>5, <1>6, FlattenElements
  <1> HIDE DEF ms
  <1>8. ASSUME NEW m \in ToSet(ms) PROVE IsSeq(m.body)
    <2>1. PICK i \in 1..N : m \in ToSet(ss[i])
      BY <1>7
    <2>2. QED
      BY <1>4, <1>5, <2>1
  <1>9. IsSeq(ms)
    BY <1>7 DEF IsSeq
  <1>10. QED
    BY <1>3, <1>8, <1>9, EncodedFile

LEMMA BankFile ==
    ASSUME NEW k, NEW N \in Nat, NEW T, NEW bank \in [1..N -> T],
           \A i \in 1..N : IsDocument(bank[i].doc),
           NEW device, NEW split \in Nat
    PROVE  IsFile(bank_messages(k, bank, device, split))
  <1> DEFINE M(i) == document_messages(bank[i].doc,
                       user_base(k, bank[i].slot), device, split)
             s == [i \in DOMAIN bank |-> M(i)]
  <1>1. \A i \in 1..N : IsFile(M(i))
    BY DocumentFile
  <1>2. bank_messages(k, bank, device, split) = FlattenSeq(s)
    BY DEF bank_messages
  <1> HIDE DEF M
  <1>3. s \in [1..N -> {M(i) : i \in 1..N}] /\ \A i \in 1..N : s[i] = M(i)
    OBVIOUS
  <1> HIDE DEF s
  <1>4. \A i \in 1..N : IsFile(s[i])
    BY <1>1, <1>3
  <1>5. QED
    BY <1>2, <1>3, <1>4, FilesOfFiles

LEMMA OneMore ==
    ASSUME NEW a, NEW b
    PROVE  Append(<<a>>, b) \in Seq({a, b}) /\ Len(Append(<<a>>, b)) = 2
  <1>1. <<a>> \in Seq({a, b}) /\ Len(<<a>>) = 1
    OBVIOUS
  <1>2. b \in {a, b}
    OBVIOUS
  <1>3. QED
    BY <1>1, <1>2, AppendProperties

(* What is saved is a file.                                                *)
LEMMA ExportedFile ==
    ASSUME IInv, NEW x \in Exports
    PROVE  IsFile(x.messages)
  <1> DEFINE n == MAX_DT1_DATA_TO_DEVICE
             entry == [slot |-> 0, doc |-> doc]
             other == [slot |-> 1, doc |-> Second]
             bank == <<entry>>
             pair == Append(bank, other)
             One == (0 :> doc)
             Two == (0 :> doc) @@ (1 :> Second)
             Saved(w, ms) == [written |-> w, messages |-> ms]
  <1>1. IsDocument(doc) /\ n \in Nat /\ 0 \in Nat
    BY SysexAssumption DEF IInv
  <1>2. kind \in Kinds
    BY <1>1 DEF IsDocument, kind
  <1>3. entry.doc = doc /\ other.doc = Second
    OBVIOUS
  <1>4. ASSUME NEW split \in Nat
        PROVE  IsFile(bank_messages(kind, bank, DEVICE, split))
    <2> HIDE DEF entry
    <2>1. /\ <<entry>> \in [1..1 -> {entry}] /\ 1 \in Nat
          /\ \A i \in 1..1 : <<entry>>[i] = entry
      OBVIOUS
    <2>2. \A i \in 1..1 : IsDocument(<<entry>>[i].doc)
      BY <1>1, <1>3, <2>1
    <2>3. QED
      BY <2>1, <2>2, BankFile
  <1>5. ASSUME kind = "patch", NEW split \in Nat
        PROVE  IsFile(bank_messages(kind, pair, DEVICE, split))
    <2>1. IsDocument(Second)
      BY <1>2, <1>5, FilesAssumption
    <2> HIDE DEF entry, other
    <2>2. /\ pair \in [1..2 -> {entry, other}] /\ 2 \in Nat
          /\ \A i \in 1..2 : pair[i] \in {entry, other}
      <3>1. pair = Append(<<entry>>, other)
        OBVIOUS
      <3> HIDE DEF pair
      <3>2. pair \in Seq({entry, other}) /\ Len(pair) = 2
        BY <3>1, OneMore
      <3>3. QED
        BY <3>2
    <2> HIDE DEF pair
    <2>3. \A i \in 1..2 : IsDocument(pair[i].doc)
      BY <1>1, <1>3, <2>1, <2>2
    <2>4. QED
      BY <2>2, <2>3, BankFile
  <1>6. IsFile(document_messages(doc, TEMP_PATCH, DEVICE, 0))
    BY <1>1, DocumentFile
  <1>7. IsFile(system_messages(doc, DEVICE, n))
    <2> HIDE DEF n
    <2>1. QED
      BY <1>1, DocumentFile DEF system_messages
  <1> DEFINE A == bank_messages(kind, bank, DEVICE, n)
             B == bank_messages(kind, pair, DEVICE, 0)
             C == document_messages(doc, TEMP_PATCH, DEVICE, 0)
             D == system_messages(doc, DEVICE, n)
  <1>8. Exports = CASE kind = "patch" ->
                         {Saved(One, A), Saved(Two, B), Saved(One, C)}
                    [] kind = "system" -> {Saved(One, D)}
                    [] OTHER -> {Saved(One, A)}
    BY DEF Exports
  <1>9. IsFile(A) /\ IsFile(C) /\ IsFile(D) /\ (kind = "patch" => IsFile(B))
    <2> HIDE DEF bank, pair, n
    <2>1. QED
      BY <1>1, <1>4, <1>5, <1>6, <1>7
  <1> HIDE DEF A, B, C, D, One, Two
  <1>10. CASE kind = "patch"
    <2>1. x \in {Saved(One, A), Saved(Two, B), Saved(One, C)}
      BY <1>8, <1>10
    <2>2. x.messages \in {A, B, C}
      BY <2>1
    <2>3. QED
      BY <1>9, <1>10, <2>2
  <1>11. CASE kind = "system"
    <2>1. x \in {Saved(One, D)}
      BY <1>8, <1>11
    <2>2. x.messages = D
      BY <2>1
    <2>3. QED
      BY <1>9, <2>2
  <1>12. CASE kind # "patch" /\ kind # "system"
    <2>1. x \in {Saved(One, A)}
      BY <1>8, <1>12
    <2>2. x.messages = A
      BY <2>1
    <2>3. QED
      BY <1>9, <2>2
  <1>13. QED
    BY <1>10, <1>11, <1>12

(* A message put in, taken out or exchanged.                               *)
LEMMA Exchanged ==
    ASSUME NEW S, NEW s \in Seq(S), NEW k \in 1..Len(s), NEW e \in S
    PROVE  ReplaceAt(s, k, e) \in Seq(S)
  BY DEF ReplaceAt

LEMMA PartSeq ==
    ASSUME NEW S, NEW s \in Seq(S), NEW m \in Nat, NEW n \in Int,
           m > 0, n <= Len(s)
    PROVE  SubSeq(s, m, n) \in Seq(S)
  <1>1. \A i \in m..n : s[i] \in S
    OBVIOUS
  <1>2. QED
    BY <1>1, SubSeqProperties

LEMMA PutIn ==
    ASSUME NEW S, NEW s \in Seq(S), NEW k \in 1..(Len(s) + 1), NEW e \in S
    PROVE  InsertAt(s, k, e) \in Seq(S)
  <1> DEFINE a == SubSeq(s, 1, k - 1)
             b == SubSeq(s, k, Len(s))
  <1>1. a \in Seq(S) /\ b \in Seq(S) /\ <<e>> \in Seq(S)
    <2>1. k \in Nat /\ k > 0 /\ k - 1 \in Int /\ k - 1 <= Len(s)
          /\ Len(s) \in Int /\ 1 \in Nat
      OBVIOUS
    <2>2. a \in Seq(S)
      BY <2>1, PartSeq
    <2>3. b \in Seq(S)
      BY <2>1, PartSeq
    <2>4. QED
      BY <2>2, <2>3
  <1> HIDE DEF a, b
  <1>2. a \o <<e>> \in Seq(S)
    BY <1>1, ConcatProperties
  <1>3. (a \o <<e>>) \o b \in Seq(S)
    BY <1>1, <1>2, ConcatProperties
  <1>4. QED
    BY <1>3 DEF InsertAt, a, b

LEMMA TakenOut ==
    ASSUME NEW S, NEW s \in Seq(S), NEW k \in 1..Len(s)
    PROVE  RemoveAt(s, k) \in Seq(S)
  <1> DEFINE a == SubSeq(s, 1, k - 1)
             b == SubSeq(s, k + 1, Len(s))
  <1>1. a \in Seq(S) /\ b \in Seq(S)
    <2>1. k + 1 \in Nat /\ k + 1 > 0 /\ k - 1 \in Int /\ k - 1 <= Len(s)
          /\ Len(s) \in Int /\ 1 \in Nat
      OBVIOUS
    <2>2. a \in Seq(S)
      BY <2>1, PartSeq
    <2>3. b \in Seq(S)
      BY <2>1, PartSeq
    <2>4. QED
      BY <2>2, <2>3
  <1> HIDE DEF a, b
  <1>2. a \o b \in Seq(S)
    BY <1>1, ConcatProperties
  <1>3. QED
    BY <1>2 DEF RemoveAt, a, b

(* A file over some messages, each of them bytes.                          *)
LEMMA FileOf ==
    ASSUME NEW S, \A f \in S : IsSeq(f), NEW fs \in Seq(S)
    PROVE  IsFile(fs)
  <1>1. IsSeq(fs) /\ ToSet(fs) \subseteq S
    BY SeqFacts
  <1>2. QED
    BY <1>1 DEF IsFile

LEMMA HarmStep ==
    ASSUME IsFile(file),
           Lose \/ Double \/ Swap \/ Insert \/ Tick \/ Damage
    PROVE  IsFile(file')
  <1>1. /\ file \in Seq(ToSet(file)) /\ DOMAIN file = 1..Len(file)
        /\ Len(file) \in Nat
        /\ \A k \in DOMAIN file : file[k] \in ToSet(file)
        /\ \A f \in ToSet(file) : IsSeq(f)
    BY DEF IsFile, IsSeq
  <1>2. CASE Lose
    <2>1. PICK k \in DOMAIN file : file' = RemoveAt(file, k)
      BY <1>2 DEF Lose, Harm
    <2>2. file' \in Seq(ToSet(file))
      BY <1>1, <2>1, TakenOut
    <2>3. QED
      BY <1>1, <2>2, FileOf
  <1>3. CASE Double
    <2>1. PICK k \in DOMAIN file : file' = InsertAt(file, k, file[k])
      BY <1>3 DEF Double, Harm
    <2>2. k \in 1..(Len(file) + 1) /\ file[k] \in ToSet(file)
      BY <1>1
    <2>3. file' \in Seq(ToSet(file))
      BY <1>1, <2>1, <2>2, PutIn
    <2>4. QED
      BY <1>1, <2>3, FileOf
  <1>4. CASE Swap
    <2>1. PICK k \in 1..(Len(file) - 1) :
            file' = [file EXCEPT ![k] = file[k + 1], ![k + 1] = file[k]]
      BY <1>4 DEF Swap, Harm
    <2>2. k \in DOMAIN file /\ k + 1 \in DOMAIN file
      BY <1>1
    <2> DEFINE f == file[k]
               g == file[k + 1]
    <2>3. f \in ToSet(file) /\ g \in ToSet(file)
      BY <1>1, <2>2
    <2> HIDE DEF f, g
    <2>4. [file EXCEPT ![k] = g, ![k + 1] = f] \in Seq(ToSet(file))
      BY <1>1, <2>3
    <2>5. file' \in Seq(ToSet(file))
      BY <2>1, <2>4 DEF f, g
    <2>6. QED
      BY <1>1, <2>5, FileOf
  <1>5. CASE Insert
    <2>1. PICK k \in 1..(Len(file) + 1), f \in Foreign :
            file' = InsertAt(file, k, f)
      BY <1>5 DEF Insert, Harm
    <2> DEFINE S == ToSet(file) \cup {f}
    <2>2. IsSeq(f)
      BY <2>1, FilesAssumption DEF IsSeq
    <2>3. \A x \in S : IsSeq(x)
      BY <1>1, <2>2
    <2>4. file \in Seq(S) /\ f \in S
      <3>1. ToSet(file) \subseteq S /\ f \in S
        OBVIOUS
      <3> HIDE DEF S
      <3>2. QED
        BY <1>1, <3>1
    <2> HIDE DEF S
    <2>5. file' \in Seq(S)
      BY <2>1, <2>4, PutIn
    <2>6. QED
      BY <2>3, <2>5, FileOf
  <1>6. ASSUME NEW k \in DOMAIN file, NEW f, IsSeq(f),
               file' = ReplaceAt(file, k, f)
        PROVE  IsFile(file')
    <2> DEFINE S == ToSet(file) \cup {f}
    <2>1. \A x \in S : IsSeq(x)
      BY <1>1, <1>6
    <2>2. file \in Seq(S) /\ f \in S
      <3>1. ToSet(file) \subseteq S /\ f \in S
        OBVIOUS
      <3> HIDE DEF S
      <3>2. QED
        BY <1>1, <3>1
    <2> HIDE DEF S
    <2>3. file' \in Seq(S)
      BY <1>1, <1>6, <2>2, Exchanged
    <2>4. QED
      BY <2>1, <2>3, FileOf
  <1>7. CASE Tick
    <2>1. PICK k \in DOMAIN file :
            /\ Len(file[k]) > 3
            /\ file' = ReplaceAt(file, k, InsertAt(file[k], 4, 254))
      BY <1>7 DEF Tick, Harm
    <2> DEFINE f == file[k]
               S == ToSet(f) \cup {254}
    <2>2. f \in Seq(ToSet(f))
      BY <1>1 DEF IsSeq
    <2>3. Len(f) > 3
      BY <2>1
    <2> HIDE DEF f
    <2>4. f \in Seq(S) /\ 254 \in S /\ 4 \in 1..(Len(f) + 1)
      <3>1. ToSet(f) \subseteq S /\ 254 \in S
        OBVIOUS
      <3> HIDE DEF S
      <3>2. QED
        BY <2>2, <2>3, <3>1
    <2> HIDE DEF S
    <2>5. IsSeq(InsertAt(f, 4, 254))
      BY <2>4, PutIn, SeqFacts
    <2>6. QED
      BY <1>6, <2>1, <2>5 DEF f
  <1>8. CASE Damage
    <2>1. PICK k \in DOMAIN file :
            \E at \in {1, 10, Len(file[k])} \cap DOMAIN file[k] :
              \E b \in Bad :
                file' = ReplaceAt(file, k, ReplaceAt(file[k], at, b))
      BY <1>8 DEF Damage, Harm
    <2>2. PICK at \in DOMAIN file[k], b \in Bad :
            file' = ReplaceAt(file, k, ReplaceAt(file[k], at, b))
      BY <2>1
    <2> DEFINE f == file[k]
               S == ToSet(f) \cup {b}
    <2>3. f \in Seq(ToSet(f))
      BY <1>1 DEF IsSeq
    <2>4. at \in DOMAIN f
      BY <2>2
    <2> HIDE DEF f
    <2>5. f \in Seq(S) /\ b \in S /\ at \in 1..Len(f)
      <3>1. ToSet(f) \subseteq S /\ b \in S
        OBVIOUS
      <3> HIDE DEF S
      <3>2. QED
        BY <2>3, <2>4, <3>1
    <2> HIDE DEF S
    <2>6. IsSeq(ReplaceAt(f, at, b))
      BY <2>5, Exchanged, SeqFacts
    <2>7. QED
      BY <1>6, <2>2, <2>6 DEF f
  <1>9. QED
    BY <1>2, <1>3, <1>4, <1>5, <1>7, <1>8

-----------------------------------------------------------------------------
(* The MIDI form of a file holds its whole messages.                       *)

Over(bytes)    == ToSet(bytes) \cup {0, 1, 60, 64, 243, SYSEX_START}
Carried(bytes) == FlattenSeq(complete_frames(bytes))
Yields(ts)     == FlattenSeq([t \in DOMAIN ts |-> Yield(ts[t])])
IsMidi(ts, bytes) ==
    /\ IsSeq(ts) /\ \A t \in 1..Len(ts) : Track(Over(bytes), ts[t])
    /\ Yields(ts) = Carried(bytes) /\ Carried(bytes) # <<>>

LEMMA OverFacts ==
    ASSUME NEW bytes, IsSeq(bytes)
    PROVE  /\ bytes \in Seq(Over(bytes)) /\ SYSEX_START \in Over(bytes)
           /\ {0, 1, 60, 64, 243, SYSEX_START} \subseteq Over(bytes)
  <1>1. /\ ToSet(bytes) \subseteq Over(bytes)
        /\ {0, 1, 60, 64, 243, SYSEX_START} \subseteq Over(bytes)
    BY DEF Over
  <1>2. bytes \in Seq(ToSet(bytes))
    BY DEF IsSeq
  <1>3. SYSEX_START \in {0, 1, 60, 64, 243, SYSEX_START}
    OBVIOUS
  <1>4. QED
    BY <1>1, <1>2, <1>3

LEMMA YieldBytes ==
    ASSUME NEW S, SYSEX_START \in S, NEW s, Track(S, s)
    PROVE  Yield(s) \in Seq(S)
  <1>1. s \in Seq(Events(S))
    BY DEF Track
  <1>2. QED
    BY <1>1, YieldConcat

(* Whole messages one after the other are not nothing.                     *)
LEMMA SomeBytes ==
    ASSUME NEW S, NEW fs \in Seq(Seq(S)), fs # <<>>,
           \A i \in 1..Len(fs) : fs[i] # <<>>
    PROVE  FlattenSeq(fs) # <<>>
  <1> DEFINE n == Len(fs)
             x == fs[n]
  <1>1. n \in Nat /\ n >= 1 /\ n \in 1..n /\ n - 1 \in 0..n /\ x \in Seq(S)
    OBVIOUS
  <1>2. PICK F : FlatBy(fs, F) /\ \A i \in 0..n : F[i] \in Seq(S)
    BY FlatSteps
  <1>3. FlattenSeq(fs) = F[n - 1] \o x
    BY <1>1, <1>2 DEF FlatBy
  <1>4. x # <<>> /\ Len(x) \in Nat
    BY <1>1
  <1>5. Len(x) > 0
    BY <1>1, <1>4
  <1> DEFINE p == F[n - 1]
  <1>6. p \in Seq(S)
    BY <1>1, <1>2
  <1> HIDE DEF p, x, n
  <1>7. Len(p \o x) = Len(p) + Len(x) /\ Len(p) \in Nat /\ p \o x \in Seq(S)
    BY <1>1, <1>6, ConcatProperties
  <1>8. Len(p \o x) > 0
    BY <1>4, <1>5, <1>7
  <1>9. p \o x # <<>>
    BY <1>8
  <1>10. QED
    BY <1>3, <1>9 DEF p

LEMMA OneTrack ==
    ASSUME NEW S, SYSEX_START \in S, NEW s, Track(S, s)
    PROVE  IsSeq(<<s>>) /\ Len(<<s>>) = 1 /\ <<s>>[1] = s
           /\ Yields(<<s>>) = Yield(s)
  <1> DEFINE y == Yield(s)
  <1>1. y \in Seq(S)
    BY YieldBytes
  <1>2. [t \in DOMAIN <<s>> |-> Yield(<<s>>[t])] = <<y>>
    OBVIOUS
  <1> HIDE DEF y
  <1>3. FlattenSeq(<<y>>) = y
    BY <1>1, FlatOne
  <1>4. <<s>> \in Seq({s})
    OBVIOUS
  <1>5. IsSeq(<<s>>)
    BY <1>4, SeqFacts
  <1>6. QED
    BY <1>2, <1>3, <1>5 DEF Yields, y

LEMMA TwoTracks ==
    ASSUME NEW S, SYSEX_START \in S, NEW a, NEW b, Track(S, a), Track(S, b)
    PROVE  IsSeq(<<a, b>>) /\ Len(<<a, b>>) = 2
           /\ Yields(<<a, b>>) = Yield(a) \o Yield(b)
  <1> DEFINE x == Yield(a)
             y == Yield(b)
  <1>1. x \in Seq(S) /\ y \in Seq(S)
    BY YieldBytes
  <1>2. [t \in DOMAIN <<a, b>> |-> Yield(<<a, b>>[t])] = <<x, y>>
    OBVIOUS
  <1> HIDE DEF x, y
  <1>3. FlattenSeq(<<x, y>>) = x \o y
    BY <1>1, FlatOne
  <1>4. <<a, b>> \in Seq({a, b})
    OBVIOUS
  <1>5. IsSeq(<<a, b>>)
    BY <1>4, SeqFacts
  <1>6. QED
    BY <1>2, <1>3, <1>5 DEF Yields, x, y

(* One track with the same messages in place of another.                   *)
LEMMA TrackReplaced ==
    ASSUME NEW S, NEW ts, IsSeq(ts), \A t \in 1..Len(ts) : Track(S, ts[t]),
           NEW k \in DOMAIN ts, NEW t, Track(S, t), Yield(t) = Yield(ts[k])
    PROVE  LET n == [ts EXCEPT ![k] = t]
           IN /\ IsSeq(n) /\ \A i \in 1..Len(n) : Track(S, n[i])
              /\ Yields(n) = Yields(ts)
  <1> DEFINE n == [ts EXCEPT ![k] = t]
             T == ToSet(ts) \cup {t}
  <1>1. /\ ts \in Seq(ToSet(ts)) /\ Len(ts) \in Nat
        /\ DOMAIN ts = 1..Len(ts)
    BY DEF IsSeq
  <1>2. ts \in Seq(T) /\ t \in T
    <2>1. ToSet(ts) \subseteq T /\ t \in T
      OBVIOUS
    <2> HIDE DEF T
    <2>2. QED
      BY <1>1, <2>1
  <1> HIDE DEF T
  <1>3. n \in Seq(T) /\ Len(n) = Len(ts) /\ DOMAIN n = DOMAIN ts
        /\ \A i \in DOMAIN ts : n[i] = IF i = k THEN t ELSE ts[i]
    BY <1>1, <1>2
  <1> HIDE DEF n
  <1>4. \A i \in 1..Len(n) : Track(S, n[i])
    BY <1>1, <1>3
  <1>5. \A i \in DOMAIN ts : Yield(n[i]) = Yield(ts[i])
    BY <1>3
  <1>6. [i \in DOMAIN n |-> Yield(n[i])] = [i \in DOMAIN ts |-> Yield(ts[i])]
    BY <1>3, <1>5
  <1>7. IsSeq(n)
    BY <1>3, SeqFacts
  <1>8. QED
    BY <1>4, <1>6, <1>7 DEF Yields, n

(* Where no message is open an event may be put or a track cut.            *)
LEMMA RestsThere ==
    ASSUME NEW S, NEW s, Track(S, s), NEW k \in 1..Len(s), AtRest(s, k)
    PROVE  Rests(s[k])
  <1>1. /\ s \in Seq(Events(S)) /\ Len(s) \in Nat /\ DOMAIN s = 1..Len(s)
        /\ s # <<>>
    BY DEF Track
  <1>2. CASE k = 1
    BY <1>1, <1>2 DEF Track
  <1>3. CASE k # 1
    <2> DEFINE e == s[k - 1]
    <2>1. k \in 2..Len(s) /\ k - 1 \in 1..Len(s) /\ k - 1 \in DOMAIN s
      BY <1>1, <1>3
    <2>2. Sound(e) /\ Follow(e, s[k]) /\ e \in Events(S)
      BY <1>1, <2>1 DEF Track
    <2>3. e \in {s[j] : j \in {k - 1} \cap DOMAIN s}
      BY <2>1
    <2>4. /\ s[k].status # 0
          /\ e.status \in {SYSEX_START, SYSEX_END} => Last(e.data) = SYSEX_END
      BY <2>3 DEF AtRest
    <2> HIDE DEF e
    <2>5. ASSUME Closes(s[k]) PROVE FALSE
      <3>1. Opens(e)
        BY <2>2, <2>5 DEF Follow
      <3>2. e.status = SYSEX_START /\ ~EndsIn(e.data)
        BY <3>1 DEF Opens
      <3>3. e.data # <<>> /\ Last(e.data) = SYSEX_END
        BY <2>2, <2>4, <3>2 DEF Sound
      <3>4. e.data[Len(e.data)] = SYSEX_END
        BY <3>3 DEF Last
      <3>5. QED
        BY <3>2, <3>3, <3>4 DEF EndsIn
    <2>6. QED
      BY <2>4, <2>5 DEF Rests
  <1>4. QED
    BY <1>2, <1>3

(* The tracks of a file as it is saved.                                    *)
LEMMA SavedMidi ==
    ASSUME NEW bytes, IsSeq(bytes), syx_to_smf(bytes).ok
    PROVE  IsMidi(syx_to_smf(bytes).tracks, bytes)
  <1> DEFINE S == Over(bytes)
             fs == complete_frames(bytes)
             s == Append([k \in DOMAIN fs |-> EventOf(fs[k])], EndOfTrack)
  <1>1. bytes \in Seq(S) /\ SYSEX_START \in S
    BY OverFacts
  <1>2. fs # <<>> /\ syx_to_smf(bytes).tracks = <<s>>
    BY DEF syx_to_smf
  <1> HIDE DEF S
  <1>3. fs \in Seq({f \in Seq(S) : Sealed(S, f)})
    BY <1>1, CompleteFrames
  <1>4. Carried(bytes) = FlattenSeq(fs)
    BY DEF Carried
  <1> HIDE DEF fs
  <1>5. Track(S, s) /\ Yield(s) = FlattenSeq(fs)
    BY <1>1, <1>3, SavedTrack
  <1>6. FlattenSeq(fs) # <<>>
    <2>1. fs \in Seq(Seq(S)) /\ Len(fs) \in Nat
          /\ \A i \in 1..Len(fs) : Sealed(S, fs[i])
      BY <1>3
    <2>2. \A i \in 1..Len(fs) : fs[i] # <<>>
      BY <2>1 DEF Sealed, Opening
    <2>3. QED
      BY <1>2, <2>1, <2>2, SomeBytes
  <1> HIDE DEF s
  <1>7. IsSeq(<<s>>) /\ Len(<<s>>) = 1 /\ <<s>>[1] = s
        /\ Yields(<<s>>) = Yield(s)
    BY <1>1, <1>5, OneTrack
  <1>8. \A t \in 1..Len(<<s>>) : Track(S, <<s>>[t])
    BY <1>5, <1>7
  <1>9. QED
    BY <1>2, <1>4, <1>5, <1>6, <1>7, <1>8 DEF IsMidi, S

MidiInv ==
    /\ IsFile(file)
    /\ midi # <<>> => IsMidi(midi, FileBytes)

LEMMA SavedStep == MidiInv /\ SaveAsMidi => MidiInv'
  <1> SUFFICES ASSUME MidiInv, SaveAsMidi PROVE MidiInv'
    OBVIOUS
  <1>1. file' = file /\ FileBytes' = FileBytes /\ IsFile(file)
    BY DEF SaveAsMidi, FileBytes, MidiInv
  <1>2. IsSeq(FileBytes)
    BY <1>1, BytesOfFile DEF FileBytes
  <1>3. /\ syx_to_smf(FileBytes).ok
        /\ midi' = syx_to_smf(FileBytes).tracks
    BY DEF SaveAsMidi
  <1>4. IsMidi(midi', FileBytes)
    BY <1>2, <1>3, SavedMidi
  <1>5. QED
    BY <1>1, <1>4 DEF MidiInv

LEMMA SequencedStep ==
    MidiInv /\ (SplitEvent \/ AddEvent \/ SplitTrack) => MidiInv'
  <1> SUFFICES ASSUME MidiInv, SplitEvent \/ AddEvent \/ SplitTrack
               PROVE  MidiInv'
    OBVIOUS
  <1> DEFINE S == Over(FileBytes)
  <1>1. file' = file /\ FileBytes' = FileBytes /\ IsFile(file)
    BY DEF SplitEvent, AddEvent, SplitTrack, Sequence, FileBytes, MidiInv
  <1>2. IsSeq(FileBytes)
    BY <1>1, BytesOfFile DEF FileBytes
  <1>3. /\ SYSEX_START \in S
        /\ {0, 1, 60, 64, 243, SYSEX_START} \subseteq S
    BY <1>2, OverFacts
  <1>4. midi # <<>>
    <2>1. DOMAIN <<>> = {} /\ Len(<<>>) = 0
      OBVIOUS
    <2>2. CASE SplitEvent
      BY <2>1, <2>2 DEF SplitEvent
    <2>3. CASE AddEvent
      <3>1. \E t \in DOMAIN midi : TRUE
        BY <2>3 DEF AddEvent
      <3>2. QED
        BY <2>1, <3>1
    <2>4. CASE SplitTrack
      <3>1. Len(midi) = 1
        BY <2>4 DEF SplitTrack
      <3>2. QED
        BY <2>1, <3>1
    <2>5. QED
      BY <2>2, <2>3, <2>4
  <1>5. IsMidi(midi, FileBytes)
    BY <1>4 DEF MidiInv
  <1>6. /\ IsSeq(midi) /\ \A t \in 1..Len(midi) : Track(S, midi[t])
        /\ Yields(midi) = Carried(FileBytes) /\ Carried(FileBytes) # <<>>
    BY <1>5 DEF IsMidi
  <1>7. DOMAIN midi = 1..Len(midi) /\ Len(midi) \in Nat
    BY <1>6 DEF IsSeq
  <1> HIDE DEF S
  <1>8. ASSUME NEW t \in DOMAIN midi, NEW x, Track(S, x),
               Yield(x) = Yield(midi[t]), midi' = [midi EXCEPT ![t] = x]
        PROVE  IsMidi(midi', FileBytes)
    <2>1. /\ IsSeq(midi') /\ \A i \in 1..Len(midi') : Track(S, midi'[i])
          /\ Yields(midi') = Yields(midi)
      BY <1>6, <1>8, TrackReplaced
    <2>2. \A i \in 1..Len(midi') : Track(Over(FileBytes), midi'[i])
      BY <2>1 DEF S
    <2>3. Yields(midi') = Carried(FileBytes) /\ Carried(FileBytes) # <<>>
      BY <1>6, <2>1
    <2>4. QED
      BY <2>1, <2>2, <2>3 DEF IsMidi
  <1>9. CASE SplitEvent
    <2>1. PICK t \in DOMAIN midi : \E k \in DOMAIN midi[t] :
            /\ midi[t][k].status = SYSEX_START /\ Len(midi[t][k].data) > 8
            /\ Last(midi[t][k].data) = SYSEX_END
            /\ midi' = [midi EXCEPT ![t] = Parted(midi[t], k)]
      BY <1>9 DEF SplitEvent, Sequence, Parted
    <2>2. PICK k \in DOMAIN midi[t] :
            /\ midi[t][k].status = SYSEX_START /\ Len(midi[t][k].data) > 8
            /\ Last(midi[t][k].data) = SYSEX_END
            /\ midi' = [midi EXCEPT ![t] = Parted(midi[t], k)]
      BY <2>1
    <2> DEFINE s == midi[t]
               x == Parted(s, k)
    <2>3. Track(S, s) /\ k \in DOMAIN s
      BY <1>6, <1>7, <2>2
    <2>4. /\ s[k].status = SYSEX_START /\ Len(s[k].data) > 8
          /\ Last(s[k].data) = SYSEX_END
      BY <2>2
    <2>5. midi' = [midi EXCEPT ![t] = x]
      BY <2>2
    <2> HIDE DEF s
    <2>6. k \in 1..Len(s)
      BY <2>3 DEF Track
    <2>7. Track(S, x) /\ Yield(x) = Yield(s)
      <3>1. /\ SYSEX_START \in S /\ Track(S, s) /\ k \in 1..Len(s)
            /\ s[k].status = SYSEX_START /\ Len(s[k].data) > 8
            /\ Last(s[k].data) = SYSEX_END
        BY <1>3, <2>3, <2>4, <2>6
      <3>2. QED
        BY <3>1, EventSplit
    <2> HIDE DEF x
    <2>8. QED
      BY <1>1, <1>8, <2>5, <2>7 DEF MidiInv, s
  <1>10. CASE AddEvent
    <2>1. PICK t \in DOMAIN midi :
            \E k \in DOMAIN midi[t], es \in Others :
              /\ AtRest(midi[t], k)
              /\ midi' = [midi EXCEPT ![t] =
                   SubSeq(midi[t], 1, k - 1) \o es
                   \o SubSeq(midi[t], k, Len(midi[t]))]
      BY <1>10 DEF AddEvent, Sequence
    <2>2. PICK k \in DOMAIN midi[t], es \in Others :
            /\ AtRest(midi[t], k)
            /\ midi' = [midi EXCEPT ![t] =
                 SubSeq(midi[t], 1, k - 1) \o es
                 \o SubSeq(midi[t], k, Len(midi[t]))]
      BY <2>1
    <2> DEFINE s == midi[t]
               x == SubSeq(s, 1, k - 1) \o es \o SubSeq(s, k, Len(s))
    <2>3. AtRest(s, k) /\ midi' = [midi EXCEPT ![t] = x]
      BY <2>2
    <2>4. Track(S, s) /\ k \in DOMAIN s
      BY <1>6, <1>7, <2>2
    <2> HIDE DEF s
    <2>5. k \in 1..Len(s)
      BY <2>4 DEF Track
    <2>6. Rests(s[k])
      BY <2>3, <2>4, <2>5, RestsThere
    <2>7. Track(S, x) /\ Yield(x) = Yield(s)
      BY <1>3, <2>2, <2>4, <2>5, <2>6, EventAdded
    <2> HIDE DEF x
    <2>8. QED
      BY <1>1, <1>8, <2>3, <2>7 DEF MidiInv, s
  <1>11. CASE SplitTrack
    <2>1. Len(midi) = 1
      BY <1>11 DEF SplitTrack
    <2>2. PICK k \in 2..Len(midi[1]) :
            /\ AtRest(midi[1], k)
            /\ midi' = <<SubSeq(midi[1], 1, k - 1),
                         SubSeq(midi[1], k, Len(midi[1]))>>
      BY <1>11 DEF SplitTrack, Sequence
    <2> DEFINE s == midi[1]
               a == SubSeq(s, 1, k - 1)
               b == SubSeq(s, k, Len(s))
    <2>3. Track(S, s)
      BY <1>6, <2>1
    <2>4. AtRest(s, k) /\ midi' = <<a, b>>
      BY <2>2
    <2>5. midi = <<s>>
      <3>1. \A i \in 1..1 : midi[i] = <<s>>[i]
        OBVIOUS
      <3>2. midi \in Seq(ToSet(midi))
        BY <1>6 DEF IsSeq
      <3> HIDE DEF s
      <3>3. <<s>> \in Seq({s}) /\ Len(<<s>>) = 1
        OBVIOUS
      <3>4. QED
        BY <2>1, <3>1, <3>2, <3>3, SeqEqual
    <2> HIDE DEF s
    <2>6. k \in 1..Len(s) /\ k \in 1..(Len(s) + 1)
      <3>1. Len(s) \in Nat
        BY <2>3 DEF Track
      <3>2. k \in 2..Len(s)
        BY DEF s
      <3>3. QED
        BY <3>1, <3>2
    <2>7. Rests(s[k])
      BY <2>3, <2>4, <2>6, RestsThere
    <2>8. Track(S, a) /\ Track(S, b) /\ Yield(s) = Yield(a) \o Yield(b)
      BY <1>3, <2>3, <2>6, <2>7, CutTrack
    <2> HIDE DEF a, b
    <2>9. IsSeq(<<a, b>>) /\ Len(<<a, b>>) = 2
          /\ Yields(<<a, b>>) = Yield(a) \o Yield(b)
      BY <1>3, <2>8, TwoTracks
    <2>10. Yields(<<s>>) = Yield(s)
      BY <1>3, <2>3, OneTrack
    <2>11. \A i \in 1..Len(<<a, b>>) : Track(S, <<a, b>>[i])
      BY <2>8, <2>9
    <2>12. IsMidi(<<a, b>>, FileBytes)
      BY <1>6, <2>5, <2>8, <2>9, <2>10, <2>11 DEF IsMidi, S
    <2>13. QED
      BY <1>1, <2>4, <2>12 DEF MidiInv
  <1>12. QED
    BY <1>9, <1>10, <1>11

(* The tracks are read as what was saved.                                  *)
LEMMA MidiIsRead ==
    ASSUME NEW ts, NEW bytes, IsSeq(bytes), IsMidi(ts, bytes)
    PROVE  smf_to_syx(ts).ok = TRUE /\ smf_to_syx(ts).bytes = Carried(bytes)
  <1> DEFINE S == Over(bytes)
             out == FlattenSeq([t \in DOMAIN ts |-> read_track(ts[t]).out])
  <1>1. /\ IsSeq(ts) /\ \A t \in 1..Len(ts) : Track(S, ts[t])
        /\ Yields(ts) = Carried(bytes) /\ Carried(bytes) # <<>>
    BY DEF IsMidi
  <1>2. DOMAIN ts = 1..Len(ts)
    BY <1>1 DEF IsSeq
  <1>3. SYSEX_START \in S
    BY OverFacts
  <1> HIDE DEF S
  <1>4. \A t \in DOMAIN ts : /\ read_track(ts[t]).ok = TRUE
                             /\ read_track(ts[t]).out = Yield(ts[t])
    BY <1>1, <1>2, <1>3, ReadTrack
  <1>5. [t \in DOMAIN ts |-> read_track(ts[t]).out]
          = [t \in DOMAIN ts |-> Yield(ts[t])]
    BY <1>4
  <1>6. out = Carried(bytes)
    BY <1>1, <1>5 DEF Yields
  <1>7. /\ smf_to_syx(ts).ok = ((\A t \in DOMAIN ts : read_track(ts[t]).ok)
                               /\ out # <<>>)
        /\ smf_to_syx(ts).bytes = out
    BY DEF smf_to_syx
  <1> HIDE DEF out
  <1>8. smf_to_syx(ts).ok = TRUE
    BY <1>1, <1>4, <1>6, <1>7
  <1>9. QED
    BY <1>6, <1>7, <1>8

LEMMA SameSound == MidiInv => SameThroughMidi
  <1> SUFFICES ASSUME MidiInv, midi # <<>>
               PROVE  /\ Picked.ok
                      /\ Picked.bytes = FlattenSeq(complete_frames(FileBytes))
    BY DEF SameThroughMidi
  <1>1. IsSeq(FileBytes) /\ IsMidi(midi, FileBytes)
    BY BytesOfFile DEF MidiInv, FileBytes
  <1>2. Picked = smf_to_syx(midi)
    BY DEF Picked
  <1>3. QED
    BY <1>1, <1>2, MidiIsRead DEF Carried

LEMMA InitMidi == Init => MidiInv
  <1> SUFFICES ASSUME Init PROVE MidiInv
    OBVIOUS
  <1>1. file = <<>> /\ midi = <<>>
    BY DEF Init
  <1>2. <<>> \in Seq({})
    OBVIOUS
  <1>3. IsFile(<<>>)
    <2>1. \A f \in {} : IsSeq(f)
      OBVIOUS
    <2>2. QED
      BY <1>2, <2>1, FileOf
  <1>4. QED
    BY <1>1, <1>3 DEF MidiInv

LEMMA SameFiles == MidiInv /\ UNCHANGED fileVars => MidiInv'
  BY DEF MidiInv, fileVars, FileBytes

LEMMA NoFile == MidiInv /\ (OpenFile \/ CloseFile) => MidiInv'
  <1> SUFFICES ASSUME MidiInv, OpenFile \/ CloseFile PROVE MidiInv'
    OBVIOUS
  <1>1. file' = <<>> /\ midi' = <<>>
    BY DEF OpenFile, CloseFile
  <1>2. <<>> \in Seq({}) /\ \A f \in {} : IsSeq(f)
    OBVIOUS
  <1>3. IsFile(<<>>)
    BY <1>2, FileOf
  <1>4. QED
    BY <1>1, <1>3 DEF MidiInv

LEMMA StepMidi == IInv /\ MidiInv /\ [Next]_vars => MidiInv'
  <1> SUFFICES ASSUME IInv, MidiInv, [Next]_vars PROVE MidiInv'
    OBVIOUS
  <1>1. CASE UNCHANGED fileVars
    BY <1>1, SameFiles
  <1>2. CASE Export
    <2>1. PICK x \in Exports : file' = x.messages /\ midi' = <<>>
      BY <1>2 DEF Export
    <2>2. IsFile(file')
      BY <2>1, ExportedFile
    <2>3. QED
      BY <2>1, <2>2 DEF MidiInv
  <1>3. CASE Lose \/ Double \/ Swap \/ Insert \/ Tick \/ Damage
    <2>1. IsFile(file')
      BY <1>3, HarmStep DEF MidiInv
    <2>2. midi' = <<>>
      BY <1>3 DEF Lose, Double, Swap, Insert, Tick, Damage, Harm
    <2>3. QED
      BY <2>1, <2>2 DEF MidiInv
  <1>4. CASE SaveAsMidi
    BY <1>4, SavedStep
  <1>5. CASE SplitEvent \/ AddEvent \/ SplitTrack
    BY <1>5, SequencedStep
  <1>6. CASE OpenFile \/ CloseFile
    BY <1>6, NoFile
  <1>7. CASE Begin \/ End \/ \E on \in BOOLEAN : setLive(on)
    <2>1. UNCHANGED fileVars
      BY <1>7 DEF Begin, End, setLive
    <2>2. QED
      BY <2>1, SameFiles
  <1>8. CASE Set \/ setName \/ applyMany
    <2>1. UNCHANGED fileVars
      BY <1>8 DEF Set, setName, applyMany, Edit
    <2>2. QED
      BY <2>1, SameFiles
  <1>9. CASE undo \/ redo \/ jumpTo
    <2>1. UNCHANGED fileVars
      BY <1>9 DEF undo, redo, jumpTo, Restore
    <2>2. QED
      BY <2>1, SameFiles
  <1>10. UNCHANGED vars => UNCHANGED fileVars
    BY DEF vars
  <1>11. QED
    BY <1>1, <1>2, <1>3, <1>4, <1>5, <1>6, <1>7, <1>8, <1>9, <1>10 DEF Next

-----------------------------------------------------------------------------
(* The theorems.                                                           *)

(* The invariant holds of every behaviour.                                 *)
THEOREM Inductive == Spec => []IInv
  BY InitInv, StepInv, PTL DEF Spec

(* UndoReturns: for any limit of the history, any parameter map and any    *)
(* file opened, the history is a chain of states that leads to the         *)
(* document on the screen and on to what can be redone (history.ts and     *)
(* PatchStore.undo, redo, jumpTo).                                         *)
THEOREM UndoLeadsBack == Spec => []UndoReturns
  <1>1. IInv => UndoReturns
    BY DEF IInv, Chain, Here, UndoReturns
  <1>2. QED
    BY <1>1, Inductive, PTL

(* InstrumentFollows: for any parameter map, sizes of messages and limits, *)
(* the instrument's temporary memory holds every byte of the document that *)
(* is sent once the whole of it was (store.ts afterEdit and sendPatch,     *)
(* wasm patch_frames and param_frame, the backend's send_temp_frame), and  *)
(* no live message reached another part of its memory.                     *)
THEOREM TheInstrumentFollows == Spec => []InstrumentFollows
  <1>1. IInv /\ SentInv /\ [Next]_vars => IInv' /\ SentInv'
    BY StepInv, StepSent
  <1>2. IInv /\ SentInv => InstrumentFollows
    BY FollowsIs DEF IInv
  <1>3. QED
    BY InitInv, InitSent, <1>1, <1>2, PTL DEF Spec

(* SameThroughMidi: for any parameter map and documents, any harm a file   *)
(* came to and however often a sequencer split events, put others between  *)
(* or began another track, a MIDI file is read as the whole messages of    *)
(* the file it was made from (syx_to_smf, smf_to_syx, read_track).         *)
THEOREM SameSoundThroughMidi == Spec => []SameThroughMidi
  <1>1. Init => IInv /\ MidiInv
    BY InitInv, InitMidi
  <1>2. IInv /\ MidiInv /\ [Next]_vars => IInv' /\ MidiInv'
    BY StepInv, StepMidi
  <1>3. MidiInv => SameThroughMidi
    BY SameSound
  <1>4. QED
    BY <1>1, <1>2, <1>3, PTL DEF Spec
=============================================================================
