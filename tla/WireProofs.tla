----------------------------- MODULE WireProofs -----------------------------
(***************************************************************************)
(* Proofs about Wire, for any instruments that send MIDI messages, any     *)
(* way of cutting them and messages of any number and length.              *)
(***************************************************************************)
EXTENDS Wire, SequenceTheorems, FiniteSetTheorems, WellFoundedInduction,
        TLAPS

-----------------------------------------------------------------------------
(* Numbers, and counting up.                                               *)

(* A set of numbers has a least one.                                       *)
LEMMA LeastNumber ==
    ASSUME NEW T \in SUBSET Nat, T # {}
    PROVE  \E n \in T : \A m \in T : n <= m
  <1> DEFINE U == {0..(n - 1) : n \in T}
  <1>1. \A n \in Nat : IsFiniteSet(0..(n - 1))
    BY FS_Interval
  <1>2. U \subseteq FiniteSubsetsOf(Nat) /\ U # {}
    <2>1. ASSUME NEW n \in T PROVE 0..(n - 1) \in FiniteSubsetsOf(Nat)
      BY <1>1, <2>1 DEF FiniteSubsetsOf
    <2>2. QED
      BY <2>1
  <1>3. \E x \in U : \A y \in U : ~(<<y, x>> \in StrictSubsetOrdering(Nat))
    BY <1>2, FS_StrictSubsetOrderingWellFounded, WFMin
  <1>4. PICK n \in T : \A m \in T :
           <<0..(m - 1), 0..(n - 1)>> \notin StrictSubsetOrdering(Nat)
    BY <1>3
  <1>5. ASSUME NEW m \in T, m < n PROVE FALSE
    <2>1. /\ 0..(m - 1) \in FiniteSubsetsOf(Nat)
          /\ 0..(n - 1) \in FiniteSubsetsOf(Nat)
      BY <1>2
    <2>2. m \in 0..(n - 1) /\ m \notin 0..(m - 1)
      BY <1>5
    <2>3. 0..(m - 1) \subseteq 0..(n - 1) /\ 0..(m - 1) # 0..(n - 1)
      BY <2>2, <1>5
    <2>4. <<0..(m - 1), 0..(n - 1)>> \in StrictSubsetOrdering(Nat)
      BY <2>1, <2>3 DEF StrictSubsetOrdering, FiniteSubsetsOf
    <2>5. QED
      BY <1>4, <1>5, <2>4
  <1>6. QED
    BY <1>5

(* What holds of 0, and of every number when of the one before it.         *)
LEMMA CountingUp ==
    ASSUME NEW n \in Nat, NEW G, 0 \in G,
           \A i \in 1..n : i - 1 \in G => i \in G
    PROVE  0..n \subseteq G
  <1> DEFINE T == {i \in 0..n : i \notin G}
  <1>1. ASSUME T # {} PROVE FALSE
    <2>0. T \in SUBSET Nat
      OBVIOUS
    <2>1. PICK m \in T : \A i \in T : m <= i
      BY <1>1, <2>0, LeastNumber
    <2>2. m \in 1..n /\ m - 1 \in 0..n /\ ~(m <= m - 1) /\ m \notin G
      OBVIOUS
    <2>3. m - 1 \in G
      BY <2>1, <2>2
    <2>4. QED
      BY <2>2, <2>3
  <1>2. QED
    BY <1>1

(* The greatest of some numbers up to n, and the least.                    *)
LEMMA MaxIs ==
    ASSUME NEW T \in SUBSET Int, NEW x \in T, \A y \in T : x >= y
    PROVE  Max(T) = x
  <1>1. \A z \in T : (\A y \in T : z >= y) => z = x
    OBVIOUS
  <1>2. QED
    BY <1>1 DEF Max

LEMMA MinIs ==
    ASSUME NEW T \in SUBSET Int, NEW x \in T, \A y \in T : x <= y
    PROVE  Min(T) = x
  <1>1. \A z \in T : (\A y \in T : z <= y) => z = x
    OBVIOUS
  <1>2. QED
    BY <1>1 DEF Min

LEMMA MaxFacts ==
    ASSUME NEW n \in Nat, NEW T \in SUBSET (0..n), T # {}
    PROVE  Max(T) \in T /\ \A y \in T : Max(T) >= y
  <1> DEFINE D == {n - t : t \in T}
  <1>1. D \in SUBSET Nat /\ D # {}
    <2>1. \A t \in T : n - t \in Nat
      OBVIOUS
    <2>2. QED
      BY <2>1
  <1>2. PICK d \in D : \A e \in D : d <= e
    BY <1>1, LeastNumber
  <1>3. PICK x \in T : d = n - x
    OBVIOUS
  <1>4. \A y \in T : x >= y
    <2>1. ASSUME NEW y \in T PROVE x >= y
      <3>1. n - x <= n - y
        BY <1>2, <1>3
      <3>2. x \in Int /\ y \in Int
        OBVIOUS
      <3>3. QED
        BY <3>1, <3>2
    <2>2. QED
      BY <2>1
  <1>5. QED
    BY <1>4 DEF Max

LEMMA MinFacts ==
    ASSUME NEW T \in SUBSET Nat, T # {}
    PROVE  Min(T) \in T /\ \A y \in T : Min(T) <= y
  <1>1. PICK x \in T : \A y \in T : x <= y
    BY LeastNumber
  <1>2. QED
    BY <1>1 DEF Min

(* From x0, one step after the other.                                      *)
Iterating(n, x0, Step, f) ==
    f = [i \in 0..n |-> IF i = 0 THEN x0 ELSE Step[i][f[i - 1]]]

LEMMA Iteration ==
    ASSUME NEW n \in Nat, NEW X, NEW x0 \in X, NEW Step \in [1..n -> [X -> X]]
    PROVE  \E f \in [0..n -> X] : Iterating(n, x0, Step, f)
  <1> DEFINE G == {m \in 0..n : \E f \in [0..m -> X] :
                                   Iterating(m, x0, Step, f)}
  <1>1. 0 \in G
    <2> DEFINE f == [i \in 0..0 |-> x0]
    <2>1. f \in [0..0 -> X] /\ Iterating(0, x0, Step, f)
      BY DEF Iterating
    <2>2. QED
      BY <2>1
  <1>2. ASSUME NEW m \in 1..n, m - 1 \in G PROVE m \in G
    <2>1. PICK f \in [0..(m - 1) -> X] : Iterating(m - 1, x0, Step, f)
      BY <1>2
    <2> DEFINE last == Step[m][f[m - 1]]
               h == [i \in 0..m |-> IF i = m THEN last ELSE f[i]]
    <2>2. last \in X
      BY <2>1
    <2>3. /\ \A i \in 0..m : i # m => i \in 0..(m - 1)
          /\ \A i \in 0..m : i # 0 => i - 1 \in 0..(m - 1)
      OBVIOUS
    <2>4. h \in [0..m -> X] /\ h[m] = last
          /\ \A i \in 0..(m - 1) : h[i] = f[i]
      BY <2>2, <2>3
    <2>5. \A i \in 0..(m - 1) :
             f[i] = IF i = 0 THEN x0 ELSE Step[i][f[i - 1]]
      BY <2>1 DEF Iterating
    <2> HIDE DEF h
    <2>6. \A i \in 0..m : h[i] = IF i = 0 THEN x0 ELSE Step[i][h[i - 1]]
      <3>1. h[m] = Step[m][h[m - 1]] /\ m # 0 /\ m - 1 \in 0..(m - 1)
        BY <2>4
      <3>2. ASSUME NEW i \in 0..m, i # m
            PROVE  h[i] = IF i = 0 THEN x0 ELSE Step[i][h[i - 1]]
        <4>1. i \in 0..(m - 1) /\ (i # 0 => i - 1 \in 0..(m - 1))
          BY <3>2
        <4>2. QED
          BY <4>1, <2>4, <2>5
      <3>3. QED
        BY <3>1, <3>2
    <2>7. Iterating(m, x0, Step, h)
      BY <2>4, <2>6 DEF Iterating
    <2>8. m \in 0..n
      OBVIOUS
    <2>9. QED
      BY <2>4, <2>7, <2>8
  <1> HIDE DEF G
  <1>3. 0..n \subseteq G
    BY <1>1, <1>2, CountingUp
  <1>4. n \in G
    BY <1>3
  <1>5. QED
    BY <1>4 DEF G

-----------------------------------------------------------------------------
(* The messages accepted of some frames, one frame after the other.        *)

Keeping(fs, f) ==
    /\ f[0] = <<>>
    /\ \A i \in 1..Len(fs) :
         f[i] = IF Parses(fs[i]) THEN Append(f[i - 1], fs[i]) ELSE f[i - 1]

LEMMA AcceptedIs ==
    ASSUME NEW S, NEW fs \in Seq(S)
    PROVE  \E f \in [0..Len(fs) -> Seq(S)] :
             Keeping(fs, f) /\ Accepted(fs) = f[Len(fs)]
  <1> DEFINE n == Len(fs)
             Step == [i \in 1..n |-> [s \in Seq(S) |->
                        IF Parses(fs[i]) THEN Append(s, fs[i]) ELSE s]]
             Is(f) == f = [i \in 0..n |-> IF i = 0 THEN <<>>
                             ELSE IF Parses(fs[i])
                             THEN Append(f[i - 1], fs[i]) ELSE f[i - 1]]
             of == CHOOSE f : Is(f)
  <1>1. n \in Nat /\ <<>> \in Seq(S)
    OBVIOUS
  <1>2. Step \in [1..n -> [Seq(S) -> Seq(S)]]
    OBVIOUS
  <1>3. PICK f \in [0..n -> Seq(S)] : Iterating(n, <<>>, Step, f)
    <2> HIDE DEF Step, n
    <2>1. QED
      BY <1>1, <1>2, Iteration
  <1>4. \A i \in 1..n : i - 1 \in 0..n
    BY <1>1
  <1>5. \A i \in 1..n : Step[i][f[i - 1]] =
           IF Parses(fs[i]) THEN Append(f[i - 1], fs[i]) ELSE f[i - 1]
    BY <1>3, <1>4
  <1>6. f[0] = <<>> /\ \A i \in 1..n : f[i] = Step[i][f[i - 1]]
    <2> HIDE DEF Step, n
    <2>1. /\ 0 \in 0..n
          /\ \A i \in 1..n : i \in 0..n /\ i # 0
      BY <1>1
    <2>2. \A i \in 0..n : f[i] = IF i = 0 THEN <<>> ELSE Step[i][f[i - 1]]
      BY <1>3 DEF Iterating
    <2>3. QED
      BY <2>1, <2>2
  <1> HIDE DEF Step
  <1>7. f = [i \in 0..n |-> f[i]]
    BY <1>3
  <1>8. \A i \in 0..n : f[i] = IF i = 0 THEN <<>>
                               ELSE IF Parses(fs[i])
                               THEN Append(f[i - 1], fs[i]) ELSE f[i - 1]
    <2>1. \A i \in 0..n : i # 0 => i \in 1..n
      BY <1>1
    <2> HIDE DEF n
    <2>2. QED
      BY <1>5, <1>6, <2>1
  <1>9. Is(f)
    BY <1>7, <1>8
  <1>10. Is(of)
    BY <1>9
  <1>11. Accepted(fs) = of[n]
    BY DEF Accepted
  <1> DEFINE G == {i \in 0..n : of[i] = f[i]}
  <1>12. \A i \in 0..n : of[i] = IF i = 0 THEN <<>>
                                 ELSE IF Parses(fs[i])
                                 THEN Append(of[i - 1], fs[i]) ELSE of[i - 1]
    BY <1>10
  <1> HIDE DEF Is, of, n
  <1>13. 0 \in G
    BY <1>1, <1>8, <1>12
  <1>14. ASSUME NEW i \in 1..n, i - 1 \in G PROVE i \in G
    <2>1. i \in 0..n /\ i # 0 /\ of[i - 1] = f[i - 1]
      BY <1>1, <1>14
    <2>2. QED
      BY <1>8, <1>12, <2>1
  <1> HIDE DEF G
  <1>15. 0..n \subseteq G
    BY <1>1, <1>13, <1>14, CountingUp
  <1>16. of[n] = f[n]
    BY <1>1, <1>15 DEF G
  <1>17. Keeping(fs, f)
    BY <1>5, <1>6 DEF Keeping, n
  <1>18. QED
    BY <1>3, <1>11, <1>16, <1>17 DEF n

LEMMA NoneAccepted == Accepted(<<>>) = <<>>
  <1>1. <<>> \in Seq(Nat) /\ Len(<<>>) = 0
    OBVIOUS
  <1>2. PICK f \in [0..0 -> Seq(Nat)] :
           Keeping(<<>>, f) /\ Accepted(<<>>) = f[0]
    BY <1>1, AcceptedIs
  <1>3. QED
    BY <1>2 DEF Keeping

LEMMA OneMoreAccepted ==
    ASSUME NEW S, NEW fs \in Seq(S), NEW x \in S
    PROVE  Accepted(Append(fs, x)) =
             IF Parses(x) THEN Append(Accepted(fs), x) ELSE Accepted(fs)
  <1> DEFINE n == Len(fs)
             gs == Append(fs, x)
  <1>1. /\ n \in Nat /\ gs \in Seq(S) /\ Len(gs) = n + 1 /\ gs[n + 1] = x
        /\ \A i \in 1..n : gs[i] = fs[i]
    OBVIOUS
  <1>2. PICK f \in [0..n -> Seq(S)] : Keeping(fs, f) /\ Accepted(fs) = f[n]
    BY AcceptedIs
  <1> HIDE DEF gs
  <1>3. PICK g \in [0..(n + 1) -> Seq(S)] :
           Keeping(gs, g) /\ Accepted(gs) = g[n + 1]
    BY <1>1, AcceptedIs
  <1> HIDE DEF n
  <1> DEFINE G == {i \in 0..n : f[i] = g[i]}
  <1>4. 0 \in G
    BY <1>1, <1>2, <1>3 DEF Keeping
  <1>5. ASSUME NEW i \in 1..n, i - 1 \in G PROVE i \in G
    <2>1. i \in 0..n /\ i \in 1..(n + 1) /\ f[i - 1] = g[i - 1]
      BY <1>1, <1>5
    <2>2. /\ f[i] = IF Parses(fs[i]) THEN Append(f[i - 1], fs[i])
                    ELSE f[i - 1]
          /\ g[i] = IF Parses(gs[i]) THEN Append(g[i - 1], gs[i])
                    ELSE g[i - 1]
      BY <1>1, <1>2, <1>3, <2>1 DEF Keeping, n
    <2>3. gs[i] = fs[i]
      BY <1>1
    <2>4. f[i] = g[i]
      BY <2>1, <2>2, <2>3
    <2>5. QED
      BY <2>1, <2>4
  <1> HIDE DEF G
  <1>6. 0..n \subseteq G
    BY <1>1, <1>4, <1>5, CountingUp
  <1>7. f[n] = g[n]
    BY <1>1, <1>6 DEF G
  <1>8. g[n + 1] = IF Parses(x) THEN Append(g[n], x) ELSE g[n]
    <2>1. n + 1 \in 1..Len(gs) /\ (n + 1) - 1 = n
      BY <1>1
    <2>2. QED
      BY <1>1, <1>3, <2>1 DEF Keeping
  <1>9. QED
    BY <1>2, <1>3, <1>7, <1>8 DEF gs

-----------------------------------------------------------------------------
(* The bytes of a frame without real-time bytes.                           *)

Filtering(bs, f) ==
    /\ f[0] = <<>>
    /\ \A i \in 1..Len(bs) :
         f[i] = IF bs[i] < REALTIME_MIN THEN Append(f[i - 1], bs[i])
                ELSE f[i - 1]

LEMMA KeptIs ==
    ASSUME NEW bs \in Seq(Nat)
    PROVE  \E f \in [0..Len(bs) -> Seq(Nat)] :
             Filtering(bs, f) /\ WithoutRealtime(bs) = f[Len(bs)]
  <1> DEFINE n == Len(bs)
             Step == [i \in 1..n |-> [s \in Seq(Nat) |->
                        IF bs[i] < REALTIME_MIN THEN Append(s, bs[i]) ELSE s]]
             Is(f) == f = [i \in 0..n |-> IF i = 0 THEN <<>>
                             ELSE IF bs[i] < REALTIME_MIN
                             THEN Append(f[i - 1], bs[i]) ELSE f[i - 1]]
             of == CHOOSE f : Is(f)
  <1>1. n \in Nat /\ <<>> \in Seq(Nat)
    OBVIOUS
  <1>2. Step \in [1..n -> [Seq(Nat) -> Seq(Nat)]]
    OBVIOUS
  <1>3. PICK f \in [0..n -> Seq(Nat)] : Iterating(n, <<>>, Step, f)
    <2> HIDE DEF Step, n
    <2>1. QED
      BY <1>1, <1>2, Iteration
  <1>4. \A i \in 1..n : i - 1 \in 0..n
    BY <1>1
  <1>5. \A i \in 1..n : Step[i][f[i - 1]] =
           IF bs[i] < REALTIME_MIN THEN Append(f[i - 1], bs[i]) ELSE f[i - 1]
    BY <1>3, <1>4
  <1>6. f[0] = <<>> /\ \A i \in 1..n : f[i] = Step[i][f[i - 1]]
    <2> HIDE DEF Step, n
    <2>1. /\ 0 \in 0..n
          /\ \A i \in 1..n : i \in 0..n /\ i # 0
      BY <1>1
    <2>2. \A i \in 0..n : f[i] = IF i = 0 THEN <<>> ELSE Step[i][f[i - 1]]
      BY <1>3 DEF Iterating
    <2>3. QED
      BY <2>1, <2>2
  <1> HIDE DEF Step
  <1>7. f = [i \in 0..n |-> f[i]]
    BY <1>3
  <1>8. \A i \in 0..n : f[i] = IF i = 0 THEN <<>>
                               ELSE IF bs[i] < REALTIME_MIN
                               THEN Append(f[i - 1], bs[i]) ELSE f[i - 1]
    <2>1. \A i \in 0..n : i # 0 => i \in 1..n
      BY <1>1
    <2> HIDE DEF n
    <2>2. QED
      BY <1>5, <1>6, <2>1
  <1>9. Is(f)
    BY <1>7, <1>8
  <1>10. Is(of)
    BY <1>9
  <1>11. WithoutRealtime(bs) = of[n]
    BY DEF WithoutRealtime
  <1> DEFINE G == {i \in 0..n : of[i] = f[i]}
  <1>12. \A i \in 0..n : of[i] = IF i = 0 THEN <<>>
                                 ELSE IF bs[i] < REALTIME_MIN
                                 THEN Append(of[i - 1], bs[i]) ELSE of[i - 1]
    BY <1>10
  <1> HIDE DEF Is, of, n
  <1>13. 0 \in G
    BY <1>1, <1>8, <1>12
  <1>14. ASSUME NEW i \in 1..n, i - 1 \in G PROVE i \in G
    <2>1. i \in 0..n /\ i # 0 /\ of[i - 1] = f[i - 1]
      BY <1>1, <1>14
    <2>2. QED
      BY <1>8, <1>12, <2>1
  <1> HIDE DEF G
  <1>15. 0..n \subseteq G
    BY <1>1, <1>13, <1>14, CountingUp
  <1>16. of[n] = f[n]
    BY <1>1, <1>15 DEF G
  <1>17. Filtering(bs, f)
    BY <1>5, <1>6 DEF Filtering, n
  <1>18. QED
    BY <1>3, <1>11, <1>16, <1>17 DEF n

LEMMA NoneKept == WithoutRealtime(<<>>) = <<>>
  <1>1. <<>> \in Seq(Nat) /\ Len(<<>>) = 0
    OBVIOUS
  <1>2. PICK f \in [0..0 -> Seq(Nat)] :
           Filtering(<<>>, f) /\ WithoutRealtime(<<>>) = f[0]
    BY <1>1, KeptIs
  <1>3. QED
    BY <1>2 DEF Filtering

LEMMA OneMoreKept ==
    ASSUME NEW bs \in Seq(Nat), NEW b \in Nat
    PROVE  WithoutRealtime(Append(bs, b)) =
             IF b < REALTIME_MIN THEN Append(WithoutRealtime(bs), b)
             ELSE WithoutRealtime(bs)
  <1> DEFINE n == Len(bs)
             cs == Append(bs, b)
  <1>1. /\ n \in Nat /\ cs \in Seq(Nat) /\ Len(cs) = n + 1 /\ cs[n + 1] = b
        /\ \A i \in 1..n : cs[i] = bs[i]
    OBVIOUS
  <1>2. PICK f \in [0..n -> Seq(Nat)] :
           Filtering(bs, f) /\ WithoutRealtime(bs) = f[n]
    BY KeptIs
  <1> HIDE DEF cs
  <1>3. PICK g \in [0..(n + 1) -> Seq(Nat)] :
           Filtering(cs, g) /\ WithoutRealtime(cs) = g[n + 1]
    BY <1>1, KeptIs
  <1> HIDE DEF n
  <1> DEFINE G == {i \in 0..n : f[i] = g[i]}
  <1>4. 0 \in G
    BY <1>1, <1>2, <1>3 DEF Filtering
  <1>5. ASSUME NEW i \in 1..n, i - 1 \in G PROVE i \in G
    <2>1. i \in 0..n /\ i \in 1..(n + 1) /\ f[i - 1] = g[i - 1]
      BY <1>1, <1>5
    <2>2. /\ f[i] = IF bs[i] < REALTIME_MIN THEN Append(f[i - 1], bs[i])
                    ELSE f[i - 1]
          /\ g[i] = IF cs[i] < REALTIME_MIN THEN Append(g[i - 1], cs[i])
                    ELSE g[i - 1]
      BY <1>1, <1>2, <1>3, <2>1 DEF Filtering, n
    <2>3. cs[i] = bs[i]
      BY <1>1
    <2>4. f[i] = g[i]
      BY <2>1, <2>2, <2>3
    <2>5. QED
      BY <2>1, <2>4
  <1> HIDE DEF G
  <1>6. 0..n \subseteq G
    BY <1>1, <1>4, <1>5, CountingUp
  <1>7. f[n] = g[n]
    BY <1>1, <1>6 DEF G
  <1>8. g[n + 1] = IF b < REALTIME_MIN THEN Append(g[n], b) ELSE g[n]
    <2>1. n + 1 \in 1..Len(cs) /\ (n + 1) - 1 = n
      BY <1>1
    <2>2. QED
      BY <1>1, <1>3, <2>1 DEF Filtering
  <1>9. QED
    BY <1>2, <1>3, <1>7, <1>8 DEF cs

-----------------------------------------------------------------------------
(* The frames of a stream, as one more byte comes.                         *)

LastStart(bytes) == Max(Starts(bytes, Len(bytes)))
LastFrame(bytes) == FrameFrom(bytes, LastStart(bytes), Len(bytes))
HasFrame(bytes)  == Starts(bytes, Len(bytes)) # {}
EndsOf(bytes, i, j) == {e \in i..j : bytes[e] = SYSEX_END}
IsOpen(bytes) ==
    HasFrame(bytes) /\ EndsOf(bytes, LastStart(bytes), Len(bytes)) = {}

FramesUpTo(bytes, f, j) ==
    IF Starts(bytes, j) = {} THEN <<>>
    ELSE Append(f[Max(Starts(bytes, j)) - 1],
                FrameFrom(bytes, Max(Starts(bytes, j)), j))

IsFramesUpTo(bytes, f, n) == \A j \in 0..n : f[j] = FramesUpTo(bytes, f, j)

LEMMA StartFacts ==
    ASSUME NEW bytes \in Seq(Nat), NEW j \in 0..Len(bytes),
           Starts(bytes, j) # {}
    PROVE  /\ Max(Starts(bytes, j)) \in 1..j
           /\ bytes[Max(Starts(bytes, j))] = SYSEX_START
           /\ \A i \in Starts(bytes, j) : Max(Starts(bytes, j)) >= i
  <1> DEFINE T == Starts(bytes, j)
  <1>1. T \in SUBSET (0..j) /\ T # {} /\ j \in Nat
    BY DEF Starts
  <1> HIDE DEF T
  <1>2. Max(T) \in T /\ \A i \in T : Max(T) >= i
    BY <1>1, MaxFacts
  <1>3. QED
    BY <1>2 DEF T, Starts

LEMMA FrameFromIs ==
    ASSUME NEW bytes \in Seq(Nat), NEW j \in 1..Len(bytes), NEW i \in 1..j
    PROVE  /\ StopOf(bytes, i, j) \in i..j
           /\ FrameFrom(bytes, i, j) \in Seq(Nat)
  <1> DEFINE T == {j} \cup {e \in i..j : bytes[e] = SYSEX_END}
  <1>1. T \in SUBSET Nat /\ T # {} /\ T \subseteq i..j
    OBVIOUS
  <1> HIDE DEF T
  <1>2. Min(T) \in i..j
    BY <1>1, MinFacts
  <1>3. StopOf(bytes, i, j) \in i..j
    BY <1>2 DEF StopOf, T
  <1> DEFINE s == SubSeq(bytes, i, StopOf(bytes, i, j))
  <1>4. s \in Seq(Nat)
    BY <1>3, SubSeqProperties
  <1> HIDE DEF s
  <1>5. PICK f \in [0..Len(s) -> Seq(Nat)] : WithoutRealtime(s) = f[Len(s)]
    BY <1>4, KeptIs
  <1>6. Len(s) \in 0..Len(s)
    BY <1>4
  <1>7. QED
    BY <1>3, <1>5, <1>6 DEF FrameFrom, s

LEMMA FramesExist ==
    ASSUME NEW bytes \in Seq(Nat)
    PROVE  \E f \in [0..Len(bytes) -> Seq(Seq(Nat))] :
             IsFramesUpTo(bytes, f, Len(bytes))
  <1> DEFINE n == Len(bytes)
             G == {m \in 0..n : \E f \in [0..m -> Seq(Seq(Nat))] :
                     \A j \in 0..m : f[j] = FramesUpTo(bytes, f, j)}
  <1>1. n \in Nat
    OBVIOUS
  <1>2. 0 \in G
    <2> DEFINE f == [j \in 0..0 |-> <<>>]
    <2>1. f \in [0..0 -> Seq(Seq(Nat))] /\ f[0] = <<>>
      OBVIOUS
    <2>2. Starts(bytes, 0) = {}
      BY DEF Starts
    <2> HIDE DEF f
    <2>3. \A j \in 0..0 : f[j] = FramesUpTo(bytes, f, j)
      BY <2>1, <2>2 DEF FramesUpTo
    <2>4. QED
      BY <1>1, <2>1, <2>3
  <1>3. ASSUME NEW m \in 1..n, m - 1 \in G PROVE m \in G
    <2>1. PICK f \in [0..(m - 1) -> Seq(Seq(Nat))] :
             \A j \in 0..(m - 1) : f[j] = FramesUpTo(bytes, f, j)
      BY <1>3
    <2> DEFINE last == FramesUpTo(bytes, f, m)
               h == [j \in 0..m |-> IF j = m THEN last ELSE f[j]]
    <2>2. last \in Seq(Seq(Nat))
      <3>1. CASE Starts(bytes, m) = {}
        BY <3>1 DEF FramesUpTo
      <3>2. CASE Starts(bytes, m) # {}
        <4> DEFINE i == Max(Starts(bytes, m))
        <4>1. i \in 1..m
          BY <3>2, <1>1, StartFacts
        <4> HIDE DEF i
        <4>2. FrameFrom(bytes, i, m) \in Seq(Nat)
          BY <4>1, FrameFromIs
        <4>3. i - 1 \in 0..(m - 1)
          BY <4>1
        <4>4. f[i - 1] \in Seq(Seq(Nat))
          BY <4>3
        <4>5. Append(f[i - 1], FrameFrom(bytes, i, m)) \in Seq(Seq(Nat))
          BY <4>2, <4>4
        <4>6. QED
          BY <3>2, <4>5 DEF FramesUpTo, i
      <3>3. QED
        BY <3>1, <3>2
    <2> HIDE DEF last
    <2>3. /\ h \in [0..m -> Seq(Seq(Nat))]
          /\ h[m] = last
          /\ \A j \in 0..(m - 1) : h[j] = f[j]
      <3>1. \A j \in 0..m : j # m => j \in 0..(m - 1)
        BY <1>1
      <3>2. QED
        BY <2>2, <3>1
    <2> HIDE DEF h
    <2>4. \A j \in 0..m : FramesUpTo(bytes, h, j) = FramesUpTo(bytes, f, j)
      <3>1. ASSUME NEW j \in 0..m
            PROVE  FramesUpTo(bytes, h, j) = FramesUpTo(bytes, f, j)
        <4>1. CASE Starts(bytes, j) = {}
          BY <4>1 DEF FramesUpTo
        <4>2. CASE Starts(bytes, j) # {}
          <5>1. Max(Starts(bytes, j)) \in 1..j
            BY <4>2, <1>1, StartFacts
          <5>2. Max(Starts(bytes, j)) - 1 \in 0..(m - 1)
            BY <5>1
          <5>3. QED
            BY <2>3, <4>2, <5>2 DEF FramesUpTo
        <4>3. QED
          BY <4>1, <4>2
      <3>2. QED
        BY <3>1
    <2>5. \A j \in 0..m : h[j] = FramesUpTo(bytes, h, j)
      <3>1. \A j \in 0..m : j # m => j \in 0..(m - 1)
        BY <1>1
      <3>2. QED
        BY <2>1, <2>3, <2>4, <3>1 DEF last
    <2>6. \E g \in [0..m -> Seq(Seq(Nat))] :
             \A j \in 0..m : g[j] = FramesUpTo(bytes, g, j)
      BY <2>3, <2>5
    <2>7. m \in 0..n
      BY <1>1
    <2>8. QED
      BY <2>6, <2>7
  <1> HIDE DEF G
  <1>4. 0..n \subseteq G
    BY <1>1, <1>2, <1>3, CountingUp
  <1>5. n \in G
    BY <1>1, <1>4
  <1>6. QED
    BY <1>5 DEF G, IsFramesUpTo

(* Two that agree on the bytes agree on the frames.                        *)
LEMMA SameFrames ==
    ASSUME NEW bytes \in Seq(Nat), NEW n \in 0..Len(bytes),
           NEW f, IsFramesUpTo(bytes, f, n), NEW g, IsFramesUpTo(bytes, g, n)
    PROVE  \A j \in 0..n : f[j] = g[j]
  <1> DEFINE G == {m \in 0..n : \A j \in 0..m : f[j] = g[j]}
  <1>0. n \in Nat
    OBVIOUS
  <1>a. \A j \in 0..n : /\ f[j] = FramesUpTo(bytes, f, j)
                        /\ g[j] = FramesUpTo(bytes, g, j)
    BY DEF IsFramesUpTo
  <1>1. 0 \in G
    <2>1. Starts(bytes, 0) = {}
      BY DEF Starts
    <2>2. 0 \in 0..n /\ f[0] = g[0]
      BY <1>a, <2>1 DEF FramesUpTo
    <2>3. QED
      BY <2>2
  <1>2. ASSUME NEW m \in 1..n, m - 1 \in G PROVE m \in G
    <2>1. \A j \in 0..(m - 1) : f[j] = g[j]
      BY <1>2
    <2>2. FramesUpTo(bytes, f, m) = FramesUpTo(bytes, g, m)
      <3>1. CASE Starts(bytes, m) = {}
        BY <3>1 DEF FramesUpTo
      <3>2. CASE Starts(bytes, m) # {}
        <4>1. m \in 0..Len(bytes)
          BY <1>0
        <4>2. Max(Starts(bytes, m)) \in 1..m
          BY <3>2, <4>1, StartFacts
        <4>3. Max(Starts(bytes, m)) - 1 \in 0..(m - 1)
          BY <4>2
        <4>4. QED
          BY <2>1, <3>2, <4>3 DEF FramesUpTo
      <3>3. QED
        BY <3>1, <3>2
    <2>3. m \in 0..n /\ f[m] = g[m]
      BY <1>a, <2>2
    <2>4. \A j \in 0..m : f[j] = g[j]
      <3>1. \A j \in 0..m : j # m => j \in 0..(m - 1)
        OBVIOUS
      <3>2. QED
        BY <2>1, <2>3, <3>1
    <2>5. QED
      BY <2>3, <2>4
  <1> HIDE DEF G
  <1>3. 0..n \subseteq G
    BY <1>0, <1>1, <1>2, CountingUp
  <1>4. n \in G
    BY <1>0, <1>3
  <1>5. QED
    BY <1>4 DEF G

LEMMA FramesIs ==
    ASSUME NEW bytes \in Seq(Nat)
    PROVE  \E f \in [0..Len(bytes) -> Seq(Seq(Nat))] :
             /\ IsFramesUpTo(bytes, f, Len(bytes))
             /\ frames(bytes) = f[Len(bytes)]
  <1> DEFINE n == Len(bytes)
             Is(f) == f = [j \in 0..n |->
                        IF Starts(bytes, j) = {} THEN <<>>
                        ELSE Append(f[Max(Starts(bytes, j)) - 1],
                               FrameFrom(bytes, Max(Starts(bytes, j)), j))]
             upto == CHOOSE f : Is(f)
  <1>1. PICK f \in [0..n -> Seq(Seq(Nat))] : IsFramesUpTo(bytes, f, n)
    BY FramesExist
  <1>2. Is(f)
    <2>1. f = [j \in 0..n |-> f[j]]
      BY <1>1
    <2>2. QED
      BY <1>1, <2>1 DEF FramesUpTo, IsFramesUpTo
  <1>3. Is(upto)
    BY <1>2
  <1>4. frames(bytes) = upto[n]
    BY DEF frames
  <1>5. IsFramesUpTo(bytes, upto, n)
    BY <1>3 DEF FramesUpTo, IsFramesUpTo
  <1> HIDE DEF Is, upto
  <1>6. n \in 0..Len(bytes)
    OBVIOUS
  <1>7. \A j \in 0..n : f[j] = upto[j]
    BY <1>1, <1>5, <1>6, SameFrames
  <1>8. QED
    BY <1>1, <1>4, <1>6, <1>7

(* Pieces of a sequence that has one more.                                 *)
LEMMA OneMore ==
    \A s \in Seq(Nat), b \in Nat :
      /\ Append(s, b) \in Seq(Nat)
      /\ Append(s, b) # <<>>
      /\ Len(Append(s, b)) = Len(s) + 1
      /\ Append(s, b)[Len(s) + 1] = b
      /\ \A i \in 1..Len(s) : Append(s, b)[i] = s[i]
  BY AppendProperties

LEMMA SamePieces ==
    ASSUME NEW S, NEW s \in Seq(S), NEW b \in S,
           NEW i \in 1..Len(s), NEW e \in 1..Len(s)
    PROVE  SubSeq(Append(s, b), i, e) = SubSeq(s, i, e)
  <1>1. <<b>> \in Seq(S) /\ Append(s, b) = s \o <<b>>
    BY AppendIsConcat
  <1>2. SubSeq(s \o <<b>>, i, e) = SubSeq(s, i, e)
    BY <1>1, SubSeqOfConcat1
  <1>3. QED
    BY <1>1, <1>2

LEMMA PieceAndOne ==
    ASSUME NEW S, NEW s \in Seq(S), NEW b \in S, NEW i \in 1..Len(s)
    PROVE  SubSeq(Append(s, b), i, Len(s) + 1) =
             Append(SubSeq(s, i, Len(s)), b)
  <1> DEFINE n == Len(s)
             t == Append(s, b)
  <1>1. /\ n \in Nat /\ t \in Seq(S) /\ Len(t) = n + 1 /\ t[n + 1] = b
        /\ i \in 1..(n + 1) /\ n + 1 \in i..(n + 1) /\ n \in 1..n
        /\ (n + 1) - 1 = n
    OBVIOUS
  <1>2. SubSeq(t, i, n) = SubSeq(s, i, n)
    BY <1>1, SamePieces
  <1> HIDE DEF t
  <1>3. SubSeq(t, i, n + 1) = SubSeq(t, i, (n + 1) - 1) \o <<t[n + 1]>>
    BY <1>1, SubSeqRecursiveSecond
  <1>4. SubSeq(s, i, n) \in Seq(S)
    BY <1>1
  <1>5. Append(SubSeq(s, i, n), b) = SubSeq(s, i, n) \o <<b>>
    BY <1>4, AppendIsConcat
  <1>6. QED
    BY <1>1, <1>2, <1>3, <1>5 DEF t

LEMMA LastPiece ==
    ASSUME NEW S, NEW s \in Seq(S), NEW b \in S
    PROVE  SubSeq(Append(s, b), Len(s) + 1, Len(s) + 1) = <<b>>
  <1> DEFINE n == Len(s)
             t == Append(s, b)
  <1>1. /\ n \in Nat /\ t \in Seq(S) /\ Len(t) = n + 1 /\ t[n + 1] = b
        /\ n + 1 \in 1..(n + 1) /\ n + 1 \in (n + 1)..(n + 1)
    OBVIOUS
  <1> HIDE DEF t, n
  <1>2. SubSeq(t, n + 1, n + 1) = <<t[n + 1]>> \o SubSeq(t, n + 1 + 1, n + 1)
    BY <1>1, SubSeqRecursiveFirst
  <1>3. SubSeq(t, n + 1 + 1, n + 1) = <<>>
    BY <1>1, SubSeqEmpty
  <1>4. <<b>> \o <<>> = <<b>>
    OBVIOUS
  <1>5. QED
    BY <1>1, <1>2, <1>3, <1>4 DEF t, n

(* A byte more changes nothing of what came before.                        *)
LEMMA SameBefore ==
    ASSUME NEW bytes \in Seq(Nat), NEW b \in Nat
    PROVE  /\ \A j \in 0..Len(bytes) :
                Starts(Append(bytes, b), j) = Starts(bytes, j)
           /\ \A j \in 1..Len(bytes) : \A i \in 1..j :
                /\ EndsOf(Append(bytes, b), i, j) = EndsOf(bytes, i, j)
                /\ FrameFrom(Append(bytes, b), i, j) = FrameFrom(bytes, i, j)
           /\ \A f : IsFramesUpTo(Append(bytes, b), f, Len(bytes) + 1) =>
                       IsFramesUpTo(bytes, f, Len(bytes))
  <1> DEFINE n == Len(bytes)
             more == Append(bytes, b)
  <1>1. /\ n \in Nat /\ more \in Seq(Nat) /\ Len(more) = n + 1
        /\ \A i \in 1..n : more[i] = bytes[i]
    OBVIOUS
  <1> HIDE DEF more
  <1>2. ASSUME NEW j \in 0..n PROVE Starts(more, j) = Starts(bytes, j)
    <2>1. \A i \in 1..j : more[i] = bytes[i]
      BY <1>1
    <2>2. QED
      BY <2>1 DEF Starts
  <1>3. ASSUME NEW j \in 1..n, NEW i \in 1..j
        PROVE  /\ EndsOf(more, i, j) = EndsOf(bytes, i, j)
               /\ FrameFrom(more, i, j) = FrameFrom(bytes, i, j)
    <2>1. EndsOf(more, i, j) = EndsOf(bytes, i, j)
      <3>0. \A e \in i..j : e \in 1..n
        BY <1>1
      <3>1. \A e \in i..j : more[e] = bytes[e]
        BY <1>1, <3>0
      <3>2. QED
        BY <3>1 DEF EndsOf
    <2>2. StopOf(more, i, j) = StopOf(bytes, i, j)
      BY <2>1 DEF StopOf, EndsOf
    <2>3. StopOf(bytes, i, j) \in i..j
      BY FrameFromIs
    <2> DEFINE s == StopOf(bytes, i, j)
    <2>4. SubSeq(more, i, s) = SubSeq(bytes, i, s)
      <3>1. s \in 1..n /\ i \in 1..n
        BY SMTT(30), <1>1, <2>3
      <3> HIDE DEF s
      <3>2. QED
        BY <3>1, SamePieces DEF more
    <2>5. QED
      BY <2>1, <2>2, <2>4 DEF FrameFrom
  <1>4. ASSUME NEW f, IsFramesUpTo(more, f, n + 1)
        PROVE  IsFramesUpTo(bytes, f, n)
    <2>1. ASSUME NEW j \in 0..n PROVE f[j] = FramesUpTo(bytes, f, j)
      <3>1. j \in 0..(n + 1) /\ f[j] = FramesUpTo(more, f, j)
        BY <1>1, <1>4 DEF IsFramesUpTo
      <3>2. Starts(more, j) = Starts(bytes, j)
        BY <1>2
      <3>3. CASE Starts(bytes, j) = {}
        BY <3>1, <3>2, <3>3 DEF FramesUpTo
      <3>4. CASE Starts(bytes, j) # {}
        <4> DEFINE i == Max(Starts(bytes, j))
        <4>1. i \in 1..j
          BY <3>4, StartFacts
        <4> HIDE DEF i
        <4>2. j \in 1..n
          BY <1>1, <4>1
        <4>3. FrameFrom(more, i, j) = FrameFrom(bytes, i, j)
          BY <1>3, <4>1, <4>2
        <4>4. QED
          BY <3>1, <3>2, <3>4, <4>3 DEF FramesUpTo, i
      <3>5. QED
        BY <3>3, <3>4
    <2>2. QED
      BY <2>1 DEF IsFramesUpTo
  <1>5. QED
    BY <1>2, <1>3, <1>4 DEF more

(* Another F0 begins a frame.                                              *)
LEMMA FrameBegins ==
    ASSUME NEW bytes \in Seq(Nat)
    PROVE  LET more == Append(bytes, SYSEX_START)
           IN /\ frames(more) = Append(frames(bytes), <<SYSEX_START>>)
              /\ IsOpen(more)
              /\ LastFrame(more) = <<SYSEX_START>>
  <1> DEFINE n == Len(bytes)
             more == Append(bytes, SYSEX_START)
  <1>0. SYSEX_START \in Nat /\ SYSEX_START < REALTIME_MIN
        /\ SYSEX_START # SYSEX_END
    BY DEF SYSEX_START, REALTIME_MIN, SYSEX_END
  <1>1. /\ n \in Nat /\ more \in Seq(Nat) /\ Len(more) = n + 1
        /\ more[n + 1] = SYSEX_START
    BY <1>0
  <1>2. n + 1 \in Starts(more, n + 1)
    BY <1>1 DEF Starts
  <1>3. Starts(more, n + 1) \in SUBSET Int
        /\ \A i \in Starts(more, n + 1) : n + 1 >= i
    BY <1>1 DEF Starts
  <1>4. PICK f \in [0..n -> Seq(Seq(Nat))] :
           IsFramesUpTo(bytes, f, n) /\ frames(bytes) = f[n]
    BY FramesIs
  <1>5. PICK g \in [0..Len(more) -> Seq(Seq(Nat))] :
           IsFramesUpTo(more, g, Len(more)) /\ frames(more) = g[Len(more)]
    BY <1>1, FramesIs
  <1> HIDE DEF more
  <1>6. Max(Starts(more, n + 1)) = n + 1
    BY <1>2, <1>3, MaxIs
  <1>7. IsFramesUpTo(bytes, g, n)
    BY <1>0, <1>1, <1>5, SameBefore DEF more
  <1>8. g[n] = f[n]
    <2>1. n \in 0..Len(bytes) /\ n \in 0..n
      BY <1>1
    <2>2. \A j \in 0..n : f[j] = g[j]
      BY ZenonT(30), <1>4, <1>7, <2>1, SameFrames
    <2>3. QED
      BY <2>1, <2>2
  <1>9. FrameFrom(more, n + 1, n + 1) = <<SYSEX_START>>
    <2>1. StopOf(more, n + 1, n + 1) = n + 1
      <3>1. n + 1 \in 1..Len(more) /\ n + 1 \in 1..(n + 1)
        BY <1>1
      <3>2. StopOf(more, n + 1, n + 1) \in (n + 1)..(n + 1)
        BY <1>1, <3>1, FrameFromIs
      <3>3. QED
        BY <1>1, <3>2
    <2>2. SubSeq(more, n + 1, n + 1) = <<SYSEX_START>>
      BY <1>0, LastPiece DEF more
    <2>3. WithoutRealtime(<<SYSEX_START>>) = <<SYSEX_START>>
      <3>1. <<>> \in Seq(Nat) /\ Append(<<>>, SYSEX_START) = <<SYSEX_START>>
        OBVIOUS
      <3>2. WithoutRealtime(Append(<<>>, SYSEX_START)) =
               Append(WithoutRealtime(<<>>), SYSEX_START)
        BY <1>0, <3>1, OneMoreKept
      <3>3. QED
        BY <3>1, <3>2, NoneKept
    <2>4. QED
      BY <2>1, <2>2, <2>3 DEF FrameFrom
  <1>10. frames(more) = Append(frames(bytes), <<SYSEX_START>>)
    <2>1. n + 1 \in 0..(n + 1) /\ (n + 1) - 1 = n
      BY <1>1
    <2>2. g[n + 1] = FramesUpTo(more, g, n + 1)
      BY <1>1, <1>5, <2>1 DEF IsFramesUpTo
    <2>3. g[n + 1] = Append(g[n], <<SYSEX_START>>)
      BY <1>2, <1>6, <1>9, <2>1, <2>2 DEF FramesUpTo
    <2>4. QED
      BY <1>1, <1>4, <1>5, <1>8, <2>3
  <1>11. LastFrame(more) = <<SYSEX_START>>
    BY <1>1, <1>6, <1>9 DEF LastFrame, LastStart
  <1>12. IsOpen(more)
    <2>1. EndsOf(more, n + 1, n + 1) = {}
      BY <1>0, <1>1 DEF EndsOf
    <2>2. QED
      BY <1>1, <1>2, <1>6, <2>1 DEF IsOpen, HasFrame, LastStart
  <1>13. QED
    BY <1>10, <1>11, <1>12 DEF more

(* Any other byte is one more of the last frame, when that is open and the *)
(* byte not a real-time one; an F7 closes it.                              *)
LEMMA FrameGoesOn ==
    ASSUME NEW bytes \in Seq(Nat), NEW b \in Nat, b # SYSEX_START
    PROVE  LET more == Append(bytes, b)
           IN /\ HasFrame(more) <=> HasFrame(bytes)
              /\ ~HasFrame(bytes) => frames(more) = frames(bytes)
              /\ HasFrame(bytes) => \E before \in Seq(Seq(Nat)) :
                   /\ frames(bytes) = Append(before, LastFrame(bytes))
                   /\ frames(more) = Append(before, LastFrame(more))
              /\ HasFrame(bytes) => LastFrame(bytes) \in Seq(Nat)
              /\ IsOpen(more) <=> IsOpen(bytes) /\ b # SYSEX_END
              /\ HasFrame(bytes) => LastFrame(more) =
                   IF IsOpen(bytes) /\ b < REALTIME_MIN
                   THEN Append(LastFrame(bytes), b) ELSE LastFrame(bytes)
  <1> DEFINE n == Len(bytes)
             more == Append(bytes, b)
  <1>1. /\ n \in Nat /\ more \in Seq(Nat) /\ Len(more) = n + 1
        /\ more[n + 1] = b
        /\ \A i \in 1..n : more[i] = bytes[i]
    OBVIOUS
  <1>2. PICK f \in [0..n -> Seq(Seq(Nat))] :
           IsFramesUpTo(bytes, f, n) /\ frames(bytes) = f[n]
    BY FramesIs
  <1>3. PICK g \in [0..Len(more) -> Seq(Seq(Nat))] :
           IsFramesUpTo(more, g, Len(more)) /\ frames(more) = g[Len(more)]
    BY <1>1, FramesIs
  <1> HIDE DEF more
  <1>4. Starts(more, n + 1) = Starts(bytes, n)
    <2>1. \A i \in 1..(n + 1) : i # n + 1 => i \in 1..n
      BY <1>1
    <2>2. \A i \in 1..n : i \in 1..(n + 1)
      BY <1>1
    <2>3. QED
      BY <1>1, <2>1, <2>2 DEF Starts
  <1>5. IsFramesUpTo(bytes, g, n)
    BY <1>1, <1>3, SameBefore DEF more
  <1>6. \A j \in 0..n : f[j] = g[j]
    <2>1. n \in 0..Len(bytes)
      BY <1>1
    <2>2. QED
      BY ZenonT(30), <1>2, <1>5, <2>1, SameFrames
  <1>7. f[n] = FramesUpTo(bytes, f, n)
        /\ g[n + 1] = FramesUpTo(more, g, n + 1)
    <2>1. n \in 0..n /\ n + 1 \in 0..(n + 1)
      BY <1>1
    <2>2. QED
      BY <1>1, <1>2, <1>3, <2>1 DEF IsFramesUpTo
  <1>8. CASE ~HasFrame(bytes)
    BY <1>1, <1>2, <1>3, <1>4, <1>7, <1>8
       DEF HasFrame, FramesUpTo, IsOpen, more
  <1>9. CASE HasFrame(bytes)
    <2> DEFINE i == LastStart(bytes)
    <2>1. i \in 1..n
      <3>1. n \in 0..Len(bytes)
        BY <1>1
      <3>2. QED
        BY <1>9, <3>1, StartFacts DEF HasFrame, LastStart
    <2>2. HasFrame(more) /\ LastStart(more) = i
      BY <1>1, <1>4, <1>9 DEF HasFrame, LastStart
    <2>3. /\ frames(bytes) = Append(f[i - 1], LastFrame(bytes))
          /\ frames(more) = Append(g[i - 1], LastFrame(more))
      BY <1>1, <1>2, <1>3, <1>4, <1>7, <1>9, <2>2
         DEF HasFrame, FramesUpTo, LastFrame, LastStart
    <2>4. i - 1 \in 0..n
      BY <1>1, <2>1
    <2> HIDE DEF i
    <2>5. f[i - 1] \in Seq(Seq(Nat)) /\ f[i - 1] = g[i - 1]
      BY <1>2, <1>6, <2>4
    <2>6. LastFrame(bytes) \in Seq(Nat)
      <3>1. n \in 1..Len(bytes)
        BY <1>1, <2>1
      <3>2. QED
        BY <2>1, <3>1, FrameFromIs DEF LastFrame, i
    <2>7. EndsOf(more, i, n + 1) =
             EndsOf(bytes, i, n) \cup (IF b = SYSEX_END THEN {n + 1} ELSE {})
      <3>0. i \in Nat /\ 1 <= i
        BY <1>1, <2>1
      <3>1. \A e \in i..(n + 1) : e # n + 1 => e \in i..n /\ e \in 1..n
        BY <1>1, <3>0
      <3>2. n + 1 \in i..(n + 1) /\ n + 1 \notin i..n
            /\ \A e \in i..n : e \in i..(n + 1) /\ e \in 1..n
        BY <1>1, <2>1
      <3>3. QED
        BY <1>1, <3>1, <3>2 DEF EndsOf
    <2>8. IsOpen(more) <=> IsOpen(bytes) /\ b # SYSEX_END
      BY <1>1, <1>9, <2>2, <2>7 DEF IsOpen, i
    <2>9. CASE ~IsOpen(bytes)
      <3> DEFINE E == EndsOf(bytes, i, n)
                 e == Min({n} \cup E)
      <3>1. E # {} /\ E \in SUBSET (i..n)
        BY <1>9, <2>9 DEF IsOpen, EndsOf, i
      <3>2. {n} \cup E \in SUBSET Nat
        BY <1>1, <2>1, <3>1
      <3> HIDE DEF E
      <3>3. e \in {n} \cup E /\ \A k \in {n} \cup E : e <= k
        BY <3>2, MinFacts
      <3> HIDE DEF e
      <3>4. e \in i..n
        <4>1. n \in i..n
          BY <1>1, <2>1
        <4>2. QED
          BY <3>1, <3>3, <4>1
      <3>5. e \in E
        <4>1. PICK k \in E : k \in i..n /\ e <= k
          BY <3>1, <3>3
        <4>2. CASE e = n
          BY <4>1, <4>2, <1>1, <3>4
        <4>3. QED
          BY <3>3, <4>2
      <3>6. StopOf(more, i, n + 1) = e
        <4> DEFINE T == {n + 1} \cup EndsOf(more, i, n + 1)
        <4>1. e \in T
          BY <2>7, <3>5 DEF E
        <4>2. \A k \in T : e <= k
          BY <1>1, <2>7, <3>3, <3>4 DEF E
        <4>3. T \in SUBSET Int
          BY <1>1, <2>1 DEF EndsOf
        <4> HIDE DEF T
        <4>4. Min(T) = e
          BY <4>1, <4>2, <4>3, MinIs
        <4>5. QED
          BY <4>4 DEF StopOf, T, EndsOf
      <3>7. StopOf(bytes, i, n) = e
        BY DEF StopOf, e, E, EndsOf
      <3>8. SubSeq(more, i, e) = SubSeq(bytes, i, e)
        <4>1. e \in 1..n /\ i \in 1..n
          BY <1>1, <2>1, <3>4
        <4>2. QED
          BY <4>1, SamePieces DEF more
      <3>9. LastFrame(more) = LastFrame(bytes)
        BY <1>1, <2>2, <3>6, <3>7, <3>8 DEF LastFrame, FrameFrom, i
      <3>10. QED
        BY <1>9, <2>2, <2>3, <2>5, <2>6, <2>8, <2>9, <3>9 DEF more
    <2>10. CASE IsOpen(bytes)
      <3>1. EndsOf(bytes, i, n) = {}
        BY <2>10 DEF IsOpen, i
      <3>2. StopOf(more, i, n + 1) = n + 1
        <4> DEFINE T == {n + 1} \cup EndsOf(more, i, n + 1)
        <4>1. T = {n + 1}
          BY <2>7, <3>1
        <4>2. T \in SUBSET Int /\ n + 1 \in T /\ \A k \in T : n + 1 <= k
          BY <1>1, <4>1
        <4> HIDE DEF T
        <4>3. Min(T) = n + 1
          BY <4>2, MinIs
        <4>4. QED
          BY <4>3 DEF StopOf, T, EndsOf
      <3>3. StopOf(bytes, i, n) = n
        <4> DEFINE T == {n} \cup EndsOf(bytes, i, n)
        <4>1. T = {n}
          BY <3>1
        <4>2. T \in SUBSET Int /\ n \in T /\ \A k \in T : n <= k
          BY <1>1, <4>1
        <4> HIDE DEF T
        <4>3. Min(T) = n
          BY <4>2, MinIs
        <4>4. QED
          BY <4>3 DEF StopOf, T, EndsOf
      <3>4. SubSeq(more, i, n + 1) = Append(SubSeq(bytes, i, n), b)
        BY <2>1, PieceAndOne DEF more
      <3>5. SubSeq(bytes, i, n) \in Seq(Nat)
        BY <1>1, <2>1
      <3>6. WithoutRealtime(Append(SubSeq(bytes, i, n), b)) =
               IF b < REALTIME_MIN
               THEN Append(WithoutRealtime(SubSeq(bytes, i, n)), b)
               ELSE WithoutRealtime(SubSeq(bytes, i, n))
        BY <3>5, OneMoreKept
      <3>7. LastFrame(more) = IF b < REALTIME_MIN
                              THEN Append(LastFrame(bytes), b)
                              ELSE LastFrame(bytes)
        BY <1>1, <2>2, <3>2, <3>3, <3>4, <3>6 DEF LastFrame, FrameFrom, i
      <3>8. QED
        BY <1>9, <2>2, <2>3, <2>5, <2>6, <2>8, <2>10, <3>7 DEF more
    <2>11. QED
      BY <2>9, <2>10
  <1>10. QED
    BY <1>8, <1>9

-----------------------------------------------------------------------------
(* The assembler: its state, and what a byte does to each part of it.      *)

WireBytes == {b \in Nat : b \in 128..239 => b % 16 \in Channels}
Running ==
    {c \in [status : {0} \cup 128..239, data : Seq(SevenBit)] :
       c.status \in WireBytes /\ Len(c.data) < Needs(c.status)}
Sayings ==
    {e \in [channel : Channels, kind : {11, 12}, data : Seq(SevenBit)] :
       e.kind = 11 => Len(e.data) = 2}
Assemblers == [sysex : Seq(Nat), channel : Running, frames : Seq(Seq(Nat)),
               said : Seq(Sayings)]

LEMMA Limits ==
    /\ SYSEX_START = 240 /\ SYSEX_END = 247 /\ REALTIME_MIN = 248
    /\ MAX_FRAME_LEN \in Nat /\ MAX_FRAME_LEN > 0
    /\ MAX_CONTROLS \in Nat /\ MAX_EVENTS \in Nat
  BY SysexAssumption, WireAssumption
     DEF SYSEX_START, SYSEX_END, REALTIME_MIN

LEMMA DataFacts ==
    ASSUME NEW a \in Assemblers, NEW b \in Nat
    PROVE  data(a, b).sysex = a.sysex /\ data(a, b).frames = a.frames
  BY DEF data, Assemblers

LEMMA ByteFacts ==
    ASSUME NEW a \in Assemblers, NEW b \in Nat
    PROVE  /\ byte(a, b).sysex =
                IF b >= REALTIME_MIN THEN a.sysex
                ELSE IF b = SYSEX_START THEN <<b>>
                ELSE IF \/ a.sysex = <<>> \/ b >= 128
                        \/ Len(a.sysex) >= MAX_FRAME_LEN
                THEN <<>> ELSE Append(a.sysex, b)
           /\ byte(a, b).frames =
                IF b = SYSEX_END /\ a.sysex # <<>>
                THEN Append(a.frames, Append(a.sysex, b)) ELSE a.frames
           /\ byte(a, b).channel =
                IF b >= REALTIME_MIN THEN a.channel
                ELSE IF b = SYSEX_START THEN NoChannel
                ELSE IF a.sysex # <<>> /\ (b < 128 \/ b = SYSEX_END)
                THEN a.channel
                ELSE IF b >= 128 THEN status(b) ELSE data(a, b).channel
           /\ byte(a, b).said =
                IF a.sysex = <<>> /\ b < 128 THEN data(a, b).said ELSE a.said
  <1>1. a = [sysex |-> a.sysex, channel |-> a.channel, frames |-> a.frames,
             said |-> a.said] /\ a.sysex \in Seq(Nat)
    BY DEF Assemblers
  <1>2. a.sysex \o <<b>> = Append(a.sysex, b)
    BY <1>1, AppendIsConcat
  <1>3. CASE b >= REALTIME_MIN
    BY <1>3, Limits DEF byte
  <1>4. CASE b < REALTIME_MIN /\ b = SYSEX_START
    BY <1>1, <1>4, Limits DEF byte
  <1>5. CASE b < REALTIME_MIN /\ b # SYSEX_START /\ a.sysex = <<>>
    BY <1>1, <1>5, Limits, DataFacts DEF byte
  <1>6. CASE b < REALTIME_MIN /\ b # SYSEX_START /\ a.sysex # <<>>
    <2>1. CASE b = SYSEX_END
      <3>1. byte(a, b) = [a EXCEPT !.sysex = <<>>,
                            !.frames = Append(@, a.sysex \o <<b>>)]
        BY <1>6, <2>1, Limits DEF byte
      <3>2. QED
        BY <1>1, <1>2, <1>6, <2>1, <3>1, Limits
    <2>2. CASE b # SYSEX_END /\ b >= 128
      <3>1. byte(a, b) = [a EXCEPT !.sysex = <<>>, !.channel = status(b)]
        BY <1>6, <2>2, Limits DEF byte
      <3>2. QED
        BY <1>1, <1>6, <2>2, <3>1, Limits
    <2>3. CASE b < 128 /\ Len(a.sysex) >= MAX_FRAME_LEN
      <3>1. byte(a, b) = [a EXCEPT !.sysex = <<>>]
        BY <1>6, <2>3, Limits DEF byte
      <3>2. QED
        BY <1>1, <1>6, <2>3, <3>1, Limits
    <2>4. CASE b < 128 /\ ~(Len(a.sysex) >= MAX_FRAME_LEN)
      <3>1. byte(a, b) = [a EXCEPT !.sysex = Append(@, b)]
        BY <1>6, <2>4, Limits DEF byte
      <3>2. QED
        BY <1>1, <1>6, <2>4, <3>1, Limits
    <2>5. QED
      BY <2>1, <2>2, <2>3, <2>4, Limits
  <1>7. QED
    BY <1>3, <1>4, <1>5, <1>6, Limits

LEMMA DataTypes ==
    ASSUME NEW a \in Assemblers, NEW b \in SevenBit
    PROVE  /\ data(a, b).channel \in Running
           /\ data(a, b).said \in Seq(Sayings)
  <1> DEFINE c == [a.channel EXCEPT !.data = Append(@, b)]
             event == [channel |-> c.status % 16, kind |-> c.status \div 16,
                       data |-> c.data]
  <1>1. /\ a.channel \in Running /\ a.said \in Seq(Sayings)
        /\ a = [sysex |-> a.sysex, channel |-> a.channel,
                frames |-> a.frames, said |-> a.said]
    BY DEF Assemblers
  <1>2. /\ a.channel.status \in {0} \cup 128..239
        /\ a.channel.data \in Seq(SevenBit)
        /\ a.channel.status \in WireBytes
        /\ Len(a.channel.data) < Needs(a.channel.status)
        /\ a.channel = [status |-> a.channel.status, data |-> a.channel.data]
    BY <1>1 DEF Running
  <1>3. /\ c.status = a.channel.status
        /\ c.data = Append(a.channel.data, b)
        /\ c = [status |-> c.status, data |-> c.data]
    <2>1. a.channel = [status |-> a.channel.status, data |-> a.channel.data]
      BY <1>2
    <2>2. QED
      BY <2>1
  <1> HIDE DEF c
  <1>4. c.data \in Seq(SevenBit) /\ Len(c.data) = Len(a.channel.data) + 1
    BY <1>2, <1>3
  <1>5. CASE c.status = 0
    BY <1>1, <1>3, <1>5 DEF data, c
  <1>6. CASE c.status # 0 /\ ~(Len(c.data) >= Needs(c.status))
    <2>1. Needs(c.status) \in {1, 2}
      BY DEF Needs
    <2>2. c \in Running
      BY <1>2, <1>3, <1>4, <1>6, <2>1 DEF Running
    <2>3. data(a, b) = [a EXCEPT !.channel = c]
      BY <1>3, <1>6 DEF data, c
    <2>4. QED
      BY <1>1, <2>2, <2>3
  <1>7. CASE c.status # 0 /\ Len(c.data) >= Needs(c.status)
    <2>1. Needs(c.status) \in {1, 2}
      BY DEF Needs
    <2> DEFINE d == [c EXCEPT !.data = <<>>]
    <2>2. d \in Running
      <3>1. d = [status |-> c.status, data |-> <<>>]
        BY <1>3
      <3>2. <<>> \in Seq(SevenBit) /\ Len(<<>>) = 0
        OBVIOUS
      <3> DEFINE e == [status |-> c.status, data |-> <<>>]
      <3>3. e \in [status : {0} \cup 128..239, data : Seq(SevenBit)]
        BY <1>2, <1>3, <3>2
      <3>4. e.status \in WireBytes /\ Len(e.data) < Needs(e.status)
        BY <1>2, <1>3, <2>1, <3>2
      <3> HIDE DEF e
      <3>5. e \in Running
        BY <3>3, <3>4 DEF Running
      <3>6. QED
        BY <3>1, <3>5 DEF e
    <2>3. data(a, b) = [a EXCEPT !.channel = d,
                                 !.said = IF event.kind \in {11, 12}
                                          THEN Append(@, event) ELSE @]
      BY <1>3, <1>7 DEF data, c
    <2> HIDE DEF d
    <2>4. /\ data(a, b).channel = d
          /\ data(a, b).said = IF event.kind \in {11, 12}
                               THEN Append(a.said, event) ELSE a.said
      BY <1>1, <2>3
    <2>5. event.kind \in {11, 12} => event \in Sayings
      <3>1. c.status \in 128..239 /\ c.status % 16 \in Channels
        BY <1>2, <1>3, <1>7 DEF WireBytes
      <3>2. event.kind = 11 => Len(c.data) = 2
        <4>1. c.status \div 16 = 11 => Needs(c.status) = 2
          BY DEF Needs
        <4>2. QED
          BY <1>2, <1>3, <1>4, <1>7, <4>1
      <3>3. QED
        BY <1>4, <3>1, <3>2 DEF Sayings
    <2>6. QED
      BY <1>1, <2>2, <2>4, <2>5
  <1>8. QED
    BY <1>5, <1>6, <1>7

LEMMA ByteTypes ==
    ASSUME NEW a \in Assemblers, NEW b \in WireBytes
    PROVE  byte(a, b) \in Assemblers
  <1>0. b \in Nat
    BY DEF WireBytes
  <1>1. /\ b \in Nat /\ a.sysex \in Seq(Nat) /\ a.channel \in Running
        /\ a.frames \in Seq(Seq(Nat)) /\ a.said \in Seq(Sayings)
    BY <1>0 DEF Assemblers
  <1> DEFINE r == byte(a, b)
  <1>2. r = [sysex |-> r.sysex, channel |-> r.channel, frames |-> r.frames,
             said |-> r.said]
    <2>1. a = [sysex |-> a.sysex, channel |-> a.channel,
               frames |-> a.frames, said |-> a.said]
      BY DEF Assemblers
    <2>2. QED
      BY <2>1 DEF byte, data
  <1> HIDE DEF r
  <1>3. r.sysex \in Seq(Nat) /\ r.frames \in Seq(Seq(Nat))
    <2>1. /\ <<b>> \in Seq(Nat) /\ <<>> \in Seq(Nat)
          /\ Append(a.sysex, b) \in Seq(Nat)
      BY <1>1
    <2>2. Append(a.frames, Append(a.sysex, b)) \in Seq(Seq(Nat))
      BY <1>1, <2>1
    <2>3. r.sysex \in {a.sysex, <<b>>, <<>>, Append(a.sysex, b)}
      BY <1>1, ByteFacts DEF r
    <2>4. r.frames \in {a.frames, Append(a.frames, Append(a.sysex, b))}
      BY <1>1, ByteFacts DEF r
    <2> DEFINE more == Append(a.frames, Append(a.sysex, b))
    <2> HIDE DEF more
    <2>5. more \in Seq(Seq(Nat)) /\ r.frames \in {a.frames, more}
      BY <2>2, <2>4 DEF more
    <2>6. r.frames \in Seq(Seq(Nat))
      BY <1>1, <2>5
    <2>7. r.sysex \in Seq(Nat)
      BY <1>1, <2>1, <2>3
    <2>8. QED
      BY <2>6, <2>7
  <1>4. r.channel \in Running /\ r.said \in Seq(Sayings)
    <2>1. NoChannel \in Running
      <3>1. <<>> \in Seq(SevenBit) /\ Len(<<>>) = 0
        OBVIOUS
      <3>2. 0 \in WireBytes /\ Needs(0) = 2
        BY DEF WireBytes, Needs
      <3>3. QED
        BY <3>1, <3>2 DEF NoChannel, Running
    <2>2. status(b) \in Running
      <3>1. <<>> \in Seq(SevenBit) /\ Len(<<>>) = 0
        OBVIOUS
      <3>2. Needs(b) \in {1, 2}
        BY DEF Needs
      <3>3. QED
        BY <2>1, <3>1, <3>2 DEF status, Running
    <2>3. b < 128 => /\ data(a, b).channel \in Running
                     /\ data(a, b).said \in Seq(Sayings)
      <3>1. b < 128 => b \in SevenBit
        BY <1>0 DEF SevenBit
      <3>2. QED
        BY <3>1, DataTypes
    <2>4. r.channel \in Running
      <3>1. r.channel = IF b >= REALTIME_MIN THEN a.channel
                ELSE IF b = SYSEX_START THEN NoChannel
                ELSE IF a.sysex # <<>> /\ (b < 128 \/ b = SYSEX_END)
                THEN a.channel
                ELSE IF b >= 128 THEN status(b) ELSE data(a, b).channel
        BY <1>1, ByteFacts DEF r
      <3>2. QED
        BY <1>1, <2>1, <2>2, <2>3, <3>1
    <2>5. r.said \in Seq(Sayings)
      <3>1. r.said = IF a.sysex = <<>> /\ b < 128
                     THEN data(a, b).said ELSE a.said
        BY <1>1, ByteFacts DEF r
      <3>2. QED
        BY <1>1, <2>3, <3>1
    <2>6. QED
      BY <2>4, <2>5
  <1>5. QED
    BY <1>2, <1>3, <1>4 DEF Assemblers, r

(* A chunk, byte after byte.                                               *)
Waiting == [sysex |-> sysex, channel |-> channel,
            frames |-> <<>>, said |-> <<>>]
Feeding(chunk, after) ==
    /\ after[0] = Waiting
    /\ \A i \in 1..Len(chunk) : after[i] = byte(after[i - 1], chunk[i])

LEMMA FeedIs ==
    ASSUME sysex \in Seq(Nat), channel \in Running,
           NEW chunk \in Seq(WireBytes)
    PROVE  \E after \in [0..Len(chunk) -> Assemblers] :
             Feeding(chunk, after) /\ feed(chunk) = after[Len(chunk)]
  <1> DEFINE n == Len(chunk)
             Step == [i \in 1..n |-> [a \in Assemblers |->
                        byte(a, chunk[i])]]
             Is(f) == f = [i \in 0..n |->
                        IF i = 0 THEN Waiting ELSE byte(f[i - 1], chunk[i])]
             after == CHOOSE f : Is(f)
  <1>1. n \in Nat /\ \A i \in 1..n : chunk[i] \in WireBytes
    OBVIOUS
  <1>2. Waiting \in Assemblers
    BY DEF Waiting, Assemblers
  <1>3. Step \in [1..n -> [Assemblers -> Assemblers]]
    BY <1>1, ByteTypes
  <1>4. PICK f \in [0..n -> Assemblers] : Iterating(n, Waiting, Step, f)
    <2> HIDE DEF Step, n
    <2>1. QED
      BY <1>1, <1>2, <1>3, Iteration
  <1>5. \A i \in 1..n : i - 1 \in 0..n /\ i \in 0..n /\ i # 0
    BY <1>1
  <1>6. \A i \in 1..n : Step[i][f[i - 1]] = byte(f[i - 1], chunk[i])
    BY <1>4, <1>5
  <1> HIDE DEF Step
  <1>7. f[0] = Waiting /\ \A i \in 1..n : f[i] = Step[i][f[i - 1]]
    <2> HIDE DEF n
    <2>1. \A i \in 0..n : f[i] = IF i = 0 THEN Waiting ELSE Step[i][f[i - 1]]
      BY <1>4 DEF Iterating
    <2>2. 0 \in 0..n
      BY <1>1
    <2>3. QED
      BY <1>5, <2>1, <2>2
  <1>8. f = [i \in 0..n |-> f[i]]
    BY <1>4
  <1>9. \A i \in 0..n : f[i] = IF i = 0 THEN Waiting
                               ELSE byte(f[i - 1], chunk[i])
    <2>1. \A i \in 0..n : i # 0 => i \in 1..n
      BY <1>1
    <2> HIDE DEF n
    <2>2. QED
      BY <1>6, <1>7, <2>1
  <1>10. Is(f)
    BY <1>8, <1>9
  <1>11. Is(after)
    BY <1>10
  <1>12. feed(chunk) = after[n]
    BY DEF feed, Waiting
  <1>13. \A i \in 0..n : after[i] = IF i = 0 THEN Waiting
                                    ELSE byte(after[i - 1], chunk[i])
    BY <1>11
  <1> DEFINE G == {i \in 0..n : after[i] = f[i]}
  <1> HIDE DEF Is, after, n
  <1>14. 0 \in G
    BY <1>1, <1>9, <1>13
  <1>15. ASSUME NEW i \in 1..n, i - 1 \in G PROVE i \in G
    <2>1. i \in 0..n /\ i # 0 /\ after[i - 1] = f[i - 1]
      BY <1>1, <1>15
    <2>2. QED
      BY <1>9, <1>13, <2>1
  <1> HIDE DEF G
  <1>16. 0..n \subseteq G
    BY <1>1, <1>14, <1>15, CountingUp
  <1>17. after[n] = f[n]
    BY <1>1, <1>16 DEF G
  <1>18. Feeding(chunk, f)
    BY <1>6, <1>7 DEF Feeding, n
  <1>19. QED
    BY <1>4, <1>12, <1>17, <1>18 DEF n

-----------------------------------------------------------------------------
(* The assembler and the frames of the stream.                             *)

Doomed(f) == Len(f) > MAX_FRAME_LEN \/ \E i \in 2..Len(f) : f[i] >= 128
Agreeing(bytes, s, fs) ==
    /\ Accepted(fs) = Accepted(frames(bytes))
    /\ s # <<>> => IsOpen(bytes) /\ LastFrame(bytes) = s
    /\ s = <<>> /\ IsOpen(bytes) => Doomed(LastFrame(bytes))
    /\ IsOpen(bytes) => LastFrame(bytes) # <<>> /\ ~Parses(LastFrame(bytes))

(* What is doomed is never a message, whatever comes after it.             *)
LEMMA DoomedFacts ==
    ASSUME NEW f \in Seq(Nat), NEW b \in Nat, Doomed(f)
    PROVE  Doomed(Append(f, b)) /\ ~Parses(Append(f, b))
  <1> DEFINE g == Append(f, b)
  <1>1. /\ Len(f) \in Nat /\ g \in Seq(Nat) /\ Len(g) = Len(f) + 1
        /\ \A i \in 1..Len(f) : g[i] = f[i]
    OBVIOUS
  <1> HIDE DEF g
  <1>2. CASE Len(f) > MAX_FRAME_LEN
    <2>1. Len(g) > MAX_FRAME_LEN
      BY <1>1, <1>2, Limits
    <2>2. QED
      BY <1>1, <2>1, Limits DEF Doomed, Parses, g
  <1>3. CASE \E i \in 2..Len(f) : f[i] >= 128
    <2>1. PICK i \in 2..Len(f) : f[i] >= 128
      BY <1>3
    <2>2. i \in 1..Len(f) /\ i \in 2..Len(g) /\ i \in 2..(Len(g) - 1)
          /\ g[i] >= 128 /\ g[i] \in Nat
      BY <1>1, <2>1
    <2>3. g[i] \notin SevenBit
      <3>1. \A x \in Nat : x >= 128 => x \notin SevenBit
        BY DEF SevenBit
      <3>2. QED
        BY <2>2, <3>1
    <2>4. QED
      BY <2>2, <2>3 DEF Doomed, Parses, g
  <1>4. QED
    BY <1>2, <1>3 DEF Doomed

LEMMA AgreeingOn ==
    ASSUME NEW a \in Assemblers, NEW b \in Nat, NEW bytes \in Seq(Nat),
           NEW fs \in Seq(Seq(Nat)), Agreeing(bytes, a.sysex, fs)
    PROVE  LET r == byte(a, b)
           IN /\ Agreeing(Append(bytes, b), r.sysex,
                   IF b = SYSEX_END /\ a.sysex # <<>>
                   THEN Append(fs, Append(a.sysex, b)) ELSE fs)
  <1> DEFINE r == byte(a, b)
             more == Append(bytes, b)
             s == a.sysex
             gs == IF b = SYSEX_END /\ s # <<>>
                   THEN Append(fs, Append(s, b)) ELSE fs
  <1>1. s \in Seq(Nat)
    BY DEF Assemblers
  <1>2. r.sysex = IF b >= REALTIME_MIN THEN s
                  ELSE IF b = SYSEX_START THEN <<b>>
                  ELSE IF \/ s = <<>> \/ b >= 128 \/ Len(s) >= MAX_FRAME_LEN
                  THEN <<>> ELSE Append(s, b)
    BY ByteFacts
  <1>3. CASE b = SYSEX_START
    <2>1. /\ frames(more) = Append(frames(bytes), <<SYSEX_START>>)
          /\ IsOpen(more)
          /\ LastFrame(more) = <<SYSEX_START>>
      BY <1>3, FrameBegins
    <2>2. ~Parses(<<SYSEX_START>>)
      BY DEF Parses
    <2>3. frames(bytes) \in Seq(Seq(Nat)) /\ <<SYSEX_START>> \in Seq(Nat)
      <3>1. PICK f \in [0..Len(bytes) -> Seq(Seq(Nat))] :
               frames(bytes) = f[Len(bytes)]
        BY FramesIs
      <3>2. Len(bytes) \in 0..Len(bytes)
        OBVIOUS
      <3>3. QED
        BY <3>1, <3>2, Limits
    <2>4. Accepted(frames(more)) = Accepted(frames(bytes))
      BY ZenonT(30), <2>1, <2>2, <2>3, OneMoreAccepted
    <2>5. r.sysex = <<SYSEX_START>> /\ gs = fs
      BY <1>2, <1>3, Limits
    <2>6. <<SYSEX_START>> # <<>>
      OBVIOUS
    <2>7. Agreeing(more, r.sysex, gs)
      BY <2>1, <2>2, <2>4, <2>5, <2>6 DEF Agreeing
    <2>8. QED
      BY <2>7
  <1>4. CASE b # SYSEX_START
    <2> DEFINE last == LastFrame(bytes)
    <2>1. /\ HasFrame(more) <=> HasFrame(bytes)
          /\ ~HasFrame(bytes) => frames(more) = frames(bytes)
          /\ HasFrame(bytes) => \E before \in Seq(Seq(Nat)) :
               /\ frames(bytes) = Append(before, last)
               /\ frames(more) = Append(before, LastFrame(more))
          /\ HasFrame(bytes) => last \in Seq(Nat)
          /\ IsOpen(more) <=> IsOpen(bytes) /\ b # SYSEX_END
          /\ HasFrame(bytes) => LastFrame(more) =
               IF IsOpen(bytes) /\ b < REALTIME_MIN
               THEN Append(last, b) ELSE last
      BY <1>4, FrameGoesOn
    <2>2. CASE ~IsOpen(bytes)
      <3>1. s = <<>> /\ r.sysex = <<>> /\ gs = fs /\ ~IsOpen(more)
        BY <1>2, <1>4, <2>1, <2>2 DEF Agreeing
      <3>2. frames(more) = frames(bytes)
        BY <2>1, <2>2
      <3>3. Agreeing(more, r.sysex, gs)
        BY <3>1, <3>2 DEF Agreeing
      <3>4. QED
        BY <3>3
    <2>3. CASE IsOpen(bytes) /\ b >= REALTIME_MIN
      <3>1. r.sysex = s /\ gs = fs /\ IsOpen(more) /\ LastFrame(more) = last
        BY <1>2, <2>1, <2>3, Limits DEF IsOpen
      <3>2. frames(more) = frames(bytes)
        BY <2>1, <2>3, <3>1 DEF IsOpen
      <3>3. Agreeing(more, r.sysex, gs)
        BY <2>3, <3>1, <3>2 DEF Agreeing
      <3>4. QED
        BY <3>3
    <2>4. CASE IsOpen(bytes) /\ b < REALTIME_MIN
      <3>1. HasFrame(bytes) /\ last \in Seq(Nat)
        BY <2>1, <2>4 DEF IsOpen
      <3>2. LastFrame(more) = Append(last, b)
        BY <2>1, <2>4, <3>1
      <3> HIDE DEF more, gs, r
      <3>3. PICK before \in Seq(Seq(Nat)) :
               /\ frames(bytes) = Append(before, last)
               /\ frames(more) = Append(before, LastFrame(more))
        BY <2>1, <3>1
      <3>4. last # <<>> /\ ~Parses(last)
        BY <2>4 DEF Agreeing
      <3>5. Append(last, b) \in Seq(Nat) /\ Append(last, b) # <<>>
            /\ Len(Append(last, b)) = Len(last) + 1
            /\ Append(last, b)[Len(last) + 1] = b
        BY <3>1, OneMore
      <3>6. /\ Accepted(fs) = Accepted(before)
            /\ Accepted(frames(more)) =
                 IF Parses(Append(last, b))
                 THEN Append(Accepted(before), Append(last, b))
                 ELSE Accepted(before)
        BY ZenonT(30), <3>1, <3>2, <3>3, <3>4, <3>5, OneMoreAccepted DEF Agreeing
      <3>7. CASE b = SYSEX_END
        <4>1. ~IsOpen(more) /\ r.sysex = <<>>
          BY <1>2, <2>1, <2>4, <3>7, Limits DEF r, more
        <4>2. CASE s = <<>>
          <5>1. ~Parses(Append(last, b))
            BY <2>4, <3>1, <4>2, DoomedFacts DEF Agreeing
          <5>2. gs = fs
            BY <4>2 DEF gs
          <5>3. QED
            BY <3>6, <4>1, <5>1, <5>2 DEF Agreeing, more, r, gs
        <4>3. CASE s # <<>>
          <5>1. s = last /\ gs = Append(fs, Append(last, b))
            BY <3>7, <4>3 DEF gs, Agreeing
          <5>2. Accepted(gs) = Accepted(frames(more))
            BY <3>5, <3>6, <5>1, OneMoreAccepted
          <5>3. QED
            BY <4>1, <5>2 DEF Agreeing, more, r, gs
        <4>4. QED
          BY <4>2, <4>3
      <3>8. CASE b # SYSEX_END
        <4>1. IsOpen(more) /\ gs = fs
          BY <2>1, <2>4, <3>8 DEF more, gs
        <4>2. ~Parses(Append(last, b))
          <5>1. Append(last, b)[Len(Append(last, b))] = b
            BY <3>5
          <5>2. QED
            BY <3>8, <5>1 DEF Parses
        <4>3. Accepted(gs) = Accepted(frames(more))
          BY <3>6, <4>1, <4>2
        <4>4. r.sysex # <<>> => LastFrame(more) = r.sysex
          BY SMTT(30), <1>2, <1>4, <2>4, <3>2, Limits DEF Agreeing, r
        <4>5. r.sysex = <<>> => Doomed(LastFrame(more))
          <5>1. CASE s = <<>>
            BY <2>4, <3>1, <3>2, <5>1, DoomedFacts DEF Agreeing
          <5>2. CASE s # <<>> /\ b >= 128
            <6>1. /\ Len(last) \in Nat /\ Len(last) # 0
                  /\ Len(last) + 1 \in 2..(Len(last) + 1)
              BY <3>1, <3>4
            <6>2. QED
              BY <3>2, <3>5, <5>2, <6>1 DEF Doomed
          <5>3. CASE s # <<>> /\ Len(s) >= MAX_FRAME_LEN
            <6>1. s = last /\ Len(s) \in Nat
              BY <5>3, <1>1 DEF Agreeing
            <6>2. Len(Append(last, b)) > MAX_FRAME_LEN
              BY <3>5, <5>3, <6>1, Limits
            <6>3. QED
              BY <3>2, <6>2 DEF Doomed
          <5>4. CASE s # <<>> /\ b < 128 /\ ~(Len(s) >= MAX_FRAME_LEN)
            <6>1. r.sysex = Append(s, b)
              BY <1>2, <1>4, <2>4, <5>4, Limits DEF r
            <6>2. Append(s, b) # <<>>
              BY <1>1, OneMore
            <6>3. QED
              BY <6>1, <6>2
          <5>5. QED
            BY <5>1, <5>2, <5>3, <5>4
        <4>6. LastFrame(more) # <<>> /\ ~Parses(LastFrame(more))
          BY <3>2, <3>5, <4>2
        <4>7. Agreeing(more, r.sysex, gs)
          BY <4>1, <4>3, <4>4, <4>5, <4>6 DEF Agreeing
        <4>8. QED
          BY <4>7 DEF more, r, gs
      <3>9. QED
        BY <3>7, <3>8
    <2>5. QED
      BY <2>2, <2>3, <2>4, Limits
  <1>5. QED
    BY <1>3, <1>4

(* A chunk of bytes, whatever they are.                                    *)
LEMMA AfterOne ==
    ASSUME NEW S, NEW s \in Seq(S), NEW t \in Seq(S), NEW b \in S
    PROVE  s \o Append(t, b) = Append(s \o t, b)
  <1>1. <<b>> \in Seq(S) /\ s \o t \in Seq(S)
    OBVIOUS
  <1>2. Append(t, b) = t \o <<b>> /\ Append(s \o t, b) = (s \o t) \o <<b>>
    BY <1>1, AppendIsConcat
  <1>3. (s \o t) \o <<b>> = s \o (t \o <<b>>)
    BY <1>1, ConcatAssociative
  <1>4. QED
    BY <1>2, <1>3

LEMMA Prefixing ==
    ASSUME NEW S, NEW s \in Seq(S)
    PROVE  /\ SubSeq(s, 1, 0) = <<>>
           /\ SubSeq(s, 1, Len(s)) = s
           /\ \A i \in 0..Len(s) : /\ SubSeq(s, 1, i) \in Seq(S)
                                   /\ Len(SubSeq(s, 1, i)) = i
           /\ \A i \in 1..Len(s) :
                SubSeq(s, 1, i) = Append(SubSeq(s, 1, i - 1), s[i])
  <1>1. SubSeq(s, 1, 0) = <<>>
    BY SubSeqEmpty
  <1>2. SubSeq(s, 1, Len(s)) = s
    BY SubSeqFull
  <1>3. ASSUME NEW i \in 0..Len(s)
        PROVE  SubSeq(s, 1, i) \in Seq(S) /\ Len(SubSeq(s, 1, i)) = i
    OBVIOUS
  <1>4. ASSUME NEW i \in 1..Len(s)
        PROVE  SubSeq(s, 1, i) = Append(SubSeq(s, 1, i - 1), s[i])
    <2>1. 1 \in 1..Len(s) /\ i \in 1..Len(s) /\ i - 1 \in 0..Len(s)
      OBVIOUS
    <2>2. SubSeq(s, 1, i) = SubSeq(s, 1, i - 1) \o <<s[i]>>
      BY <2>1, SubSeqRecursiveSecond
    <2>3. SubSeq(s, 1, i - 1) \in Seq(S) /\ s[i] \in S
      BY <1>3, <2>1
    <2>4. QED
      BY <2>2, <2>3, AppendIsConcat
  <1>5. QED
    BY <1>1, <1>2, <1>3, <1>4

LEMMA PrefixFacts ==
    ASSUME NEW s \in Seq(Nat)
    PROVE  /\ SubSeq(s, 1, 0) = <<>>
           /\ SubSeq(s, 1, Len(s)) = s
           /\ \A i \in 0..Len(s) : /\ SubSeq(s, 1, i) \in Seq(Nat)
                                   /\ Len(SubSeq(s, 1, i)) = i
           /\ \A i \in 1..Len(s) :
                SubSeq(s, 1, i) = Append(SubSeq(s, 1, i - 1), s[i])
  BY Prefixing

LEMMA AfterOneByte ==
    \A s \in Seq(Nat), t \in Seq(Nat), b \in Nat :
      s \o Append(t, b) = Append(s \o t, b)
  BY AfterOne

LEMMA AfterOneFrame ==
    \A s \in Seq(Seq(Nat)), t \in Seq(Seq(Nat)), f \in Seq(Nat) :
      s \o Append(t, f) = Append(s \o t, f)
  BY AfterOne

LEMMA AgreeingAll ==
    ASSUME sysex \in Seq(Nat), channel \in Running,
           NEW chunk \in Seq(WireBytes), NEW bytes \in Seq(Nat),
           NEW fs \in Seq(Seq(Nat)), Agreeing(bytes, sysex, fs)
    PROVE  /\ feed(chunk) \in Assemblers
           /\ Agreeing(bytes \o chunk, feed(chunk).sysex,
                       fs \o feed(chunk).frames)
  <1> DEFINE n == Len(chunk)
             Read(i) == SubSeq(chunk, 1, i)
  <1>1. PICK after \in [0..n -> Assemblers] :
           Feeding(chunk, after) /\ feed(chunk) = after[n]
    BY FeedIs
  <1>2. /\ n \in Nat /\ chunk \in Seq(Nat) /\ n \in 0..n /\ 0 \in 0..n
        /\ \A i \in 1..n : chunk[i] \in Nat
    <2>1. WireBytes \subseteq Nat
      BY DEF WireBytes
    <2>2. chunk \in Seq(Nat)
      BY <2>1, SeqMonotonic
    <2>3. QED
      BY <2>2
  <1>3. /\ Read(0) = <<>> /\ Read(n) = chunk
        /\ \A i \in 0..n : Read(i) \in Seq(Nat)
        /\ \A i \in 1..n : Read(i) = Append(Read(i - 1), chunk[i])
    <2>1. /\ SubSeq(chunk, 1, 0) = <<>>
          /\ SubSeq(chunk, 1, Len(chunk)) = chunk
          /\ \A i \in 0..Len(chunk) : SubSeq(chunk, 1, i) \in Seq(Nat)
          /\ \A i \in 1..Len(chunk) : SubSeq(chunk, 1, i) =
               Append(SubSeq(chunk, 1, i - 1), chunk[i])
      <3>1. chunk \in Seq(Nat)
        BY <1>2
      <3>2. QED
        BY <3>1, PrefixFacts
    <2>2. QED
      BY <2>1
  <1>4. \A i \in 0..n : /\ after[i] \in Assemblers
                        /\ after[i].frames \in Seq(Seq(Nat))
                        /\ after[i].sysex \in Seq(Nat)
    BY <1>1 DEF Assemblers
  <1> DEFINE A(i) == Agreeing(bytes \o Read(i), after[i].sysex,
                              fs \o after[i].frames)
             G == {i \in 0..n : A(i)}
  <1>5. 0 \in G
    <2>1. after[0].sysex = sysex /\ after[0].frames = <<>>
      BY <1>1 DEF Feeding, Waiting
    <2>2. bytes \o <<>> = bytes /\ fs \o <<>> = fs
      OBVIOUS
    <2>3. A(0)
      BY <1>3, <2>1, <2>2
    <2>4. QED
      BY <1>2, <2>3
  <1>6. ASSUME NEW i \in 1..n, i - 1 \in G PROVE i \in G
    <2> DEFINE a == after[i - 1]
               b == chunk[i]
               s == bytes \o Read(i - 1)
               gs == fs \o a.frames
    <2>1. i - 1 \in 0..n /\ i \in 0..n /\ Agreeing(s, a.sysex, gs)
      BY <1>2, <1>6
    <2>2. after[i] = byte(a, b) /\ b \in Nat
      BY <1>1, <1>2 DEF Feeding
    <2>3. /\ a \in Assemblers /\ a.frames \in Seq(Seq(Nat))
          /\ a.sysex \in Seq(Nat) /\ Read(i - 1) \in Seq(Nat)
      BY <1>3, <1>4, <2>1
    <2>4. s \in Seq(Nat) /\ gs \in Seq(Seq(Nat))
      BY <2>3, ConcatProperties
    <2>5. bytes \o Read(i) = Append(s, b)
      <3>1. Read(i) = Append(Read(i - 1), chunk[i])
        BY <1>3
      <3> HIDE DEF Read
      <3>2. bytes \o Append(Read(i - 1), b) = Append(bytes \o Read(i - 1), b)
        BY <2>2, <2>3, AfterOneByte
      <3>3. QED
        BY <3>1, <3>2
    <2> HIDE DEF b, a
    <2>6. fs \o after[i].frames =
             IF b = SYSEX_END /\ a.sysex # <<>>
             THEN Append(gs, Append(a.sysex, b)) ELSE gs
      <3>1. after[i].frames = IF b = SYSEX_END /\ a.sysex # <<>>
                              THEN Append(a.frames, Append(a.sysex, b))
                              ELSE a.frames
        <4>1. byte(a, b).frames = IF b = SYSEX_END /\ a.sysex # <<>>
                                  THEN Append(a.frames, Append(a.sysex, b))
                                  ELSE a.frames
          BY <2>2, <2>3, ByteFacts
        <4>2. QED
          BY <2>2, <4>1
      <3>2. Append(a.sysex, b) \in Seq(Nat)
        BY <2>2, <2>3, OneMore
      <3>3. fs \o Append(a.frames, Append(a.sysex, b)) =
               Append(gs, Append(a.sysex, b))
        BY <2>3, <3>2, AfterOneFrame
      <3>4. QED
        BY <3>1, <3>3
    <2> HIDE DEF gs, s
    <2>7. A(i)
      BY <2>1, <2>2, <2>3, <2>4, <2>5, <2>6, AgreeingOn
    <2>8. QED
      BY <2>1, <2>7
  <1> HIDE DEF G
  <1>7. 0..n \subseteq G
    BY <1>2, <1>5, <1>6, CountingUp
  <1>8. A(n)
    BY <1>2, <1>7 DEF G
  <1>9. QED
    BY <1>1, <1>2, <1>3, <1>4, <1>8

-----------------------------------------------------------------------------
(* A SysEx, byte after byte.                                               *)

(* What the assembler has of the first n bytes of a message, and of all.   *)
ReadOf(m, n) == IF n <= MAX_FRAME_LEN THEN SubSeq(m, 1, n) ELSE <<>>
ReadSo(m, n, a) ==
    /\ n < Len(m) => a.frames = <<>> /\ (n > 0 => a.sysex = ReadOf(m, n))
    /\ n = Len(m) =>
         a.frames = IF Len(m) <= MAX_FRAME_LEN + 1 THEN <<m>> ELSE <<>>
Unsaid(n, a) == a.said = <<>> /\ (n > 0 => a.channel.status = 0)

LEMMA ReadOne ==
    ASSUME NEW m, IsSysexMessage(m), NEW n \in 0..(Len(m) - 1),
           NEW a \in Assemblers, ReadSo(m, n, a)
    PROVE  ReadSo(m, n + 1, byte(a, m[n + 1]))
  <1> DEFINE b == m[n + 1]
             r == byte(a, b)
  <1>1. /\ m \in Seq(Nat) /\ Len(m) \in Nat /\ Len(m) >= 2
        /\ m[1] = SYSEX_START /\ m[Len(m)] = SYSEX_END
        /\ n \in Nat /\ n + 1 \in 1..Len(m) /\ n < Len(m)
    BY DEF IsSysexMessage, IsSysex
  <1>2. b \in Nat /\ a.frames = <<>>
    BY <1>1 DEF ReadSo
  <1>3. /\ SubSeq(m, 1, n) \in Seq(Nat) /\ Len(SubSeq(m, 1, n)) = n
        /\ SubSeq(m, 1, n + 1) = Append(SubSeq(m, 1, n), b)
        /\ SubSeq(m, 1, Len(m)) = m
        /\ SubSeq(m, 1, 0) = <<>>
    <2>1. n \in 0..Len(m) /\ (n + 1) - 1 = n
      BY <1>1
    <2>2. QED
      BY <1>1, <2>1, PrefixFacts
  <1> HIDE DEF b
  <1>4. /\ r.sysex = IF b >= REALTIME_MIN THEN a.sysex
                     ELSE IF b = SYSEX_START THEN <<b>>
                     ELSE IF \/ a.sysex = <<>> \/ b >= 128
                             \/ Len(a.sysex) >= MAX_FRAME_LEN
                     THEN <<>> ELSE Append(a.sysex, b)
        /\ r.frames = IF b = SYSEX_END /\ a.sysex # <<>>
                      THEN Append(a.frames, Append(a.sysex, b))
                      ELSE a.frames
    BY <1>2, ByteFacts
  <1> HIDE DEF r
  <1>5. CASE n = 0
    <2>1. b = SYSEX_START
      BY <1>1, <1>5 DEF b
    <2>2. SubSeq(m, 1, n + 1) = <<b>>
      <3>1. Append(<<>>, b) = <<b>>
        OBVIOUS
      <3>2. SubSeq(m, 1, n) = <<>>
        BY <1>3, <1>5
      <3>3. QED
        BY <1>3, <3>1, <3>2
    <2>3. r.sysex = ReadOf(m, n + 1) /\ r.frames = <<>>
      BY <1>2, <1>4, <1>5, <2>1, <2>2, Limits DEF ReadOf
    <2>4. n + 1 < Len(m)
      BY <1>1, <1>5
    <2>5. QED
      BY <1>1, <2>3, <2>4 DEF ReadSo, r, b
  <1>6. CASE n > 0 /\ n + 1 < Len(m)
    <2>1. b < 128
      <3>1. n + 1 \in 2..(Len(m) - 1)
        BY <1>1, <1>6
      <3>2. b \in SevenBit
        BY <3>1 DEF IsSysexMessage, b
      <3>3. QED
        BY <3>2 DEF SevenBit
    <2>2. a.sysex = ReadOf(m, n)
      BY <1>1, <1>6 DEF ReadSo
    <2>3. r.frames = <<>>
      BY <1>2, <1>4, <2>1, Limits
    <2>4. CASE n < MAX_FRAME_LEN
      <3>1. a.sysex = SubSeq(m, 1, n) /\ a.sysex # <<>>
            /\ Len(a.sysex) < MAX_FRAME_LEN
        BY <1>1, <1>3, <1>6, <2>2, <2>4, Limits DEF ReadOf
      <3>2. r.sysex = Append(a.sysex, b)
        <4>1. ~(b >= REALTIME_MIN) /\ b # SYSEX_START /\ ~(b >= 128)
              /\ ~(Len(a.sysex) >= MAX_FRAME_LEN)
          BY <1>1, <1>2, <1>3, <2>1, <3>1, Limits
        <4>2. QED
          BY <1>4, <3>1, <4>1
      <3>3. r.sysex = ReadOf(m, n + 1)
        <4>1. n + 1 <= MAX_FRAME_LEN
          BY <1>1, <2>4, Limits
        <4>2. QED
          BY <1>3, <3>1, <3>2, <4>1 DEF ReadOf
      <3>4. QED
        BY <1>1, <1>6, <2>3, <3>3 DEF ReadSo, r, b
    <2>5. CASE ~(n < MAX_FRAME_LEN)
      <3>1. a.sysex = <<>> \/ Len(a.sysex) >= MAX_FRAME_LEN
        BY <1>1, <1>3, <2>2, <2>5, Limits DEF ReadOf
      <3>2. r.sysex = <<>>
        BY <1>2, <1>4, <2>1, <3>1, Limits
      <3>3. r.sysex = ReadOf(m, n + 1)
        BY <1>1, <2>5, <3>2, Limits DEF ReadOf
      <3>4. QED
        BY <1>1, <1>6, <2>3, <3>3 DEF ReadSo, r, b
    <2>6. QED
      BY <2>4, <2>5
  <1>7. CASE n + 1 = Len(m)
    <2>1. b = SYSEX_END /\ n > 0
      BY <1>1, <1>7 DEF b
    <2>2. a.sysex = ReadOf(m, n)
      BY <1>1, <2>1 DEF ReadSo
    <2>3. CASE n <= MAX_FRAME_LEN
      <3>1. a.sysex = SubSeq(m, 1, n) /\ a.sysex # <<>>
        BY SMTT(30), <1>1, <1>3, <2>1, <2>2, <2>3, Limits DEF ReadOf
      <3>2. Append(a.sysex, b) = m
        BY <1>3, <1>7, <3>1
      <3>3. r.frames = <<m>>
        <4>1. Append(<<>>, m) = <<m>>
          OBVIOUS
        <4>2. QED
          BY <1>2, <1>4, <2>1, <3>1, <3>2, <4>1
      <3>4. Len(m) <= MAX_FRAME_LEN + 1
        BY <1>1, <1>7, <2>3, Limits
      <3>5. QED
        BY <1>1, <1>7, <3>3, <3>4 DEF ReadSo, r, b
    <2>4. CASE ~(n <= MAX_FRAME_LEN)
      <3>1. r.frames = <<>>
        BY <1>2, <1>4, <2>2, <2>4 DEF ReadOf
      <3>2. ~(Len(m) <= MAX_FRAME_LEN + 1)
        BY <1>1, <1>7, <2>4, Limits
      <3>3. QED
        BY <1>1, <1>7, <3>1, <3>2 DEF ReadSo, r, b
    <2>5. QED
      BY <2>3, <2>4
  <1>8. QED
    BY <1>1, <1>5, <1>6, <1>7

LEMMA UnsaidOne ==
    ASSUME NEW m, IsSysexMessage(m), NEW n \in 0..(Len(m) - 1),
           NEW a \in Assemblers, Unsaid(n, a)
    PROVE  Unsaid(n + 1, byte(a, m[n + 1]))
  <1> DEFINE b == m[n + 1]
             r == byte(a, b)
  <1>1. /\ m \in Seq(Nat) /\ Len(m) \in Nat /\ Len(m) >= 2
        /\ m[1] = SYSEX_START /\ m[Len(m)] = SYSEX_END
        /\ n \in Nat /\ n + 1 \in 1..Len(m)
    BY DEF IsSysexMessage, IsSysex
  <1>2. b \in Nat /\ a.said = <<>>
    BY <1>1 DEF Unsaid
  <1>3. \/ n = 0 /\ b = SYSEX_START
        \/ n > 0 /\ b < 128
        \/ n > 0 /\ b = SYSEX_END
    <2>1. n + 1 \in 2..(Len(m) - 1) => b < 128
      <3>1. n + 1 \in 2..(Len(m) - 1) => b \in SevenBit
        BY DEF IsSysexMessage
      <3>2. \A x \in SevenBit : x < 128
        BY DEF SevenBit
      <3>3. QED
        BY <3>1, <3>2
    <2>2. n = 0 \/ n + 1 \in 2..(Len(m) - 1) \/ n + 1 = Len(m)
      BY <1>1
    <2>3. QED
      BY <1>1, <2>1, <2>2
  <1> HIDE DEF b
  <1>4. /\ r.channel = IF b >= REALTIME_MIN THEN a.channel
                ELSE IF b = SYSEX_START THEN NoChannel
                ELSE IF a.sysex # <<>> /\ (b < 128 \/ b = SYSEX_END)
                THEN a.channel
                ELSE IF b >= 128 THEN status(b) ELSE data(a, b).channel
        /\ r.said = IF a.sysex = <<>> /\ b < 128 THEN data(a, b).said
                    ELSE a.said
    BY <1>2, ByteFacts
  <1> HIDE DEF r
  <1>5. NoChannel.status = 0 /\ status(SYSEX_END).status = 0
    BY Limits DEF NoChannel, status
  <1>6. n > 0 => a.channel.status = 0 /\ data(a, b) = a
    BY <1>1 DEF Unsaid, data
  <1>7. CASE n = 0
    BY <1>1, <1>2, <1>3, <1>4, <1>5, <1>7, Limits DEF Unsaid, r, b
  <1>8. CASE n > 0 /\ b < 128
    BY SMTT(30), <1>1, <1>2, <1>4, <1>6, <1>8, Limits DEF Unsaid, r, b
  <1>9. CASE n > 0 /\ b = SYSEX_END
    BY <1>1, <1>2, <1>4, <1>5, <1>6, <1>9, Limits DEF Unsaid, r, b
  <1>10. QED
    BY <1>3, <1>7, <1>8, <1>9

LEMMA Inaudible ==
    ASSUME NEW a \in Assemblers, NEW b \in Nat, b >= REALTIME_MIN
    PROVE  byte(a, b) = a
  BY DEF byte

(* A chunk of one, with real-time bytes after it.                          *)
IsChunkOf(chunk, m, n, k) ==
    /\ k \in 1..Len(chunk)
    /\ n \in 0..Len(m) /\ n + k <= Len(m)
    /\ \A i \in 1..k : chunk[i] = m[n + i]
    /\ \A i \in (k + 1)..Len(chunk) : chunk[i] >= REALTIME_MIN

LEMMA ChunkRead ==
    ASSUME sysex \in Seq(Nat), channel \in Running,
           NEW chunk \in Seq(WireBytes), NEW m, IsSysexMessage(m),
           NEW n, NEW k, IsChunkOf(chunk, m, n, k)
    PROVE  /\ n = 0 \/ sysex = ReadOf(m, n) => ReadSo(m, n + k, feed(chunk))
           /\ n = 0 \/ channel.status = 0 => Unsaid(n + k, feed(chunk))
  <1> DEFINE N == Len(chunk)
             At(i) == IF i <= k THEN n + i ELSE n + k
  <1>1. PICK after \in [0..N -> Assemblers] :
           Feeding(chunk, after) /\ feed(chunk) = after[N]
    BY FeedIs
  <1>2. /\ N \in Nat /\ k \in 1..N /\ n \in Nat /\ Len(m) \in Nat
        /\ n + k <= Len(m)
        /\ \A i \in 1..k : chunk[i] = m[n + i]
        /\ \A i \in (k + 1)..N : chunk[i] >= REALTIME_MIN
        /\ \A i \in 1..N : chunk[i] \in Nat
    <2>1. Len(m) \in Nat
      BY DEF IsSysexMessage
    <2>2. \A i \in 1..Len(chunk) : chunk[i] \in WireBytes
      OBVIOUS
    <2>3. \A i \in 1..Len(chunk) : chunk[i] \in Nat
      BY <2>2 DEF WireBytes
    <2>4. QED
      BY <2>1, <2>3 DEF IsChunkOf
  <1>3. after[0] = Waiting
        /\ \A i \in 1..N : after[i] = byte(after[i - 1], chunk[i])
    BY <1>1 DEF Feeding
  <1> HIDE DEF N
  <1>4. \A i \in 1..N : i \in 0..N /\ i - 1 \in 0..N
                        /\ after[i - 1] \in Assemblers
    BY <1>1, <1>2
  <1>5. ASSUME NEW i \in 1..N
        PROVE  \/ /\ At(i) = At(i - 1) + 1
                  /\ At(i - 1) \in 0..(Len(m) - 1)
                  /\ chunk[i] = m[At(i - 1) + 1]
               \/ At(i) = At(i - 1) /\ chunk[i] >= REALTIME_MIN
    <2>1. CASE i <= k
      <3>1. i \in 1..k /\ At(i) = n + i /\ At(i - 1) = n + (i - 1)
            /\ n + (i - 1) + 1 = n + i
            /\ n + (i - 1) \in 0..(Len(m) - 1)
        BY <1>2, <2>1
      <3>2. QED
        BY <1>2, <3>1
    <2>2. CASE ~(i <= k)
      <3>1. i \in (k + 1)..N /\ At(i) = n + k
        BY <1>2, <2>2
      <3>2. At(i - 1) = n + k
        BY <1>2, <2>2
      <3>3. QED
        BY <1>2, <3>1, <3>2
    <2>3. QED
      BY <2>1, <2>2
  <1>6. At(0) = n /\ At(N) = n + k
    BY <1>2
  <1>7. n < Len(m)
    BY <1>2
  <1> HIDE DEF At
  <1>8. ASSUME n = 0 \/ sysex = ReadOf(m, n)
        PROVE  ReadSo(m, n + k, feed(chunk))
    <2> DEFINE G == {i \in 0..N : ReadSo(m, At(i), after[i])}
    <2>1. 0 \in G
      <3>1. ReadSo(m, n, Waiting)
        BY <1>2, <1>7, <1>8 DEF ReadSo, Waiting
      <3>2. QED
        BY <1>2, <1>3, <1>6, <3>1
    <2>2. ASSUME NEW i \in 1..N, i - 1 \in G PROVE i \in G
      <3>1. ReadSo(m, At(i - 1), after[i - 1]) /\ i \in 0..N
            /\ after[i - 1] \in Assemblers /\ chunk[i] \in Nat
        BY <1>2, <1>4, <2>2
      <3>2. after[i] = byte(after[i - 1], chunk[i])
        BY <1>3
      <3>3. CASE At(i) = At(i - 1) /\ chunk[i] >= REALTIME_MIN
        <4>1. after[i] = after[i - 1]
          BY <3>1, <3>2, <3>3, Inaudible
        <4>2. QED
          BY <3>1, <3>3, <4>1
      <3>4. CASE /\ At(i) = At(i - 1) + 1
                 /\ At(i - 1) \in 0..(Len(m) - 1)
                 /\ chunk[i] = m[At(i - 1) + 1]
        <4>1. ReadSo(m, At(i - 1) + 1, byte(after[i - 1], chunk[i]))
          BY <3>1, <3>4, ReadOne
        <4>2. QED
          BY <3>1, <3>2, <3>4, <4>1
      <3>5. QED
        BY <1>5, <3>3, <3>4
    <2> HIDE DEF G
    <2>3. 0..N \subseteq G
      BY <1>2, <2>1, <2>2, CountingUp
    <2>4. ReadSo(m, At(N), after[N])
      BY <1>2, <2>3 DEF G
    <2>5. QED
      BY <1>1, <1>6, <2>4
  <1>9. ASSUME n = 0 \/ channel.status = 0
        PROVE  Unsaid(n + k, feed(chunk))
    <2> DEFINE G == {i \in 0..N : Unsaid(At(i), after[i])}
    <2>1. 0 \in G
      <3>1. Unsaid(n, Waiting)
        BY <1>2, <1>9 DEF Unsaid, Waiting
      <3>2. QED
        BY <1>2, <1>3, <1>6, <3>1
    <2>2. ASSUME NEW i \in 1..N, i - 1 \in G PROVE i \in G
      <3>1. Unsaid(At(i - 1), after[i - 1]) /\ i \in 0..N
            /\ after[i - 1] \in Assemblers /\ chunk[i] \in Nat
        BY <1>2, <1>4, <2>2
      <3>2. after[i] = byte(after[i - 1], chunk[i])
        BY <1>3
      <3>3. CASE At(i) = At(i - 1) /\ chunk[i] >= REALTIME_MIN
        <4>1. after[i] = after[i - 1]
          BY <3>1, <3>2, <3>3, Inaudible
        <4>2. QED
          BY <3>1, <3>3, <4>1
      <3>4. CASE /\ At(i) = At(i - 1) + 1
                 /\ At(i - 1) \in 0..(Len(m) - 1)
                 /\ chunk[i] = m[At(i - 1) + 1]
        <4>1. Unsaid(At(i - 1) + 1, byte(after[i - 1], chunk[i]))
          BY <3>1, <3>4, UnsaidOne
        <4>2. QED
          BY <3>1, <3>2, <3>4, <4>1
      <3>5. QED
        BY <1>5, <3>3, <3>4
    <2> HIDE DEF G
    <2>3. 0..N \subseteq G
      BY <1>2, <2>1, <2>2, CountingUp
    <2>4. Unsaid(At(N), after[N])
      BY <1>2, <2>3 DEF G
    <2>5. QED
      BY <1>1, <1>6, <2>4
  <1>10. QED
    BY <1>8, <1>9

-----------------------------------------------------------------------------
(* What was heard of parameter numbers, as one more controller comes.      *)

Controllers == Channels \X SevenBit \X SevenBit
Selections  == 98..101
Told        == {6, 38} \cup Selections

LEMMA LatestFacts ==
    ASSUME NEW n \in Nat, NEW T \in SUBSET (1..n)
    PROVE  /\ Latest(T) \in 0..n
           /\ \A t \in T : t <= Latest(T)
           /\ Latest(T) # 0 => Latest(T) \in T
           /\ T = {} => Latest(T) = 0
  <1> DEFINE U == {0} \cup T
  <1>1. U \in SUBSET (0..n) /\ U # {}
    OBVIOUS
  <1> HIDE DEF U
  <1>2. Max(U) \in U /\ \A u \in U : Max(U) >= u
    BY <1>1, MaxFacts
  <1>3. Latest(T) = Max(U)
    BY DEF Latest, U
  <1>4. \A t \in T : t \in U /\ t \in Int
    BY DEF U
  <1>5. Latest(T) \in 0..n /\ \A t \in T : t <= Latest(T)
    BY <1>1, <1>2, <1>3, <1>4
  <1>6. Latest(T) # 0 => Latest(T) \in T
    BY <1>2, <1>3 DEF U
  <1>7. T = {} => Latest(T) = 0
    BY <1>2, <1>3 DEF U
  <1>8. QED
    BY <1>5, <1>6, <1>7

LEMMA LatestIs ==
    ASSUME NEW n \in Nat, NEW T \in SUBSET (1..n), NEW x \in T,
           \A t \in T : t <= x
    PROVE  Latest(T) = x
  <1>1. /\ Latest(T) \in 0..n
        /\ \A t \in T : t <= Latest(T)
        /\ Latest(T) # 0 => Latest(T) \in T
    BY LatestFacts
  <1>2. x \in 1..n /\ x <= Latest(T)
    BY <1>1
  <1>3. Latest(T) <= x
    BY <1>1, <1>2
  <1>4. QED
    BY <1>1, <1>2, <1>3

LEMMA OnFacts ==
    ASSUME NEW h, NEW i \in Nat, NEW c, NEW S
    PROVE  /\ On(h, i, c, S) \in SUBSET (1..i)
           /\ \A P \in SUBSET On(h, i, c, S) : P \in SUBSET (1..i)
  BY DEF On

LEMMA OnMore ==
    ASSUME NEW h \in Seq(Controllers), NEW e \in Controllers, NEW c, NEW S
    PROVE  On(Append(h, e), Len(h) + 1, c, S) =
             On(h, Len(h), c, S) \cup
               (IF e[1] = c /\ e[2] \in S THEN {Len(h) + 1} ELSE {})
  <1> DEFINE n == Len(h)
             g == Append(h, e)
  <1>1. n \in Nat /\ g[n + 1] = e /\ \A j \in 1..n : g[j] = h[j]
    OBVIOUS
  <1>2. /\ \A j \in 1..(n + 1) : j # n + 1 => j \in 1..n
        /\ \A j \in 1..n : j \in 1..(n + 1)
        /\ n + 1 \in 1..(n + 1)
    BY <1>1
  <1> HIDE DEF g, n
  <1>3. On(g, n + 1, c, S) =
          On(h, n, c, S) \cup
            (IF e[1] = c /\ e[2] \in S THEN {n + 1} ELSE {})
    BY <1>1, <1>2 DEF On
  <1>4. QED
    BY <1>3 DEF g, n

LEMMA OnBefore ==
    ASSUME NEW h \in Seq(Controllers), NEW e \in Controllers, NEW c, NEW S,
           NEW i \in 0..Len(h)
    PROVE  On(Append(h, e), i, c, S) = On(h, i, c, S)
  <1>1. \A j \in 1..i : Append(h, e)[j] = h[j]
    OBVIOUS
  <1>2. QED
    BY <1>1 DEF On

(* The places are among what was heard.                                    *)
LEMMA KindFacts ==
    \A n : LET k == SelectionKind(n)
           IN /\ k \in {"nrpn", "rpn"}
              /\ {MsbCc(k)} \in SUBSET Told /\ {MsbCc(k) - 1} \in SUBSET Told
              /\ OtherOf(k) \in SUBSET Told /\ OtherOf(k) \subseteq Selections
              /\ MsbCc(k) \in Selections /\ MsbCc(k) - 1 \in Selections
  BY DEF SelectionKind, MsbCc, OtherOf, Told, Selections

LEMMA ChosenFacts ==
    ASSUME NEW h, NEW n \in Nat, NEW c
    PROVE  /\ Chosen(h, n, c) \in 0..n
           /\ \A j \in On(h, n, c, Selections) : j <= Chosen(h, n, c)
           /\ Chosen(h, n, c) # 0 => Chosen(h, n, c) \in On(h, n, c, Selections)
           /\ Chosen(h, n, c) = 0 => On(h, n, c, Selections) = {}
  <1> DEFINE T == On(h, n, c, Selections)
  <1>1. T \in SUBSET (1..n) /\ Chosen(h, n, c) = Latest(T)
    BY OnFacts DEF Chosen, Selections
  <1> HIDE DEF T
  <1>2. /\ Latest(T) \in 0..n
        /\ \A t \in T : t <= Latest(T)
        /\ Latest(T) # 0 => Latest(T) \in T
    BY <1>1, LatestFacts
  <1>4. Latest(T) = 0 => T = {}
    <2>1. ASSUME NEW t \in T, Latest(T) = 0 PROVE FALSE
      <3>1. t \in Nat /\ t >= 1 /\ t <= 0
        BY <1>1, <1>2, <2>1
      <3>2. QED
        BY <3>1
    <2>2. QED
      BY <2>1
  <1>5. QED
    BY <1>1, <1>2, <1>4 DEF T

LEMMA OtherFacts ==
    ASSUME NEW h, NEW n \in Nat, NEW c
    PROVE  /\ OtherAt(h, n, c) \in 0..n
           /\ \A j \in On(h, n, c, OtherOf(KindOf(h, n, c))) :
                j <= OtherAt(h, n, c)
  <1> DEFINE T == On(h, n, c, OtherOf(KindOf(h, n, c)))
  <1>1. T \in SUBSET (1..n) /\ OtherAt(h, n, c) = Latest(T)
    BY OnFacts DEF OtherAt
  <1> HIDE DEF T
  <1>2. QED
    BY <1>1, LatestFacts DEF T
MsbSet(h, n, c) ==
    {j \in On(h, n, c, {MsbCc(KindOf(h, n, c))}) : j > OtherAt(h, n, c)}
LsbSet(h, n, c) ==
    {j \in On(h, n, c, {MsbCc(KindOf(h, n, c)) - 1}) :
       j > OtherAt(h, n, c) /\ j > MsbAt(h, n, c)}
EnteredSet(h, n, c, m) == {j \in On(h, n, c, {m}) : j > Chosen(h, n, c)}
LEMMA MsbFacts ==
    ASSUME NEW h, NEW n \in Nat, NEW c
    PROVE  /\ MsbSet(h, n, c) \in SUBSET (1..n)
           /\ MsbAt(h, n, c) = Latest(MsbSet(h, n, c))
           /\ MsbAt(h, n, c) \in 0..n
           /\ \A j \in MsbSet(h, n, c) : j <= MsbAt(h, n, c)
           /\ MsbAt(h, n, c) # 0 => MsbAt(h, n, c) \in MsbSet(h, n, c)
           /\ MsbSet(h, n, c) = {} => MsbAt(h, n, c) = 0
  <1> DEFINE T == MsbSet(h, n, c)
  <1>1. T \in SUBSET (1..n) /\ MsbAt(h, n, c) = Latest(T)
    BY OnFacts DEF MsbAt, MsbSet
  <1> HIDE DEF T
  <1>2. QED
    BY <1>1, LatestFacts DEF T

LEMMA LsbFacts ==
    ASSUME NEW h, NEW n \in Nat, NEW c
    PROVE  /\ LsbSet(h, n, c) \in SUBSET (1..n)
           /\ LsbAt(h, n, c) = Latest(LsbSet(h, n, c))
           /\ LsbAt(h, n, c) \in 0..n
           /\ \A j \in LsbSet(h, n, c) : j <= LsbAt(h, n, c)
           /\ LsbAt(h, n, c) # 0 => LsbAt(h, n, c) \in LsbSet(h, n, c)
           /\ LsbSet(h, n, c) = {} => LsbAt(h, n, c) = 0
  <1> DEFINE T == LsbSet(h, n, c)
  <1>1. T \in SUBSET (1..n) /\ LsbAt(h, n, c) = Latest(T)
    BY OnFacts DEF LsbAt, LsbSet
  <1> HIDE DEF T
  <1>2. QED
    BY <1>1, LatestFacts DEF T

LEMMA EnteredFacts ==
    ASSUME NEW h, NEW n \in Nat, NEW c, NEW m
    PROVE  /\ EnteredSet(h, n, c, m) \in SUBSET (1..n)
           /\ EnteredAt(h, n, c, m) = Latest(EnteredSet(h, n, c, m))
           /\ EnteredAt(h, n, c, m) \in 0..n
           /\ EnteredSet(h, n, c, m) = {} => EnteredAt(h, n, c, m) = 0
  <1> DEFINE T == EnteredSet(h, n, c, m)
  <1>1. T \in SUBSET (1..n) /\ EnteredAt(h, n, c, m) = Latest(T)
    BY OnFacts DEF EnteredAt, EnteredSet
  <1> HIDE DEF T
  <1>2. QED
    BY <1>1, LatestFacts DEF T

(* What the decoder of a channel holds.                                    *)
Value(h, j) == IF j = 0 THEN -1 ELSE h[j][3]
Said(h, n, c) ==
    IF Chosen(h, n, c) = 0 THEN NewChannel
    ELSE [selected |-> KindOf(h, n, c),
          msb |-> Value(h, MsbAt(h, n, c)),
          lsb |-> Value(h, LsbAt(h, n, c)),
          data_msb |-> IF IsSelected(h, n, c)
                       THEN Value(h, EnteredAt(h, n, c, 6)) ELSE -1,
          data_lsb |-> IF IsSelected(h, n, c)
                       THEN Value(h, EnteredAt(h, n, c, 38)) ELSE -1]

(* It depends on nothing but what its channel said of parameter numbers.   *)
LEMMA SameSaid ==
    ASSUME NEW h, NEW g, NEW n \in Nat, NEW k \in Nat, NEW c,
           \A j \in 1..n : g[j] = h[j],
           \A S \in SUBSET Told : On(g, k, c, S) = On(h, n, c, S)
    PROVE  /\ Chosen(g, k, c) = Chosen(h, n, c)
           /\ EnteredAt(g, k, c, 6) = EnteredAt(h, n, c, 6)
           /\ EnteredAt(g, k, c, 38) = EnteredAt(h, n, c, 38)
           /\ Chosen(h, n, c) # 0 =>
                /\ KindOf(g, k, c) = KindOf(h, n, c)
                /\ OtherAt(g, k, c) = OtherAt(h, n, c)
                /\ MsbAt(g, k, c) = MsbAt(h, n, c)
                /\ LsbAt(g, k, c) = LsbAt(h, n, c)
           /\ IsSelected(g, k, c) <=> IsSelected(h, n, c)
           /\ Said(g, k, c) = Said(h, n, c)
  <1>1. /\ Selections \in SUBSET Told
        /\ {6} \in SUBSET Told /\ {38} \in SUBSET Told
    BY DEF Told, Selections
  <1>2. Chosen(g, k, c) = Chosen(h, n, c)
    BY <1>1 DEF Chosen, Selections
  <1>3. EnteredAt(g, k, c, 6) = EnteredAt(h, n, c, 6)
    BY <1>1, <1>2 DEF EnteredAt
  <1>4. EnteredAt(g, k, c, 38) = EnteredAt(h, n, c, 38)
    BY <1>1, <1>2 DEF EnteredAt
  <1>5. CASE Chosen(h, n, c) = 0
    BY <1>2, <1>3, <1>4, <1>5 DEF IsSelected, Said
  <1>6. CASE Chosen(h, n, c) # 0
    <2>1. KindOf(g, k, c) = KindOf(h, n, c)
      <3>1. Chosen(h, n, c) \in 1..n
        BY <1>6, ChosenFacts
      <3>2. QED
        BY <1>2, <3>1 DEF KindOf
    <2>2. /\ {MsbCc(KindOf(h, n, c))} \in SUBSET Told
          /\ {MsbCc(KindOf(h, n, c)) - 1} \in SUBSET Told
          /\ OtherOf(KindOf(h, n, c)) \in SUBSET Told
      BY KindFacts DEF KindOf
    <2>3. OtherAt(g, k, c) = OtherAt(h, n, c)
      BY <2>1, <2>2 DEF OtherAt
    <2>4. MsbAt(g, k, c) = MsbAt(h, n, c)
      BY <2>1, <2>2, <2>3 DEF MsbAt
    <2>5. LsbAt(g, k, c) = LsbAt(h, n, c)
      BY <2>1, <2>2, <2>3, <2>4 DEF LsbAt
    <2>6. \A j \in 0..n : Value(g, j) = Value(h, j)
      BY DEF Value
    <2>7. /\ MsbAt(h, n, c) \in 0..n /\ LsbAt(h, n, c) \in 0..n
          /\ EnteredAt(h, n, c, 6) \in 0..n /\ EnteredAt(h, n, c, 38) \in 0..n
      BY MsbFacts, LsbFacts, EnteredFacts
    <2>8. IsSelected(g, k, c) <=> IsSelected(h, n, c)
      <3>1. \A j \in 0..n : j # 0 => g[j] = h[j]
        OBVIOUS
      <3>2. QED
        BY <1>2, <2>1, <2>4, <2>5, <2>7, <3>1 DEF IsSelected
    <2>9. Said(g, k, c) = Said(h, n, c)
      BY <1>2, <1>3, <1>4, <2>1, <2>4, <2>5, <2>6, <2>7, <2>8 DEF Said
    <2>10. QED
      BY <1>2, <1>3, <1>4, <2>1, <2>3, <2>4, <2>5, <2>8, <2>9
  <1>7. QED
    BY <1>5, <1>6, <1>2, <1>3, <1>4

(* A selection.                                                            *)
LEMMA SelectionHeard ==
    ASSUME NEW h \in Seq(Controllers), NEW e \in Controllers,
           e[2] \in Selections
    PROVE  Said(Append(h, e), Len(h) + 1, e[1]) =
             select(Said(h, Len(h), e[1]), e[2], e[3])
  <1> DEFINE n == Len(h)
             N == n + 1
             g == Append(h, e)
             c == e[1]
             k == SelectionKind(e[2])
  <1>1. /\ n \in Nat /\ N \in Nat /\ N # 0
        /\ \A j \in 1..n : N > j /\ g[j] = h[j]
        /\ g[N] = e /\ e[2] \in SevenBit /\ e[3] \in SevenBit
        /\ h \in Seq(Controllers)
    BY DEF Controllers
  <1>2. \A S : On(g, N, c, S) =
                 On(h, n, c, S) \cup (IF e[2] \in S THEN {N} ELSE {})
    BY OnMore
  <1>3. \A S : On(h, n, c, S) \in SUBSET (1..n)
    BY <1>1, OnFacts
  <1> HIDE DEF n, N, g, c
  <1>4. \A S : /\ On(g, N, c, S) \in SUBSET (1..N)
                /\ \A j \in On(g, N, c, S) : j <= N
    BY <1>1, OnFacts
  <1>5. Chosen(g, N, c) = N
    <2> DEFINE T == On(g, N, c, Selections)
    <2>1. T \in SUBSET (1..N) /\ N \in T /\ \A t \in T : t <= N
      BY <1>2, <1>4
    <2> HIDE DEF T
    <2>2. Latest(T) = N
      BY <1>1, <2>1, LatestIs
    <2>3. QED
      BY <2>2 DEF T, Chosen, Selections
  <1>6. KindOf(g, N, c) = k
    BY <1>1, <1>5 DEF KindOf
  <1>7. /\ k \in {"nrpn", "rpn"}
        /\ e[2] \in {MsbCc(k), MsbCc(k) - 1}
        /\ MsbCc(k) # MsbCc(k) - 1
        /\ e[2] \notin OtherOf(k)
        /\ {MsbCc(k), MsbCc(k) - 1} \cup OtherOf(k) = Selections
        /\ \A x \in {"nrpn", "rpn"} :
             x # k => OtherOf(k) = {MsbCc(x), MsbCc(x) - 1}
    BY DEF SelectionKind, MsbCc, OtherOf, Selections
  <1> HIDE DEF k
  <1>8. On(g, N, c, OtherOf(k)) = On(h, n, c, OtherOf(k))
    BY <1>2, <1>7
  <1>9. OtherAt(g, N, c) = Latest(On(h, n, c, OtherOf(k)))
    BY <1>6, <1>8 DEF OtherAt
  <1>10. OtherAt(g, N, c) \in 0..n
    BY <1>1, <1>3, <1>9, LatestFacts
  <1> DEFINE isMsb == e[2] = MsbCc(k)
             same  == Chosen(h, n, c) # 0 /\ KindOf(h, n, c) = k
  <1>11. isMsb => MsbAt(g, N, c) = N /\ LsbAt(g, N, c) = 0
    <2>1. SUFFICES ASSUME isMsb PROVE MsbAt(g, N, c) = N /\ LsbAt(g, N, c) = 0
      OBVIOUS
    <2>2. MsbSet(g, N, c) \in SUBSET (1..N) /\ N \in MsbSet(g, N, c)
          /\ \A j \in MsbSet(g, N, c) : j <= N
      BY <1>1, <1>2, <1>4, <1>6, <1>10, <2>1 DEF MsbSet
    <2>3. MsbAt(g, N, c) = N
      <3>1. Latest(MsbSet(g, N, c)) = N
        BY <1>1, <2>2, LatestIs
      <3>2. QED
        BY <1>1, <3>1, MsbFacts
    <2>4. LsbSet(g, N, c) = {}
      BY <1>4, <2>3, <1>1 DEF LsbSet
    <2>5. QED
      BY <1>1, <2>3, <2>4, LsbFacts
  <1>12. ~isMsb => /\ LsbAt(g, N, c) = N
                   /\ MsbAt(g, N, c) =
                        IF same THEN MsbAt(h, n, c) ELSE 0
    <2>1. SUFFICES ASSUME ~isMsb
                   PROVE  /\ LsbAt(g, N, c) = N
                          /\ MsbAt(g, N, c) = IF same THEN MsbAt(h, n, c) ELSE 0
      OBVIOUS
    <2>2. On(g, N, c, {MsbCc(k)}) = On(h, n, c, {MsbCc(k)})
      BY <1>2, <2>1
    <2>3. MsbAt(g, N, c) = IF same THEN MsbAt(h, n, c) ELSE 0
      <3>1. CASE same
        <4>1. OtherAt(g, N, c) = OtherAt(h, n, c)
          BY <1>9, <3>1 DEF OtherAt
        <4>2. QED
          BY <1>6, <2>2, <3>1, <4>1 DEF MsbAt
      <3>2. CASE ~same
        <4>1. \A j \in On(h, n, c, {MsbCc(k)}) : ~(j > OtherAt(g, N, c))
          <5>1. On(h, n, c, {MsbCc(k)}) \subseteq On(h, n, c, Selections)
            BY <1>7 DEF On
          <5>2. CASE Chosen(h, n, c) = 0
            BY <1>1, <5>1, <5>2, ChosenFacts
          <5>3. CASE Chosen(h, n, c) # 0 /\ KindOf(h, n, c) # k
            <6> DEFINE last == Chosen(h, n, c)
            <6>1. last \in On(h, n, c, Selections)
                  /\ \A j \in On(h, n, c, Selections) : j <= last
              BY <1>1, <5>3, ChosenFacts
            <6>2. last \in On(h, n, c, OtherOf(k))
              <7>1. h[last][2] \in Selections /\ last \in 1..n /\ h[last][1] = c
                BY <6>1 DEF On
              <7>2. SelectionKind(h[last][2]) # k
                BY <5>3 DEF KindOf
              <7>3. h[last][2] \in OtherOf(k)
                BY <1>7, <7>1, <7>2
                   DEF SelectionKind, OtherOf, Selections
              <7>4. QED
                BY <7>1, <7>3 DEF On
            <6>3. last <= OtherAt(g, N, c)
              BY <1>1, <1>3, <1>9, <6>2, LatestFacts
            <6>4. last \in Nat /\ OtherAt(g, N, c) \in Nat
                  /\ \A j \in On(h, n, c, Selections) : j \in Nat
              BY <1>1, <1>3, <1>10, ChosenFacts
            <6> HIDE DEF last
            <6>5. QED
              BY <5>1, <6>1, <6>3, <6>4
          <5>4. QED
            BY <3>2, <5>2, <5>3
        <4>2. MsbSet(g, N, c) = {}
          BY <1>6, <2>2, <4>1 DEF MsbSet
        <4>3. QED
          BY <1>1, <3>2, <4>2, MsbFacts
      <3>3. QED
        BY <3>1, <3>2
    <2>4. MsbAt(g, N, c) \in 0..n
      <3>1. MsbAt(h, n, c) \in 0..n
        BY <1>1, MsbFacts
      <3>2. n \in Nat
        BY <1>1
      <3>3. 0 \in 0..n
        BY <3>2
      <3>4. QED
        BY <2>3, <3>1, <3>3
    <2>5. LsbSet(g, N, c) \in SUBSET (1..N) /\ N \in LsbSet(g, N, c)
          /\ \A j \in LsbSet(g, N, c) : j <= N
      BY <1>1, <1>2, <1>4, <1>6, <1>7, <1>10, <2>1, <2>4 DEF LsbSet
    <2>6. Latest(LsbSet(g, N, c)) = N
      BY <1>1, <2>5, LatestIs
    <2>7. QED
      BY <1>1, <2>3, <2>6, LsbFacts
  <1>13. EnteredAt(g, N, c, 6) = 0 /\ EnteredAt(g, N, c, 38) = 0
    <2>1. ASSUME NEW m \in {6, 38} PROVE EnteredAt(g, N, c, m) = 0
      <3>1. EnteredSet(g, N, c, m) = {}
        BY <1>1, <1>4, <1>5 DEF EnteredSet
      <3>2. QED
        BY <1>1, <3>1, EnteredFacts
    <2>2. QED
      BY <2>1
  <1>14. Said(g, N, c) = [selected |-> k, msb |-> Value(g, MsbAt(g, N, c)),
                          lsb |-> Value(g, LsbAt(g, N, c)),
                          data_msb |-> -1, data_lsb |-> -1]
    BY <1>1, <1>5, <1>6, <1>13 DEF Said, Value
  <1>15. (IF Said(h, n, c).selected = k THEN Said(h, n, c).msb ELSE -1) =
           IF same THEN Value(h, MsbAt(h, n, c)) ELSE -1
    BY <1>7 DEF Said, NewChannel
  <1>16. Value(g, N) = e[3] /\ Value(g, 0) = -1
         /\ \A j \in 0..n : Value(g, j) = Value(h, j)
    BY <1>1 DEF Value
  <1>17. MsbAt(h, n, c) \in 0..n
    BY <1>1, MsbFacts
  <1>18. CASE isMsb
    <2>1. Said(g, N, c) = [selected |-> k, msb |-> e[3], lsb |-> -1,
                           data_msb |-> -1, data_lsb |-> -1]
      BY <1>11, <1>14, <1>16, <1>18
    <2>2. select(Said(h, n, c), e[2], e[3]) =
            [selected |-> k, msb |-> e[3], lsb |-> -1,
             data_msb |-> -1, data_lsb |-> -1]
      BY <1>18 DEF select, NewChannel, k
    <2>3. QED
      BY <2>1, <2>2 DEF g, N, c, n
  <1>19. CASE ~isMsb
    <2> DEFINE msb == IF same THEN Value(h, MsbAt(h, n, c)) ELSE -1
    <2>1. Said(g, N, c) = [selected |-> k, msb |-> msb, lsb |-> e[3],
                           data_msb |-> -1, data_lsb |-> -1]
      BY <1>12, <1>14, <1>16, <1>17, <1>19
    <2>2. select(Said(h, n, c), e[2], e[3]) =
            [selected |-> k,
             msb |-> IF Said(h, n, c).selected = k THEN Said(h, n, c).msb
                     ELSE -1,
             lsb |-> e[3], data_msb |-> -1, data_lsb |-> -1]
      BY <1>19 DEF select, NewChannel, k
    <2>3. QED
      BY <1>15, <2>1, <2>2 DEF g, N, c, n
  <1>20. QED
    BY <1>18, <1>19

(* A value that is entered.                                                *)
LEMMA SelectedFacts ==
    ASSUME NEW h \in Seq(Controllers), NEW c
    PROVE  LET n == Len(h)
           IN /\ (number(Said(h, n, c)) # -1) <=> IsSelected(h, n, c)
              /\ IsSelected(h, n, c) =>
                   /\ number(Said(h, n, c)) =
                        h[MsbAt(h, n, c)][3] * 128 + h[LsbAt(h, n, c)][3]
                   /\ Said(h, n, c).selected = KindOf(h, n, c)
                   /\ Said(h, n, c).data_msb = Value(h, EnteredAt(h, n, c, 6))
                   /\ Said(h, n, c).data_lsb = Value(h, EnteredAt(h, n, c, 38))
              /\ \A m : Value(h, EnteredAt(h, n, c, m)) = -1 <=>
                          EnteredAt(h, n, c, m) = 0
  <1> DEFINE n == Len(h)
             msb == MsbAt(h, n, c)
             lsb == LsbAt(h, n, c)
             s == Said(h, n, c)
  <1>1. n \in Nat /\ \A j \in 1..n : h[j][3] \in SevenBit
    BY DEF Controllers
  <1>2. \A j \in 0..n : /\ Value(h, j) = -1 <=> j = 0
                        /\ j # 0 => Value(h, j) = h[j][3] /\ h[j][3] \in Nat
    <2>1. ASSUME NEW j \in 1..n
          PROVE  Value(h, j) = h[j][3] /\ h[j][3] \in Nat
      <3>1. h[j][3] \in SevenBit /\ j # 0
        BY <1>1
      <3>2. \A x \in SevenBit : x \in Nat
        BY DEF SevenBit
      <3>3. h[j][3] \in Nat
        BY <3>1, <3>2
      <3>4. QED
        BY <3>1, <3>3 DEF Value
    <2>2. Value(h, 0) = -1 /\ \A j \in 1..n : Value(h, j) # -1
      BY <2>1 DEF Value
    <2>3. \A j \in 0..n : j = 0 \/ j \in 1..n
      BY <1>1
    <2> HIDE DEF n
    <2>4. QED
      BY <2>1, <2>2, <2>3
  <1> HIDE DEF n
  <1>3. msb \in 0..n /\ lsb \in 0..n
        /\ \A m : EnteredAt(h, n, c, m) \in 0..n
    BY <1>1, MsbFacts, LsbFacts, EnteredFacts
  <1>4. CASE Chosen(h, n, c) = 0
    <2>1. ~IsSelected(h, n, c) /\ number(s) = -1
      BY <1>4 DEF IsSelected, Said, NewChannel, number
    <2>2. QED
      BY <1>2, <1>3, <2>1 DEF n
  <1>5. CASE Chosen(h, n, c) # 0
    <2>1. /\ s.selected = KindOf(h, n, c)
          /\ s.msb = Value(h, msb) /\ s.lsb = Value(h, lsb)
          /\ IsSelected(h, n, c) =>
               /\ s.data_msb = Value(h, EnteredAt(h, n, c, 6))
               /\ s.data_lsb = Value(h, EnteredAt(h, n, c, 38))
      BY <1>5 DEF Said
    <2>2. KindOf(h, n, c) \in {"nrpn", "rpn"}
      BY KindFacts DEF KindOf
    <2>3. IsSelected(h, n, c) <=>
            /\ msb # 0 /\ lsb # 0
            /\ ~(/\ KindOf(h, n, c) = "rpn"
                 /\ h[msb][3] = 127 /\ h[lsb][3] = 127)
      BY <1>5 DEF IsSelected
    <2> HIDE DEF s, msb, lsb
    <2>4. number(s) = IF \/ s.selected = "none" \/ s.msb = -1 \/ s.lsb = -1
                         \/ s.selected = "rpn" /\ s.msb = 127 /\ s.lsb = 127
                      THEN -1 ELSE s.msb * 128 + s.lsb
      BY DEF number
    <2>5. IsSelected(h, n, c) => number(s) = h[msb][3] * 128 + h[lsb][3]
                                 /\ number(s) # -1
      <3>1. SUFFICES ASSUME IsSelected(h, n, c)
                     PROVE  number(s) = h[msb][3] * 128 + h[lsb][3]
                            /\ number(s) # -1
        OBVIOUS
      <3>2. s.msb = h[msb][3] /\ s.lsb = h[lsb][3]
            /\ h[msb][3] \in Nat /\ h[lsb][3] \in Nat
        BY <1>2, <1>3, <2>1, <2>3, <3>1 DEF msb, lsb
      <3>3. ~(\/ s.selected = "none" \/ s.msb = -1 \/ s.lsb = -1
              \/ s.selected = "rpn" /\ s.msb = 127 /\ s.lsb = 127)
        BY <2>1, <2>2, <2>3, <3>1, <3>2
      <3>4. number(s) = s.msb * 128 + s.lsb
        BY <2>4, <3>3
      <3>5. QED
        BY <3>2, <3>4
    <2>6. ~IsSelected(h, n, c) => number(s) = -1
      <3>1. SUFFICES ASSUME ~IsSelected(h, n, c) PROVE number(s) = -1
        OBVIOUS
      <3>2. \/ s.msb = -1 \/ s.lsb = -1
            \/ s.selected = "rpn" /\ s.msb = 127 /\ s.lsb = 127
        BY <1>2, <1>3, <2>1, <2>3, <3>1 DEF msb, lsb
      <3>3. QED
        BY <2>4, <3>2
    <2>7. QED
      BY <1>2, <1>3, <2>1, <2>5, <2>6 DEF s, msb, lsb, n
  <1>6. QED
    BY <1>4, <1>5

Entering(s, m, v) ==
    IF number(s) = -1 THEN s
    ELSE IF m = 6 THEN [s EXCEPT !.data_msb = v] ELSE [s EXCEPT !.data_lsb = v]

LEMMA ValueHeard ==
    ASSUME NEW h \in Seq(Controllers), NEW e \in Controllers, e[2] \in {6, 38}
    PROVE  LET n == Len(h)
               g == Append(h, e)
               c == e[1]
           IN /\ Said(g, n + 1, c) = Entering(Said(h, n, c), e[2], e[3])
              /\ IsSelected(g, n + 1, c) <=> IsSelected(h, n, c)
              /\ EnteredAt(g, n + 1, c, e[2]) = n + 1
              /\ \A m \in {6, 38} : m # e[2] =>
                   EnteredAt(g, n + 1, c, m) = EnteredAt(h, n, c, m)
              /\ IsSelected(h, n, c) =>
                   /\ KindOf(g, n + 1, c) = KindOf(h, n, c)
                   /\ MsbAt(g, n + 1, c) = MsbAt(h, n, c)
                   /\ LsbAt(g, n + 1, c) = LsbAt(h, n, c)
  <1> DEFINE n == Len(h)
             N == n + 1
             g == Append(h, e)
             c == e[1]
  <1>1. /\ n \in Nat /\ N \in Nat /\ N # 0 /\ N \notin 0..n
        /\ \A j \in 1..n : N > j
        /\ \A j \in 1..n : g[j] = h[j]
        /\ g[N] = e
    OBVIOUS
  <1>2. \A S : On(g, N, c, S) =
                 On(h, n, c, S) \cup (IF e[2] \in S THEN {N} ELSE {})
    BY OnMore
  <1>3. \A S : On(h, n, c, S) \in SUBSET (1..n)
    BY <1>1, OnFacts
  <1>a. h \in Seq(Controllers)
    OBVIOUS
  <1> HIDE DEF n, N, g, c
  <1>4. \A S : S \subseteq Selections => On(g, N, c, S) = On(h, n, c, S)
    <2>1. e[2] \notin Selections
      BY DEF Selections
    <2>2. QED
      BY <1>2, <2>1
  <1>5. Chosen(g, N, c) = Chosen(h, n, c)
    BY <1>4 DEF Chosen, Selections
  <1>6. Chosen(h, n, c) \in 0..n
    BY <1>1, ChosenFacts
  <1>7. EnteredAt(g, N, c, e[2]) = N
    <2> DEFINE T == EnteredSet(g, N, c, e[2])
    <2>1. N \in T
      BY <1>1, <1>2, <1>5, <1>6 DEF EnteredSet
    <2>2. T \in SUBSET (1..N)
      BY <1>1, EnteredFacts
    <2>3. \A t \in T : t <= N
      BY <2>2, <1>1
    <2>4. EnteredAt(g, N, c, e[2]) = Latest(T)
      BY <1>1, EnteredFacts
    <2> HIDE DEF T
    <2>5. Latest(T) = N
      BY <1>1, <2>1, <2>2, <2>3, LatestIs
    <2>6. QED
      BY <2>4, <2>5
  <1>8. ASSUME NEW m \in {6, 38}, m # e[2]
        PROVE  EnteredAt(g, N, c, m) = EnteredAt(h, n, c, m)
    <2>1. On(g, N, c, {m}) = On(h, n, c, {m})
      BY ZenonT(30), <1>2, <1>8
    <2>2. QED
      BY <1>5, <2>1 DEF EnteredAt
  <1>9. ASSUME Chosen(h, n, c) # 0
        PROVE  /\ KindOf(g, N, c) = KindOf(h, n, c)
               /\ OtherAt(g, N, c) = OtherAt(h, n, c)
               /\ MsbAt(g, N, c) = MsbAt(h, n, c)
               /\ LsbAt(g, N, c) = LsbAt(h, n, c)
    <2>1. KindOf(g, N, c) = KindOf(h, n, c)
      <3>1. Chosen(h, n, c) \in 1..n
        BY <1>6, <1>9
      <3>2. QED
        BY <1>1, <1>5, <3>1 DEF KindOf
    <2>2. /\ {MsbCc(KindOf(h, n, c))} \subseteq Selections
          /\ {MsbCc(KindOf(h, n, c)) - 1} \subseteq Selections
          /\ OtherOf(KindOf(h, n, c)) \subseteq Selections
      BY KindFacts DEF KindOf
    <2>3. OtherAt(g, N, c) = OtherAt(h, n, c)
      BY <1>4, <2>1, <2>2 DEF OtherAt
    <2>4. MsbAt(g, N, c) = MsbAt(h, n, c)
      BY <1>4, <2>1, <2>2, <2>3 DEF MsbAt
    <2>5. LsbAt(g, N, c) = LsbAt(h, n, c)
      BY <1>4, <2>1, <2>2, <2>3, <2>4 DEF LsbAt
    <2>6. QED
      BY <2>1, <2>3, <2>4, <2>5
  <1>10. MsbAt(h, n, c) \in 0..n /\ LsbAt(h, n, c) \in 0..n
         /\ \A m : EnteredAt(h, n, c, m) \in 0..n
    BY <1>1, MsbFacts, LsbFacts, EnteredFacts
  <1>11. IsSelected(g, N, c) <=> IsSelected(h, n, c)
    <2>1. CASE Chosen(h, n, c) = 0
      BY <1>5, <2>1 DEF IsSelected
    <2>2. CASE Chosen(h, n, c) # 0
      <3>1. \A j \in 0..n : j # 0 => g[j] = h[j]
        BY <1>1
      <3>2. QED
        BY <1>5, <1>9, <1>10, <2>2, <3>1 DEF IsSelected
    <2>3. QED
      BY <2>1, <2>2
  <1>12. IsSelected(h, n, c) => Chosen(h, n, c) # 0
    BY DEF IsSelected
  <1>13. (number(Said(h, n, c)) # -1) <=> IsSelected(h, n, c)
    BY <1>a, SelectedFacts DEF n
  <1>14. Value(g, N) = e[3] /\ \A j \in 0..n : Value(g, j) = Value(h, j)
    BY <1>1 DEF Value
  <1>15. Said(g, N, c) = Entering(Said(h, n, c), e[2], e[3])
    <2>1. CASE Chosen(h, n, c) = 0
      BY <1>5, <1>12, <1>13, <2>1 DEF Said, Entering
    <2>2. CASE Chosen(h, n, c) # 0
      <3> DEFINE msb == Value(h, MsbAt(h, n, c))
                 lsb == Value(h, LsbAt(h, n, c))
                 kind == KindOf(h, n, c)
      <3>1. Value(g, MsbAt(g, N, c)) = msb /\ Value(g, LsbAt(g, N, c)) = lsb
        BY <1>9, <1>10, <1>14, <2>2
      <3>2. CASE ~IsSelected(h, n, c)
        <4>1. Said(g, N, c) = [selected |-> kind, msb |-> msb, lsb |-> lsb,
                               data_msb |-> -1, data_lsb |-> -1]
          BY <1>5, <1>9, <1>11, <2>2, <3>1, <3>2 DEF Said
        <4>2. Said(h, n, c) = [selected |-> kind, msb |-> msb, lsb |-> lsb,
                               data_msb |-> -1, data_lsb |-> -1]
          BY <2>2, <3>2 DEF Said
        <4>3. QED
          BY <1>13, <3>2, <4>1, <4>2 DEF Entering
      <3>3. CASE IsSelected(h, n, c)
        <4>1. Said(g, N, c) = [selected |-> kind, msb |-> msb, lsb |-> lsb,
                 data_msb |-> Value(g, EnteredAt(g, N, c, 6)),
                 data_lsb |-> Value(g, EnteredAt(g, N, c, 38))]
          BY <1>5, <1>9, <1>11, <2>2, <3>1, <3>3 DEF Said
        <4>2. Said(h, n, c) = [selected |-> kind, msb |-> msb, lsb |-> lsb,
                 data_msb |-> Value(h, EnteredAt(h, n, c, 6)),
                 data_lsb |-> Value(h, EnteredAt(h, n, c, 38))]
          BY <2>2, <3>3 DEF Said
        <4> HIDE DEF msb, lsb, kind
        <4>3. CASE e[2] = 6
          <5>1. /\ Value(g, EnteredAt(g, N, c, 6)) = e[3]
                /\ Value(g, EnteredAt(g, N, c, 38)) =
                     Value(h, EnteredAt(h, n, c, 38))
            BY <1>7, <1>8, <1>10, <1>14, <4>3
          <5>2. QED
            BY <1>13, <3>3, <4>1, <4>2, <4>3, <5>1 DEF Entering
        <4>4. CASE e[2] = 38
          <5>1. /\ Value(g, EnteredAt(g, N, c, 38)) = e[3]
                /\ Value(g, EnteredAt(g, N, c, 6)) =
                     Value(h, EnteredAt(h, n, c, 6))
            BY <1>7, <1>8, <1>10, <1>14, <4>4
          <5>2. QED
            BY <1>13, <3>3, <4>1, <4>2, <4>4, <5>1 DEF Entering
        <4>5. QED
          BY <4>3, <4>4
      <3>4. QED
        BY <3>2, <3>3
    <2>3. QED
      BY <2>1, <2>2
  <1>16. QED
    BY <1>7, <1>8, <1>9, <1>11, <1>12, <1>15 DEF n, N, g, c

(* A controller changes what its own channel said, and that only when it   *)
(* is about parameter numbers.                                             *)
LEMMA OthersHeard ==
    ASSUME NEW h \in Seq(Controllers), NEW e \in Controllers, NEW c,
           c # e[1] \/ e[2] \notin Told
    PROVE  Said(Append(h, e), Len(h) + 1, c) = Said(h, Len(h), c)
  <1> DEFINE n == Len(h)
             N == n + 1
             g == Append(h, e)
  <1>1. n \in Nat /\ N \in Nat /\ \A j \in 1..n : g[j] = h[j]
    OBVIOUS
  <1>2. ASSUME NEW S \in SUBSET Told
        PROVE  On(g, N, c, S) = On(h, n, c, S)
    <2>1. ~(e[1] = c /\ e[2] \in S)
      OBVIOUS
    <2>2. On(g, N, c, S) =
            On(h, n, c, S) \cup (IF e[1] = c /\ e[2] \in S THEN {N} ELSE {})
      BY OnMore
    <2> HIDE DEF g, N, n
    <2>3. QED
      BY <2>1, <2>2
  <1> HIDE DEF g, N, n
  <1>3. \A S \in SUBSET Told : On(g, N, c, S) = On(h, n, c, S)
    BY <1>2
  <1>4. /\ Chosen(g, N, c) = Chosen(h, n, c)
        /\ EnteredAt(g, N, c, 6) = EnteredAt(h, n, c, 6)
        /\ EnteredAt(g, N, c, 38) = EnteredAt(h, n, c, 38)
        /\ Chosen(h, n, c) # 0 =>
             /\ KindOf(g, N, c) = KindOf(h, n, c)
             /\ OtherAt(g, N, c) = OtherAt(h, n, c)
             /\ MsbAt(g, N, c) = MsbAt(h, n, c)
             /\ LsbAt(g, N, c) = LsbAt(h, n, c)
        /\ IsSelected(g, N, c) <=> IsSelected(h, n, c)
        /\ Said(g, N, c) = Said(h, n, c)
    BY SMTT(30), <1>1, <1>3, SameSaid
  <1>5. QED
    BY <1>4 DEF g, N, n

(* The meaning of a controller, case by case.                              *)
Entered(h, i, c) ==
    IF EnteredAt(h, i, c, 6) = 0 THEN Silent
    ELSE [kind |-> KindOf(h, i, c),
          number |-> h[MsbAt(h, i, c)][3] * 128 + h[LsbAt(h, i, c)][3],
          value |-> h[EnteredAt(h, i, c, 6)][3] * 128
                      + (IF EnteredAt(h, i, c, 38) = 0 THEN 0
                         ELSE h[EnteredAt(h, i, c, 38)][3])]

LEMMA MeaningIs ==
    ASSUME NEW h, NEW i, NEW c, c = h[i][1]
    PROVE  /\ h[i][2] \in {0, 32} \cup (98..101) => Meaning(h, i) = Silent
           /\ /\ h[i][2] \notin {0, 32} \cup (98..101)
              /\ h[i][2] \notin {6, 38} \/ ~IsSelected(h, i, c)
              => Meaning(h, i) = Cc(h[i][2], h[i][3])
           /\ h[i][2] \in {6, 38} /\ IsSelected(h, i, c) =>
                Meaning(h, i) = Entered(h, i, c)
  BY DEF Meaning, Entered

(* What a controller meant does not depend on what came after it.          *)
LEMMA MeaningStays ==
    ASSUME NEW h \in Seq(Controllers), NEW e \in Controllers,
           NEW i \in 1..Len(h)
    PROVE  Meaning(Append(h, e), i) = Meaning(h, i)
  <1> DEFINE g == Append(h, e)
             c == h[i][1]
  <1>1. i \in Nat /\ i \in 0..Len(h) /\ g[i] = h[i]
        /\ \A j \in 1..i : g[j] = h[j]
    OBVIOUS
  <1>2. \A S \in SUBSET Told : On(g, i, c, S) = On(h, i, c, S)
    BY <1>1, OnBefore
  <1> SUFFICES Meaning(g, i) = Meaning(h, i)
    OBVIOUS
  <1> HIDE DEF g
  <1>3. /\ Chosen(g, i, c) = Chosen(h, i, c)
        /\ EnteredAt(g, i, c, 6) = EnteredAt(h, i, c, 6)
        /\ EnteredAt(g, i, c, 38) = EnteredAt(h, i, c, 38)
        /\ Chosen(h, i, c) # 0 =>
             /\ KindOf(g, i, c) = KindOf(h, i, c)
             /\ MsbAt(g, i, c) = MsbAt(h, i, c)
             /\ LsbAt(g, i, c) = LsbAt(h, i, c)
        /\ IsSelected(g, i, c) <=> IsSelected(h, i, c)
    BY <1>1, <1>2, SameSaid
  <1>4. /\ MsbAt(h, i, c) \in 0..i /\ LsbAt(h, i, c) \in 0..i
        /\ EnteredAt(h, i, c, 6) \in 0..i /\ EnteredAt(h, i, c, 38) \in 0..i
    BY <1>1, MsbFacts, LsbFacts, EnteredFacts
  <1>5. \A j \in 0..i : j # 0 => g[j] = h[j]
    BY <1>1
  <1>6. IsSelected(h, i, c) =>
          Chosen(h, i, c) # 0 /\ MsbAt(h, i, c) # 0 /\ LsbAt(h, i, c) # 0
    BY DEF IsSelected
  <1>7. CASE h[i][2] \in {0, 32} \cup (98..101)
    BY <1>1, <1>7, MeaningIs
  <1>8. CASE /\ h[i][2] \notin {0, 32} \cup (98..101)
             /\ h[i][2] \notin {6, 38} \/ ~IsSelected(h, i, c)
    BY <1>1, <1>3, <1>8, MeaningIs
  <1>9. CASE /\ h[i][2] \in {6, 38}
             /\ IsSelected(h, i, c)
    <2> DEFINE v == EnteredAt(h, i, c, 6)
               w == EnteredAt(h, i, c, 38)
    <2>1. /\ v # 0 => g[v] = h[v]
          /\ w # 0 => g[w] = h[w]
          /\ g[MsbAt(h, i, c)] = h[MsbAt(h, i, c)]
          /\ g[LsbAt(h, i, c)] = h[LsbAt(h, i, c)]
      BY <1>4, <1>5, <1>6, <1>9
    <2>2. Entered(g, i, c) = Entered(h, i, c)
      BY <1>3, <1>6, <1>9, <2>1 DEF Entered
    <2>3. g[i][2] \in {6, 38} /\ IsSelected(g, i, c)
      BY <1>1, <1>3, <1>9
    <2>4. Meaning(h, i) = Entered(h, i, c)
      BY <1>9, MeaningIs
    <2>5. Meaning(g, i) = Entered(g, i, c)
      BY <1>1, <2>3, MeaningIs
    <2>6. QED
      BY <2>2, <2>4, <2>5
  <1>10. QED
    BY <1>7, <1>8, <1>9

(* The decoder does what was said.                                         *)
LEMMA DecodeHeard ==
    ASSUME NEW h \in Seq(Controllers), NEW e \in Controllers,
           e[2] \notin {0, 32}
    PROVE  LET d == decode(Said(h, Len(h), e[1]), e[2], e[3])
           IN /\ d.to = Said(Append(h, e), Len(h) + 1, e[1])
              /\ d.said = Meaning(Append(h, e), Len(h) + 1)
  <1> DEFINE n == Len(h)
             N == n + 1
             g == Append(h, e)
             c == e[1]
             s == Said(h, n, c)
             d == decode(s, e[2], e[3])
  <1>1. /\ n \in Nat /\ N \in Nat /\ N # 0
        /\ \A j \in 0..n : j # 0 => g[j] = h[j]
        /\ g[N] = e /\ e[3] \in SevenBit
    BY DEF Controllers
  <1>a. e[3] \in Nat /\ e[3] # -1
    <2>1. \A x \in SevenBit : x \in Nat /\ x # -1
      BY DEF SevenBit
    <2>2. QED
      BY <1>1, <2>1
  <1>2. CASE e[2] \in 98..101
    <2>1. e[2] \in Selections
      BY <1>2 DEF Selections
    <2>2. Said(g, N, c) = select(s, e[2], e[3])
      BY <2>1, SelectionHeard
    <2>3. d.to = select(s, e[2], e[3]) /\ d.said = Silent
      BY <1>2 DEF decode
    <2>4. Meaning(g, N) = Silent
      <3> HIDE DEF g, N
      <3>1. QED
        BY <1>1, <1>2, MeaningIs
    <2>5. QED
      BY <2>2, <2>3, <2>4
  <1>3. CASE e[2] \notin (98..101) \cup {6, 38}
    <2>1. e[2] \notin Told
      BY <1>3 DEF Told, Selections
    <2>2. Said(g, N, c) = s
      BY <2>1, OthersHeard
    <2>3. d.to = s /\ d.said = Cc(e[2], e[3])
      BY <1>3 DEF decode
    <2>4. Meaning(g, N) = Cc(e[2], e[3])
      <3> HIDE DEF g, N
      <3>1. QED
        BY <1>1, <1>3, MeaningIs
    <2>5. QED
      BY <2>2, <2>3, <2>4
  <1>4. CASE e[2] \in {6, 38}
    <2>1. /\ Said(g, N, c) = Entering(s, e[2], e[3])
          /\ IsSelected(g, N, c) <=> IsSelected(h, n, c)
          /\ EnteredAt(g, N, c, e[2]) = N
          /\ \A m \in {6, 38} : m # e[2] =>
               EnteredAt(g, N, c, m) = EnteredAt(h, n, c, m)
          /\ IsSelected(h, n, c) =>
               /\ KindOf(g, N, c) = KindOf(h, n, c)
               /\ MsbAt(g, N, c) = MsbAt(h, n, c)
               /\ LsbAt(g, N, c) = LsbAt(h, n, c)
      BY <1>4, ValueHeard
    <2>2. /\ (number(s) # -1) <=> IsSelected(h, n, c)
          /\ IsSelected(h, n, c) =>
               /\ number(s) =
                    h[MsbAt(h, n, c)][3] * 128 + h[LsbAt(h, n, c)][3]
               /\ s.selected = KindOf(h, n, c)
               /\ s.data_msb = Value(h, EnteredAt(h, n, c, 6))
               /\ s.data_lsb = Value(h, EnteredAt(h, n, c, 38))
          /\ \A m : Value(h, EnteredAt(h, n, c, m)) = -1 <=>
                      EnteredAt(h, n, c, m) = 0
      BY SelectedFacts
    <2>3. /\ MsbAt(h, n, c) \in 0..n /\ LsbAt(h, n, c) \in 0..n
          /\ \A m : EnteredAt(h, n, c, m) \in 0..n
      BY <1>1, MsbFacts, LsbFacts, EnteredFacts
    <2>4. IsSelected(h, n, c) => MsbAt(h, n, c) # 0 /\ LsbAt(h, n, c) # 0
      BY DEF IsSelected
    <2>5. e[2] \notin 98..101 /\ e[2] \notin {0, 32} \cup (98..101)
      BY <1>4
    <2>6. CASE ~IsSelected(h, n, c)
      <3>1. d.to = s /\ d.said = Cc(e[2], e[3])
        BY <2>2, <2>5, <2>6 DEF decode
      <3>2. Said(g, N, c) = s
        BY <2>1, <2>2, <2>6 DEF Entering
      <3>3. Meaning(g, N) = Cc(e[2], e[3])
        <4> HIDE DEF g, N
        <4>1. QED
          BY <1>1, <2>1, <2>5, <2>6, MeaningIs
      <3>4. QED
        BY <3>1, <3>2, <3>3
    <2>7. CASE IsSelected(h, n, c)
      <3> DEFINE to == Entering(s, e[2], e[3])
                 v == EnteredAt(g, N, c, 6)
                 w == EnteredAt(g, N, c, 38)
                 num == h[MsbAt(h, n, c)][3] * 128 + h[LsbAt(h, n, c)][3]
                 M == IF v = 0 THEN Silent
                   ELSE [kind |-> KindOf(h, n, c), number |-> num,
                         value |-> g[v][3] * 128
                                     + (IF w = 0 THEN 0 ELSE g[w][3])]
      <3>1. number(s) # -1 /\ number(s) = num
        BY <2>2, <2>7
      <3>2. d.to = to
        BY <1>4, <2>5, <3>1 DEF decode, Entering
      <3>3. d.said = IF to.data_msb = -1 THEN Silent
                     ELSE [kind |-> s.selected, number |-> number(s),
                           value |-> to.data_msb * 128
                             + (IF to.data_lsb = -1 THEN 0 ELSE to.data_lsb)]
        BY <1>4, <2>5, <3>1 DEF decode, Entering
      <3>4. /\ to.data_msb = Value(g, v)
            /\ to.data_lsb = Value(g, w)
            /\ Value(g, v) = -1 <=> v = 0
            /\ Value(g, w) = -1 <=> w = 0
        <4>1. Value(g, N) = e[3] /\ \A j \in 0..n : Value(g, j) = Value(h, j)
          BY <1>1 DEF Value
        <4>2. s \in [selected : {KindOf(h, n, c)},
                     msb : {s.msb}, lsb : {s.lsb},
                     data_msb : {Value(h, EnteredAt(h, n, c, 6))},
                     data_lsb : {Value(h, EnteredAt(h, n, c, 38))}]
          BY <2>7 DEF Said, IsSelected
        <4>3. CASE e[2] = 6
          <5>1. v = N /\ w = EnteredAt(h, n, c, 38)
            BY <2>1, <4>3
          <5>2. to.data_msb = e[3] /\ to.data_lsb = s.data_lsb
            BY <3>1, <4>2, <4>3 DEF Entering
          <5>3. Value(g, w) = Value(h, w)
            BY <2>3, <4>1, <5>1
          <5>4. QED
            BY <1>1, <1>a, <2>2, <2>7, <4>1, <5>1, <5>2, <5>3
        <4>4. CASE e[2] = 38
          <5>1. w = N /\ v = EnteredAt(h, n, c, 6)
            BY <2>1, <4>4
          <5>2. to.data_lsb = e[3] /\ to.data_msb = s.data_msb
            BY <3>1, <4>2, <4>4 DEF Entering
          <5>3. Value(g, v) = Value(h, v)
            BY <2>3, <4>1, <5>1
          <5>4. QED
            BY <1>1, <1>a, <2>2, <2>7, <4>1, <5>1, <5>2, <5>3
        <4>5. QED
          BY <1>4, <4>3, <4>4
      <3> HIDE DEF to, v, w
      <3>5. d.said = M
        BY ZenonT(30), <2>2, <2>7, <3>1, <3>3, <3>4 DEF Value
      <3>6. Meaning(g, N) = M
        <4>1. g[MsbAt(h, n, c)] = h[MsbAt(h, n, c)]
              /\ g[LsbAt(h, n, c)] = h[LsbAt(h, n, c)]
          BY <1>1, <2>3, <2>4, <2>7
        <4>2. IsSelected(g, N, c) /\ KindOf(g, N, c) = KindOf(h, n, c)
              /\ MsbAt(g, N, c) = MsbAt(h, n, c)
              /\ LsbAt(g, N, c) = LsbAt(h, n, c)
          BY <2>1, <2>7
        <4> HIDE DEF g, N
        <4>3. Meaning(g, N) = Entered(g, N, c)
          BY <1>1, <1>4, <4>2, MeaningIs
        <4>4. Entered(g, N, c) = M
          BY <4>1, <4>2 DEF Entered, v, w
        <4>5. QED
          BY <4>3, <4>4
      <3>7. d.to = Said(g, N, c) /\ d.said = Meaning(g, N)
        BY <2>1, <3>2, <3>5, <3>6 DEF to
      <3> HIDE DEF M
      <3>8. QED
        BY <3>7
    <2>8. QED
      BY <2>6, <2>7
  <1>5. QED
    BY <1>2, <1>3, <1>4

-----------------------------------------------------------------------------
(* The list of the client, as one more controller is heard.                *)

Meanings == [kind : {"none", "cc", "nrpn", "rpn"}, number : Nat, value : Nat]
Listings == [channel : Channels, kind : {"none", "cc", "nrpn", "rpn"},
             number : Nat, value : Nat]
SourceIn(h, i) == <<h[i][1], Meaning(h, i).kind, Meaning(h, i).number>>
SourceAt(x)    == <<x.channel, x.kind, x.number>>
Moved(h)       == {i \in DOMAIN h : Meaning(h, i) # Silent}
IsLast(h, i)   == \A j \in Moved(h) : j > i => SourceIn(h, j) # SourceIn(h, i)
Right(list, h, t) ==
  /\ \A i \in Moved(h) :
       i > t => \/ \E k \in DOMAIN list : SourceAt(list[k]) = SourceIn(h, i)
                \/ Len(list) = MAX_CONTROLS
  /\ \A k \in DOMAIN list, i \in Moved(h) :
       SourceAt(list[k]) = SourceIn(h, i) /\ IsLast(h, i) =>
         list[k].value = Meaning(h, i).value

LEMMA RightIs ==
    ControlsAreRight <=>
      (~history.torn => Right(controls, history.heard, history.taken))
  BY DEF ControlsAreRight, Right, Moved, IsLast, SourceIn, SourceAt

LEMMA MeaningTypes ==
    ASSUME NEW h \in Seq(Controllers), NEW i \in 1..Len(h)
    PROVE  Meaning(h, i) \in Meanings
  <1> DEFINE c == h[i][1]
             msb == MsbAt(h, i, c)
             lsb == LsbAt(h, i, c)
  <1>1. \A x \in SevenBit : x \in Nat
    BY DEF SevenBit
  <1>2. \A j \in 1..Len(h) : h[j][2] \in Nat /\ h[j][3] \in Nat
    <2>1. \A j \in 1..Len(h) : h[j][2] \in SevenBit /\ h[j][3] \in SevenBit
      BY DEF Controllers
    <2>2. QED
      BY <1>1, <2>1
  <1>3. Silent \in Meanings
        /\ \A n \in Nat, v \in Nat : Cc(n, v) \in Meanings
    BY DEF Silent, Cc, Meanings
  <1>4. i \in Nat /\ \A j \in 0..i : j # 0 => j \in 1..Len(h)
    OBVIOUS
  <1>5. /\ msb \in 0..i /\ lsb \in 0..i
        /\ \A m : EnteredAt(h, i, c, m) \in 0..i
    BY <1>4, MsbFacts, LsbFacts, EnteredFacts
  <1> HIDE DEF msb, lsb
  <1>6. CASE h[i][2] \in {6, 38} /\ IsSelected(h, i, c)
    <2>1. msb # 0 /\ lsb # 0
      BY <1>6 DEF IsSelected, msb, lsb
    <2>2. h[msb][3] \in Nat /\ h[lsb][3] \in Nat
      BY <1>2, <1>4, <1>5, <2>1
    <2>3. \A m : EnteredAt(h, i, c, m) # 0 =>
                   h[EnteredAt(h, i, c, m)][3] \in Nat
      BY <1>2, <1>4, <1>5
    <2>4. KindOf(h, i, c) \in {"nrpn", "rpn"}
      BY KindFacts DEF KindOf
    <2>5. Meaning(h, i) = Entered(h, i, c)
      BY <1>6, MeaningIs
    <2> DEFINE num == h[msb][3] * 128 + h[lsb][3]
               val == h[EnteredAt(h, i, c, 6)][3] * 128
                        + (IF EnteredAt(h, i, c, 38) = 0 THEN 0
                           ELSE h[EnteredAt(h, i, c, 38)][3])
    <2>6. num \in Nat /\ (EnteredAt(h, i, c, 6) # 0 => val \in Nat)
      <3>1. \A a \in Nat, b \in Nat : a * 128 + b \in Nat
        OBVIOUS
      <3>2. num \in Nat
        BY <2>2, <3>1
      <3>3. (IF EnteredAt(h, i, c, 38) = 0 THEN 0
             ELSE h[EnteredAt(h, i, c, 38)][3]) \in Nat
        BY <2>3
      <3>4. EnteredAt(h, i, c, 6) # 0 => val \in Nat
        BY <2>3, <3>1, <3>3
      <3>5. QED
        BY <3>2, <3>4
    <2>7. Entered(h, i, c) =
            IF EnteredAt(h, i, c, 6) = 0 THEN Silent
            ELSE [kind |-> KindOf(h, i, c), number |-> num, value |-> val]
      BY DEF Entered, msb, lsb
    <2> HIDE DEF num, val
    <2>8. QED
      BY <1>3, <2>4, <2>5, <2>6, <2>7 DEF Meanings
  <1>7. CASE ~(h[i][2] \in {6, 38} /\ IsSelected(h, i, c))
    BY <1>2, <1>3, <1>7, MeaningIs
  <1>8. QED
    BY <1>6, <1>7

(* What Report does to the list, said by sources.                          *)
Reported(list, e, to) ==
  /\ to \in Seq(Listings)
  /\ Len(to) <= MAX_CONTROLS
  /\ DOMAIN list \subseteq DOMAIN to
  /\ Len(list) <= Len(to)
  /\ \A k \in DOMAIN list : SourceAt(to[k]) = SourceAt(list[k])
  /\ \A k \in DOMAIN to :
       IF SourceAt(to[k]) = SourceAt(e) THEN to[k].value = e.value
       ELSE k \in DOMAIN list /\ to[k] = list[k]
  /\ \/ \E k \in DOMAIN to : SourceAt(to[k]) = SourceAt(e)
     \/ Len(to) = MAX_CONTROLS

LEMMA ReportIs ==
    ASSUME NEW list \in Seq(Listings), Len(list) <= MAX_CONTROLS,
           NEW ch \in Channels, NEW said \in Meanings
    PROVE  Reported(list, [channel |-> ch, kind |-> said.kind,
                           number |-> said.number, value |-> said.value],
                    Report(list, ch, said))
  <1> DEFINE e == [channel |-> ch, kind |-> said.kind,
                   number |-> said.number, value |-> said.value]
             Same(k) == [list[k] EXCEPT !.value = 0] = [e EXCEPT !.value = 0]
             to == Report(list, ch, said)
  <1>1. e \in Listings
    BY DEF Listings, Meanings
  <1>2. \A x \in Listings, y \in Listings :
          [x EXCEPT !.value = 0] = [y EXCEPT !.value = 0]
            <=> SourceAt(x) = SourceAt(y)
    <2>1. \A x \in Listings :
            [x EXCEPT !.value = 0] =
              [channel |-> x.channel, kind |-> x.kind, number |-> x.number,
               value |-> 0]
      BY SMTT(30) DEF Listings
    <2>2. \A x \in Listings, y \in Listings :
            [channel |-> x.channel, kind |-> x.kind, number |-> x.number,
             value |-> 0] =
            [channel |-> y.channel, kind |-> y.kind, number |-> y.number,
             value |-> 0]
            <=> SourceAt(x) = SourceAt(y)
      BY DEF SourceAt
    <2>3. QED
      BY <2>1, <2>2
  <1>3. /\ \A k \in DOMAIN list : list[k] \in Listings
        /\ DOMAIN list = 1..Len(list) /\ Len(list) \in Nat
    OBVIOUS
  <1>4. \A k \in DOMAIN list : Same(k) <=> SourceAt(list[k]) = SourceAt(e)
    BY <1>1, <1>2, <1>3
  <1>5. to = IF \E k \in DOMAIN list : Same(k)
             THEN [k \in DOMAIN list |-> IF Same(k) THEN e ELSE list[k]]
             ELSE IF Len(list) < MAX_CONTROLS THEN Append(list, e) ELSE list
    BY DEF Report
  <1>6. MAX_CONTROLS \in Nat
    BY WireAssumption
  <1> HIDE DEF e, Same, to
  <1>7. CASE \E k \in DOMAIN list : Same(k)
    <2>1. to = [k \in DOMAIN list |-> IF Same(k) THEN e ELSE list[k]]
      BY <1>5, <1>7
    <2>2. \A k \in 1..Len(list) : to[k] = IF Same(k) THEN e ELSE list[k]
      BY <1>3, <2>1
    <2>3. to \in Seq(Listings) /\ Len(to) = Len(list)
          /\ DOMAIN to = DOMAIN list
      BY <1>1, <1>3, <2>1
    <2>4. QED
      BY <1>3, <1>4, <1>7, <2>2, <2>3 DEF Reported, to, e
  <1>8. CASE /\ ~\E k \in DOMAIN list : Same(k)
             /\ Len(list) < MAX_CONTROLS
    <2>1. to = Append(list, e)
      BY <1>5, <1>8
    <2>2. /\ to \in Seq(Listings) /\ Len(to) = Len(list) + 1
          /\ DOMAIN to = 1..(Len(list) + 1) /\ to[Len(list) + 1] = e
          /\ \A k \in 1..Len(list) : to[k] = list[k]
      BY <1>1, <2>1
    <2>3. /\ Len(to) <= MAX_CONTROLS /\ Len(list) <= Len(to)
          /\ DOMAIN list \subseteq DOMAIN to /\ Len(list) + 1 \in DOMAIN to
          /\ \A k \in DOMAIN to : k \in DOMAIN list \/ k = Len(list) + 1
      BY <1>3, <1>6, <1>8, <2>2
    <2>4. QED
      BY <1>3, <1>4, <1>8, <2>2, <2>3 DEF Reported, to, e
  <1>9. CASE /\ ~\E k \in DOMAIN list : Same(k)
             /\ ~(Len(list) < MAX_CONTROLS)
    <2>1. to = list
      BY <1>5, <1>9
    <2>2. Len(list) = MAX_CONTROLS
      <3>1. \A a \in Nat, b \in Nat : a <= b /\ ~(a < b) => a = b
        OBVIOUS
      <3>2. QED
        BY <1>3, <1>6, <1>9, <3>1
    <2>3. QED
      BY <1>3, <1>4, <1>9, <2>1, <2>2 DEF Reported, to, e
  <1>10. QED
    BY <1>7, <1>8, <1>9

LEMMA RightOne ==
    ASSUME NEW list \in Seq(Listings), Len(list) <= MAX_CONTROLS,
           NEW h \in Seq(Controllers), NEW t \in 0..Len(h), Right(list, h, t),
           NEW e \in Controllers, NEW to,
           LET said == Meaning(Append(h, e), Len(h) + 1)
           IN to = IF said = Silent THEN list ELSE Report(list, e[1], said)
    PROVE  /\ to \in Seq(Listings) /\ Len(to) <= MAX_CONTROLS
           /\ Right(to, Append(h, e), t)
  <1> DEFINE n == Len(h)
             N == n + 1
             g == Append(h, e)
             said == Meaning(g, N)
  <1>1. /\ n \in Nat /\ N \in Nat /\ g \in Seq(Controllers) /\ Len(g) = N
        /\ DOMAIN g = 1..N /\ DOMAIN h = 1..n /\ g[N] = e
        /\ \A i \in 1..n : g[i] = h[i]
        /\ \A i \in 1..N : i \in 1..n \/ i = N
        /\ \A i \in 1..n : i \in 1..N /\ i < N /\ ~(i > N) /\ i # N
        /\ N \in 1..N /\ t \in Nat
    OBVIOUS
  <1>2. \A i \in 1..n : Meaning(g, i) = Meaning(h, i)
    BY MeaningStays
  <1>3. to = IF said = Silent THEN list ELSE Report(list, e[1], said)
    OBVIOUS
  <1>4. said \in Meanings
    BY <1>1, MeaningTypes
  <1>5. e[1] \in Channels
    BY DEF Controllers
  <1> HIDE DEF n, N, g
  <1>6. \A i \in 1..n : SourceIn(g, i) = SourceIn(h, i)
    BY <1>1, <1>2 DEF SourceIn
  <1>7. /\ \A i \in 1..n : i \in Moved(g) <=> i \in Moved(h)
        /\ \A i \in Moved(g) : i \in 1..n \/ i = N
        /\ N \in Moved(g) <=> said # Silent
        /\ \A i \in Moved(h) : i \in 1..n
    BY <1>1, <1>2 DEF Moved
  <1>8. \A i \in 1..n : IsLast(g, i) =>
          IsLast(h, i) /\ (said # Silent => SourceIn(g, N) # SourceIn(g, i))
    BY <1>1, <1>6, <1>7 DEF IsLast
  <1>9. CASE said = Silent
    <2>1. to = list
      BY <1>3, <1>9
    <2>2. \A i \in Moved(g) : i \in 1..n /\ i \in Moved(h)
      BY <1>7, <1>9
    <2>3. Right(to, g, t)
      BY <1>2, <1>6, <1>8, <2>1, <2>2 DEF Right
    <2>4. QED
      BY <2>1, <2>3 DEF g
  <1>10. CASE said # Silent
    <2> DEFINE x == [channel |-> e[1], kind |-> said.kind,
                     number |-> said.number, value |-> said.value]
    <2>1. to = Report(list, e[1], said)
      BY <1>3, <1>10
    <2>2. Reported(list, x, to)
      BY <1>4, <1>5, <2>1, ReportIs
    <2>3. SourceAt(x) = SourceIn(g, N) /\ x.value = Meaning(g, N).value
      BY <1>1 DEF SourceAt, SourceIn
    <2> HIDE DEF x, said
    <2>4. /\ to \in Seq(Listings) /\ Len(to) <= MAX_CONTROLS
          /\ DOMAIN list \subseteq DOMAIN to /\ Len(list) <= Len(to)
          /\ \A k \in DOMAIN list : SourceAt(to[k]) = SourceAt(list[k])
          /\ \A k \in DOMAIN to :
               IF SourceAt(to[k]) = SourceAt(x) THEN to[k].value = x.value
               ELSE k \in DOMAIN list /\ to[k] = list[k]
          /\ \/ \E k \in DOMAIN to : SourceAt(to[k]) = SourceAt(x)
             \/ Len(to) = MAX_CONTROLS
      BY <2>2 DEF Reported
    <2>5. Len(list) = MAX_CONTROLS => Len(to) = MAX_CONTROLS
      <3>1. Len(list) \in Nat /\ Len(to) \in Nat /\ MAX_CONTROLS \in Nat
        BY <2>4, Limits
      <3>2. \A a \in Nat, b \in Nat : a <= b /\ b <= a => a = b
        OBVIOUS
      <3>3. QED
        BY <2>4, <3>1, <3>2
    <2>6. ASSUME NEW i \in Moved(g), i > t
          PROVE  \/ \E k \in DOMAIN to : SourceAt(to[k]) = SourceIn(g, i)
                 \/ Len(to) = MAX_CONTROLS
      <3>1. CASE i = N
        BY <2>3, <2>4, <3>1
      <3>2. CASE i \in 1..n
        <4>1. \/ \E k \in DOMAIN list : SourceAt(list[k]) = SourceIn(h, i)
              \/ Len(list) = MAX_CONTROLS
          BY <1>7, <2>6, <3>2 DEF Right
        <4>2. QED
          BY <1>6, <2>4, <2>5, <3>2, <4>1
      <3>3. QED
        BY <1>7, <3>1, <3>2
    <2>7. ASSUME NEW k \in DOMAIN to, NEW i \in Moved(g),
                 SourceAt(to[k]) = SourceIn(g, i), IsLast(g, i)
          PROVE  to[k].value = Meaning(g, i).value
      <3>1. CASE i = N
        BY <2>3, <2>4, <2>7, <3>1
      <3>2. CASE i \in 1..n
        <4>1. SourceIn(g, N) # SourceIn(g, i) /\ IsLast(h, i)
              /\ i \in Moved(h)
          BY <1>7, <1>8, <1>10, <2>7, <3>2
        <4>2. k \in DOMAIN list /\ to[k] = list[k]
          BY <2>3, <2>4, <2>7, <4>1
        <4>3. SourceAt(list[k]) = SourceIn(h, i)
          BY <1>6, <2>7, <3>2, <4>2
        <4>4. list[k].value = Meaning(h, i).value
          BY <4>1, <4>2, <4>3 DEF Right
        <4>5. QED
          BY <1>2, <3>2, <4>2, <4>4
      <3>3. QED
        BY <1>7, <3>1, <3>2
    <2>8. Right(to, g, t)
      BY <2>6, <2>7 DEF Right
    <2>9. QED
      BY <2>4, <2>8 DEF g
  <1>11. QED
    BY <1>9, <1>10

-----------------------------------------------------------------------------
(* The decoder and the list of the client, one event after the other.      *)

Unheard  == {-1} \cup SevenBit
Decoders == [selected : {"none", "nrpn", "rpn"}, msb : Unheard,
             lsb : Unheard, data_msb : Unheard, data_lsb : Unheard]
Lists    == {list \in Seq(Listings) : Len(list) <= MAX_CONTROLS}
Clients  == [decoder : [Channels -> Decoders], controls : Lists, events : Nat]

LEMMA DecodeTypes ==
    ASSUME NEW c \in Decoders, NEW n \in SevenBit, NEW v \in SevenBit
    PROVE  decode(c, n, v).to \in Decoders /\ decode(c, n, v).said \in Meanings
  <1>1. -1 \in Unheard /\ v \in Unheard
    BY DEF Unheard
  <1>2. /\ c.msb \in Unheard /\ c.lsb \in Unheard
        /\ c.data_msb \in Unheard /\ c.data_lsb \in Unheard
        /\ c.selected \in {"none", "nrpn", "rpn"}
    BY DEF Decoders
  <1>3. \A x \in SevenBit : x \in Nat
    BY DEF SevenBit
  <1>4. n \in Nat /\ v \in Nat
    BY <1>3
  <1>5. \A x \in Unheard : x # -1 => x \in Nat
    BY <1>3 DEF Unheard
  <1>6. Silent \in Meanings /\ Cc(n, v) \in Meanings
    BY <1>4 DEF Silent, Cc, Meanings
  <1>7. CASE n \in 98..101
    <2>1. decode(c, n, v).to = select(c, n, v)
          /\ decode(c, n, v).said = Silent
      BY <1>7 DEF decode
    <2>2. select(c, n, v) \in Decoders
      <3> DEFINE k == SelectionKind(n)
                 m == IF c.selected = k THEN c.msb ELSE -1
      <3>1. k \in {"nrpn", "rpn"} /\ m \in Unheard
        BY <1>1, <1>2 DEF SelectionKind
      <3>2. select(c, n, v) =
              IF n = MsbCc(k)
              THEN [selected |-> k, msb |-> v, lsb |-> -1,
                    data_msb |-> -1, data_lsb |-> -1]
              ELSE [selected |-> k, msb |-> m, lsb |-> v,
                    data_msb |-> -1, data_lsb |-> -1]
        <4>1. n = MsbCc(k) => select(c, n, v) =
                 [selected |-> k, msb |-> v, lsb |-> -1,
                  data_msb |-> -1, data_lsb |-> -1]
          BY DEF select, NewChannel
        <4>2. n # MsbCc(k) => select(c, n, v) =
                 [selected |-> k, msb |-> m, lsb |-> v,
                  data_msb |-> -1, data_lsb |-> -1]
          BY DEF select, NewChannel
        <4> HIDE DEF k, m
        <4>3. QED
          BY <4>1, <4>2
      <3> HIDE DEF k, m
      <3>3. QED
        BY <1>1, <3>1, <3>2 DEF Decoders
    <2>3. QED
      BY <1>6, <2>1, <2>2
  <1>8. CASE n \notin 98..101 /\ (n \notin {6, 38} \/ number(c) = -1)
    BY <1>6, <1>8 DEF decode
  <1>9. CASE n \in {6, 38} /\ number(c) # -1
    <2> DEFINE to == IF n = 6 THEN [c EXCEPT !.data_msb = v]
                     ELSE [c EXCEPT !.data_lsb = v]
               lsb == IF to.data_lsb = -1 THEN 0 ELSE to.data_lsb
    <2>1. to \in Decoders
      BY <1>1 DEF Decoders
    <2>2. decode(c, n, v).to = to
      BY <1>9 DEF decode
    <2>3. decode(c, n, v).said =
            IF to.data_msb = -1 THEN Silent
            ELSE [kind |-> c.selected, number |-> number(c),
                  value |-> to.data_msb * 128 + lsb]
      BY <1>9 DEF decode
    <2>4. c.selected \in {"nrpn", "rpn"} /\ number(c) \in Nat
      <3>1. /\ c.selected # "none" /\ c.msb # -1 /\ c.lsb # -1
            /\ number(c) = c.msb * 128 + c.lsb
        BY <1>9 DEF number
      <3>2. c.msb \in Nat /\ c.lsb \in Nat
        BY <1>2, <1>5, <3>1
      <3>3. QED
        BY <1>2, <3>1, <3>2
    <2> HIDE DEF to
    <2>5. to.data_msb \in Unheard /\ lsb \in Nat
      BY <1>5, <2>1 DEF Decoders
    <2> HIDE DEF lsb
    <2>6. to.data_msb # -1 => to.data_msb * 128 + lsb \in Nat
      <3>1. \A a \in Nat, b \in Nat : a * 128 + b \in Nat
        OBVIOUS
      <3>2. QED
        BY <1>5, <2>5, <3>1
    <2>7. decode(c, n, v).said \in Meanings
      BY <1>6, <2>3, <2>4, <2>6 DEF Meanings
    <2>8. QED
      BY <2>1, <2>2, <2>7
  <1>10. QED
    BY <1>7, <1>8, <1>9

LEMMA ReportTypes ==
    ASSUME NEW list \in Lists, NEW ch \in Channels, NEW said \in Meanings
    PROVE  Report(list, ch, said) \in Lists
  <1>1. list \in Seq(Listings) /\ Len(list) <= MAX_CONTROLS
    BY DEF Lists
  <1>2. QED
    BY <1>1, ReportIs DEF Reported, Lists

(* What an event does, by parts.                                           *)
LEMMA HeedFacts ==
    ASSUME NEW r \in Clients, NEW e \in Sayings
    PROVE  LET d == decode(r.decoder[e.channel], e.data[1], e.data[2])
               to == heed(r, e)
           IN /\ to = [decoder |-> to.decoder, controls |-> to.controls,
                       events |-> to.events]
              /\ ~IsControl(e) =>
                   /\ to.decoder = r.decoder /\ to.controls = r.controls
                   /\ to.events = AtMost(r.events + 1, MAX_EVENTS)
              /\ IsControl(e) =>
                   /\ to.decoder = [r.decoder EXCEPT ![e.channel] = d.to]
                   /\ to.controls = IF d.said = Silent THEN r.controls
                                    ELSE Report(r.controls, e.channel, d.said)
                   /\ to.events = r.events
  <1> DEFINE d == decode(r.decoder[e.channel], e.data[1], e.data[2])
             to == heed(r, e)
             list == IF d.said = Silent THEN r.controls
                     ELSE Report(r.controls, e.channel, d.said)
             dec == [r.decoder EXCEPT ![e.channel] = d.to]
  <1>2. \A x : [r EXCEPT !.events = x] =
                 [decoder |-> r.decoder, controls |-> r.controls, events |-> x]
    BY DEF Clients
  <1>3. CASE ~IsControl(e)
    <2>1. to = [r EXCEPT !.events = AtMost(r.events + 1, MAX_EVENTS)]
      BY <1>3 DEF heed
    <2>2. to = [decoder |-> r.decoder, controls |-> r.controls,
                events |-> AtMost(r.events + 1, MAX_EVENTS)]
      BY <1>2, <2>1
    <2>3. QED
      BY <1>3, <2>2
  <1>4. CASE IsControl(e)
    <2>1. to = [decoder |-> dec, controls |-> list, events |-> r.events]
      BY <1>4 DEF heed
    <2> HIDE DEF dec, list, to
    <2>3. to.decoder = dec /\ to.controls = list /\ to.events = r.events
      BY <2>1
    <2>4. QED
      BY <1>4, <2>1, <2>3 DEF dec, list, to
  <1>5. QED
    BY <1>3, <1>4

LEMMA HeedTypes ==
    ASSUME NEW r \in Clients, NEW e \in Sayings
    PROVE  heed(r, e) \in Clients
  <1> DEFINE d == decode(r.decoder[e.channel], e.data[1], e.data[2])
             to == heed(r, e)
  <1>1. /\ r.decoder \in [Channels -> Decoders] /\ r.controls \in Lists
        /\ r.events \in Nat /\ e.channel \in Channels
    BY DEF Clients, Sayings
  <1>2. to = [decoder |-> to.decoder, controls |-> to.controls,
              events |-> to.events]
    BY HeedFacts
  <1>3. CASE ~IsControl(e)
    <2>1. /\ to.decoder = r.decoder /\ to.controls = r.controls
          /\ to.events = AtMost(r.events + 1, MAX_EVENTS)
      BY <1>3, HeedFacts
    <2>2. AtMost(r.events + 1, MAX_EVENTS) \in Nat
      BY <1>1, Limits DEF AtMost
    <2> HIDE DEF to
    <2>3. to \in Clients
      BY <1>1, <1>2, <2>1, <2>2 DEF Clients
    <2>4. QED
      BY <2>3 DEF to
  <1>4. CASE IsControl(e)
    <2>1. /\ to.decoder = [r.decoder EXCEPT ![e.channel] = d.to]
          /\ to.controls = IF d.said = Silent THEN r.controls
                           ELSE Report(r.controls, e.channel, d.said)
          /\ to.events = r.events
      BY <1>4, HeedFacts
    <2>2. d.to \in Decoders /\ d.said \in Meanings
      <3>1. e.data \in Seq(SevenBit) /\ Len(e.data) = 2
        BY <1>4 DEF IsControl, Sayings
      <3>2. e.data[1] \in SevenBit /\ e.data[2] \in SevenBit
        BY <3>1
      <3>3. QED
        BY <1>1, <3>2, DecodeTypes
    <2> HIDE DEF d, to
    <2>3. to.decoder \in [Channels -> Decoders]
      BY <1>1, <2>1, <2>2
    <2>4. to.controls \in Lists
      BY <1>1, <2>1, <2>2, ReportTypes
    <2>5. to \in Clients
      BY <1>1, <1>2, <2>1, <2>3, <2>4 DEF Clients
    <2>6. QED
      BY <2>5 DEF to
  <1>5. QED
    BY <1>3, <1>4

Listened == [decoder |-> decoder, controls |-> controls, events |-> events]
Heeding(es, after) ==
    /\ after[0] = Listened
    /\ \A i \in 1..Len(es) : after[i] = heed(after[i - 1], es[i])

LEMMA HeedIs ==
    ASSUME Listened \in Clients, NEW es \in Seq(Sayings)
    PROVE  \E after \in [0..Len(es) -> Clients] :
             Heeding(es, after) /\ heed_all(es) = after[Len(es)]
  <1> DEFINE n == Len(es)
             Step == [i \in 1..n |-> [r \in Clients |-> heed(r, es[i])]]
             Is(f) == f = [i \in 0..n |->
                        IF i = 0 THEN Listened ELSE heed(f[i - 1], es[i])]
             after == CHOOSE f : Is(f)
  <1>1. n \in Nat /\ \A i \in 1..n : es[i] \in Sayings
    OBVIOUS
  <1>2. Listened \in Clients
    OBVIOUS
  <1>3. Step \in [1..n -> [Clients -> Clients]]
    BY <1>1, HeedTypes
  <1>4. PICK f \in [0..n -> Clients] : Iterating(n, Listened, Step, f)
    <2> HIDE DEF Step, n
    <2>1. QED
      BY <1>1, <1>2, <1>3, Iteration
  <1>5. \A i \in 1..n : i - 1 \in 0..n /\ i \in 0..n /\ i # 0
    BY <1>1
  <1>6. \A i \in 1..n : Step[i][f[i - 1]] = heed(f[i - 1], es[i])
    BY <1>4, <1>5
  <1> HIDE DEF Step
  <1>7. f[0] = Listened /\ \A i \in 1..n : f[i] = Step[i][f[i - 1]]
    <2> HIDE DEF n
    <2>1. \A i \in 0..n : f[i] = IF i = 0 THEN Listened ELSE Step[i][f[i - 1]]
      BY <1>4 DEF Iterating
    <2>2. 0 \in 0..n
      BY <1>1
    <2>3. QED
      BY <1>5, <2>1, <2>2
  <1>8. f = [i \in 0..n |-> f[i]]
    BY <1>4
  <1>9. \A i \in 0..n : f[i] = IF i = 0 THEN Listened
                               ELSE heed(f[i - 1], es[i])
    <2>1. \A i \in 0..n : i # 0 => i \in 1..n
      BY <1>1
    <2> HIDE DEF n
    <2>2. QED
      BY <1>6, <1>7, <2>1
  <1>10. Is(f)
    BY <1>8, <1>9
  <1>11. Is(after)
    BY <1>10
  <1>12. heed_all(es) = after[n]
    BY DEF heed_all, Listened
  <1>13. \A i \in 0..n : after[i] = IF i = 0 THEN Listened
                                    ELSE heed(after[i - 1], es[i])
    BY <1>11
  <1> DEFINE G == {i \in 0..n : after[i] = f[i]}
  <1> HIDE DEF Is, after, n
  <1>14. 0 \in G
    BY <1>1, <1>9, <1>13
  <1>15. ASSUME NEW i \in 1..n, i - 1 \in G PROVE i \in G
    <2>1. i \in 0..n /\ i # 0 /\ after[i - 1] = f[i - 1]
      BY <1>1, <1>15
    <2>2. QED
      BY <1>9, <1>13, <2>1
  <1> HIDE DEF G
  <1>16. 0..n \subseteq G
    BY <1>1, <1>14, <1>15, CountingUp
  <1>17. after[n] = f[n]
    BY <1>1, <1>16 DEF G
  <1>18. Heeding(es, f)
    BY <1>6, <1>7 DEF Heeding, n
  <1>19. QED
    BY <1>4, <1>12, <1>17, <1>18 DEF n

(* What was heard, the decoder and the list agree, controller by           *)
(* controller.                                                             *)
Following(r, h, t) ==
    /\ h \in Seq(Controllers) /\ t \in 0..Len(h)
    /\ \A c \in Channels : r.decoder[c] = Said(h, Len(h), c)
    /\ Right(r.controls, h, t)
ControlOf(e) == <<e.channel, e.data[1], e.data[2]>>
LEMMA HeedOne ==
    ASSUME NEW r \in Clients, NEW e \in Sayings, e.kind = 11,
           NEW h, NEW t, Following(r, h, t)
    PROVE  ControlOf(e) \in Controllers
           /\ Following(heed(r, e), Append(h, ControlOf(e)), t)
  <1> DEFINE x == ControlOf(e)
             g == Append(h, x)
             said == Meaning(g, Len(h) + 1)
             to == heed(r, e)
  <1>1. x \in Controllers /\ x[1] = e.channel /\ x[2] = e.data[1]
        /\ x[3] = e.data[2] /\ e.channel \in Channels
    <2>1. e.channel \in Channels /\ e.data \in Seq(SevenBit) /\ Len(e.data) = 2
      BY DEF Sayings
    <2>2. e.data[1] \in SevenBit /\ e.data[2] \in SevenBit
      BY <2>1
    <2>3. QED
      BY <2>1, <2>2 DEF Controllers, ControlOf
  <1>2. /\ h \in Seq(Controllers) /\ t \in 0..Len(h) /\ Right(r.controls, h, t)
        /\ \A c \in Channels : r.decoder[c] = Said(h, Len(h), c)
    BY DEF Following
  <1>3. /\ r.controls \in Seq(Listings) /\ Len(r.controls) <= MAX_CONTROLS
        /\ r.decoder \in [Channels -> Decoders]
    BY DEF Clients, Lists
  <1> HIDE DEF x
  <1>4. g \in Seq(Controllers) /\ Len(g) = Len(h) + 1 /\ t \in 0..Len(g)
        /\ g[Len(h) + 1] = x
    BY <1>1, <1>2
  <1>5. CASE x[2] \in {0, 32}
    <2>1. to.decoder = r.decoder /\ to.controls = r.controls
      <3>1. ~IsControl(e)
        BY <1>1, <1>5 DEF IsControl
      <3>2. QED
        BY <3>1, HeedFacts
    <2>2. \A c \in Channels : Said(g, Len(h) + 1, c) = Said(h, Len(h), c)
      <3>1. x[2] \notin Told
        BY <1>5 DEF Told, Selections
      <3>2. QED
        BY <1>1, <1>2, <3>1, OthersHeard
    <2>3. said = Silent
      BY <1>4, <1>5, MeaningIs
    <2> HIDE DEF to, said
    <2>4. Right(to.controls, g, t)
      <3>1. to.controls = IF said = Silent THEN r.controls
                          ELSE Report(r.controls, x[1], said)
        BY <2>1, <2>3
      <3>2. QED
        BY <1>1, <1>2, <1>3, <3>1, RightOne DEF said
    <2> HIDE DEF g
    <2>5. Following(to, g, t)
      BY <1>2, <1>4, <2>1, <2>2, <2>4 DEF Following
    <2>6. QED
      BY <1>1, <2>5 DEF x, g, to
  <1>6. CASE x[2] \notin {0, 32}
    <2> DEFINE d == decode(r.decoder[e.channel], e.data[1], e.data[2])
    <2>1. /\ to.decoder = [r.decoder EXCEPT ![e.channel] = d.to]
          /\ to.controls = IF d.said = Silent THEN r.controls
                           ELSE Report(r.controls, e.channel, d.said)
      <3>1. IsControl(e)
        BY <1>1, <1>6 DEF IsControl
      <3>2. QED
        BY <3>1, HeedFacts
    <2>2. d.to = Said(g, Len(h) + 1, x[1]) /\ d.said = said
      <3>1. d = decode(Said(h, Len(h), x[1]), x[2], x[3])
        BY <1>1, <1>2
      <3>2. QED
        BY <1>1, <1>2, <1>6, <3>1, DecodeHeard
    <2> HIDE DEF d, to, said
    <2>3. \A c \in Channels : to.decoder[c] = Said(g, Len(h) + 1, c)
      <3>1. \A c \in Channels : c # x[1] =>
              Said(g, Len(h) + 1, c) = Said(h, Len(h), c)
        BY <1>1, <1>2, OthersHeard
      <3> HIDE DEF g
      <3>2. QED
        BY <1>1, <1>2, <1>3, <2>1, <2>2, <3>1
    <2>4. Right(to.controls, g, t)
      <3>1. to.controls = IF said = Silent THEN r.controls
                          ELSE Report(r.controls, x[1], said)
        BY <1>1, <2>1, <2>2
      <3>2. QED
        BY <1>1, <1>2, <1>3, <3>1, RightOne DEF said
    <2> HIDE DEF g
    <2>5. Following(to, g, t)
      BY <1>2, <1>4, <2>3, <2>4 DEF Following
    <2>6. QED
      BY <1>1, <2>5 DEF x, g, to
  <1>7. QED
    BY <1>5, <1>6

-----------------------------------------------------------------------------
(* A channel message, byte after byte.                                     *)

LEMMA DataIs ==
    ASSUME NEW a \in Assemblers, NEW b \in SevenBit, a.channel.status # 0
    PROVE  LET st == a.channel.status
               d == Append(a.channel.data, b)
           IN /\ data(a, b).channel.status = st
              /\ data(a, b).channel.data =
                   IF Len(d) >= Needs(st) THEN <<>> ELSE d
              /\ data(a, b).said =
                   IF Len(d) >= Needs(st) /\ st \div 16 \in {11, 12}
                   THEN Append(a.said, [channel |-> st % 16,
                                        kind |-> st \div 16, data |-> d])
                   ELSE a.said
  <1> DEFINE c == [a.channel EXCEPT !.data = Append(@, b)]
             event == [channel |-> c.status % 16, kind |-> c.status \div 16,
                       data |-> c.data]
  <1>1. /\ a.channel \in Running
        /\ a = [sysex |-> a.sysex, channel |-> a.channel,
                frames |-> a.frames, said |-> a.said]
    BY DEF Assemblers
  <1>2. /\ c.status = a.channel.status
        /\ c.data = Append(a.channel.data, b)
        /\ c = [status |-> c.status, data |-> c.data]
    <2>1. a.channel = [status |-> a.channel.status, data |-> a.channel.data]
      BY <1>1 DEF Running
    <2>2. QED
      BY <2>1
  <1> HIDE DEF c
  <1>3. CASE ~(Len(c.data) >= Needs(c.status))
    <2>1. data(a, b) = [a EXCEPT !.channel = c]
      BY <1>2, <1>3 DEF data, c
    <2>2. data(a, b).channel = c /\ data(a, b).said = a.said
      BY <1>1, <2>1
    <2>3. QED
      BY <1>2, <1>3, <2>2
  <1>4. CASE Len(c.data) >= Needs(c.status)
    <2> DEFINE d == [c EXCEPT !.data = <<>>]
    <2>1. d.status = c.status /\ d.data = <<>>
      BY <1>2
    <2>2. data(a, b) = [a EXCEPT !.channel = d,
                                 !.said = IF event.kind \in {11, 12}
                                          THEN Append(@, event) ELSE @]
      BY <1>2, <1>4 DEF data, c
    <2> HIDE DEF d
    <2>3. /\ data(a, b).channel = d
          /\ data(a, b).said = IF event.kind \in {11, 12}
                               THEN Append(a.said, event) ELSE a.said
      BY <1>1, <2>2
    <2>4. QED
      BY <1>2, <1>4, <2>1, <2>3
  <1>5. QED
    BY <1>3, <1>4

LEMMA DataOf ==
    ASSUME NEW a \in Assemblers, NEW b \in SevenBit, NEW st \in 128..239,
           a.channel.status = st
    PROVE  /\ data(a, b).channel.status = st
           /\ Len(Append(a.channel.data, b)) < Needs(st) =>
                /\ data(a, b).channel.data = Append(a.channel.data, b)
                /\ data(a, b).said = a.said
           /\ /\ Len(Append(a.channel.data, b)) >= Needs(st)
              /\ st \div 16 \in {11, 12}
              => /\ data(a, b).channel.data = <<>>
                 /\ data(a, b).said =
                      Append(a.said, [channel |-> st % 16,
                                      kind |-> st \div 16,
                                      data |-> Append(a.channel.data, b)])
  <1> DEFINE d == Append(a.channel.data, b)
  <1>1. a.channel.status # 0
    OBVIOUS
  <1>2. Len(d) \in Nat /\ Needs(st) \in Nat
    BY DEF Assemblers, Running, Needs
  <1>3. Len(d) < Needs(st) => ~(Len(d) >= Needs(st))
    BY <1>2
  <1>4. LET u == a.channel.status
        IN /\ data(a, b).channel.status = u
           /\ data(a, b).channel.data =
                IF Len(d) >= Needs(u) THEN <<>> ELSE d
           /\ data(a, b).said =
                IF Len(d) >= Needs(u) /\ u \div 16 \in {11, 12}
                THEN Append(a.said, [channel |-> u % 16,
                                     kind |-> u \div 16, data |-> d])
                ELSE a.said
    BY <1>1, DataIs
  <1> HIDE DEF d
  <1>5. /\ data(a, b).channel.status = st
        /\ data(a, b).channel.data =
              IF Len(d) >= Needs(st) THEN <<>> ELSE d
        /\ data(a, b).said =
              IF Len(d) >= Needs(st) /\ st \div 16 \in {11, 12}
              THEN Append(a.said, [channel |-> st % 16,
                                   kind |-> st \div 16, data |-> d])
              ELSE a.said
    BY <1>4
  <1>6. QED
    BY <1>3, <1>5 DEF d

(* What the assembler has of the first i bytes of a program change or of   *)
(* controllers.                                                            *)
ProgramSo(m, i, a) ==
    /\ i > 0 => a.sysex = <<>> /\ a.channel.status = m[1]
    /\ a.frames = <<>>
    /\ \A j \in 1..Len(a.said) : a.said[j].kind = 12
ControlsSo(m, i, a) ==
    /\ i > 0 => a.sysex = <<>> /\ a.channel.status = m[1]
    /\ i > 0 => \/ i = 2 * Len(a.said) + 1 /\ a.channel.data = <<>>
                \/ i = 2 * Len(a.said) + 2 /\ a.channel.data = <<m[i]>>
    /\ i = 0 => a.said = <<>>
    /\ a.frames = <<>>
    /\ \A j \in 1..Len(a.said) :
         /\ a.said[j].kind = 11
         /\ ControlOf(a.said[j]) = <<m[1] % 16, m[2 * j], m[2 * j + 1]>>

LEMMA StatusRead ==
    ASSUME NEW a \in Assemblers, NEW b \in 128..239
    PROVE  LET r == byte(a, b)
           IN /\ r.sysex = <<>> /\ r.frames = a.frames /\ r.said = a.said
              /\ r.channel.status = b /\ r.channel.data = <<>>
  <1>1. /\ b \in Nat /\ ~(b >= REALTIME_MIN) /\ b # SYSEX_START
        /\ b # SYSEX_END /\ b >= 128 /\ ~(b < 128)
    BY Limits
  <1>2. status(b).status = b /\ status(b).data = <<>>
    BY DEF status
  <1>3. QED
    BY <1>1, <1>2, ByteFacts

LEMMA DataRead ==
    ASSUME NEW a \in Assemblers, NEW b \in SevenBit, a.sysex = <<>>
    PROVE  LET r == byte(a, b)
           IN /\ r.sysex = <<>> /\ r.frames = a.frames
              /\ r.channel = data(a, b).channel /\ r.said = data(a, b).said
  <1>1. /\ b \in Nat /\ ~(b >= REALTIME_MIN) /\ b # SYSEX_START
        /\ b # SYSEX_END /\ ~(b >= 128) /\ b < 128
    BY Limits DEF SevenBit
  <1>2. QED
    BY <1>1, ByteFacts

LEMMA ProgramOne ==
    ASSUME NEW m \in Seq(Nat), NEW i \in 1..Len(m), NEW a \in Assemblers,
           m[1] \in 128..239, m[1] \div 16 = 12, i > 1 => m[i] \in SevenBit,
           ProgramSo(m, i - 1, a)
    PROVE  ProgramSo(m, i, byte(a, m[i]))
  <1> DEFINE r == byte(a, m[i])
  <1>1. CASE i = 1
    <2>1. /\ r.sysex = <<>> /\ r.frames = a.frames /\ r.said = a.said
          /\ r.channel.status = m[1]
      BY <1>1, StatusRead
    <2> HIDE DEF r
    <2>2. ProgramSo(m, i, r)
      BY <1>1, <2>1 DEF ProgramSo
    <2>3. QED
      BY <2>2 DEF r
  <1>2. CASE i > 1
    <2> DEFINE d == Append(a.channel.data, m[i])
               e == [channel |-> m[1] % 16, kind |-> 12, data |-> d]
    <2>1. a.sysex = <<>> /\ a.channel.status = m[1] /\ m[1] # 0
          /\ m[i] \in SevenBit /\ i - 1 > 0
      BY <1>2 DEF ProgramSo
    <2>2. /\ r.sysex = <<>> /\ r.frames = a.frames
          /\ r.channel = data(a, m[i]).channel /\ r.said = data(a, m[i]).said
      BY <2>1, DataRead
    <2>a. a.channel.data \in Seq(SevenBit)
      BY DEF Assemblers, Running
    <2>b. Len(d) >= Needs(m[1])
      <3>1. Needs(m[1]) = 1
        BY DEF Needs
      <3>2. Len(d) = Len(a.channel.data) + 1 /\ Len(a.channel.data) \in Nat
        BY <2>1, <2>a
      <3>3. QED
        BY <3>1, <3>2
    <2>3. /\ data(a, m[i]).channel.status = m[1]
          /\ data(a, m[i]).said = Append(a.said, e)
      <3> HIDE DEF d
      <3>1. m[1] \div 16 = 12 /\ m[1] \div 16 \in {11, 12}
        OBVIOUS
      <3>2. /\ data(a, m[i]).channel.status = m[1]
            /\ data(a, m[i]).said =
                 Append(a.said, [channel |-> m[1] % 16,
                                 kind |-> m[1] \div 16, data |-> d])
        <4>1. a.channel.status = m[1] /\ m[1] \in 128..239
          BY <2>1
        <4> USE DEF d
        <4>2. QED
          BY ZenonT(30), <2>1, <2>b, <3>1, <4>1, DataOf
      <3>3. QED
        BY <3>1, <3>2
    <2>4. a.said \in Seq(Sayings)
      BY DEF Assemblers
    <2> HIDE DEF r, d
    <2>5. /\ Len(a.said) \in Nat /\ Len(Append(a.said, e)) = Len(a.said) + 1
          /\ \A j \in 1..Len(a.said) : Append(a.said, e)[j] = a.said[j]
          /\ Append(a.said, e)[Len(a.said) + 1] = e /\ e.kind = 12
      BY <2>4
    <2> HIDE DEF e
    <2>6. \A j \in 1..Len(Append(a.said, e)) : Append(a.said, e)[j].kind = 12
      <3>1. \A j \in 1..(Len(a.said) + 1) : j \in 1..Len(a.said)
                                            \/ j = Len(a.said) + 1
        <4>1. \A n \in Nat : \A j \in 1..(n + 1) : j \in 1..n \/ j = n + 1
          OBVIOUS
        <4>2. QED
          BY <2>5, <4>1
      <3>2. \A j \in 1..Len(a.said) : a.said[j].kind = 12
        BY DEF ProgramSo
      <3>3. QED
        BY <2>5, <3>1, <3>2
    <2>7. ProgramSo(m, i, r)
      BY <2>2, <2>3, <2>6 DEF ProgramSo
    <2>8. QED
      BY <2>7 DEF r
  <1>3. QED
    BY <1>1, <1>2

LEMMA ControlsOne ==
    ASSUME NEW m \in Seq(Nat), NEW i \in 1..Len(m), NEW a \in Assemblers,
           m[1] \in 128..239, m[1] \div 16 = 11, i > 1 => m[i] \in SevenBit,
           ControlsSo(m, i - 1, a)
    PROVE  ControlsSo(m, i, byte(a, m[i]))
  <1> DEFINE r == byte(a, m[i])
             n == Len(a.said)
  <1>0. a.said \in Seq(Sayings) /\ n \in Nat /\ i \in Nat
    BY DEF Assemblers
  <1>1. CASE i = 1
    <2>1. /\ r.sysex = <<>> /\ r.frames = a.frames /\ r.said = a.said
          /\ r.channel.status = m[1] /\ r.channel.data = <<>>
      BY <1>1, StatusRead
    <2>2. a.said = <<>> /\ a.frames = <<>> /\ Len(<<>>) = 0
      BY <1>1 DEF ControlsSo
    <2> HIDE DEF r
    <2>3. ControlsSo(m, i, r)
      BY <1>1, <2>1, <2>2 DEF ControlsSo
    <2>4. QED
      BY <2>3 DEF r
  <1>2. CASE i > 1
    <2>1. a.sysex = <<>> /\ a.channel.status = m[1] /\ m[1] # 0
          /\ m[i] \in SevenBit /\ i - 1 > 0 /\ i # 0
      BY <1>2 DEF ControlsSo
    <2>2. /\ r.sysex = <<>> /\ r.frames = a.frames
          /\ r.channel = data(a, m[i]).channel /\ r.said = data(a, m[i]).said
      BY <2>1, DataRead
    <2>3. Needs(m[1]) = 2
      BY DEF Needs
    <2>4. CASE i - 1 = 2 * n + 1 /\ a.channel.data = <<>>
      <3>1. Append(a.channel.data, m[i]) = <<m[i]>> /\ Len(<<m[i]>>) = 1
        BY <2>4
      <3>2. /\ data(a, m[i]).channel.status = m[1]
            /\ data(a, m[i]).channel.data = <<m[i]>>
            /\ data(a, m[i]).said = a.said
        <4> DEFINE d == <<m[i]>>
        <4>1. Append(a.channel.data, m[i]) = d
              /\ Len(Append(a.channel.data, m[i])) < Needs(m[1])
          BY <2>3, <3>1
        <4> HIDE DEF d
        <4>2. /\ data(a, m[i]).channel.status = m[1]
              /\ data(a, m[i]).channel.data = Append(a.channel.data, m[i])
              /\ data(a, m[i]).said = a.said
          BY ZenonT(30), <2>1, <4>1, DataOf
        <4>3. QED
          BY <4>1, <4>2 DEF d
      <3>3. i = 2 * n + 2
        BY <1>0, <2>4
      <3> HIDE DEF r
      <3>4. ControlsSo(m, i, r)
        BY <2>1, <2>2, <3>2, <3>3 DEF ControlsSo
      <3>5. QED
        BY <3>4 DEF r
    <2>5. CASE i - 1 = 2 * n + 2 /\ a.channel.data = <<m[i - 1]>>
      <3> DEFINE d == <<m[i - 1], m[i]>>
                 e == [channel |-> m[1] % 16, kind |-> 11, data |-> d]
                 said == Append(a.said, e)
      <3>1. Append(a.channel.data, m[i]) = d /\ Len(d) = 2
        <4>1. \A x \in Nat, y \in Nat : Append(<<x>>, y) = <<x, y>>
                                       /\ Len(<<x, y>>) = 2
          <5>1. ASSUME NEW x \in Nat, NEW y \in Nat
                PROVE  Append(<<x>>, y) = <<x, y>> /\ Len(<<x, y>>) = 2
            <6>1. <<x>> \in Seq(Nat) /\ <<x, y>> \in Seq(Nat)
                  /\ Len(<<x>>) = 1 /\ Len(<<x, y>>) = 2
                  /\ <<x>>[1] = x /\ <<x, y>>[1] = x /\ <<x, y>>[2] = y
              OBVIOUS
            <6> DEFINE s == <<x>>
                       t == <<x, y>>
            <6> HIDE DEF s, t
            <6>2. /\ Append(s, y) \in Seq(Nat) /\ Len(Append(s, y)) = 2
                  /\ Append(s, y)[1] = x /\ Append(s, y)[2] = y
              BY <6>1 DEF s
            <6>3. \A z \in 1..2 : z = 1 \/ z = 2
              OBVIOUS
            <6>4. \A z \in 1..Len(t) : Append(s, y)[z] = t[z]
              BY <6>1, <6>2, <6>3 DEF t
            <6>5. Append(s, y) = t
              BY <6>1, <6>2, <6>4, SeqEqual DEF t
            <6>6. QED
              BY <6>1, <6>5 DEF s, t
          <5>2. QED
            BY <5>1
        <4>2. m[i - 1] \in Nat /\ m[i] \in Nat
          BY SMTT(30), <1>0, <1>2
        <4>3. QED
          BY <2>5, <4>1, <4>2
      <3>2. /\ data(a, m[i]).channel.status = m[1]
            /\ data(a, m[i]).channel.data = <<>>
            /\ data(a, m[i]).said = said
        <4> HIDE DEF d
        <4>1. Append(a.channel.data, m[i]) = d
              /\ Len(Append(a.channel.data, m[i])) >= Needs(m[1])
              /\ m[1] \div 16 \in {11, 12}
          BY <2>3, <3>1
        <4>2. /\ data(a, m[i]).channel.status = m[1]
              /\ data(a, m[i]).channel.data = <<>>
              /\ data(a, m[i]).said =
                   Append(a.said, [channel |-> m[1] % 16,
                                   kind |-> m[1] \div 16,
                                   data |-> Append(a.channel.data, m[i])])
          BY ZenonT(30), <2>1, <4>1, DataOf
        <4>3. QED
          BY <4>1, <4>2
      <3>3. i - 1 = 2 * (n + 1) /\ i = 2 * (n + 1) + 1
        BY <1>0, <2>5
      <3>4. e.kind = 11 /\ ControlOf(e) = <<m[1] % 16, m[i - 1], m[i]>>
        BY DEF ControlOf
      <3> HIDE DEF e, d, r
      <3>5. /\ Len(said) = n + 1 /\ said[n + 1] = e
            /\ \A j \in 1..n : said[j] = a.said[j]
            /\ \A j \in 1..(n + 1) : j \in 1..n \/ j = n + 1
        BY <1>0
      <3>6. \A j \in 1..n :
              /\ a.said[j].kind = 11
              /\ ControlOf(a.said[j]) = <<m[1] % 16, m[2 * j], m[2 * j + 1]>>
        BY DEF ControlsSo
      <3> HIDE DEF said
      <3>7. \A j \in 1..(n + 1) :
              /\ said[j].kind = 11
              /\ ControlOf(said[j]) = <<m[1] % 16, m[2 * j], m[2 * j + 1]>>
        <4>1. said[n + 1].kind = 11 /\ ControlOf(said[n + 1]) =
                <<m[1] % 16, m[2 * (n + 1)], m[2 * (n + 1) + 1]>>
          BY <3>3, <3>4, <3>5
        <4>2. ASSUME NEW j \in 1..n
              PROVE  /\ said[j].kind = 11
                     /\ ControlOf(said[j]) =
                          <<m[1] % 16, m[2 * j], m[2 * j + 1]>>
          <5>1. said[j] = a.said[j]
            BY <3>5
          <5>2. QED
            BY <3>6, <5>1
        <4> HIDE DEF n
        <4>3. ASSUME NEW j \in 1..(n + 1)
              PROVE  /\ said[j].kind = 11
                     /\ ControlOf(said[j]) =
                          <<m[1] % 16, m[2 * j], m[2 * j + 1]>>
          <5>1. CASE j = n + 1
            BY <4>1, <5>1
          <5>2. CASE j \in 1..n
            BY <4>2, <5>2
          <5>3. QED
            BY <3>5, <5>1, <5>2
        <4>4. QED
          BY <4>3
      <3>8. r.said = said /\ r.channel.data = <<>> /\ r.channel.status = m[1]
            /\ a.frames = <<>>
        BY <2>2, <3>2 DEF ControlsSo
      <3>9. ControlsSo(m, i, r)
        BY <2>1, <2>2, <3>3, <3>5, <3>7, <3>8 DEF ControlsSo
      <3>10. QED
        BY <3>9 DEF r
    <2>6. QED
      BY <2>1, <2>4, <2>5 DEF ControlsSo
  <1>3. QED
    BY <1>1, <1>2

LEMMA ChannelBytes ==
    ASSUME NEW m, IsChannelMessage(m)
    PROVE  /\ m \in Seq(WireBytes) /\ m \in Seq(Nat) /\ Len(m) > 1
           /\ m[1] \in 128..239 /\ m[1] % 16 \in Channels
           /\ \A i \in 2..Len(m) : m[i] \in SevenBit
           /\ (Len(m) - 1) % Needs(m[1]) = 0
  <1>1. /\ m \in Seq(Nat) /\ Len(m) > 1
        /\ m[1] \in 128..239 /\ m[1] % 16 \in Channels
        /\ \A i \in 2..Len(m) : m[i] \in SevenBit
        /\ (Len(m) - 1) % Needs(m[1]) = 0
    BY DEF IsChannelMessage
  <1>2. ASSUME NEW i \in 1..Len(m) PROVE m[i] \in WireBytes
    <2>1. CASE i = 1
      BY <1>1, <2>1 DEF WireBytes
    <2>2. CASE i # 1
      <3>1. m[i] \in SevenBit
        BY <1>1, <2>2
      <3>2. \A x \in SevenBit : x \in WireBytes
        BY DEF SevenBit, WireBytes
      <3>3. QED
        BY <3>1, <3>2
    <2>3. QED
      BY <2>1, <2>2
  <1>3. m \in Seq(WireBytes)
    <2>1. m \in [1..Len(m) -> WireBytes] /\ Len(m) \in Nat
      BY <1>1, <1>2
    <2>2. QED
      BY <2>1, SeqDef
  <1>4. QED
    BY <1>1, <1>3

LEMMA ProgramRead ==
    ASSUME sysex \in Seq(Nat), channel \in Running,
           NEW m, IsChannelMessage(m), m[1] \div 16 = 12
    PROVE  /\ feed(m).frames = <<>> /\ feed(m).sysex = <<>>
           /\ \A j \in 1..Len(feed(m).said) : feed(m).said[j].kind = 12
  <1> DEFINE n == Len(m)
  <1>1. /\ m \in Seq(WireBytes) /\ m \in Seq(Nat) /\ n > 1 /\ n \in Nat
        /\ m[1] \in 128..239 /\ \A i \in 2..n : m[i] \in SevenBit
    BY ChannelBytes
  <1>2. PICK after \in [0..n -> Assemblers] :
           Feeding(m, after) /\ feed(m) = after[n]
    BY <1>1, FeedIs
  <1> DEFINE G == {i \in 0..n : ProgramSo(m, i, after[i])}
  <1>3. 0 \in G
    <2>1. Waiting.frames = <<>> /\ Waiting.said = <<>> /\ Len(<<>>) = 0
      BY DEF Waiting
    <2>2. ProgramSo(m, 0, Waiting)
      BY <2>1 DEF ProgramSo
    <2>3. QED
      BY <1>1, <1>2, <2>2 DEF Feeding
  <1>4. ASSUME NEW i \in 1..n, i - 1 \in G PROVE i \in G
    <2>1. i - 1 \in 0..n /\ i \in 0..n /\ (i > 1 => m[i] \in SevenBit)
          /\ ProgramSo(m, i - 1, after[i - 1]) /\ after[i - 1] \in Assemblers
      <3>1. i - 1 \in 0..n /\ i \in 0..n /\ (i > 1 => i \in 2..n)
        BY <1>1
      <3>2. ProgramSo(m, i - 1, after[i - 1])
        BY <1>4
      <3>3. after[i - 1] \in Assemblers
        BY <1>2, <3>1
      <3> HIDE DEF n, G
      <3>4. QED
        BY <1>1, <3>1, <3>2, <3>3
    <2>2. after[i] = byte(after[i - 1], m[i])
      BY <1>2 DEF Feeding
    <2>3. ProgramSo(m, i, byte(after[i - 1], m[i]))
      BY <1>1, <2>1, ProgramOne
    <2>4. QED
      BY <2>1, <2>2, <2>3
  <1> HIDE DEF G
  <1>5. 0..n \subseteq G
    BY <1>1, <1>3, <1>4, CountingUp
  <1>6. ProgramSo(m, n, feed(m))
    BY <1>1, <1>2, <1>5 DEF G
  <1>7. QED
    BY <1>1, <1>6 DEF ProgramSo

LEMMA ControllersRead ==
    ASSUME sysex \in Seq(Nat), channel \in Running,
           NEW m, IsChannelMessage(m), m[1] \div 16 = 11
    PROVE  /\ feed(m).frames = <<>> /\ feed(m).sysex = <<>>
           /\ ControlsOf(m) \in Seq(Controllers)
           /\ Len(ControlsOf(m)) = Len(feed(m).said)
           /\ \A j \in 1..Len(feed(m).said) :
                /\ feed(m).said[j].kind = 11
                /\ ControlOf(feed(m).said[j]) = ControlsOf(m)[j]
  <1> DEFINE n == Len(m)
             a == feed(m)
             k == Len(a.said)
  <1>1. /\ m \in Seq(WireBytes) /\ m \in Seq(Nat) /\ n > 1 /\ n \in Nat
        /\ m[1] \in 128..239 /\ m[1] % 16 \in Channels
        /\ \A i \in 2..n : m[i] \in SevenBit
    BY ChannelBytes
  <1>2. PICK after \in [0..n -> Assemblers] :
           Feeding(m, after) /\ feed(m) = after[n]
    BY <1>1, FeedIs
  <1> DEFINE G == {i \in 0..n : ControlsSo(m, i, after[i])}
  <1>3. 0 \in G
    <2>1. Waiting.frames = <<>> /\ Waiting.said = <<>> /\ Len(<<>>) = 0
      BY DEF Waiting
    <2>2. ControlsSo(m, 0, Waiting)
      BY <2>1 DEF ControlsSo
    <2>3. QED
      BY <1>1, <1>2, <2>2 DEF Feeding
  <1>4. ASSUME NEW i \in 1..n, i - 1 \in G PROVE i \in G
    <2>1. i - 1 \in 0..n /\ i \in 0..n /\ (i > 1 => m[i] \in SevenBit)
          /\ ControlsSo(m, i - 1, after[i - 1]) /\ after[i - 1] \in Assemblers
      <3>1. i - 1 \in 0..n /\ i \in 0..n /\ (i > 1 => i \in 2..n)
        BY <1>1
      <3>2. ControlsSo(m, i - 1, after[i - 1])
        BY <1>4
      <3>3. after[i - 1] \in Assemblers
        BY <1>2, <3>1
      <3> HIDE DEF n, G
      <3>4. QED
        BY <1>1, <3>1, <3>2, <3>3
    <2>2. after[i] = byte(after[i - 1], m[i])
      BY <1>2 DEF Feeding
    <2>3. ControlsSo(m, i, byte(after[i - 1], m[i]))
      BY <1>1, <2>1, ControlsOne
    <2>4. QED
      BY <2>1, <2>2, <2>3
  <1> HIDE DEF G
  <1>5. 0..n \subseteq G
    BY <1>1, <1>3, <1>4, CountingUp
  <1>6. ControlsSo(m, n, a) /\ a \in Assemblers
    <2>1. n \in 0..n
      BY <1>1
    <2>2. n \in G
      BY <1>5, <2>1
    <2>3. ControlsSo(m, n, after[n])
      BY <2>2 DEF G
    <2>4. after[n] \in Assemblers
      BY <1>2, <2>1
    <2>5. QED
      BY <1>2, <2>3, <2>4
  <1>7. a.said \in Seq(Sayings) /\ k \in Nat
    BY <1>6 DEF Assemblers
  <1>8. n = 2 * k + 1
    <2>1. n = 2 * k + 1 \/ n = 2 * k + 2
      BY <1>1, <1>6 DEF ControlsSo
    <2>2. (n - 1) % 2 = 0
      <3>1. (n - 1) % Needs(m[1]) = 0
        BY ChannelBytes
      <3>2. Needs(m[1]) = 2
        BY DEF Needs
      <3>3. QED
        BY <3>1, <3>2
    <2> HIDE DEF k, n
    <2>3. QED
      BY <1>7, <2>1, <2>2
  <1>9. (n - 1) \div 2 = k
    <2> HIDE DEF k, n
    <2>1. QED
      BY <1>7, <1>8
  <1>10. ControlsOf(m) = [j \in 1..k |-> <<m[1] % 16, m[2 * j], m[2 * j + 1]>>]
    BY <1>9 DEF ControlsOf
  <1>11. /\ a.frames = <<>> /\ a.sysex = <<>>
         /\ \A j \in 1..k :
              /\ a.said[j].kind = 11
              /\ ControlOf(a.said[j]) = <<m[1] % 16, m[2 * j], m[2 * j + 1]>>
    BY <1>1, <1>6 DEF ControlsSo
  <1> HIDE DEF a, k
  <1>12. \A j \in 1..k : <<m[1] % 16, m[2 * j], m[2 * j + 1]>> \in Controllers
    <2>1. ASSUME NEW j \in 1..k
          PROVE  m[2 * j] \in SevenBit /\ m[2 * j + 1] \in SevenBit
      <3>1. 2 * j \in 2..n /\ 2 * j + 1 \in 2..n
        <4> HIDE DEF n
        <4>1. QED
          BY <1>7, <1>8
      <3>2. QED
        BY <1>1, <3>1
    <2>2. QED
      BY <1>1, <2>1 DEF Controllers
  <1>13. ControlsOf(m) \in [1..k -> Controllers]
    BY <1>10, <1>12
  <1>14. ControlsOf(m) \in Seq(Controllers) /\ Len(ControlsOf(m)) = k
    BY <1>7, <1>13
  <1>15. QED
    BY <1>10, <1>11, <1>14 DEF a, k

-----------------------------------------------------------------------------
(* What a chunk does to the decoder and the list.                          *)

LEMMA HeedNothing ==
    ASSUME Listened \in Clients
    PROVE  heed_all(<<>>) = Listened
  <1>1. <<>> \in Seq(Sayings) /\ Len(<<>>) = 0
    OBVIOUS
  <1>2. PICK after \in [0..0 -> Clients] :
           Heeding(<<>>, after) /\ heed_all(<<>>) = after[0]
    BY <1>1, HeedIs
  <1>3. QED
    BY <1>2 DEF Heeding

LEMMA HeedAllTypes ==
    ASSUME Listened \in Clients, NEW es \in Seq(Sayings)
    PROVE  heed_all(es) \in Clients
  <1>1. PICK after \in [0..Len(es) -> Clients] :
           Heeding(es, after) /\ heed_all(es) = after[Len(es)]
    BY HeedIs
  <1>2. Len(es) \in 0..Len(es)
    OBVIOUS
  <1>3. QED
    BY <1>1, <1>2

(* Programs.                                                               *)
LEMMA HeedPrograms ==
    ASSUME Listened \in Clients, NEW es \in Seq(Sayings),
           \A j \in 1..Len(es) : es[j].kind = 12
    PROVE  heed_all(es).decoder = decoder /\ heed_all(es).controls = controls
  <1> DEFINE n == Len(es)
  <1>1. PICK after \in [0..n -> Clients] :
           Heeding(es, after) /\ heed_all(es) = after[n]
    BY HeedIs
  <1>2. n \in Nat /\ n \in 0..n /\ \A i \in 1..n : es[i] \in Sayings
    OBVIOUS
  <1> DEFINE G == {i \in 0..n : /\ after[i].decoder = decoder
                                /\ after[i].controls = controls}
  <1>3. 0 \in G
    <2>1. Listened.decoder = decoder /\ Listened.controls = controls
      BY DEF Listened
    <2>2. QED
      BY <1>1, <1>2, <2>1 DEF Heeding
  <1>4. ASSUME NEW i \in 1..n, i - 1 \in G PROVE i \in G
    <2>1. i - 1 \in 0..n /\ i \in 0..n
      BY <1>2
    <2>2. after[i - 1] \in Clients /\ es[i] \in Sayings /\ ~IsControl(es[i])
      BY <1>1, <1>2, <2>1 DEF IsControl
    <2>3. after[i] = heed(after[i - 1], es[i])
      BY <1>1 DEF Heeding
    <2>4. /\ heed(after[i - 1], es[i]).decoder = after[i - 1].decoder
          /\ heed(after[i - 1], es[i]).controls = after[i - 1].controls
      BY <2>2, HeedFacts
    <2>5. QED
      BY <1>4, <2>1, <2>3, <2>4
  <1> HIDE DEF G
  <1>5. 0..n \subseteq G
    BY <1>2, <1>3, <1>4, CountingUp
  <1>6. QED
    BY <1>1, <1>2, <1>5 DEF G

(* Controllers.                                                            *)
LEMMA ControlsPrefixes ==
    \A s \in Seq(Controllers) :
      /\ SubSeq(s, 1, 0) = <<>>
      /\ SubSeq(s, 1, Len(s)) = s
      /\ \A i \in 0..Len(s) : SubSeq(s, 1, i) \in Seq(Controllers)
      /\ \A i \in 1..Len(s) :
           SubSeq(s, 1, i) = Append(SubSeq(s, 1, i - 1), s[i])
  BY Prefixing

LEMMA AfterOneControl ==
    \A s \in Seq(Controllers), t \in Seq(Controllers), x \in Controllers :
      s \o Append(t, x) = Append(s \o t, x)
  BY AfterOne

LEMMA HeedControls ==
    ASSUME Listened \in Clients, NEW es \in Seq(Sayings),
           NEW cs \in Seq(Controllers), Len(cs) = Len(es),
           \A j \in 1..Len(es) :
             es[j].kind = 11 /\ ControlOf(es[j]) = cs[j],
           NEW h, NEW t, Following(Listened, h, t)
    PROVE  Following(heed_all(es), h \o cs, t)
  <1> DEFINE n == Len(es)
             C(i) == SubSeq(cs, 1, i)
             H(i) == h \o C(i)
  <1>1. PICK after \in [0..n -> Clients] :
           Heeding(es, after) /\ heed_all(es) = after[n]
    BY HeedIs
  <1>2. n \in Nat /\ n \in 0..n /\ (\A i \in 1..n : es[i] \in Sayings)
        /\ h \in Seq(Controllers) /\ Len(cs) = n
    BY DEF Following
  <1>3. /\ C(0) = <<>> /\ C(n) = cs
        /\ \A i \in 0..n : C(i) \in Seq(Controllers)
        /\ \A i \in 1..n : C(i) = Append(C(i - 1), cs[i])
    BY <1>2, ControlsPrefixes
  <1>4. H(0) = h /\ H(n) = h \o cs
    <2>1. h \o <<>> = h
      BY <1>2
    <2>2. QED
      BY <1>3, <2>1
  <1>5. ASSUME NEW i \in 1..n PROVE H(i) = Append(H(i - 1), cs[i])
    <2>1. i - 1 \in 0..n /\ cs[i] \in Controllers
      BY <1>2
    <2>2. C(i - 1) \in Seq(Controllers) /\ C(i) = Append(C(i - 1), cs[i])
      BY <1>3, <2>1
    <2> HIDE DEF C
    <2>3. h \o Append(C(i - 1), cs[i]) = Append(h \o C(i - 1), cs[i])
      BY <1>2, <2>1, <2>2, AfterOneControl
    <2>4. QED
      BY <2>2, <2>3
  <1> HIDE DEF H, C
  <1> DEFINE G == {i \in 0..n : Following(after[i], H(i), t)}
  <1>6. 0 \in G
    <2>1. after[0] = Listened
      BY <1>1 DEF Heeding
    <2>2. Following(after[0], H(0), t)
      BY <1>4, <2>1
    <2>3. QED
      BY <1>2, <2>2
  <1>7. ASSUME NEW i \in 1..n, i - 1 \in G PROVE i \in G
    <2>1. i - 1 \in 0..n /\ i \in 0..n
      BY <1>2
    <2>2. /\ after[i - 1] \in Clients /\ es[i] \in Sayings /\ es[i].kind = 11
          /\ ControlOf(es[i]) = cs[i]
      BY <1>1, <1>2, <2>1
    <2>3. after[i] = heed(after[i - 1], es[i])
      BY <1>1 DEF Heeding
    <2>4. Following(after[i - 1], H(i - 1), t)
      BY <1>7
    <2>5. Following(heed(after[i - 1], es[i]),
                    Append(H(i - 1), ControlOf(es[i])), t)
      BY <2>2, <2>4, HeedOne
    <2>6. Following(after[i], H(i), t)
      BY <1>5, <2>2, <2>3, <2>5
    <2>7. QED
      BY <2>1, <2>6
  <1> HIDE DEF G
  <1>8. 0..n \subseteq G
    BY <1>2, <1>6, <1>7, CountingUp
  <1>9. Following(after[n], H(n), t)
    BY <1>2, <1>8 DEF G
  <1>10. QED
    BY <1>1, <1>4, <1>9

-----------------------------------------------------------------------------
(* The invariant.                                                          *)

Histories ==
  [sent : Seq(Seq(Nat)), got : Seq(Seq(Nat)), doubt : BOOLEAN,
   stream : Seq(Nat), found : Seq(Seq(Nat)), heard : Seq(Controllers),
   taken : Nat, torn : BOOLEAN]
Types ==
  /\ player \in Players
  /\ out \in Seq(Nat) /\ whole \in Seq(Nat)
  /\ sysex \in Seq(Nat) /\ channel \in Running
  /\ Listened \in Clients
  /\ history \in Histories

(* What is still to come is the end of a message; of a channel message it  *)
(* is all of it.                                                           *)
Gone == Len(whole) - Len(out)
Sending ==
  out # <<>> =>
    /\ IsSysexMessage(whole) \/ IsChannelMessage(whole)
    /\ Len(out) <= Len(whole)
    /\ \A i \in 1..Len(out) : out[i] = whole[Gone + i]
    /\ IsChannelMessage(whole) => out = whole

(* In the middle of a SysEx of which nothing was lost the assembler has    *)
(* what has come of it.                                                    *)
InMiddle == out # <<>> /\ out # whole
Framing == InMiddle /\ ~history.doubt => sysex = ReadOf(whole, Gone)

AgreedOn == Agreeing(history.stream, sysex, history.found)

(* No channel message runs in the middle of a SysEx, and the decoder and   *)
(* the list follow what was heard.                                         *)
Hearing ==
  ~history.torn =>
    /\ InMiddle => channel.status = 0
    /\ Following(Listened, history.heard, history.taken)

WireInv == Types /\ Sending /\ Framing /\ ReadAsSent /\ AgreedOn /\ Hearing

LEMMA MessageKinds ==
    ASSUME NEW m
    PROVE  /\ IsSysexMessage(m) => IsSysex(m)
           /\ IsChannelMessage(m) => ~IsSysex(m)
           /\ IsSysexMessage(m) \/ IsChannelMessage(m) =>
                m \in Seq(Nat) /\ Len(m) > 1 /\ m # <<>>
  <1>1. IsSysexMessage(m) => IsSysex(m)
    BY DEF IsSysexMessage
  <1>2. IsChannelMessage(m) => ~IsSysex(m)
    <2>1. \A b \in 128..239 : b # SYSEX_START
      BY DEF SYSEX_START
    <2>2. QED
      BY <2>1 DEF IsChannelMessage, IsSysex
  <1>3. IsSysexMessage(m) => m \in Seq(Nat) /\ Len(m) > 1
    BY DEF IsSysexMessage
  <1>4. IsChannelMessage(m) => m \in Seq(Nat) /\ Len(m) > 1
    BY DEF IsChannelMessage
  <1>5. m \in Seq(Nat) /\ Len(m) > 1 => m # <<>>
    OBVIOUS
  <1>6. QED
    BY <1>1, <1>2, <1>3, <1>4, <1>5

(* What is lost, and what is sent, in the history.                         *)
LEMMA SentFacts ==
    ASSUME Types, NEW k \in DOMAIN out, NEW chunk, Sent(k, chunk)
    PROVE  LET lost  == chunk = <<>>
               doubt == history.doubt \/ lost
               done  == k = Len(out) /\ IsSysex(whole) /\ ~doubt
           IN /\ out' = SubSeq(out, k + 1, Len(out)) /\ whole' = whole
              /\ DOMAIN history' = DOMAIN history
              /\ history'.doubt = doubt
              /\ history'.torn = (history.torn \/ (lost /\ IsSysex(whole)))
              /\ history'.sent = IF done THEN Append(history.sent, whole)
                                 ELSE history.sent
              /\ history'.stream = history.stream \o chunk
              /\ history'.found = history.found \o feed(chunk).frames
              /\ history'.got = IF doubt THEN history.got
                                ELSE history.got \o feed(chunk).frames
              /\ history'.heard = IF lost THEN history.heard
                                  ELSE history.heard \o ControlsOf(whole)
              /\ history'.taken = history.taken
  BY DEF Sent, Types, Histories

LEMMA SentTypes ==
    ASSUME Types, NEW k \in DOMAIN out, NEW chunk \in Seq(Nat),
           Sent(k, chunk), feed(chunk) \in Assemblers,
           chunk # <<>> => ControlsOf(whole) \in Seq(Controllers)
    PROVE  history' \in Histories
  <1> DEFINE lost  == chunk = <<>>
             doubt == history.doubt \/ lost
             done  == k = Len(out) /\ IsSysex(whole) /\ ~doubt
             torn  == history.torn \/ (lost /\ IsSysex(whole))
             sent  == IF done THEN Append(history.sent, whole)
                      ELSE history.sent
             stream == history.stream \o chunk
             found == history.found \o feed(chunk).frames
             got   == IF doubt THEN history.got
                      ELSE history.got \o feed(chunk).frames
             heard == IF lost THEN history.heard
                      ELSE history.heard \o ControlsOf(whole)
  <1>1. history \in Histories /\ whole \in Seq(Nat)
        /\ feed(chunk).frames \in Seq(Seq(Nat))
    BY DEF Types, Assemblers
  <1>2. history.sent \in Seq(Seq(Nat)) /\ history.got \in Seq(Seq(Nat))
        /\ history.stream \in Seq(Nat) /\ history.found \in Seq(Seq(Nat))
        /\ history.heard \in Seq(Controllers) /\ history.doubt \in BOOLEAN
        /\ history.torn \in BOOLEAN
    BY <1>1 DEF Histories
  <1>3. sent \in Seq(Seq(Nat)) /\ got \in Seq(Seq(Nat))
        /\ stream \in Seq(Nat) /\ found \in Seq(Seq(Nat))
    BY <1>1, <1>2
  <1>4. heard \in Seq(Controllers)
    BY <1>2
  <1>5. doubt \in BOOLEAN /\ torn \in BOOLEAN
    BY <1>2
  <1>6. history' = [history EXCEPT !.doubt = doubt, !.torn = torn,
                      !.sent = sent, !.stream = stream, !.found = found,
                      !.got = got, !.heard = heard]
    BY DEF Sent
  <1> HIDE DEF doubt, torn, sent, stream, found, got, heard
  <1>7. QED
    BY <1>1, <1>3, <1>4, <1>5, <1>6 DEF Histories

(* The rest of a message, and a chunk of it.                               *)
LEMMA RestFacts ==
    ASSUME Types, Sending, out # <<>>
    PROVE  /\ Len(out) \in Nat /\ Len(out) > 0 /\ Len(whole) \in Nat
           /\ Gone \in 0..Len(whole) /\ Gone < Len(whole)
           /\ Gone + Len(out) = Len(whole)
           /\ Gone = 0 <=> out = whole
           /\ \A i \in 1..Len(out) : out[i] = whole[Gone + i]
           /\ IsSysexMessage(whole) \/ IsChannelMessage(whole)
           /\ IsChannelMessage(whole) => out = whole
  <1>1. /\ out \in Seq(Nat) /\ whole \in Seq(Nat)
        /\ Len(out) <= Len(whole)
        /\ \A i \in 1..Len(out) : out[i] = whole[Gone + i]
        /\ IsSysexMessage(whole) \/ IsChannelMessage(whole)
        /\ IsChannelMessage(whole) => out = whole
    BY DEF Types, Sending
  <1>2. Len(out) \in Nat /\ Len(out) > 0 /\ Len(whole) \in Nat
    BY <1>1
  <1>3. /\ Gone \in 0..Len(whole) /\ Gone < Len(whole)
        /\ Gone + Len(out) = Len(whole)
        /\ Gone = 0 <=> Len(out) = Len(whole)
    BY <1>1, <1>2 DEF Gone
  <1>4. Gone = 0 => out = whole
    <2>1. SUFFICES ASSUME Gone = 0 PROVE out = whole
      OBVIOUS
    <2>2. Len(out) = Len(whole)
      BY <1>3, <2>1
    <2>3. \A i \in 1..Len(out) : out[i] = whole[i]
      <3>1. \A i \in 1..Len(out) : Gone + i = i
        BY <1>2, <2>1
      <3>2. QED
        BY <1>1, <3>1
    <2>4. QED
      BY <1>1, <2>2, <2>3, SeqEqual
  <1>5. out = whole => Gone = 0
    BY <1>3
  <1>6. QED
    BY <1>1, <1>2, <1>3, <1>4, <1>5

LEMMA TailFacts ==
    ASSUME NEW s \in Seq(Nat), NEW k \in 1..Len(s)
    PROVE  LET t == SubSeq(s, k + 1, Len(s))
           IN /\ t \in Seq(Nat) /\ Len(t) = Len(s) - k
              /\ \A i \in 1..Len(t) : t[i] = s[k + i]
              /\ Len(t) = 0 <=> t = <<>>
  <1> DEFINE n == Len(s)
             t == SubSeq(s, k + 1, n)
  <1>1. /\ n \in Int /\ k + 1 \in Int
        /\ \A i \in (k + 1)..n : s[i] \in Nat
        /\ n - (k + 1) + 1 = n - k
        /\ (IF k + 1 <= n THEN n - (k + 1) + 1 ELSE 0) = n - k
        /\ \A i \in 1..(n - k) : k + 1 + i - 1 = k + i
    OBVIOUS
  <1>2. /\ t \in Seq(Nat)
        /\ Len(t) = IF k + 1 <= n THEN n - (k + 1) + 1 ELSE 0
        /\ \A i \in 1..(n - (k + 1) + 1) : t[i] = s[k + 1 + i - 1]
    <2>1. \A i \in (k + 1)..n : s[i] \in Nat
      BY <1>1
    <2> DEFINE m == k + 1
    <2> HIDE DEF n, m
    <2>2. /\ SubSeq(s, m, n) \in Seq(Nat)
          /\ Len(SubSeq(s, m, n)) = IF m <= n THEN n - m + 1 ELSE 0
          /\ \A i \in 1..(n - m + 1) : SubSeq(s, m, n)[i] = s[m + i - 1]
      BY <1>1, <2>1, SubSeqProperties DEF m
    <2>3. QED
      BY <2>2 DEF m
  <1>3. t \in Seq(Nat) /\ Len(t) = n - k
    BY <1>1, <1>2
  <1>4. \A i \in 1..Len(t) : t[i] = s[k + i]
    BY <1>1, <1>2, <1>3
  <1>5. Len(t) = 0 <=> t = <<>>
    <2> HIDE DEF t
    <2>1. QED
      BY <1>3
  <1>6. QED
    BY <1>3, <1>4, <1>5

LEMMA JoinFacts ==
    ASSUME NEW s \in Seq(Nat), NEW t \in Seq(Nat)
    PROVE  LET c == s \o t
           IN /\ c \in Seq(Nat) /\ Len(c) = Len(s) + Len(t)
              /\ \A i \in 1..Len(s) : c[i] = s[i]
              /\ \A i \in (Len(s) + 1)..Len(c) : c[i] = t[i - Len(s)]
  <1>1. Len(s) \in Nat /\ Len(t) \in Nat
    OBVIOUS
  <1> DEFINE c == s \o t
  <1>2. /\ c \in Seq(Nat) /\ Len(c) = Len(s) + Len(t)
        /\ \A i \in 1..(Len(s) + Len(t)) :
             c[i] = IF i <= Len(s) THEN s[i] ELSE t[i - Len(s)]
    BY ConcatProperties
  <1> HIDE DEF c
  <1>3. \A i \in 1..Len(s) : i \in 1..(Len(s) + Len(t)) /\ i <= Len(s)
    BY <1>1
  <1>4. \A i \in (Len(s) + 1)..Len(c) :
          i \in 1..(Len(s) + Len(t)) /\ ~(i <= Len(s))
    BY <1>1, <1>2
  <1>5. QED
    BY <1>2, <1>3, <1>4 DEF c

LEMMA RestAfter ==
    ASSUME Types, Sending, NEW k \in DOMAIN out
    PROVE  LET rest == SubSeq(out, k + 1, Len(out))
           IN /\ out # <<>> /\ k \in 1..Len(out) /\ Gone + k <= Len(whole)
              /\ rest \in Seq(Nat) /\ Len(rest) = Len(out) - k
              /\ Len(whole) - Len(rest) = Gone + k
              /\ \A i \in 1..Len(rest) : rest[i] = whole[Gone + k + i]
              /\ rest = <<>> <=> k = Len(out)
              /\ rest = <<>> <=> Gone + k = Len(whole)
  <1> DEFINE rest == SubSeq(out, k + 1, Len(out))
  <1>1. out \in Seq(Nat) /\ k \in 1..Len(out) /\ out # <<>>
    BY DEF Types
  <1>2. /\ Len(out) \in Nat /\ Gone \in Nat /\ Len(whole) \in Nat
        /\ Gone + Len(out) = Len(whole)
        /\ \A i \in 1..Len(out) : out[i] = whole[Gone + i]
    BY <1>1, RestFacts
  <1>3. /\ rest \in Seq(Nat) /\ Len(rest) = Len(out) - k
        /\ \A i \in 1..Len(rest) : rest[i] = out[k + i]
        /\ Len(rest) = 0 <=> rest = <<>>
    BY <1>1, TailFacts
  <1> HIDE DEF rest
  <1>5. /\ Gone + k <= Len(whole) /\ Len(whole) - Len(rest) = Gone + k
        /\ Len(rest) = 0 <=> k = Len(out)
        /\ Len(rest) = 0 <=> Gone + k = Len(whole)
    <2>1. \A g \in Nat, n \in Nat, w \in Nat, x \in Nat, l \in Nat :
            g + n = w /\ x \in 1..n /\ l = n - x =>
              /\ g + x <= w /\ w - l = g + x
              /\ l = 0 <=> x = n
              /\ l = 0 <=> g + x = w
      OBVIOUS
    <2>2. k \in Nat /\ Len(rest) \in Nat
      BY <1>1, <1>3
    <2> HIDE DEF Gone
    <2>3. QED
      BY SMTT(30), <1>1, <1>2, <1>3, <2>1, <2>2
  <1>6. \A i \in 1..Len(rest) : rest[i] = whole[Gone + k + i]
    <2>1. ASSUME NEW i \in 1..Len(rest) PROVE rest[i] = whole[Gone + k + i]
      <3>1. \A g \in Nat, n \in Nat, x \in Nat, j \in Nat :
              x \in 1..n /\ j \in 1..(n - x) =>
                x + j \in 1..n /\ g + (x + j) = g + x + j
        OBVIOUS
      <3>2. k \in Nat /\ i \in Nat /\ i \in 1..(Len(out) - k)
        BY <1>1, <1>3
      <3> HIDE DEF Gone
      <3>3. k + i \in 1..Len(out) /\ Gone + (k + i) = Gone + k + i
        BY SMTT(30), <1>1, <1>2, <3>1, <3>2
      <3>4. QED
        BY <1>2, <1>3, <3>3
    <2>2. QED
      BY <2>1
  <1>7. QED
    BY <1>1, <1>3, <1>5, <1>6 DEF rest

Chunk(k, rt) == SubSeq(out, 1, k) \o rt
LEMMA SysexChunk ==
    ASSUME Types, Sending, NEW k \in DOMAIN out, IsSysexMessage(whole),
           NEW rt \in {<<>>} \cup {<<r>> : r \in Realtime}
    PROVE  /\ Chunk(k, rt) \in Seq(WireBytes) /\ Chunk(k, rt) \in Seq(Nat)
           /\ Chunk(k, rt) # <<>>
           /\ IsChunkOf(Chunk(k, rt), whole, Gone, k)
  <1> DEFINE c == Chunk(k, rt)
             p == SubSeq(out, 1, k)
  <1>1. /\ out \in Seq(Nat) /\ k \in 1..Len(out) /\ Gone + k <= Len(whole)
        /\ out # <<>>
    BY RestAfter DEF Types
  <1>2. /\ Len(out) \in Nat /\ Len(whole) \in Nat /\ Gone \in 0..Len(whole)
        /\ Gone + Len(out) = Len(whole)
        /\ \A i \in 1..Len(out) : out[i] = whole[Gone + i]
    BY <1>1, RestFacts
  <1>3. \A i \in 1..Len(whole) : whole[i] \in WireBytes
    <2>1. \A b \in SevenBit : b \in WireBytes
      BY DEF SevenBit, WireBytes
    <2>2. SYSEX_START \in WireBytes /\ SYSEX_END \in WireBytes
      BY Limits DEF WireBytes
    <2>3. \A i \in 1..Len(whole) : i = 1 \/ i = Len(whole)
                                   \/ i \in 2..(Len(whole) - 1)
      BY <1>2
    <2>4. /\ whole[1] = SYSEX_START /\ whole[Len(whole)] = SYSEX_END
          /\ \A i \in 2..(Len(whole) - 1) : whole[i] \in SevenBit
      BY DEF IsSysexMessage, IsSysex
    <2>5. QED
      BY <2>1, <2>2, <2>3, <2>4
  <1>4. p \in Seq(Nat) /\ Len(p) = k /\ \A i \in 1..k : p[i] = whole[Gone + i]
    <2>1. p \in Seq(Nat) /\ Len(p) = k /\ \A i \in 1..k : p[i] = out[i]
      BY <1>1, <1>2
    <2>2. \A i \in 1..k : i \in 1..Len(out)
      BY <1>1, <1>2
    <2>3. QED
      BY <1>2, <2>1, <2>2
  <1>5. \A b \in Realtime : b \in Nat /\ b >= REALTIME_MIN /\ b \in WireBytes
    <2>1. \A b \in Realtime : b \in REALTIME_MIN..255
      BY WireAssumption
    <2>2. \A b \in REALTIME_MIN..255 : b \in Nat /\ b >= REALTIME_MIN
                                       /\ b \in WireBytes
      BY Limits DEF WireBytes
    <2>3. QED
      BY <2>1, <2>2
  <1>6. rt \in Seq(Nat) /\ Len(rt) \in {0, 1}
        /\ \A i \in 1..Len(rt) : rt[i] \in WireBytes /\ rt[i] >= REALTIME_MIN
    <2>1. CASE rt = <<>>
      BY <2>1
    <2>2. CASE rt # <<>>
      <3>1. PICK b \in Realtime : rt = <<b>>
        BY <2>2
      <3>2. b \in Nat /\ b >= REALTIME_MIN /\ b \in WireBytes
        BY <1>5
      <3>3. rt \in Seq(Nat) /\ Len(rt) = 1 /\ rt[1] = b
        BY <3>1, <3>2
      <3>4. \A i \in 1..1 : i = 1
        OBVIOUS
      <3>5. QED
        BY <3>2, <3>3, <3>4
    <2>3. QED
      BY <2>1, <2>2
  <1> HIDE DEF p
  <1>7. /\ c \in Seq(Nat) /\ Len(c) = k + Len(rt)
        /\ \A i \in 1..k : c[i] = p[i]
        /\ \A i \in (k + 1)..Len(c) : c[i] = rt[i - k]
    <2>1. c = p \o rt
      BY DEF Chunk, p
    <2> HIDE DEF c
    <2>2. /\ c \in Seq(Nat) /\ Len(c) = Len(p) + Len(rt)
          /\ \A i \in 1..Len(p) : c[i] = p[i]
          /\ \A i \in (Len(p) + 1)..Len(c) : c[i] = rt[i - Len(p)]
      BY <1>4, <1>6, <2>1, JoinFacts
    <2>3. QED
      BY <1>4, <2>2
  <1> HIDE DEF c
  <1>8. k \in Nat /\ k >= 1 /\ Len(c) \in Nat /\ k \in 1..Len(c)
    <2>1. k \in Nat /\ k >= 1 /\ Len(rt) \in Nat
      BY <1>1, <1>2, <1>6
    <2>2. QED
      BY <1>7, <2>1
  <1>9. \A i \in (k + 1)..Len(c) : i - k \in 1..Len(rt)
    BY SMTT(30), <1>6, <1>7, <1>8
  <1>10. \A i \in (k + 1)..Len(c) : c[i] \in WireBytes /\ c[i] >= REALTIME_MIN
    BY <1>6, <1>7, <1>9
  <1>11. \A i \in 1..k : c[i] = whole[Gone + i] /\ c[i] \in WireBytes
    <2>1. \A i \in 1..k : Gone + i \in 1..Len(whole)
      BY <1>1, <1>2
    <2>2. QED
      BY <1>3, <1>4, <1>7, <2>1
  <1>12. \A i \in 1..Len(c) : c[i] \in WireBytes
    <2>1. \A i \in 1..Len(c) : i \in 1..k \/ i \in (k + 1)..Len(c)
      BY <1>8
    <2>2. QED
      BY <1>10, <1>11, <2>1
  <1>13. c \in Seq(WireBytes) /\ c # <<>>
    <2>1. c \in [1..Len(c) -> WireBytes]
      BY <1>7, <1>12
    <2>2. c \in Seq(WireBytes)
      BY <1>8, <2>1, SeqDef
    <2>3. QED
      BY <1>8, <2>2
  <1>14. IsChunkOf(c, whole, Gone, k)
    BY <1>1, <1>2, <1>8, <1>10, <1>11 DEF IsChunkOf
  <1>15. QED
    BY <1>7, <1>13, <1>14 DEF c

(* Messages begin, and are cut off.                                        *)
LEMMA BeginKeeps ==
    ASSUME WireInv, NEW m \in player, Begin(m)
    PROVE  WireInv'
  <1>1. /\ IsSysexMessage(m) \/ IsChannelMessage(m)
        /\ m \in Seq(Nat) /\ m # <<>>
    BY PlayersAssumption, MessageKinds DEF WireInv, Types
  <1>2. /\ out' = m /\ whole' = m
        /\ UNCHANGED <<player, sysex, channel, decoder, controls, events>>
        /\ history' = [history EXCEPT !.doubt = FALSE]
    BY DEF Begin, clientVars
  <1>3. history' \in Histories
    BY <1>2 DEF WireInv, Types, Histories
  <1>4. /\ history'.sent = history.sent /\ history'.got = history.got
        /\ history'.stream = history.stream /\ history'.found = history.found
        /\ history'.heard = history.heard /\ history'.taken = history.taken
        /\ history'.torn = history.torn
    BY <1>2 DEF WireInv, Types, Histories
  <1>5. Listened' = Listened
    BY <1>2 DEF Listened
  <1>6. Types'
    BY <1>1, <1>2, <1>3, <1>5 DEF WireInv, Types
  <1>7. Sending'
    <2>1. Len(m) \in Nat /\ Len(m) - Len(m) = 0
          /\ \A i \in 1..Len(m) : 0 + i = i
      BY <1>1
    <2>2. Gone' = 0
      BY <1>2, <2>1 DEF Gone
    <2>3. QED
      BY <1>1, <1>2, <2>1, <2>2 DEF Sending
  <1>8. ~InMiddle'
    BY <1>2 DEF InMiddle
  <1>9. Framing' /\ ReadAsSent' /\ AgreedOn'
    BY <1>2, <1>4, <1>8 DEF WireInv, Framing, ReadAsSent, AgreedOn
  <1>10. Hearing'
    BY <1>4, <1>5, <1>8 DEF WireInv, Hearing
  <1>11. QED
    BY <1>6, <1>7, <1>9, <1>10 DEF WireInv

LEMMA CutOffKeeps ==
    ASSUME WireInv, CutOff
    PROVE  WireInv'
  <1>1. out' = <<>>
        /\ UNCHANGED <<player, whole, sysex, channel, decoder, controls,
                       events, history>>
    BY DEF CutOff, clientVars
  <1>2. Listened' = Listened
    BY <1>1 DEF Listened
  <1>3. Types'
    BY <1>1, <1>2 DEF WireInv, Types
  <1>4. ~InMiddle'
    BY <1>1 DEF InMiddle
  <1>5. Sending' /\ Framing'
    BY <1>1, <1>4 DEF Sending, Framing
  <1>6. ReadAsSent' /\ AgreedOn'
    BY <1>1 DEF WireInv, ReadAsSent, AgreedOn
  <1>7. Hearing'
    BY <1>1, <1>2, <1>4 DEF WireInv, Hearing
  <1>8. QED
    BY <1>3, <1>5, <1>6, <1>7 DEF WireInv

(* Nothing is agreed on before anything came.                              *)
LEMMA AgreeingNothing == Agreeing(<<>>, <<>>, <<>>)
  <1>1. <<>> \in Seq(Nat) /\ Len(<<>>) = 0
    OBVIOUS
  <1>2. Starts(<<>>, 0) = {}
    BY DEF Starts
  <1>3. ~IsOpen(<<>>)
    BY <1>1, <1>2 DEF IsOpen, HasFrame
  <1>4. frames(<<>>) = <<>>
    <2>1. PICK f \in [0..Len(<<>>) -> Seq(Seq(Nat))] :
             /\ IsFramesUpTo(<<>>, f, Len(<<>>))
             /\ frames(<<>>) = f[Len(<<>>)]
      BY <1>1, FramesIs
    <2>2. f[0] = FramesUpTo(<<>>, f, 0)
      BY <1>1, <2>1 DEF IsFramesUpTo
    <2>3. QED
      BY <1>1, <1>2, <2>1, <2>2 DEF FramesUpTo
  <1>5. QED
    BY <1>3, <1>4 DEF Agreeing

LEMMA NoChannelRuns == NoChannel \in Running
  <1>1. <<>> \in Seq(SevenBit) /\ Len(<<>>) = 0 /\ Needs(0) > 0
        /\ 0 \in WireBytes
    BY DEF Needs, WireBytes
  <1>2. QED
    BY <1>1 DEF NoChannel, Running

LEMMA ResetKeeps ==
    ASSUME WireInv, Reset
    PROVE  WireInv'
  <1>1. /\ sysex' = <<>> /\ channel' = NoChannel
        /\ history' = [history EXCEPT !.doubt = out \notin {<<>>, whole},
                                      !.stream = <<>>, !.found = <<>>]
        /\ UNCHANGED <<player, out, whole, decoder, controls, events>>
    BY DEF Reset
  <1>2. history' \in Histories
    <2>1. <<>> \in Seq(Nat) /\ <<>> \in Seq(Seq(Nat))
          /\ (out \notin {<<>>, whole}) \in BOOLEAN
      OBVIOUS
    <2>2. QED
      BY <1>1, <2>1 DEF WireInv, Types, Histories
  <1>3. /\ history'.sent = history.sent /\ history'.got = history.got
        /\ history'.doubt = (out \notin {<<>>, whole})
        /\ history'.stream = <<>> /\ history'.found = <<>>
        /\ history'.heard = history.heard /\ history'.taken = history.taken
        /\ history'.torn = history.torn
    BY <1>1 DEF WireInv, Types, Histories
  <1>4. Listened' = Listened
    BY <1>1 DEF Listened
  <1>5. Types'
    BY <1>1, <1>2, <1>4, NoChannelRuns DEF WireInv, Types
  <1>6. Sending'
    BY <1>1 DEF WireInv, Sending, Gone
  <1>7. InMiddle' => history'.doubt
    BY <1>1, <1>3 DEF InMiddle
  <1>8. Framing'
    BY <1>7 DEF Framing
  <1>9. ReadAsSent' /\ AgreedOn'
    BY <1>1, <1>3, AgreeingNothing DEF WireInv, ReadAsSent, AgreedOn
  <1>10. Hearing'
    BY <1>1, <1>3, <1>4 DEF WireInv, Hearing, NoChannel
  <1>11. QED
    BY <1>5, <1>6, <1>8, <1>9, <1>10 DEF WireInv

(* Nothing was heard yet.                                                  *)
LEMMA NothingSaid ==
    \A c : Said(<<>>, 0, c) = NewChannel
  <1>1. ASSUME NEW c PROVE Chosen(<<>>, 0, c) = 0
    <2>1. Chosen(<<>>, 0, c) \in 0..0
      BY ChosenFacts
    <2>2. QED
      BY <2>1
  <1>2. QED
    BY <1>1 DEF Said

LEMMA NothingRight ==
    \A list : Right(list, <<>>, 0)
  <1>1. Moved(<<>>) = {}
    BY DEF Moved
  <1>2. QED
    BY <1>1 DEF Right

LEMMA NewChannels ==
    ASSUME NEW r, r.decoder = [c \in Channels |-> NewChannel]
    PROVE  /\ r.decoder \in [Channels -> Decoders]
           /\ Following(r, <<>>, 0)
  <1>1. NewChannel \in Decoders
    BY DEF NewChannel, Decoders, Unheard
  <1>2. <<>> \in Seq(Controllers) /\ Len(<<>>) = 0 /\ 0 \in 0..0
    OBVIOUS
  <1>3. \A c \in Channels : r.decoder[c] = NewChannel
    OBVIOUS
  <1>4. QED
    BY <1>1, <1>2, <1>3, NothingSaid, NothingRight DEF Following

LEMMA ListenKeeps ==
    ASSUME WireInv, NEW on \in BOOLEAN, listen_controllers(on)
    PROVE  WireInv'
  <1>1. /\ controls' = (IF on THEN controls ELSE <<>>)
        /\ decoder' = [c \in Channels |-> NewChannel]
        /\ history' = [history EXCEPT !.heard = <<>>, !.taken = 0]
        /\ UNCHANGED <<player, out, whole, sysex, channel, events>>
    BY DEF listen_controllers
  <1>2. history' \in Histories
    <2>1. <<>> \in Seq(Controllers) /\ 0 \in Nat
      OBVIOUS
    <2>2. QED
      BY <1>1, <2>1 DEF WireInv, Types, Histories
  <1>3. /\ history'.sent = history.sent /\ history'.got = history.got
        /\ history'.doubt = history.doubt
        /\ history'.stream = history.stream /\ history'.found = history.found
        /\ history'.heard = <<>> /\ history'.taken = 0
        /\ history'.torn = history.torn
    BY <1>1 DEF WireInv, Types, Histories
  <1>4. /\ decoder' \in [Channels -> Decoders]
        /\ Following(Listened', <<>>, 0)
    <2>1. Listened'.decoder = decoder'
      BY DEF Listened
    <2>2. QED
      BY <1>1, <2>1, NewChannels
  <1>5. Listened' \in Clients
    <2>1. controls \in Lists /\ events \in Nat
      BY DEF WireInv, Types, Listened, Clients
    <2>2. <<>> \in Lists
      BY Limits DEF Lists
    <2>3. controls' \in Lists /\ events' \in Nat
      BY <1>1, <2>1, <2>2
    <2>4. QED
      BY <1>4, <2>3 DEF Listened, Clients
  <1>6. Types'
    BY <1>1, <1>2, <1>5 DEF WireInv, Types
  <1>7. Sending' /\ InMiddle' = InMiddle /\ Gone' = Gone
    BY <1>1 DEF WireInv, Sending, Gone, InMiddle
  <1>8. Framing' /\ ReadAsSent' /\ AgreedOn'
    BY <1>1, <1>3, <1>7 DEF WireInv, Framing, ReadAsSent, AgreedOn
  <1>9. Hearing'
    BY <1>1, <1>3, <1>4, <1>7 DEF WireInv, Hearing
  <1>10. QED
    BY <1>6, <1>7, <1>8, <1>9 DEF WireInv

(* The list is taken: nothing of it has moved since.                       *)
LEMMA RightTaken ==
    ASSUME NEW h \in Seq(Controllers)
    PROVE  Right(<<>>, h, Len(h))
  <1>1. DOMAIN h = 1..Len(h) /\ Len(h) \in Nat
    OBVIOUS
  <1>2. \A i \in Moved(h) : ~(i > Len(h))
    BY <1>1 DEF Moved
  <1>3. QED
    BY <1>2 DEF Right

LEMMA TakeControlsKeeps ==
    ASSUME WireInv, take_controls
    PROVE  WireInv'
  <1>1. /\ controls' = <<>>
        /\ history' = [history EXCEPT !.taken = Len(history.heard)]
        /\ UNCHANGED <<player, out, whole, sysex, channel, decoder, events>>
    BY DEF take_controls
  <1>2. history.heard \in Seq(Controllers) /\ Len(history.heard) \in Nat
        /\ Len(history.heard) \in 0..Len(history.heard)
    BY DEF WireInv, Types, Histories
  <1>3. history' \in Histories
    BY <1>1, <1>2 DEF WireInv, Types, Histories
  <1>4. /\ history'.sent = history.sent /\ history'.got = history.got
        /\ history'.doubt = history.doubt
        /\ history'.stream = history.stream /\ history'.found = history.found
        /\ history'.heard = history.heard
        /\ history'.taken = Len(history.heard)
        /\ history'.torn = history.torn
    BY <1>1 DEF WireInv, Types, Histories
  <1>5. Listened'.decoder = Listened.decoder /\ Listened'.controls = <<>>
    BY <1>1 DEF Listened
  <1>6. Listened' \in Clients
    <2>1. <<>> \in Lists
      BY Limits DEF Lists
    <2>2. decoder' \in [Channels -> Decoders] /\ events' \in Nat
      BY <1>1 DEF WireInv, Types, Listened, Clients
    <2>3. QED
      BY <1>1, <2>1, <2>2 DEF Listened, Clients
  <1>7. Types'
    BY <1>1, <1>3, <1>6 DEF WireInv, Types
  <1>8. Sending' /\ InMiddle' = InMiddle /\ Gone' = Gone
    BY <1>1 DEF WireInv, Sending, Gone, InMiddle
  <1>9. Framing' /\ ReadAsSent' /\ AgreedOn'
    BY <1>1, <1>4, <1>8 DEF WireInv, Framing, ReadAsSent, AgreedOn
  <1>10. Hearing'
    <2>1. SUFFICES ASSUME ~history.torn
                   PROVE  /\ InMiddle' => channel'.status = 0
                          /\ Following(Listened', history.heard,
                                       Len(history.heard))
      BY <1>4 DEF Hearing
    <2>2. /\ InMiddle => channel.status = 0
          /\ Following(Listened, history.heard, history.taken)
      BY <2>1 DEF WireInv, Hearing
    <2>3. Right(<<>>, history.heard, Len(history.heard))
      BY <1>2, RightTaken
    <2>4. QED
      BY <1>1, <1>2, <1>5, <1>8, <2>2, <2>3 DEF Following
  <1>11. QED
    BY <1>7, <1>8, <1>9, <1>10 DEF WireInv

LEMMA TakeEventsKeeps ==
    ASSUME WireInv, take_events
    PROVE  WireInv'
  <1>1. /\ events' = 0
        /\ UNCHANGED <<player, out, whole, sysex, channel, decoder, controls,
                       history>>
    BY DEF take_events
  <1>2. Listened'.decoder = Listened.decoder
        /\ Listened'.controls = Listened.controls
    BY <1>1 DEF Listened
  <1>3. Listened' \in Clients
    BY <1>1 DEF WireInv, Types, Listened, Clients
  <1>4. Types'
    BY <1>1, <1>3 DEF WireInv, Types
  <1>5. Sending' /\ InMiddle' = InMiddle /\ Gone' = Gone
    BY <1>1 DEF WireInv, Sending, Gone, InMiddle
  <1>6. Framing' /\ ReadAsSent' /\ AgreedOn'
    BY <1>1, <1>5 DEF WireInv, Framing, ReadAsSent, AgreedOn
  <1>7. Hearing'
    BY <1>1, <1>2, <1>5 DEF WireInv, Hearing, Following
  <1>8. QED
    BY <1>4, <1>5, <1>6, <1>7 DEF WireInv

LEMMA WireStarts ==
    ASSUME WireInit
    PROVE  WireInv
  <1>1. /\ player \in Players /\ out = <<>> /\ whole = <<>>
        /\ sysex = <<>> /\ channel = NoChannel
        /\ decoder = [c \in Channels |-> NewChannel]
        /\ events = 0 /\ controls = <<>>
        /\ history = [sent |-> <<>>, got |-> <<>>, doubt |-> FALSE,
                      stream |-> <<>>, found |-> <<>>, heard |-> <<>>,
                      taken |-> 0, torn |-> FALSE]
    BY DEF WireInit
  <1>2. history \in Histories
    <2>1. <<>> \in Seq(Nat) /\ <<>> \in Seq(Seq(Nat))
          /\ <<>> \in Seq(Controllers)
      OBVIOUS
    <2>2. QED
      BY <1>1, <2>1 DEF Histories
  <1>3. decoder \in [Channels -> Decoders] /\ Following(Listened, <<>>, 0)
    <2>1. Listened.decoder = decoder
      BY DEF Listened
    <2>2. QED
      BY <1>1, <2>1, NewChannels
  <1>4. Listened \in Clients
    <2>1. <<>> \in Lists
      BY Limits DEF Lists
    <2>2. QED
      BY <1>1, <1>3, <2>1 DEF Listened, Clients
  <1>5. Types
    BY <1>1, <1>2, <1>4, NoChannelRuns DEF Types
  <1>6. Sending /\ ~InMiddle
    BY <1>1 DEF Sending, InMiddle
  <1>7. Framing /\ ReadAsSent /\ AgreedOn
    BY <1>1, <1>6, AgreeingNothing DEF Framing, ReadAsSent, AgreedOn
  <1>8. Hearing
    BY <1>1, <1>3, <1>6 DEF Hearing
  <1>9. QED
    BY <1>5, <1>6, <1>7, <1>8 DEF WireInv

(* A chunk reaches the client.                                             *)
LEMMA AbsorbFacts ==
    ASSUME Types, AgreedOn, NEW chunk \in Seq(WireBytes), absorb(chunk)
    PROVE  /\ feed(chunk) \in Assemblers
           /\ sysex' = feed(chunk).sysex /\ channel' = feed(chunk).channel
           /\ Listened' = heed_all(feed(chunk).said) /\ Listened' \in Clients
           /\ Agreeing(history.stream \o chunk, sysex',
                       history.found \o feed(chunk).frames)
  <1> DEFINE a == feed(chunk)
             r == heed_all(a.said)
  <1>1. /\ sysex' = a.sysex /\ channel' = a.channel
        /\ decoder' = r.decoder /\ controls' = r.controls
        /\ events' = r.events
    BY DEF absorb
  <1>2. /\ sysex \in Seq(Nat) /\ channel \in Running
        /\ history.stream \in Seq(Nat) /\ history.found \in Seq(Seq(Nat))
        /\ Listened \in Clients
    BY DEF Types, Histories
  <1>3. /\ a \in Assemblers
        /\ Agreeing(history.stream \o chunk, a.sysex,
                    history.found \o a.frames)
    BY <1>2, AgreeingAll DEF AgreedOn
  <1>4. a.said \in Seq(Sayings)
    BY <1>3 DEF Assemblers
  <1> HIDE DEF a
  <1>5. r \in Clients
    BY <1>2, <1>4, HeedAllTypes
  <1> HIDE DEF r
  <1>6. Listened' = r
    <2>1. r = [decoder |-> r.decoder, controls |-> r.controls,
               events |-> r.events]
      BY <1>5 DEF Clients
    <2>2. QED
      BY <1>1, <2>1 DEF Listened
  <1>7. QED
    BY <1>1, <1>3, <1>5, <1>6 DEF a, r

LEMMA SendingOn ==
    ASSUME Types, Sending, NEW k \in DOMAIN out, Ends(k),
           out' = SubSeq(out, k + 1, Len(out)), whole' = whole
    PROVE  /\ Sending' /\ out' \in Seq(Nat)
           /\ InMiddle' => /\ IsSysexMessage(whole) /\ Gone' = Gone + k
                           /\ Gone + k < Len(whole)
           /\ k = Len(out) <=> Gone + k = Len(whole)
           /\ ~(k = Len(out)) => Gone + k < Len(whole)
  <1>1. /\ out # <<>> /\ k \in 1..Len(out) /\ Gone + k <= Len(whole)
        /\ out' \in Seq(Nat)
        /\ Len(whole) - Len(out') = Gone + k
        /\ \A i \in 1..Len(out') : out'[i] = whole[Gone + k + i]
        /\ out' = <<>> <=> k = Len(out)
        /\ out' = <<>> <=> Gone + k = Len(whole)
    BY RestAfter
  <1>2. /\ IsSysexMessage(whole) \/ IsChannelMessage(whole)
        /\ Gone \in Nat /\ Len(whole) \in Nat
    BY <1>1, RestFacts
  <1>3. IsChannelMessage(whole) => out' = <<>>
    BY <1>1, MessageKinds DEF Ends
  <1>4. Gone' = Gone + k
    BY <1>1 DEF Gone
  <1>5. k \in Nat /\ Len(out') \in Nat
    BY SMTT(30), <1>1
  <1>6. Len(out') <= Len(whole)
    <2> HIDE DEF Gone
    <2>1. QED
      BY <1>1, <1>2, <1>5
  <1>7. Sending'
    BY <1>1, <1>2, <1>3, <1>4, <1>6 DEF Sending
  <1>8. ~(Gone + k = Len(whole)) => Gone + k < Len(whole)
    BY SMTT(30), <1>1, <1>2, <1>5
  <1>9. InMiddle' => out' # <<>> /\ ~IsChannelMessage(whole)
    BY <1>3 DEF InMiddle
  <1>10. QED
    BY <1>1, <1>2, <1>4, <1>7, <1>8, <1>9

LEMMA SeqOfFrames ==
    \A fs \in Seq(Seq(Nat)), m \in Seq(Nat) :
      /\ fs \o <<>> = fs /\ fs \o <<m>> = Append(fs, m)
      /\ Accepted(Append(fs, m)) =
           IF Parses(m) THEN Append(Accepted(fs), m) ELSE Accepted(fs)
  BY OneMoreAccepted, AppendIsConcat

LEMMA GotAsSent ==
    ASSUME NEW got \in Seq(Seq(Nat)), NEW sent \in Seq(Seq(Nat)),
           NEW m \in Seq(Nat), Accepted(got) = Accepted(sent)
    PROVE  Accepted(got \o (IF Len(m) <= MAX_FRAME_LEN + 1 THEN <<m>>
                            ELSE <<>>)) = Accepted(Append(sent, m))
  <1>1. CASE Len(m) <= MAX_FRAME_LEN + 1
    BY <1>1, SeqOfFrames
  <1>2. CASE ~(Len(m) <= MAX_FRAME_LEN + 1)
    <2>1. ~Parses(m)
      <3>1. Len(m) \in Nat
        OBVIOUS
      <3>2. ~(Len(m) \in 12..MAX_FRAME_LEN)
        BY <1>2, <3>1, Limits
      <3>3. QED
        BY <3>2 DEF Parses
    <2>2. QED
      BY <1>2, <2>1, SeqOfFrames
  <1>3. QED
    BY <1>1, <1>2

LEMMA NoControls ==
    ASSUME NEW m, IsSysexMessage(m)
    PROVE  ControlsOf(m) = <<>>
  <1>1. m[1] = 240
    BY DEF IsSysexMessage, IsSysex, SYSEX_START
  <1>2. 240 \div 16 # 11
    OBVIOUS
  <1>3. QED
    BY <1>1, <1>2 DEF ControlsOf

LEMMA DeliverSysex ==
    ASSUME WireInv, NEW k \in DOMAIN out,
           NEW rt \in {<<>>} \cup {<<r>> : r \in Realtime},
           Deliver(k, rt), IsSysexMessage(whole)
    PROVE  WireInv'
  <1> DEFINE chunk == Chunk(k, rt)
             a == feed(chunk)
             n == Gone
  <1>1. Types /\ Sending /\ Framing /\ ReadAsSent /\ AgreedOn /\ Hearing
    BY DEF WireInv
  <1>2. Ends(k) /\ absorb(chunk) /\ Sent(k, chunk)
    BY DEF Deliver, Chunk
  <1>3. /\ chunk \in Seq(WireBytes) /\ chunk \in Seq(Nat) /\ chunk # <<>>
        /\ IsChunkOf(chunk, whole, n, k)
    BY <1>1, SysexChunk
  <1> HIDE DEF chunk
  <1>4. /\ a \in Assemblers /\ sysex' = a.sysex /\ channel' = a.channel
        /\ Listened' = heed_all(a.said) /\ Listened' \in Clients
        /\ Agreeing(history.stream \o chunk, sysex',
                    history.found \o a.frames)
    BY <1>1, <1>2, <1>3, AbsorbFacts
  <1>5. IsSysex(whole) /\ ControlsOf(whole) = <<>>
        /\ <<>> \in Seq(Controllers)
    BY MessageKinds, NoControls
  <1>6. history' \in Histories
    BY <1>1, <1>2, <1>3, <1>4, <1>5, SentTypes
  <1> HIDE DEF a
  <1>7. /\ out' = SubSeq(out, k + 1, Len(out)) /\ whole' = whole
        /\ history'.doubt = history.doubt
        /\ history'.torn = history.torn
        /\ history'.sent = IF k = Len(out) /\ ~history.doubt
                           THEN Append(history.sent, whole)
                           ELSE history.sent
        /\ history'.stream = history.stream \o chunk
        /\ history'.found = history.found \o a.frames
        /\ history'.got = IF history.doubt THEN history.got
                          ELSE history.got \o a.frames
        /\ history'.heard = history.heard \o <<>>
        /\ history'.taken = history.taken
    <2>1. history.doubt \in BOOLEAN /\ history.torn \in BOOLEAN
      BY <1>1 DEF Types, Histories
    <2>2. LET lost  == chunk = <<>>
              doubt == history.doubt \/ lost
              done  == k = Len(out) /\ IsSysex(whole) /\ ~doubt
          IN /\ out' = SubSeq(out, k + 1, Len(out)) /\ whole' = whole
             /\ history'.doubt = doubt
             /\ history'.torn = (history.torn \/ (lost /\ IsSysex(whole)))
             /\ history'.sent = IF done THEN Append(history.sent, whole)
                                ELSE history.sent
             /\ history'.stream = history.stream \o chunk
             /\ history'.found = history.found \o feed(chunk).frames
             /\ history'.got = IF doubt THEN history.got
                               ELSE history.got \o feed(chunk).frames
             /\ history'.heard = IF lost THEN history.heard
                                 ELSE history.heard \o ControlsOf(whole)
             /\ history'.taken = history.taken
      BY <1>1, <1>2, SentFacts
    <2>3. QED
      BY <1>3, <1>5, <2>1, <2>2 DEF a
  <1>8. /\ Sending' /\ out' \in Seq(Nat)
        /\ InMiddle' => Gone' = n + k /\ n + k < Len(whole)
        /\ k = Len(out) <=> n + k = Len(whole)
        /\ ~(k = Len(out)) => n + k < Len(whole)
    BY <1>1, <1>2, <1>7, SendingOn
  <1>9. Types'
    <2>1. UNCHANGED player
      BY <1>2 DEF Sent
    <2>2. a.sysex \in Seq(Nat) /\ a.channel \in Running
      BY <1>4 DEF Assemblers
    <2>3. QED
      BY <1>1, <1>4, <1>6, <1>7, <1>8, <2>1, <2>2 DEF Types
  <1>10. /\ n = 0 \/ sysex = ReadOf(whole, n) => ReadSo(whole, n + k, a)
         /\ n = 0 \/ channel.status = 0 => Unsaid(n + k, a)
    BY <1>1, <1>3, ChunkRead DEF Types, a
  <1>11. out # <<>> /\ n \in Nat /\ k \in Nat /\ k > 0 /\ Len(whole) \in Nat
         /\ (n # 0 => InMiddle) /\ n + k > 0
    <2>1. out # <<>> /\ k \in 1..Len(out)
      BY <1>1, RestAfter
    <2>2. n \in 0..Len(whole) /\ Len(whole) \in Nat /\ Len(out) \in Nat
          /\ (n = 0 <=> out = whole)
      BY <1>1, <2>1, RestFacts
    <2>3. n # 0 => InMiddle
      BY <2>1, <2>2 DEF InMiddle
    <2> HIDE DEF n
    <2>4. QED
      BY <2>1, <2>2, <2>3
  <1>12. ~history.doubt => ReadSo(whole, n + k, a)
    BY <1>1, <1>10, <1>11 DEF Framing
  <1>13. ~history.torn => Unsaid(n + k, a)
    BY <1>1, <1>10, <1>11 DEF Hearing
  <1>14. Framing'
    BY <1>4, <1>7, <1>8, <1>11, <1>12 DEF Framing, ReadSo
  <1>15. ReadAsSent'
    <2>1. CASE history.doubt
      BY <1>1, <1>7, <2>1 DEF ReadAsSent
    <2>2. CASE ~history.doubt /\ k = Len(out)
      <3>1. a.frames = IF Len(whole) <= MAX_FRAME_LEN + 1 THEN <<whole>>
                       ELSE <<>>
        BY <1>8, <1>12, <2>2 DEF ReadSo
      <3>2. /\ history.got \in Seq(Seq(Nat)) /\ history.sent \in Seq(Seq(Nat))
            /\ whole \in Seq(Nat)
            /\ Accepted(history.got) = Accepted(history.sent)
        BY <1>1 DEF Types, Histories, ReadAsSent
      <3>3. Accepted(history.got \o a.frames) =
               Accepted(Append(history.sent, whole))
        BY <3>1, <3>2, GotAsSent
      <3>4. QED
        BY <1>7, <2>2, <3>3 DEF ReadAsSent
    <2>3. CASE ~history.doubt /\ ~(k = Len(out))
      <3>1. a.frames = <<>>
        BY <1>8, <1>12, <2>3 DEF ReadSo
      <3>2. history.got \o <<>> = history.got
        BY <1>1 DEF Types, Histories
      <3>3. QED
        BY <1>1, <1>7, <2>3, <3>1, <3>2 DEF ReadAsSent
    <2>4. QED
      BY <2>1, <2>2, <2>3
  <1>16. AgreedOn'
    BY <1>4, <1>7 DEF AgreedOn
  <1>17. Hearing'
    <2>1. SUFFICES ASSUME ~history.torn
                   PROVE  /\ channel'.status = 0
                          /\ Following(Listened', history'.heard,
                                       history'.taken)
      BY <1>7 DEF Hearing
    <2>2. a.said = <<>> /\ a.channel.status = 0
      BY <1>11, <1>13, <2>1 DEF Unsaid
    <2>3. Listened' = Listened
      BY <1>1, <1>4, <2>2, HeedNothing DEF Types
    <2>4. history'.heard = history.heard
      <3>1. history.heard \in Seq(Controllers)
        BY <1>1 DEF Types, Histories
      <3>2. QED
        BY <1>7, <3>1
    <2>5. QED
      BY <1>1, <1>4, <1>7, <2>1, <2>2, <2>3, <2>4 DEF Hearing
  <1>18. QED
    BY <1>8, <1>9, <1>14, <1>15, <1>16, <1>17 DEF WireInv

(* A channel message reaches the client whole.                             *)
LEMMA Relevant ==
    ASSUME NEW m, IsChannelMessage(m), is_relevant(m)
    PROVE  m[1] \div 16 \in {11, 12}
  <1>1. m[1] \in 128..239
    BY DEF IsChannelMessage
  <1>2. ~(m[1] < 128) /\ m[1] # 240
    BY <1>1
  <1>3. QED
    BY <1>2 DEF is_relevant, SYSEX_START

LEMMA WholeChunk ==
    ASSUME Types, Sending, NEW k \in DOMAIN out, Ends(k),
           IsChannelMessage(whole)
    PROVE  /\ k = Len(out) /\ SubSeq(out, 1, k) = whole
           /\ ~IsSysex(whole) /\ out = whole
  <1>1. k \in 1..Len(out) /\ out \in Seq(Nat) /\ Len(out) \in Nat
    BY DEF Types
  <1>2. out # <<>>
    BY <1>1
  <1>3. out = whole
    BY <1>2, RestFacts
  <1>4. ~IsSysex(whole) /\ k = Len(out)
    BY MessageKinds DEF Ends
  <1>5. SubSeq(out, 1, Len(out)) = out
    BY <1>1, PrefixFacts
  <1>6. QED
    BY <1>3, <1>4, <1>5

LEMMA ChannelHeard ==
    ASSUME Types, IsChannelMessage(whole), whole[1] \div 16 \in {11, 12},
           NEW h, NEW t, Following(Listened, h, t)
    PROVE  Following(heed_all(feed(whole).said), h \o ControlsOf(whole), t)
  <1> DEFINE a == feed(whole)
  <1>1. whole \in Seq(WireBytes) /\ sysex \in Seq(Nat) /\ channel \in Running
        /\ Listened \in Clients /\ h \in Seq(Controllers)
    BY ChannelBytes DEF Types, Following
  <1>2. a \in Assemblers
    <2>1. PICK after \in [0..Len(whole) -> Assemblers] :
             Feeding(whole, after) /\ feed(whole) = after[Len(whole)]
      BY <1>1, FeedIs
    <2>2. Len(whole) \in 0..Len(whole)
      BY <1>1
    <2>3. QED
      BY <2>1, <2>2
  <1>3. a.said \in Seq(Sayings)
    BY <1>2 DEF Assemblers
  <1>4. CASE whole[1] \div 16 = 11
    <2>1. /\ ControlsOf(whole) \in Seq(Controllers)
          /\ Len(ControlsOf(whole)) = Len(a.said)
          /\ \A j \in 1..Len(a.said) :
               /\ a.said[j].kind = 11
               /\ ControlOf(a.said[j]) = ControlsOf(whole)[j]
      BY <1>1, <1>4, ControllersRead
    <2> HIDE DEF a
    <2>2. Following(heed_all(a.said), h \o ControlsOf(whole), t)
      BY <1>1, <1>3, <2>1, HeedControls
    <2>3. QED
      BY <2>2 DEF a
  <1>5. CASE whole[1] \div 16 = 12
    <2>1. \A j \in 1..Len(a.said) : a.said[j].kind = 12
      BY <1>1, <1>5, ProgramRead
    <2> HIDE DEF a
    <2>2. heed_all(a.said).decoder = decoder
          /\ heed_all(a.said).controls = controls
      BY <1>1, <1>3, <2>1, HeedPrograms
    <2>3. ControlsOf(whole) = <<>>
      BY <1>5 DEF ControlsOf
    <2>4. h \o <<>> = h
      BY <1>1
    <2>5. Following(heed_all(a.said), h \o ControlsOf(whole), t)
      BY <2>2, <2>3, <2>4 DEF Following, Listened
    <2>6. QED
      BY <2>5 DEF a
  <1>6. QED
    BY <1>4, <1>5

LEMMA DeliverChannel ==
    ASSUME WireInv, NEW k \in DOMAIN out,
           NEW rt \in {<<>>} \cup {<<r>> : r \in Realtime},
           Deliver(k, rt), IsChannelMessage(whole)
    PROVE  WireInv'
  <1> DEFINE a == feed(whole)
  <1>1. Types /\ Sending /\ Framing /\ ReadAsSent /\ AgreedOn /\ Hearing
    BY DEF WireInv
  <1>2. /\ k = Len(out) /\ SubSeq(out, 1, k) = whole
        /\ ~IsSysex(whole) /\ out = whole
    BY <1>1, WholeChunk DEF Deliver
  <1>3. Ends(k) /\ is_relevant(whole) /\ absorb(whole) /\ Sent(k, whole)
    <2>1. rt = <<>>
      <3>1. ~(k < Len(out))
        BY <1>1, <1>2 DEF Types
      <3>2. QED
        BY <3>1 DEF Deliver
    <2>2. whole \o <<>> = whole
      BY <1>1 DEF Types
    <2>3. QED
      BY <1>2, <2>1, <2>2 DEF Deliver
  <1>4. /\ whole \in Seq(WireBytes) /\ whole \in Seq(Nat) /\ whole # <<>>
    BY ChannelBytes, MessageKinds
  <1>5. whole[1] \div 16 \in {11, 12}
    BY <1>3, Relevant
  <1>6. a.frames = <<>> /\ ControlsOf(whole) \in Seq(Controllers)
    <2>1. sysex \in Seq(Nat) /\ channel \in Running
      BY <1>1 DEF Types
    <2>2. CASE whole[1] \div 16 = 11
      BY <2>1, <2>2, ControllersRead
    <2>3. CASE whole[1] \div 16 = 12
      <3>1. ControlsOf(whole) = <<>> /\ <<>> \in Seq(Controllers)
        BY <2>3 DEF ControlsOf
      <3>2. QED
        BY <2>1, <2>3, <3>1, ProgramRead
    <2>4. QED
      BY <1>5, <2>2, <2>3
  <1>7. /\ a \in Assemblers /\ sysex' = a.sysex /\ channel' = a.channel
        /\ Listened' = heed_all(a.said) /\ Listened' \in Clients
        /\ Agreeing(history.stream \o whole, sysex',
                    history.found \o a.frames)
    BY <1>1, <1>3, <1>4, AbsorbFacts
  <1>8. history' \in Histories
    BY <1>1, <1>3, <1>4, <1>6, <1>7, SentTypes
  <1>9. history.got \o <<>> = history.got
    BY <1>1 DEF Types, Histories
  <1>10. /\ out' = SubSeq(out, k + 1, Len(out)) /\ whole' = whole
         /\ history'.torn = history.torn
         /\ history'.sent = history.sent
         /\ history'.stream = history.stream \o whole
         /\ history'.found = history.found \o a.frames
         /\ history'.got = history.got
         /\ history'.heard = history.heard \o ControlsOf(whole)
         /\ history'.taken = history.taken
    <2>1. history.torn \in BOOLEAN
      BY <1>1 DEF Types, Histories
    <2>2. LET lost  == whole = <<>>
              doubt == history.doubt \/ lost
              done  == k = Len(out) /\ IsSysex(whole) /\ ~doubt
          IN /\ out' = SubSeq(out, k + 1, Len(out)) /\ whole' = whole
             /\ history'.doubt = doubt
             /\ history'.torn = (history.torn \/ (lost /\ IsSysex(whole)))
             /\ history'.sent = IF done THEN Append(history.sent, whole)
                                ELSE history.sent
             /\ history'.stream = history.stream \o whole
             /\ history'.found = history.found \o feed(whole).frames
             /\ history'.got = IF doubt THEN history.got
                               ELSE history.got \o feed(whole).frames
             /\ history'.heard = IF lost THEN history.heard
                                 ELSE history.heard \o ControlsOf(whole)
             /\ history'.taken = history.taken
      BY <1>1, <1>3, SentFacts
    <2>3. QED
      BY <1>2, <1>4, <1>6, <1>9, <2>1, <2>2
  <1> HIDE DEF a
  <1>11. Sending' /\ out' = <<>>
    <2>1. out \in Seq(Nat) /\ SubSeq(out, Len(out) + 1, Len(out)) = <<>>
      <3>1. out \in Seq(Nat)
        BY <1>1 DEF Types
      <3>2. QED
        BY <3>1
    <2>2. out' = <<>>
      BY <1>2, <1>10, <2>1
    <2>3. QED
      BY <2>2 DEF Sending
  <1>12. ~InMiddle'
    BY <1>11 DEF InMiddle
  <1>13. Types'
    <2>1. UNCHANGED player
      BY <1>3 DEF Sent
    <2>2. a.sysex \in Seq(Nat) /\ a.channel \in Running
      BY <1>7 DEF Assemblers
    <2>3. <<>> \in Seq(Nat)
      OBVIOUS
    <2>4. QED
      BY <1>1, <1>7, <1>8, <1>10, <1>11, <2>1, <2>2, <2>3 DEF Types
  <1>14. Framing' /\ ReadAsSent' /\ AgreedOn'
    BY <1>1, <1>7, <1>10, <1>12 DEF Framing, ReadAsSent, AgreedOn
  <1>15. Hearing'
    <2>1. SUFFICES ASSUME ~history.torn
                   PROVE  Following(Listened', history'.heard,
                                    history'.taken)
      BY <1>10, <1>12 DEF Hearing
    <2>2. Following(Listened, history.heard, history.taken)
      BY <1>1, <2>1 DEF Hearing
    <2>3. Following(heed_all(feed(whole).said),
                    history.heard \o ControlsOf(whole), history.taken)
      BY <1>1, <1>5, <2>2, ChannelHeard
    <2>4. QED
      BY <1>7, <1>10, <2>3 DEF a
  <1>16. QED
    BY <1>11, <1>13, <1>14, <1>15 DEF WireInv

(* A chunk is lost.                                                        *)
LEMMA FeedNothing ==
    ASSUME Types
    PROVE  feed(<<>>) \in Assemblers /\ feed(<<>>).frames = <<>>
  <1>1. <<>> \in Seq(WireBytes) /\ Len(<<>>) = 0 /\ 0 \in 0..0
    OBVIOUS
  <1>2. PICK after \in [0..0 -> Assemblers] :
           Feeding(<<>>, after) /\ feed(<<>>) = after[0]
    BY <1>1, FeedIs DEF Types
  <1>3. QED
    BY <1>1, <1>2 DEF Feeding, Waiting

LEMMA LostKeeps ==
    ASSUME WireInv, NEW k \in DOMAIN out, Ends(k), Sent(k, <<>>),
           UNCHANGED clientVars
    PROVE  WireInv'
  <1>1. Types /\ Sending /\ Framing /\ ReadAsSent /\ AgreedOn /\ Hearing
    BY DEF WireInv
  <1>2. UNCHANGED <<player, sysex, channel, decoder, controls, events>>
    BY DEF Sent, clientVars
  <1>3. Listened' = Listened
    BY <1>2 DEF Listened
  <1>4. feed(<<>>) \in Assemblers /\ feed(<<>>).frames = <<>>
        /\ <<>> \in Seq(Nat)
    BY <1>1, FeedNothing
  <1>5. history' \in Histories
    BY <1>1, <1>4, SentTypes
  <1>6. /\ history.stream \o <<>> = history.stream
        /\ history.found \o <<>> = history.found
        /\ history.torn \in BOOLEAN
    BY <1>1 DEF Types, Histories
  <1>7. /\ out' = SubSeq(out, k + 1, Len(out)) /\ whole' = whole
        /\ history'.doubt
        /\ history'.torn = (history.torn \/ IsSysex(whole))
        /\ history'.sent = history.sent
        /\ history'.stream = history.stream
        /\ history'.found = history.found
        /\ history'.got = history.got
        /\ history'.heard = history.heard
        /\ history'.taken = history.taken
    <2>1. LET lost  == <<>> = <<>>
              doubt == history.doubt \/ lost
              done  == k = Len(out) /\ IsSysex(whole) /\ ~doubt
          IN /\ out' = SubSeq(out, k + 1, Len(out)) /\ whole' = whole
             /\ history'.doubt = doubt
             /\ history'.torn = (history.torn \/ (lost /\ IsSysex(whole)))
             /\ history'.sent = IF done THEN Append(history.sent, whole)
                                ELSE history.sent
             /\ history'.stream = history.stream \o <<>>
             /\ history'.found = history.found \o feed(<<>>).frames
             /\ history'.got = IF doubt THEN history.got
                               ELSE history.got \o feed(<<>>).frames
             /\ history'.heard = IF lost THEN history.heard
                                 ELSE history.heard \o ControlsOf(whole)
             /\ history'.taken = history.taken
      BY <1>1, SentFacts
    <2>2. QED
      BY <1>4, <1>6, <2>1
  <1>8. /\ Sending' /\ out' \in Seq(Nat)
        /\ InMiddle' => IsSysexMessage(whole)
    BY <1>1, <1>7, SendingOn
  <1>9. Types'
    BY <1>1, <1>2, <1>3, <1>5, <1>7, <1>8 DEF Types
  <1>10. Framing' /\ ReadAsSent' /\ AgreedOn'
    BY <1>1, <1>2, <1>7 DEF Framing, ReadAsSent, AgreedOn
  <1>11. Hearing'
    <2>1. InMiddle' => history'.torn
      BY <1>7, <1>8, MessageKinds
    <2>2. QED
      BY <1>1, <1>3, <1>7, <2>1 DEF Hearing
  <1>12. QED
    BY <1>8, <1>9, <1>10, <1>11 DEF WireInv

LEMMA StutterKeeps ==
    ASSUME WireInv, UNCHANGED wireVars
    PROVE  WireInv'
  <1>1. UNCHANGED <<player, out, whole, sysex, channel, decoder, controls,
                    events, history>>
    BY DEF wireVars
  <1>2. Listened' = Listened
    BY <1>1 DEF Listened
  <1>3. Types'
    BY <1>1, <1>2 DEF WireInv, Types
  <1>4. Sending' /\ InMiddle' = InMiddle /\ Gone' = Gone
    BY <1>1 DEF WireInv, Sending, Gone, InMiddle
  <1>5. Framing' /\ ReadAsSent' /\ AgreedOn'
    BY <1>1, <1>4 DEF WireInv, Framing, ReadAsSent, AgreedOn
  <1>6. Hearing'
    BY <1>1, <1>2, <1>4 DEF WireInv, Hearing
  <1>7. QED
    BY <1>3, <1>4, <1>5, <1>6 DEF WireInv

LEMMA DeliverKeeps ==
    ASSUME WireInv, NEW k \in DOMAIN out,
           NEW rt \in {<<>>} \cup {<<r>> : r \in Realtime}, Deliver(k, rt)
    PROVE  WireInv'
  <1>1. IsSysexMessage(whole) \/ IsChannelMessage(whole)
    <2>1. out # <<>>
      <3>1. out \in Seq(Nat)
        BY DEF WireInv, Types
      <3>2. QED
        BY <3>1
    <2>2. QED
      BY <2>1 DEF WireInv, Sending
  <1>2. QED
    BY <1>1, DeliverSysex, DeliverChannel

LEMMA WireStep ==
    ASSUME WireInv, [WireNext]_wireVars
    PROVE  WireInv'
  <1>1. CASE \E m \in player : Begin(m)
    BY <1>1, BeginKeeps
  <1>2. ASSUME NEW k \in DOMAIN out,
               NEW rt \in {<<>>} \cup {<<r>> : r \in Realtime},
               Deliver(k, rt)
        PROVE  WireInv'
    BY <1>2, DeliverKeeps
  <1>3. ASSUME NEW k \in DOMAIN out, Filtered(k) PROVE WireInv'
    <2>1. Ends(k) /\ Sent(k, <<>>) /\ UNCHANGED clientVars
      BY <1>3 DEF Filtered
    <2>2. QED
      BY <2>1, LostKeeps
  <1>4. ASSUME NEW k \in DOMAIN out, QueueFull(k) PROVE WireInv'
    <2>1. Ends(k) /\ Sent(k, <<>>) /\ UNCHANGED clientVars
      BY <1>4 DEF QueueFull
    <2>2. QED
      BY <2>1, LostKeeps
  <1>5. CASE CutOff
    BY <1>5, CutOffKeeps
  <1>6. CASE Reset
    BY <1>6, ResetKeeps
  <1>7. CASE \E on \in BOOLEAN : listen_controllers(on)
    BY <1>7, ListenKeeps
  <1>8. CASE take_controls
    BY <1>8, TakeControlsKeeps
  <1>9. CASE take_events
    BY <1>9, TakeEventsKeeps
  <1>10. CASE UNCHANGED wireVars
    BY <1>10, StutterKeeps
  <1>11. QED
    BY <1>1, <1>2, <1>3, <1>4, <1>5, <1>6, <1>7, <1>8, <1>9, <1>10
       DEF WireNext

-----------------------------------------------------------------------------
(* The theorems.                                                           *)

\* The inductive invariant: what is still to come of a message is its end, the
\* assembler has what has come of it, both readers agree on what was read of
\* the bytes, and the decoder and the list follow the controllers heard.
THEOREM WireInvHolds == WireSpec => []WireInv
  <1>1. WireInit => WireInv
    BY WireStarts
  <1>2. WireInv /\ [WireNext]_wireVars => WireInv'
    BY WireStep
  <1>3. QED
    BY <1>1, <1>2, PTL DEF WireSpec

\* However a message was cut into chunks, with real-time bytes between them and
\* others cut short before it, it is read once, as it was sent and in order.
THEOREM MessagesAreReadAsSent == WireSpec => []ReadAsSent
  <1>1. WireInv => ReadAsSent
    BY DEF WireInv
  <1>2. QED
    BY <1>1, WireInvHolds, PTL

\* The assembler of the cable and the reader of files accept the same messages
\* in every stream of bytes that came in.
THEOREM TheReadersAgree == WireSpec => []ReadersAgree
  <1>1. WireInv => ReadersAgree
    BY DEF WireInv, AgreedOn, Agreeing, ReadersAgree
  <1>2. QED
    BY <1>1, WireInvHolds, PTL

\* Every source that moved is listed once with the value it last had, of the
\* parameter number that was selected when it was entered.
THEOREM TheControlsAreRight == WireSpec => []ControlsAreRight
  <1>1. WireInv => ControlsAreRight
    <2>1. SUFFICES ASSUME WireInv PROVE ControlsAreRight
      OBVIOUS
    <2>2. CASE history.torn
      BY <2>2 DEF ControlsAreRight
    <2>3. CASE ~history.torn
      <3>1. Right(controls, history.heard, history.taken)
        BY <2>1, <2>3 DEF WireInv, Hearing, Following, Listened
      <3>2. QED
        BY <3>1, RightIs
    <2>4. QED
      BY <2>2, <2>3
  <1>2. QED
    BY <1>1, WireInvHolds, PTL
=============================================================================
