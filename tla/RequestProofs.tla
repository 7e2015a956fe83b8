--------------------------- MODULE RequestProofs ----------------------------
(***************************************************************************)
(* Proofs about Request, for any memory, blocks, deadlines and number of   *)
(* attempts: the types, AnswerIsHeld, Bounded and AskedOnQuietLine.        *)
(*                                                                         *)
(* A request that began on a quiet line has the reply to itself: what is   *)
(* on its way are pieces of its block that it still waits for, each cell   *)
(* once (Outstanding), of what the instrument held since (Genuine), and    *)
(* they are there before the next attempt (Punctual).  So it is answered   *)
(* by the last of them, or asks again when none is left.                   *)
(***************************************************************************)
EXTENDS Request, FiniteSetTheorems, TLAPS

Asking  == phase \in {"collect", "pause"}
Alone   == Asking /\ line = "quiet"

(* How long the client may have taken: to the end of attempt a.            *)
Paid(a) == (a + 1) * Ceiling + a * Inter

Pace ==
    /\ phase = "collect" => spent + life <= Paid(attempt)
    /\ phase = "pause" =>
          attempt > 0 /\ spent + wait <= Paid(attempt - 1) + Inter
    /\ spent <= LongestRequest

(* The request is for a block, and its history tells what it holds.        *)
Wants ==
    /\ phase = "idle" => want = {}
    /\ phase # "idle" => want \in Blocks
    /\ \A c \in want : mem[c] \in held[c]

(* Nothing is slower than the cable, and the echo of a write is there      *)
(* before its read-back.                                                   *)
Dues ==
    /\ \A i \in DOMAIN cable : cable[i].due <= Delay
    /\ \A i \in DOMAIN echoes : echoes[i].due <= EchoDelay
    /\ phase = "settle" => \A i \in DOMAIN echoes : echoes[i].due < wait

(* Nothing else arrives, or waits in the port while the request listens.   *)
NothingElse ==
    Alone => /\ echoes = <<>>
             /\ (phase = "pause" \/ Listening \/ Complete) => inbox = <<>>

(* The pieces on their way show what the block has held.                   *)
Shows(d) == DOMAIN d \subseteq want /\ \A c \in DOMAIN d : d[c] \in held[c]

Genuine ==
    Alone => /\ \A i \in DOMAIN stream : Shows(stream[i])
             /\ \A i \in DOMAIN cable : Shows(cable[i].data)
             /\ \A c \in want : got[c] \subseteq held[c]

(* They are the pieces of one reply, and the ones the request waits for.   *)
Apart(d, e) == DOMAIN d \cap DOMAIN e = {}
Awaited(d)  == \A c \in DOMAIN d : got[c] = {}

OneReply ==
    /\ \A i, j \in DOMAIN stream : i # j => Apart(stream[i], stream[j])
    /\ \A i, j \in DOMAIN cable : i # j => Apart(cable[i].data, cable[j].data)
    /\ \A i \in DOMAIN stream, j \in DOMAIN cable :
          Apart(stream[i], cable[j].data)

AllAwaited ==
    /\ \A i \in DOMAIN stream : Awaited(stream[i])
    /\ \A i \in DOMAIN cable : Awaited(cable[i].data)

Outstanding ==
    Alone => OneReply /\ (phase = "collect" => AllAwaited)

(* They are there within T ticks: n pieces take as long as this, once the  *)
(* first goes out.                                                         *)
Span(n) == (n - 1) * Gap + Delay

OnTime(T) ==
    /\ stream # <<>> => next + Span(Len(stream)) < T
    /\ \A i \in DOMAIN cable : cable[i].due < T

(* ... before the next attempt, and if a piece is taken now, the rest of   *)
(* them too, for which the wait starts anew.                               *)
Punctual ==
    Alone => /\ phase = "collect" => OnTime(wait + Inter) /\ OnTime(life + Inter)
             /\ phase = "pause" => OnTime(wait)
             /\ Len(stream) <= Cardinality(want)
             /\ (cable # <<>> /\ stream # <<>>)
                   => next <= Gap /\ Len(stream) < Cardinality(want)

IInv ==
    /\ TypeOK /\ Pace /\ Wants /\ Dues
    /\ NothingElse /\ Genuine /\ Outstanding /\ Punctual

-----------------------------------------------------------------------------
(* Numbers.                                                                *)

(* Products grow with their factors.                                       *)
LEMMA Products ==
    ASSUME NEW a \in Nat, NEW b \in Nat, NEW c \in Nat, a <= b
    PROVE  a * c \in Nat /\ b * c \in Nat /\ a * c <= b * c
  <1>1. b * c = a * c + (b - a) * c
    BY SMT
  <1>2. (b - a) * c \in Nat /\ a * c \in Nat /\ b * c \in Nat
    BY SMT
  <1>3. QED
    BY <1>1, <1>2

(* The deadlines and delays are numbers.                                   *)
LEMMA Numbers ==
    /\ {First, Inter, Ceiling, Window, Retries, MaxDrain, Capacity} \subseteq Nat
    /\ {Latency, Gap, Delay, EchoDelay, MaxActs} \subseteq Nat
    /\ 0 < First /\ First <= Ceiling
  BY TimesAssumption

(* Each attempt adds its ceiling and the pause before it, and all of them  *)
(* are within the longest request.                                         *)
LEMMA PaidFacts ==
    ASSUME NEW a \in 0..Retries
    PROVE  /\ Paid(a) \in Nat /\ Paid(a) <= LongestRequest
           /\ a > 0 => Paid(a - 1) \in Nat /\ Paid(a) = Paid(a - 1) + Inter + Ceiling
           /\ Paid(0) = Ceiling
           /\ LongestRequest \in Nat
  <1>1. /\ a * Inter \in Nat /\ Retries * Inter \in Nat
        /\ a * Inter <= Retries * Inter
    BY Products, Numbers
  <1>2. /\ (a + 1) * Ceiling \in Nat /\ (Retries + 1) * Ceiling \in Nat
        /\ (a + 1) * Ceiling <= (Retries + 1) * Ceiling
    BY Products, Numbers, a + 1 <= Retries + 1, Retries \in Nat
  <1>3. ASSUME a > 0
        PROVE  Paid(a - 1) \in Nat /\ Paid(a) = Paid(a - 1) + Inter + Ceiling
    <2>1. /\ (a - 1) * Inter \in Nat /\ (a - 1) * Inter + Inter = a * Inter
      BY <1>3, Numbers
    <2>2. /\ a * Ceiling \in Nat /\ a * Ceiling + Ceiling = (a + 1) * Ceiling
      BY <1>3, Numbers
    <2>3. Paid(a - 1) = a * Ceiling + (a - 1) * Inter
      BY <1>3, Numbers DEF Paid
    <2>4. QED
      BY <2>1, <2>2, <2>3, Numbers DEF Paid
  <1>4. Paid(0) = Ceiling
    BY Numbers DEF Paid
  <1>5. QED
    BY <1>1, <1>2, <1>3, <1>4, Numbers, SMTT(30) DEF Paid, LongestRequest

(* One piece more takes another gap, more pieces take longer.              *)
LEMMA SpanFacts ==
    ASSUME NEW n \in Nat \ {0}
    PROVE  /\ Span(n) \in Nat /\ Delay <= Span(n)
           /\ Span(n + 1) = Span(n) + Gap
           /\ \A m \in Nat : n <= m => Span(n) <= Span(m)
  <1>1. (n - 1) * Gap \in Nat
    BY Products, Numbers, n - 1 \in Nat
  <1>2. n * Gap = (n - 1) * Gap + Gap
    BY Numbers
  <1>3. Span(n + 1) = n * Gap + Delay
    BY Numbers DEF Span
  <1>4. ASSUME NEW m \in Nat, n <= m PROVE Span(n) <= Span(m)
    <2>1. (n - 1) * Gap <= (m - 1) * Gap /\ (m - 1) * Gap \in Nat
      BY <1>4, Products, Numbers, n - 1 \in Nat, m - 1 \in Nat, n - 1 <= m - 1
    <2>2. QED
      BY <1>1, <2>1, Numbers DEF Span
  <1>5. QED
    BY <1>1, <1>2, <1>3, <1>4, Numbers DEF Span

(* A block has cells, and its reply is there in time.                      *)
LEMMA BlockFacts ==
    ASSUME NEW B \in Blocks
    PROVE  /\ B \subseteq Cell /\ B # {} /\ IsFiniteSet(B)
           /\ Cardinality(B) \in Nat \ {0}
           /\ Latency + Span(Cardinality(B)) < First + Inter
           /\ Span(Cardinality(B)) < Inter + Inter
  <1>1. B \subseteq Cell /\ B # {} /\ IsFiniteSet(B)
    BY BlocksAssumption
  <1>2. Cardinality(B) \in Nat \ {0}
    BY <1>1, FS_CardinalityType, FS_EmptySet
  <1>3. /\ Latency + (Cardinality(B) - 1) * Gap + Delay < First + Inter
        /\ (Cardinality(B) - 1) * Gap + Delay < Inter + Inter
    BY QuickEnough
  <1>4. (Cardinality(B) - 1) * Gap \in Nat
    BY <1>2, Products, Numbers, Cardinality(B) - 1 \in Nat
  <1>5. QED
    BY <1>1, <1>2, <1>3, <1>4, Numbers DEF Span

(* An echo is there before the read-back.                                  *)
LEMMA EchoesAreQuick == EchoDelay < Window
  BY QuickEnough

-----------------------------------------------------------------------------
(* Sequences.                                                              *)

(* A sequence without its head.                                            *)
LEMMA TailFacts ==
    ASSUME NEW S, NEW q \in Seq(S), q # <<>>
    PROVE  /\ Len(q) \in Nat \ {0} /\ DOMAIN q = 1..Len(q) /\ q[1] \in S
           /\ Tail(q) \in Seq(S)
           /\ Len(Tail(q)) = Len(q) - 1 /\ DOMAIN Tail(q) = 1..Len(q) - 1
           /\ \A i \in 1..Len(q) - 1 : Tail(q)[i] = q[i + 1]
  OBVIOUS

(* A sequence with an element added at its end.                            *)
LEMMA AppendFacts ==
    ASSUME NEW S, NEW q \in Seq(S), NEW e \in S
    PROVE  /\ Append(q, e) \in Seq(S) /\ Append(q, e) # <<>>
           /\ Len(Append(q, e)) = Len(q) + 1
           /\ DOMAIN Append(q, e) = 1..Len(q) + 1
           /\ DOMAIN q = 1..Len(q) /\ Len(q) \in Nat
           /\ \A i \in 1..Len(q) : Append(q, e)[i] = q[i]
           /\ Append(q, e)[Len(q) + 1] = e
  OBVIOUS

(* An empty sequence has no elements.                                      *)
LEMMA EmptyFacts ==
    ASSUME NEW S, NEW q \in Seq(S)
    PROVE  /\ Len(q) \in Nat /\ DOMAIN q = 1..Len(q)
           /\ q = <<>> <=> DOMAIN q = {}
           /\ q = <<>> <=> Len(q) = 0
  OBVIOUS

(* Frames a tick later.                                                    *)
LEMMA SoonerFacts ==
    ASSUME NEW q \in Seq(Frame), \A i \in DOMAIN q : q[i].due > 0
    PROVE  /\ Sooner(q) \in Seq(Frame) /\ DOMAIN Sooner(q) = DOMAIN q
           /\ Sooner(q) = <<>> <=> q = <<>>
           /\ \A i \in DOMAIN q : /\ Sooner(q)[i].data = q[i].data
                                  /\ Sooner(q)[i].due = q[i].due - 1
                                  /\ q[i].due \in Nat
  <1>1. Len(q) \in Nat /\ DOMAIN q = 1..Len(q) /\ (q = <<>> <=> DOMAIN q = {})
    BY EmptyFacts
  <1>2. ASSUME NEW i \in DOMAIN q
        PROVE  /\ Sooner(q)[i] \in Frame /\ Sooner(q)[i].data = q[i].data
               /\ Sooner(q)[i].due = q[i].due - 1 /\ q[i].due \in Nat
    <2>0. q[i] \in Frame /\ q[i].due > 0
      BY <1>2, <1>1
    <2>1. q[i].due \in 0 .. Delay + EchoDelay
      BY <2>0 DEF Frame
    <2>2. Sooner(q)[i] = [q[i] EXCEPT !.due = @ - 1]
      BY <1>2 DEF Sooner
    <2>3. q[i].due - 1 \in 0 .. Delay + EchoDelay
      BY <2>1, Numbers, SMTT(30)
    <2>4. Sooner(q)[i] \in Frame
      BY <2>0, <2>2, <2>3 DEF Frame
    <2>5. QED
      BY <2>0, <2>1, <2>2, <2>4, Numbers DEF Frame
  <1>3. DOMAIN Sooner(q) = DOMAIN q
    BY DEF Sooner
  <1>4. Sooner(q) \in Seq(Frame)
    <2>1. Sooner(q) = [i \in 1..Len(q) |-> Sooner(q)[i]]
      BY <1>1, <1>3 DEF Sooner
    <2>2. QED
      BY <1>1, <1>2, <2>1
  <1>5. QED
    BY <1>1, <1>2, <1>3, <1>4, EmptyFacts

(* The frames of a queue.                                                  *)
LEMMA FrameFacts ==
    ASSUME NEW q \in Seq(Frame), NEW i \in DOMAIN q
    PROVE  q[i] \in Frame /\ q[i].data \in Piece /\ q[i].due \in Nat
  <1>1. q[i] \in Frame
    OBVIOUS
  <1>2. QED
    BY <1>1, Numbers DEF Frame

(* A frame is put on its way.                                              *)
LEMMA SentFacts ==
    ASSUME NEW q \in Seq(Frame), NEW d \in Piece, NEW t \in {Delay, EchoDelay}
    PROVE  LET e == [data |-> d, due |-> t]
           IN  /\ e \in Frame /\ Append(q, e) \in Seq(Frame)
               /\ DOMAIN Append(q, e) = 1..Len(q) + 1
               /\ DOMAIN q = 1..Len(q) /\ Len(q) \in Nat
               /\ \A i \in 1..Len(q) : Append(q, e)[i] = q[i]
               /\ Append(q, e)[Len(q) + 1].data = d
               /\ Append(q, e)[Len(q) + 1].due = t
  <1> DEFINE e == [data |-> d, due |-> t]
  <1>1. e \in Frame /\ e.data = d /\ e.due = t
    BY Numbers DEF Frame
  <1> HIDE DEF e
  <1>2. /\ e \in Frame /\ Append(q, e) \in Seq(Frame)
        /\ DOMAIN Append(q, e) = 1..Len(q) + 1
        /\ DOMAIN q = 1..Len(q) /\ Len(q) \in Nat
        /\ \A i \in 1..Len(q) : Append(q, e)[i] = q[i]
        /\ Append(q, e)[Len(q) + 1] = e
    BY <1>1, AppendFacts
  <1>3. QED
    BY <1>1, <1>2 DEF e

(* The data of some cells.                                                 *)
LEMMA RestrictedFacts ==
    ASSUME NEW m \in [Cell -> Value], NEW S \in SUBSET Cell, S # {}
    PROVE  /\ Restricted(m, S) \in Piece /\ DOMAIN Restricted(m, S) = S
           /\ \A c \in S : Restricted(m, S)[c] = m[c]
  <1>1. DOMAIN m \cap S = S
    OBVIOUS
  <1>2. Restricted(m, S) \in [S -> Value]
    BY <1>1 DEF Restricted
  <1>3. QED
    BY <1>1, <1>2 DEF Restricted, Piece

(* A piece has cells.                                                      *)
LEMMA PieceFacts ==
    ASSUME NEW d \in Piece
    PROVE  DOMAIN d \subseteq Cell /\ DOMAIN d # {} /\ \A c \in DOMAIN d : d[c] \in Value
  BY DEF Piece

-----------------------------------------------------------------------------
(* The steps.                                                              *)

(* The instrument's reply, where it takes the request: pieces of what the  *)
(* block holds, each cell once.                                            *)
Reading(B, s) ==
    /\ \A i \in DOMAIN s : DOMAIN s[i] \subseteq B
                           /\ \A c \in DOMAIN s[i] : s[i][c] = mem[c]
    /\ \A i, j \in DOMAIN s : i # j => Apart(s[i], s[j])

LEMMA CellByCellFacts ==
    ASSUME TypeOK, NEW B \in Blocks, NEW s \in InOrder(B)
    PROVE  /\ CellByCell(s) \in Seq(Piece) /\ Len(CellByCell(s)) = Cardinality(B)
           /\ Reading(B, CellByCell(s))
  <1>1. /\ s \in [1..Cardinality(B) -> B]
        /\ \A i, j \in 1..Cardinality(B) : i < j => s[i] < s[j]
    BY DEF InOrder
  <1>2. B \subseteq Cell /\ B \subseteq Int /\ Cardinality(B) \in Nat
    BY BlockFacts, BlocksAssumption
  <1>3. ASSUME NEW i \in 1..Cardinality(B)
        PROVE  /\ CellByCell(s)[i] \in Piece /\ DOMAIN CellByCell(s)[i] = {s[i]}
               /\ \A c \in DOMAIN CellByCell(s)[i] : CellByCell(s)[i][c] = mem[c]
    <2>1. CellByCell(s)[i] = Restricted(mem, {s[i]})
      BY <1>1, <1>3 DEF CellByCell
    <2>2. {s[i]} \in SUBSET Cell /\ {s[i]} # {}
      BY <1>1, <1>2, <1>3
    <2>3. mem \in [Cell -> Value]
      BY DEF TypeOK
    <2>4. /\ Restricted(mem, {s[i]}) \in Piece
          /\ DOMAIN Restricted(mem, {s[i]}) = {s[i]}
          /\ \A c \in {s[i]} : Restricted(mem, {s[i]})[c] = mem[c]
      BY <2>2, <2>3, RestrictedFacts
    <2>5. QED
      BY <2>1, <2>4
  <1>4. DOMAIN CellByCell(s) = 1..Cardinality(B)
    BY <1>1 DEF CellByCell
  <1>5. CellByCell(s) \in Seq(Piece) /\ Len(CellByCell(s)) = Cardinality(B)
    <2>1. CellByCell(s) = [i \in 1..Cardinality(B) |-> CellByCell(s)[i]]
      BY <1>1, <1>4 DEF CellByCell
    <2>2. QED
      BY <1>2, <1>3, <2>1
  <1>6. ASSUME NEW i \in 1..Cardinality(B), NEW j \in 1..Cardinality(B), i # j
        PROVE  Apart(CellByCell(s)[i], CellByCell(s)[j])
    <2>1. i < j \/ j < i
      BY <1>2, <1>6
    <2>2. s[i] \in Int /\ s[j] \in Int
      BY <1>1, <1>2
    <2>3. s[i] < s[j] \/ s[j] < s[i]
      BY <1>1, <2>1
    <2>4. s[i] # s[j]
      BY <2>2, <2>3
    <2>5. QED
      BY <1>3, <2>4 DEF Apart
  <1>7. ASSUME NEW i \in 1..Cardinality(B)
        PROVE  DOMAIN CellByCell(s)[i] \subseteq B
    BY <1>1, <1>3, <1>7
  <1>8. QED
    BY <1>3, <1>4, <1>5, <1>6, <1>7 DEF Reading

LEMMA Rq1Facts ==
    ASSUME TypeOK, NEW B \in Blocks, Rq1(B)
    PROVE  /\ stream' \in Seq(Piece) /\ next' \in 0..Longest(Latency, Gap)
           /\ stream = <<>> => /\ Reading(B, stream')
                               /\ stream' # <<>> => next' = Latency
                               /\ Len(stream') <= Cardinality(B)
  <1>1. B \in SUBSET Cell /\ B # {} /\ Cardinality(B) \in Nat \ {0}
    BY BlockFacts
  <1>2. CASE UNCHANGED <<stream, next>>
    <2>1. stream \in Seq(Piece) /\ next \in 0..Longest(Latency, Gap)
      BY DEF TypeOK
    <2>2. stream = <<>> => Reading(B, stream') /\ Len(stream') = 0
      BY <1>2, <2>1, EmptyFacts DEF Reading
    <2>3. QED
      BY <1>1, <1>2, <2>1, <2>2
  <1>3. CASE stream' = <<Restricted(mem, B)>> /\ next' = Latency
    <2>1. /\ Restricted(mem, B) \in Piece /\ DOMAIN Restricted(mem, B) = B
          /\ \A c \in B : Restricted(mem, B)[c] = mem[c]
      BY <1>1, RestrictedFacts DEF TypeOK
    <2>2. /\ stream' \in Seq(Piece) /\ Len(stream') = 1 /\ DOMAIN stream' = {1}
          /\ stream'[1] = Restricted(mem, B)
      BY <1>3, <2>1
    <2>3. Reading(B, stream')
      BY <2>1, <2>2 DEF Reading
    <2>4. QED
      BY <1>1, <1>3, <2>2, <2>3, Numbers DEF Longest
  <1>4. CASE next' = Latency /\ \E s \in InOrder(B) : stream' = CellByCell(s)
    <2>1. PICK s \in InOrder(B) : stream' = CellByCell(s)
      BY <1>4
    <2>2. /\ stream' \in Seq(Piece) /\ Len(stream') = Cardinality(B)
          /\ Reading(B, stream')
      BY <2>1, CellByCellFacts
    <2>3. QED
      BY <1>1, <1>4, <2>2, Numbers DEF Longest
  <1>5. QED
    BY <1>2, <1>3, <1>4 DEF Rq1

-----------------------------------------------------------------------------
(* Types.                                                                  *)

LEMMA TypeInit == Init => TypeOK
  <1>1. <<>> \in Seq(Piece) /\ <<>> \in Seq(Frame) /\ Len(<<>>) = 0
    OBVIOUS
  <1>2. <<>> \in [{} -> SUBSET Value]
    OBVIOUS
  <1>3. LongestRequest \in Nat
    BY PaidFacts, Numbers, 0 \in 0..Retries
  <1>4. QED
    BY <1>1, <1>2, <1>3, Numbers DEF Init, TypeOK, Longest

(* What is placed.                                                         *)
LEMMA PlaceType ==
    ASSUME TypeOK, NEW d \in Piece, Place(d)
    PROVE  /\ got' \in [want -> SUBSET Value]
           /\ wait' \in 0..Longest(Longest(First, Inter), Window)
           /\ phase = "collect" => wait' <= life
  <1>1. \A c \in DOMAIN d : d[c] \in Value
    BY PieceFacts
  <1>2. got' \in [want -> SUBSET Value]
    BY <1>1 DEF Place, TypeOK
  <1>3. wait' = wait \/ wait' = Soonest(Inter, life)
    BY DEF Place, Extended
  <1>4. /\ life \in 0..Ceiling
        /\ wait \in 0..Longest(Longest(First, Inter), Window)
        /\ phase = "collect" => wait <= life
    BY DEF TypeOK
  <1>5. QED
    BY <1>2, <1>3, <1>4, Numbers DEF Soonest, Longest

(* What is taken, placed or left in the port.                              *)
LEMMA TakeType ==
    ASSUME TypeOK, NEW d \in Piece, Take(d)
    PROVE  /\ inbox' \in Seq(Piece) /\ Len(inbox') <= Capacity
           /\ got' \in [want -> SUBSET Value]
           /\ wait' \in 0..Longest(Longest(First, Inter), Window)
           /\ phase = "collect" => wait' <= life
  <1>1. /\ inbox \in Seq(Piece) /\ Len(inbox) <= Capacity
        /\ got \in [want -> SUBSET Value]
        /\ wait \in 0..Longest(Longest(First, Inter), Window)
        /\ phase = "collect" => wait <= life
        /\ life \in 0..Ceiling
    BY DEF TypeOK
  <1>3. CASE Place(d) /\ UNCHANGED inbox
    BY <1>1, <1>3, PlaceType
  <1>4. CASE UNCHANGED <<inbox, got, wait>>
    BY <1>1, <1>4
  <1>5. CASE /\ inbox' = (IF HasRoom THEN Append(inbox, d) ELSE inbox)
             /\ UNCHANGED <<got, wait>>
    <2>1. HasRoom => Len(inbox) + 1 <= Capacity
      BY <1>1, Numbers, SMTT(30) DEF HasRoom
    <2>2. QED
      BY <1>1, <1>5, <2>1, AppendFacts
  <1>6. QED
    BY <1>3, <1>4, <1>5 DEF Take


LEMMA AskType ==
    ASSUME TypeOK, NEW B \in Blocks, Ask(B)
    PROVE  /\ mem' \in [Cell -> Value]
           /\ stream' \in Seq(Piece) /\ next' \in 0..Longest(Latency, Gap)
           /\ cable' \in Seq(Frame) /\ echoes' \in Seq(Frame)
           /\ inbox' \in Seq(Piece) /\ Len(inbox') <= Capacity
           /\ phase' = "collect" /\ life' = Ceiling /\ wait' = First
           /\ got' \in [B -> SUBSET Value]
  <1>1. inbox \in Seq(Piece) /\ Len(inbox) <= Capacity
    BY DEF TypeOK
  <1>2. inbox' = SubSeq(inbox, MaxDrain + 1, Len(inbox))
    BY DEF Ask, Drained
  <1>3. inbox' \in Seq(Piece) /\ Len(inbox') <= Capacity
    <2>1. MaxDrain + 1 \in Nat \ {0} /\ Len(inbox) \in Nat /\ MaxDrain \in Nat
      BY <1>1, Numbers
    <2>2. inbox' \in Seq(Piece) /\ Len(inbox') = (IF MaxDrain + 1 <= Len(inbox) THEN Len(inbox) - (MaxDrain + 1) + 1 ELSE 0)
      BY <1>1, <1>2, <2>1
    <2>3. QED
      BY <1>1, <2>1, <2>2, Numbers, SMTT(30)
  <1>4. stream' \in Seq(Piece) /\ next' \in 0..Longest(Latency, Gap)
    BY Rq1Facts DEF Ask
  <1>5. wait' = First
    BY Numbers DEF Ask, Soonest
  <1>6. got' \in [B -> SUBSET Value]
    BY DEF Ask
  <1>7. QED
    BY <1>3, <1>4, <1>5, <1>6 DEF Ask, TypeOK

LEMMA Dt1Type ==
    ASSUME TypeOK, NEW S \in SUBSET Cell, S # {}, NEW d \in [S -> Value], Dt1(d)
    PROVE  mem' \in [Cell -> Value] /\ echoes' \in Seq(Frame)
  <1>1. mem' \in [Cell -> Value]
    BY DEF Dt1, TypeOK
  <1>2. [data |-> d, due |-> EchoDelay] \in Frame
    BY Numbers DEF Frame, Piece
  <1>3. echoes \in Seq(Frame)
    BY DEF TypeOK
  <1>4. Append(echoes, [data |-> d, due |-> EchoDelay]) \in Seq(Frame)
    BY <1>2, <1>3, AppendFacts
  <1>5. QED
    BY <1>1, <1>3, <1>4 DEF Dt1

(* Blocks are of the cells there are.                                      *)
LEMMA TypeStep == TypeOK /\ Wants /\ [Next]_vars => TypeOK'
  <1> SUFFICES ASSUME TypeOK, Wants, [Next]_vars PROVE TypeOK'
    OBVIOUS
  <1> USE DEF instrument, wires, client, history
  <1>t. /\ {First, Ceiling} \subseteq 0..Longest(Longest(First, Inter), Window)
                                      \cup 0..Ceiling
        /\ {0, First, Inter, Window} \subseteq 0..Longest(Longest(First, Inter), Window)
        /\ 0 \in 0..Longest(Latency, Gap) /\ Gap \in 0..Longest(Latency, Gap)
    BY Numbers DEF Longest
  <1>e. <<>> \in Seq(Piece) /\ Len(<<>>) = 0 /\ <<>> \in [{} -> SUBSET Value]
    OBVIOUS
  <1>l. LongestRequest \in Nat /\ 0 \in 0..Retries
    BY PaidFacts, Numbers
  <1>1. CASE Reply
    <2>1. /\ stream \in Seq(Piece) /\ stream # <<>> /\ cable \in Seq(Frame)
      BY <1>1 DEF TypeOK, Reply
    <2>2. Tail(stream) \in Seq(Piece) /\ stream[1] \in Piece
      BY <2>1, TailFacts
    <2>3. [data |-> stream[1], due |-> Delay] \in Frame
      BY <2>2, Numbers DEF Frame
    <2>4. cable' \in Seq(Frame)
      BY <1>1, <2>1, <2>3, AppendFacts DEF Reply
    <2>5. QED
      BY <1>1, <1>t, <2>2, <2>4 DEF TypeOK, Reply
  <1>2. CASE Arrive
    <2>1. ASSUME NEW q \in Seq(Frame), q # <<>>
          PROVE  Tail(q) \in Seq(Frame) /\ q[1].data \in Piece
      <3>1. Tail(q) \in Seq(Frame) /\ q[1] \in Frame
        BY <2>1, TailFacts
      <3>2. QED
        BY <3>1 DEF Frame
    <2>2. CASE cable # <<>> /\ Take(cable[1].data) /\ cable' = Tail(cable)
               /\ UNCHANGED echoes
      <3>1. cable' \in Seq(Frame) /\ cable[1].data \in Piece
        BY <2>1, <2>2 DEF TypeOK
      <3>2. QED
        BY <1>2, <2>2, <3>1, TakeType DEF TypeOK, Arrive
    <2>3. CASE echoes # <<>> /\ Take(echoes[1].data) /\ echoes' = Tail(echoes)
               /\ UNCHANGED cable
      <3>1. echoes' \in Seq(Frame) /\ echoes[1].data \in Piece
        BY <2>1, <2>3 DEF TypeOK
      <3>2. QED
        BY <1>2, <2>3, <3>1, TakeType DEF TypeOK, Arrive
    <2>4. QED
      BY <1>2, <2>2, <2>3 DEF Arrive
  <1>3. CASE Tick
    <2>1. cable' \in Seq(Frame) /\ echoes' \in Seq(Frame)
      BY <1>3, SoonerFacts DEF TypeOK, Tick
    <2>2. next' \in 0..Longest(Latency, Gap)
      <3>1. next \in 0..Longest(Latency, Gap) /\ Longest(Latency, Gap) \in Nat
        BY Numbers DEF TypeOK, Longest
      <3>2. next' = 0 \/ (next > 0 /\ next' = next - 1)
        BY <1>3 DEF Tick
      <3>3. QED
        BY <3>1, <3>2
    <2>3. /\ wait' \in 0..Longest(Longest(First, Inter), Window)
          /\ life' \in 0..Ceiling
          /\ phase = "collect" => wait' <= life'
      <3>1. /\ wait \in Nat /\ wait <= Longest(Longest(First, Inter), Window)
            /\ life \in 0..Ceiling /\ Longest(Longest(First, Inter), Window) \in Nat
            /\ phase = "collect" => wait <= life
        BY Numbers DEF TypeOK, Longest
      <3>2. wait' = Longest(wait - 1, 0) /\ life' = Longest(life - 1, 0)
        BY <1>3 DEF Tick
      <3>3. wait' = (IF wait > 0 THEN wait - 1 ELSE 0)
            /\ life' = (IF life > 0 THEN life - 1 ELSE 0)
        BY <3>1, <3>2, Numbers DEF Longest
      <3>4. QED
        BY <3>1, <3>3, Numbers
    <2>4. spent' \in 0..LongestRequest + 1
      BY <1>3, <1>l DEF TypeOK, Tick, Soonest
    <2>5. QED
      BY <1>3, <2>1, <2>2, <2>3, <2>4 DEF TypeOK, Tick
  <1>4. ASSUME NEW B \in Blocks, Begin(B), acts' \in 0..MaxActs
        PROVE  TypeOK'
    <2>1. Ask(B)
      BY <1>4 DEF Begin
    <2>2. \A c \in B : mem[c] \in Value
      BY BlockFacts DEF TypeOK
    <2>3. held' \in [B -> SUBSET Value]
      BY <1>4, <2>2 DEF Begin
    <2>4. /\ want' = B /\ attempt' = 0 /\ line' \in {"quiet", "busy"}
          /\ spent' = 0 /\ acts' \in 0..MaxActs
      BY <1>4 DEF Begin
    <2>5. First \in 0..Longest(Longest(First, Inter), Window)
          /\ First <= Ceiling /\ Ceiling \in 0..Ceiling
      BY <1>t, Numbers
    <2>6. /\ mem' \in [Cell -> Value]
          /\ stream' \in Seq(Piece) /\ next' \in 0..Longest(Latency, Gap)
          /\ cable' \in Seq(Frame) /\ echoes' \in Seq(Frame)
          /\ inbox' \in Seq(Piece) /\ Len(inbox') <= Capacity
          /\ phase' = "collect" /\ life' = Ceiling /\ wait' = First
          /\ got' \in [B -> SUBSET Value]
      BY <2>1, AskType
    <2>7. QED
      BY <1>l, <2>3, <2>4, <2>5, <2>6, SMTT(30) DEF TypeOK
  <1>5. CASE ReadBack
    <2>1. want \in Blocks /\ Begin(want) /\ acts' = acts
      BY <1>5 DEF ReadBack, Wants
    <2>2. acts' \in 0..MaxActs
      BY <2>1 DEF TypeOK
    <2>3. QED
      BY <1>4, <2>1, <2>2
  <1>6. ASSUME Rest
        PROVE  TypeOK'
    BY <1>6, <1>l, <1>e, <1>t, Numbers DEF Rest, TypeOK
  <1>7. CASE TakeLeftOver
    <2>1. /\ inbox[1] \in Piece /\ inbox' \in Seq(Piece)
          /\ Len(inbox') <= Capacity
      <3>1. inbox \in Seq(Piece) /\ Len(inbox) <= Capacity /\ inbox # <<>>
        BY <1>7 DEF TypeOK, TakeLeftOver
      <3>2. /\ inbox[1] \in Piece /\ Tail(inbox) \in Seq(Piece)
            /\ Len(Tail(inbox)) = Len(inbox) - 1 /\ Len(inbox) \in Nat
        BY <3>1, TailFacts
      <3>3. inbox' = Tail(inbox)
        BY <1>7 DEF TakeLeftOver
      <3>4. QED
        BY <3>1, <3>2, <3>3, Numbers
    <2>2. QED
      BY <1>7, <2>1, PlaceType DEF TypeOK, TakeLeftOver
  <1>8. CASE Answered \/ Contradicted \/ Cancel
    BY <1>6, <1>8 DEF Answered, Contradicted, Cancel
  <1>9. CASE Expire
    <2>1. CASE /\ attempt < Retries /\ attempt' = NextAttempt
               /\ phase' = "pause" /\ wait' = Pause /\ inbox' = <<>>
               /\ UNCHANGED <<want, life, got, instrument, cable, echoes, history>>
      <3>1. attempt' \in 0..Retries
        <4>1. attempt \in 0..Retries /\ attempt' = attempt + 1
          BY <2>1 DEF TypeOK, NextAttempt
        <4>2. QED
          BY <2>1, <4>1, Numbers
      <3>2. /\ wait' \in 0..Longest(Longest(First, Inter), Window)
            /\ phase' = "pause" /\ inbox' \in Seq(Piece) /\ Len(inbox') = 0
            /\ 0 <= Capacity
        BY <2>1, <1>e, <1>t, Numbers DEF Pause
      <3>3. QED
        BY <2>1, <3>1, <3>2 DEF TypeOK
    <2>2. QED
      BY <1>6, <1>9, <2>1 DEF Expire
  <1>10. CASE AskAgain
    <2>1. want \in Blocks /\ Ask(want)
      BY <1>10 DEF AskAgain, Wants
    <2>2. First \in 0..Longest(Longest(First, Inter), Window)
          /\ First <= Ceiling /\ Ceiling \in 0..Ceiling
      BY <1>t, Numbers
    <2>3. QED
      BY <1>10, <2>1, <2>2, AskType DEF TypeOK, AskAgain
  <1>11. ASSUME Act PROVE acts' \in 0..MaxActs
    <2>1. acts \in 0..MaxActs /\ acts < MaxActs /\ acts' = acts + 1
      BY <1>11 DEF Act, TypeOK
    <2>2. QED
      BY <2>1, Numbers
  <1>12. ASSUME NEW B \in Blocks, Read(B) PROVE TypeOK'
    BY <1>4, <1>11, <1>12 DEF Read
  <1>13. ASSUME NEW B \in Blocks, NEW d \in [B -> Value], WriteBlock(d)
         PROVE  TypeOK'
    <2>1. B \in SUBSET Cell /\ B # {} /\ DOMAIN d = B
      BY BlockFacts
    <2>2. mem' \in [Cell -> Value] /\ echoes' \in Seq(Frame)
      BY <1>13, <2>1, Dt1Type DEF WriteBlock
    <2>3. want' = B /\ got' \in [B -> SUBSET Value] /\ held' \in [B -> SUBSET Value]
      BY <1>13, <2>1, <2>2 DEF WriteBlock
    <2>4. acts' \in 0..MaxActs
      BY <1>11, <1>13 DEF WriteBlock
    <2>5. QED
      <3>1. /\ wait' \in 0..Longest(Longest(First, Inter), Window)
            /\ phase' = "settle" /\ inbox' \in Seq(Piece) /\ Len(inbox') = 0
            /\ 0 <= Capacity
        BY <1>13, <1>e, <1>t, Numbers DEF WriteBlock, EchoWindow
      <3>2. UNCHANGED <<stream, next, cable, attempt, life, line, spent>>
        BY <1>13 DEF WriteBlock
      <3>3. want' \in Blocks
        BY <2>3
      <3>4. QED
        BY <2>2, <2>3, <2>4, <3>1, <3>2, <3>3 DEF TypeOK
  <1>14. ASSUME NEW c \in Cell, NEW d \in [{c} -> Value], SendLive(d)
         PROVE  TypeOK'
    <2>1. mem' \in [Cell -> Value] /\ echoes' \in Seq(Frame)
      BY <1>14, Dt1Type DEF SendLive
    <2>2. acts' \in 0..MaxActs
      BY <1>11, <1>14 DEF SendLive
    <2>3. QED
      BY <1>14, <2>1, <2>2 DEF SendLive, TypeOK
  <1>15. ASSUME NEW c \in Cell, NEW v \in Value, Panel(c, v)
         PROVE  TypeOK'
    <2>1. mem' \in [Cell -> Value]
      BY <1>15 DEF Panel, TypeOK
    <2>2. want \subseteq Cell
      BY BlocksAssumption DEF TypeOK
    <2>3. held' \in [want -> SUBSET Value]
      BY <1>15, <2>1, <2>2 DEF Panel, Note, TypeOK
    <2>4. acts' \in 0..MaxActs
      BY <1>11, <1>15 DEF Panel
    <2>5. QED
      BY <1>15, <2>1, <2>3, <2>4 DEF Panel, TypeOK
  <1>16. CASE UNCHANGED vars
    BY <1>16 DEF vars, TypeOK
  <1>17. QED
    BY <1>1, <1>2, <1>3, <1>5, <1>7, <1>8, <1>9, <1>10, <1>12, <1>13, <1>14,
       <1>15, <1>16 DEF Next, World, Client, User

-----------------------------------------------------------------------------
(* What the request takes, and what it is for.                             *)

LEMMA PaceStep == TypeOK /\ Pace /\ [Next]_vars => Pace'
  <1> SUFFICES ASSUME TypeOK, Pace, [Next]_vars PROVE Pace'
    OBVIOUS
  <1> USE DEF instrument, wires, client, history
  <1>t. /\ attempt \in 0..Retries /\ spent \in Nat /\ wait \in Nat /\ life \in Nat
        /\ Retries \in Nat /\ LongestRequest \in Nat
    <2>1. LongestRequest \in Nat
      BY PaidFacts, Numbers, 0 \in 0..Retries
    <2>2. QED
      BY <2>1, Numbers DEF TypeOK, Longest
  <1>1. ASSUME UNCHANGED <<phase, attempt, spent, life, wait>>
        PROVE  Pace'
    BY <1>1 DEF Pace, Paid
  <1>2. ASSUME phase' \in {"idle", "settle"}, spent' = spent
        PROVE  Pace'
    BY <1>2 DEF Pace
  <1>3. ASSUME UNCHANGED <<phase, attempt, spent, life>>, phase # "pause"
        PROVE  Pace'
    BY <1>3 DEF Pace, Paid
  <1>4. CASE Reply \/ (\E c \in Cell, v \in Value : Panel(c, v))
             \/ (\E c \in Cell : \E d \in [{c} -> Value] : SendLive(d))
             \/ UNCHANGED vars
    BY <1>1, <1>2, <1>4 DEF Reply, Panel, SendLive, vars
  <1>5. CASE Answered \/ Contradicted \/ Cancel
             \/ (\E B \in Blocks : \E d \in [B -> Value] : WriteBlock(d))
    BY <1>2, <1>5 DEF Answered, Contradicted, Cancel, Rest, WriteBlock
  <1>6. CASE Arrive
    <2>1. phase = "pause" => UNCHANGED wait
      BY <1>6 DEF Arrive, Take, Listening
    <2>2. QED
      BY <1>1, <1>3, <1>6, <2>1 DEF Arrive
  <1>7. CASE TakeLeftOver
    BY <1>3, <1>7 DEF TakeLeftOver, Listening
  <1>8. CASE ReadBack \/ \E B \in Blocks : Read(B)
    <2>1. /\ phase' = "collect" /\ life' = Ceiling /\ attempt' = 0 /\ spent' = 0
      BY <1>8 DEF ReadBack, Read, Begin, Ask
    <2>2. Paid(0) = Ceiling
      BY PaidFacts, <1>t
    <2>3. QED
      BY <1>t, <2>1, <2>2, Numbers DEF Pace
  <1>9. CASE AskAgain
    <2>1. /\ phase = "pause" /\ wait = 0 /\ phase' = "collect" /\ life' = Ceiling
          /\ attempt' = attempt /\ spent' = spent
      BY <1>9 DEF AskAgain, Ask
    <2>2. /\ attempt > 0 /\ spent + wait <= Paid(attempt - 1) + Inter
          /\ spent <= LongestRequest
      BY <2>1 DEF Pace
    <2>3. Paid(attempt - 1) \in Nat /\ Paid(attempt) = Paid(attempt - 1) + Inter + Ceiling
      BY <1>t, <2>2, PaidFacts
    <2>4. spent + Ceiling <= Paid(attempt)
      BY <1>t, <2>1, <2>2, <2>3, Numbers
    <2>5. QED
      BY <2>1, <2>2, <2>4 DEF Pace
  <1>10. CASE Expire
    <2>1. CASE Rest
      BY <1>2, <2>1 DEF Rest
    <2>2. CASE /\ attempt < Retries /\ attempt' = NextAttempt
               /\ phase' = "pause" /\ wait' = Pause
               /\ UNCHANGED <<life, spent>>
      <3>1. phase = "collect" /\ spent + life <= Paid(attempt) /\ spent <= LongestRequest
        BY <1>10 DEF Expire, Pace
      <3>2. /\ attempt' = attempt + 1 /\ wait' = Inter
        BY <2>2 DEF NextAttempt, Pause
      <3>3. Paid(attempt) \in Nat
        BY <1>t, PaidFacts
      <3>4. attempt' - 1 = attempt /\ spent + Inter <= Paid(attempt) + Inter
        BY <1>t, <3>1, <3>2, <3>3, Numbers
      <3>5. attempt' > 0 /\ spent' + wait' <= Paid(attempt' - 1) + Inter
        BY <1>t, <2>2, <3>2, <3>4
      <3>6. QED
        BY <2>2, <3>1, <3>5 DEF Pace
    <2>3. QED
      BY <1>10, <2>1, <2>2 DEF Expire
  <1>11. CASE Tick
    <2>1. CASE phase \notin {"collect", "pause"}
      BY <1>11, <2>1 DEF Tick, Pace
    <2>2. CASE phase = "collect"
      <3>1. /\ spent + life <= Paid(attempt) /\ Paid(attempt) \in Nat
            /\ Paid(attempt) <= LongestRequest /\ wait > 0 /\ wait <= life
        BY <1>11, <1>t, <2>2, PaidFacts DEF Pace, Tick, TypeOK
      <3>2. life' = life - 1
        BY <1>11, <1>t, <3>1 DEF Tick, Longest
      <3>3. spent' = spent + 1
        BY <1>11, <1>t, <2>2, <3>1 DEF Tick, Soonest
      <3>4. spent' + life' <= Paid(attempt) /\ spent' <= LongestRequest
        BY <1>t, <3>1, <3>2, <3>3
      <3>5. phase' = "collect" /\ attempt' = attempt
        BY <1>11, <2>2 DEF Tick
      <3>6. QED
        BY <3>4, <3>5 DEF Pace
    <2>3. CASE phase = "pause"
      <3>1. /\ attempt > 0 /\ spent + wait <= Paid(attempt - 1) + Inter
            /\ wait > 0
        BY <1>11, <2>3 DEF Pace, Tick
      <3>2. /\ Paid(attempt - 1) \in Nat /\ Paid(attempt) <= LongestRequest
            /\ Paid(attempt) = Paid(attempt - 1) + Inter + Ceiling
        BY <1>t, <3>1, PaidFacts
      <3>3. wait' = wait - 1
        BY <1>11, <1>t, <3>1 DEF Tick, Longest
      <3>4. spent' = spent + 1
        <4>1. spent' = Soonest(spent + 1, LongestRequest + 1)
          BY <1>11, <2>3 DEF Tick
        <4>2. /\ spent \in Nat /\ LongestRequest \in Nat
              /\ spent + 1 <= LongestRequest + 1
          BY <1>t, <3>1, <3>2, Numbers
        <4>3. QED
          BY <4>1, <4>2 DEF Soonest
      <3>5. spent' + wait' <= Paid(attempt - 1) + Inter /\ spent' <= LongestRequest
        BY <1>t, <3>1, <3>2, <3>3, <3>4, Numbers
      <3>6. phase' = "pause" /\ attempt' = attempt
        BY <1>11, <2>3 DEF Tick
      <3>7. QED
        BY <3>1, <3>5, <3>6 DEF Pace
    <2>4. QED
      BY <2>1, <2>2, <2>3
  <1>12. QED
    BY <1>4, <1>5, <1>6, <1>7, <1>8, <1>9, <1>10, <1>11
       DEF Next, World, Client, User

LEMMA WantsStep == TypeOK /\ Wants /\ [Next]_vars => Wants'
  <1> SUFFICES ASSUME TypeOK, Wants, [Next]_vars PROVE Wants'
    OBVIOUS
  <1> USE DEF instrument, wires, client, history
  <1>1. ASSUME UNCHANGED <<mem, want, held>>, phase' = "idle" <=> phase = "idle"
        PROVE  Wants'
    BY <1>1 DEF Wants
  <1>2. ASSUME Rest PROVE Wants'
    BY <1>2 DEF Wants, Rest
  <1>3. ASSUME NEW B \in Blocks, Begin(B) PROVE Wants'
    BY <1>3 DEF Wants, Begin, Ask
  <1>4. CASE Reply \/ Arrive \/ Tick \/ TakeLeftOver \/ UNCHANGED vars
    BY <1>1, <1>4 DEF Reply, Arrive, Tick, TakeLeftOver, vars
  <1>5. CASE Answered \/ Contradicted \/ Cancel
    BY <1>2, <1>5 DEF Answered, Contradicted, Cancel
  <1>6. CASE ReadBack
    BY <1>3, <1>6 DEF ReadBack, Wants
  <1>7. CASE Expire
    BY <1>1, <1>2, <1>7 DEF Expire
  <1>8. CASE AskAgain
    BY <1>1, <1>8 DEF AskAgain, Ask
  <1>9. ASSUME NEW B \in Blocks, Read(B) PROVE Wants'
    BY <1>3, <1>9 DEF Read
  <1>10. ASSUME NEW B \in Blocks, NEW d \in [B -> Value], WriteBlock(d)
         PROVE  Wants'
    BY <1>10 DEF WriteBlock, Wants
  <1>11. ASSUME NEW c \in Cell, NEW d \in [{c} -> Value], SendLive(d)
         PROVE  Wants'
    BY <1>11 DEF SendLive, Wants
  <1>12. ASSUME NEW c \in Cell, NEW v \in Value, Panel(c, v)
         PROVE  Wants'
    BY <1>12 DEF Panel, Note, Wants
  <1>13. QED
    BY <1>4, <1>5, <1>6, <1>7, <1>8, <1>9, <1>10, <1>11, <1>12
       DEF Next, World, Client, User

LEMMA DuesStep == TypeOK /\ Dues /\ [Next]_vars => Dues'
  <1> SUFFICES ASSUME TypeOK, Dues, [Next]_vars PROVE Dues'
    OBVIOUS
  <1> USE DEF instrument, wires, client, history
  <1>1. /\ cable \in Seq(Frame) /\ echoes \in Seq(Frame)
    BY DEF TypeOK
  <1>2. ASSUME UNCHANGED <<cable, echoes>>, phase' # "settle"
        PROVE  Dues'
    BY <1>2 DEF Dues
  <1>3. CASE Reply
    <2>1. CASE UNCHANGED cable
      BY <1>3, <2>1 DEF Dues, Reply
    <2>2. CASE cable' = Append(cable, [data |-> stream[1], due |-> Delay])
      <3>1. stream[1] \in Piece
        BY <1>3, TailFacts DEF Reply, TypeOK
      <3>2. ASSUME NEW i \in DOMAIN cable' PROVE cable'[i].due <= Delay
        <4>1. i \in 1..Len(cable) + 1 /\ Len(cable) \in Nat
          BY <1>1, <2>2, <3>1, <3>2, SentFacts
        <4>2. i \in 1..Len(cable) => cable'[i] = cable[i] /\ i \in DOMAIN cable
          BY <1>1, <2>2, <3>1, SentFacts
        <4>3. cable'[Len(cable) + 1].due = Delay
          BY <1>1, <2>2, <3>1, SentFacts
        <4>4. QED
          BY <4>1, <4>2, <4>3, Numbers, SMTT(30) DEF Dues
      <3>3. QED
        BY <1>3, <3>2 DEF Dues, Reply
    <2>3. QED
      BY <1>3, <2>1, <2>2 DEF Reply
  <1>4. CASE Arrive
    <2>1. CASE cable # <<>> /\ cable' = Tail(cable) /\ UNCHANGED echoes
      <3>1. \A i \in DOMAIN cable' : i + 1 \in DOMAIN cable /\ cable'[i] = cable[i + 1]
        BY <1>1, <2>1, TailFacts
      <3>2. phase = "settle" => wait' = wait
        BY <1>4 DEF Arrive, Take, Listening
      <3>3. QED
        BY <1>4, <2>1, <3>1, <3>2 DEF Dues, Arrive
    <2>2. CASE echoes # <<>> /\ echoes' = Tail(echoes) /\ UNCHANGED cable
      <3>1. \A i \in DOMAIN echoes' : i + 1 \in DOMAIN echoes /\ echoes'[i] = echoes[i + 1]
        BY <1>1, <2>2, TailFacts
      <3>2. phase = "settle" => wait' = wait
        BY <1>4 DEF Arrive, Take, Listening
      <3>3. QED
        BY <1>4, <2>2, <3>1, <3>2 DEF Dues, Arrive
    <2>3. QED
      BY <1>4, <2>1, <2>2 DEF Arrive
  <1>5. CASE Tick
    <2>1. /\ DOMAIN cable' = DOMAIN cable /\ DOMAIN echoes' = DOMAIN echoes
          /\ \A i \in DOMAIN cable : cable'[i].due = cable[i].due - 1 /\ cable[i].due \in Nat
          /\ \A i \in DOMAIN echoes : echoes'[i].due = echoes[i].due - 1 /\ echoes[i].due \in Nat
      BY <1>1, <1>5, SoonerFacts DEF Tick
    <2>2. phase = "settle" => wait \in Nat /\ wait' = wait - 1
      BY <1>5, Numbers DEF Tick, Longest, TypeOK
    <2>3. phase' = phase
      BY <1>5 DEF Tick
    <2>4. QED
      BY <2>1, <2>2, <2>3, Numbers DEF Dues
  <1>6. ASSUME NEW S \in SUBSET Cell, S # {}, NEW d \in [S -> Value], Dt1(d)
        PROVE  \A i \in DOMAIN echoes' : echoes'[i].due <= EchoDelay
    <2>1. d \in Piece
      BY <1>6 DEF Piece
    <2>2. CASE echoes' = echoes
      BY <2>2 DEF Dues
    <2>3. CASE echoes' = Append(echoes, [data |-> d, due |-> EchoDelay])
      <3>1. ASSUME NEW i \in DOMAIN echoes' PROVE echoes'[i].due <= EchoDelay
        <4>1. i \in 1..Len(echoes) + 1 /\ Len(echoes) \in Nat
          BY <1>1, <2>1, <2>3, <3>1, SentFacts
        <4>2. i \in 1..Len(echoes) => echoes'[i] = echoes[i] /\ i \in DOMAIN echoes
          BY <1>1, <2>1, <2>3, SentFacts
        <4>3. echoes'[Len(echoes) + 1].due = EchoDelay
          BY <1>1, <2>1, <2>3, SentFacts
        <4>4. QED
          BY <4>1, <4>2, <4>3, Numbers, SMTT(30) DEF Dues
      <3>2. QED
        BY <3>1
    <2>4. QED
      BY <1>6, <2>2, <2>3 DEF Dt1
  <1>7. ASSUME NEW B \in Blocks, NEW d \in [B -> Value], WriteBlock(d)
        PROVE  Dues'
    <2>1. \A i \in DOMAIN echoes' : echoes'[i].due <= EchoDelay
      BY <1>6, <1>7, BlockFacts DEF WriteBlock
    <2>2. wait' = Window /\ UNCHANGED cable
      BY <1>7 DEF WriteBlock, EchoWindow
    <2>3. \A i \in DOMAIN echoes' : echoes'[i].due \in Nat
      <3>1. mem' \in [Cell -> Value] /\ echoes' \in Seq(Frame)
        BY <1>7, BlockFacts, Dt1Type DEF WriteBlock
      <3>2. QED
        BY <3>1, FrameFacts
    <2>4. QED
      BY <2>1, <2>2, <2>3, EchoesAreQuick, Numbers DEF Dues
  <1>8. ASSUME NEW c \in Cell, NEW d \in [{c} -> Value], SendLive(d)
        PROVE  Dues'
    BY <1>6, <1>8 DEF SendLive, Dues
  <1>9. CASE TakeLeftOver \/ UNCHANGED vars
    BY <1>9 DEF TakeLeftOver, Listening, vars, Dues
  <1>10. CASE Answered \/ Contradicted \/ Cancel \/ Expire
    BY <1>2, <1>10 DEF Answered, Contradicted, Cancel, Expire, Rest
  <1>11. CASE ReadBack \/ AskAgain \/ \E B \in Blocks : Read(B)
    BY <1>2, <1>11 DEF ReadBack, AskAgain, Read, Begin, Ask
  <1>12. ASSUME NEW c \in Cell, NEW v \in Value, Panel(c, v)
         PROVE  Dues'
    BY <1>12 DEF Panel, Dues
  <1>13. QED
    BY <1>3, <1>4, <1>5, <1>7, <1>8, <1>9, <1>10, <1>11, <1>12
       DEF Next, World, Client, User

-----------------------------------------------------------------------------
(* The reply that is on its way.                                           *)

Theirs == NothingElse /\ Genuine /\ Outstanding /\ Punctual

(* No piece is left when the request has all it asks for, or is about to   *)
(* ask again.                                                              *)
LEMMA NoneLeft ==
    ASSUME IInv, Alone,
           Complete \/ (phase = "pause" /\ wait = 0)
    PROVE  NoReplyOutstanding
  <1>1. stream \in Seq(Piece) /\ cable \in Seq(Frame)
    BY DEF IInv, TypeOK
  <1>2. CASE Complete
    <2>1. phase = "collect" /\ \A c \in want : got[c] # {}
      BY <1>2 DEF Complete, Covered
    <2>2. AllAwaited
      BY <2>1 DEF IInv, Outstanding
    <2>3. ASSUME stream # <<>> PROVE FALSE
      <3>1. stream[1] \in Piece /\ 1 \in DOMAIN stream
        BY <1>1, <2>3, TailFacts
      <3>2. PICK c \in DOMAIN stream[1] : TRUE
        BY <3>1, PieceFacts
      <3>3. c \in want /\ got[c] = {}
        BY <2>2, <3>1, <3>2 DEF IInv, Genuine, Shows, AllAwaited, Awaited
      <3>4. QED
        BY <2>1, <3>3
    <2>4. ASSUME cable # <<>> PROVE FALSE
      <3>1. 1 \in DOMAIN cable
        BY <1>1, <2>4, TailFacts
      <3>2. cable[1].data \in Piece
        BY <1>1, <3>1, FrameFacts
      <3>3. PICK c \in DOMAIN cable[1].data : TRUE
        BY <3>2, PieceFacts
      <3>4. c \in want /\ got[c] = {}
        BY <2>2, <3>1, <3>3 DEF IInv, Genuine, Shows, AllAwaited, Awaited
      <3>5. QED
        BY <2>1, <3>4
    <2>5. QED
      BY <2>3, <2>4 DEF NoReplyOutstanding
  <1>3. CASE phase = "pause" /\ wait = 0
    <2>1. OnTime(0)
      BY <1>3 DEF IInv, Punctual
    <2>2. ASSUME stream # <<>> PROVE FALSE
      <3>1. Len(stream) \in Nat \ {0} /\ next \in Nat
        BY <1>1, <2>2, TailFacts, Numbers DEF IInv, TypeOK, Longest
      <3>2. Span(Len(stream)) \in Nat
        BY <3>1, SpanFacts
      <3>3. next + Span(Len(stream)) < 0
        BY <2>1, <2>2 DEF OnTime
      <3>4. QED
        BY <3>1, <3>2, <3>3
    <2>3. ASSUME cable # <<>> PROVE FALSE
      <3>1. 1 \in DOMAIN cable
        BY <1>1, <2>3, TailFacts
      <3>2. cable[1].due \in Nat /\ cable[1].due < 0
        BY <1>1, <2>1, <3>1, FrameFacts DEF OnTime
      <3>3. QED
        BY <3>2
    <2>4. QED
      BY <2>2, <2>3 DEF NoReplyOutstanding
  <1>4. QED
    BY <1>2, <1>3

(* The line is quiet when a request begins.                                *)
LEMMA BeginsQuiet ==
    ASSUME TypeOK, Dues, NEW B \in Blocks, Begin(B), line' = "quiet",
           phase = "idle" \/ (phase = "settle" /\ wait = 0)
    PROVE  NoReplyOutstanding /\ echoes = <<>> /\ inbox' = <<>>
  <1>1. NoReplyOutstanding /\ Len(inbox) <= MaxDrain
        /\ (phase = "settle" \/ echoes = <<>>)
    BY DEF Begin, Quiet
  <1>2. echoes = <<>>
    <2>1. SUFFICES ASSUME echoes # <<>>, phase = "settle" PROVE FALSE
      BY <1>1
    <2>2. echoes \in Seq(Frame) /\ 1 \in DOMAIN echoes
      BY <2>1, TailFacts DEF TypeOK
    <2>3. echoes[1].due \in Nat /\ echoes[1].due < 0
      BY <2>1, <2>2, FrameFacts DEF Dues
    <2>4. QED
      BY <2>3
  <1>3. inbox' = <<>>
    <2>1. inbox' = SubSeq(inbox, MaxDrain + 1, Len(inbox))
      BY DEF Begin, Ask, Drained
    <2>2. inbox \in Seq(Piece) /\ Len(inbox) \in Nat /\ MaxDrain \in Nat
      BY Numbers DEF TypeOK
    <2>3. QED
      BY <1>1, <2>1, <2>2
  <1>4. QED
    BY <1>1, <1>2, <1>3

(* What is asked for on a quiet line is all that comes.                    *)
LEMMA AskedAlone ==
    ASSUME TypeOK, NEW B \in Blocks, Ask(B), want' = B, NoReplyOutstanding,
           echoes = <<>>, inbox' = <<>>, \A c \in B : mem[c] \in held'[c]
    PROVE  Theirs'
  <1>1. /\ stream' \in Seq(Piece) /\ Reading(B, stream')
        /\ stream' # <<>> => next' = Latency
        /\ Len(stream') <= Cardinality(B)
    BY Rq1Facts DEF Ask, NoReplyOutstanding
  <1>2. /\ cable' = <<>> /\ echoes' = <<>> /\ DOMAIN cable' = {}
        /\ phase' = "collect" /\ life' = Ceiling /\ wait' = First
        /\ \A c \in B : got'[c] = {}
    BY Numbers DEF Ask, NoReplyOutstanding, Soonest
  <1>3. NothingElse'
    BY <1>2 DEF NothingElse
  <1>4. Genuine'
    BY <1>1, <1>2 DEF Genuine, Reading, Shows
  <1>5. Outstanding'
    BY <1>1, <1>2 DEF Outstanding, OneReply, AllAwaited, Awaited, Reading
  <1>6. ASSUME stream' # <<>>
        PROVE  next' + Span(Len(stream')) < First + Inter
    <2>1. Len(stream') \in Nat \ {0} /\ Cardinality(B) \in Nat
      BY <1>1, <1>6, TailFacts, BlockFacts
    <2>2. /\ Span(Len(stream')) <= Span(Cardinality(B))
          /\ Span(Len(stream')) \in Nat
      BY <1>1, <2>1, SpanFacts
    <2>3. Span(Cardinality(B)) \in Nat /\ Latency + Span(Cardinality(B)) < First + Inter
      BY BlockFacts, SpanFacts
    <2>4. QED
      BY <1>1, <1>6, <2>2, <2>3, Numbers, SMTT(30)
  <1>7. OnTime(wait + Inter)' /\ OnTime(life + Inter)'
    <2>1. stream' # <<>> =>
             /\ next' + Span(Len(stream')) < wait' + Inter
             /\ next' + Span(Len(stream')) < life' + Inter
      <3>1. SUFFICES ASSUME stream' # <<>> 
                     PROVE  /\ next' + Span(Len(stream')) < wait' + Inter
                            /\ next' + Span(Len(stream')) < life' + Inter
        OBVIOUS
      <3>2. next' = Latency /\ Span(Len(stream')) \in Nat
        BY <1>1, <3>1, TailFacts, SpanFacts
      <3>3. QED
        BY <1>2, <1>6, <3>1, <3>2, Numbers
    <2>2. QED
      BY <1>2, <2>1 DEF OnTime, Span
  <1>8. Punctual'
    BY <1>1, <1>2, <1>7 DEF Punctual
  <1>9. QED
    BY <1>3, <1>4, <1>5, <1>8 DEF Theirs

(* A piece goes out: it is on the cable now, or lost.                      *)
LEMMA ReplyAlone ==
    ASSUME IInv, Alone, Reply
    PROVE  Theirs'
  <1> USE DEF wires, client, history
  <1>1. /\ stream \in Seq(Piece) /\ cable \in Seq(Frame) /\ stream # <<>>
        /\ next \in Nat
    BY Numbers DEF IInv, TypeOK, Reply, Longest
  <1>2. /\ UNCHANGED <<echoes, inbox, phase, want, wait, life, got, held, line>>
        /\ stream' = Tail(stream) /\ next' = (IF Len(stream) = 1 THEN 0 ELSE Gap)
    BY DEF Reply
  <1>3. /\ Len(stream) \in Nat \ {0} /\ DOMAIN stream = 1..Len(stream)
        /\ stream[1] \in Piece /\ 1 \in DOMAIN stream
        /\ Len(stream') = Len(stream) - 1 /\ DOMAIN stream' = 1..Len(stream) - 1
        /\ \A i \in DOMAIN stream' : i + 1 \in DOMAIN stream /\ i + 1 # 1
                                     /\ stream'[i] = stream[i + 1]
        /\ stream' # <<>> <=> Len(stream) > 1
        /\ \A i, j \in DOMAIN stream' : i # j => i + 1 # j + 1
    <2>1. /\ Len(stream) \in Nat \ {0} /\ DOMAIN stream = 1..Len(stream)
          /\ stream[1] \in Piece /\ stream' \in Seq(Piece)
          /\ Len(stream') = Len(stream) - 1 /\ DOMAIN stream' = 1..Len(stream) - 1
          /\ \A i \in 1..Len(stream) - 1 : stream'[i] = stream[i + 1]
      BY <1>1, <1>2, TailFacts
    <2>2. stream' # <<>> <=> Len(stream') # 0
      BY <2>1, EmptyFacts
    <2>3. QED
      BY <2>1, <2>2
  <1>4. NothingElse'
    BY <1>2 DEF IInv, NothingElse, Alone, Asking, Listening, Complete, Covered
  <1>5. \A i \in DOMAIN cable' :
           \/ i \in DOMAIN cable /\ cable'[i] = cable[i]
           \/ /\ i = Len(cable) + 1 /\ i \notin DOMAIN cable
              /\ cable'[i].data = stream[1] /\ cable'[i].due = Delay
    <2>1. CASE cable' = cable
      BY <2>1
    <2>2. CASE cable' = Append(cable, [data |-> stream[1], due |-> Delay])
      <3>1. SUFFICES ASSUME NEW i \in DOMAIN cable'
                     PROVE  \/ i \in DOMAIN cable /\ cable'[i] = cable[i]
                            \/ /\ i = Len(cable) + 1 /\ i \notin DOMAIN cable
                               /\ cable'[i].data = stream[1] /\ cable'[i].due = Delay
        OBVIOUS
      <3>2. /\ i \in 1..Len(cable) + 1 /\ Len(cable) \in Nat
            /\ DOMAIN cable = 1..Len(cable)
        BY <1>1, <1>3, <2>2, <3>1, SentFacts
      <3>3. CASE i \in 1..Len(cable)
        BY <1>1, <1>3, <2>2, <3>2, <3>3, SentFacts
      <3>4. CASE i = Len(cable) + 1
        <4>1. cable'[i].data = stream[1] /\ cable'[i].due = Delay
          BY <1>1, <1>3, <2>2, <3>4, SentFacts
        <4>2. QED
          BY <3>2, <3>4, <4>1
      <3>5. QED
        BY <3>2, <3>3, <3>4
    <2>3. QED
      BY <2>1, <2>2 DEF Reply
  <1>6. Genuine'
    BY <1>2, <1>3, <1>5 DEF IInv, Genuine, Alone, Asking, Shows
  <1>7. OneReply'
    <2>1. OneReply
      BY DEF IInv, Outstanding
    <2>2. \A i, j \in DOMAIN stream' : i # j => Apart(stream'[i], stream'[j])
      BY <1>3, <2>1 DEF OneReply
    <2>3. \A i, j \in DOMAIN cable' : i # j => Apart(cable'[i].data, cable'[j].data)
      BY <1>3, <1>5, <2>1 DEF OneReply, Apart
    <2>4. \A i \in DOMAIN stream', j \in DOMAIN cable' :
             Apart(stream'[i], cable'[j].data)
      BY <1>3, <1>5, <2>1 DEF OneReply, Apart
    <2>5. QED
      BY <2>2, <2>3, <2>4 DEF OneReply, Apart
  <1>8. Outstanding'
    BY <1>2, <1>3, <1>5, <1>7
       DEF IInv, Outstanding, Alone, Asking, AllAwaited, Awaited
  <1>9. ASSUME NEW T \in Int, OnTime(T)
        PROVE  /\ stream' # <<>> => next' + Span(Len(stream')) < T
               /\ \A i \in DOMAIN cable' : cable'[i].due < T
    <2>1. /\ Span(Len(stream)) \in Nat /\ Delay <= Span(Len(stream))
          /\ next + Span(Len(stream)) < T
      BY <1>1, <1>3, <1>9, SpanFacts DEF OnTime
    <2>2. ASSUME stream' # <<>> PROVE next' + Span(Len(stream')) < T
      <3>1. Len(stream') \in Nat \ {0} /\ Len(stream) = Len(stream') + 1 /\ next' = Gap
        BY <1>2, <1>3, <2>2
      <3>2. Span(Len(stream')) \in Nat /\ Span(Len(stream)) = Span(Len(stream')) + Gap
        BY <3>1, SpanFacts
      <3>3. QED
        <4>1. next \in Nat /\ Gap \in Nat /\ T \in Int
          BY <1>1, <1>9, Numbers
        <4>2. next + Span(Len(stream)) < T /\ Span(Len(stream)) \in Nat
          BY <2>1
        <4>3. Span(Len(stream)) < T
          BY <4>1, <4>2
        <4>4. QED
          BY <3>1, <3>2, <4>1, <4>2, <4>3
    <2>3. \A i \in DOMAIN cable' : cable'[i].due < T
      <3>1. Delay < T
        <4>1. next \in Nat /\ Delay \in Nat /\ T \in Int
          BY <1>1, <1>9, Numbers
        <4>2. QED
          BY <2>1, <4>1
      <3>2. QED
        BY <1>5, <1>9, <3>1 DEF OnTime
    <2>4. QED
      BY <2>2, <2>3
  <1>10. Punctual'
    <2>1. wait \in Int /\ life \in Int /\ Inter \in Int
      BY Numbers DEF IInv, TypeOK, Longest
    <2>2. /\ phase = "collect" => OnTime(wait + Inter) /\ OnTime(life + Inter)
          /\ phase = "pause" => OnTime(wait)
          /\ Len(stream) <= Cardinality(want)
      BY DEF IInv, Punctual
    <2>3. phase' = "collect" => OnTime(wait + Inter)' /\ OnTime(life + Inter)'
      <3>1. phase = "collect" => OnTime(wait + Inter)'
        BY <1>2, <1>9, <2>1, <2>2 DEF OnTime, Span
      <3>2. phase = "collect" => OnTime(life + Inter)'
        BY <1>2, <1>9, <2>1, <2>2 DEF OnTime, Span
      <3>3. phase' = phase
        BY <1>2
      <3>4. QED
        BY <3>1, <3>2, <3>3
    <2>4. phase' = "pause" => OnTime(wait)'
      BY <1>2, <1>9, <2>1, <2>2 DEF OnTime, Span
    <2>5. want \in Blocks
      BY DEF IInv, Wants, Alone, Asking
    <2>6. Cardinality(want) \in Nat
      BY <2>5, BlockFacts
    <2>7. stream' # <<>> => next' <= Gap
      BY <1>2, <1>3, Numbers
    <2>8. Len(stream') <= Cardinality(want') /\ Len(stream') < Cardinality(want')
      BY <1>2, <1>3, <2>2, <2>6
    <2>9. QED
      BY <2>3, <2>4, <2>7, <2>8 DEF Punctual
  <1>11. QED
    BY <1>4, <1>6, <1>8, <1>10 DEF Theirs

(* Time passes for the reply and for the deadlines alike.                  *)
LEMMA TickAlone ==
    ASSUME IInv, Alone, Tick
    PROVE  Theirs'
  <1>1. /\ stream \in Seq(Piece) /\ cable \in Seq(Frame) /\ next \in Nat
        /\ wait \in Nat /\ life \in Nat /\ (phase = "collect" => wait <= life)
    BY Numbers DEF IInv, TypeOK, Longest
  <1>2. UNCHANGED <<stream, inbox, phase, want, got, held, line>>
    BY DEF Tick
  <1>3. /\ DOMAIN cable' = DOMAIN cable /\ (cable' = <<>> <=> cable = <<>>)
        /\ \A i \in DOMAIN cable : /\ cable'[i].data = cable[i].data
                                   /\ cable'[i].due = cable[i].due - 1
                                   /\ cable[i].due \in Nat
    BY <1>1, SoonerFacts DEF Tick
  <1>4. wait > 0 /\ wait' = wait - 1 /\ life' = Longest(life - 1, 0)
    BY <1>1 DEF Tick, Alone, Asking, Longest
  <1>5. NothingElse'
    <2>1. echoes = <<>> /\ echoes' = <<>>
      BY DEF IInv, NothingElse, Tick, Sooner
    <2>2. phase' = "pause" => inbox' = <<>>
      BY <1>2 DEF IInv, NothingElse
    <2>3. Listening' => Listening
      BY <1>2, <1>4 DEF Listening, Covered
    <2>4. Complete' => Complete
      BY <1>2 DEF Complete, Covered
    <2>5. QED
      BY <1>2, <2>1, <2>2, <2>3, <2>4 DEF IInv, NothingElse
  <1>6. Genuine'
    BY <1>2, <1>3 DEF IInv, Genuine, Alone, Asking, Shows
  <1>7. Outstanding'
    BY <1>2, <1>3
       DEF IInv, Outstanding, OneReply, AllAwaited, Awaited, Apart, Alone,
           Asking
  <1>8. ASSUME NEW T \in Int, OnTime(T)
        PROVE  /\ stream' # <<>> => next' + Span(Len(stream')) < T - 1
               /\ \A i \in DOMAIN cable' : cable'[i].due < T - 1
    <2>1. \A i \in DOMAIN cable' : cable'[i].due < T - 1
      BY <1>3, <1>8 DEF OnTime
    <2>2. ASSUME stream' # <<>> PROVE next' + Span(Len(stream')) < T - 1
      <3>1. stream # <<>> /\ next' = next - 1
        BY <1>2, <2>2 DEF Tick
      <3>2. next + Span(Len(stream)) < T /\ Span(Len(stream)) \in Nat
        BY <1>1, <1>8, <3>1, TailFacts, SpanFacts DEF OnTime
      <3>3. Span(Len(stream')) = Span(Len(stream))
        BY <1>2
      <3>4. QED
        BY <1>1, <1>8, <3>1, <3>2, <3>3
    <2>3. QED
      BY <2>1, <2>2
  <1>9. Punctual'
    <2>1. wait + Inter \in Int /\ life + Inter \in Int /\ Inter \in Nat
      BY <1>1, Numbers, SMTT(30)
    <2>2. ASSUME phase = "collect"
          PROVE  OnTime(wait + Inter)' /\ OnTime(life + Inter)'
      <3>1. OnTime(wait + Inter) /\ OnTime(life + Inter)
        BY <2>2 DEF IInv, Punctual
      <3>2. wait' + Inter = wait + Inter - 1
        BY <1>1, <1>4, <2>1
      <3>3. life' + Inter = life + Inter - 1
        <4>1. life > 0
          BY <1>1, <1>4, <2>2
        <4>2. life' = life - 1
          BY <1>1, <1>4, <4>1 DEF Longest
        <4>3. QED
          BY <1>1, <2>1, <4>2
      <3>4. /\ stream' # <<>> => next' + Span(Len(stream')) < wait' + Inter
            /\ \A i \in DOMAIN cable' : cable'[i].due < wait' + Inter
        <4>1. PICK T \in Int : T = wait + Inter /\ OnTime(T)
          BY <2>1, <3>1
        <4>2. /\ stream' # <<>> => next' + Span(Len(stream')) < T - 1
              /\ \A i \in DOMAIN cable' : cable'[i].due < T - 1
          BY <1>8, <4>1
        <4>3. T - 1 = wait' + Inter
          BY <1>1, <2>1, <3>2, <4>1
        <4>4. QED
          BY <4>2, <4>3
      <3>5. /\ stream' # <<>> => next' + Span(Len(stream')) < life' + Inter
            /\ \A i \in DOMAIN cable' : cable'[i].due < life' + Inter
        <4>1. PICK T \in Int : T = life + Inter /\ OnTime(T)
          BY <2>1, <3>1
        <4>2. /\ stream' # <<>> => next' + Span(Len(stream')) < T - 1
              /\ \A i \in DOMAIN cable' : cable'[i].due < T - 1
          BY <1>8, <4>1
        <4>3. T - 1 = life' + Inter
          BY <1>1, <2>1, <3>3, <4>1
        <4>4. QED
          BY <4>2, <4>3
      <3>6. QED
        BY <3>4, <3>5 DEF OnTime, Span
    <2>3. ASSUME phase = "pause" PROVE OnTime(wait)'
      <3>1. OnTime(wait) /\ wait \in Int
        BY <1>1, <2>3 DEF IInv, Punctual
      <3>2. /\ stream' # <<>> => next' + Span(Len(stream')) < wait - 1
            /\ \A i \in DOMAIN cable' : cable'[i].due < wait - 1
        BY <1>8, <3>1
      <3>3. QED
        BY <1>4, <3>2 DEF OnTime, Span
    <2>4. Len(stream') <= Cardinality(want')
      BY <1>2 DEF IInv, Punctual
    <2>5. cable' # <<>> /\ stream' # <<>>
             => next' <= Gap /\ Len(stream') < Cardinality(want')
      <3>1. SUFFICES ASSUME cable' # <<>>, stream' # <<>>
                     PROVE  next' <= Gap /\ Len(stream') < Cardinality(want')
        OBVIOUS
      <3>2. /\ stream # <<>> /\ cable # <<>> /\ next' = next - 1
        BY <1>2, <1>3, <3>1 DEF Tick
      <3>3. next <= Gap /\ Len(stream) < Cardinality(want) /\ Gap \in Nat
        BY <3>2, Numbers DEF IInv, Punctual
      <3>4. QED
        BY <1>1, <1>2, <3>2, <3>3
    <2>6. QED
      BY <2>2, <2>3, <2>4, <2>5, <1>2 DEF Punctual
  <1>10. QED
    BY <1>5, <1>6, <1>7, <1>9 DEF Theirs

(* What a frame that arrives does to a request that is alone: it is the    *)
(* next piece of the reply, and is placed; absorbed between two attempts;  *)
(* or left in the port, where the attempt is over.                         *)
LEMMA ArrivesAlone ==
    ASSUME IInv, Alone, Arrive
    PROVE  /\ cable # <<>> /\ cable' = Tail(cable) /\ echoes' = <<>>
           /\ UNCHANGED <<stream, next, phase, want, life, held, line>>
           /\ \/ /\ phase = "collect" /\ inbox' = <<>>
                 /\ Place(cable[1].data)
              \/ /\ phase = "pause" /\ UNCHANGED <<inbox, got, wait>>
              \/ /\ phase = "collect" /\ ~Listening /\ ~Complete
                 /\ UNCHANGED <<got, wait>>
  <1> USE DEF instrument, history
  <1>1. echoes = <<>>
    BY DEF IInv, NothingElse
  <1>2. /\ cable # <<>> /\ cable' = Tail(cable) /\ echoes' = <<>>
        /\ Take(cable[1].data)
        /\ UNCHANGED <<stream, next, phase, want, life, held, line>>
    BY <1>1 DEF Arrive
  <1>3. ~Complete
    BY <1>2, NoneLeft DEF NoReplyOutstanding
  <1>4. QED
    BY <1>2, <1>3 DEF Take, Listening, Alone, Asking

LEMMA ArriveAlone ==
    ASSUME IInv, Alone, Arrive
    PROVE  Theirs'
  <1> DEFINE d == cable[1].data
  <1>1. /\ stream \in Seq(Piece) /\ cable \in Seq(Frame)
        /\ got \in [want -> SUBSET Value] /\ next \in Nat
        /\ wait \in Nat /\ life \in Nat
    BY Numbers DEF IInv, TypeOK, Longest
  <1>2. /\ cable # <<>> /\ cable' = Tail(cable) /\ echoes' = <<>>
        /\ UNCHANGED <<stream, next, phase, want, life, held, line>>
    BY ArrivesAlone
  <1>3. /\ 1 \in DOMAIN cable
        /\ \A i \in DOMAIN cable' : i + 1 \in DOMAIN cable /\ i + 1 # 1
                                    /\ cable'[i] = cable[i + 1]
        /\ \A i, j \in DOMAIN cable' : i # j => i + 1 # j + 1
    <2>1. /\ Len(cable) \in Nat \ {0} /\ DOMAIN cable = 1..Len(cable)
          /\ DOMAIN cable' = 1..Len(cable) - 1
          /\ \A i \in 1..Len(cable) - 1 : cable'[i] = cable[i + 1]
      BY <1>1, <1>2, TailFacts
    <2>2. QED
      BY <2>1
  <1>4. ASSUME NEW c \in want PROVE got'[c] = got[c] \/ (c \in DOMAIN d /\ got'[c] = got[c] \cup {d[c]})
    BY <1>4, ArrivesAlone DEF Place
  <1>5. Genuine'
    <2>1. Shows(d) /\ \A c \in want : got[c] \subseteq held[c]
      BY <1>3 DEF IInv, Genuine
    <2>2. \A c \in want : got'[c] \subseteq held[c]
      BY <1>4, <2>1 DEF Shows
    <2>3. QED
      BY <1>2, <1>3, <2>2 DEF IInv, Genuine, Shows
  <1>6. OneReply'
    BY <1>2, <1>3 DEF IInv, Outstanding, OneReply, Apart
  <1>7. phase = "collect" => AllAwaited'
    <2>1. SUFFICES ASSUME phase = "collect" PROVE AllAwaited'
      OBVIOUS
    <2>2. AllAwaited /\ OneReply
      BY <2>1 DEF IInv, Outstanding
    <2>3. ASSUME NEW i \in DOMAIN stream, NEW c \in DOMAIN stream[i]
          PROVE  got'[c] = {}
      <3>1. c \notin DOMAIN d /\ got[c] = {} /\ c \in want
        BY <1>3, <2>2, <2>3
           DEF AllAwaited, Awaited, OneReply, Apart, IInv, Genuine, Shows
      <3>2. QED
        BY <1>4, <3>1
    <2>4. ASSUME NEW i \in DOMAIN cable', NEW c \in DOMAIN cable'[i].data
          PROVE  got'[c] = {}
      <3>1. c \notin DOMAIN d /\ got[c] = {} /\ c \in want
        BY <1>3, <2>2, <2>4
           DEF AllAwaited, Awaited, OneReply, Apart, IInv, Genuine, Shows
      <3>2. QED
        BY <1>4, <3>1
    <2>5. QED
      BY <1>2, <2>3, <2>4 DEF AllAwaited, Awaited
  <1>8. Outstanding'
    BY <1>2, <1>6, <1>7 DEF Outstanding
  <1>9. NothingElse'
    <2>1. CASE phase = "collect" /\ inbox' = <<>>
      BY <1>2, <2>1 DEF NothingElse
    <2>2. CASE phase = "pause" /\ UNCHANGED inbox
      BY <1>2, <2>2 DEF IInv, NothingElse
    <2>3. CASE phase = "collect" /\ ~Listening /\ ~Complete /\ UNCHANGED <<got, wait>>
      <3>1. ~Listening' /\ ~Complete' /\ phase' # "pause"
        BY <1>2, <2>3 DEF Listening, Complete, Covered
      <3>2. QED
        BY <1>2, <3>1 DEF NothingElse
    <2>4. QED
      BY <2>1, <2>2, <2>3, ArrivesAlone
  <1>10. ASSUME NEW T, OnTime(T)
         PROVE  /\ stream' # <<>> => next' + Span(Len(stream')) < T
                /\ \A i \in DOMAIN cable' : cable'[i].due < T
    BY <1>2, <1>3, <1>10 DEF OnTime
  <1>11. want \in Blocks
    BY DEF IInv, Wants, Alone, Asking
  <1>12. ASSUME phase = "collect"
         PROVE  OnTime(Inter + Inter)
    <2>1. /\ Cardinality(want) \in Nat \ {0} /\ Span(Cardinality(want)) < Inter + Inter
          /\ Span(Cardinality(want)) \in Nat /\ Delay <= Span(Cardinality(want))
      BY <1>11, BlockFacts, SpanFacts
    <2>2. ASSUME NEW i \in DOMAIN cable PROVE cable[i].due < Inter + Inter
      <3>1. cable[i].due \in Nat /\ cable[i].due <= Delay
        BY <1>1, <2>2, FrameFacts DEF IInv, Dues
      <3>2. QED
        BY <2>1, <3>1, Numbers
    <2>3. ASSUME stream # <<>> PROVE next + Span(Len(stream)) < Inter + Inter
      <3>1. Len(stream) \in Nat \ {0} /\ next <= Gap /\ Len(stream) < Cardinality(want)
        BY <1>1, <1>2, <2>3, TailFacts DEF IInv, Punctual
      <3>2. /\ Span(Len(stream)) \in Nat /\ Span(Len(stream) + 1) = Span(Len(stream)) + Gap
        BY <3>1, SpanFacts
      <3>3. Len(stream) + 1 \in Nat \ {0} /\ Len(stream) + 1 <= Cardinality(want)
        BY <2>1, <3>1
      <3>4. Span(Len(stream) + 1) <= Span(Cardinality(want))
        BY <2>1, <3>3, SpanFacts
      <3>5. next \in Nat /\ Gap \in Nat /\ Inter \in Nat
        BY <1>1, Numbers
      <3>6. next + Span(Len(stream)) <= Span(Cardinality(want))
        BY <2>1, <3>1, <3>2, <3>4, <3>5
      <3>7. QED
        BY <2>1, <3>2, <3>5, <3>6
    <2>4. QED
      BY <2>2, <2>3 DEF OnTime
  <1>13. Punctual'
    <2>1. phase = "collect" => wait' \in {wait, Inter, life}
      BY ArrivesAlone DEF Place, Extended, Soonest
    <2>2. phase = "pause" => wait' = wait
      BY ArrivesAlone
    <2>3. ASSUME phase = "collect"
          PROVE  OnTime(wait + Inter)' /\ OnTime(life + Inter)'
      <3>1. OnTime(wait + Inter) /\ OnTime(life + Inter) /\ OnTime(Inter + Inter)
        BY <1>12, <2>3 DEF IInv, Punctual
      <3>2. OnTime(wait' + Inter)
        BY <2>1, <2>3, <3>1
      <3>3. /\ stream' # <<>> => next' + Span(Len(stream')) < wait' + Inter
            /\ \A i \in DOMAIN cable' : cable'[i].due < wait' + Inter
        BY <1>10, <3>2
      <3>4. /\ stream' # <<>> => next' + Span(Len(stream')) < life + Inter
            /\ \A i \in DOMAIN cable' : cable'[i].due < life + Inter
        BY <1>10, <3>1
      <3>5. QED
        BY <1>2, <3>3, <3>4 DEF OnTime, Span
    <2>4. ASSUME phase = "pause" PROVE OnTime(wait)'
      <3>1. OnTime(wait)
        BY <2>4 DEF IInv, Punctual
      <3>2. /\ stream' # <<>> => next' + Span(Len(stream')) < wait
            /\ \A i \in DOMAIN cable' : cable'[i].due < wait
        BY <1>10, <3>1
      <3>3. QED
        BY <2>2, <2>4, <3>2 DEF OnTime, Span
    <2>5. /\ Len(stream') <= Cardinality(want')
          /\ stream' # <<>> => next' <= Gap /\ Len(stream') < Cardinality(want')
      BY <1>2 DEF IInv, Punctual
    <2>6. QED
      BY <1>2, <2>3, <2>4, <2>5 DEF Punctual
  <1>14. QED
    BY <1>5, <1>8, <1>9, <1>13 DEF Theirs

(* The attempt is over: what is left has the pause to come in.             *)
LEMMA ExpireAlone ==
    ASSUME IInv, Alone, Expire, Alone'
    PROVE  Theirs'
  <1> USE DEF instrument, history
  <1>1. /\ phase = "collect" /\ wait = 0 /\ phase' = "pause" /\ wait' = Inter
        /\ inbox' = <<>>
        /\ UNCHANGED <<want, got, stream, next, cable, echoes, held, line>>
    BY DEF Expire, Rest, Alone, Asking, Pause
  <1>2. NothingElse'
    BY <1>1 DEF IInv, NothingElse
  <1>3. Genuine'
    BY <1>1 DEF IInv, Genuine, Shows
  <1>4. Outstanding'
    BY <1>1 DEF IInv, Outstanding, OneReply, Apart
  <1>5. OnTime(wait)'
    <2>1. OnTime(wait + Inter) /\ wait + Inter = Inter
      BY <1>1, Numbers DEF IInv, Punctual
    <2>2. QED
      BY <1>1, <2>1 DEF OnTime, Span
  <1>6. Punctual'
    BY <1>1, <1>5 DEF IInv, Punctual
  <1>7. QED
    BY <1>2, <1>3, <1>4, <1>6 DEF Theirs

(* The musician changes a cell: the block has held that, too.              *)
LEMMA PanelAlone ==
    ASSUME IInv, Alone, NEW c \in Cell, NEW v \in Value, Panel(c, v)
    PROVE  Theirs'
  <1> USE DEF wires, client
  <1>1. /\ UNCHANGED <<stream, next, cable, echoes, inbox>>
        /\ UNCHANGED <<phase, want, attempt, wait, life, got, line>>
        /\ \A x \in want : held[x] \subseteq held'[x]
    BY DEF Panel, Note
  <1>2. NothingElse'
    BY <1>1 DEF IInv, NothingElse, Alone, Asking, Listening, Complete, Covered
  <1>3. Genuine'
    BY <1>1 DEF IInv, Genuine, Shows
  <1>4. Outstanding'
    BY <1>1 DEF IInv, Outstanding, OneReply, Apart, AllAwaited, Awaited
  <1>5. Punctual'
    BY <1>1 DEF IInv, Punctual, OnTime, Span
  <1>6. QED
    BY <1>2, <1>3, <1>4, <1>5 DEF Theirs

(* Another attempt finds nothing left of the one before.                   *)
LEMMA AskAgainAlone ==
    ASSUME IInv, Alone, AskAgain
    PROVE  Theirs'
  <1> USE DEF history
  <1>1. /\ phase = "pause" /\ wait = 0 /\ Ask(want) /\ want' = want
        /\ held' = held
    BY DEF AskAgain
  <1>2. /\ want \in Blocks /\ TypeOK /\ \A c \in want : mem[c] \in held'[c]
    BY <1>1 DEF IInv, Wants
  <1>3. NoReplyOutstanding
    BY <1>1, NoneLeft
  <1>4. echoes = <<>> /\ inbox = <<>>
    BY <1>1 DEF IInv, NothingElse
  <1>5. inbox' = <<>>
    <2>1. inbox' = SubSeq(inbox, MaxDrain + 1, Len(inbox))
      BY <1>1 DEF Ask, Drained
    <2>2. MaxDrain \in Nat /\ Len(inbox) = 0
      BY <1>4, Numbers
    <2>3. QED
      BY <1>4, <2>1, <2>2
  <1>6. QED
    BY <1>1, <1>2, <1>3, <1>4, <1>5, AskedAlone

(* A request that begins on a quiet line.                                  *)
LEMMA BeginAlone ==
    ASSUME IInv, NEW B \in Blocks, Begin(B), Alone',
           phase = "idle" \/ (phase = "settle" /\ wait = 0)
    PROVE  Theirs'
  <1>1. line' = "quiet"
    BY DEF Alone
  <1>2. NoReplyOutstanding /\ echoes = <<>> /\ inbox' = <<>>
    BY <1>1, BeginsQuiet DEF IInv
  <1>3. Ask(B) /\ want' = B /\ \A c \in B : mem[c] \in held'[c]
    BY DEF Begin
  <1>4. QED
    BY <1>2, <1>3, AskedAlone DEF IInv

LEMMA TheirsStep == IInv /\ [Next]_vars => Theirs'
  <1> SUFFICES ASSUME IInv, [Next]_vars, Alone' PROVE Theirs'
    BY DEF Theirs, NothingElse, Genuine, Outstanding, Punctual
  <1> USE DEF instrument, wires, client, history
  <1>1. ASSUME UNCHANGED <<phase, line>> PROVE Alone
    BY <1>1 DEF Alone, Asking
  <1>2. CASE Reply
    BY <1>1, <1>2, ReplyAlone DEF Reply
  <1>3. CASE Arrive
    BY <1>1, <1>3, ArriveAlone DEF Arrive
  <1>4. CASE Tick
    BY <1>1, <1>4, TickAlone DEF Tick
  <1>5. CASE ReadBack
    <2>1. want \in Blocks /\ Begin(want) /\ phase = "settle" /\ wait = 0
      BY <1>5 DEF ReadBack, IInv, Wants
    <2>2. QED
      BY <2>1, BeginAlone
  <1>6. CASE TakeLeftOver
    <2>1. Alone
      BY <1>1, <1>6 DEF TakeLeftOver
    <2>2. QED
      BY <1>6, <2>1 DEF TakeLeftOver, IInv, NothingElse
  <1>7. CASE Answered \/ Contradicted \/ Cancel
    BY <1>7 DEF Answered, Contradicted, Cancel, Rest, Alone, Asking
  <1>8. CASE Expire
    <2>1. Alone
      BY <1>8 DEF Expire, Rest, Alone, Asking
    <2>2. QED
      BY <1>8, <2>1, ExpireAlone
  <1>9. CASE AskAgain
    <2>1. Alone
      BY <1>9 DEF AskAgain, Alone, Asking
    <2>2. QED
      BY <1>9, <2>1, AskAgainAlone
  <1>10. ASSUME NEW B \in Blocks, Read(B) PROVE Theirs'
    BY <1>10, BeginAlone DEF Read
  <1>11. ASSUME NEW B \in Blocks, NEW d \in [B -> Value], WriteBlock(d)
         PROVE  Theirs'
    BY <1>11 DEF WriteBlock, Alone, Asking
  <1>12. ASSUME NEW c \in Cell, NEW d \in [{c} -> Value], SendLive(d)
         PROVE  Theirs'
    BY <1>12 DEF SendLive, Alone, Asking
  <1>13. ASSUME NEW c \in Cell, NEW v \in Value, Panel(c, v)
         PROVE  Theirs'
    BY <1>1, <1>13, PanelAlone DEF Panel
  <1>14. CASE UNCHANGED vars
    <2>1. Alone
      BY <1>1, <1>14 DEF vars
    <2>2. QED
      BY <1>14, <2>1
         DEF vars, IInv, Theirs, NothingElse, Genuine, Outstanding, Punctual,
             Alone, Asking, Listening, Complete, Covered, Shows, OneReply,
             Apart, AllAwaited, Awaited, OnTime, Span
  <1>15. QED
    BY <1>2, <1>3, <1>4, <1>5, <1>6, <1>7, <1>8, <1>9, <1>10, <1>11, <1>12,
       <1>13, <1>14 DEF Next, World, Client, User

-----------------------------------------------------------------------------
(* The theorems.                                                           *)

(* The invariant holds throughout, whatever the musician, the cable and    *)
(* the instrument do.                                                      *)
THEOREM Inductive == Spec => []IInv
  <1>1. Init => IInv
    <2>1. SUFFICES ASSUME Init PROVE IInv
      OBVIOUS
    <2>2. phase = "idle" /\ want = {} /\ cable = <<>> /\ echoes = <<>> /\ spent = 0
      BY <2>1 DEF Init
    <2>3. LongestRequest \in Nat
      BY PaidFacts, Numbers, 0 \in 0..Retries
    <2>4. Pace /\ Wants /\ Dues
      BY <2>2, <2>3 DEF Pace, Wants, Dues
    <2>5. NothingElse /\ Genuine /\ Outstanding /\ Punctual
      BY <2>2 DEF NothingElse, Genuine, Outstanding, Punctual, Alone, Asking
    <2>6. QED
      BY <2>1, <2>4, <2>5, TypeInit DEF IInv
  <1>2. IInv /\ [Next]_vars => IInv'
    BY TypeStep, PaceStep, WantsStep, DuesStep, TheirsStep DEF IInv, Theirs
  <1>3. QED
    BY <1>1, <1>2, PTL DEF Spec

(* The variables have their types: a queue never holds more than it has    *)
(* room for, and no deadline outlives the attempt's ceiling.               *)
THEOREM TypeCorrect == Spec => []TypeOK
  <1>1. IInv => TypeOK
    BY DEF IInv
  <1>2. QED
    BY <1>1, Inductive, PTL

(* What is taken for an answer on a line that was quiet is what the        *)
(* instrument has held since the request began.                            *)
THEOREM TakesWhatIsHeld == Spec => []AnswerIsHeld
  <1>1. IInv => AnswerIsHeld
    BY DEF IInv, Genuine, Alone, Asking, AnswerIsHeld, Complete
  <1>2. QED
    BY <1>1, Inductive, PTL

(* No request takes longer than all its attempts and the pauses between.   *)
THEOREM InTime == Spec => []Bounded
  <1>1. IInv => Bounded
    BY DEF IInv, Pace, Bounded
  <1>2. QED
    BY <1>1, Inductive, PTL

(* A request that began on a quiet line is answered, and asks again, when  *)
(* no piece of a reply is outstanding.                                     *)
THEOREM LeavesAQuietLine == Spec => AskedOnQuietLine
  <1>1. ASSUME IInv, [Next]_vars
        PROVE  [(Answered \/ AskAgain) /\ line = "quiet" => NoReplyOutstanding]_vars
    <2>1. SUFFICES ASSUME Answered \/ AskAgain, line = "quiet"
                   PROVE  NoReplyOutstanding
      OBVIOUS
    <2>2. Alone /\ (Complete \/ (phase = "pause" /\ wait = 0))
      BY <2>1 DEF Answered, AskAgain, Complete, Alone, Asking
    <2>3. QED
      BY <1>1, <2>2, NoneLeft
  <1>2. QED
    BY <1>1, Inductive, PTL DEF Spec, AskedOnQuietLine
=============================================================================
