--------------------------- MODULE LiveEditProofs ---------------------------
(***************************************************************************)
(* Proofs about LiveEdit, for sounds of any size, any bounds and any       *)
(* number of failures: the types, NoMixture and ClaimIsTrue.               *)
(*                                                                         *)
(* Neither of the two is inductive.  A claim is true at the end because of *)
(* what was true on the way: the last frame for each parameter carries     *)
(* what the screen shows (Flows), frames are not reordered while single    *)
(* edits are sent (Ordered), a read in progress still fits (ReadFits), and *)
(* an audition puts back what it took (Auditions, PutsBack).               *)
(***************************************************************************)
EXTENDS LiveEdit, FiniteSetTheorems, SequenceTheorems, TLAPS

(* On an open connection, nothing has gone wrong that is known, and the    *)
(* panel has not changed the sound unnoticed.                              *)
Calm == link = "up" /\ ~Unnoticed /\ spoiled = {}

(* The sound that is the instrument's own: while a stored one is           *)
(* auditioned, the one that will be put back.                              *)
Own == IF hearing = "restoring" THEN sounding
       ELSE IF saved # NoSound THEN saved ELSE temp

(* Frames still on their way: those at the gate but for one delivered.     *)
AtGate(i)     == i \in DOMAIN gate /\ gate[i].by = "queue"
ToCome(i)     == AtGate(i) /\ ~(i = 1 /\ reply = "ok")
GateLoc(i)    == Loc(gate[i].frame.key)
PendingLoc(i) == Loc(pending[i].key)
IsPending(p)  == \E i \in DOMAIN pending : PendingLoc(i) = p

(* What the next claim rests on: the whole sound is there, or is being     *)
(* sent and nothing of it was given up.                                    *)
Based == "baseSent" \in marks \/ ("fullPending" \in marks /\ lost = 0)

(* The last frame for each parameter carries what the screen shows, and a  *)
(* parameter with no frame on its way holds it already.                    *)
LastPending ==
    \A i \in DOMAIN pending :
        (\A j \in DOMAIN pending : j > i => PendingLoc(j) # PendingLoc(i))
            => pending[i].val = doc[PendingLoc(i)]
LastAtGate ==
    \A i \in DOMAIN gate :
        /\ ToCome(i) /\ ~IsPending(GateLoc(i))
        /\ \A j \in DOMAIN gate : j > i /\ AtGate(j) => GateLoc(j) # GateLoc(i)
        => gate[i].frame.val = doc[GateLoc(i)]
NoneToCome ==
    \A p \in Param :
        ~IsPending(p) /\ (\A i \in DOMAIN gate : ToCome(i) => GateLoc(i) # p)
            => Own[p] = doc[p]
Flows == Based /\ Calm => LastPending /\ LastAtGate /\ NoneToCome

(* While single edits are sent, the frame of a whole send never waits      *)
(* behind a single edit of the same parameter.                             *)
Ordered ==
    "baseSent" \in marks =>
        \A i, j \in DOMAIN pending :
            pending[i].key \in Param /\ pending[j].key = -pending[i].key => j < i

(* Every frame still on its way carries what the screen shows.             *)
AllAsShown ==
    /\ \A i \in DOMAIN pending : pending[i].val = doc[PendingLoc(i)]
    /\ \A i \in DOMAIN gate : ToCome(i) => gate[i].frame.val = doc[GateLoc(i)]

(* A claim: the instrument holds the sound, and nothing will change that.  *)
ClaimHolds ==
    sync \in {"sent", "tempVerified"} /\ spoiled = {} =>
        link = "up" /\ (~Unnoticed => Own = doc /\ AllAsShown)

(* A read that no edit has crossed: nothing is on its way that could make  *)
(* what it read, or will read, another sound.                              *)
ReadFits ==
    spoiled = {} /\ moved = "no" =>
        /\ reading = "fetch" => pending = <<>> /\ ~InFlight
        /\ reading = "verify" => AllAsShown
        /\ Calm /\ answer # NoSound =>
            /\ reading = "fetch" => Own = answer
            /\ reading = "verify" =>
                \A p \in Param : Own[p] \in {answer[p], doc[p]}

(* With the connection closed nothing is expected of the queue.            *)
ClosedExpectsNothing ==
    link = "down" => /\ marks \subseteq {"baseSent"}
                     /\ marks # {} => spoiled # {}

(* An audition has one frame at the gate while it sends, and none else.    *)
Auditions ==
    /\ \A i \in DOMAIN gate : gate[i].by = "preview" =>
          /\ hearing \in {"sending", "restoring"}
          /\ gate[i].frame.key < 0
          /\ gate[i].frame.val = sounding[GateLoc(i)]
          /\ \A j \in DOMAIN gate : gate[j].by = "preview" => j = i
    /\ hearing \in {"sending", "restoring"} =>
          \E i \in DOMAIN gate : gate[i].by = "preview"
    /\ hearing = "quiet" <=> sounding = NoSound
    /\ hearing \in {"reading", "restoring"} => saved = NoSound
    /\ hearing = "sending" => saved # NoSound
    /\ reading = "none" => answer = NoSound /\ moved = "no"

(* What is put back arrives parameter by parameter.                        *)
PutsBack ==
    spoiled = {} /\ hearing = "restoring" =>
        \A i \in DOMAIN gate : gate[i].by = "preview" =>
            \A p \in Param :
                \/ p < GateLoc(i)
                \/ p = GateLoc(i) /\ i = 1 /\ reply = "ok"
                => temp[p] = sounding[p]

IInv ==
    /\ TypeOK
    /\ Auditions
    /\ ClosedExpectsNothing
    /\ Ordered
    /\ PutsBack
    /\ ReadFits
    /\ ClaimHolds
    /\ Flows

-----------------------------------------------------------------------------
(* Sequences.                                                              *)

(* What is left of a sequence when its first element goes.                 *)
LEMMA TailFacts ==
    ASSUME NEW S, NEW q \in Seq(S), q # <<>>
    PROVE  /\ Len(q) \in Nat \ {0} /\ DOMAIN q = 1..Len(q)
           /\ Head(q) = q[1] /\ q[1] \in S
           /\ Tail(q) \in Seq(S)
           /\ Len(Tail(q)) = Len(q) - 1 /\ DOMAIN Tail(q) = 1..Len(q) - 1
           /\ \A i \in 1..Len(q) - 1 : Tail(q)[i] = q[i + 1]
  OBVIOUS

(* A sequence with an element added at its end.                            *)
LEMMA AppendFacts ==
    ASSUME NEW S, NEW q \in Seq(S), NEW e \in S
    PROVE  /\ Len(q) \in Nat /\ DOMAIN q = 1..Len(q)
           /\ Append(q, e) \in Seq(S)
           /\ Append(q, e) # <<>>
           /\ Len(Append(q, e)) = Len(q) + 1
           /\ DOMAIN Append(q, e) = 1..Len(q) + 1
           /\ \A i \in 1..Len(q) : Append(q, e)[i] = q[i]
           /\ Append(q, e)[Len(q) + 1] = e
  OBVIOUS

(* The sequences of InOrder list the elements of a finite set, each once.  *)
LEMMA InOrderFacts ==
    ASSUME NEW P \in SUBSET Param, NEW s \in InOrder(P)
    PROVE  /\ Cardinality(P) \in Nat
           /\ DOMAIN s = 1..Cardinality(P)
           /\ \A i \in DOMAIN s : s[i] \in P
           /\ \A p \in P : \E i \in DOMAIN s : s[i] = p
           /\ \A i, j \in DOMAIN s : s[i] = s[j] => i = j
<1>1. IsFiniteSet(Param)
  BY SoundAssumption, FS_Interval DEF Param
<1>2. Cardinality(P) \in Nat
  BY <1>1, FS_Subset, FS_CardinalityType
<1>3. /\ DOMAIN s = 1..Cardinality(P)
      /\ \A i \in DOMAIN s : s[i] \in P
      /\ \A p \in P : \E i \in DOMAIN s : s[i] = p
      /\ \A i, j \in DOMAIN s : i < j => s[i] < s[j]
  BY DEF InOrder
<1>4. P \subseteq Int
  BY SoundAssumption DEF Param
<1>5. ASSUME NEW i \in DOMAIN s, NEW j \in DOMAIN s, s[i] = s[j]
      PROVE  i = j
  <2>1. i \in Int /\ j \in Int /\ s[i] \in Int /\ s[j] \in Int
    <3>1. i \in 1..Cardinality(P) /\ j \in 1..Cardinality(P)
      BY <1>3
    <3>2. s[i] \in P /\ s[j] \in P
      BY <1>3
    <3>3. s[i] \in Int /\ s[j] \in Int
      BY <3>2, <1>4
    <3>4. i \in Int /\ j \in Int
      BY <3>1, <1>2
    <3>5. QED
      BY <3>3, <3>4
  <2>2. ~(i < j) /\ ~(j < i)
    BY <1>3, <1>5, <2>1
  <2>3. QED
    BY <2>1, <2>2
<1>6. QED
  BY <1>2, <1>3, <1>5

(* What a push does to the waiting frames: those of the changed parameters *)
(* carry the new values, in their places, and the missing ones follow.     *)
LEMMA PushFacts ==
    ASSUME TypeOK, NEW P \in SUBSET Param, NEW d \in Sound, Push(P, d)
    PROVE  /\ Len(pending) \in Nat /\ DOMAIN pending = 1..Len(pending)
           /\ pending' \in Seq(Frame)
           /\ Len(pending') \in Nat /\ DOMAIN pending' = 1..Len(pending')
           /\ Len(pending) <= Len(pending')
           /\ \A i \in DOMAIN pending :
                 pending'[i] = IF pending[i].key \in P
                               THEN ParamFrame(pending[i].key, d) ELSE pending[i]
           /\ \A i \in DOMAIN pending' : i > Len(pending) =>
                 /\ pending'[i].key \in P /\ ~Waiting(pending, pending'[i].key)
                 /\ pending'[i] = ParamFrame(pending'[i].key, d)
           /\ \A i, j \in DOMAIN pending' : pending'[i].key = pending'[j].key => i = j
           /\ \A p \in P : Waiting(pending', p)
<1> DEFINE Q == {p \in P : ~Waiting(pending, p)}
           old == Replaced(pending, P, d)
<1>1. PICK s \in InOrder(Q) :
         pending' = old \o [i \in DOMAIN s |-> ParamFrame(s[i], d)]
  BY DEF Push
<1> DEFINE new == [i \in DOMAIN s |-> ParamFrame(s[i], d)]
<1>2. /\ Cardinality(Q) \in Nat
      /\ DOMAIN s = 1..Cardinality(Q)
      /\ \A i \in DOMAIN s : s[i] \in Q
      /\ \A p \in Q : \E i \in DOMAIN s : s[i] = p
      /\ \A i, j \in DOMAIN s : s[i] = s[j] => i = j
  <2>1. Q \in SUBSET Param
    OBVIOUS
  <2>2. QED
    BY <2>1, InOrderFacts
<1>3. pending \in Seq(Frame) /\ Len(pending) \in Nat /\ DOMAIN pending = 1..Len(pending)
  BY DEF TypeOK, QueueType
<1>4. \A p \in P : ParamFrame(p, d) \in Frame /\ ParamFrame(p, d).key = p
  BY DEF ParamFrame, Frame, Key, Sound
<1>5. /\ old \in Seq(Frame) /\ Len(old) = Len(pending)
      /\ \A i \in DOMAIN pending :
            old[i] = IF pending[i].key \in P
                     THEN ParamFrame(pending[i].key, d) ELSE pending[i]
  BY <1>3, <1>4 DEF Replaced
<1>6. /\ new \in Seq(Frame) /\ Len(new) = Cardinality(Q)
      /\ \A i \in 1..Cardinality(Q) : new[i] = ParamFrame(s[i], d)
  <2> HIDE DEF Q, old
  <2>1. \A i \in 1..Cardinality(Q) : ParamFrame(s[i], d) \in Frame
    BY <1>2, <1>4 DEF Q
  <2>2. new \in [1..Cardinality(Q) -> Frame]
    BY <1>2, <2>1
  <2>3. QED
    BY <1>2, <2>2
<1> HIDE DEF Q, old, new
<1>7. /\ pending' \in Seq(Frame)
      /\ Len(pending') = Len(pending) + Cardinality(Q)
      /\ DOMAIN pending' = 1..(Len(pending) + Cardinality(Q))
      /\ \A i \in 1..Len(pending) : pending'[i] = old[i]
      /\ \A i \in 1..(Len(pending) + Cardinality(Q)) :
            i > Len(pending) => pending'[i] = new[i - Len(pending)]
  <2>1. /\ old \o new \in Seq(Frame)
        /\ Len(old \o new) = Len(pending) + Cardinality(Q)
        /\ \A i \in 1..(Len(pending) + Cardinality(Q)) :
              (old \o new)[i] = IF i <= Len(pending) THEN old[i]
                                   ELSE new[i - Len(pending)]
    <3>1. /\ old \o new \in Seq(Frame)
          /\ Len(old \o new) = Len(old) + Len(new)
          /\ \A i \in 1..(Len(old) + Len(new)) :
                (old \o new)[i] = IF i <= Len(old) THEN old[i] ELSE new[i - Len(old)]
      BY <1>5, <1>6, ConcatProperties
    <3>2. QED
      BY <1>5, <1>6, <3>1
  <2>2. pending' \in Seq(Frame) => DOMAIN pending' = 1..Len(pending')
    OBVIOUS
  <2>3. QED
    BY <1>1, <1>2, <1>3, <2>1, <2>2 DEF new
<1>8. /\ Len(pending) <= Len(pending')
      /\ \A i \in DOMAIN pending :
            pending'[i] = IF pending[i].key \in P
                          THEN ParamFrame(pending[i].key, d) ELSE pending[i]
  <2>1. QED
    BY <1>2, <1>3, <1>5, <1>7
<1>9. \A i \in DOMAIN pending : pending'[i].key = pending[i].key
  BY <1>4, <1>8
<1>10. ASSUME NEW i \in DOMAIN pending', i > Len(pending)
       PROVE  /\ i - Len(pending) \in DOMAIN s
              /\ pending'[i] = ParamFrame(s[i - Len(pending)], d)
              /\ pending'[i].key = s[i - Len(pending)]
              /\ pending'[i].key \in Q
  <2>1. /\ i \in 1..(Len(pending) + Cardinality(Q))
        /\ i - Len(pending) \in 1..Cardinality(Q)
    BY <1>2, <1>3, <1>7, <1>10
  <2>2. pending'[i] = ParamFrame(s[i - Len(pending)], d)
    BY <1>6, <1>7, <1>10, <2>1
  <2>3. s[i - Len(pending)] \in Q
    BY <1>2, <2>1
  <2>4. QED
    BY <1>2, <1>4, <2>1, <2>2, <2>3 DEF Q
<1>11. ASSUME NEW i \in DOMAIN pending', NEW j \in DOMAIN pending',
              pending'[i].key = pending'[j].key
       PROVE  i = j
  <2>1. /\ i \in Nat /\ j \in Nat
        /\ (i <= Len(pending) => i \in DOMAIN pending)
        /\ (j <= Len(pending) => j \in DOMAIN pending)
    BY <1>2, <1>3, <1>7
  <2>2. CASE i <= Len(pending) /\ j <= Len(pending)
    BY <1>9, <1>11, <2>1, <2>2 DEF TypeOK, QueueType
  <2>3. CASE i > Len(pending) /\ j > Len(pending)
    <3>1. s[i - Len(pending)] = s[j - Len(pending)]
      BY <1>10, <1>11, <2>3
    <3>2. i - Len(pending) = j - Len(pending)
      BY <1>2, <1>10, <2>3, <3>1
    <3>3. QED
      BY <1>3, <2>1, <3>2
  <2>4. CASE i <= Len(pending) /\ j > Len(pending)
    BY <1>9, <1>10, <1>11, <2>1, <2>4 DEF Q, Waiting
  <2>5. CASE i > Len(pending) /\ j <= Len(pending)
    BY <1>9, <1>10, <1>11, <2>1, <2>5 DEF Q, Waiting
  <2>6. QED
    BY <1>3, <2>1, <2>2, <2>3, <2>4, <2>5
<1>12. ASSUME NEW p \in P
       PROVE  Waiting(pending', p)
  <2>1. CASE Waiting(pending, p)
    <3>1. PICK i \in DOMAIN pending : pending[i].key = p
      BY <2>1 DEF Waiting
    <3>2. i \in DOMAIN pending'
      BY <1>2, <1>3, <1>7
    <3>3. QED
      BY <1>9, <3>1, <3>2 DEF Waiting
  <2>2. CASE ~Waiting(pending, p)
    <3>1. PICK i \in 1..Cardinality(Q) : s[i] = p
      BY <1>2, <2>2 DEF Q
    <3>2. PICK k \in DOMAIN pending' : k > Len(pending) /\ k - Len(pending) = i
      <4>1. /\ i + Len(pending) \in DOMAIN pending'
            /\ i + Len(pending) > Len(pending)
            /\ i + Len(pending) - Len(pending) = i
        BY <1>2, <1>3, <1>7
      <4>2. QED
        BY <4>1
    <3>3. pending'[k].key = p
      <4>1. pending'[k].key = s[k - Len(pending)]
        BY <1>10, <3>2, Zenon
      <4>2. s[k - Len(pending)] = s[i]
        BY <3>2, Zenon
      <4>3. QED
        BY <3>1, <4>1, <4>2
    <3>4. QED
      BY <3>3 DEF Waiting
  <2>3. QED
    BY <2>1, <2>2
<1>13. Len(pending') \in Nat /\ DOMAIN pending' = 1..Len(pending')
  BY <1>2, <1>3, <1>7
<1>14. \A i \in DOMAIN pending' : i > Len(pending) =>
          /\ pending'[i].key \in P /\ ~Waiting(pending, pending'[i].key)
          /\ pending'[i] = ParamFrame(pending'[i].key, d)
  BY <1>10 DEF Q
<1>15. QED
  BY <1>3, <1>7, <1>8, <1>11, <1>12, <1>13, <1>14

(* What a whole send puts in the queue: a frame for each place.            *)
LEMMA SupersedeFacts ==
    ASSUME NEW d \in Sound, Supersede(d)
    PROVE  /\ pending' \in Seq(Frame) /\ pending' # <<>>
           /\ DOMAIN pending' = Param
           /\ \A i \in Param : pending'[i] = [key |-> -i, val |-> d[i]]
           /\ \A i, j \in DOMAIN pending' : pending'[i].key = pending'[j].key => i = j
<1>1. NParams \in Nat \ {0} /\ Param = 1..NParams /\ Param \subseteq Int
  BY SoundAssumption DEF Param
<1>2. \A p \in Param : [key |-> -p, val |-> d[p]] \in Frame
  BY DEF Frame, Key, Sound
<1>3. pending' = [p \in Param |-> [key |-> -p, val |-> d[p]]]
  BY DEF Supersede
<1>4. pending' \in Seq(Frame) /\ DOMAIN pending' = Param
  BY <1>1, <1>2, <1>3
<1>5. \A i \in Param : pending'[i] = [key |-> -i, val |-> d[i]]
  BY <1>3
<1>6. pending' # <<>>
  BY <1>1, <1>4
<1>7. \A i, j \in DOMAIN pending' : pending'[i].key = pending'[j].key => i = j
  BY <1>1, <1>4, <1>5
<1>8. QED
  BY <1>4, <1>5, <1>6, <1>7

-----------------------------------------------------------------------------
(* Types.                                                                  *)

LEMMA QueueSame == QueueType /\ UNCHANGED queue => QueueType'
  BY DEF QueueType, queue

LEMMA ClearType == Clear => QueueType'
  BY QueueAssumption DEF Clear, QueueType, NoAttempts

LEMMA SupersedeType == ASSUME NEW d \in Sound, Supersede(d) PROVE QueueType'
  BY QueueAssumption, SupersedeFacts DEF Supersede, QueueType, NoAttempts

LEMMA PushType ==
    ASSUME TypeOK, NEW P \in SUBSET Param, NEW d \in Sound, P # {}, Push(P, d)
    PROVE  QueueType'
<1>1. /\ pending' \in Seq(Frame)
      /\ \A i, j \in DOMAIN pending' : pending'[i].key = pending'[j].key => i = j
      /\ \A p \in P : Waiting(pending', p)
  BY PushFacts
<1>2. pending' # <<>>
  <2>1. PICK p \in P : Waiting(pending', p)
    BY <1>1
  <2>2. DOMAIN pending' # {}
    BY <2>1 DEF Waiting
  <2>3. QED
    BY <2>2
<1>3. attempts' \in [Key -> 0..MaxAttempts - 1]
  BY QueueAssumption DEF Push, TypeOK, QueueType
<1>4. QED
  BY <1>1, <1>2, <1>3 DEF Push, QueueType, TypeOK

LEMMA SettleFailedType ==
    ASSUME TypeOK, NEW f \in Frame, SettleFailed(f)
    PROVE  QueueType'
<1>1. attempts[f.key] \in 0..MaxAttempts - 1 /\ f.key \in Key
  BY DEF TypeOK, QueueType, Frame
<1>2. CASE Tried(f.key) < MaxAttempts /\ Waiting(pending, f.key)
  <2>1. /\ pending' = pending
        /\ attempts' = [attempts EXCEPT ![f.key] = Tried(f.key)]
        /\ timer' = "set" /\ lastSend' = "failed" /\ UNCHANGED lost
    BY <1>1, <1>2, QueueAssumption DEF SettleFailed, Tried
  <2>2. pending # <<>>
    BY <1>2 DEF Waiting
  <2>3. attempts' \in [Key -> 0..MaxAttempts - 1]
    BY <1>1, <1>2, <2>1, QueueAssumption DEF Tried, TypeOK, QueueType
  <2>4. QED
    BY <2>1, <2>2, <2>3 DEF QueueType, TypeOK
<1>3. CASE Tried(f.key) < MaxAttempts /\ ~Waiting(pending, f.key)
  <2>1. /\ pending' = Append(pending, f)
        /\ attempts' = [attempts EXCEPT ![f.key] = Tried(f.key)]
        /\ timer' = "set" /\ lastSend' = "failed" /\ UNCHANGED lost
    BY <1>1, <1>3, QueueAssumption DEF SettleFailed, Tried
  <2>2. /\ pending' \in Seq(Frame) /\ pending' # <<>>
        /\ DOMAIN pending = 1..Len(pending) /\ Len(pending) \in Nat
        /\ DOMAIN pending' = 1..Len(pending) + 1
        /\ \A i \in 1..Len(pending) : pending'[i] = pending[i]
        /\ pending'[Len(pending) + 1] = f
    BY <2>1, AppendFacts DEF TypeOK, QueueType
  <2>3. \A i, j \in DOMAIN pending' : pending'[i].key = pending'[j].key => i = j
    BY <1>3, <2>2 DEF Waiting, TypeOK, QueueType
  <2>4. attempts' \in [Key -> 0..MaxAttempts - 1]
    BY <1>1, <1>3, <2>1, QueueAssumption DEF Tried, TypeOK, QueueType
  <2>5. QED
    BY <2>1, <2>2, <2>3, <2>4 DEF QueueType, TypeOK
<1>4. CASE Tried(f.key) >= MaxAttempts
  <2>1. /\ attempts' = [attempts EXCEPT ![f.key] = 0] /\ lost' = lost + 1
        /\ lastSend' = "failed" /\ UNCHANGED <<pending, timer>>
    BY <1>1, <1>4, QueueAssumption DEF SettleFailed, Tried
  <2>2. attempts' \in [Key -> 0..MaxAttempts - 1]
    BY <1>1, <2>1, QueueAssumption DEF TypeOK, QueueType
  <2>3. QED
    BY <2>1, <2>2 DEF TypeOK, QueueType
<1>5. QED
  BY <1>1, <1>2, <1>3, <1>4, QueueAssumption DEF Tried

LEMMA TypeInit == Init => TypeOK
<1> SUFFICES ASSUME Init PROVE TypeOK
  OBVIOUS
<1>1. doc \in Sound /\ temp \in Sound
  BY SoundAssumption DEF Init
<1>2. attempts \in [Key -> 0..MaxAttempts - 1]
  BY QueueAssumption DEF Init, NoAttempts
<1>3. QED
  BY <1>1, <1>2, BoundAssumption DEF Init, TypeOK, QueueType, Syncs, Marks

LEMMA GateType ==
    ASSUME TypeOK, reply # "none"
    PROVE  /\ gate # <<>> /\ Head(gate) \in Gated /\ Tail(gate) \in Seq(Gated)
           /\ Head(gate).frame \in Frame /\ Loc(Head(gate).frame.key) \in Param
<1>1. gate # <<>> /\ gate \in Seq(Gated)
  BY DEF TypeOK, QueueType
<1>2. Head(gate) \in Gated /\ Tail(gate) \in Seq(Gated)
  BY <1>1, TailFacts
<1>3. \A f \in Frame : Loc(f.key) \in Param
  BY SoundAssumption DEF Frame, Key, Loc, Param
<1>4. QED
  BY <1>1, <1>2, <1>3 DEF Gated

LEMMA MarkStaleType ==
    ASSUME TypeOK, MarkStale
    PROVE  /\ marks' \subseteq Marks /\ sync' \in Syncs
           /\ spoiled' \subseteq {"overtaken", "crossed", "unsent", "auditioned"}
  BY DEF TypeOK, QueueType, MarkStale, MarksWhenStale, Syncs

LEMMA SendPatchType ==
    ASSUME TypeOK, NEW d \in Sound, SendPatch(d)
    PROVE  /\ QueueType' /\ marks' \subseteq Marks
           /\ spoiled' \subseteq {"overtaken", "crossed", "unsent", "auditioned"}
  BY SupersedeType DEF TypeOK, QueueType, SendPatch, Marks

LEMMA FrameOfType ==
    ASSUME NEW d \in Sound, NEW p \in Param
    PROVE  FrameOf(d, p) \in Gated
  BY DEF FrameOf, Gated, Frame, Key, Sound

LEMMA PlaceType ==
    ASSUME TypeOK, NEW d \in Sound, NEW h \in {"sending", "restoring"}, Place(h, d)
    PROVE  /\ gate' \in Seq(Gated) /\ gate' # <<>> /\ sounding' \in Sound
           /\ hearing' \in {"quiet", "reading", "sending", "restoring"}
<1>1. FrameOf(d, 1) \in Gated
  BY SoundAssumption, FrameOfType DEF Param
<1>2. QED
  BY <1>1, AppendFacts DEF TypeOK, QueueType, Place

LEMMA TypeStep == TypeOK /\ Auditions /\ [Next]_vars => TypeOK'
<1> SUFFICES ASSUME TypeOK, Auditions, [Next]_vars PROVE TypeOK'
  OBVIOUS
<1> USE DEF store, bar, audition, panel
<1> USE QueueSame
<1>1. ASSUME NEW d \in Sound, Edit(d) PROVE TypeOK'
  <2>1. /\ doc' = d /\ sync' = "edited" /\ moved' \in {"no", "yes"}
        /\ acts' \in 0..MaxActs
        /\ UNCHANGED <<live, gate, reply, link, reading, answer, audition, panel, temp,
                       failures>>
    BY <1>1, BoundAssumption DEF Edit, Act, Revised, TypeOK
  <2>2. /\ QueueType' /\ marks' \subseteq Marks
        /\ spoiled' \subseteq {"overtaken", "crossed", "unsent", "auditioned"}
    <3>1. CASE live = "off" \/ link = "down"
      BY <1>1, <3>1 DEF Edit, TypeOK, QueueType
    <3>2. CASE live = "on" /\ link = "up" /\ ~Enough(d)
      BY <1>1, <3>2, SendPatchType DEF Edit, TypeOK
    <3>3. CASE live = "on" /\ link = "up" /\ Enough(d)
      <4>1. Push(Changed(d), d) /\ UNCHANGED spoiled /\ marks' \subseteq Marks
        BY <1>1, <3>3 DEF Edit, TypeOK, Marks
      <4>2. Changed(d) \in SUBSET Param /\ Changed(d) # {}
        BY <1>1 DEF Edit, TypeOK, Sound, Changed
      <4>3. QED
        BY <4>1, <4>2, PushType DEF TypeOK
    <3>4. QED
      BY <3>1, <3>2, <3>3 DEF TypeOK
  <2>3. QED
    BY <2>1, <2>2 DEF TypeOK, QueueType, Syncs
<1>2. ASSUME NEW s \in Sounds, Open(s) PROVE TypeOK'
  BY <1>2, SoundAssumption, BoundAssumption, ClearType
     DEF Open, Act, Revised, TypeOK, QueueType, Syncs
<1>3. ASSUME Send PROVE TypeOK'
  BY <1>3, BoundAssumption, SendPatchType DEF Send, Act, TypeOK, QueueType
<1>4. ASSUME LiveOn PROVE TypeOK'
  <2>1. CASE link = "up"
    BY <1>4, <2>1, BoundAssumption, SendPatchType DEF LiveOn, Act, TypeOK, QueueType
  <2>2. CASE link = "down"
    <3>1. UNCHANGED queue /\ UNCHANGED <<marks, spoiled>>
      BY <1>4, <2>2 DEF LiveOn
    <3>2. QED
      BY <1>4, <3>1, BoundAssumption DEF LiveOn, Act, TypeOK
  <2>3. QED
    BY <2>1, <2>2 DEF TypeOK
<1>5. ASSUME LiveOff PROVE TypeOK'
  BY <1>5, BoundAssumption, ClearType DEF LiveOff, Act, TypeOK, QueueType, Syncs
<1>6. ASSUME Connect PROVE TypeOK'
  BY <1>6, SoundAssumption, BoundAssumption, ClearType
     DEF Connect, Act, Shown, Crossing, TypeOK, QueueType, Syncs
<1>7. ASSUME Disconnect PROVE TypeOK'
  BY <1>7, BoundAssumption, ClearType
     DEF Disconnect, Act, WhenClosed, TypeOK, QueueType, Syncs
<1>8. ASSUME NEW w \in Reads, StartRead(w) PROVE TypeOK'
  BY <1>8, BoundAssumption, ReadsAssumption DEF StartRead, Act, TypeOK
<1>9. ASSUME NEW d \in Stored, Audition(d) PROVE TypeOK'
  <2>1. d \in Sound
    BY SoundAssumption
  <2>2. /\ acts' \in 0..MaxActs
        /\ UNCHANGED <<store, queue, reply, link, bar, saved, panel, temp, failures,
                       spoiled>>
    BY <1>9, BoundAssumption DEF Audition, TypeOK
  <2>3. CASE saved = NoSound
    BY <1>9, <2>1, <2>2, <2>3 DEF Audition, TypeOK
  <2>4. CASE saved # NoSound
    <3>1. Place("sending", d)
      BY <1>9, <2>4 DEF Audition
    <3>2. QED
      BY <2>1, <2>2, <3>1, PlaceType DEF TypeOK
  <2>5. QED
    BY <2>3, <2>4
<1>10. ASSUME Run PROVE TypeOK'
  <2>1. pending # <<>>
    BY <1>10 DEF Run, TypeOK, QueueType
  <2>2. /\ Len(pending) \in Nat /\ DOMAIN pending = 1..Len(pending)
        /\ Head(pending) \in Frame
        /\ Tail(pending) \in Seq(Frame) /\ DOMAIN Tail(pending) = 1..Len(pending) - 1
        /\ \A i \in 1..Len(pending) - 1 : Tail(pending)[i] = pending[i + 1]
    BY <2>1, TailFacts DEF TypeOK, QueueType
  <2>3. /\ pending' \in Seq(Frame)
        /\ \A i, j \in DOMAIN pending' : pending'[i].key = pending'[j].key => i = j
    BY <1>10, <2>2, SMTT(30) DEF Run, TypeOK, QueueType
  <2>4. gate' \in Seq(Gated) /\ gate' # <<>>
    <3>1. [by |-> "queue", frame |-> Head(pending)] \in Gated
      BY <2>2 DEF Gated
    <3>2. gate \in Seq(Gated) /\ gate' = Append(gate, [by |-> "queue", frame |-> Head(pending)])
      BY <1>10 DEF Run, TypeOK
    <3>3. QED
      BY <3>1, <3>2, AppendFacts
  <2>5. QED
    BY <1>10, <2>3, <2>4 DEF Run, TypeOK, QueueType
<1>11. ASSUME Deliver PROVE TypeOK'
  <2>1. temp' \in Sound
    <3>1. \A f \in Frame : Loc(f.key) \in Param /\ f.val \in Value
      BY SoundAssumption DEF Frame, Key, Loc, Param
    <3>2. Head(gate).frame \in Frame
      <4>1. Head(gate) \in Gated
        BY <1>11, TailFacts DEF Deliver, TypeOK
      <4>2. QED
        BY <4>1 DEF Gated
    <3>3. QED
      BY <1>11, <3>1, <3>2 DEF Deliver, TypeOK, Sound
  <2>2. spoiled' \subseteq {"overtaken", "crossed", "unsent", "auditioned"}
    BY <1>11 DEF Deliver, Crossing, TypeOK
  <2>3. failures' \in 0..MaxFailures /\ reply' \in {"ok", "failed"} /\ gate # <<>>
    BY <1>11, BoundAssumption DEF Deliver, TypeOK
  <2>4. QED
    BY <1>11, <2>1, <2>2, <2>3 DEF Deliver, TypeOK
<1>12. ASSUME Settle PROVE TypeOK'
  <2>1. Head(gate).frame \in Frame /\ Tail(gate) \in Seq(Gated)
    BY <1>12, GateType DEF Settle
  <2>2. /\ QueueType'
        /\ spoiled' \subseteq {"overtaken", "crossed", "unsent", "auditioned"}
    <3>1. CASE SettleOk(Head(gate).frame)
      <4>1. attempts' \in [Key -> 0..MaxAttempts - 1]
        BY <2>1, <3>1, QueueAssumption DEF SettleOk, TypeOK, QueueType, Frame
      <4>2. QED
        BY <3>1, <4>1 DEF SettleOk, TypeOK, QueueType
    <3>2. CASE SettleFailed(Head(gate).frame)
      <4>1. QueueType'
        BY <2>1, <3>2, SettleFailedType
      <4>2. spoiled' \subseteq {"overtaken", "crossed", "unsent", "auditioned"}
        BY <3>2 DEF SettleFailed, TypeOK
      <4>3. QED
        BY <4>1, <4>2
    <3>3. QED
      BY <1>12, <3>1, <3>2 DEF Settle
  <2>3. marks' \subseteq Marks /\ sync' \in Syncs
    BY <1>12 DEF Settle, Known, Shown, TypeOK, Marks, Syncs
  <2>4. QED
    BY <1>12, <2>1, <2>2, <2>3 DEF Settle, TypeOK, QueueType
<1>13. ASSUME ReadTemp PROVE TypeOK'
  <2>1. CASE ReadOver
    BY <1>13, <2>1, ZenonT(30) DEF ReadTemp, ReadOver, Crossing, TypeOK
  <2>2. CASE /\ link = "up" /\ answer' = temp /\ spoiled' = Crossing(spoiled)
             /\ UNCHANGED <<reading, moved>>
    BY <1>13, <2>2 DEF ReadTemp, Crossing, TypeOK
  <2>3. QED
    BY <1>13, <2>1, <2>2 DEF ReadTemp
<1>14. ASSUME FetchDone PROVE TypeOK'
  <2>1. CASE ~NotMoved
    BY <1>14, <2>1 DEF FetchDone, ReadOver, NotMoved, TypeOK
  <2>2. CASE NotMoved
    <3>1. QueueType'
      BY <1>14, <2>2, ClearType DEF FetchDone
    <3>2. doc' = answer /\ sync' = "tempVerified" /\ marks' = {"baseSent"}
          /\ spoiled' = Claimed /\ answer # NoSound /\ answer \in Sound
      BY <1>14, <2>2 DEF FetchDone, TypeOK
    <3>3. /\ sync' \in Syncs /\ marks' \subseteq Marks
          /\ spoiled' \subseteq {"overtaken", "crossed", "unsent", "auditioned"}
      BY <3>2 DEF Claimed, TypeOK, Syncs, Marks
    <3>4. QED
      BY <1>14, <2>2, <3>1, <3>2, <3>3 DEF FetchDone, ReadOver, TypeOK
  <2>3. QED
    BY <2>1, <2>2
<1>15. ASSUME VerifyDone PROVE TypeOK'
  <2>1. CASE UNCHANGED <<sync, marks, spoiled>>
    BY <1>15, <2>1 DEF VerifyDone, ReadOver, TypeOK
  <2>2. CASE ~UNCHANGED <<sync, marks, spoiled>>
    <3>1. /\ sync' \in Syncs /\ marks' \subseteq Marks
          /\ spoiled' \subseteq {"overtaken", "crossed", "unsent", "auditioned"}
      BY <1>15, <2>2 DEF VerifyDone, Claimed, TypeOK, Syncs, Marks
    <3>2. QED
      BY <1>15, <3>1 DEF VerifyDone, ReadOver, TypeOK
  <2>3. QED
    BY <2>1, <2>2
<1>16. ASSUME PollAsk PROVE TypeOK'
  BY <1>16 DEF PollAsk, TypeOK
<1>17. ASSUME PollHear PROVE TypeOK'
  BY <1>17 DEF PollHear, TypeOK
<1>18. ASSUME PollDone PROVE TypeOK'
  BY <1>18, MarkStaleType DEF PollDone, TypeOK
<1>19. ASSUME AuditionRead PROVE TypeOK'
  <2>1. saved' \in Sound \cup {NoSound}
    BY <1>19 DEF AuditionRead, TypeOK
  <2>2. CASE Place("sending", sounding)
    <3>1. sounding \in Sound
      BY <1>19 DEF AuditionRead, Auditions, TypeOK
    <3>2. QED
      BY <1>19, <2>1, <2>2, <3>1, PlaceType DEF AuditionRead, TypeOK
  <2>3. CASE Quiet /\ UNCHANGED gate
    BY <1>19, <2>1, <2>3 DEF AuditionRead, Quiet, TypeOK
  <2>4. QED
    BY <1>19, <2>2, <2>3 DEF AuditionRead
<1>20. ASSUME PutBack PROVE TypeOK'
  <2>1. saved \in Sound
    BY <1>20 DEF PutBack, TypeOK
  <2>2. CASE Place("restoring", saved)
    <3>1. UNCHANGED <<marks, sync, spoiled>>
      BY <1>20, <2>2 DEF PutBack, Place
    <3>2. /\ gate' \in Seq(Gated) /\ gate' # <<>> /\ sounding' \in Sound
          /\ hearing' \in {"quiet", "reading", "sending", "restoring"}
      BY <2>1, <2>2, PlaceType
    <3>3. QED
      BY <1>20, <3>1, <3>2 DEF PutBack, TypeOK
  <2>3. CASE MarkStale /\ UNCHANGED <<hearing, sounding, gate>>
    BY <1>20, <2>3, MarkStaleType DEF PutBack, TypeOK
  <2>4. QED
    BY <1>20, <2>2, <2>3 DEF PutBack
<1>21. ASSUME AuditionSettle PROVE TypeOK'
  <2> DEFINE p == Loc(Head(gate).frame.key)
  <2>1. gate # <<>> /\ Tail(gate) \in Seq(Gated) /\ p \in Param
    BY <1>21, GateType DEF AuditionSettle
  <2>2. CASE reply = "ok" /\ p < NParams
    <3>1. sounding \in Sound
      <4>1. 1 \in DOMAIN gate /\ gate[1] = Head(gate)
        BY <2>1, TailFacts DEF TypeOK
      <4>2. hearing # "quiet"
        BY <1>21, <4>1 DEF AuditionSettle, Auditions
      <4>3. QED
        BY <4>2 DEF Auditions, TypeOK
    <3>2. FrameOf(sounding, p + 1) \in Gated
      BY <2>1, <2>2, <3>1, SoundAssumption, FrameOfType DEF Param
    <3>3. gate' \in Seq(Gated) /\ gate' # <<>>
      <4>1. gate' = Append(Tail(gate), FrameOf(sounding, p + 1))
        BY <1>21, <2>1, <2>2, SoundAssumption DEF AuditionSettle, Param
      <4>2. QED
        BY <2>1, <3>2, <4>1, AppendFacts
    <3>4. UNCHANGED <<hearing, sounding, marks, sync, spoiled>>
      BY <1>21, <2>1, <2>2, SoundAssumption DEF AuditionSettle, Param
    <3>5. QED
      BY <1>21, <3>3, <3>4 DEF AuditionSettle, TypeOK
  <2>3. CASE gate' = Tail(gate) /\ Quiet /\ UNCHANGED <<marks, sync, spoiled>>
    BY <1>21, <2>1, <2>3 DEF AuditionSettle, Quiet, TypeOK
  <2>4. CASE gate' = Tail(gate) /\ Quiet /\ MarkStale
    BY <1>21, <2>1, <2>4, MarkStaleType DEF AuditionSettle, Quiet, TypeOK
  <2>5. QED
    BY <1>21, <2>2, <2>3, <2>4 DEF AuditionSettle
<1>22. ASSUME NEW s \in Sounds, PanelSelect(s) PROVE TypeOK'
  BY <1>22, SoundAssumption, BoundAssumption DEF PanelSelect, Act, Crossing, TypeOK
<1>23. ASSUME UNCHANGED vars PROVE TypeOK'
  BY <1>23 DEF vars, TypeOK
<1>24. QED
  BY <1>1, <1>2, <1>3, <1>4, <1>5, <1>6, <1>7, <1>8, <1>9, <1>10, <1>11, <1>12,
     <1>13, <1>14, <1>15, <1>16, <1>17, <1>18, <1>19, <1>20, <1>21, <1>22, <1>23
     DEF Next, User, Machine

-----------------------------------------------------------------------------
(* Auditions.                                                              *)

(* The queue of the gate, for those steps that change it.                  *)
LEMMA GateLoses ==
    ASSUME TypeOK, reply # "none", gate' = Tail(gate)
    PROVE  /\ Len(gate) \in Nat \ {0} /\ DOMAIN gate = 1..Len(gate)
           /\ Head(gate) = gate[1]
           /\ DOMAIN gate' = 1..Len(gate) - 1
           /\ \A i \in DOMAIN gate' : i + 1 \in DOMAIN gate /\ gate'[i] = gate[i + 1]
<1>1. gate # <<>> /\ gate \in Seq(Gated)
  BY DEF TypeOK
<1>2. /\ Len(gate) \in Nat \ {0} /\ DOMAIN gate = 1..Len(gate)
      /\ Head(gate) = gate[1]
      /\ DOMAIN gate' = 1..Len(gate) - 1
      /\ \A i \in 1..Len(gate) - 1 : gate'[i] = gate[i + 1]
  BY <1>1, TailFacts
<1>3. QED
  BY <1>2

LEMMA GateGains ==
    ASSUME TypeOK, NEW g \in Gated, gate' = Append(gate, g)
    PROVE  /\ Len(gate) \in Nat /\ DOMAIN gate = 1..Len(gate)
           /\ DOMAIN gate' = 1..Len(gate) + 1
           /\ \A i \in DOMAIN gate : i \in DOMAIN gate' /\ gate'[i] = gate[i]
           /\ gate'[Len(gate) + 1] = g
           /\ \A i \in DOMAIN gate' : i \in DOMAIN gate \/ i = Len(gate) + 1
<1>1. gate \in Seq(Gated)
  BY DEF TypeOK
<1>2. /\ Len(gate) \in Nat /\ DOMAIN gate = 1..Len(gate)
      /\ DOMAIN gate' = 1..Len(gate) + 1
      /\ \A i \in 1..Len(gate) : gate'[i] = gate[i]
      /\ gate'[Len(gate) + 1] = g
  BY <1>1, AppendFacts
<1>3. QED
  BY <1>2

(* With no audition under way, nothing of one is at the gate; a frame of   *)
(* one may then take its place there.                                      *)
LEMMA NoneAtGate ==
    ASSUME Auditions, hearing \notin {"sending", "restoring"}
    PROVE  \A i \in DOMAIN gate : gate[i].by # "preview"
  BY DEF Auditions

LEMMA AuditionPlaced ==
    ASSUME TypeOK, Auditions, NEW d \in Sound, NEW h \in {"sending", "restoring"},
           hearing \notin {"sending", "restoring"}, Place(h, d)
    PROVE  /\ \A i \in DOMAIN gate' : gate'[i].by = "preview" =>
                 /\ hearing' \in {"sending", "restoring"}
                 /\ gate'[i].frame.key < 0
                 /\ gate'[i].frame.val = sounding'[GateLoc(i)']
                 /\ \A j \in DOMAIN gate' : gate'[j].by = "preview" => j = i
           /\ \E i \in DOMAIN gate' : gate'[i].by = "preview"
<1> DEFINE n == Len(gate) + 1
<1>1. FrameOf(d, 1) \in Gated
  BY SoundAssumption, FrameOfType DEF Param
<1>2. /\ n \in DOMAIN gate' /\ gate'[n] = FrameOf(d, 1)
      /\ \A i \in DOMAIN gate' : i \in DOMAIN gate \/ i = n
      /\ \A i \in DOMAIN gate : gate'[i] = gate[i]
  BY <1>1, GateGains DEF Place
<1>3. \A i \in DOMAIN gate' : gate'[i].by = "preview" => i = n
  BY <1>2, NoneAtGate
<1>4. /\ FrameOf(d, 1).by = "preview"
      /\ FrameOf(d, 1).frame.key = -1 /\ FrameOf(d, 1).frame.val = d[1]
  BY DEF FrameOf
<1>5. Loc(gate'[n].frame.key) = 1
  BY <1>2, <1>4 DEF Loc
<1>6. sounding' = d /\ hearing' = h
  BY DEF Place
<1> HIDE DEF n
<1>7. QED
  BY <1>2, <1>3, <1>4, <1>5, <1>6 DEF GateLoc

LEMMA AuditionsStep ==
    TypeOK /\ TypeOK' /\ Auditions /\ [Next]_vars => Auditions'
<1> SUFFICES ASSUME TypeOK, TypeOK', Auditions, [Next]_vars PROVE Auditions'
  OBVIOUS
<1> USE DEF store, bar, audition, panel
<1>1. ASSUME UNCHANGED <<gate, hearing, sounding, saved, reading, answer, moved>>
      PROVE  Auditions'
  BY <1>1 DEF Auditions, GateLoc
<1>2. ASSUME UNCHANGED <<gate, hearing, sounding, saved>>,
             reading' = "none" => answer' = NoSound /\ moved' = "no"
      PROVE  Auditions'
  BY <1>2 DEF Auditions, GateLoc
<1>3. ASSUME NEW d \in Sound, Edit(d) PROVE Auditions'
  BY <1>2, <1>3 DEF Edit, Revised, Auditions
<1>4. ASSUME NEW s \in Sounds, Open(s) PROVE Auditions'
  BY <1>2, <1>4 DEF Open, Revised, Auditions
<1>5. ASSUME NEW w \in Reads, StartRead(w) PROVE Auditions'
  BY <1>2, <1>5 DEF StartRead
<1>6. ASSUME ReadTemp PROVE Auditions'
  BY <1>2, <1>6 DEF ReadTemp, ReadOver, Auditions
<1>7. ASSUME FetchDone PROVE Auditions'
  BY <1>2, <1>7 DEF FetchDone, ReadOver
<1>8. ASSUME VerifyDone PROVE Auditions'
  BY <1>2, <1>8 DEF VerifyDone, ReadOver
<1>9. ASSUME NEW d \in Stored, Audition(d) PROVE Auditions'
  <2>1. d \in Sound /\ d # NoSound
    BY SoundAssumption
  <2>2. CASE saved = NoSound
    BY <1>9, <2>1, <2>2, NoneAtGate DEF Audition, Auditions
  <2>3. CASE saved # NoSound
    BY <1>9, <2>1, <2>3, AuditionPlaced DEF Audition, Place, Auditions
  <2>4. QED
    BY <2>2, <2>3
<1>10. ASSUME Run PROVE Auditions'
  <2>1. PICK f \in Frame : gate' = Append(gate, [by |-> "queue", frame |-> f])
    <3>1. pending # <<>>
      BY <1>10 DEF Run, TypeOK, QueueType
    <3>2. Head(pending) \in Frame
      BY <3>1, TailFacts DEF TypeOK, QueueType
    <3>3. QED
      BY <1>10, <3>2 DEF Run
  <2>2. [by |-> "queue", frame |-> f] \in Gated
    BY DEF Gated
  <2>3. /\ \A i \in DOMAIN gate : i \in DOMAIN gate' /\ gate'[i] = gate[i]
        /\ \A i \in DOMAIN gate' : gate'[i].by = "preview" => i \in DOMAIN gate
    BY <2>1, <2>2, GateGains
  <2>4. QED
    BY <1>10, <2>3 DEF Run, Auditions, GateLoc
<1>11. ASSUME Settle PROVE Auditions'
  <2>1. /\ Len(gate) \in Nat \ {0} /\ DOMAIN gate = 1..Len(gate)
        /\ gate[1].by = "queue"
        /\ DOMAIN gate' = 1..Len(gate) - 1
        /\ \A i \in DOMAIN gate' : i + 1 \in DOMAIN gate /\ gate'[i] = gate[i + 1]
    BY <1>11, GateLoses DEF Settle
  <2>2. UNCHANGED <<hearing, sounding, saved, reading, answer, moved>>
    BY <1>11 DEF Settle
  <2>3. ASSUME NEW i \in DOMAIN gate', gate'[i].by = "preview"
        PROVE  /\ hearing \in {"sending", "restoring"}
               /\ gate'[i].frame.key < 0
               /\ gate'[i].frame.val = sounding[Loc(gate'[i].frame.key)]
               /\ \A j \in DOMAIN gate' : gate'[j].by = "preview" => j = i
    <3>1. i + 1 \in DOMAIN gate /\ gate'[i] = gate[i + 1]
      BY <2>1
    <3>2. \A j \in DOMAIN gate : gate[j].by = "preview" => j = i + 1
      BY <2>3, <3>1 DEF Auditions
    <3>3. \A j \in DOMAIN gate' : gate'[j].by = "preview" => j + 1 = i + 1
      BY <2>1, <3>2
    <3>4. \A j \in DOMAIN gate' : gate'[j].by = "preview" => j = i
      BY <2>1, <3>3
    <3>5. QED
      BY <2>3, <3>1, <3>4 DEF Auditions, GateLoc
  <2>4. ASSUME hearing \in {"sending", "restoring"}
        PROVE  \E i \in DOMAIN gate' : gate'[i].by = "preview"
    <3>1. PICK k \in DOMAIN gate : gate[k].by = "preview"
      BY <2>4 DEF Auditions
    <3>2. k - 1 \in DOMAIN gate' /\ k - 1 + 1 = k
      BY <2>1, <3>1
    <3>3. gate'[k - 1] = gate[k]
      BY <2>1, <3>2
    <3>4. QED
      BY <3>1, <3>2, <3>3
  <2>5. QED
    BY <2>2, <2>3, <2>4 DEF Auditions, GateLoc
<1>12. ASSUME AuditionRead PROVE Auditions'
  <2>1. sounding \in Sound
    BY <1>12 DEF AuditionRead, Auditions, TypeOK
  <2>2. CASE Place("sending", sounding)
    <3>1. saved' # NoSound /\ hearing' = "sending" /\ sounding' # NoSound
      BY <1>12, <2>1, <2>2, SoundAssumption DEF AuditionRead, Place, Quiet, TypeOK
    <3>2. QED
      BY <1>12, <2>1, <2>2, <3>1, AuditionPlaced DEF AuditionRead, Auditions
  <2>3. CASE Quiet /\ UNCHANGED gate
    BY <1>12, <2>3, NoneAtGate DEF AuditionRead, Quiet, Auditions
  <2>4. QED
    BY <1>12, <2>2, <2>3 DEF AuditionRead
<1>13. ASSUME PutBack PROVE Auditions'
  <2>1. saved \in Sound
    BY <1>13 DEF PutBack, TypeOK
  <2>2. CASE Place("restoring", saved)
    BY <1>13, <2>1, <2>2, AuditionPlaced DEF PutBack, Place, Auditions
  <2>3. CASE UNCHANGED <<hearing, sounding, gate>>
    BY <1>13, <2>3, NoneAtGate DEF PutBack, Auditions
  <2>4. QED
    BY <1>13, <2>2, <2>3 DEF PutBack
<1>14. ASSUME AuditionSettle PROVE Auditions'
  <2> DEFINE p == Loc(Head(gate).frame.key)
  <2>1. /\ Len(gate) \in Nat \ {0} /\ DOMAIN gate = 1..Len(gate)
        /\ Head(gate) = gate[1] /\ gate[1].by = "preview"
        /\ DOMAIN Tail(gate) = 1..Len(gate) - 1
        /\ \A i \in DOMAIN Tail(gate) : Tail(gate)[i] = gate[i + 1]
    <3>1. gate \in Seq(Gated) /\ gate # <<>>
      BY <1>14 DEF AuditionSettle, TypeOK
    <3>2. QED
      BY <1>14, <3>1, TailFacts DEF AuditionSettle
  <2>2. hearing \in {"sending", "restoring"}
    BY <2>1 DEF Auditions
  <2>3. \A i \in DOMAIN Tail(gate) : Tail(gate)[i].by # "preview"
    <3>1. \A j \in DOMAIN gate : gate[j].by = "preview" => j = 1
      BY <2>1 DEF Auditions
    <3>2. \A i \in DOMAIN Tail(gate) : i + 1 \in DOMAIN gate /\ i + 1 # 1
      BY <2>1
    <3>3. QED
      BY <2>1, <3>1, <3>2
  <2>4. CASE gate' = Tail(gate) /\ Quiet
    BY <1>14, <2>2, <2>3, <2>4 DEF AuditionSettle, Quiet, Auditions
  <2>5. CASE /\ reply = "ok" /\ p < NParams
             /\ gate' = Append(Tail(gate), FrameOf(sounding, p + 1))
             /\ UNCHANGED <<hearing, sounding>>
    <3>1. /\ gate' = Append(Tail(gate), FrameOf(sounding, p + 1))
          /\ UNCHANGED <<hearing, sounding, saved, reading, answer, moved>>
      BY <1>14, <2>5 DEF AuditionSettle
    <3>2. p \in Param /\ p + 1 \in Param /\ Tail(gate) \in Seq(Gated)
      BY <1>14, <2>5, GateType, SoundAssumption DEF AuditionSettle, Param
    <3>3. FrameOf(sounding, p + 1) \in Gated
      BY <2>2, <3>2, FrameOfType DEF Auditions, TypeOK
    <3>4. PICK n \in DOMAIN gate' :
             /\ gate'[n] = FrameOf(sounding, p + 1)
             /\ \A i \in DOMAIN gate' : i = n \/ i \in DOMAIN Tail(gate)
             /\ \A i \in DOMAIN Tail(gate) : gate'[i] = Tail(gate)[i]
      <4>1. /\ Len(Tail(gate)) \in Nat /\ DOMAIN Tail(gate) = 1..Len(Tail(gate))
            /\ DOMAIN gate' = 1..Len(Tail(gate)) + 1
            /\ \A i \in 1..Len(Tail(gate)) : gate'[i] = Tail(gate)[i]
            /\ gate'[Len(Tail(gate)) + 1] = FrameOf(sounding, p + 1)
        BY <3>1, <3>2, <3>3, AppendFacts
      <4>2. QED
        BY <4>1
    <3>5. /\ gate'[n].by = "preview"
          /\ gate'[n].frame.key = -(p + 1) /\ gate'[n].frame.val = sounding[p + 1]
          /\ gate'[n].frame.key < 0 /\ Loc(gate'[n].frame.key) = p + 1
      BY <3>2, <3>4, SoundAssumption DEF FrameOf, Loc, Param
    <3>6. \A i \in DOMAIN gate' : gate'[i].by = "preview" => i = n
      BY <2>3, <3>4
    <3>7. \A i \in DOMAIN gate' : gate'[i].by = "preview" =>
             /\ hearing' \in {"sending", "restoring"}
             /\ gate'[i].frame.key < 0
             /\ gate'[i].frame.val = sounding'[GateLoc(i)']
             /\ \A j \in DOMAIN gate' : gate'[j].by = "preview" => j = i
      BY <2>2, <3>1, <3>5, <3>6 DEF GateLoc
    <3>8. \E i \in DOMAIN gate' : gate'[i].by = "preview"
      BY <3>5
    <3>9. QED
      <4>1. UNCHANGED <<hearing, sounding, saved, reading, answer, moved>>
        BY <3>1
      <4>2. hearing' = "quiet" <=> sounding' = NoSound
        BY <4>1 DEF Auditions
      <4>3. hearing' \in {"reading", "restoring"} => saved' = NoSound
        BY <4>1 DEF Auditions
      <4>4. hearing' = "sending" => saved' # NoSound
        BY <4>1 DEF Auditions
      <4>5. reading' = "none" => answer' = NoSound /\ moved' = "no"
        BY <4>1 DEF Auditions
      <4>6. QED
        BY <3>7, <3>8, <4>2, <4>3, <4>4, <4>5 DEF Auditions, GateLoc
  <2>6. QED
    BY <1>14, <2>4, <2>5 DEF AuditionSettle
<1>15. QED
  BY <1>1, <1>3, <1>4, <1>5, <1>6, <1>7, <1>8, <1>9, <1>10, <1>11, <1>12, <1>13,
     <1>14 DEF Next, User, Machine, vars, Send, LiveOn, LiveOff, Connect,
     Disconnect, Deliver, PollAsk, PollHear, PollDone, PanelSelect

(* What a step does to the frames of the queue that wait.                  *)
LEMMA PendingLoses ==
    ASSUME TypeOK, pending # <<>>, pending' = Tail(pending)
    PROVE  /\ Len(pending) \in Nat \ {0} /\ DOMAIN pending = 1..Len(pending)
           /\ Head(pending) = pending[1] /\ pending[1] \in Frame
           /\ DOMAIN pending' = 1..Len(pending) - 1
           /\ \A i \in DOMAIN pending' :
                 i + 1 \in DOMAIN pending /\ pending'[i] = pending[i + 1]
<1>1. pending \in Seq(Frame)
  BY DEF TypeOK, QueueType
<1>2. /\ Len(pending) \in Nat \ {0} /\ DOMAIN pending = 1..Len(pending)
      /\ Head(pending) = pending[1] /\ pending[1] \in Frame
      /\ DOMAIN pending' = 1..Len(pending) - 1
      /\ \A i \in 1..Len(pending) - 1 : pending'[i] = pending[i + 1]
  BY <1>1, TailFacts
<1>3. QED
  BY <1>2

LEMMA PendingGains ==
    ASSUME TypeOK, NEW f \in Frame, pending' = Append(pending, f)
    PROVE  /\ Len(pending) \in Nat /\ DOMAIN pending = 1..Len(pending)
           /\ DOMAIN pending' = 1..Len(pending) + 1
           /\ \A i \in DOMAIN pending : i \in DOMAIN pending' /\ pending'[i] = pending[i]
           /\ pending'[Len(pending) + 1] = f
           /\ \A i \in DOMAIN pending' : i \in DOMAIN pending \/ i = Len(pending) + 1
<1>1. pending \in Seq(Frame)
  BY DEF TypeOK, QueueType
<1>2. /\ Len(pending) \in Nat /\ DOMAIN pending = 1..Len(pending)
      /\ DOMAIN pending' = 1..Len(pending) + 1
      /\ \A i \in 1..Len(pending) : pending'[i] = pending[i]
      /\ pending'[Len(pending) + 1] = f
  BY <1>1, AppendFacts
<1>3. QED
  BY <1>2

-----------------------------------------------------------------------------
(* The marks, and the order of single edits.                               *)

LEMMA ClosedStep ==
    TypeOK /\ ClosedExpectsNothing /\ [Next]_vars => ClosedExpectsNothing'
<1> SUFFICES ASSUME TypeOK, ClosedExpectsNothing, [Next]_vars, link' = "down"
             PROVE  /\ marks' \subseteq {"baseSent"}
                    /\ marks' # {} => spoiled' # {}
  BY DEF ClosedExpectsNothing
<1> USE DEF store, bar, audition, panel
<1>1. ASSUME link = "down", UNCHANGED marks, spoiled \subseteq spoiled'
      PROVE  marks' \subseteq {"baseSent"} /\ (marks' # {} => spoiled' # {})
  BY <1>1 DEF ClosedExpectsNothing
<1>2. ASSUME marks' = {}
      PROVE  marks' \subseteq {"baseSent"} /\ (marks' # {} => spoiled' # {})
  BY <1>2
<1>3. ASSUME link = "down", "crossed" \in spoiled', marks' \subseteq marks \cup {"baseSent"}
      PROVE  marks' \subseteq {"baseSent"} /\ (marks' # {} => spoiled' # {})
  BY <1>3 DEF ClosedExpectsNothing
<1>4. ASSUME link = "down", spoiled \subseteq spoiled', marks' \subseteq marks
      PROVE  marks' \subseteq {"baseSent"} /\ (marks' # {} => spoiled' # {})
  BY <1>4 DEF ClosedExpectsNothing
<1>5. CASE \E d \in Sound : Edit(d)
  BY <1>4, <1>5 DEF Edit
<1>6. CASE Send
  BY <1>6 DEF Send
<1>7. CASE LiveOn
  BY <1>1, <1>7 DEF LiveOn
<1>8. CASE LiveOff \/ Disconnect \/ Connect \/ \E s \in Sounds : Open(s)
  BY <1>2, <1>8 DEF LiveOff, Disconnect, Connect, Open
<1>9. CASE Settle
  <2>1. link = "down" /\ "liveDirty" \notin marks
    BY <1>9 DEF Settle, ClosedExpectsNothing
  <2>2. spoiled \subseteq spoiled'
    BY <1>9 DEF Settle, SettleOk, SettleFailed
  <2>3. marks' \subseteq marks
    BY <1>9, <2>1 DEF Settle, Known, Drained
  <2>4. QED
    BY <1>4, <2>1, <2>2, <2>3
<1>10. CASE FetchDone
  <2>1. CASE NotMoved
    BY <1>3, <1>10, <2>1 DEF FetchDone, Claimed
  <2>2. CASE ~NotMoved
    BY <1>1, <1>10, <2>2 DEF FetchDone
  <2>3. QED
    BY <2>1, <2>2
<1>11. CASE VerifyDone
  <2>1. CASE spoiled' = Claimed /\ marks' = marks \cup {"baseSent"}
    BY <1>3, <1>11, <2>1 DEF VerifyDone, Claimed
  <2>2. CASE UNCHANGED spoiled /\ marks' \subseteq marks
    BY <1>4, <1>11, <2>2 DEF VerifyDone
  <2>3. QED
    BY <1>11, <2>1, <2>2 DEF VerifyDone
<1>12. CASE PollDone \/ PutBack \/ AuditionSettle
  BY <1>1, <1>12 DEF PollDone, PutBack, AuditionSettle, MarkStale
<1>13. CASE Deliver
  BY <1>1, <1>13 DEF Deliver, Crossing
<1>14. CASE ReadTemp
  BY <1>1, <1>14 DEF ReadTemp, Crossing
<1>15. CASE \E s \in Sounds : PanelSelect(s)
  BY <1>1, <1>15 DEF PanelSelect, Crossing
<1>16. CASE Run \/ PollAsk \/ PollHear \/ AuditionRead
  BY <1>1, <1>16 DEF Run, PollAsk, PollHear, AuditionRead
<1>17. CASE \E w \in Reads : StartRead(w)
  BY <1>1, <1>17 DEF StartRead
<1>18. CASE \E d \in Stored : Audition(d)
  BY <1>1, <1>18 DEF Audition
<1>19. CASE UNCHANGED vars
  BY <1>1, <1>19 DEF vars
<1>20. QED
  BY <1>5, <1>6, <1>7, <1>8, <1>9, <1>10, <1>11, <1>12, <1>13, <1>14, <1>15,
     <1>16, <1>17, <1>18, <1>19 DEF Next, User, Machine

LEMMA OrderedStep == TypeOK /\ Ordered /\ [Next]_vars => Ordered'
<1> SUFFICES ASSUME TypeOK, Ordered, [Next]_vars, "baseSent" \in marks'
             PROVE  \A i, j \in DOMAIN pending' :
                        /\ pending'[i].key \in Param
                        /\ pending'[j].key = -pending'[i].key
                        => j < i
  BY DEF Ordered
<1> USE DEF store, bar, audition, panel
<1>1. CASE pending' = <<>>
  BY <1>1
<1>2. CASE "baseSent" \in marks /\ UNCHANGED pending
  BY <1>2 DEF Ordered
<1>3. ASSUME NEW d \in Sound, SendPatch(d)
      PROVE  \A i \in DOMAIN pending' : pending'[i].key \notin Param
  <2>1. /\ DOMAIN pending' = Param
        /\ \A i \in Param : pending'[i] = [key |-> -i, val |-> d[i]]
    BY <1>3, SupersedeFacts DEF SendPatch
  <2>2. QED
    BY <2>1, SoundAssumption DEF Param
<1>4. CASE \E d \in Sound : Edit(d)
  <2>1. PICK d \in Sound : Edit(d)
    BY <1>4
  <2>2. CASE live = "off" \/ link = "down"
    BY <2>1, <2>2 DEF Edit
  <2>3. CASE SendPatch(d)
    BY <1>3, <2>3
  <2>4. CASE Push(Changed(d), d) /\ "baseSent" \in marks
    <3>1. Changed(d) \in SUBSET Param
      BY DEF Changed
    <3>2. /\ Len(pending) \in Nat /\ DOMAIN pending = 1..Len(pending)
          /\ Len(pending') \in Nat /\ DOMAIN pending' = 1..Len(pending')
          /\ Len(pending) <= Len(pending')
          /\ \A i \in DOMAIN pending :
                pending'[i] = IF pending[i].key \in Changed(d)
                              THEN ParamFrame(pending[i].key, d) ELSE pending[i]
          /\ \A i \in DOMAIN pending' : i > Len(pending) => pending'[i].key \in Changed(d)
      BY <2>4, <3>1, PushFacts
    <3>3. \A i \in DOMAIN pending : pending'[i].key = pending[i].key
      <4>1. \A k \in Param : ParamFrame(k, d).key = k
        BY DEF ParamFrame
      <4>2. QED
        BY <3>1, <3>2, <4>1
    <3>5. ASSUME NEW i \in DOMAIN pending', NEW j \in DOMAIN pending',
                 pending'[i].key \in Param, pending'[j].key = -pending'[i].key
          PROVE  j < i
      <4>1. pending'[j].key \notin Param
        <5>1. \A p \in Param : -p \notin Param
          BY SoundAssumption DEF Param
        <5>2. QED
          BY <3>5, <5>1
      <4>2. j <= Len(pending)
        BY <3>1, <3>2, <4>1
      <4>3. j \in DOMAIN pending /\ j \in Nat /\ i \in Nat
        BY <3>2, <4>2
      <4>4. CASE i <= Len(pending)
        <5>1. i \in DOMAIN pending
          BY <3>2, <4>4
        <5>2. QED
          BY <2>4, <3>3, <3>5, <4>3, <5>1 DEF Ordered
      <4>5. CASE i > Len(pending)
        BY <3>2, <4>2, <4>3, <4>5
      <4>6. QED
        BY <3>2, <4>3, <4>4, <4>5
    <3>6. QED
      BY <3>5
  <2>5. QED
    BY <2>1, <2>2, <2>3, <2>4 DEF Edit, Enough, TypeOK
<1>5. CASE Send
  BY <1>3, <1>5 DEF Send, TypeOK
<1>6. CASE LiveOn
  BY <1>2, <1>3, <1>6 DEF LiveOn, TypeOK, queue
<1>7. CASE LiveOff \/ Disconnect \/ Connect \/ \E s \in Sounds : Open(s)
  BY <1>7 DEF LiveOff, Disconnect, Connect, Open
<1>8. CASE Run
  <2>1. pending # <<>> /\ pending' = Tail(pending) /\ "baseSent" \in marks
    BY <1>8 DEF Run, TypeOK, QueueType
  <2>2. /\ DOMAIN pending' = 1..Len(pending) - 1 /\ Len(pending) \in Nat
        /\ \A i \in DOMAIN pending' :
              i + 1 \in DOMAIN pending /\ pending'[i] = pending[i + 1]
    BY <2>1, PendingLoses
  <2>3. ASSUME NEW i \in DOMAIN pending', NEW j \in DOMAIN pending',
               pending'[i].key \in Param, pending'[j].key = -pending'[i].key
        PROVE  j < i
    <3>1. j + 1 < i + 1
      BY <2>1, <2>2, <2>3 DEF Ordered
    <3>2. QED
      BY <2>2, <3>1
  <2>4. QED
    BY <2>3
<1>9. CASE Settle
  <2>1. CASE SettleOk(Head(gate).frame)
    <3>1. UNCHANGED pending
      BY <2>1 DEF SettleOk
    <3>2. CASE pending' = <<>>
      BY <1>1, <3>2
    <3>3. CASE pending' # <<>>
      BY <1>2, <1>9, <3>1, <3>3 DEF Settle, Known, Drained
    <3>4. QED
      BY <3>2, <3>3
  <2>2. CASE SettleFailed(Head(gate).frame)
    BY <1>9, <2>2 DEF Settle, SettleFailed, Known, Failed
  <2>3. QED
    BY <1>9, <2>1, <2>2 DEF Settle
<1>10. CASE FetchDone
  BY <1>1, <1>2, <1>10 DEF FetchDone, Clear, queue
<1>11. CASE VerifyDone
  BY <1>1, <1>2, <1>11 DEF VerifyDone, queue
<1>12. CASE PollDone \/ PutBack \/ AuditionSettle
  BY <1>2, <1>12 DEF PollDone, PutBack, AuditionSettle, MarkStale, MarksWhenStale, queue
<1>13. CASE UNCHANGED <<pending, marks>>
  BY <1>2, <1>13
<1>14. QED
  BY <1>4, <1>5, <1>6, <1>7, <1>8, <1>9, <1>10, <1>11, <1>12, <1>13
     DEF Next, User, Machine, vars, queue, Deliver, ReadTemp, PanelSelect, PollAsk,
         PollHear, AuditionRead, StartRead, Audition

-----------------------------------------------------------------------------
(* What is known to have gone wrong stays known, but for a whole send at a *)
(* quiet moment.                                                           *)
LEMMA SpoiledStays ==
    ASSUME TypeOK, [Next]_vars, spoiled' = {}
    PROVE  \/ spoiled = {}
           \/ /\ reading = "none" /\ ~Sounding /\ sync' \notin {"sent", "tempVerified"}
              /\ \E d \in Sound : Edit(d) /\ SendPatch(d)
           \/ /\ reading = "none" /\ ~Sounding /\ sync' \notin {"sent", "tempVerified"}
              /\ (Send \/ LiveOn) /\ SendPatch(doc)
<1> USE DEF store, bar, audition, panel
<1>1. ASSUME NEW d \in Sound, SendPatch(d)
      PROVE  \/ spoiled = {}
             \/ reading = "none" /\ ~Sounding /\ sync' \notin {"sent", "tempVerified"}
  BY <1>1 DEF SendPatch
<1>2. ASSUME NEW d \in Sound, Edit(d) PROVE spoiled = {} \/ SendPatch(d)
  BY <1>2 DEF Edit
<1>3. CASE Send
  BY <1>1, <1>3 DEF Send, TypeOK
<1>4. CASE LiveOn
  BY <1>1, <1>4 DEF LiveOn, TypeOK
<1>5. CASE LiveOff \/ Disconnect \/ Connect \/ \E s \in Sounds : Open(s)
  BY <1>5 DEF LiveOff, Disconnect, Connect, Open, Crossing
<1>6. CASE Settle
  BY <1>6 DEF Settle, SettleOk, SettleFailed
<1>7. CASE FetchDone \/ VerifyDone
  BY <1>7 DEF FetchDone, VerifyDone, Claimed
<1>8. CASE PollDone \/ PutBack \/ AuditionSettle
  BY <1>8 DEF PollDone, PutBack, AuditionSettle, MarkStale
<1>9. CASE Deliver
  BY <1>9 DEF Deliver, Crossing
<1>10. CASE ReadTemp \/ \E s \in Sounds : PanelSelect(s)
  BY <1>10 DEF ReadTemp, PanelSelect, Crossing
<1>11. CASE UNCHANGED spoiled
  BY <1>11
<1>12. QED
  BY <1>1, <1>2, <1>3, <1>4, <1>5, <1>6, <1>7, <1>8, <1>9, <1>10, <1>11
     DEF Next, User, Machine, vars, Run, PollAsk, PollHear, AuditionRead,
         StartRead, Audition

-----------------------------------------------------------------------------
(* What an audition puts back.                                             *)

LEMMA PutsBackStep ==
    TypeOK /\ TypeOK' /\ Auditions /\ PutsBack /\ [Next]_vars => PutsBack'
<1> SUFFICES ASSUME TypeOK, TypeOK', Auditions, PutsBack, [Next]_vars,
                    spoiled' = {}, hearing' = "restoring",
                    NEW i \in DOMAIN gate', gate'[i].by = "preview",
                    NEW p \in Param,
                    \/ p < Loc(gate'[i].frame.key)
                    \/ p = Loc(gate'[i].frame.key) /\ i = 1 /\ reply' = "ok"
             PROVE  temp'[p] = sounding'[p]
  BY DEF PutsBack, GateLoc
<1> USE DEF store, bar, audition, panel
<1>1. ASSUME hearing = "restoring" PROVE spoiled = {}
  BY <1>1, SpoiledStays DEF Sounding
<1>2. CASE UNCHANGED <<gate, reply, temp, sounding, hearing>>
  BY <1>1, <1>2 DEF PutsBack, GateLoc
<1>3. CASE Run
  <2>1. PICK f \in Frame : gate' = Append(gate, [by |-> "queue", frame |-> f])
    <3>1. pending # <<>>
      BY <1>3 DEF Run, TypeOK, QueueType
    <3>2. Head(pending) \in Frame
      BY <3>1, TailFacts DEF TypeOK, QueueType
    <3>3. QED
      BY <1>3, <3>2 DEF Run
  <2>2. [by |-> "queue", frame |-> f] \in Gated
    BY DEF Gated
  <2>3. i \in DOMAIN gate /\ gate'[i] = gate[i]
    BY <2>1, <2>2, GateGains
  <2>4. QED
    BY <1>1, <1>3, <2>3 DEF Run, PutsBack, GateLoc
<1>4. CASE Deliver
  <2>1. hearing = "restoring" /\ UNCHANGED <<gate, sounding>> /\ gate # <<>>
    BY <1>4 DEF Deliver
  <2>2. /\ 1 \in DOMAIN gate /\ gate[1] = Head(gate) /\ gate[1] \in Gated
    BY <2>1, TailFacts DEF TypeOK
  <2>3. CASE reply' = "failed" /\ UNCHANGED temp
    BY <1>1, <2>1, <2>3 DEF PutsBack, GateLoc
  <2>4. CASE /\ reply' = "ok"
             /\ temp' = [temp EXCEPT ![Loc(gate[1].frame.key)] = gate[1].frame.val]
             /\ spoiled' = IF gate[1].by = "queue" THEN Crossing(spoiled) ELSE spoiled
    <3>1. gate[1].by = "preview"
      BY <2>1, <2>2, <2>4 DEF Crossing, Sounding, Gated
    <3>2. i = 1
      BY <2>1, <2>2, <3>1 DEF Auditions
    <3>3. gate[1].frame.val = sounding[Loc(gate[1].frame.key)]
      BY <2>2, <3>1 DEF Auditions, GateLoc
    <3>4. CASE p = Loc(gate[1].frame.key)
      BY <2>1, <2>4, <3>3, <3>4 DEF TypeOK, Sound
    <3>5. CASE p < Loc(gate[1].frame.key)
      <4>1. temp[p] = sounding[p]
        BY <1>1, <2>1, <2>2, <3>1, <3>5 DEF PutsBack, GateLoc
      <4>2. p # Loc(gate[1].frame.key)
        BY <3>5, SoundAssumption DEF Param
      <4>3. QED
        BY <2>1, <2>4, <4>1, <4>2 DEF TypeOK, Sound
    <3>6. QED
      BY <2>1, <3>2, <3>4, <3>5
  <2>5. QED
    BY <1>4, <2>2, <2>3, <2>4 DEF Deliver
<1>5. CASE Settle
  <2>1. /\ hearing = "restoring" /\ UNCHANGED <<temp, sounding>>
        /\ reply' = "none"
    BY <1>5 DEF Settle
  <2>2. i + 1 \in DOMAIN gate /\ gate'[i] = gate[i + 1]
    BY <1>5, GateLoses DEF Settle
  <2>3. p < Loc(gate[i + 1].frame.key)
    BY <2>1, <2>2
  <2>4. temp[p] = sounding[p]
    BY <1>1, <2>1, <2>2, <2>3 DEF PutsBack, GateLoc
  <2>5. QED
    BY <2>1, <2>4
<1>6. CASE PutBack
  <2>1. CASE Place("restoring", saved)
    <3>1. saved \in Sound /\ hearing = "quiet" /\ UNCHANGED reply
      BY <1>6 DEF PutBack, TypeOK
    <3>2. FrameOf(saved, 1) \in Gated
      BY <3>1, SoundAssumption, FrameOfType DEF Param
    <3>3. /\ Len(gate) \in Nat
          /\ i \in DOMAIN gate \/ i = Len(gate) + 1
          /\ \A k \in DOMAIN gate : gate'[k] = gate[k]
          /\ gate'[Len(gate) + 1] = FrameOf(saved, 1)
      BY <2>1, <3>2, GateGains DEF Place
    <3>4. i = Len(gate) + 1
      BY <3>1, <3>3, NoneAtGate
    <3>5. Loc(gate'[i].frame.key) = 1
      BY <3>3, <3>4 DEF FrameOf, Loc
    <3>6. ~(p < 1)
      BY SoundAssumption DEF Param
    <3>7. reply' = "ok" => Len(gate) # 0
      BY <3>1 DEF TypeOK
    <3>8. QED
      BY <3>3, <3>4, <3>5, <3>6, <3>7
  <2>2. CASE UNCHANGED <<hearing, sounding, gate>>
    BY <1>6, <2>2 DEF PutBack
  <2>3. QED
    BY <1>6, <2>1, <2>2 DEF PutBack
<1>7. CASE AuditionSettle
  <2> DEFINE l == Loc(Head(gate).frame.key)
  <2>1. /\ Len(gate) \in Nat \ {0} /\ DOMAIN gate = 1..Len(gate)
        /\ Head(gate) = gate[1] /\ gate[1].by = "preview"
        /\ Tail(gate) \in Seq(Gated)
        /\ DOMAIN Tail(gate) = 1..Len(gate) - 1 /\ Len(Tail(gate)) = Len(gate) - 1
        /\ \A k \in DOMAIN Tail(gate) : Tail(gate)[k] = gate[k + 1]
    <3>1. gate \in Seq(Gated) /\ gate # <<>>
      BY <1>7 DEF AuditionSettle, TypeOK
    <3>2. QED
      BY <1>7, <3>1, TailFacts DEF AuditionSettle
  <2>2. /\ reply = "ok" /\ l < NParams
        /\ gate' = Append(Tail(gate), FrameOf(sounding, l + 1))
        /\ UNCHANGED <<hearing, sounding, temp>> /\ reply' = "none"
    BY <1>7 DEF AuditionSettle, Quiet
  <2>3. l \in Param /\ l + 1 \in Param /\ sounding \in Sound
    BY <1>7, <2>2, GateType, SoundAssumption, SMTT(30) DEF AuditionSettle, Param, Auditions, TypeOK
  <2>4. FrameOf(sounding, l + 1) \in Gated
    BY <2>3, FrameOfType
  <2>5. /\ i \in DOMAIN Tail(gate) \/ i = Len(gate)
        /\ \A k \in DOMAIN Tail(gate) : gate'[k] = Tail(gate)[k]
        /\ gate'[Len(gate)] = FrameOf(sounding, l + 1)
    BY <2>1, <2>2, <2>4, AppendFacts
  <2>6. \A k \in DOMAIN Tail(gate) : Tail(gate)[k].by # "preview"
    <3>1. \A j \in DOMAIN gate : gate[j].by = "preview" => j = 1
      BY <2>1 DEF Auditions
    <3>2. \A k \in DOMAIN Tail(gate) : k + 1 \in DOMAIN gate /\ k + 1 # 1
      BY <2>1
    <3>3. QED
      BY <2>1, <3>1, <3>2
  <2>7. Loc(gate'[i].frame.key) = l + 1
    <3>1. i = Len(gate)
      BY <2>5, <2>6
    <3>2. Loc(-(l + 1)) = l + 1
      BY <2>3, SoundAssumption DEF Loc, Param
    <3>3. QED
      BY <2>5, <3>1, <3>2 DEF FrameOf
  <2>8. p < l \/ p = l
    BY <2>2, <2>3, <2>7, SoundAssumption DEF Param
  <2>9. temp[p] = sounding[p]
    BY <1>1, <2>1, <2>2, <2>8 DEF PutsBack, GateLoc
  <2>10. QED
    BY <2>2, <2>9
<1>8. CASE Connect \/ \E s \in Sounds : PanelSelect(s)
  <2>1. hearing = "restoring" /\ spoiled' = Crossing(spoiled)
    BY <1>8 DEF Connect, PanelSelect
  <2>2. QED
    BY <2>1 DEF Crossing, Sounding
<1>9. CASE AuditionRead \/ \E d \in Stored : Audition(d)
  BY <1>9 DEF AuditionRead, Audition, Place, Quiet
<1>10. QED
  BY <1>2, <1>3, <1>4, <1>5, <1>6, <1>7, <1>8, <1>9
     DEF Next, User, Machine, vars, Edit, Open, Send, LiveOn, LiveOff, Disconnect,
         StartRead, ReadTemp, FetchDone, VerifyDone, PollAsk, PollHear, PollDone

-----------------------------------------------------------------------------
(* The frames of the queue at the gate.  A step other than Run and Deliver *)
(* leaves them where they are, or moves them up by one.                    *)

SameAtGate ==
    \A i \in Nat : /\ AtGate(i)' <=> AtGate(i)
                   /\ ToCome(i)' <=> ToCome(i)
                   /\ AtGate(i) => gate'[i] = gate[i]
MovedUpAtGate ==
    \A i \in Nat \ {0} : /\ AtGate(i)' <=> AtGate(i + 1)
                         /\ ToCome(i)' <=> ToCome(i + 1)
                         /\ AtGate(i)' => gate'[i] = gate[i + 1]

LEMMA GateIndex ==
    ASSUME TypeOK, NEW i, AtGate(i)
    PROVE  i \in Nat \ {0} /\ gate[i] \in Gated /\ GateLoc(i) \in Param
<1>1. gate \in Seq(Gated) /\ i \in DOMAIN gate
  BY DEF TypeOK, AtGate
<1>2. i \in Nat \ {0} /\ gate[i] \in Gated
  BY <1>1
<1>3. \A f \in Frame : Loc(f.key) \in Param
  BY SoundAssumption DEF Frame, Key, Loc, Param
<1>4. QED
  BY <1>2, <1>3 DEF Gated, GateLoc

LEMMA PendingIndex ==
    ASSUME TypeOK, NEW i \in DOMAIN pending
    PROVE  i \in Nat \ {0} /\ pending[i] \in Frame /\ PendingLoc(i) \in Param
<1>1. pending \in Seq(Frame)
  BY DEF TypeOK, QueueType
<1>2. i \in Nat \ {0} /\ pending[i] \in Frame
  BY <1>1
<1>3. \A f \in Frame : Loc(f.key) \in Param
  BY SoundAssumption DEF Frame, Key, Loc, Param
<1>4. QED
  BY <1>2, <1>3 DEF PendingLoc

LEMMA GateUnchanged == UNCHANGED <<gate, reply>> => SameAtGate
  BY DEF SameAtGate, AtGate, ToCome

LEMMA GatePlaced ==
    ASSUME TypeOK, NEW d \in Sound, NEW h, Place(h, d), UNCHANGED reply
    PROVE  SameAtGate
<1>1. FrameOf(d, 1) \in Gated
  BY SoundAssumption, FrameOfType DEF Param
<1>2. /\ Len(gate) \in Nat /\ DOMAIN gate = 1..Len(gate)
      /\ \A i \in DOMAIN gate : i \in DOMAIN gate' /\ gate'[i] = gate[i]
      /\ gate'[Len(gate) + 1] = FrameOf(d, 1)
      /\ \A i \in DOMAIN gate' : i \in DOMAIN gate \/ i = Len(gate) + 1
  BY <1>1, GateGains DEF Place
<1>3. FrameOf(d, 1).by # "queue"
  BY DEF FrameOf
<1>4. \A i \in Nat : AtGate(i)' <=> AtGate(i)
  BY <1>2, <1>3 DEF AtGate
<1>5. \A i \in Nat : AtGate(i) => gate'[i] = gate[i]
  BY <1>2 DEF AtGate
<1>6. QED
  BY <1>4, <1>5 DEF SameAtGate, ToCome

LEMMA GateMovesUp ==
    ASSUME TypeOK, Settle \/ AuditionSettle
    PROVE  MovedUpAtGate
<1>1. reply # "none" /\ reply' = "none" /\ gate \in Seq(Gated) /\ gate # <<>>
  BY DEF Settle, AuditionSettle, TypeOK
<1>2. /\ Len(gate) \in Nat \ {0} /\ DOMAIN gate = 1..Len(gate)
      /\ Head(gate) = gate[1]
      /\ Tail(gate) \in Seq(Gated) /\ Len(Tail(gate)) = Len(gate) - 1
      /\ DOMAIN Tail(gate) = 1..Len(gate) - 1
      /\ \A i \in 1..Len(gate) - 1 : Tail(gate)[i] = gate[i + 1]
  BY <1>1, TailFacts
<1>3. CASE gate' = Tail(gate)
  BY <1>1, <1>2, <1>3 DEF MovedUpAtGate, AtGate, ToCome
<1>4. CASE gate' = Append(Tail(gate), FrameOf(sounding, Loc(Head(gate).frame.key) + 1))
  <2> DEFINE g == FrameOf(sounding, Loc(Head(gate).frame.key) + 1)
  <2>1. g.by # "queue"
    BY DEF FrameOf
  <2>2. /\ DOMAIN gate' = 1..Len(gate)
        /\ \A i \in 1..Len(gate) - 1 : gate'[i] = gate[i + 1]
        /\ gate'[Len(gate)] = g
    <3> HIDE DEF g
    <3>1. gate' = Append(Tail(gate), g)
      BY <1>4 DEF g
    <3>2. QED
      BY <1>2, <3>1
  <2>3. \A i \in Nat \ {0} : AtGate(i)' <=> AtGate(i + 1)
    <3> HIDE DEF g
    <3>1. QED
      BY <1>2, <2>1, <2>2 DEF AtGate
  <2>4. \A i \in Nat \ {0} : AtGate(i)' => gate'[i] = gate[i + 1]
    <3> HIDE DEF g
    <3>1. QED
      BY <1>2, <2>1, <2>2 DEF AtGate
  <2>5. QED
    BY <1>1, <2>3, <2>4 DEF MovedUpAtGate, ToCome
<1>5. QED
  BY <1>3, <1>4 DEF Settle, AuditionSettle

(* The first frame of the queue arrives, and no audition is under way.     *)
Arrives ==
    /\ AtGate(1) /\ reply = "none" /\ reply' = "ok" /\ ~Sounding
    /\ temp' = [temp EXCEPT ![GateLoc(1)] = gate[1].frame.val]

LEMMA GateOf ==
    ASSUME TypeOK, Auditions, [Next]_vars
    PROVE  \/ Run \/ Deliver \/ Settle \/ AuditionSettle
           \/ SameAtGate
<1> USE DEF store, bar, audition, panel
<1>1. CASE \E d \in Stored : Audition(d)
  <2>1. PICK d \in Stored : Audition(d)
    BY <1>1
  <2>2. d \in Sound /\ UNCHANGED reply
    BY <2>1, SoundAssumption DEF Audition
  <2>3. QED
    BY <2>1, <2>2, GateUnchanged, GatePlaced DEF Audition
<1>2. CASE AuditionRead
  <2>1. CASE Place("sending", sounding)
    <3>1. sounding \in Sound /\ UNCHANGED reply
      BY <1>2 DEF AuditionRead, Auditions, TypeOK
    <3>2. QED
      BY <2>1, <3>1, GatePlaced
  <2>2. QED
    BY <1>2, <2>1, GateUnchanged DEF AuditionRead
<1>3. CASE PutBack
  <2>1. saved \in Sound /\ UNCHANGED reply
    BY <1>3 DEF PutBack, TypeOK
  <2>2. QED
    BY <1>3, <2>1, GateUnchanged, GatePlaced DEF PutBack
<1>4. CASE UNCHANGED <<gate, reply>>
  BY <1>4, GateUnchanged
<1>5. QED
  BY <1>1, <1>2, <1>3, <1>4
     DEF Next, User, Machine, vars, Edit, Open, Send, LiveOn, LiveOff, Connect,
         Disconnect, StartRead, ReadTemp, FetchDone, VerifyDone, PollAsk, PollHear,
         PollDone, PanelSelect

(* What a step makes of the waiting frames.                                *)
LEMMA PendingOf ==
    ASSUME TypeOK, [Next]_vars
    PROVE  \/ Run \/ Settle \/ \E d \in Sound : Edit(d)
           \/ UNCHANGED pending \/ pending' = <<>>
           \/ (Send \/ LiveOn) /\ SendPatch(doc)
<1> USE DEF store, bar, audition, panel, queue
<1>1. CASE Send
  BY <1>1 DEF Send
<1>2. CASE LiveOn
  BY <1>2 DEF LiveOn
<1>3. CASE LiveOff \/ Disconnect \/ Connect \/ \E s \in Sounds : Open(s)
  BY <1>3 DEF LiveOff, Disconnect, Connect, Open, Clear
<1>4. CASE FetchDone
  BY <1>4 DEF FetchDone, Clear
<1>5. CASE UNCHANGED pending
  BY <1>5
<1>6. QED
  BY <1>1, <1>2, <1>3, <1>4, <1>5
     DEF Next, User, Machine, vars, Deliver, StartRead, ReadTemp, VerifyDone, PollAsk,
         PollHear, PollDone, PanelSelect, Audition, AuditionRead, PutBack,
         AuditionSettle

(* The instrument's own sound changes, on a calm connection, only when a   *)
(* frame of the queue arrives; or an audition has failed to put it back.   *)
LEMMA OwnStays ==
    ASSUME TypeOK, Auditions, PutsBack, [Next]_vars, spoiled = {}, Calm', link = "up"
    PROVE  \/ Own' = Own
           \/ Deliver /\ Arrives
           \/ AuditionSettle /\ MarkStale /\ UNCHANGED reading
<1> USE DEF store, bar, audition, panel
<1>1. NoSound \notin Sound /\ temp \in Sound
  BY SoundAssumption DEF TypeOK
<1>2. CASE UNCHANGED <<hearing, sounding, saved, temp>>
  BY <1>2 DEF Own
<1>3. CASE Deliver
  <2>1. UNCHANGED <<hearing, sounding, saved>>
    BY <1>3 DEF Deliver
  <2>2. CASE hearing = "restoring" \/ saved # NoSound
    BY <2>1, <2>2 DEF Own
  <2>3. CASE hearing # "restoring" /\ saved = NoSound
    <3>1. 1 \in DOMAIN gate /\ gate[1] = Head(gate) /\ gate[1] \in Gated
      BY <1>3, TailFacts DEF Deliver, TypeOK
    <3>2. CASE UNCHANGED temp
      BY <1>2, <2>1, <3>2
    <3>3. CASE ~UNCHANGED temp
      <4>1. /\ reply = "none" /\ reply' = "ok"
            /\ temp' = [temp EXCEPT ![Loc(gate[1].frame.key)] = gate[1].frame.val]
            /\ spoiled' = IF gate[1].by = "queue" THEN Crossing(spoiled) ELSE spoiled
        BY <1>3, <3>1, <3>3 DEF Deliver
      <4>2. gate[1].by = "queue"
        BY <2>3, <3>1 DEF Auditions, Gated
      <4>3. ~Sounding
        BY <4>1, <4>2 DEF Crossing, Calm
      <4>4. QED
        BY <1>3, <3>1, <4>1, <4>2, <4>3 DEF Arrives, AtGate, GateLoc
    <3>4. QED
      BY <3>2, <3>3
  <2>4. QED
    BY <2>2, <2>3
<1>4. CASE Connect
  BY <1>4 DEF Connect
<1>5. CASE \E s \in Sounds : PanelSelect(s)
  BY <1>5 DEF PanelSelect, Calm, Unnoticed
<1>6. CASE \E d \in Stored : Audition(d)
  BY <1>6 DEF Audition, Place, Own
<1>7. CASE AuditionRead
  <2>1. hearing = "reading" /\ saved = NoSound /\ Own = temp
    BY <1>7 DEF AuditionRead, Auditions, Own
  <2>2. hearing' # "restoring" /\ UNCHANGED temp /\ saved' \in {temp, saved}
    BY <1>7 DEF AuditionRead, Place, Quiet
  <2>3. QED
    BY <2>1, <2>2 DEF Own
<1>8. CASE PutBack
  <2>1. Place("restoring", saved)
    BY <1>8 DEF PutBack, TypeOK
  <2>2. QED
    BY <1>8, <2>1 DEF PutBack, Place, Own
<1>9. CASE AuditionSettle
  <2> DEFINE l == Loc(Head(gate).frame.key)
  <2>1. UNCHANGED <<saved, temp, reading>>
    BY <1>9 DEF AuditionSettle
  <2>2. CASE hearing = "sending"
    <3>1. saved # NoSound /\ hearing' # "restoring"
      BY <1>9, <2>2 DEF AuditionSettle, Quiet, Auditions
    <3>2. QED
      BY <2>1, <2>2, <3>1 DEF Own
  <2>3. CASE hearing # "sending"
    <3>1. 1 \in DOMAIN gate /\ gate[1] = Head(gate) /\ gate[1].by = "preview"
      BY <1>9, TailFacts DEF AuditionSettle, TypeOK
    <3>2. hearing = "restoring" /\ saved = NoSound /\ sounding \in Sound
      BY <2>3, <3>1 DEF Auditions, TypeOK
    <3>3. CASE UNCHANGED <<hearing, sounding>>
      BY <2>1, <3>3 DEF Own
    <3>4. CASE MarkStale
      BY <1>9, <2>1, <3>4
    <3>5. CASE reply = "ok" /\ l = NParams /\ Quiet
      <4>1. ASSUME NEW p \in Param PROVE temp[p] = sounding[p]
        <5>1. p < l \/ p = l
          BY <3>5, SoundAssumption DEF Param
        <5>2. QED
          BY <3>1, <3>2, <3>5, <5>1 DEF PutsBack, GateLoc
      <4>2. temp = sounding
        BY <1>1, <3>2, <4>1 DEF Sound
      <4>3. QED
        BY <2>1, <3>2, <3>5, <4>2 DEF Own, Quiet
    <3>6. QED
      BY <1>9, <3>2, <3>3, <3>4, <3>5 DEF AuditionSettle
  <2>4. QED
    BY <2>2, <2>3
<1>10. QED
  BY <1>2, <1>3, <1>4, <1>5, <1>6, <1>7, <1>8, <1>9
     DEF Next, User, Machine, vars, Edit, Open, Send, LiveOn, LiveOff, Disconnect,
         Run, Settle, StartRead, ReadTemp, FetchDone, VerifyDone, PollAsk, PollHear,
         PollDone

-----------------------------------------------------------------------------
(* Reads.                                                                  *)

(* While the sound on the screen stays, what is on its way goes on showing *)
(* it: a frame that is sent again is one that was on its way.              *)
LEMMA AsShownStays ==
    ASSUME TypeOK, TypeOK', Auditions, AllAsShown, [Next]_vars, UNCHANGED doc
    PROVE  AllAsShown'
<1> USE DEF store, bar, audition, panel
<1>1. SUFFICES /\ \A i \in DOMAIN pending' :
                     pending'[i].val = doc[Loc(pending'[i].key)]
               /\ \A i \in DOMAIN gate' :
                     ToCome(i)' => gate'[i].frame.val = doc[Loc(gate'[i].frame.key)]
  BY DEF AllAsShown, PendingLoc, GateLoc
<1>2. /\ \A i \in DOMAIN pending : pending[i].val = doc[Loc(pending[i].key)]
      /\ \A i \in DOMAIN gate :
            ToCome(i) => gate[i].frame.val = doc[Loc(gate[i].frame.key)]
  BY DEF AllAsShown, PendingLoc, GateLoc
<1>3. ASSUME SameAtGate, NEW i \in DOMAIN gate', ToCome(i)', gate' \in Seq(Gated)
      PROVE  gate'[i].frame.val = doc[Loc(gate'[i].frame.key)]
  <2>1. i \in Nat /\ ToCome(i) /\ gate'[i] = gate[i]
    BY <1>3 DEF SameAtGate, ToCome
  <2>2. QED
    BY <1>2, <2>1 DEF ToCome, AtGate
<1>4. ASSUME MovedUpAtGate, NEW i \in DOMAIN gate', ToCome(i)', gate' \in Seq(Gated)
      PROVE  gate'[i].frame.val = doc[Loc(gate'[i].frame.key)]
  <2>1. i \in Nat \ {0} /\ ToCome(i + 1) /\ gate'[i] = gate[i + 1]
    <3>1. i \in Nat \ {0}
      BY <1>4
    <3>2. AtGate(i)'
      BY <1>4 DEF ToCome
    <3>3. QED
      BY <1>4, <3>1, <3>2 DEF MovedUpAtGate
  <2>2. QED
    BY <1>2, <2>1 DEF ToCome, AtGate
<1>5. gate' \in Seq(Gated)
  BY DEF TypeOK
<1>6. CASE Run
  <2>1. /\ pending # <<>> /\ pending' = Tail(pending) /\ UNCHANGED reply
        /\ gate' = Append(gate, [by |-> "queue", frame |-> Head(pending)])
    BY <1>6 DEF Run, TypeOK, QueueType
  <2>2. /\ 1 \in DOMAIN pending /\ Head(pending) = pending[1] /\ pending[1] \in Frame
        /\ \A i \in DOMAIN pending' :
              i + 1 \in DOMAIN pending /\ pending'[i] = pending[i + 1]
    BY <2>1, PendingLoses
  <2>3. [by |-> "queue", frame |-> Head(pending)] \in Gated
    BY <2>2 DEF Gated
  <2>4. /\ \A i \in DOMAIN gate : gate'[i] = gate[i]
        /\ \A i \in DOMAIN gate' : i \in DOMAIN gate \/ gate'[i].frame = pending[1]
    BY <2>1, <2>2, <2>3, GateGains
  <2>5. \A i \in DOMAIN gate' : i \in DOMAIN gate /\ ToCome(i)' => ToCome(i)
    BY <2>1, <2>4 DEF ToCome, AtGate
  <2>6. QED
    BY <1>2, <2>2, <2>4, <2>5
<1>7. CASE Deliver
  <2>1. UNCHANGED <<gate, pending>> /\ reply = "none"
    BY <1>7 DEF Deliver, queue
  <2>2. \A i \in DOMAIN gate : ToCome(i)' => ToCome(i)
    BY <2>1 DEF ToCome, AtGate
  <2>3. QED
    BY <1>2, <2>1, <2>2
<1>8. CASE Settle
  <2>1. MovedUpAtGate
    BY <1>8, GateMovesUp
  <2>2. CASE UNCHANGED pending
    BY <1>2, <1>4, <1>5, <2>1, <2>2
  <2>3. CASE pending' # pending
    <3> DEFINE f == Head(gate).frame
    <3>1. reply = "failed" /\ pending' = Append(pending, f) /\ Head(gate).by = "queue"
      BY <1>8, <2>3 DEF Settle, SettleOk, SettleFailed
    <3>2. 1 \in DOMAIN gate /\ gate[1] = Head(gate)
      BY <3>1, TailFacts DEF TypeOK
    <3>3. f \in Frame /\ f.val = doc[Loc(f.key)]
      BY <1>2, <3>1, <3>2, GateType DEF ToCome, AtGate
    <3>4. \A i \in DOMAIN pending' :
              (i \in DOMAIN pending /\ pending'[i] = pending[i]) \/ pending'[i] = f
      <4> HIDE DEF f
      <4>1. QED
        BY <3>1, <3>3, PendingGains
    <3>5. QED
      BY <1>2, <1>4, <1>5, <2>1, <3>3, <3>4
  <2>4. QED
    BY <2>2, <2>3
<1>9. CASE AuditionSettle
  BY <1>2, <1>4, <1>5, <1>9, GateMovesUp DEF AuditionSettle, queue
<1>10. CASE SameAtGate /\ ~Run /\ ~Settle
  <2>1. CASE pending' = <<>> \/ UNCHANGED pending
    BY <1>2, <1>3, <1>5, <1>10, <2>1
  <2>2. CASE SendPatch(doc)
    <3>1. /\ DOMAIN pending' = Param
          /\ \A i \in Param : pending'[i] = [key |-> -i, val |-> doc[i]]
      BY <2>2, SupersedeFacts DEF SendPatch, TypeOK
    <3>2. \A i \in Param : Loc(-i) = i
      BY SoundAssumption DEF Loc, Param
    <3>3. QED
      BY <1>3, <1>5, <1>10, <3>1, <3>2
  <2>3. QED
    BY <1>10, <2>1, <2>2, PendingOf DEF Edit
<1>11. QED
  BY <1>6, <1>7, <1>8, <1>9, <1>10, GateOf

(* A connection is calm only when it was, or has just been opened, or the  *)
(* editor has just been told of a change at the panel.                     *)
LEMMA CalmBefore ==
    ASSUME TypeOK, [Next]_vars, Calm', spoiled = {}
    PROVE  \/ Calm
           \/ Connect
           \/ PollDone /\ MarkStale /\ link = "up"
<1> USE DEF store, bar, audition, panel, Calm, Unnoticed
<1>1. CASE UNCHANGED <<link, poll, heard>>
  BY <1>1
<1>2. CASE Disconnect \/ Connect \/ PollAsk \/ PollHear
  BY <1>2 DEF Disconnect, Connect, PollAsk, PollHear, TypeOK
<1>3. CASE PollDone
  BY <1>3 DEF PollDone
<1>4. CASE \E s \in Sounds : PanelSelect(s)
  BY <1>4 DEF PanelSelect
<1>5. QED
  BY <1>1, <1>2, <1>3, <1>4
     DEF Next, User, Machine, vars, Edit, Open, Send, LiveOn, LiveOff, StartRead,
         Audition, Run, Deliver, Settle, ReadTemp, FetchDone, VerifyDone,
         AuditionRead, PutBack, AuditionSettle

(* A frame that shows what the screen does arrives.                        *)
LEMMA ArrivesOwn ==
    ASSUME TypeOK, Auditions, Deliver, Arrives
    PROVE  /\ Own = temp /\ Own' = temp' /\ GateLoc(1) \in Param
           /\ \A p \in Param : Own'[p] = IF p = GateLoc(1) THEN gate[1].frame.val
                                         ELSE Own[p]
<1>1. UNCHANGED <<hearing, saved>>
  BY DEF Deliver, audition
<1>2. hearing = "quiet" /\ saved = NoSound
  BY DEF Arrives, Sounding
<1>3. Own = temp /\ Own' = temp'
  BY <1>1, <1>2 DEF Own
<1>4. GateLoc(1) \in Param
  BY GateIndex DEF Arrives
<1>5. \A p \in Param : temp'[p] = IF p = GateLoc(1) THEN gate[1].frame.val
                                  ELSE temp[p]
  BY <1>4 DEF Arrives, TypeOK, Sound
<1>6. QED
  BY <1>3, <1>4, <1>5

LEMMA ReadFitsStep ==
    /\ TypeOK /\ TypeOK' /\ Auditions /\ Auditions' /\ PutsBack /\ ReadFits
    /\ [Next]_vars
    => ReadFits'
<1> SUFFICES ASSUME TypeOK, TypeOK', Auditions, Auditions', PutsBack, ReadFits,
                    [Next]_vars, spoiled' = {}, moved' = "no", reading' # "none"
             PROVE  /\ reading' = "fetch" => pending' = <<>> /\ ~InFlight'
                    /\ reading' = "verify" => AllAsShown'
                    /\ Calm' /\ answer' # NoSound =>
                        /\ reading' = "fetch" => Own' = answer'
                        /\ reading' = "verify" =>
                             \A p \in Param : Own'[p] \in {answer'[p], doc'[p]}
  BY DEF ReadFits
<1> USE DEF store, bar, audition, panel
<1>1. CASE \E w \in Reads : StartRead(w)
  <2>1. pending' = <<>> /\ ~InFlight' /\ answer' = NoSound
    BY <1>1 DEF StartRead, InFlight, queue
  <2>2. AllAsShown'
    BY <2>1 DEF AllAsShown, InFlight, ToCome, AtGate
  <2>3. QED
    BY <2>1, <2>2
<1>2. CASE ~\E w \in Reads : StartRead(w)
  <2>1. /\ reading' = reading /\ moved = "no" /\ UNCHANGED doc
        /\ answer' # answer => ReadTemp
        /\ ~Connect /\ \A d \in Sound : ~Edit(d)
    <3>1. \A d \in Sound : ~Edit(d)
      BY DEF Edit, Revised
    <3>2. \A s \in Sounds : ~Open(s)
      BY DEF Open, Revised
    <3>3. ~FetchDone /\ ~VerifyDone
      BY DEF FetchDone, VerifyDone, ReadOver
    <3>4. ~Connect
      BY DEF Connect
    <3>5. ReadTemp => reading' = reading /\ moved = "no" /\ UNCHANGED doc
      BY DEF ReadTemp, ReadOver
    <3>6. QED
      BY <1>2, <3>1, <3>2, <3>3, <3>4, <3>5
         DEF Next, User, Machine, vars, Send, LiveOn, LiveOff, Disconnect,
             Audition, Run, Deliver, Settle, PollAsk, PollHear, PollDone,
             AuditionRead, PutBack, AuditionSettle, PanelSelect
  <2>2. spoiled = {}
    BY <2>1, SpoiledStays
  <2>3. /\ reading = "fetch" => pending = <<>> /\ ~InFlight
        /\ reading = "verify" => AllAsShown
        /\ Calm /\ answer # NoSound =>
             /\ reading = "fetch" => Own = answer
             /\ reading = "verify" => \A p \in Param : Own[p] \in {answer[p], doc[p]}
    BY <2>1, <2>2 DEF ReadFits
  <2>4. reading = "verify" => AllAsShown'
    BY <2>1, <2>3, AsShownStays
  <2>5. ASSUME reading = "fetch" PROVE pending' = <<>> /\ ~InFlight'
    <3>1. pending = <<>> /\ ~InFlight
      BY <2>3, <2>5
    <3>2. ~Run /\ ~Settle
      <4>1. ~Run
        BY <3>1 DEF Run, TypeOK, QueueType
      <4>2. ASSUME Settle PROVE FALSE
        <5>1. 1 \in DOMAIN gate /\ gate[1] = Head(gate)
          BY <4>2, TailFacts DEF Settle, TypeOK
        <5>2. QED
          BY <3>1, <4>2, <5>1 DEF Settle, InFlight
      <4>3. QED
        BY <4>1, <4>2
    <3>3. ~SendPatch(doc)
      BY <2>5 DEF SendPatch
    <3>4. pending' = <<>>
      BY <2>1, <3>1, <3>2, <3>3, PendingOf
    <3>5. ~InFlight'
      <4>1. CASE Deliver
        BY <3>1, <4>1 DEF Deliver, InFlight
      <4>2. CASE SameAtGate
        <5>1. \A i \in DOMAIN gate' : i \in Nat
          BY DEF TypeOK
        <5>2. QED
          BY <3>1, <4>2, <5>1 DEF SameAtGate, InFlight, AtGate
      <4>3. CASE AuditionSettle
        <5>1. \A i \in DOMAIN gate' : i \in Nat \ {0}
          BY DEF TypeOK
        <5>2. QED
          BY <3>1, <4>3, <5>1, GateMovesUp DEF MovedUpAtGate, InFlight, AtGate
      <4>4. QED
        BY <3>2, <4>1, <4>2, <4>3, GateOf
    <3>6. QED
      BY <3>4, <3>5
  <2>6. ASSUME Calm', answer' # NoSound
        PROVE  /\ reading = "fetch" => Own' = answer'
               /\ reading = "verify" => \A p \in Param : Own'[p] \in {answer'[p], doc[p]}
    <3>1. CASE answer' # answer
      <4>1. ReadTemp /\ answer' = temp /\ spoiled' = Crossing(spoiled)
        BY <2>1, <2>6, <3>1 DEF ReadTemp, ReadOver
      <4>2. hearing = "quiet" /\ saved = NoSound
        BY <4>1 DEF Crossing, Sounding
      <4>3. Own' = answer'
        BY <4>1, <4>2 DEF ReadTemp, Own
      <4>4. QED
        BY <4>3
    <3>2. CASE answer' = answer
      <4>1. Calm /\ link = "up"
        <5>1. ~(PollDone /\ MarkStale /\ link = "up")
          BY <2>1 DEF MarkStale
        <5>2. QED
          BY <2>1, <2>2, <2>6, <5>1, CalmBefore DEF Calm
      <4>2. CASE Own' = Own
        BY <2>3, <2>6, <3>2, <4>1, <4>2
      <4>3. CASE Deliver /\ Arrives
        <5>1. /\ GateLoc(1) \in Param
              /\ \A p \in Param : Own'[p] = IF p = GateLoc(1) THEN gate[1].frame.val
                                            ELSE Own[p]
          BY <4>3, ArrivesOwn
        <5>2. 1 \in DOMAIN gate /\ ToCome(1) /\ InFlight
          BY <4>3 DEF Arrives, ToCome, AtGate, InFlight
        <5>3. ASSUME reading = "verify", NEW p \in Param
              PROVE  Own'[p] \in {answer'[p], doc[p]}
          <6>1. gate[1].frame.val = doc[GateLoc(1)]
            BY <2>3, <5>2, <5>3 DEF AllAsShown
          <6>2. QED
            BY <2>3, <2>6, <3>2, <4>1, <5>1, <5>3, <6>1
        <5>4. QED
          BY <2>3, <5>2, <5>3
      <4>4. CASE AuditionSettle /\ MarkStale /\ UNCHANGED reading
        BY <2>1, <4>1, <4>4 DEF MarkStale
      <4>5. QED
        BY <2>2, <2>6, <4>1, <4>2, <4>3, <4>4, OwnStays
    <3>3. QED
      BY <3>1, <3>2
  <2>7. QED
    BY <2>1, <2>4, <2>5, <2>6
<1>3. QED
  BY <1>1, <1>2

-----------------------------------------------------------------------------
(* What flows to the instrument.                                           *)

(* A whole send takes the place of all that waited.                        *)
LEMMA WholeFlows ==
    ASSUME TypeOK, TypeOK', NEW d \in Sound, SendPatch(d), doc' = d
    PROVE  LastPending' /\ LastAtGate' /\ NoneToCome'
<1>1. /\ DOMAIN pending' = Param
      /\ \A i \in Param : pending'[i] = [key |-> -i, val |-> d[i]]
  BY SupersedeFacts DEF SendPatch
<1>2. \A i \in Param : Loc(-i) = i
  BY SoundAssumption DEF Loc, Param
<1>3. \A i \in Param : PendingLoc(i)' = i /\ pending'[i].val = d[i]
  BY <1>1, <1>2 DEF PendingLoc
<1>4. \A p \in Param : IsPending(p)'
  BY <1>1, <1>3 DEF IsPending
<1>5. \A i : AtGate(i)' => GateLoc(i)' \in Param
  <2>1. \A f \in Frame : Loc(f.key) \in Param
    BY SoundAssumption DEF Frame, Key, Loc, Param
  <2>2. \A i \in DOMAIN gate' : gate'[i].frame \in Frame
    <3>1. gate' \in Seq(Gated)
      BY DEF TypeOK
    <3>2. \A i \in DOMAIN gate' : gate'[i] \in Gated
      BY <3>1
    <3>3. QED
      BY <3>2 DEF Gated
  <2>3. QED
    BY <2>1, <2>2 DEF AtGate, GateLoc
<1>6. LastPending'
  BY <1>1, <1>3 DEF LastPending
<1>7. LastAtGate'
  BY <1>4, <1>5 DEF LastAtGate, ToCome
<1>8. NoneToCome'
  BY <1>4 DEF NoneToCome
<1>9. QED
  BY <1>6, <1>7, <1>8

(* A single edit: its frames are the last for their parameters, since no   *)
(* frame of a whole send waits behind them.                                *)
LEMMA SingleFlows ==
    ASSUME TypeOK, TypeOK', Ordered, "baseSent" \in marks,
           LastPending, LastAtGate, NoneToCome,
           NEW d \in Sound, Push(Changed(d), d), doc' = d,
           UNCHANGED <<gate, reply>>, Own' = Own
    PROVE  LastPending' /\ LastAtGate' /\ NoneToCome'
<1> DEFINE P == Changed(d)
<1>1. P \in SUBSET Param /\ \A p \in Param : p \notin P => doc[p] = d[p]
  BY DEF Changed
<1>2. /\ Len(pending) \in Nat /\ DOMAIN pending = 1..Len(pending)
      /\ Len(pending') \in Nat /\ DOMAIN pending' = 1..Len(pending')
      /\ Len(pending) <= Len(pending')
      /\ \A i \in DOMAIN pending :
            pending'[i] = IF pending[i].key \in P
                          THEN ParamFrame(pending[i].key, d) ELSE pending[i]
      /\ \A i \in DOMAIN pending' : i > Len(pending) =>
            /\ pending'[i].key \in P /\ ~Waiting(pending, pending'[i].key)
            /\ pending'[i] = ParamFrame(pending'[i].key, d)
      /\ \A p \in P : Waiting(pending', p)
  <2> HIDE DEF P
  <2>1. Push(P, d)
    BY DEF P
  <2>2. QED
    BY <1>1, <2>1, PushFacts
<1> HIDE DEF P
<1>3. \A k \in Param : ParamFrame(k, d).key = k /\ ParamFrame(k, d).val = d[k] /\ Loc(k) = k
  BY SoundAssumption DEF ParamFrame, Loc, Param
<1>4. \A i \in DOMAIN pending : pending'[i].key = pending[i].key /\ i \in DOMAIN pending'
  BY <1>1, <1>2, <1>3
<1>5. \A i \in DOMAIN pending : PendingLoc(i)' = PendingLoc(i)
  BY <1>4 DEF PendingLoc
<1>6. \A p \in P : \E j \in DOMAIN pending' : pending'[j].key = p /\ PendingLoc(j)' = p
  BY <1>1, <1>2, <1>3 DEF Waiting, PendingLoc
<1>7. ASSUME NEW i \in DOMAIN pending',
             \A j \in DOMAIN pending' : j > i => PendingLoc(j)' # PendingLoc(i)'
      PROVE  pending'[i].val = d[PendingLoc(i)']
  <2>1. CASE pending'[i].key \in P
    <3>1. pending'[i] = ParamFrame(pending'[i].key, d)
      <4>1. CASE i \in DOMAIN pending
        BY <1>2, <1>4, <2>1, <4>1
      <4>2. CASE i \notin DOMAIN pending
        <5>1. i > Len(pending)
          BY <1>2, <4>2
        <5>2. QED
          BY <1>2, <5>1
      <4>3. QED
        BY <4>1, <4>2
    <3>2. pending'[i].val = d[pending'[i].key]
      BY <1>1, <1>3, <2>1, <3>1
    <3>3. PendingLoc(i)' = pending'[i].key
      BY <1>1, <1>3, <2>1 DEF PendingLoc
    <3>4. QED
      BY <3>2, <3>3
  <2>2. CASE pending'[i].key \notin P
    <3>1. i \in DOMAIN pending /\ pending'[i] = pending[i] /\ i \in Nat
      <4>1. ~(i > Len(pending)) /\ i \in Nat
        BY <1>2, <2>2
      <4>2. i \in DOMAIN pending
        BY <1>2, <4>1
      <4>3. QED
        BY <1>2, <1>4, <2>2, <4>1, <4>2
    <3>2. PendingLoc(i) \in Param /\ pending[i] \in Frame
      BY <3>1, PendingIndex
    <3>3. PendingLoc(i) \notin P
      <4>1. SUFFICES ASSUME PendingLoc(i) \in P PROVE FALSE
        OBVIOUS
      <4>2. PICK j \in DOMAIN pending' :
               pending'[j].key = PendingLoc(i) /\ PendingLoc(j)' = PendingLoc(i)
        BY <1>6, <4>1
      <4>3. pending[i].key = -PendingLoc(i)
        <5>1. \A k \in Key : Loc(k) = k \/ k = -Loc(k)
          BY SoundAssumption DEF Key, Loc, Param
        <5>2. pending[i].key \in Key
          BY <3>2 DEF Frame
        <5>3. QED
          BY <2>2, <3>1, <4>1, <5>1, <5>2 DEF PendingLoc
      <4>4. j > i
        <5>1. CASE j \in DOMAIN pending
          <6>1. pending[j].key = PendingLoc(i)
            BY <1>4, <4>2, <5>1
          <6>2. pending[i].key = -pending[j].key /\ pending[j].key \in Param
            BY <3>2, <4>3, <6>1
          <6>3. i < j
            BY <3>1, <5>1, <6>2 DEF Ordered
          <6>4. QED
            BY <1>2, <3>1, <5>1, <6>3
        <5>2. CASE j \notin DOMAIN pending
          BY <1>2, <3>1, <5>2
        <5>3. QED
          BY <5>1, <5>2
      <4>5. QED
        BY <1>5, <1>7, <3>1, <4>2, <4>4
    <3>4. \A j \in DOMAIN pending : j > i => PendingLoc(j) # PendingLoc(i)
      BY <1>4, <1>5, <1>7, <3>1
    <3>5. pending[i].val = doc[PendingLoc(i)]
      BY <3>1, <3>4 DEF LastPending
    <3>6. QED
      BY <1>1, <1>5, <3>1, <3>2, <3>3, <3>5
  <2>3. QED
    BY <2>1, <2>2
<1>8. LastPending'
  BY <1>7 DEF LastPending
<1>9. \A p \in Param : ~IsPending(p)' => ~IsPending(p) /\ doc[p] = d[p]
  <2>1. \A p \in P : IsPending(p)'
    BY <1>6 DEF IsPending
  <2>2. \A p : IsPending(p) => IsPending(p)'
    BY <1>4, <1>5 DEF IsPending
  <2>3. QED
    BY <1>1, <2>1, <2>2
<1>10. LastAtGate'
  <2>1. ASSUME NEW i \in DOMAIN gate, ToCome(i), ~IsPending(GateLoc(i))',
               \A j \in DOMAIN gate : j > i /\ AtGate(j) => GateLoc(j) # GateLoc(i)
        PROVE  gate[i].frame.val = d[GateLoc(i)]
    <3>1. GateLoc(i) \in Param /\ UNCHANGED GateLoc(i)
      BY <2>1, GateIndex DEF ToCome, GateLoc
    <3>2. ~IsPending(GateLoc(i)) /\ doc[GateLoc(i)] = d[GateLoc(i)]
      <4>1. ~(\E j \in DOMAIN pending' : PendingLoc(j)' = GateLoc(i))
        BY <2>1, <3>1 DEF IsPending
      <4>2. QED
        BY <1>9, <3>1, <4>1 DEF IsPending
    <3>3. QED
      BY <2>1, <3>2 DEF LastAtGate
  <2>2. QED
    BY <2>1 DEF LastAtGate, ToCome, AtGate, GateLoc
<1>11. NoneToCome'
  BY <1>9 DEF NoneToCome, ToCome, AtGate, GateLoc
<1>12. QED
  BY <1>8, <1>10, <1>11

(* The queue's frames at the gate stay, or move up by one: the first of    *)
(* them has arrived, or a frame for its parameter waits.                   *)
LEMMA SameFlows ==
    ASSUME TypeOK, TypeOK', SameAtGate, UNCHANGED <<pending, doc>>, Own' = Own,
           LastPending, LastAtGate, NoneToCome
    PROVE  LastPending' /\ LastAtGate' /\ NoneToCome'
<1>1. \A i \in DOMAIN gate : i \in Nat
  BY DEF TypeOK
<1>2. \A i \in DOMAIN gate' : i \in Nat
  BY DEF TypeOK
<1>3. \A p : IsPending(p)' <=> IsPending(p)
  BY DEF IsPending, PendingLoc
<1>4. LastPending'
  BY DEF LastPending, PendingLoc
<1>5. LastAtGate'
  <2>1. ASSUME NEW i \in DOMAIN gate', ToCome(i)',
               ~(\E k \in DOMAIN pending' : PendingLoc(k)' = GateLoc(i)'),
               \A j \in DOMAIN gate' : j > i /\ AtGate(j)' => GateLoc(j)' # GateLoc(i)'
        PROVE  gate'[i].frame.val = doc'[GateLoc(i)']
    <3>1. i \in DOMAIN gate /\ ToCome(i) /\ gate'[i] = gate[i]
      BY <1>2, <2>1 DEF SameAtGate, ToCome, AtGate
    <3>2. GateLoc(i)' = GateLoc(i)
      BY <3>1 DEF GateLoc
    <3>3. ~IsPending(GateLoc(i))
      <4>1. ~(\E k \in DOMAIN pending : PendingLoc(k) = GateLoc(i))
        BY <2>1, <3>2 DEF PendingLoc
      <4>2. QED
        BY <4>1 DEF IsPending
    <3>4. ASSUME NEW j \in DOMAIN gate, j > i, AtGate(j) PROVE GateLoc(j) # GateLoc(i)
      <4>1. AtGate(j)' /\ gate'[j] = gate[j]
        BY <1>1, <3>4 DEF SameAtGate
      <4>2. GateLoc(j)' = GateLoc(j) /\ j \in DOMAIN gate'
        BY <4>1 DEF GateLoc, AtGate
      <4>3. QED
        BY <2>1, <3>2, <3>4, <4>1, <4>2
    <3>5. gate[i].frame.val = doc[GateLoc(i)]
      BY <3>1, <3>3, <3>4 DEF LastAtGate
    <3>6. QED
      BY <3>1, <3>2, <3>5
  <2>2. QED
    BY <2>1 DEF LastAtGate, IsPending
<1>6. NoneToCome'
  <2>1. ASSUME NEW p \in Param, ~IsPending(p),
               \A i \in DOMAIN gate' : ToCome(i)' => GateLoc(i)' # p
        PROVE  Own[p] = doc[p]
    <3>1. ASSUME NEW i \in DOMAIN gate, ToCome(i) PROVE GateLoc(i) # p
      <4>1. ToCome(i)' /\ AtGate(i)' /\ gate'[i] = gate[i]
        BY <1>1, <3>1 DEF SameAtGate, ToCome
      <4>2. i \in DOMAIN gate' /\ GateLoc(i)' = GateLoc(i)
        BY <4>1 DEF AtGate, GateLoc
      <4>3. QED
        BY <2>1, <4>1, <4>2
    <3>2. QED
      BY <2>1, <3>1 DEF NoneToCome
  <2>2. QED
    BY <1>3, <2>1 DEF NoneToCome
<1>7. QED
  BY <1>4, <1>5, <1>6

LEMMA MovedUpFlows ==
    ASSUME TypeOK, TypeOK', MovedUpAtGate, UNCHANGED doc, Own' = Own,
           \A p : IsPending(p) => IsPending(p)',
           ToCome(1) => \E j \in DOMAIN pending' : PendingLoc(j)' = GateLoc(1),
           LastAtGate, NoneToCome
    PROVE  LastAtGate' /\ NoneToCome'
<1>1. \A i \in DOMAIN gate : i \in Nat \ {0}
  BY DEF TypeOK
<1>2. \A i \in DOMAIN gate' : i \in Nat \ {0}
  BY DEF TypeOK
<1>3. LastAtGate'
  <2>1. ASSUME NEW i \in DOMAIN gate', ToCome(i)',
               ~(\E k \in DOMAIN pending' : PendingLoc(k)' = GateLoc(i)'),
               \A j \in DOMAIN gate' : j > i /\ AtGate(j)' => GateLoc(j)' # GateLoc(i)'
        PROVE  gate'[i].frame.val = doc'[GateLoc(i)']
    <3>1. i + 1 \in DOMAIN gate /\ ToCome(i + 1) /\ gate'[i] = gate[i + 1]
      BY <1>2, <2>1 DEF MovedUpAtGate, ToCome, AtGate
    <3>2. GateLoc(i)' = GateLoc(i + 1)
      BY <3>1 DEF GateLoc
    <3>3. ~IsPending(GateLoc(i + 1))
      <4>1. IsPending(GateLoc(i + 1)) =>
               \E k \in DOMAIN pending' : PendingLoc(k)' = GateLoc(i + 1)
        <5>1. SUFFICES ASSUME NEW p, p = GateLoc(i + 1), IsPending(p)
                       PROVE  \E k \in DOMAIN pending' : PendingLoc(k)' = p
          OBVIOUS
        <5>2. QED
          BY <5>1 DEF IsPending
      <4>2. QED
        BY <2>1, <3>2, <4>1
    <3>4. ASSUME NEW j \in DOMAIN gate, j > i + 1, AtGate(j)
          PROVE  GateLoc(j) # GateLoc(i + 1)
      <4>1. j - 1 \in Nat \ {0} /\ j - 1 + 1 = j /\ j - 1 > i
        BY <1>1, <1>2, <3>4
      <4>2. AtGate(j - 1)' /\ gate'[j - 1] = gate[j]
        BY <3>4, <4>1 DEF MovedUpAtGate
      <4>3. GateLoc(j - 1)' = GateLoc(j) /\ j - 1 \in DOMAIN gate'
        BY <4>2 DEF GateLoc, AtGate
      <4>4. QED
        BY <2>1, <3>2, <4>1, <4>2, <4>3
    <3>5. gate[i + 1].frame.val = doc[GateLoc(i + 1)]
      BY <3>1, <3>3, <3>4 DEF LastAtGate
    <3>6. QED
      BY <3>1, <3>2, <3>5
  <2>2. QED
    BY <2>1 DEF LastAtGate, IsPending
<1>4. NoneToCome'
  <2>1. ASSUME NEW p \in Param, ~IsPending(p)',
               \A i \in DOMAIN gate' : ToCome(i)' => GateLoc(i)' # p
        PROVE  Own[p] = doc[p]
    <3>1. ASSUME NEW k \in DOMAIN gate, ToCome(k) PROVE GateLoc(k) # p
      <4>1. CASE k = 1
        BY <2>1, <3>1, <4>1 DEF IsPending
      <4>2. CASE k # 1
        <5>1. k - 1 \in Nat \ {0} /\ k - 1 + 1 = k
          BY <1>1, <4>2
        <5>2. AtGate(k - 1)' /\ ToCome(k - 1)' /\ gate'[k - 1] = gate[k]
          BY <3>1, <5>1 DEF MovedUpAtGate, ToCome
        <5>3. k - 1 \in DOMAIN gate' /\ GateLoc(k - 1)' = GateLoc(k)
          BY <5>2 DEF AtGate, GateLoc
        <5>4. QED
          BY <2>1, <5>2, <5>3
      <4>3. QED
        BY <4>1, <4>2
    <3>2. ~IsPending(p)
      BY <2>1
    <3>3. QED
      BY <2>1, <3>1, <3>2 DEF NoneToCome
  <2>2. QED
    BY <2>1 DEF NoneToCome
<1>5. QED
  BY <1>3, <1>4

(* A frame goes to the gate.                                               *)
LEMMA RunFlows ==
    ASSUME TypeOK, TypeOK', Run, Own' = Own, LastPending, LastAtGate, NoneToCome
    PROVE  LastPending' /\ LastAtGate' /\ NoneToCome'
<1>1. /\ pending # <<>> /\ pending' = Tail(pending) /\ UNCHANGED <<reply, doc>>
      /\ gate' = Append(gate, [by |-> "queue", frame |-> Head(pending)])
  BY DEF Run, TypeOK, QueueType, store
<1>2. PICK f \in Frame :
         /\ f = Head(pending)
         /\ Len(pending) \in Nat \ {0} /\ DOMAIN pending = 1..Len(pending)
         /\ f = pending[1]
         /\ DOMAIN pending' = 1..Len(pending) - 1
         /\ \A i \in DOMAIN pending' :
               i + 1 \in DOMAIN pending /\ pending'[i] = pending[i + 1]
  BY <1>1, PendingLoses
<1>3. [by |-> "queue", frame |-> f] \in Gated
  BY <1>2 DEF Gated
<1>4. PICK n \in Nat :
         /\ n = Len(gate) + 1 /\ DOMAIN gate = 1..Len(gate) /\ Len(gate) \in Nat
         /\ DOMAIN gate' = 1..Len(gate) + 1
         /\ \A i \in DOMAIN gate : i \in DOMAIN gate' /\ gate'[i] = gate[i]
         /\ gate'[n] = [by |-> "queue", frame |-> f]
         /\ \A i \in DOMAIN gate' : i \in DOMAIN gate \/ i = n
  <2>1. /\ Len(gate) \in Nat /\ DOMAIN gate = 1..Len(gate)
        /\ DOMAIN gate' = 1..Len(gate) + 1
        /\ \A i \in DOMAIN gate : i \in DOMAIN gate' /\ gate'[i] = gate[i]
        /\ gate'[Len(gate) + 1] = [by |-> "queue", frame |-> f]
        /\ \A i \in DOMAIN gate' : i \in DOMAIN gate \/ i = Len(gate) + 1
    BY <1>1, <1>2, <1>3, GateGains
  <2>2. QED
    BY <2>1
<1>5. n \in DOMAIN gate' /\ n \notin DOMAIN gate /\ \A i \in DOMAIN gate : i < n
  BY <1>4
<1>6. AtGate(n)' /\ ToCome(n)' /\ GateLoc(n)' = Loc(f.key) /\ gate'[n].frame = f
  <2>1. gate'[n].by = "queue" /\ gate'[n].frame = f
    BY <1>4
  <2>2. n = 1 => reply' # "ok"
    <3>1. n = 1 => gate = <<>>
      BY <1>4 DEF TypeOK
    <3>2. QED
      BY <1>1, <3>1 DEF TypeOK
  <2>3. QED
    BY <1>5, <2>1, <2>2 DEF AtGate, ToCome, GateLoc
<1>7. \A i \in DOMAIN gate :
         (AtGate(i)' <=> AtGate(i)) /\ (ToCome(i)' <=> ToCome(i)) /\ GateLoc(i)' = GateLoc(i)
  BY <1>1, <1>4 DEF AtGate, ToCome, GateLoc
<1>8. \A i \in DOMAIN pending' : PendingLoc(i)' = PendingLoc(i + 1)
  BY <1>2 DEF PendingLoc
<1>9. ASSUME NEW j \in DOMAIN pending, j # 1
      PROVE  /\ j - 1 \in DOMAIN pending' /\ j - 1 + 1 = j
             /\ PendingLoc(j - 1)' = PendingLoc(j)
  <2>1. j - 1 \in DOMAIN pending' /\ j - 1 + 1 = j
    BY <1>2, <1>9
  <2>2. QED
    BY <1>8, <2>1
<1>10. PendingLoc(1) = Loc(f.key) /\ 1 \in DOMAIN pending
  BY <1>2 DEF PendingLoc
<1>11. \A p : IsPending(p) => IsPending(p)' \/ p = Loc(f.key)
  BY <1>9, <1>10 DEF IsPending
<1>12. LastPending'
  <2>1. ASSUME NEW i \in DOMAIN pending',
               \A j \in DOMAIN pending' : j > i => PendingLoc(j)' # PendingLoc(i)'
        PROVE  pending'[i].val = doc[PendingLoc(i)']
    <3>1. i + 1 \in DOMAIN pending /\ pending'[i] = pending[i + 1] /\ i \in Nat \ {0}
      BY <1>2
    <3>2. ASSUME NEW j \in DOMAIN pending, j > i + 1 PROVE PendingLoc(j) # PendingLoc(i + 1)
      <4>1. j # 1 /\ j - 1 > i
        BY <1>2, <3>1, <3>2
      <4>2. QED
        BY <1>8, <1>9, <2>1, <4>1
    <3>3. pending[i + 1].val = doc[PendingLoc(i + 1)]
      BY <3>1, <3>2 DEF LastPending
    <3>4. QED
      BY <1>8, <3>1, <3>3
  <2>2. QED
    BY <1>1, <2>1 DEF LastPending
<1>13. LastAtGate'
  <2>1. ASSUME NEW i \in DOMAIN gate', ToCome(i)',
               ~(\E k \in DOMAIN pending' : PendingLoc(k)' = GateLoc(i)'),
               \A j \in DOMAIN gate' : j > i /\ AtGate(j)' => GateLoc(j)' # GateLoc(i)'
        PROVE  gate'[i].frame.val = doc[GateLoc(i)']
    <3>1. CASE i = n
      <4>1. \A j \in DOMAIN pending : j > 1 => PendingLoc(j) # PendingLoc(1)
        BY <1>2, <1>6, <1>9, <1>10, <2>1, <3>1
      <4>2. f.val = doc[Loc(f.key)]
        BY <1>2, <1>10, <4>1 DEF LastPending
      <4>3. QED
        BY <1>6, <3>1, <4>2
    <3>2. CASE i \in DOMAIN gate
      <4>1. GateLoc(i)' = GateLoc(i) /\ ToCome(i) /\ gate'[i] = gate[i]
        BY <1>4, <1>7, <2>1, <3>2
      <4>2. Loc(f.key) # GateLoc(i)
        BY <1>5, <1>6, <2>1, <3>2, <4>1
      <4>3. ~IsPending(GateLoc(i))
        <5>1. ASSUME NEW k \in DOMAIN pending, PendingLoc(k) = GateLoc(i) PROVE FALSE
          <6>1. k # 1
            BY <1>10, <4>2, <5>1
          <6>2. QED
            BY <1>9, <2>1, <4>1, <5>1, <6>1
        <5>2. QED
          BY <5>1 DEF IsPending
      <4>4. ASSUME NEW j \in DOMAIN gate, j > i, AtGate(j) PROVE GateLoc(j) # GateLoc(i)
        <5>1. j \in DOMAIN gate' /\ AtGate(j)' /\ GateLoc(j)' = GateLoc(j)
          BY <1>4, <1>7, <4>4
        <5>2. QED
          BY <2>1, <4>1, <4>4, <5>1
      <4>5. gate[i].frame.val = doc[GateLoc(i)]
        BY <3>2, <4>1, <4>3, <4>4 DEF LastAtGate
      <4>6. QED
        BY <4>1, <4>5
    <3>3. QED
      BY <1>4, <3>1, <3>2
  <2>2. QED
    BY <1>1, <2>1 DEF LastAtGate, IsPending
<1>14. NoneToCome'
  <2>1. ASSUME NEW p \in Param, ~IsPending(p)',
               \A i \in DOMAIN gate' : ToCome(i)' => GateLoc(i)' # p
        PROVE  Own[p] = doc[p]
    <3>1. p # Loc(f.key)
      BY <1>5, <1>6, <2>1
    <3>2. ~IsPending(p)
      BY <1>11, <2>1, <3>1
    <3>3. \A i \in DOMAIN gate : ToCome(i) => GateLoc(i) # p
      BY <1>4, <1>7, <2>1
    <3>4. QED
      BY <3>2, <3>3 DEF NoneToCome
  <2>2. QED
    BY <1>1, <2>1 DEF NoneToCome
<1>15. QED
  BY <1>12, <1>13, <1>14

(* A frame arrives at the instrument.                                      *)
LEMMA ArrivesFlows ==
    ASSUME TypeOK, Auditions, Deliver, Arrives, LastPending, LastAtGate, NoneToCome
    PROVE  LastPending' /\ LastAtGate' /\ NoneToCome'
<1>1. UNCHANGED <<gate, pending, doc>> /\ reply = "none" /\ reply' = "ok"
  BY DEF Deliver, Arrives, store, queue
<1>2. /\ GateLoc(1) \in Param
      /\ \A p \in Param : Own'[p] = IF p = GateLoc(1) THEN gate[1].frame.val ELSE Own[p]
  BY ArrivesOwn
<1>3. 1 \in DOMAIN gate /\ AtGate(1) /\ ToCome(1)
  BY <1>1 DEF Arrives, AtGate, ToCome
<1>4. \A i \in DOMAIN gate : /\ AtGate(i)' <=> AtGate(i)
                             /\ ToCome(i)' <=> AtGate(i) /\ i # 1
                             /\ ToCome(i) <=> AtGate(i)
                             /\ GateLoc(i)' = GateLoc(i)
  BY <1>1 DEF AtGate, ToCome, GateLoc
<1>5. \A p : IsPending(p)' <=> IsPending(p)
  BY <1>1 DEF IsPending, PendingLoc
<1>6. LastPending'
  BY <1>1 DEF LastPending, PendingLoc
<1>7. LastAtGate'
  <2>1. \A i \in DOMAIN gate :
           IsPending(GateLoc(i))' <=> IsPending(GateLoc(i))
    BY <1>1 DEF IsPending, PendingLoc, GateLoc
  <2>2. QED
    BY <1>1, <1>4, <2>1 DEF LastAtGate
<1>8. NoneToCome'
  <2>1. ASSUME NEW p \in Param, ~IsPending(p),
               \A i \in DOMAIN gate : AtGate(i) /\ i # 1 => GateLoc(i) # p
        PROVE  Own'[p] = doc[p]
    <3>1. CASE p = GateLoc(1)
      <4>1. \A j \in DOMAIN gate : j > 1 /\ AtGate(j) => GateLoc(j) # GateLoc(1)
        BY <2>1, <3>1
      <4>2. gate[1].frame.val = doc[GateLoc(1)]
        BY <1>3, <2>1, <3>1, <4>1 DEF LastAtGate
      <4>3. QED
        BY <1>2, <3>1, <4>2
    <3>2. CASE p # GateLoc(1)
      <4>1. \A i \in DOMAIN gate : ToCome(i) => GateLoc(i) # p
        BY <1>4, <2>1, <3>2
      <4>2. QED
        BY <1>2, <2>1, <3>2, <4>1 DEF NoneToCome
    <3>3. QED
      BY <3>1, <3>2
  <2>2. QED
    BY <1>1, <1>4, <1>5, <2>1 DEF NoneToCome
<1>9. QED
  BY <1>6, <1>7, <1>8

(* The queue learns how its frame fared.  One that failed and is sent      *)
(* again shows what the screen does, or was overtaken.                     *)
LEMMA SettleFlows ==
    ASSUME TypeOK, TypeOK', Settle, Own' = Own, spoiled' = {}, lost' = lost,
           LastPending, LastAtGate, NoneToCome
    PROVE  LastPending' /\ LastAtGate' /\ NoneToCome'
<1>1. PICK f \in Frame :
         /\ f = Head(gate).frame /\ 1 \in DOMAIN gate /\ gate[1].frame = f
         /\ GateLoc(1) = Loc(f.key)
  <2>1. 1 \in DOMAIN gate /\ gate[1] = Head(gate)
    BY TailFacts DEF Settle, TypeOK
  <2>2. Head(gate).frame \in Frame
    BY GateType DEF Settle
  <2>3. QED
    BY <2>1, <2>2 DEF GateLoc
<1>2. MovedUpAtGate /\ UNCHANGED doc
  BY GateMovesUp DEF Settle
<1>3. CASE reply = "ok"
  <2>1. UNCHANGED pending /\ ~ToCome(1)
    BY <1>3 DEF Settle, SettleOk, ToCome
  <2>2. LastPending'
    BY <1>2, <2>1 DEF LastPending, PendingLoc
  <2>3. \A p : IsPending(p) => IsPending(p)'
    BY <2>1 DEF IsPending, PendingLoc
  <2>4. QED
    BY <1>2, <2>1, <2>2, <2>3, MovedUpFlows
<1>4. CASE reply = "failed" /\ Waiting(pending, f.key)
  <2>1. UNCHANGED pending
    BY <1>1, <1>4 DEF Settle, SettleFailed
  <2>2. \E j \in DOMAIN pending' : PendingLoc(j)' = GateLoc(1)
    BY <1>1, <1>4, <2>1 DEF Waiting, PendingLoc
  <2>3. LastPending'
    BY <1>2, <2>1 DEF LastPending, PendingLoc
  <2>4. \A p : IsPending(p) => IsPending(p)'
    BY <2>1 DEF IsPending, PendingLoc
  <2>5. QED
    BY <1>2, <2>2, <2>3, <2>4, MovedUpFlows
<1>5. CASE reply = "failed" /\ ~Waiting(pending, f.key)
  <2>1. /\ pending' = Append(pending, f)
        /\ spoiled' = IF pending' # pending /\ f.val # doc[Loc(f.key)]
                      THEN spoiled \cup {"overtaken"} ELSE spoiled
    <3>1. lost \in Nat
      BY DEF TypeOK, QueueType
    <3>2. lost' # lost + 1
      BY <3>1
    <3>3. QED
      BY <1>1, <1>5, <3>2 DEF Settle, SettleFailed
  <2>2. PICK n \in Nat :
           /\ DOMAIN pending' = 1..n /\ pending'[n] = f /\ n \in DOMAIN pending'
           /\ n \notin DOMAIN pending
           /\ \A i \in DOMAIN pending :
                 i \in DOMAIN pending' /\ i < n /\ pending'[i] = pending[i]
           /\ \A i \in DOMAIN pending' : i \in DOMAIN pending \/ i = n
    <3>1. /\ Len(pending) \in Nat /\ DOMAIN pending = 1..Len(pending)
          /\ DOMAIN pending' = 1..Len(pending) + 1
          /\ \A i \in DOMAIN pending : i \in DOMAIN pending' /\ pending'[i] = pending[i]
          /\ pending'[Len(pending) + 1] = f
          /\ \A i \in DOMAIN pending' : i \in DOMAIN pending \/ i = Len(pending) + 1
      BY <2>1, PendingGains
    <3>2. QED
      BY <3>1
  <2>3. f.val = doc[Loc(f.key)]
    <3>1. pending' # pending
      BY <2>2
    <3>2. QED
      BY <2>1, <3>1
  <2>4. /\ PendingLoc(n)' = Loc(f.key)
        /\ \A i \in DOMAIN pending : PendingLoc(i)' = PendingLoc(i)
    BY <2>2 DEF PendingLoc
  <2>5. LastPending'
    <3>1. ASSUME NEW i \in DOMAIN pending',
                 \A j \in DOMAIN pending' : j > i => PendingLoc(j)' # PendingLoc(i)'
          PROVE  pending'[i].val = doc[PendingLoc(i)']
      <4>1. CASE i = n
        BY <2>2, <2>3, <2>4, <4>1
      <4>2. CASE i \in DOMAIN pending
        <5>1. \A j \in DOMAIN pending : j > i => PendingLoc(j) # PendingLoc(i)
          BY <2>2, <2>4, <3>1, <4>2
        <5>2. QED
          BY <2>2, <2>4, <4>2, <5>1 DEF LastPending
      <4>3. QED
        BY <2>2, <4>1, <4>2
    <3>2. QED
      BY <1>2, <3>1 DEF LastPending
  <2>6. \A p : IsPending(p) => IsPending(p)'
    BY <2>2, <2>4 DEF IsPending
  <2>7. \E j \in DOMAIN pending' : PendingLoc(j)' = GateLoc(1)
    BY <1>1, <2>2, <2>4
  <2>8. QED
    BY <1>2, <2>5, <2>6, <2>7, MovedUpFlows
<1>6. QED
  BY <1>3, <1>4, <1>5 DEF Settle

(* With the queue idle, what flows is nothing; the instrument's own sound  *)
(* must be the one on the screen.                                          *)
LEMMA IdleFlows ==
    ASSUME pending' = <<>>, AllAsShown', \A p \in Param : Own'[p] = doc'[p]
    PROVE  LastPending' /\ LastAtGate' /\ NoneToCome'
  BY DEF AllAsShown, LastPending, LastAtGate, NoneToCome

LEMMA FlowsStep ==
    /\ TypeOK /\ TypeOK' /\ Auditions /\ PutsBack /\ ReadFits
    /\ ClosedExpectsNothing /\ Ordered /\ Flows
    /\ [Next]_vars
    => Flows'
<1> SUFFICES ASSUME TypeOK, TypeOK', Auditions, PutsBack, ReadFits,
                    ClosedExpectsNothing, Ordered, Flows, [Next]_vars,
                    Based', Calm'
             PROVE  LastPending' /\ LastAtGate' /\ NoneToCome'
  BY DEF Flows
<1> USE DEF store, bar, audition, panel
<1>1. spoiled' = {} /\ link' = "up"
  BY DEF Calm
<1>2. ASSUME NEW d \in Sound, SendPatch(d), doc' = d
      PROVE  LastPending' /\ LastAtGate' /\ NoneToCome'
  BY <1>2, WholeFlows
<1>3. CASE Send \/ LiveOn
  <2>1. doc \in Sound
    BY DEF TypeOK
  <2>2. QED
    BY <1>1, <1>2, <1>3, <2>1 DEF Send, LiveOn, TypeOK
<1>4. CASE marks' = {}
  BY <1>4 DEF Based
<1>5. CASE \E d \in Sound : Edit(d)
  <2>1. PICK d \in Sound : Edit(d)
    BY <1>5
  <2>2. CASE live = "off" \/ link = "down"
    <3>1. /\ marks' = marks \ {"baseSent"}
          /\ "fullPending" \notin marks
      BY <1>1, <2>1, <2>2 DEF Edit
    <3>2. QED
      BY <3>1 DEF Based
  <2>3. CASE SendPatch(d)
    BY <1>2, <2>1, <2>3 DEF Edit
  <2>4. CASE /\ Push(Changed(d), d) /\ "baseSent" \in marks
             /\ UNCHANGED spoiled
    <3>1. /\ doc' = d /\ Own' = Own
          /\ UNCHANGED <<gate, reply, link, poll, heard>>
      BY <2>1 DEF Edit, Own
    <3>2. Calm /\ Based
      BY <2>4, <3>1 DEF Calm, Unnoticed, Based
    <3>3. LastPending /\ LastAtGate /\ NoneToCome
      BY <3>2 DEF Flows
    <3>4. QED
      BY <2>4, <3>1, <3>3, SingleFlows
  <2>5. QED
    BY <2>1, <2>2, <2>3, <2>4 DEF Edit, Enough, TypeOK
<1>6. CASE FetchDone /\ NotMoved
  <2>1. /\ reading = "fetch" /\ moved = "no" /\ answer # NoSound
        /\ doc' = answer /\ pending' = <<>> /\ UNCHANGED <<gate, reply, link, temp>>
        /\ spoiled = {} /\ Own' = Own
    BY <1>1, <1>6 DEF FetchDone, NotMoved, Clear, Claimed, Own
  <2>2. Calm
    BY <1>6, <2>1 DEF FetchDone, Calm, Unnoticed
  <2>3. ~InFlight /\ Own = answer
    BY <2>1, <2>2 DEF ReadFits
  <2>4. AllAsShown'
    BY <2>1, <2>3 DEF AllAsShown, InFlight, ToCome, AtGate
  <2>5. QED
    BY <2>1, <2>3, <2>4, IdleFlows
<1>7. CASE /\ VerifyDone /\ UNCHANGED spoiled
           /\ NotMoved /\ answer = doc /\ pending = <<>>
  <2>1. /\ reading = "verify" /\ moved = "no" /\ answer # NoSound
        /\ UNCHANGED <<doc, pending, gate, reply, link, temp>>
        /\ spoiled = {} /\ Own' = Own
    BY <1>1, <1>7 DEF VerifyDone, NotMoved, Own, queue
  <2>2. Calm
    BY <1>7, <2>1 DEF VerifyDone, Calm, Unnoticed
  <2>3. AllAsShown /\ \A p \in Param : Own[p] = doc[p]
    BY <1>7, <2>1, <2>2 DEF ReadFits
  <2>4. AllAsShown'
    BY <2>1, <2>3 DEF AllAsShown, ToCome, AtGate, GateLoc, PendingLoc
  <2>5. QED
    BY <1>7, <2>1, <2>3, <2>4, IdleFlows
<1>8. CASE PollDone
  <2>1. link = "up" /\ MarkStale
    BY <1>1, <1>8 DEF PollDone
  <2>2. QED
    BY <2>1 DEF MarkStale, MarksWhenStale, Based
<1>9. ASSUME spoiled = {}, link = "up", Based, ~PollDone
      PROVE  /\ LastPending /\ LastAtGate /\ NoneToCome
             /\ \/ Own' = Own
                \/ Deliver /\ Arrives
                \/ AuditionSettle /\ MarkStale
  <2>1. Calm
    BY <1>9, CalmBefore DEF Connect
  <2>2. QED
    BY <1>9, <2>1, OwnStays DEF Flows
<1>10. CASE Run
  <2>1. UNCHANGED <<spoiled, link, marks, lost>> /\ ~PollDone
    BY <1>10 DEF Run, PollDone
  <2>2. Own' = Own
    BY <1>10 DEF Run, Own
  <2>3. LastPending /\ LastAtGate /\ NoneToCome
    BY <1>1, <1>9, <2>1 DEF Based
  <2>4. QED
    BY <1>10, <2>2, <2>3, RunFlows
<1>11. CASE Settle
  <2>1. spoiled = {} /\ link = "up" /\ Own' = Own /\ ~PollDone
    BY <1>1, <1>11 DEF Settle, SettleOk, SettleFailed, Own, PollDone
  <2>2. lost' = lost /\ Based
    <3>1. lost \in Nat
      BY DEF TypeOK, QueueType
    <3>2. CASE SettleOk(Head(gate).frame)
      <4>1. lost' = lost /\ marks' = Known(marks)
        BY <1>11, <3>2 DEF Settle, SettleOk
      <4>2. CASE Drained(marks) /\ ~Failed'
        <5>1. lost = 0
          BY <3>1, <4>1, <4>2 DEF Failed
        <5>2. QED
          BY <4>1, <4>2, <5>1 DEF Known, Based
      <4>3. CASE ~Drained(marks) \/ Failed'
        BY <4>1, <4>3 DEF Known, Based, Drained
      <4>4. QED
        BY <4>1, <4>2, <4>3
    <3>3. CASE SettleFailed(Head(gate).frame)
      <4>1. "baseSent" \notin marks'
        BY <1>11, <3>3 DEF Settle, SettleFailed, Known, Failed
      <4>2. "fullPending" \in marks' /\ lost' = 0
        BY <4>1 DEF Based
      <4>3. lost' = lost
        BY <3>1, <3>3, <4>2 DEF SettleFailed
      <4>4. "fullPending" \in marks
        BY <1>11, <3>3, <4>2 DEF Settle, SettleFailed, Known, Failed
      <4>5. QED
        BY <4>2, <4>3, <4>4 DEF Based
    <3>4. QED
      BY <1>11, <3>2, <3>3 DEF Settle
  <2>3. LastPending /\ LastAtGate /\ NoneToCome
    BY <1>9, <2>1, <2>2
  <2>4. QED
    BY <1>1, <1>11, <2>1, <2>2, <2>3, SettleFlows
<1>12. CASE /\ UNCHANGED <<pending, doc, lost>> /\ marks' \subseteq marks
            /\ spoiled = {} /\ link = "up" /\ ~PollDone /\ ~Run /\ ~Settle
  <2>1. LastPending /\ LastAtGate /\ NoneToCome
    BY <1>9, <1>12 DEF Based
  <2>2. CASE Deliver
    <3>1. CASE Arrives
      BY <2>1, <2>2, <3>1, ArrivesFlows
    <3>2. CASE ~Arrives
      <4>1. Own' = Own
        BY <1>9, <1>12, <2>2, <3>2 DEF Based, Deliver, AuditionSettle
      <4>2. SameAtGate
        <5>1. 1 \in DOMAIN gate /\ gate[1] = Head(gate)
          BY <2>2, TailFacts DEF Deliver, TypeOK
        <5>2. UNCHANGED gate /\ reply = "none"
          BY <2>2 DEF Deliver
        <5>3. reply' = "ok" => ~AtGate(1)
          <6>1. SUFFICES ASSUME reply' = "ok", AtGate(1) PROVE FALSE
            OBVIOUS
          <6>2. ~Sounding
            BY <1>1, <2>2, <5>1, <6>1 DEF Deliver, AtGate, Crossing
          <6>3. temp' = [temp EXCEPT ![GateLoc(1)] = gate[1].frame.val]
            BY <2>2, <5>1, <6>1 DEF Deliver, GateLoc
          <6>4. QED
            BY <3>2, <5>2, <6>1, <6>2, <6>3 DEF Arrives
        <5>4. QED
          BY <5>2, <5>3 DEF SameAtGate, AtGate, ToCome
      <4>3. QED
        BY <1>12, <2>1, <4>1, <4>2, SameFlows
    <3>3. QED
      BY <3>1, <3>2
  <2>3. CASE AuditionSettle
    <3>1. ~MarkStale
      BY <1>12 DEF MarkStale, MarksWhenStale, Based
    <3>2. Own' = Own
      BY <1>9, <1>12, <2>3, <3>1 DEF Based, Deliver, AuditionSettle
    <3>3. ~ToCome(1)
      <4>1. gate[1] = Head(gate)
        BY <2>3, TailFacts DEF AuditionSettle, TypeOK
      <4>2. QED
        BY <2>3, <4>1 DEF AuditionSettle, ToCome, AtGate
    <3>4. LastPending' /\ \A p : IsPending(p) => IsPending(p)'
      BY <1>12, <2>1 DEF LastPending, IsPending, PendingLoc
    <3>5. QED
      BY <1>12, <2>1, <2>3, <3>2, <3>3, <3>4, GateMovesUp, MovedUpFlows
  <2>4. CASE SameAtGate /\ ~Deliver /\ ~AuditionSettle
    <3>1. Own' = Own
      BY <1>9, <1>12, <2>4 DEF Based
    <3>2. QED
      BY <1>12, <2>1, <2>4, <3>1, SameFlows
  <2>5. QED
    BY <1>12, <2>2, <2>3, <2>4, GateOf
<1> DEFINE Else == ~PollDone /\ ~Run /\ ~Settle
<1>13. CASE FetchDone /\ ~NotMoved /\ Else
  BY <1>1, <1>12, <1>13 DEF FetchDone, queue
<1>14. CASE VerifyDone /\ Else
  <2>1. CASE UNCHANGED spoiled /\ marks' \subseteq marks
    BY <1>1, <1>12, <1>14, <2>1 DEF VerifyDone, queue
  <2>2. CASE /\ NotMoved /\ pending = <<>> /\ answer = doc
             /\ sync' = "tempVerified" /\ spoiled' = Claimed
    <3>1. UNCHANGED spoiled
      BY <1>1, <2>2 DEF Claimed
    <3>2. QED
      BY <1>7, <1>14, <2>2, <3>1
  <2>3. QED
    BY <1>14, <2>1, <2>2 DEF VerifyDone
<1>15. CASE Deliver /\ Else
  BY <1>1, <1>12, <1>15 DEF Deliver, Crossing, queue
<1>16. CASE ReadTemp /\ Else
  BY <1>1, <1>12, <1>16 DEF ReadTemp, Crossing, queue
<1>17. CASE PutBack /\ Else
  BY <1>1, <1>12, <1>17 DEF PutBack, MarkStale, queue
<1>18. CASE AuditionSettle /\ Else
  BY <1>1, <1>12, <1>18 DEF AuditionSettle, MarkStale, MarksWhenStale, queue
<1>19. CASE UNCHANGED <<pending, doc, lost, marks, spoiled, link>> /\ Else
  BY <1>1, <1>12, <1>19
<1>20. CASE \E s \in Sounds : PanelSelect(s)
  BY <1>20 DEF PanelSelect, Calm, Unnoticed
<1>21. QED
  BY <1>1, <1>3, <1>4, <1>5, <1>6, <1>8, <1>10, <1>11, <1>13, <1>14, <1>15, <1>16,
     <1>17, <1>18, <1>19, <1>20
     DEF Next, User, Machine, vars, queue, Open, LiveOff, Disconnect, Connect,
         StartRead, PollAsk, PollHear, Audition, AuditionRead

-----------------------------------------------------------------------------
(* Claims.                                                                 *)

LEMMA OwnIsASound ==
    ASSUME TypeOK, Auditions, \A p \in Param : Own[p] = doc[p]
    PROVE  Own = doc
<1>1. Own \in Sound /\ doc \in Sound
  BY DEF TypeOK, Auditions, Own
<1>2. QED
  BY <1>1 DEF Sound

LEMMA ClaimHoldsStep ==
    /\ TypeOK /\ TypeOK' /\ Auditions /\ Auditions' /\ PutsBack /\ ReadFits
    /\ ClosedExpectsNothing /\ Flows /\ ClaimHolds
    /\ [Next]_vars
    => ClaimHolds'
<1> SUFFICES ASSUME TypeOK, TypeOK', Auditions, Auditions', PutsBack, ReadFits,
                    ClosedExpectsNothing, Flows, ClaimHolds, [Next]_vars,
                    sync' \in {"sent", "tempVerified"}, spoiled' = {}
             PROVE  /\ link' = "up"
                    /\ ~Unnoticed' => Own' = doc' /\ AllAsShown'
  BY DEF ClaimHolds
<1> USE DEF store, bar, audition, panel
<1>1. spoiled = {}
  BY SpoiledStays
<1>2. CASE FetchDone /\ NotMoved
  <2>1. /\ reading = "fetch" /\ moved = "no" /\ answer # NoSound
        /\ doc' = answer /\ pending' = <<>> /\ UNCHANGED <<gate, reply, link, temp>>
        /\ Own' = Own /\ UNCHANGED <<poll, heard>> /\ link' = "up"
    BY <1>1, <1>2 DEF FetchDone, NotMoved, Clear, Claimed, Own, TypeOK
  <2>2. ~InFlight /\ (~Unnoticed' => Own = answer)
    BY <1>1, <2>1 DEF ReadFits, Calm, Unnoticed
  <2>3. AllAsShown'
    BY <2>1, <2>2 DEF AllAsShown, InFlight, ToCome, AtGate
  <2>4. QED
    BY <2>1, <2>2, <2>3
<1>3. CASE /\ VerifyDone /\ spoiled' = Claimed
           /\ NotMoved /\ answer = doc /\ pending = <<>>
  <2>1. /\ reading = "verify" /\ moved = "no" /\ answer # NoSound
        /\ UNCHANGED <<doc, pending, gate, reply, link, temp>>
        /\ Own' = Own /\ UNCHANGED <<poll, heard>> /\ link' = "up"
    BY <1>1, <1>3 DEF VerifyDone, NotMoved, Own, queue, Claimed, TypeOK
  <2>2. AllAsShown
    BY <1>1, <2>1 DEF ReadFits
  <2>3. AllAsShown'
    BY <2>1, <2>2 DEF AllAsShown, ToCome, AtGate, GateLoc, PendingLoc
  <2>4. ASSUME ~Unnoticed' PROVE Own = doc
    <3>1. \A p \in Param : Own[p] = doc[p]
      BY <1>1, <1>3, <2>1, <2>4 DEF ReadFits, Calm, Unnoticed
    <3>2. QED
      BY <3>1, OwnIsASound
  <2>5. QED
    BY <2>1, <2>3, <2>4
<1>4. CASE Settle /\ sync' # sync
  <2>1. /\ Drained(marks) /\ "baseSent" \in Known(marks)
        /\ UNCHANGED <<doc, link, poll, heard>> /\ Own' = Own /\ reply # "none"
    BY <1>4 DEF Settle, Shown, Own
  <2>2. /\ link = "up" /\ pending' = <<>> /\ ~InFlight' /\ ~Failed'
    BY <2>1 DEF Drained, ClosedExpectsNothing, TypeOK
  <2>3. SettleOk(Head(gate).frame) /\ reply = "ok" /\ pending = <<>> /\ lost' = lost
    BY <1>4, <2>2 DEF Settle, SettleOk, SettleFailed, Failed
  <2>4. Based
    <3>1. lost = 0
      BY <2>2, <2>3 DEF Failed, TypeOK, QueueType
    <3>2. QED
      BY <2>1, <2>2, <3>1 DEF Known, Based
  <2>5. AllAsShown'
    BY <2>2 DEF AllAsShown, InFlight, ToCome, AtGate
  <2>6. ASSUME ~Unnoticed' PROVE Own = doc
    <3>1. NoneToCome
      BY <1>1, <2>1, <2>2, <2>4, <2>6 DEF Flows, Calm, Unnoticed
    <3>2. ASSUME NEW i \in DOMAIN gate, ToCome(i) PROVE FALSE
      <4>1. i \in Nat \ {0} /\ i # 1
        BY <2>3, <3>2 DEF ToCome, TypeOK
      <4>2. i - 1 \in Nat \ {0} /\ i - 1 + 1 = i
        BY <4>1
      <4>3. AtGate(i - 1)'
        BY <1>4, <3>2, <4>2, GateMovesUp DEF MovedUpAtGate, ToCome
      <4>4. QED
        BY <2>2, <4>3 DEF InFlight, AtGate
    <3>3. \A p \in Param : Own[p] = doc[p]
      BY <2>3, <3>1, <3>2 DEF NoneToCome, IsPending
    <3>4. QED
      BY <3>3, OwnIsASound
  <2>7. QED
    BY <2>1, <2>2, <2>5, <2>6
<1>5. CASE Connect
  <2>1. link = "down" /\ "liveDirty" \notin marks
    BY <1>5 DEF Connect, ClosedExpectsNothing
  <2>2. sync' = sync
    BY <1>5, <2>1 DEF Connect, Shown, Drained
  <2>3. QED
    BY <1>1, <2>1, <2>2 DEF ClaimHolds
<1>6. CASE sync' = sync /\ UNCHANGED doc /\ link' = link /\ ~Connect
  <2>1. link = "up" /\ (~Unnoticed => Own = doc /\ AllAsShown)
    BY <1>1, <1>6 DEF ClaimHolds
  <2>2. ASSUME ~Unnoticed' PROVE Own' = doc' /\ AllAsShown'
    <3>1. Calm'
      BY <1>6, <2>1, <2>2 DEF Calm
    <3>2. ~(MarkStale /\ link = "up")
      BY <1>6 DEF MarkStale
    <3>3. Own = doc /\ AllAsShown
      BY <1>1, <1>6, <2>1, <3>1, <3>2, CalmBefore DEF Calm
    <3>4. AllAsShown'
      BY <1>6, <3>3, AsShownStays
    <3>5. CASE Own' = Own
      BY <1>6, <3>3, <3>4, <3>5
    <3>6. CASE Deliver /\ Arrives
      <4>1. /\ GateLoc(1) \in Param
            /\ \A p \in Param : Own'[p] = IF p = GateLoc(1) THEN gate[1].frame.val
                                          ELSE Own[p]
        BY <3>6, ArrivesOwn
      <4>2. gate[1].frame.val = doc[GateLoc(1)]
        BY <3>3, <3>6 DEF AllAsShown, Arrives, ToCome, AtGate
      <4>3. \A p \in Param : Own'[p] = doc'[p]
        BY <1>6, <3>3, <4>1, <4>2
      <4>4. Own' \in Sound /\ doc' \in Sound
        BY DEF TypeOK, Auditions, Own
      <4>5. QED
        BY <3>4, <4>3, <4>4 DEF Sound
    <3>7. QED
      BY <1>1, <2>1, <3>1, <3>2, <3>5, <3>6, OwnStays
  <2>3. QED
    BY <1>6, <2>1, <2>2
<1>7. CASE Disconnect
  BY <1>7 DEF Disconnect, WhenClosed
<1>8. CASE (\E d \in Sound : Edit(d)) \/ \E s \in Sounds : Open(s)
  BY <1>8 DEF Edit, Open
<1>9. CASE (Send \/ LiveOn) /\ ~Connect
  BY <1>6, <1>9 DEF Send, LiveOn
<1>10. CASE LiveOff /\ ~Connect
  BY <1>6, <1>10 DEF LiveOff
<1>11. CASE FetchDone /\ ~NotMoved /\ ~Connect
  BY <1>6, <1>11 DEF FetchDone
<1>12. CASE VerifyDone /\ ~Connect
  <2>1. CASE UNCHANGED sync
    BY <1>6, <1>12, <2>1 DEF VerifyDone
  <2>2. CASE sync' # sync
    BY <1>3, <1>12, <2>2 DEF VerifyDone
  <2>3. QED
    BY <2>1, <2>2
<1>13. CASE Settle /\ sync' = sync /\ ~Connect
  BY <1>6, <1>13 DEF Settle
<1>14. CASE (PollDone \/ PutBack \/ AuditionSettle) /\ ~Connect
  <2>1. sync' = sync
    BY <1>14 DEF PollDone, PutBack, AuditionSettle, MarkStale
  <2>2. QED
    BY <1>6, <1>14, <2>1 DEF PollDone, PutBack, AuditionSettle
<1>15. CASE (ReadTemp \/ Deliver \/ Run \/ AuditionRead) /\ ~Connect
  BY <1>6, <1>15 DEF ReadTemp, Deliver, Run, AuditionRead
<1>16. CASE (\E s \in Sounds : PanelSelect(s)) /\ ~Connect
  BY <1>6, <1>16 DEF PanelSelect
<1>17. CASE UNCHANGED <<sync, doc, link>> /\ ~Connect
  BY <1>6, <1>17
<1>18. QED
  BY <1>2, <1>4, <1>5, <1>7, <1>8, <1>9, <1>10, <1>11, <1>12, <1>13, <1>14, <1>15,
     <1>16, <1>17
     DEF Next, User, Machine, vars, StartRead, PollAsk, PollHear, Audition

-----------------------------------------------------------------------------
(* The theorems.                                                           *)

(* IInv is an inductive invariant of live editing.                         *)
THEOREM Inductive == Spec => []IInv
<1>1. Init => IInv
  <2> SUFFICES ASSUME Init PROVE IInv
    OBVIOUS
  <2>1. TypeOK
    BY TypeInit
  <2>2. gate = <<>> /\ pending = <<>>
    BY DEF Init
  <2>3. Auditions /\ ClosedExpectsNothing /\ Ordered /\ PutsBack
    BY <2>2 DEF Init, Auditions, ClosedExpectsNothing, Ordered, PutsBack
  <2>4. ReadFits /\ ClaimHolds /\ Flows
    BY DEF Init, ReadFits, ClaimHolds, Flows, Based
  <2>5. QED
    BY <2>1, <2>3, <2>4 DEF IInv
<1>2. IInv /\ [Next]_vars => IInv'
  <2> SUFFICES ASSUME IInv, [Next]_vars PROVE IInv'
    OBVIOUS
  <2>1. TypeOK'
    BY TypeStep DEF IInv
  <2>2. Auditions'
    BY <2>1, AuditionsStep DEF IInv
  <2>3. ClosedExpectsNothing' /\ Ordered' /\ PutsBack'
    BY <2>1, ClosedStep, OrderedStep, PutsBackStep DEF IInv
  <2>4. ReadFits' /\ ClaimHolds' /\ Flows'
    BY <2>1, <2>2, ReadFitsStep, ClaimHoldsStep, FlowsStep DEF IInv
  <2>5. QED
    BY <2>1, <2>2, <2>3, <2>4 DEF IInv
<1>3. QED
  BY <1>1, <1>2, PTL DEF Spec

(* Every variable of live editing keeps to its type; no two waiting frames *)
(* have one key, and the timer runs when a frame waits (LiveQueue).        *)
THEOREM TypeCorrect == Spec => []TypeOK
<1>1. IInv => TypeOK
  BY DEF IInv
<1>2. QED
  BY <1>1, Inductive, PTL

(* SENT and TEMP VERIFIED mean what they say (onstats,                     *)
(* openFromInstrument, verifyAgainst).                                     *)
THEOREM ClaimsHold == Spec => []ClaimIsTrue
<1>1. IInv => ClaimIsTrue
  BY DEF IInv, ClaimHolds, ClaimIsTrue, Own, Sounding
<1>2. QED
  BY <1>1, Inductive, PTL

(* With baseSent, the instrument holds the screen's sound but for what is  *)
(* on its way (afterEdit): one parameter alone never leaves a mixture.     *)
THEOREM NeverAMixture == Spec => []NoMixture
<1>1. IInv => NoMixture
  <2> SUFFICES ASSUME IInv, "baseSent" \in marks, link = "up", ~Unnoticed, ~Sounding,
                      spoiled = {}, NEW p \in Param, temp[p] # doc[p], p \notin OnTheWay
               PROVE  FALSE
    BY DEF NoMixture
  <2>1. NoneToCome /\ Own = temp
    BY DEF IInv, Flows, Based, Calm, Own, Sounding
  <2>2. ~IsPending(p) /\ \A i \in DOMAIN gate : GateLoc(i) # p
    BY DEF OnTheWay, IsPending, PendingLoc, GateLoc
  <2>3. QED
    BY <2>1, <2>2 DEF NoneToCome, ToCome
<1>2. QED
  BY <1>1, Inductive, PTL

=============================================================================
