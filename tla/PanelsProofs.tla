---------------------------- MODULE PanelsProofs ----------------------------
(***************************************************************************)
(* Proofs about Panels, for any slots, sounds and jobs and any number of   *)
(* commands under way: the types, NotLeftArmed and WritesWhatWasSaid.      *)
(*                                                                         *)
(* Both rest on one fact about the window: as long as no phase was         *)
(* overwritten, a panel has one arming, commit or undo under way at most,  *)
(* and its phase says which (OneAtATime).  So an answer is an answer to    *)
(* the latest click, and what the panel shows, what the connection holds   *)
(* and what a commit carries stay three views of one arming.               *)
(***************************************************************************)
EXTENDS Panels, TLAPS

Areas  == Slots \cup {SystemArea}
Images == UNION {[A -> Sound] : A \in SUBSET Areas}
Phases == {"idle", "arming", "armed", "writing", "reading", "done", "failed"}
Ops    == {"arm", "disarm", "commit", "restore", "read"}
Thens  == {"nothing", "fail", "read"}

CallSet ==
    [n : 1..MaxCalls, kind : Kinds, op : Ops, job : Images, said : Images,
     then : Thens, at : {"sent", "admitted", "answered"},
     result : {"none", "ok", "error"}, was : Images]

WindowType ==
    /\ phase \in [Kinds -> Phases]
    /\ frozen \in [Kinds -> Images]
    /\ shown \in [Kinds -> Images]
    /\ offered \in [Kinds -> Images]
    /\ closing \subseteq Kinds /\ late \subseteq Kinds

CallsType == \A c \in calls : c \in CallSet

BackendType ==
    /\ DOMAIN held \subseteq Kinds /\ held \in [DOMAIN held -> Images]
    /\ DOMAIN last \subseteq SaveKinds /\ last \in [DOMAIN last -> Images]
    /\ old \subseteq Kinds
    /\ gone \subseteq Kinds /\ refused \subseteq Kinds
    /\ unsure \subseteq Kinds /\ overrun \subseteq Kinds

TypeOK == WindowType /\ CallsType /\ BackendType

(* The commands that arm, write or undo: the phase of the panel waits for  *)
(* their answer.                                                           *)
Main(k)      ==
    {c \in calls : c.kind = k /\ c.op \in {"arm", "commit", "restore"}}
Arming(c)    == c.op = "arm" /\ c.at = "answered" /\ c.result # "error"
ToCommit(c)  == c.op = "commit" /\ c.at # "answered"
HasCommitted(c) == c.op = "commit" /\ c.at = "answered"
Only(J)      == J[CHOOSE b \in DOMAIN J : TRUE]

(* One of them at most is under way, and the phase says which.             *)
OneAtATime ==
    \A k \in Kinds \ overrun :
        /\ \A c, d \in Main(k) : c = d
        /\ phase[k] = "arming" <=> \E c \in Main(k) : c.op = "arm"
        /\ phase[k] = "writing" <=> \E c \in Main(k) : c.op # "arm"

(* A panel the user walked away from is still arming, and remembers it.    *)
Leaving ==
    \A k \in Kinds \ overrun :
        /\ k \in gone => k \in closing
        /\ k \in closing => phase[k] = "arming"

(* What keeps an arming, or is about to end it.                            *)
Carries(k)   == \E c \in Main(k) : Arming(c) \/ ToCommit(c)
Disarming(k) ==
    \E c \in calls : c.kind = k /\ c.op = "disarm" /\ c.at # "answered"

HeldForAReason ==
    \A k \in DOMAIN held :
        \/ phase[k] = "armed" /\ k \notin gone
        \/ Carries(k)
        \/ Disarming(k)
        \/ k \in refused \cup overrun

(* What a panel would write is what the user saves from it.                *)
FrozenIsAJob ==
    /\ \A k \in Kinds : frozen[k] = Nothing \/ frozen[k] \in Jobs[k]
    /\ \A c \in calls : c.op \in {"arm", "commit"} => c.job \in Jobs[c.kind]

(* The panel shows what the connection holds, from the answer to the       *)
(* arming until the commit is served.                                      *)
ShownIsHeld ==
    \A k \in DOMAIN held \ overrun :
        /\ phase[k] = "armed" => shown[k] = held[k]
        /\ \A c \in Main(k) :
              /\ Arming(c) => c.was = held[k]
              /\ ToCommit(c) /\ k # "bank" => shown[k] = held[k]

(* A commit or an undo under way carries what the panel still shows.       *)
Says(k, J, image) == IF k = "bank" THEN J
                     ELSE [a \in DOMAIN image |-> Only(J)]

SaidAsShown ==
    \A k \in Kinds \ overrun : \A c \in Main(k) :
        /\ c.op = "commit" => c.said = Says(k, c.job, shown[k])
        /\ c.op = "restore" => c.said = offered[k]
        /\ c.op = "restore" /\ c.at = "answered" /\ c.result = "ok"
              => k \notin DOMAIN last

(* What the connection would put back is what the panel offers, or will    *)
(* when it hears of the commit.                                            *)
Offers(k) ==
    \/ \E c \in Main(k) : ToCommit(c)
    \/ \E c \in Main(k) : HasCommitted(c) /\ last[k] = shown[k]
    \/ (\A c \in Main(k) : c.op # "commit") /\ last[k] = offered[k]

OffersWhatIsRemembered ==
    \A k \in DOMAIN last \ (unsure \cup overrun) : Offers(k)

IInv ==
    /\ TypeOK
    /\ OneAtATime
    /\ Leaving
    /\ HeldForAReason
    /\ FrozenIsAJob
    /\ ShownIsHeld
    /\ SaidAsShown
    /\ OffersWhatIsRemembered

-----------------------------------------------------------------------------
(* Images, and the functions by panel.                                     *)

(* An image is a function from areas to sounds.                            *)
LEMMA IsImage ==
    ASSUME NEW A \in SUBSET Areas, NEW f \in [A -> Sound]
    PROVE  f \in Images
  BY DEF Images

(* Of an image, the areas and the sounds.                                  *)
LEMMA OfImage ==
    ASSUME NEW f \in Images
    PROVE  f \in [DOMAIN f -> Sound] /\ DOMAIN f \subseteq Areas
  BY DEF Images

(* Null stands for the empty image.                                        *)
LEMMA NothingIsImage == Nothing \in Images /\ DOMAIN Nothing = {}
  <1>1. Nothing \in [{} -> Sound] /\ DOMAIN Nothing = {}
    BY DEF Nothing
  <1>2. QED
    BY <1>1, IsImage

(* What is saved from a panel is an image, of some area.                   *)
LEMMA JobIsImage ==
    ASSUME NEW k \in Kinds, NEW J \in Jobs[k]
    PROVE  /\ J \in Images /\ DOMAIN J # {} /\ J # Nothing
           /\ k # "bank" => \E b : DOMAIN J = {b}
           /\ Only(J) \in Sound
  <1>1. k = "user" \/ k = "system" \/ k = "bank"
    BY KindsAssumption
  <1>2. DOMAIN J # {} /\ J \in [DOMAIN J -> Sound]
    BY JobsAssumption
  <1>3. DOMAIN J \subseteq Areas /\ (k # "bank" => \E b : DOMAIN J = {b})
    <2>1. CASE k = "user"
      BY <2>1, JobsAssumption DEF Areas
    <2>2. CASE k = "system"
      BY <2>2, JobsAssumption DEF Areas
    <2>3. CASE k = "bank"
      BY <2>3, JobsAssumption DEF Areas
    <2>4. QED
      BY <1>1, <2>1, <2>2, <2>3
  <1>4. Only(J) \in Sound
    <2>1. (CHOOSE b \in DOMAIN J : TRUE) \in DOMAIN J
      BY <1>2
    <2>2. QED
      BY <1>2, <2>1 DEF Only
  <1>5. QED
    BY <1>2, <1>3, <1>4, IsImage, NothingIsImage

(* A save writes one sound, whichever of the two ways it is picked.        *)
LEMMA OnlySound ==
    ASSUME NEW k \in Kinds, k # "bank", NEW J \in Jobs[k]
    PROVE  (CHOOSE v \in Sound : \E b \in DOMAIN J : v = J[b]) = Only(J)
  <1>1. PICK b : DOMAIN J = {b}
    BY JobIsImage
  <1>2. J[b] \in Sound /\ Only(J) = J[b]
    BY <1>1, JobIsImage DEF Only
  <1>3. \A v \in Sound : (\E y \in DOMAIN J : v = J[y]) <=> v = J[b]
    BY <1>1
  <1>4. QED
    BY <1>2, <1>3

(* What the screen says of a commit.                                       *)
LEMMA SaidIsImage ==
    ASSUME NEW k \in Kinds, frozen[k] \in Jobs[k], shown[k] \in Images
    PROVE  Said(k) \in Images
  <1>1. CASE k = "bank"
    BY <1>1, JobIsImage DEF Said
  <1>2. CASE k # "bank"
    <2>1. Said(k) = [a \in DOMAIN shown[k] |-> Only(frozen[k])]
      BY <1>2 DEF Said, Only
    <2>2. Only(frozen[k]) \in Sound /\ DOMAIN shown[k] \subseteq Areas
      BY JobIsImage, OfImage
    <2>3. Said(k) \in [DOMAIN shown[k] -> Sound]
      BY <2>1, <2>2
    <2>4. QED
      BY <2>2, <2>3, IsImage
  <1>3. QED
    BY <1>1, <1>2

LEMMA ClearTypes ==
    ASSUME NEW f \in [Kinds -> Images], NEW k \in Kinds
    PROVE  /\ Clear(f, k) \in [Kinds -> Images]
           /\ Clear(f, k)[k] = Nothing
           /\ \A j \in Kinds \ {k} : Clear(f, k)[j] = f[j]
  BY NothingIsImage DEF Clear

LEMMA GiveUpTypes ==
    ASSUME WindowType, NEW k \in Kinds, NEW then, GiveUp(k, then)
    PROVE  /\ phase' \in [Kinds -> Phases]
           /\ frozen' \in [Kinds -> Images] /\ shown' \in [Kinds -> Images]
           /\ late' \subseteq Kinds
           /\ Call(k, "disarm", Nothing, Nothing, then)
           /\ phase'[k] = "idle" /\ frozen'[k] = Nothing
           /\ \A j \in Kinds \ {k} : /\ phase'[j] = phase[j]
                                   /\ frozen'[j] = frozen[j]
                                   /\ shown'[j] = shown[j]
  <1>1. /\ Clear(shown, k) \in [Kinds -> Images]
        /\ Clear(frozen, k) \in [Kinds -> Images]
        /\ Clear(frozen, k)[k] = Nothing
        /\ \A j \in Kinds \ {k} : /\ Clear(frozen, k)[j] = frozen[j]
                                /\ Clear(shown, k)[j] = shown[j]
    BY ClearTypes DEF WindowType
  <1>2. QED
    BY <1>1 DEF GiveUp, WindowType, Phases

-----------------------------------------------------------------------------
(* What becomes of the commands under way.                                 *)

(* A command is sent.                                                      *)
LEMMA CallAdds ==
    ASSUME CallsType, NEW k \in Kinds, NEW op \in Ops, NEW job \in Images,
           NEW said \in Images, NEW then \in Thens,
           Call(k, op, job, said, then)
    PROVE  \E d \in CallSet :
              /\ calls' = calls \cup {d}
              /\ d.kind = k /\ d.op = op /\ d.job = job /\ d.said = said
              /\ d.then = then /\ d.at = "sent" /\ d.result = "none"
  <1>1. PICK n \in 1..MaxCalls :
           calls' = calls \cup
               {[n |-> n, kind |-> k, op |-> op, job |-> job, said |-> said,
                 then |-> then, at |-> "sent", result |-> "none",
                 was |-> Nothing]}
    BY DEF Call
  <1>2. [n |-> n, kind |-> k, op |-> op, job |-> job, said |-> said,
         then |-> then, at |-> "sent", result |-> "none", was |-> Nothing]
           \in CallSet
    BY NothingIsImage DEF CallSet
  <1>3. QED
    BY <1>1, <1>2

(* One field of a command is set.                                          *)
SameBut(c, d, S) ==
    /\ d \in CallSet /\ d.kind = c.kind /\ d.said = c.said
    /\ "op" \in S \/ d.op = c.op
    /\ "job" \in S \/ d.job = c.job
    /\ "then" \in S \/ d.then = c.then
    /\ "at" \in S \/ d.at = c.at
    /\ "result" \in S \/ d.result = c.result
    /\ "was" \in S \/ d.was = c.was

LEMMA SetField ==
    ASSUME NEW c \in CallSet
    PROVE  /\ \A v \in Ops :
                 SameBut(c, [c EXCEPT !.op = v], {"op"})
                 /\ [c EXCEPT !.op = v].op = v
           /\ \A v \in Images :
                 SameBut(c, [c EXCEPT !.job = v], {"job"})
                 /\ [c EXCEPT !.job = v].job = v
           /\ \A v \in Thens :
                 SameBut(c, [c EXCEPT !.then = v], {"then"})
                 /\ [c EXCEPT !.then = v].then = v
           /\ \A v \in {"sent", "admitted", "answered"} :
                 SameBut(c, [c EXCEPT !.at = v], {"at"})
                 /\ [c EXCEPT !.at = v].at = v
           /\ \A v \in {"none", "ok", "error"} :
                 SameBut(c, [c EXCEPT !.result = v], {"result"})
                 /\ [c EXCEPT !.result = v].result = v
           /\ \A v \in Images :
                 SameBut(c, [c EXCEPT !.was = v], {"was"})
                 /\ [c EXCEPT !.was = v].was = v
  BY DEF CallSet, SameBut

(* A command goes on: nothing of it changes but where it is.               *)
LEMMA NowMoves ==
    ASSUME NEW c \in CallSet, NEW at \in {"sent", "admitted", "answered"},
           NEW r \in {"none", "ok", "error"}, Now(c, at, r)
    PROVE  \E d \in CallSet :
              /\ calls' = (calls \ {c}) \cup {d}
              /\ SameBut(c, d, {"at", "result"}) /\ d.at = at /\ d.result = r
  <1> DEFINE e == [c EXCEPT !.at = at]
             d == [e EXCEPT !.result = r]
  <1>1. calls' = (calls \ {c}) \cup {d}
    BY DEF Now
  <1>2. SameBut(c, e, {"at"}) /\ e.at = at
    BY SetField
  <1>3. e \in CallSet
    BY <1>2 DEF SameBut
  <1> HIDE DEF e
  <1>4. SameBut(e, d, {"result"}) /\ d.result = r
    BY <1>3, SetField
  <1> HIDE DEF d
  <1>5. QED
    BY <1>1, <1>2, <1>4 DEF SameBut

(* An arming is answered with what it found.                               *)
LEMMA ArmingFinds ==
    ASSUME NEW c \in CallSet, NEW was \in Images,
           calls' = (calls \ {c}) \cup
               {[c EXCEPT !.at = "answered", !.result = "ok", !.was = was]}
    PROVE  \E d \in CallSet :
              /\ calls' = (calls \ {c}) \cup {d}
              /\ SameBut(c, d, {"at", "result", "was"})
              /\ d.at = "answered" /\ d.result = "ok" /\ d.was = was
  <1> DEFINE e == [c EXCEPT !.at = "answered"]
             f == [e EXCEPT !.result = "ok"]
             d == [f EXCEPT !.was = was]
  <1>1. calls' = (calls \ {c}) \cup {d}
    OBVIOUS
  <1>2. SameBut(c, e, {"at"}) /\ e.at = "answered"
    BY SetField
  <1>3. e \in CallSet
    BY <1>2 DEF SameBut
  <1> HIDE DEF e
  <1>4. SameBut(e, f, {"result"}) /\ f.result = "ok"
    BY <1>3, SetField
  <1>5. f \in CallSet
    BY <1>4 DEF SameBut
  <1> HIDE DEF f
  <1>6. SameBut(f, d, {"was"}) /\ d.was = was
    BY <1>5, SetField
  <1> HIDE DEF d
  <1>7. QED
    BY <1>1, <1>2, <1>4, <1>6 DEF SameBut

(* An arming that came too late is given up: its disarming is sent.        *)
LEMMA ArmingGivenUp ==
    ASSUME NEW c \in CallSet,
           calls' = (calls \ {c}) \cup
               {[c EXCEPT !.op = "disarm", !.at = "sent", !.job = Nothing,
                          !.result = "none", !.was = Nothing]}
    PROVE  \E d \in CallSet :
              /\ calls' = (calls \ {c}) \cup {d}
              /\ d.kind = c.kind /\ d.op = "disarm" /\ d.at = "sent"
  <1> DEFINE e == [c EXCEPT !.op = "disarm"]
             f == [e EXCEPT !.at = "sent"]
             g == [f EXCEPT !.job = Nothing]
             h == [g EXCEPT !.result = "none"]
             d == [h EXCEPT !.was = Nothing]
  <1>1. calls' = (calls \ {c}) \cup {d}
    OBVIOUS
  <1>2. e \in CallSet /\ e.kind = c.kind /\ e.op = "disarm"
    BY SetField, ZenonT(30) DEF SameBut, Ops
  <1> HIDE DEF e
  <1>3. f \in CallSet /\ f.kind = c.kind /\ f.op = "disarm" /\ f.at = "sent"
    BY <1>2, SetField, ZenonT(30) DEF SameBut
  <1> HIDE DEF f
  <1>4. g \in CallSet /\ g.kind = c.kind /\ g.op = "disarm" /\ g.at = "sent"
    <2>1. SameBut(f, g, {"job"}) /\ g.job = Nothing
      BY <1>3, SetField, NothingIsImage
    <2>2. QED
      BY <1>3, <2>1 DEF SameBut
  <1> HIDE DEF g
  <1>5. h \in CallSet /\ h.kind = c.kind /\ h.op = "disarm" /\ h.at = "sent"
    BY <1>4, SetField DEF SameBut
  <1> HIDE DEF h
  <1>6. d \in CallSet /\ d.kind = c.kind /\ d.op = "disarm" /\ d.at = "sent"
    <2>1. SameBut(h, d, {"was"}) /\ d.was = Nothing
      BY <1>5, SetField, NothingIsImage
    <2>2. QED
      BY <1>5, <2>1 DEF SameBut
  <1> HIDE DEF d
  <1>7. QED
    BY <1>1, <1>6

(* What was to follow a disarming is sent.                                 *)
LEMMA ReadFollows ==
    ASSUME NEW c \in CallSet,
           calls' = (calls \ {c}) \cup
               {[c EXCEPT !.op = "read", !.then = "nothing", !.at = "sent",
                          !.result = "none"]}
    PROVE  \E d \in CallSet :
              /\ calls' = (calls \ {c}) \cup {d}
              /\ d.kind = c.kind /\ d.op = "read"
  <1> DEFINE e == [c EXCEPT !.op = "read"]
             f == [e EXCEPT !.then = "nothing"]
             g == [f EXCEPT !.at = "sent"]
             d == [g EXCEPT !.result = "none"]
  <1>1. calls' = (calls \ {c}) \cup {d}
    OBVIOUS
  <1>2. e \in CallSet /\ e.kind = c.kind /\ e.op = "read"
    BY SetField, ZenonT(30) DEF SameBut, Ops
  <1> HIDE DEF e
  <1>3. f \in CallSet /\ f.kind = c.kind /\ f.op = "read"
    <2>1. SameBut(e, f, {"then"}) /\ f.then = "nothing"
      BY <1>2, SetField DEF Thens
    <2>2. QED
      BY <1>2, <2>1 DEF SameBut
  <1> HIDE DEF f
  <1>4. g \in CallSet /\ g.kind = c.kind /\ g.op = "read"
    BY <1>3, SetField, ZenonT(30) DEF SameBut
  <1> HIDE DEF g
  <1>5. d \in CallSet /\ d.kind = c.kind /\ d.op = "read"
    BY <1>4, SetField, ZenonT(30) DEF SameBut
  <1> HIDE DEF d
  <1>6. QED
    BY <1>1, <1>5

(* What each click sends.                                                  *)
Sent(d, k, op) ==
    calls' = calls \cup {d} /\ d.kind = k /\ d.op = op /\ d.at = "sent"

LEMMA Sends ==
    ASSUME TypeOK, FrozenIsAJob, NEW k \in Kinds
    PROVE  /\ \A J \in Jobs[k] : Arm(k, J) =>
                 \E d \in CallSet : Sent(d, k, "arm") /\ d.job = J
           /\ \A then \in Thens : GiveUp(k, then) =>
                 \E d \in CallSet : Sent(d, k, "disarm")
           /\ Commit(k) =>
                 \/ GiveUp(k, "fail")
                 \/ \E d \in CallSet : /\ Sent(d, k, "commit")
                                       /\ d.job = frozen[k] /\ d.said = Said(k)
           /\ Undo(k) =>
                 \E d \in CallSet :
                    Sent(d, k, "restore") /\ d.said = offered[k]
           /\ ReadFromSynth => \/ GiveUp("bank", "read")
                               \/ \E d \in CallSet : Sent(d, "bank", "read")
           /\ BackupEverything => \E d \in CallSet : Sent(d, "bank", "read")
  <1>1. CallsType /\ Nothing \in Images
    BY NothingIsImage DEF TypeOK
  <1>2. ASSUME NEW J \in Jobs[k], Arm(k, J)
        PROVE  \E d \in CallSet : Sent(d, k, "arm") /\ d.job = J
    BY <1>1, <1>2, JobIsImage, CallAdds DEF Arm, Ops, Thens, Sent
  <1>3. ASSUME NEW then \in Thens, GiveUp(k, then)
        PROVE  \E d \in CallSet : Sent(d, k, "disarm")
    BY <1>1, <1>3, CallAdds DEF GiveUp, Ops, Sent
  <1>4. ASSUME Commit(k), ~GiveUp(k, "fail")
        PROVE  \E d \in CallSet : /\ Sent(d, k, "commit")
                                  /\ d.job = frozen[k] /\ d.said = Said(k)
    <2>1. frozen[k] \in Images /\ Said(k) \in Images
      BY <1>4, SaidIsImage, NothingIsImage
         DEF Commit, FrozenIsAJob, TypeOK, WindowType
    <2>2. QED
      BY <1>1, <1>4, <2>1, CallAdds DEF Commit, Ops, Thens, Sent
  <1>5. ASSUME Undo(k)
        PROVE  \E d \in CallSet : Sent(d, k, "restore") /\ d.said = offered[k]
    BY <1>1, <1>5, CallAdds DEF Undo, TypeOK, WindowType, Ops, Thens, Sent
  <1>6. ASSUME ReadFromSynth, ~GiveUp("bank", "read")
        PROVE  \E d \in CallSet : Sent(d, "bank", "read")
    BY <1>1, <1>6, CallAdds DEF ReadFromSynth, Ops, Thens, Sent
  <1>7. ASSUME BackupEverything
        PROVE  \E d \in CallSet : Sent(d, "bank", "read")
    BY <1>1, <1>7, CallAdds DEF BackupEverything, Ops, Thens, Sent
  <1>8. QED
    BY <1>2, <1>3, <1>4, <1>5, <1>6, <1>7

(* What becomes of a command that is served: it is the same command, but   *)
(* for where it is and what came of it.                                    *)
Same(c, d) ==
    d \in CallSet /\ d.kind = c.kind /\ d.op = c.op /\ d.job = c.job
    /\ d.said = c.said

Moved(c, d) == calls' = (calls \ {c}) \cup {d} /\ Same(c, d)

LEMMA AnswerMoves ==
    ASSUME NEW c \in CallSet, NEW r \in {"none", "ok", "error"}, Answer(c, r)
    PROVE  \E d \in CallSet : Moved(c, d) /\ d.at = "answered" /\ d.result = r
  <1>1. \E d \in CallSet :
           /\ calls' = (calls \ {c}) \cup {d}
           /\ SameBut(c, d, {"at", "result"})
           /\ d.at = "answered" /\ d.result = r
    BY NowMoves DEF Answer
  <1>2. QED
    BY <1>1 DEF SameBut, Moved, Same

LEMMA ServeArmMoves ==
    ASSUME NEW c \in CallSet, ServeArm(c)
    PROVE  \E d \in CallSet :
              /\ Moved(c, d) /\ d.at = "answered"
              /\ \/ d.result = "ok" /\ held' = With(Nothing, c.kind, d.was)
                 \/ d.result = "error" /\ held' = Nothing
  <1>1. CASE \E was \in [DOMAIN c.job -> Occupants] :
                /\ held' = With(Nothing, c.kind, was)
                /\ calls' = (calls \ {c}) \cup
                     {[c EXCEPT !.at = "answered", !.result = "ok",
                                !.was = was]}
    <2>1. PICK was \in [DOMAIN c.job -> Occupants] :
             /\ held' = With(Nothing, c.kind, was)
             /\ calls' = (calls \ {c}) \cup
                  {[c EXCEPT !.at = "answered", !.result = "ok", !.was = was]}
      BY <1>1
    <2>2. was \in Images
      <3>1. c.job \in Images
        BY DEF CallSet
      <3>2. c.job \in [DOMAIN c.job -> Sound] /\ DOMAIN c.job \in SUBSET Areas
        BY <3>1, OfImage
      <3>3. was \in [DOMAIN c.job -> Sound]
        BY JobsAssumption
      <3>4. QED
        BY <3>2, <3>3, IsImage
    <2>3. \E d \in CallSet :
             /\ calls' = (calls \ {c}) \cup {d}
             /\ SameBut(c, d, {"at", "result", "was"})
             /\ d.at = "answered" /\ d.result = "ok" /\ d.was = was
      BY <2>1, <2>2, ArmingFinds, Zenon
    <2>4. QED
      BY <2>1, <2>3 DEF SameBut, Moved, Same
  <1>2. CASE held' = Nothing /\ Answer(c, "error")
    BY <1>2, AnswerMoves
  <1>3. QED
    BY <1>1, <1>2 DEF ServeArm

Serve(c) ==
    \/ Admit(c)
    \/ ServeArm(c)
    \/ ServeDisarm(c)
    \/ ServeCommit(c)
    \/ ServeRestore(c)
    \/ ServeRead(c)

LEMMA ServedMoves ==
    ASSUME TypeOK, NEW c \in calls, Serve(c)
    PROVE  /\ \E d \in CallSet : Moved(c, d)
           /\ UNCHANGED <<window, gone, overrun>>
  <1>1. c \in CallSet
    BY DEF TypeOK, CallsType
  <1>2. CASE Admit(c)
    <2>1. CASE Answer(c, "error")
      BY <1>1, <1>2, <2>1, AnswerMoves DEF Admit
    <2>2. CASE Now(c, "admitted", "none")
      <3>1. \E d \in CallSet : /\ calls' = (calls \ {c}) \cup {d}
                               /\ SameBut(c, d, {"at", "result"})
        BY <1>1, <2>2, NowMoves
      <3>2. QED
        BY <1>2, <3>1 DEF Admit, SameBut, Moved, Same
    <2>3. QED
      BY <1>2, <2>1, <2>2 DEF Admit
  <1>3. CASE ServeArm(c)
    BY <1>1, <1>3, ServeArmMoves DEF ServeArm
  <1>4. CASE ServeDisarm(c)
    BY <1>1, <1>4, AnswerMoves DEF ServeDisarm, history
  <1>5. CASE ServeCommit(c)
    BY <1>1, <1>5, AnswerMoves DEF ServeCommit
  <1>6. CASE ServeRestore(c)
    BY <1>1, <1>6, AnswerMoves DEF ServeRestore, history
  <1>7. CASE ServeRead(c)
    BY <1>1, <1>7, AnswerMoves DEF ServeRead, history
  <1>8. QED
    BY <1>2, <1>3, <1>4, <1>5, <1>6, <1>7 DEF Serve

-----------------------------------------------------------------------------
(* Types.                                                                  *)

(* What the window keeps.                                                  *)
LEMMA WindowTypes ==
    ASSUME TypeOK, FrozenIsAJob, [Next]_vars
    PROVE  WindowType'
  <1>1. ASSUME NEW k \in Kinds, NEW J \in Jobs[k], Arm(k, J)
        PROVE  WindowType'
    BY <1>1, JobIsImage DEF Arm, TypeOK, WindowType, Phases, backend, history
  <1>2. ASSUME NEW k \in Kinds, Cancel(k) PROVE WindowType'
    BY <1>2, GiveUpTypes DEF Cancel, TypeOK, WindowType, backend
  <1>3. ASSUME NEW k \in Kinds, Commit(k) PROVE WindowType'
    <2>1. WindowType
      BY DEF TypeOK
    <2>2. CASE GiveUp(k, "fail")
      BY <1>3, <2>1, <2>2, GiveUpTypes DEF Commit, WindowType
    <2>3. CASE ~GiveUp(k, "fail")
      <3>1. /\ Clear(shown, k) \in [Kinds -> Images]
            /\ Clear(frozen, k) \in [Kinds -> Images]
        BY <2>1, ClearTypes DEF WindowType
      <3>2. QED
        BY <1>3, <2>1, <2>3, <3>1 DEF Commit, WindowType, Phases
    <2>4. QED
      BY <2>2, <2>3
  <1>4. ASSUME NEW k \in Kinds, Undo(k) PROVE WindowType'
    BY <1>4 DEF Undo, TypeOK, WindowType, Phases, backend
  <1>5. ASSUME ReadFromSynth PROVE WindowType'
    <2>1. WindowType
      BY DEF TypeOK
    <2>2. CASE GiveUp("bank", "read")
      BY <1>5, <2>1, <2>2, GiveUpTypes DEF ReadFromSynth, WindowType
    <2>3. CASE ~GiveUp("bank", "read")
      BY <1>5, <2>1, <2>3 DEF ReadFromSynth, WindowType, Phases
    <2>4. QED
      BY <2>2, <2>3
  <1>6. ASSUME BackupEverything PROVE WindowType'
    BY <1>6 DEF BackupEverything, SetPhase, TypeOK, WindowType, Phases, backend
  <1>7. ASSUME NEW c \in calls, Admit(c) PROVE WindowType'
    BY <1>7 DEF Admit, window, TypeOK, WindowType
  <1>8. ASSUME NEW c \in calls, ServeArm(c) PROVE WindowType'
    BY <1>8 DEF ServeArm, window, TypeOK, WindowType
  <1>9. ASSUME NEW c \in calls, ServeDisarm(c) PROVE WindowType'
    BY <1>9 DEF ServeDisarm, window, TypeOK, WindowType
  <1>10. ASSUME NEW c \in calls, ServeCommit(c) PROVE WindowType'
    BY <1>10 DEF ServeCommit, window, TypeOK, WindowType
  <1>11. ASSUME NEW c \in calls, ServeRestore(c) PROVE WindowType'
    BY <1>11 DEF ServeRestore, window, TypeOK, WindowType
  <1>12. ASSUME NEW c \in calls, ServeRead(c) PROVE WindowType'
    BY <1>12 DEF ServeRead, window, TypeOK, WindowType
  <1>13. ASSUME NEW c \in calls, Armed(c) PROVE WindowType'
    <2>1. /\ c.kind \in Kinds /\ c.was \in Images
          /\ Clear(shown, c.kind) \in [Kinds -> Images]
          /\ Clear(frozen, c.kind) \in [Kinds -> Images]
      BY ClearTypes DEF TypeOK, WindowType, CallsType, CallSet
    <2>2. QED
      BY <1>13, <2>1 DEF Armed, TypeOK, WindowType, Phases
  <1>14. ASSUME NEW c \in calls, Committed(c) PROVE WindowType'
    BY <1>14, ClearTypes
       DEF Committed, Outcome, TypeOK, WindowType, CallsType, CallSet, Phases,
           backend, history
  <1>15. ASSUME NEW c \in calls, Undone(c) PROVE WindowType'
    BY <1>15, ClearTypes
       DEF Undone, Outcome, TypeOK, WindowType, CallsType, CallSet, Phases,
           backend, history
  <1>16. ASSUME NEW c \in calls, ReadDone(c) PROVE WindowType'
    BY <1>16
       DEF ReadDone, SetPhase, TypeOK, WindowType, CallsType, CallSet, Phases,
           backend
  <1>17. ASSUME NEW c \in calls, Disarmed(c) PROVE WindowType'
    BY <1>17
       DEF Disarmed, SetPhase, TypeOK, WindowType, CallsType, CallSet, Phases,
           backend
  <1>18. ASSUME NEW k \in Kinds, Expire(k) PROVE WindowType'
    BY <1>18 DEF Expire, window, TypeOK, WindowType
  <1>19. ASSUME NEW k \in Kinds, Late(k) PROVE WindowType'
    BY <1>19 DEF Late, TypeOK, WindowType, backend, history
  <1>20. ASSUME Reconnect PROVE WindowType'
    BY <1>20 DEF Reconnect, window, TypeOK, WindowType
  <1>21. ASSUME UNCHANGED vars PROVE WindowType'
    BY <1>21 DEF vars, window, TypeOK, WindowType
  <1>22. QED
    BY <1>1, <1>2, <1>3, <1>4, <1>5, <1>6, <1>7, <1>8, <1>9, <1>10,
       <1>11, <1>12, <1>13, <1>14, <1>15, <1>16, <1>17, <1>18, <1>19, <1>20,
       <1>21
       DEF Next, Clicks, Served, Answers

(* The commands under way.                                                 *)
LEMMA CallsTypes ==
    ASSUME TypeOK, FrozenIsAJob, [Next]_vars
    PROVE  CallsType'
  <1>1. ASSUME NEW k \in Kinds, NEW J \in Jobs[k], Arm(k, J)
        PROVE  CallsType'
    BY <1>1, Sends DEF Sent, TypeOK, CallsType
  <1>2. ASSUME NEW k \in Kinds, Cancel(k) PROVE CallsType'
    BY <1>2, Sends DEF Cancel, Thens, Sent, TypeOK, CallsType
  <1>3. ASSUME NEW k \in Kinds, Commit(k) PROVE CallsType'
    BY <1>3, Sends DEF Thens, Sent, TypeOK, CallsType
  <1>4. ASSUME NEW k \in Kinds, Undo(k) PROVE CallsType'
    BY <1>4, Sends DEF Sent, TypeOK, CallsType
  <1>5. ASSUME ReadFromSynth PROVE CallsType'
    BY <1>5, Sends DEF ReadFromSynth, Thens, Sent, TypeOK, CallsType
  <1>6. ASSUME BackupEverything PROVE CallsType'
    BY <1>6, Sends DEF BackupEverything, Sent, TypeOK, CallsType
  <1>7. ASSUME NEW c \in calls, Admit(c) PROVE CallsType'
    BY <1>7, ServedMoves DEF Serve, Moved, TypeOK, CallsType
  <1>8. ASSUME NEW c \in calls, ServeArm(c) PROVE CallsType'
    BY <1>8, ServedMoves DEF Serve, Moved, TypeOK, CallsType
  <1>9. ASSUME NEW c \in calls, ServeDisarm(c) PROVE CallsType'
    BY <1>9, ServedMoves DEF Serve, Moved, TypeOK, CallsType
  <1>10. ASSUME NEW c \in calls, ServeCommit(c) PROVE CallsType'
    BY <1>10, ServedMoves DEF Serve, Moved, TypeOK, CallsType
  <1>11. ASSUME NEW c \in calls, ServeRestore(c) PROVE CallsType'
    BY <1>11, ServedMoves DEF Serve, Moved, TypeOK, CallsType
  <1>12. ASSUME NEW c \in calls, ServeRead(c) PROVE CallsType'
    BY <1>12, ServedMoves DEF Serve, Moved, TypeOK, CallsType
  <1>13. ASSUME NEW c \in calls, Armed(c) PROVE CallsType'
    <2>1. c \in CallSet
      BY DEF TypeOK, CallsType
    <2>2. \/ calls' = calls \ {c}
          \/ \E d \in CallSet : calls' = (calls \ {c}) \cup {d}
      BY <1>13, <2>1, ArmingGivenUp, Zenon DEF Armed
    <2>3. QED
      BY <2>2 DEF TypeOK, CallsType
  <1>14. ASSUME NEW c \in calls, Committed(c) PROVE CallsType'
    BY <1>14 DEF Committed, TypeOK, CallsType
  <1>15. ASSUME NEW c \in calls, Undone(c) PROVE CallsType'
    BY <1>15 DEF Undone, TypeOK, CallsType
  <1>16. ASSUME NEW c \in calls, ReadDone(c) PROVE CallsType'
    BY <1>16 DEF ReadDone, TypeOK, CallsType
  <1>17. ASSUME NEW c \in calls, Disarmed(c) PROVE CallsType'
    <2>1. c \in CallSet
      BY DEF TypeOK, CallsType
    <2>2. QED
      BY <1>17, <2>1, ReadFollows DEF Disarmed, TypeOK, CallsType
  <1>18. ASSUME NEW k \in Kinds, Expire(k) PROVE CallsType'
    BY <1>18 DEF Expire, TypeOK, CallsType
  <1>19. ASSUME NEW k \in Kinds, Late(k) PROVE CallsType'
    BY <1>19 DEF Late, TypeOK, CallsType
  <1>20. ASSUME Reconnect PROVE CallsType'
    BY <1>20 DEF Reconnect, TypeOK, CallsType
  <1>21. ASSUME UNCHANGED vars PROVE CallsType'
    BY <1>21 DEF vars, TypeOK, CallsType
  <1>22. QED
    BY <1>1, <1>2, <1>3, <1>4, <1>5, <1>6, <1>7, <1>8, <1>9, <1>10,
       <1>11, <1>12, <1>13, <1>14, <1>15, <1>16, <1>17, <1>18, <1>19, <1>20,
       <1>21
       DEF Next, Clicks, Served, Answers

(* What the connection keeps, and the history.                             *)
LEMMA BackendTypes ==
    ASSUME TypeOK, FrozenIsAJob, [Next]_vars
    PROVE  BackendType'
  <1>1. ASSUME NEW k \in Kinds, NEW J \in Jobs[k], Arm(k, J)
        PROVE  BackendType'
    BY <1>1 DEF Arm, backend, history, TypeOK, BackendType
  <1>2. ASSUME NEW k \in Kinds, Cancel(k) PROVE BackendType'
    BY <1>2 DEF Cancel, backend, TypeOK, BackendType
  <1>3. ASSUME NEW k \in Kinds, Commit(k) PROVE BackendType'
    BY <1>3 DEF Commit, backend, history, TypeOK, BackendType
  <1>4. ASSUME NEW k \in Kinds, Undo(k) PROVE BackendType'
    BY <1>4 DEF Undo, backend, TypeOK, BackendType
  <1>5. ASSUME ReadFromSynth PROVE BackendType'
    BY <1>5 DEF ReadFromSynth, backend, history, TypeOK, BackendType
  <1>6. ASSUME BackupEverything PROVE BackendType'
    BY <1>6 DEF BackupEverything, SetPhase, backend, TypeOK, BackendType
  <1>7. ASSUME NEW c \in calls, Admit(c) PROVE BackendType'
    <2>1. c.kind \in Kinds
      BY DEF TypeOK, CallsType, CallSet
    <2>2. QED
      BY <1>7, <2>1 DEF Admit, backend, TypeOK, BackendType
  <1>8. ASSUME NEW c \in calls, ServeArm(c) PROVE BackendType'
    <2>1. c \in CallSet /\ c.kind \in Kinds
      BY DEF TypeOK, CallsType, CallSet
    <2>2. PICK d \in CallSet :
             \/ held' = With(Nothing, c.kind, d.was)
             \/ held' = Nothing
      BY <1>8, <2>1, ServeArmMoves
    <2>3. d.was \in Images
      BY DEF CallSet
    <2>4. /\ DOMAIN Nothing \subseteq Kinds
          /\ Nothing \in [DOMAIN Nothing -> Images]
      BY NothingIsImage DEF Nothing
    <2>5. DOMAIN held' \subseteq Kinds /\ held' \in [DOMAIN held' -> Images]
      <3>1. CASE held' = With(Nothing, c.kind, d.was)
        BY <2>1, <2>3, <2>4, <3>1 DEF With
      <3>2. QED
        BY <2>2, <2>4, <3>1
    <2>6. QED
      BY <1>8, <2>1, <2>5 DEF ServeArm, TypeOK, BackendType
  <1>9. ASSUME NEW c \in calls, ServeDisarm(c) PROVE BackendType'
    <2>1. /\ c.kind \in Kinds
          /\ DOMAIN Without(held, c.kind) \subseteq Kinds
          /\ Without(held, c.kind) \in [DOMAIN Without(held, c.kind) -> Images]
      BY DEF Without, TypeOK, CallsType, CallSet, BackendType
    <2>2. QED
      BY <1>9, <2>1 DEF ServeDisarm, history, TypeOK, BackendType
  <1>10. ASSUME NEW c \in calls, ServeCommit(c) PROVE BackendType'
    <2>1. /\ c.kind \in Kinds
          /\ DOMAIN Without(held, c.kind) \subseteq Kinds
          /\ Without(held, c.kind) \in [DOMAIN Without(held, c.kind) -> Images]
      BY DEF Without, TypeOK, CallsType, CallSet, BackendType
    <2>2. CASE UNCHANGED last
      BY <1>10, <2>1, <2>2 DEF ServeCommit, TypeOK, BackendType
    <2>3. CASE /\ MayWrite(c) /\ c.kind # "bank"
               /\ last' = With(last, c.kind, held[c.kind])
      <3>1. c.kind \in SaveKinds /\ held[c.kind] \in Images
        BY <2>1, <2>3 DEF SaveKinds, MayWrite, TypeOK, BackendType
      <3>2. /\ DOMAIN last' \subseteq SaveKinds
            /\ last' \in [DOMAIN last' -> Images]
        BY <2>3, <3>1 DEF With, TypeOK, BackendType
      <3>3. QED
        BY <1>10, <2>1, <3>2 DEF ServeCommit, TypeOK, BackendType
    <2>4. QED
      BY <1>10, <2>2, <2>3 DEF ServeCommit
  <1>11. ASSUME NEW c \in calls, ServeRestore(c) PROVE BackendType'
    <2>1. /\ DOMAIN Without(last, c.kind) \subseteq SaveKinds
          /\ Without(last, c.kind) \in [DOMAIN Without(last, c.kind) -> Images]
      BY DEF Without, TypeOK, BackendType
    <2>2. QED
      BY <1>11, <2>1 DEF ServeRestore, history, TypeOK, BackendType
  <1>12. ASSUME NEW c \in calls, ServeRead(c) PROVE BackendType'
    BY <1>12 DEF ServeRead, backend, history, TypeOK, BackendType
  <1>13. ASSUME NEW c \in calls, Armed(c) PROVE BackendType'
    BY <1>13 DEF Armed, backend, TypeOK, BackendType
  <1>14. ASSUME NEW c \in calls, Committed(c) PROVE BackendType'
    BY <1>14 DEF Committed, backend, history, TypeOK, BackendType
  <1>15. ASSUME NEW c \in calls, Undone(c) PROVE BackendType'
    BY <1>15 DEF Undone, backend, history, TypeOK, BackendType
  <1>16. ASSUME NEW c \in calls, ReadDone(c) PROVE BackendType'
    <2>1. c.kind \in Kinds
      BY DEF TypeOK, CallsType, CallSet
    <2>2. QED
      BY <1>16, <2>1 DEF ReadDone, SetPhase, backend, TypeOK, BackendType
  <1>17. ASSUME NEW c \in calls, Disarmed(c) PROVE BackendType'
    <2>1. c.kind \in Kinds
      BY DEF TypeOK, CallsType, CallSet
    <2>2. QED
      BY <1>17, <2>1 DEF Disarmed, SetPhase, backend, TypeOK, BackendType
  <1>18. ASSUME NEW k \in Kinds, Expire(k) PROVE BackendType'
    BY <1>18 DEF Expire, history, TypeOK, BackendType
  <1>19. ASSUME NEW k \in Kinds, Late(k) PROVE BackendType'
    BY <1>19 DEF Late, backend, history, TypeOK, BackendType
  <1>20. ASSUME Reconnect PROVE BackendType'
    BY <1>20, NothingIsImage
       DEF Reconnect, Nothing, history, TypeOK, BackendType
  <1>21. ASSUME UNCHANGED vars PROVE BackendType'
    BY <1>21 DEF vars, backend, history, TypeOK, BackendType
  <1>22. QED
    BY <1>1, <1>2, <1>3, <1>4, <1>5, <1>6, <1>7, <1>8, <1>9, <1>10,
       <1>11, <1>12, <1>13, <1>14, <1>15, <1>16, <1>17, <1>18, <1>19, <1>20,
       <1>21
       DEF Next, Clicks, Served, Answers

-----------------------------------------------------------------------------
(* The window and its commands.                                            *)

(* A panel has one arming, commit or undo under way at most.               *)
LEMMA KeepsOneAtATime ==
    ASSUME IInv, [Next]_vars
    PROVE  OneAtATime'
  <1>1. ASSUME NEW k \in Kinds, NEW J \in Jobs[k], Arm(k, J)
        PROVE  OneAtATime'
    <2>1. PICK d \in CallSet : Sent(d, k, "arm")
      BY <1>1, Sends DEF IInv
    <2>2. QED
      BY <1>1, <2>1 DEF Arm, MayArm, Working, Sent, history, IInv,
         OneAtATime, Main, TypeOK, WindowType
  <1>2. ASSUME NEW k \in Kinds, Cancel(k) PROVE OneAtATime'
    <2>1. \/ UNCHANGED <<phase, calls>>
          \/ /\ phase[k] = "armed" /\ phase' = [phase EXCEPT ![k] = "idle"]
             /\ \E d \in CallSet : Sent(d, k, "disarm")
      BY <1>2, Sends DEF Cancel, GiveUp, Thens, IInv
    <2>2. QED
      BY <1>2, <2>1
         DEF Cancel, Sent, IInv, OneAtATime, Main, TypeOK, WindowType
  <1>3. ASSUME NEW k \in Kinds, Commit(k) PROVE OneAtATime'
    <2>1. CASE GiveUp(k, "fail")
      <3>1. PICK d \in CallSet : Sent(d, k, "disarm")
        BY <2>1, Sends DEF Thens, IInv
      <3>2. QED
        BY <1>3, <2>1, <3>1
           DEF Commit, GiveUp, Sent, history, IInv, OneAtATime, Main, TypeOK,
               WindowType
    <2>2. CASE ~GiveUp(k, "fail")
      <3>1. PICK d \in CallSet : Sent(d, k, "commit")
        BY <1>3, <2>2, Sends DEF IInv
      <3>2. QED
        BY <1>3, <2>2, <3>1 DEF Commit, Sent, history, IInv, OneAtATime, Main,
           TypeOK, WindowType
    <2>3. QED
      BY <2>1, <2>2
  <1>4. ASSUME NEW k \in Kinds, Undo(k) PROVE OneAtATime'
    <2>1. PICK d \in CallSet : Sent(d, k, "restore")
      BY <1>4, Sends DEF IInv
    <2>2. QED
      BY <1>4, <2>1
         DEF Undo, Working, Sent, IInv, OneAtATime, Main, TypeOK, WindowType
  <1>5. ASSUME ReadFromSynth PROVE OneAtATime'
    <2>1. CASE GiveUp("bank", "read")
      <3>1. PICK d \in CallSet : Sent(d, "bank", "disarm")
        BY <1>5, <2>1, Sends DEF ReadFromSynth, Thens, IInv
      <3>2. QED
        BY <1>5, <2>1, <3>1 DEF ReadFromSynth, GiveUp, Working, Sent, history,
           IInv, OneAtATime, Main, TypeOK, WindowType
    <2>2. CASE ~GiveUp("bank", "read")
      <3>1. PICK d \in CallSet : Sent(d, "bank", "read")
        BY <1>5, <2>2, Sends DEF ReadFromSynth, IInv
      <3>2. QED
        BY <1>5, <2>2, <3>1 DEF ReadFromSynth, Working, Sent, history, IInv,
           OneAtATime, Main, TypeOK, WindowType
    <2>3. QED
      BY <2>1, <2>2
  <1>6. ASSUME BackupEverything PROVE OneAtATime'
    <2>1. PICK d \in CallSet : Sent(d, "bank", "read")
      BY <1>6, Sends DEF BackupEverything, IInv
    <2>2. QED
      BY <1>6, <2>1
         DEF BackupEverything, SetPhase, Working, Sent, IInv, OneAtATime,
             Main, TypeOK, WindowType
  <1>7. ASSUME NEW c \in calls, Serve(c) PROVE OneAtATime'
    <2>1. PICK d \in CallSet : Moved(c, d)
      BY <1>7, ServedMoves DEF IInv
    <2>2. UNCHANGED <<phase, overrun>>
      BY <1>7, ServedMoves DEF window, IInv
    <2>3. QED
      BY <2>1, <2>2 DEF Moved, Same, IInv, OneAtATime, Main
  <1>8. ASSUME NEW c \in calls, Armed(c) PROVE OneAtATime'
    <2>1. c \in CallSet /\ c.kind \in Kinds
      BY DEF IInv, TypeOK, CallsType, CallSet
    <2>2. \/ calls' = calls \ {c}
          \/ \E d \in CallSet : /\ calls' = (calls \ {c}) \cup {d}
                                 /\ d.kind = c.kind /\ d.op = "disarm"
      BY <1>8, <2>1, ArmingGivenUp, Zenon DEF Armed
    <2>3. /\ overrun' = overrun
          /\ \E p \in Phases \ {"arming", "writing"} :
                phase' = [phase EXCEPT ![c.kind] = p]
      BY <1>8 DEF Armed, Phases
    <2>4. c.op = "arm"
      BY <1>8 DEF Armed
    <2>5. QED
      BY <2>1, <2>2, <2>3, <2>4 DEF IInv, OneAtATime, Main, TypeOK, WindowType
  <1>9. ASSUME NEW c \in calls, Committed(c) PROVE OneAtATime'
    BY <1>9
       DEF Committed, Outcome, history, IInv, OneAtATime, Main, TypeOK,
           WindowType, CallsType, CallSet
  <1>10. ASSUME NEW c \in calls, Undone(c) PROVE OneAtATime'
    BY <1>10
       DEF Undone, Outcome, history, IInv, OneAtATime, Main, TypeOK,
           WindowType, CallsType, CallSet
  <1>11. ASSUME NEW c \in calls, ReadDone(c) PROVE OneAtATime'
    BY <1>11
       DEF ReadDone, SetPhase, IInv, OneAtATime, Main, TypeOK, WindowType,
           CallsType, CallSet
  <1>12. ASSUME NEW c \in calls, Disarmed(c) PROVE OneAtATime'
    <2>1. c \in CallSet /\ c.kind \in Kinds /\ c.op = "disarm"
      BY <1>12 DEF Disarmed, IInv, TypeOK, CallsType, CallSet
    <2>2. \/ calls' = calls \ {c}
          \/ \E d \in CallSet : /\ calls' = (calls \ {c}) \cup {d}
                                 /\ d.kind = c.kind /\ d.op = "read"
      BY <1>12, <2>1, ReadFollows DEF Disarmed
    <2>3. \/ UNCHANGED <<phase, overrun>>
          \/ SetPhase(c.kind, "failed")
          \/ SetPhase(c.kind, "reading")
      BY <1>12 DEF Disarmed
    <2>4. QED
      BY <2>1, <2>2, <2>3
         DEF SetPhase, IInv, OneAtATime, Main, TypeOK, WindowType
  <1>13. CASE UNCHANGED <<phase, calls, overrun>>
    BY <1>13 DEF IInv, OneAtATime, Main
  <1>14. QED
    BY <1>1, <1>2, <1>3, <1>4, <1>5, <1>6, <1>7, <1>8, <1>9, <1>10,
       <1>11, <1>12, <1>13
       DEF Next, Clicks, Served, Answers, Serve, Expire, Late, Reconnect,
           vars, window, history

(* A panel the user walked away from is arming, and knows it.              *)
LEMMA KeepsLeaving ==
    ASSUME IInv, [Next]_vars
    PROVE  Leaving'
  <1>1. ASSUME NEW k \in Kinds, NEW J \in Jobs[k], Arm(k, J) PROVE Leaving'
    BY <1>1
       DEF Arm, MayArm, Working, history, IInv, Leaving, TypeOK, WindowType
  <1>2. ASSUME NEW k \in Kinds, Cancel(k) PROVE Leaving'
    BY <1>2 DEF Cancel, GiveUp, IInv, Leaving, TypeOK, WindowType
  <1>3. ASSUME NEW k \in Kinds, Commit(k) PROVE Leaving'
    BY <1>3 DEF Commit, GiveUp, history, IInv, Leaving, TypeOK, WindowType
  <1>4. ASSUME NEW k \in Kinds, Undo(k) PROVE Leaving'
    BY <1>4 DEF Undo, Working, IInv, Leaving, TypeOK, WindowType
  <1>5. ASSUME ReadFromSynth PROVE Leaving'
    BY <1>5
       DEF ReadFromSynth, GiveUp, Working, history, IInv, Leaving, TypeOK,
           WindowType
  <1>6. ASSUME BackupEverything PROVE Leaving'
    BY <1>6
       DEF BackupEverything, SetPhase, Working, IInv, Leaving, TypeOK,
           WindowType
  <1>7. ASSUME NEW c \in calls, Serve(c) PROVE Leaving'
    BY <1>7, ServedMoves DEF window, IInv, Leaving
  <1>8. ASSUME NEW c \in calls, Armed(c) PROVE Leaving'
    BY <1>8 DEF Armed, ClosedMeanwhile, IInv, Leaving, TypeOK, WindowType
  <1>9. ASSUME NEW c \in calls, Committed(c) PROVE Leaving'
    <2>1. c.kind \notin overrun => phase[c.kind] = "writing"
      BY <1>9 DEF Committed, IInv, OneAtATime, Main, TypeOK, CallsType, CallSet
    <2>2. QED
      BY <1>9, <2>1 DEF Committed, history, IInv, Leaving, TypeOK, WindowType
  <1>10. ASSUME NEW c \in calls, Undone(c) PROVE Leaving'
    <2>1. c.kind \notin overrun => phase[c.kind] = "writing"
      BY <1>10 DEF Undone, IInv, OneAtATime, Main, TypeOK, CallsType, CallSet
    <2>2. QED
      BY <1>10, <2>1 DEF Undone, history, IInv, Leaving, TypeOK, WindowType
  <1>11. ASSUME NEW c \in calls, ReadDone(c) PROVE Leaving'
    BY <1>11 DEF ReadDone, SetPhase, IInv, Leaving, TypeOK, WindowType
  <1>12. ASSUME NEW c \in calls, Disarmed(c) PROVE Leaving'
    BY <1>12 DEF Disarmed, SetPhase, IInv, Leaving, TypeOK, WindowType
  <1>13. CASE UNCHANGED <<phase, closing, gone, overrun>>
    BY <1>13 DEF IInv, Leaving
  <1>14. QED
    BY <1>1, <1>2, <1>3, <1>4, <1>5, <1>6, <1>7, <1>8, <1>9, <1>10,
       <1>11, <1>12, <1>13
       DEF Next, Clicks, Served, Answers, Serve, Expire, Late, Reconnect,
           vars, window, history

(* What a panel would write is what the user saves from it.                *)
LEMMA KeepsFrozenIsAJob ==
    ASSUME IInv, [Next]_vars
    PROVE  FrozenIsAJob'
  <1>1. ASSUME NEW k \in Kinds, NEW J \in Jobs[k], Arm(k, J)
        PROVE  FrozenIsAJob'
    <2>1. PICK d \in CallSet : Sent(d, k, "arm") /\ d.job = J
      BY <1>1, Sends DEF IInv
    <2>2. QED
      BY <1>1, <2>1 DEF Arm, Sent, IInv, FrozenIsAJob, TypeOK, WindowType
  <1>2. ASSUME NEW k \in Kinds, Cancel(k) PROVE FrozenIsAJob'
    <2>1. CASE GiveUp(k, "nothing")
      <3>1. PICK d \in CallSet : Sent(d, k, "disarm")
        BY <2>1, Sends DEF Thens, IInv
      <3>2. QED
        BY <2>1, <3>1, GiveUpTypes DEF Sent, IInv, FrozenIsAJob, TypeOK
    <2>2. CASE UNCHANGED <<frozen, calls>>
      BY <2>2 DEF IInv, FrozenIsAJob
    <2>3. QED
      BY <1>2, <2>1, <2>2 DEF Cancel
  <1>3. ASSUME NEW k \in Kinds, Commit(k) PROVE FrozenIsAJob'
    <2>1. CASE GiveUp(k, "fail")
      <3>1. PICK d \in CallSet : Sent(d, k, "disarm")
        BY <2>1, Sends DEF Thens, IInv
      <3>2. QED
        BY <2>1, <3>1, GiveUpTypes DEF Sent, IInv, FrozenIsAJob, TypeOK
    <2>2. CASE ~GiveUp(k, "fail")
      <3>1. PICK d \in CallSet : Sent(d, k, "commit") /\ d.job = frozen[k]
        BY <1>3, <2>2, Sends DEF IInv
      <3>2. frozen' = Clear(frozen, k) /\ frozen[k] \in Jobs[k]
        BY <1>3, <2>2, NothingIsImage DEF Commit, IInv, FrozenIsAJob
      <3>3. /\ Clear(frozen, k)[k] = Nothing
            /\ \A j \in Kinds \ {k} : Clear(frozen, k)[j] = frozen[j]
        BY ClearTypes DEF IInv, TypeOK, WindowType
      <3>4. QED
        BY <3>1, <3>2, <3>3 DEF Sent, IInv, FrozenIsAJob
    <2>3. QED
      BY <2>1, <2>2
  <1>4. ASSUME NEW k \in Kinds, Undo(k) PROVE FrozenIsAJob'
    <2>1. PICK d \in CallSet : Sent(d, k, "restore")
      BY <1>4, Sends DEF IInv
    <2>2. QED
      BY <1>4, <2>1 DEF Undo, Sent, IInv, FrozenIsAJob
  <1>5. ASSUME ReadFromSynth PROVE FrozenIsAJob'
    <2>1. CASE GiveUp("bank", "read")
      <3>1. PICK d \in CallSet : Sent(d, "bank", "disarm")
        BY <1>5, <2>1, Sends DEF ReadFromSynth, Thens, IInv
      <3>2. QED
        BY <1>5, <2>1, <3>1, GiveUpTypes
           DEF ReadFromSynth, Sent, IInv, FrozenIsAJob, TypeOK
    <2>2. CASE ~GiveUp("bank", "read")
      <3>1. PICK d \in CallSet : Sent(d, "bank", "read")
        BY <1>5, <2>2, Sends DEF ReadFromSynth, IInv
      <3>2. QED
        BY <1>5, <2>2, <3>1 DEF ReadFromSynth, Sent, IInv, FrozenIsAJob
    <2>3. QED
      BY <2>1, <2>2
  <1>6. ASSUME BackupEverything PROVE FrozenIsAJob'
    <2>1. PICK d \in CallSet : Sent(d, "bank", "read")
      BY <1>6, Sends DEF BackupEverything, IInv
    <2>2. QED
      BY <1>6, <2>1 DEF BackupEverything, Sent, IInv, FrozenIsAJob
  <1>7. ASSUME NEW c \in calls, Serve(c) PROVE FrozenIsAJob'
    BY <1>7, ServedMoves DEF Moved, Same, window, IInv, FrozenIsAJob
  <1>8. ASSUME NEW c \in calls, Armed(c) PROVE FrozenIsAJob'
    <2>1. c \in CallSet /\ c.kind \in Kinds
      BY DEF IInv, TypeOK, CallsType, CallSet
    <2>2. \/ calls' = calls \ {c}
          \/ \E d \in CallSet : /\ calls' = (calls \ {c}) \cup {d}
                                 /\ d.op = "disarm"
      BY <1>8, <2>1, ArmingGivenUp, Zenon DEF Armed
    <2>3. frozen' = frozen \/ frozen' = Clear(frozen, c.kind)
      BY <1>8 DEF Armed
    <2>4. QED
      BY <2>1, <2>2, <2>3, ClearTypes
         DEF IInv, FrozenIsAJob, TypeOK, WindowType
  <1>9. ASSUME NEW c \in calls, Committed(c) PROVE FrozenIsAJob'
    BY <1>9 DEF Committed, IInv, FrozenIsAJob
  <1>10. ASSUME NEW c \in calls, Undone(c) PROVE FrozenIsAJob'
    BY <1>10 DEF Undone, IInv, FrozenIsAJob
  <1>11. ASSUME NEW c \in calls, ReadDone(c) PROVE FrozenIsAJob'
    BY <1>11 DEF ReadDone, IInv, FrozenIsAJob
  <1>12. ASSUME NEW c \in calls, Disarmed(c) PROVE FrozenIsAJob'
    <2>1. \/ calls' = calls \ {c}
          \/ \E d \in CallSet : /\ calls' = (calls \ {c}) \cup {d}
                                 /\ d.op = "read"
      BY <1>12, ReadFollows DEF Disarmed, IInv, TypeOK, CallsType
    <2>2. QED
      BY <1>12, <2>1 DEF Disarmed, IInv, FrozenIsAJob
  <1>13. CASE UNCHANGED <<frozen, calls>>
    BY <1>13 DEF IInv, FrozenIsAJob
  <1>14. QED
    BY <1>1, <1>2, <1>3, <1>4, <1>5, <1>6, <1>7, <1>8, <1>9, <1>10,
       <1>11, <1>12, <1>13
       DEF Next, Clicks, Served, Answers, Serve, Expire, Late, Reconnect,
           vars, window

(* A reason lasts as long as its command.                                  *)
LEMMA ReasonsLast ==
    ASSUME calls \subseteq calls', NEW k
    PROVE  (Carries(k) => Carries(k)') /\ (Disarming(k) => Disarming(k)')
  BY DEF Carries, Disarming, Main

(* No arming outlives its reason.                                          *)
LEMMA KeepsHeldForAReason ==
    ASSUME IInv, [Next]_vars
    PROVE  HeldForAReason'
  <1>1. ASSUME NEW k \in Kinds, NEW J \in Jobs[k], Arm(k, J)
        PROVE  HeldForAReason'
    <2>1. PICK d \in CallSet : Sent(d, k, "arm")
      BY <1>1, Sends DEF IInv
    <2>2. QED
      BY <1>1, <2>1
         DEF Arm, MayArm, Sent, backend, history, IInv, HeldForAReason,
             Carries, Disarming, Main, Arming, ToCommit, TypeOK, WindowType,
             BackendType
  <1>2. ASSUME NEW k \in Kinds, Cancel(k) PROVE HeldForAReason'
    <2>1. CASE phase[k] = "armed"
      <3>1. PICK d \in CallSet : Sent(d, k, "disarm")
        BY <1>2, <2>1, Sends DEF Cancel, Thens, IInv
      <3>2. calls \subseteq calls' /\ Disarming(k)'
        BY <3>1 DEF Sent, Disarming
      <3>3. QED
        BY <1>2, <2>1, <3>2, ReasonsLast DEF Cancel, GiveUp, backend, IInv,
           HeldForAReason, TypeOK, WindowType, BackendType
    <2>2. CASE phase[k] # "armed"
      BY <1>2, <2>2
         DEF Cancel, backend, IInv, HeldForAReason, Carries, Disarming, Main,
             Arming, ToCommit
    <2>3. QED
      BY <2>1, <2>2
  <1>3. ASSUME NEW k \in Kinds, Commit(k) PROVE HeldForAReason'
    <2>1. CASE GiveUp(k, "fail")
      <3>1. PICK d \in CallSet : Sent(d, k, "disarm")
        BY <2>1, Sends DEF Thens, IInv
      <3>2. QED
        BY <1>3, <2>1, <3>1
           DEF Commit, GiveUp, Sent, backend, history, IInv, HeldForAReason,
               Carries, Disarming, Main, Arming, ToCommit, TypeOK, WindowType,
               BackendType
    <2>2. CASE ~GiveUp(k, "fail")
      <3>1. PICK d \in CallSet : Sent(d, k, "commit")
        BY <1>3, <2>2, Sends DEF IInv
      <3>2. calls \subseteq calls' /\ Carries(k)'
        BY <3>1 DEF Sent, Carries, Main, ToCommit
      <3>3. QED
        BY <1>3, <2>2, <3>2, ReasonsLast DEF Commit, backend, history, IInv,
           HeldForAReason, TypeOK, WindowType, BackendType
    <2>3. QED
      BY <2>1, <2>2
  <1>4. ASSUME NEW k \in Kinds, Undo(k) PROVE HeldForAReason'
    <2>1. PICK d \in CallSet : Sent(d, k, "restore")
      BY <1>4, Sends DEF IInv
    <2>2. QED
      BY <1>4, <2>1
         DEF Undo, Sent, backend, IInv, HeldForAReason, Carries, Disarming,
             Main, Arming, ToCommit, TypeOK, WindowType, BackendType
  <1>5. ASSUME ReadFromSynth PROVE HeldForAReason'
    <2>1. CASE GiveUp("bank", "read")
      <3>1. PICK d \in CallSet : Sent(d, "bank", "disarm")
        BY <1>5, <2>1, Sends DEF ReadFromSynth, Thens, IInv
      <3>2. QED
        BY <1>5, <2>1, <3>1
           DEF ReadFromSynth, GiveUp, Sent, backend, history, IInv,
               HeldForAReason, Carries, Disarming, Main, Arming, ToCommit,
               TypeOK, WindowType, BackendType
    <2>2. CASE ~GiveUp("bank", "read")
      <3>1. PICK d \in CallSet : Sent(d, "bank", "read")
        BY <1>5, <2>2, Sends DEF ReadFromSynth, IInv
      <3>2. calls \subseteq calls'
        BY <3>1 DEF Sent
      <3>3. QED
        BY <1>5, <2>2, <3>2, ReasonsLast DEF ReadFromSynth, backend, history,
           IInv, HeldForAReason, TypeOK, WindowType, BackendType
    <2>3. QED
      BY <2>1, <2>2
  <1>6. ASSUME BackupEverything PROVE HeldForAReason'
    <2>1. PICK d \in CallSet : Sent(d, "bank", "read")
      BY <1>6, Sends DEF BackupEverything, IInv
    <2>2. QED
      BY <1>6, <2>1
         DEF BackupEverything, SetPhase, Sent, backend, IInv, HeldForAReason,
             Carries, Disarming, Main, Arming, ToCommit, TypeOK, WindowType,
             BackendType
  <1>7. ASSUME NEW c \in calls, Serve(c) PROVE HeldForAReason'
    <2>1. c \in CallSet /\ UNCHANGED <<phase, gone, overrun>>
      BY <1>7, ServedMoves DEF window, IInv, TypeOK, CallsType
    <2>2. CASE Admit(c)
      <3>1. CASE Now(c, "admitted", "none") /\ refused' = refused
        <4>1. PICK d \in CallSet : /\ calls' = (calls \ {c}) \cup {d}
                                   /\ SameBut(c, d, {"at", "result"})
                                   /\ d.at = "admitted"
          BY <2>1, <3>1, NowMoves
        <4>2. QED
          BY <2>1, <2>2, <3>1, <4>1
             DEF Admit, SameBut, backend, IInv, HeldForAReason, Carries,
                 Disarming, Main, Arming, ToCommit
      <3>2. CASE /\ Answer(c, "error")
                 /\ refused' = IF c.op \in {"disarm", "commit"}
                               THEN refused \cup {c.kind} ELSE refused
        <4>1. PICK d \in CallSet : Moved(c, d)
          BY <2>1, <3>2, AnswerMoves
        <4>2. QED
          BY <2>1, <2>2, <3>2, <4>1
             DEF Admit, Moved, Same, backend, IInv, HeldForAReason, Carries,
                 Disarming, Main, Arming, ToCommit
      <3>3. QED
        BY <2>2, <3>1, <3>2 DEF Admit
    <2>3. CASE ServeArm(c)
      <3>1. PICK d \in CallSet :
               /\ Moved(c, d) /\ d.at = "answered"
               /\ \/ d.result = "ok" /\ held' = With(Nothing, c.kind, d.was)
                  \/ d.result = "error" /\ held' = Nothing
        BY <2>1, <2>3, ServeArmMoves
      <3>2. ASSUME NEW k \in DOMAIN held'
            PROVE  d.result = "ok" /\ k = c.kind
        BY <3>1, NothingIsImage DEF With
      <3>3. c.op = "arm"
        BY <2>3 DEF ServeArm
      <3>4. QED
        BY <3>1, <3>2, <3>3
           DEF Moved, Same, HeldForAReason, Carries, Disarming, Main, Arming,
               ToCommit
    <2>4. CASE ServeDisarm(c) \/ ServeCommit(c)
      <3>1. PICK d \in CallSet : Moved(c, d)
        BY <1>7, ServedMoves DEF IInv
      <3>2. held' = Without(held, c.kind) /\ refused' = refused
        BY <2>4 DEF ServeDisarm, ServeCommit, history
      <3>3. \A k \in DOMAIN held' : k \in DOMAIN held /\ k # c.kind
        BY <3>2 DEF Without
      <3>4. QED
        BY <2>1, <3>1, <3>2, <3>3
           DEF Moved, Same, IInv, HeldForAReason, Carries, Disarming, Main,
               Arming, ToCommit
    <2>5. CASE ServeRestore(c) \/ ServeRead(c)
      <3>1. PICK d \in CallSet : Moved(c, d)
        BY <1>7, ServedMoves DEF IInv
      <3>2. held' = held /\ refused' = refused /\ c.op \in {"restore", "read"}
        BY <2>5 DEF ServeRestore, ServeRead, backend, history
      <3>3. QED
        BY <2>1, <3>1, <3>2
           DEF Moved, Same, IInv, HeldForAReason, Carries, Disarming, Main,
               Arming, ToCommit
    <2>6. QED
      BY <1>7, <2>2, <2>3, <2>4, <2>5 DEF Serve
  <1>8. ASSUME NEW c \in calls, Armed(c) PROVE HeldForAReason'
    <2>1. /\ c \in CallSet /\ c.kind \in Kinds /\ c.op = "arm"
          /\ c.at = "answered" /\ UNCHANGED <<held, refused, overrun>>
      BY <1>8 DEF Armed, backend, IInv, TypeOK, CallsType, CallSet
    <2>2. CASE /\ ~ClosedMeanwhile(c.kind)
               /\ phase' = [phase EXCEPT ![c.kind] = "armed"]
               /\ calls' = calls \ {c} /\ gone' = gone
      BY <2>1, <2>2
         DEF ClosedMeanwhile, IInv, Leaving, HeldForAReason, Carries,
             Disarming, Main, Arming, ToCommit, TypeOK, WindowType,
             BackendType
    <2>3. CASE /\ phase' = [phase EXCEPT ![c.kind] = "idle"]
               /\ gone' = gone \ {c.kind}
               /\ calls' = (calls \ {c}) \cup
                     {[c EXCEPT !.op = "disarm", !.at = "sent", !.job = Nothing,
                                !.result = "none", !.was = Nothing]}
      <3>1. PICK d \in CallSet :
               /\ calls' = (calls \ {c}) \cup {d}
               /\ d.kind = c.kind /\ d.op = "disarm" /\ d.at = "sent"
        BY <2>1, <2>3, ArmingGivenUp, Zenon
      <3>2. QED
        BY <2>1, <2>3, <3>1
           DEF IInv, HeldForAReason, Carries, Disarming, Main, Arming,
               ToCommit, TypeOK, WindowType, BackendType
    <2>4. CASE /\ c.result = "error"
               /\ phase' = [phase EXCEPT ![c.kind] = "failed"]
               /\ gone' = gone \ {c.kind}
               /\ calls' = calls \ {c}
      BY <2>1, <2>4
         DEF IInv, OneAtATime, HeldForAReason, Carries, Disarming, Main,
             Arming, ToCommit, TypeOK, WindowType, BackendType
    <2>5. QED
      BY <1>8, <2>2, <2>3, <2>4 DEF Armed
  <1>9. ASSUME NEW c \in calls, Committed(c) PROVE HeldForAReason'
    <2>1. /\ c.kind \in Kinds
          /\ c.kind \notin overrun => phase[c.kind] = "writing"
      BY <1>9 DEF Committed, IInv, OneAtATime, Main, TypeOK, CallsType, CallSet
    <2>2. QED
      BY <1>9, <2>1
         DEF Committed, backend, history, IInv, OneAtATime, HeldForAReason,
             Carries, Disarming, Main, Arming, ToCommit, TypeOK, WindowType,
             BackendType
  <1>10. ASSUME NEW c \in calls, Undone(c) PROVE HeldForAReason'
    <2>1. /\ c.kind \in Kinds
          /\ c.kind \notin overrun => phase[c.kind] = "writing"
      BY <1>10 DEF Undone, IInv, OneAtATime, Main, TypeOK, CallsType, CallSet
    <2>2. QED
      BY <1>10, <2>1
         DEF Undone, backend, history, IInv, OneAtATime, HeldForAReason,
             Carries, Disarming, Main, Arming, ToCommit, TypeOK, WindowType,
             BackendType
  <1>11. ASSUME NEW c \in calls, ReadDone(c) PROVE HeldForAReason'
    BY <1>11
       DEF ReadDone, SetPhase, backend, IInv, HeldForAReason, Carries,
           Disarming, Main, Arming, ToCommit, TypeOK, WindowType, BackendType
  <1>12. ASSUME NEW c \in calls, Disarmed(c) PROVE HeldForAReason'
    <2>1. c \in CallSet /\ c.op = "disarm" /\ c.at = "answered"
      BY <1>12 DEF Disarmed, IInv, TypeOK, CallsType
    <2>2. \/ calls' = calls \ {c}
          \/ \E d \in CallSet : /\ calls' = (calls \ {c}) \cup {d}
                                 /\ d.kind = c.kind /\ d.op = "read"
      BY <1>12, <2>1, ReadFollows DEF Disarmed
    <2>3. \/ UNCHANGED <<phase, overrun>>
          \/ SetPhase(c.kind, "failed")
          \/ SetPhase(c.kind, "reading")
      BY <1>12 DEF Disarmed
    <2>4. UNCHANGED <<held, gone, refused>>
      BY <1>12 DEF Disarmed, backend
    <2>5. ASSUME NEW k
          PROVE  (Carries(k) => Carries(k)') /\ (Disarming(k) => Disarming(k)')
      BY <2>1, <2>2 DEF Carries, Disarming, Main, Arming, ToCommit
    <2>6. QED
      BY <2>1, <2>3, <2>4, <2>5
         DEF SetPhase, IInv, HeldForAReason, TypeOK, WindowType, BackendType
  <1>13. ASSUME Reconnect PROVE HeldForAReason'
    BY <1>13, NothingIsImage DEF Reconnect, HeldForAReason
  <1>14. CASE UNCHANGED <<phase, calls, held, gone, refused, overrun>>
    BY <1>14
       DEF IInv, HeldForAReason, Carries, Disarming, Main, Arming, ToCommit
  <1>15. QED
    BY <1>1, <1>2, <1>3, <1>4, <1>5, <1>6, <1>7, <1>8, <1>9, <1>10,
       <1>11, <1>12, <1>13, <1>14
       DEF Next, Clicks, Served, Answers, Serve, Expire, Late,
           vars, window, backend, history

(* Only the answer to the arming has what was found.                       *)
LEMMA AnswerKeepsWas ==
    ASSUME NEW c \in CallSet, NEW at \in {"admitted", "answered"},
           NEW r \in {"none", "ok", "error"}, Now(c, at, r)
    PROVE  \E d \in CallSet : /\ Moved(c, d) /\ d.was = c.was
                             /\ d.at = at /\ d.result = r
  <1>1. \E d \in CallSet :
           /\ calls' = (calls \ {c}) \cup {d}
           /\ SameBut(c, d, {"at", "result"}) /\ d.at = at /\ d.result = r
    BY NowMoves
  <1>2. QED
    BY <1>1 DEF SameBut, Moved, Same

(* An armed panel has nothing under way that its phase waits for.          *)
LEMMA NothingUnderWay ==
    ASSUME IInv, NEW k \in Kinds \ overrun,
           phase[k] \notin {"arming", "writing"}
    PROVE  Main(k) = {}
  BY DEF IInv, OneAtATime

(* The panel shows what the connection holds.                              *)
LEMMA KeepsShownIsHeld ==
    ASSUME IInv, [Next]_vars
    PROVE  ShownIsHeld'
  <1>1. ASSUME NEW k \in Kinds, NEW J \in Jobs[k], Arm(k, J)
        PROVE  ShownIsHeld'
    <2>1. PICK d \in CallSet : Sent(d, k, "arm")
      BY <1>1, Sends DEF IInv
    <2>2. QED
      BY <1>1, <2>1
         DEF Arm, Sent, backend, history, IInv, ShownIsHeld, Main, Arming,
             ToCommit, TypeOK, WindowType, BackendType
  <1>2. ASSUME NEW k \in Kinds, Cancel(k) PROVE ShownIsHeld'
    <2>1. CASE GiveUp(k, "nothing")
      <3>1. PICK d \in CallSet : Sent(d, k, "disarm")
        BY <2>1, Sends DEF Thens, IInv
      <3>2. UNCHANGED <<held, overrun>>
        BY <1>2 DEF Cancel, backend
      <3>3. k \notin overrun => Main(k) = {}
        BY <1>2, <2>1, NothingUnderWay
           DEF Cancel, GiveUp, IInv, TypeOK, WindowType, BackendType
      <3>4. QED
        BY <2>1, <3>1, <3>2, <3>3, GiveUpTypes
           DEF Sent, IInv, ShownIsHeld, Main, Arming, ToCommit, TypeOK,
               WindowType, BackendType
    <2>2. CASE UNCHANGED <<phase, shown, calls>>
      BY <1>2, <2>2
         DEF Cancel, backend, IInv, ShownIsHeld, Main, Arming, ToCommit
    <2>3. QED
      BY <1>2, <2>1, <2>2 DEF Cancel
  <1>3. ASSUME NEW k \in Kinds, Commit(k) PROVE ShownIsHeld'
    <2>1. phase[k] = "armed" /\ UNCHANGED <<held, overrun>>
      BY <1>3 DEF Commit, backend, history
    <2>2. k \notin overrun => Main(k) = {}
      BY <2>1, NothingUnderWay
    <2>3. CASE GiveUp(k, "fail")
      <3>1. PICK d \in CallSet : Sent(d, k, "disarm")
        BY <2>3, Sends DEF Thens, IInv
      <3>2. QED
        BY <2>1, <2>2, <2>3, <3>1, GiveUpTypes
           DEF Sent, IInv, ShownIsHeld, Main, Arming, ToCommit, TypeOK,
               WindowType, BackendType
    <2>4. CASE ~GiveUp(k, "fail")
      <3>1. PICK d \in CallSet : Sent(d, k, "commit")
        BY <1>3, <2>4, Sends DEF IInv
      <3>2. /\ phase' = [phase EXCEPT ![k] = "writing"]
            /\ shown' = IF k = "bank" THEN Clear(shown, k) ELSE shown
        BY <1>3, <2>4 DEF Commit
      <3>3. \A j \in Kinds \ {k} : shown'[j] = shown[j]
        BY <3>2, ClearTypes DEF IInv, TypeOK, WindowType, BackendType
      <3>4. QED
        BY <2>1, <2>2, <3>1, <3>2, <3>3
           DEF Sent, IInv, ShownIsHeld, Main, Arming, ToCommit, TypeOK,
               WindowType, BackendType
    <2>5. QED
      BY <2>3, <2>4
  <1>4. ASSUME NEW k \in Kinds, Undo(k) PROVE ShownIsHeld'
    <2>1. PICK d \in CallSet : Sent(d, k, "restore")
      BY <1>4, Sends DEF IInv
    <2>2. QED
      BY <1>4, <2>1
         DEF Undo, Sent, backend, IInv, ShownIsHeld, Main, Arming, ToCommit,
             TypeOK, WindowType, BackendType
  <1>5. ASSUME ReadFromSynth PROVE ShownIsHeld'
    <2>1. UNCHANGED <<held, overrun>> /\ "bank" \in Kinds
      BY <1>5 DEF ReadFromSynth, backend, history
    <2>2. CASE GiveUp("bank", "read")
      <3>1. PICK d \in CallSet : Sent(d, "bank", "disarm")
        BY <2>1, <2>2, Sends DEF Thens, IInv
      <3>2. phase["bank"] \notin {"arming", "writing"}
        BY <1>5 DEF ReadFromSynth, Working
      <3>3. "bank" \notin overrun => Main("bank") = {}
        BY <2>1, <3>2, NothingUnderWay
      <3>4. QED
        BY <2>1, <2>2, <3>1, <3>3, GiveUpTypes
           DEF Sent, IInv, ShownIsHeld, Main, Arming, ToCommit, TypeOK,
               WindowType, BackendType
    <2>3. CASE ~GiveUp("bank", "read")
      <3>1. PICK d \in CallSet : Sent(d, "bank", "read")
        BY <1>5, <2>1, <2>3, Sends DEF IInv
      <3>2. QED
        BY <1>5, <2>1, <2>3, <3>1
           DEF ReadFromSynth, Sent, IInv, ShownIsHeld, Main, Arming, ToCommit,
               TypeOK, WindowType, BackendType
    <2>4. QED
      BY <2>2, <2>3
  <1>6. ASSUME BackupEverything PROVE ShownIsHeld'
    <2>1. PICK d \in CallSet : Sent(d, "bank", "read")
      BY <1>6, Sends DEF BackupEverything, IInv
    <2>2. QED
      BY <1>6, <2>1
         DEF BackupEverything, SetPhase, Sent, backend, IInv, ShownIsHeld,
             Main, Arming, ToCommit, TypeOK, WindowType, BackendType
  <1>7. ASSUME NEW c \in calls, Serve(c) PROVE ShownIsHeld'
    <2>1. c \in CallSet /\ UNCHANGED <<phase, shown, overrun>>
      BY <1>7, ServedMoves DEF window, IInv, TypeOK, CallsType
    <2>2. CASE Admit(c)
      <3>1. PICK at \in {"admitted", "answered"}, r \in {"none", "error"} :
               Now(c, at, r) /\ (at = "answered" => r = "error")
        BY <2>2 DEF Admit, Answer
      <3>2. PICK d \in CallSet : /\ Moved(c, d) /\ d.was = c.was
                                 /\ d.at = at /\ d.result = r
        BY <2>1, <3>1, AnswerKeepsWas
      <3>3. QED
        BY <2>1, <2>2, <3>1, <3>2
           DEF Admit, Moved, Same, backend, IInv, ShownIsHeld, Main, Arming,
               ToCommit
    <2>3. CASE ServeArm(c)
      <3>1. PICK d \in CallSet :
               /\ Moved(c, d)
               /\ \/ held' = With(Nothing, c.kind, d.was)
                  \/ held' = Nothing
        BY <2>1, <2>3, ServeArmMoves
      <3>2. \A k \in DOMAIN held' : k = c.kind /\ held'[k] = d.was
        BY <3>1, NothingIsImage DEF With
      <3>3. c.op = "arm" /\ c.kind \in Kinds
        BY <2>1, <2>3 DEF ServeArm, CallSet
      <3>4. c.kind \notin overrun =>
               phase[c.kind] = "arming" /\ \A e \in Main(c.kind) : e = c
        BY <3>3 DEF IInv, OneAtATime, Main
      <3>5. QED
        BY <2>1, <3>1, <3>2, <3>3, <3>4
           DEF Moved, Same, ShownIsHeld, Main, Arming, ToCommit
    <2>4. CASE ServeDisarm(c) \/ ServeCommit(c)
      <3>1. PICK d \in CallSet : Moved(c, d)
        BY <1>7, ServedMoves DEF IInv
      <3>2. held' = Without(held, c.kind)
        BY <2>4 DEF ServeDisarm, ServeCommit
      <3>3. \A k \in DOMAIN held' :
               k \in DOMAIN held /\ k # c.kind /\ held'[k] = held[k]
        BY <3>2 DEF Without
      <3>4. QED
        BY <2>1, <3>1, <3>3
           DEF Moved, Same, IInv, ShownIsHeld, Main, Arming, ToCommit
    <2>5. CASE ServeRestore(c) \/ ServeRead(c)
      <3>1. PICK d \in CallSet : Moved(c, d)
        BY <1>7, ServedMoves DEF IInv
      <3>2. held' = held /\ c.op \in {"restore", "read"}
        BY <2>5 DEF ServeRestore, ServeRead, backend
      <3>3. QED
        BY <2>1, <3>1, <3>2
           DEF Moved, Same, IInv, ShownIsHeld, Main, Arming, ToCommit
    <2>6. QED
      BY <1>7, <2>2, <2>3, <2>4, <2>5 DEF Serve
  <1>8. ASSUME NEW c \in calls, Armed(c) PROVE ShownIsHeld'
    <2>1. /\ c \in CallSet /\ c.kind \in Kinds /\ c.op = "arm"
          /\ c.at = "answered" /\ UNCHANGED <<held, overrun>>
      BY <1>8 DEF Armed, backend, IInv, TypeOK, CallsType, CallSet
    <2>2. c.kind \notin overrun => Main(c.kind) = {c}
      BY <2>1 DEF IInv, OneAtATime, Main
    <2>3. CASE /\ c.result # "error"
               /\ phase' = [phase EXCEPT ![c.kind] = "armed"]
               /\ shown' = [shown EXCEPT ![c.kind] = c.was]
               /\ calls' = calls \ {c}
      BY <2>1, <2>2, <2>3
         DEF IInv, ShownIsHeld, Main, Arming, ToCommit, TypeOK, WindowType,
             BackendType
    <2>4. CASE /\ \E p \in {"idle", "failed"} :
                     phase' = [phase EXCEPT ![c.kind] = p]
               /\ shown' = Clear(shown, c.kind)
      <3>1. \/ calls' = calls \ {c}
            \/ \E d \in CallSet : /\ calls' = (calls \ {c}) \cup {d}
                                   /\ d.kind = c.kind /\ d.op = "disarm"
        BY <1>8, <2>1, ArmingGivenUp, Zenon DEF Armed
      <3>2. \A j \in Kinds \ {c.kind} : shown'[j] = shown[j]
        BY <2>1, <2>4, ClearTypes DEF IInv, TypeOK, WindowType, BackendType
      <3>3. QED
        BY <2>1, <2>2, <2>4, <3>1, <3>2
           DEF IInv, ShownIsHeld, Main, Arming, ToCommit, TypeOK, WindowType,
               BackendType
    <2>5. QED
      BY <1>8, <2>3, <2>4 DEF Armed
  <1>9. ASSUME NEW c \in calls, Committed(c) PROVE ShownIsHeld'
    <2>1. c.kind \in Kinds /\ UNCHANGED <<held, overrun>>
      BY <1>9 DEF Committed, backend, history, IInv, TypeOK, CallsType, CallSet
    <2>2. c.kind \notin overrun => Main(c.kind) = {c}
      BY <1>9, <2>1 DEF Committed, IInv, OneAtATime, Main
    <2>3. \A j \in Kinds \ {c.kind} : shown'[j] = shown[j]
      BY <1>9, <2>1, ClearTypes
         DEF Committed, IInv, TypeOK, WindowType, BackendType
    <2>4. /\ phase' = [phase EXCEPT ![c.kind] = Outcome(c)]
          /\ Outcome(c) # "armed" /\ calls' = calls \ {c}
      BY <1>9 DEF Committed, Outcome
    <2>5. QED
      BY <2>1, <2>2, <2>3, <2>4
         DEF IInv, ShownIsHeld, Main, Arming, ToCommit, TypeOK, WindowType,
             BackendType
  <1>10. ASSUME NEW c \in calls, Undone(c) PROVE ShownIsHeld'
    BY <1>10
       DEF Undone, Outcome, backend, history, IInv, ShownIsHeld, Main, Arming,
           ToCommit, TypeOK, WindowType, BackendType
  <1>11. ASSUME NEW c \in calls, ReadDone(c) PROVE ShownIsHeld'
    BY <1>11
       DEF ReadDone, SetPhase, backend, IInv, ShownIsHeld, Main, Arming,
           ToCommit, TypeOK, WindowType, BackendType
  <1>12. ASSUME NEW c \in calls, Disarmed(c) PROVE ShownIsHeld'
    <2>1. c \in CallSet /\ c.op = "disarm"
      BY <1>12 DEF Disarmed, IInv, TypeOK, CallsType
    <2>2. \/ calls' = calls \ {c}
          \/ \E d \in CallSet : /\ calls' = (calls \ {c}) \cup {d}
                                 /\ d.kind = c.kind /\ d.op = "read"
      BY <1>12, <2>1, ReadFollows DEF Disarmed
    <2>3. \/ UNCHANGED <<phase, overrun>>
          \/ SetPhase(c.kind, "failed")
          \/ SetPhase(c.kind, "reading")
      BY <1>12 DEF Disarmed
    <2>4. UNCHANGED <<held, shown>>
      BY <1>12 DEF Disarmed, backend
    <2>5. \A k : \A e \in Main(k)' : Arming(e) \/ ToCommit(e) => e \in Main(k)
      BY <2>2 DEF Main, Arming, ToCommit
    <2>6. QED
      BY <2>1, <2>3, <2>4, <2>5
         DEF SetPhase, IInv, ShownIsHeld, TypeOK, WindowType, BackendType
  <1>13. ASSUME Reconnect PROVE ShownIsHeld'
    BY <1>13, NothingIsImage DEF Reconnect, ShownIsHeld
  <1>14. CASE UNCHANGED <<phase, shown, calls, held, overrun>>
    BY <1>14 DEF IInv, ShownIsHeld, Main
  <1>15. QED
    BY <1>1, <1>2, <1>3, <1>4, <1>5, <1>6, <1>7, <1>8, <1>9, <1>10,
       <1>11, <1>12, <1>13, <1>14
       DEF Next, Clicks, Served, Answers, Serve, Expire, Late,
           vars, window, backend, history

(* How the commands a phase waits for change: one is added, goes on, or is *)
(* answered.                                                               *)
LEMMA MainSent ==
    ASSUME NEW d, NEW k, NEW op, Sent(d, k, op)
    PROVE  /\ \A j : j # k => Main(j)' = Main(j)
           /\ Main(k)' = IF op \in {"arm", "commit", "restore"}
                         THEN Main(k) \cup {d} ELSE Main(k)
  BY DEF Sent, Main

LEMMA MainMoved ==
    ASSUME NEW c \in calls, NEW d, Moved(c, d)
    PROVE  /\ \A j : j # c.kind => Main(j)' = Main(j)
           /\ c.op \notin {"arm", "commit", "restore"}
                  => Main(c.kind)' = Main(c.kind)
           /\ Main(c.kind) = {c} => Main(c.kind)' = {d}
           /\ \A k : \A e \in Main(k)' :
                 e \in Main(k) \/ (e = d /\ c \in Main(k))
  BY DEF Moved, Same, Main

LEMMA MainAnswered ==
    ASSUME NEW c \in calls,
           \/ calls' = calls \ {c}
           \/ \E d \in CallSet :
                 /\ calls' = (calls \ {c}) \cup {d}
                 /\ d.kind = c.kind /\ d.op \in {"disarm", "read"}
    PROVE  \A j : Main(j)' = Main(j) \ {c}
  BY DEF Main

(* A command the phase waits for is the only one.                          *)
LEMMA MainIs ==
    ASSUME IInv, NEW c \in calls, c.kind \notin overrun,
           c.op \in {"arm", "commit", "restore"}
    PROVE  Main(c.kind) = {c}
  BY DEF IInv, OneAtATime, Main, TypeOK, CallsType, CallSet

(* What a save would put back, as long as nothing of it changes.           *)
LEMMA OffersLast ==
    ASSUME NEW k, Offers(k), Main(k)' = Main(k), last'[k] = last[k],
           shown'[k] = shown[k], offered'[k] = offered[k]
    PROVE  Offers(k)'
  BY DEF Offers, ToCommit, HasCommitted

(* A commit or an undo carries what the panel still shows.                 *)
LEMMA KeepsSaidAsShown ==
    ASSUME IInv, [Next]_vars
    PROVE  SaidAsShown'
  <1>1. ASSUME NEW k \in Kinds, NEW J \in Jobs[k], Arm(k, J)
        PROVE  SaidAsShown'
    <2>1. PICK d \in CallSet : Sent(d, k, "arm")
      BY <1>1, Sends DEF IInv
    <2>2. QED
      BY <1>1, <2>1
         DEF Arm, Sent, Main, backend, history, IInv, SaidAsShown, Same,
             TypeOK, WindowType, BackendType
  <1>2. ASSUME NEW k \in Kinds, Cancel(k) PROVE SaidAsShown'
    <2>1. CASE GiveUp(k, "nothing")
      <3>1. PICK d \in CallSet : Sent(d, k, "disarm")
        BY <2>1, Sends DEF Thens, IInv
      <3>2. UNCHANGED <<offered, last, unsure, overrun>>
        BY <1>2 DEF Cancel, backend
      <3>3. k \notin overrun => Main(k) = {}
        BY <1>2, <2>1, NothingUnderWay
           DEF Cancel, GiveUp, IInv, TypeOK, WindowType, BackendType
      <3>4. QED
        BY <2>1, <3>1, <3>2, <3>3, GiveUpTypes, MainSent
           DEF IInv, SaidAsShown, Same, TypeOK, WindowType, BackendType
    <2>2. CASE UNCHANGED <<shown, calls>>
      BY <1>2, <2>2 DEF Cancel, backend, IInv, SaidAsShown, Main
    <2>3. QED
      BY <1>2, <2>1, <2>2 DEF Cancel
  <1>3. ASSUME NEW k \in Kinds, Commit(k) PROVE SaidAsShown'
    <2>1. /\ phase[k] = "armed"
          /\ UNCHANGED <<offered, last, unsure, overrun>>
      BY <1>3 DEF Commit, backend, history
    <2>2. k \notin overrun => Main(k) = {}
      BY <2>1, NothingUnderWay
    <2>3. CASE GiveUp(k, "fail")
      <3>1. PICK d \in CallSet : Sent(d, k, "disarm")
        BY <2>3, Sends DEF Thens, IInv
      <3>2. QED
        BY <2>1, <2>2, <2>3, <3>1, GiveUpTypes, MainSent
           DEF IInv, SaidAsShown, Same, TypeOK, WindowType, BackendType
    <2>4. CASE ~GiveUp(k, "fail")
      <3>1. PICK d \in CallSet : /\ Sent(d, k, "commit")
                                 /\ d.job = frozen[k] /\ d.said = Said(k)
        BY <1>3, <2>4, Sends DEF IInv
      <3>2. shown' = IF k = "bank" THEN Clear(shown, k) ELSE shown
        BY <1>3, <2>4 DEF Commit
      <3>3. \A j \in Kinds \ {k} : shown'[j] = shown[j]
        BY <3>2, ClearTypes DEF IInv, TypeOK, WindowType, BackendType
      <3>4. d.said = Says(k, d.job, shown'[k])
        BY <3>1, <3>2 DEF Said, Says, Only
      <3>5. QED
        BY <2>1, <2>2, <3>1, <3>3, <3>4
           DEF Sent, Main, IInv, SaidAsShown, Same, TypeOK, WindowType,
               BackendType
    <2>5. QED
      BY <2>3, <2>4
  <1>4. ASSUME NEW k \in Kinds, Undo(k) PROVE SaidAsShown'
    <2>1. PICK d \in CallSet : Sent(d, k, "restore") /\ d.said = offered[k]
      BY <1>4, Sends DEF IInv
    <2>2. QED
      BY <1>4, <2>1
         DEF Undo, Sent, Main, backend, IInv, SaidAsShown, Same, TypeOK,
             WindowType, BackendType
  <1>5. ASSUME ReadFromSynth PROVE SaidAsShown'
    <2>1. UNCHANGED <<offered, last, unsure, overrun>> /\ "bank" \in Kinds
      BY <1>5 DEF ReadFromSynth, backend, history
    <2>2. CASE GiveUp("bank", "read")
      <3>1. PICK d \in CallSet : Sent(d, "bank", "disarm")
        BY <2>1, <2>2, Sends DEF Thens, IInv
      <3>2. phase["bank"] \notin {"arming", "writing"}
        BY <1>5 DEF ReadFromSynth, Working
      <3>3. "bank" \notin overrun => Main("bank") = {}
        BY <2>1, <3>2, NothingUnderWay
      <3>4. QED
        BY <2>1, <2>2, <3>1, <3>3, GiveUpTypes, MainSent
           DEF IInv, SaidAsShown, Same, TypeOK, WindowType, BackendType
    <2>3. CASE ~GiveUp("bank", "read")
      <3>1. PICK d \in CallSet : Sent(d, "bank", "read")
        BY <1>5, <2>1, <2>3, Sends DEF IInv
      <3>2. QED
        BY <1>5, <2>1, <2>3, <3>1, MainSent
           DEF ReadFromSynth, IInv, SaidAsShown, Same, TypeOK, WindowType,
               BackendType
    <2>4. QED
      BY <2>2, <2>3
  <1>6. ASSUME BackupEverything PROVE SaidAsShown'
    <2>1. PICK d \in CallSet : Sent(d, "bank", "read")
      BY <1>6, Sends DEF BackupEverything, IInv
    <2>2. QED
      BY <1>6, <2>1, MainSent
         DEF BackupEverything, SetPhase, backend, IInv, SaidAsShown, Same,
             TypeOK, WindowType, BackendType
  <1>7. ASSUME NEW c \in calls, Serve(c) PROVE SaidAsShown'
    <2>1. /\ c \in CallSet /\ c.kind \in Kinds
          /\ UNCHANGED <<shown, offered, overrun>>
      BY <1>7, ServedMoves DEF window, IInv, TypeOK, CallsType, CallSet
    <2>2. CASE Admit(c) \/ ServeArm(c) \/ ServeDisarm(c) \/ ServeRead(c)
      <3>1. last' = last
        BY <2>2 DEF Admit, ServeArm, ServeDisarm, ServeRead, backend
      <3>2. PICK d \in CallSet :
               /\ Moved(c, d)
               /\ d.op = "restore" /\ d.at = "answered" => d.result # "ok"
        <4>1. CASE Admit(c)
          <5>1. PICK at \in {"admitted", "answered"}, r \in {"none", "error"} :
                   Now(c, at, r)
            BY <4>1 DEF Admit, Answer
          <5>2. QED
            BY <2>1, <5>1, AnswerKeepsWas
        <4>2. CASE ServeArm(c) \/ ServeDisarm(c) \/ ServeRead(c)
          <5>1. c.op # "restore"
            BY <4>2 DEF ServeArm, ServeDisarm, ServeRead
          <5>2. QED
            BY <1>7, <5>1, ServedMoves DEF Moved, Same, IInv
        <4>3. QED
          BY <2>2, <4>1, <4>2
      <3>3. QED
        BY <2>1, <3>1, <3>2, MainMoved DEF Same, Moved, IInv, SaidAsShown, Same
    <2>3. CASE ServeCommit(c)
      <3>1. PICK d \in CallSet : Moved(c, d)
        BY <1>7, ServedMoves DEF IInv
      <3>2. c.op = "commit" /\ DOMAIN last' \subseteq DOMAIN last \cup {c.kind}
        BY <2>3 DEF ServeCommit, With
      <3>3. c.kind \notin overrun => Main(c.kind) = {c}
        BY <2>1, <3>2, MainIs
      <3>4. QED
        BY <2>1, <3>1, <3>2, <3>3, MainMoved
           DEF Same, Moved, IInv, SaidAsShown, Same
    <2>4. CASE ServeRestore(c)
      <3>1. PICK r \in {"ok", "error"} :
               /\ Answer(c, r)
               /\ \/ r = "ok" /\ last' = Without(last, c.kind)
                  \/ r = "error" /\ last' = last
        BY <2>4 DEF ServeRestore
      <3>2. PICK d \in CallSet :
               Moved(c, d) /\ d.at = "answered" /\ d.result = r
        BY <2>1, <3>1, AnswerMoves
      <3>3. /\ DOMAIN last' \subseteq DOMAIN last
            /\ r = "ok" => c.kind \notin DOMAIN last'
        BY <3>1 DEF Without
      <3>4. QED
        BY <2>1, <3>2, <3>3, MainMoved DEF Same, Moved, IInv, SaidAsShown, Same
    <2>5. QED
      BY <1>7, <2>2, <2>3, <2>4 DEF Serve
  <1>8. ASSUME NEW c \in calls, Armed(c) PROVE SaidAsShown'
    <2>1. /\ c \in CallSet /\ c.kind \in Kinds /\ c.op = "arm"
          /\ UNCHANGED <<offered, last, unsure, overrun>>
      BY <1>8 DEF Armed, backend, IInv, TypeOK, CallsType, CallSet
    <2>2. c.kind \notin overrun => Main(c.kind) = {c}
      BY <2>1, MainIs
    <2>3. \/ calls' = calls \ {c}
          \/ \E d \in CallSet : /\ calls' = (calls \ {c}) \cup {d}
                                 /\ d.kind = c.kind /\ d.op = "disarm"
      BY <1>8, <2>1, ArmingGivenUp, Zenon DEF Armed
    <2>4. \A j \in Kinds \ {c.kind} : shown'[j] = shown[j]
      BY <1>8, <2>1, ClearTypes
         DEF Armed, IInv, TypeOK, WindowType, BackendType
    <2>5. QED
      BY <2>1, <2>2, <2>3, <2>4, MainAnswered
         DEF IInv, SaidAsShown, Same, TypeOK, WindowType, BackendType
  <1>9. ASSUME NEW c \in calls, Committed(c) PROVE SaidAsShown'
    <2>1. c.kind \in Kinds /\ UNCHANGED <<last, overrun>>
      BY <1>9 DEF Committed, backend, history, IInv, TypeOK, CallsType, CallSet
    <2>2. c.kind \notin overrun => Main(c.kind) = {c}
      BY <1>9, <2>1, MainIs DEF Committed
    <2>3. \A j \in Kinds \ {c.kind} : /\ shown'[j] = shown[j]
                                     /\ offered'[j] = offered[j]
      BY <1>9, <2>1, ClearTypes
         DEF Committed, IInv, TypeOK, WindowType, BackendType
    <2>4. calls' = calls \ {c}
      BY <1>9 DEF Committed
    <2>5. QED
      BY <2>1, <2>2, <2>3, <2>4, MainAnswered
         DEF IInv, SaidAsShown, Same, TypeOK, WindowType, BackendType
  <1>10. ASSUME NEW c \in calls, Undone(c) PROVE SaidAsShown'
    <2>1. c.kind \in Kinds /\ UNCHANGED <<shown, last, overrun>>
      BY <1>10 DEF Undone, backend, history, IInv, TypeOK, CallsType, CallSet
    <2>2. c.kind \notin overrun => Main(c.kind) = {c}
      BY <1>10, <2>1, MainIs DEF Undone
    <2>3. \A j \in Kinds \ {c.kind} : offered'[j] = offered[j]
      BY <1>10, <2>1, ClearTypes
         DEF Undone, IInv, TypeOK, WindowType, BackendType
    <2>4. calls' = calls \ {c}
      BY <1>10 DEF Undone
    <2>5. QED
      BY <2>1, <2>2, <2>3, <2>4, MainAnswered
         DEF IInv, SaidAsShown, Same, TypeOK, WindowType, BackendType
  <1>11. ASSUME NEW c \in calls, ReadDone(c) PROVE SaidAsShown'
    BY <1>11, MainAnswered DEF ReadDone, SetPhase, backend, IInv, SaidAsShown,
       TypeOK, WindowType, BackendType
  <1>12. ASSUME NEW c \in calls, Disarmed(c) PROVE SaidAsShown'
    <2>1. c \in CallSet /\ c.op = "disarm"
      BY <1>12 DEF Disarmed, IInv, TypeOK, CallsType
    <2>2. \/ calls' = calls \ {c}
          \/ \E d \in CallSet : /\ calls' = (calls \ {c}) \cup {d}
                                 /\ d.kind = c.kind /\ d.op = "read"
      BY <1>12, <2>1, ReadFollows DEF Disarmed
    <2>3. /\ overrun \subseteq overrun'
          /\ UNCHANGED <<shown, offered, last, unsure>>
      BY <1>12 DEF Disarmed, SetPhase, backend
    <2>4. \A k : Main(k)' = Main(k)
      BY <2>1, <2>2 DEF Main
    <2>5. QED
      BY <2>3, <2>4 DEF IInv, SaidAsShown
  <1>13. ASSUME Reconnect PROVE SaidAsShown'
    BY <1>13, NothingIsImage
       DEF Reconnect, window, history, IInv, SaidAsShown, Main
  <1>14. CASE UNCHANGED <<shown, offered, calls, last, overrun>>
    BY <1>14 DEF IInv, SaidAsShown, Main
  <1>15. QED
    BY <1>1, <1>2, <1>3, <1>4, <1>5, <1>6, <1>7, <1>8, <1>9, <1>10,
       <1>11, <1>12, <1>13, <1>14
       DEF Next, Clicks, Served, Answers, Serve, Expire, Late,
           vars, window, backend, history

(* What a save would put back stays what its panel offers when neither     *)
(* changes, and no commit of it is on its way or has come back.            *)
Kept(k) ==
    /\ k \in DOMAIN last \ (unsure \cup overrun)
    /\ last'[k] = last[k] /\ offered'[k] = offered[k]
    /\ \/ Main(k)' = Main(k) /\ shown'[k] = shown[k]
       \/ \A c \in Main(k) \cup Main(k)' : c.op # "commit"

LEMMA OffersStep ==
    ASSUME IInv,
           \A k \in DOMAIN last' \ (unsure' \cup overrun') :
               Kept(k) \/ Offers(k)'
    PROVE  OffersWhatIsRemembered'
  <1>1. ASSUME NEW k \in DOMAIN last' \ (unsure' \cup overrun'), Kept(k)
        PROVE  Offers(k)'
    <2>1. Offers(k)
      BY <1>1 DEF Kept, IInv, OffersWhatIsRemembered
    <2>2. CASE Main(k)' = Main(k) /\ shown'[k] = shown[k]
      BY <1>1, <2>1, <2>2, OffersLast DEF Kept
    <2>3. CASE \A c \in Main(k) \cup Main(k)' : c.op # "commit"
      BY <1>1, <2>1, <2>3 DEF Kept, Offers, ToCommit, HasCommitted
    <2>4. QED
      BY <1>1, <2>2, <2>3 DEF Kept
  <1>2. QED
    BY <1>1 DEF OffersWhatIsRemembered

(* No undo is offered of the bank, and a panel is one of the panels.       *)
LEMMA SavesAreRemembered ==
    ASSUME IInv
    PROVE  \A k \in DOMAIN last : k \in Kinds /\ k # "bank"
  BY DEF IInv, TypeOK, BackendType, SaveKinds

(* What the connection would put back is what the panel offers.            *)
LEMMA KeepsOffers ==
    ASSUME IInv, [Next]_vars
    PROVE  OffersWhatIsRemembered'
  <1>1. ASSUME NEW k \in Kinds, NEW J \in Jobs[k], Arm(k, J)
        PROVE  OffersWhatIsRemembered'
    <2>1. PICK d \in CallSet : Sent(d, k, "arm")
      BY <1>1, Sends DEF IInv
    <2>2. k \notin overrun => Main(k) = {}
      BY <1>1, NothingUnderWay DEF Arm, MayArm, Working
    <2>3. UNCHANGED <<shown, offered, last, unsure, overrun>>
      BY <1>1 DEF Arm, backend, history
    <2>4. \A j \in DOMAIN last' \ (unsure' \cup overrun') : Kept(j)
      BY <2>1, <2>2, <2>3, MainSent DEF Sent, Kept
    <2>5. QED
      BY <2>4, OffersStep
  <1>2. ASSUME NEW k \in Kinds, Cancel(k) PROVE OffersWhatIsRemembered'
    <2>1. UNCHANGED <<offered, last, unsure, overrun>>
      BY <1>2 DEF Cancel, backend
    <2>2. CASE GiveUp(k, "nothing")
      <3>1. PICK d \in CallSet : Sent(d, k, "disarm")
        BY <2>2, Sends DEF Thens, IInv
      <3>2. k \notin overrun => Main(k) = {}
        BY <1>2, <2>2, NothingUnderWay
           DEF Cancel, GiveUp, IInv, TypeOK, WindowType, BackendType
      <3>3. \A j \in Kinds \ {k} : shown'[j] = shown[j]
        BY <2>2, GiveUpTypes DEF IInv, TypeOK
      <3>4. \A j \in DOMAIN last' \ (unsure' \cup overrun') : Kept(j)
        BY <2>1, <3>1, <3>2, <3>3, MainSent, SavesAreRemembered DEF Kept
      <3>5. QED
        BY <3>4, OffersStep
    <2>3. CASE UNCHANGED <<shown, calls>>
      <3>1. \A j \in DOMAIN last' \ (unsure' \cup overrun') : Kept(j)
        BY <2>1, <2>3 DEF Kept, Main
      <3>2. QED
        BY <3>1, OffersStep
    <2>4. QED
      BY <1>2, <2>2, <2>3 DEF Cancel
  <1>3. ASSUME NEW k \in Kinds, Commit(k) PROVE OffersWhatIsRemembered'
    <2>1. /\ phase[k] = "armed"
          /\ UNCHANGED <<offered, last, unsure, overrun>>
      BY <1>3 DEF Commit, backend, history
    <2>2. k \notin overrun => Main(k) = {}
      BY <2>1, NothingUnderWay
    <2>3. CASE GiveUp(k, "fail")
      <3>1. PICK d \in CallSet : Sent(d, k, "disarm")
        BY <2>3, Sends DEF Thens, IInv
      <3>2. \A j \in Kinds \ {k} : shown'[j] = shown[j]
        BY <2>3, GiveUpTypes DEF IInv, TypeOK
      <3>3. \A j \in DOMAIN last' \ (unsure' \cup overrun') : Kept(j)
        BY <2>1, <2>2, <3>1, <3>2, MainSent, SavesAreRemembered DEF Kept
      <3>4. QED
        BY <3>3, OffersStep
    <2>4. CASE ~GiveUp(k, "fail")
      <3>1. PICK d \in CallSet : Sent(d, k, "commit")
        BY <1>3, <2>4, Sends DEF IInv
      <3>2. shown' = IF k = "bank" THEN Clear(shown, k) ELSE shown
        BY <1>3, <2>4 DEF Commit
      <3>3. \A j \in Kinds \ {k} : shown'[j] = shown[j]
        BY <3>2, ClearTypes DEF IInv, TypeOK, WindowType, BackendType
      <3>4. Offers(k)'
        BY <3>1 DEF Sent, Offers, Main, ToCommit
      <3>5. \A j \in DOMAIN last' \ (unsure' \cup overrun') : j # k => Kept(j)
        BY <2>1, <3>1, <3>3, MainSent, SavesAreRemembered DEF Kept
      <3>6. QED
        BY <3>4, <3>5, OffersStep
    <2>5. QED
      BY <2>3, <2>4
  <1>4. ASSUME NEW k \in Kinds, Undo(k) PROVE OffersWhatIsRemembered'
    <2>1. PICK d \in CallSet : Sent(d, k, "restore")
      BY <1>4, Sends DEF IInv
    <2>2. k \notin overrun => Main(k) = {}
      BY <1>4, NothingUnderWay DEF Undo, Working
    <2>3. UNCHANGED <<shown, offered, last, unsure, overrun>>
      BY <1>4 DEF Undo, backend
    <2>4. \A j \in DOMAIN last' \ (unsure' \cup overrun') : Kept(j)
      BY <2>1, <2>2, <2>3, MainSent DEF Sent, Kept
    <2>5. QED
      BY <2>4, OffersStep
  <1>5. ASSUME ReadFromSynth PROVE OffersWhatIsRemembered'
    <2>1. /\ UNCHANGED <<offered, last, unsure, overrun>>
          /\ "bank" \in Kinds
      BY <1>5 DEF ReadFromSynth, backend, history
    <2>2. CASE GiveUp("bank", "read")
      <3>1. PICK d \in CallSet : Sent(d, "bank", "disarm")
        BY <2>1, <2>2, Sends DEF Thens, IInv
      <3>2. \A j \in Kinds \ {"bank"} : shown'[j] = shown[j]
        BY <2>1, <2>2, GiveUpTypes DEF IInv, TypeOK
      <3>3. \A j \in DOMAIN last' \ (unsure' \cup overrun') : Kept(j)
        BY <2>1, <3>1, <3>2, MainSent, SavesAreRemembered DEF Kept
      <3>4. QED
        BY <3>3, OffersStep
    <2>3. CASE ~GiveUp("bank", "read")
      <3>1. PICK d \in CallSet : Sent(d, "bank", "read")
        BY <1>5, <2>1, <2>3, Sends DEF IInv
      <3>2. shown' = shown
        BY <1>5, <2>3 DEF ReadFromSynth
      <3>3. \A j \in DOMAIN last' \ (unsure' \cup overrun') : Kept(j)
        BY <2>1, <3>1, <3>2, MainSent, SavesAreRemembered DEF Kept
      <3>4. QED
        BY <3>3, OffersStep
    <2>4. QED
      BY <2>2, <2>3
  <1>6. ASSUME BackupEverything PROVE OffersWhatIsRemembered'
    <2>1. PICK d \in CallSet : Sent(d, "bank", "read")
      BY <1>6, Sends DEF BackupEverything, IInv
    <2>2. /\ UNCHANGED <<shown, offered, last, unsure>>
          /\ overrun \subseteq overrun'
      BY <1>6 DEF BackupEverything, SetPhase, backend
    <2>3. \A j \in DOMAIN last' \ (unsure' \cup overrun') : Kept(j)
      BY <2>1, <2>2, MainSent, SavesAreRemembered DEF Kept
    <2>4. QED
      BY <2>3, OffersStep
  <1>7. ASSUME NEW c \in calls, Serve(c) PROVE OffersWhatIsRemembered'
    <2>1. /\ c \in CallSet /\ c.kind \in Kinds
          /\ UNCHANGED <<shown, offered, overrun>>
      BY <1>7, ServedMoves DEF window, IInv, TypeOK, CallsType, CallSet
    <2>2. CASE Admit(c)
      <3>1. PICK at \in {"admitted", "answered"}, r \in {"none", "error"} :
               /\ Now(c, at, r)
               /\ at = "answered" /\ c.op = "commit" => c.kind \in unsure'
        BY <2>2 DEF Admit, Answer
      <3>2. PICK d \in CallSet : Moved(c, d) /\ d.at = at
        BY <2>1, <3>1, AnswerKeepsWas
      <3>3. last' = last /\ unsure \subseteq unsure'
        BY <2>2 DEF Admit, backend
      <3>4. \A j \in DOMAIN last' \ (unsure' \cup overrun') :
               j # c.kind => Kept(j)
        BY <2>1, <3>2, <3>3, MainMoved DEF Kept
      <3>5. CASE c.op = "commit" /\ c.kind \notin unsure'
        <4>1. d \in Main(c.kind)' /\ ToCommit(d)
          BY <3>1, <3>2, <3>5 DEF Moved, Same, Main, ToCommit
        <4>2. Offers(c.kind)'
          BY <4>1 DEF Offers
        <4>3. QED
          BY <3>4, <4>2, OffersStep
      <3>6. CASE c.kind \in unsure'
        BY <3>4, <3>6, OffersStep
      <3>7. CASE c.op # "commit"
        <4>1. c.kind \in DOMAIN last' \ (unsure' \cup overrun') => Kept(c.kind)
          <5>1. CASE c.op \in {"arm", "restore"}
            <6>1. c.kind \notin overrun =>
                     Main(c.kind) = {c} /\ Main(c.kind)' = {d}
              BY <3>2, <5>1, MainIs, MainMoved
            <6>2. QED
              BY <2>1, <3>2, <3>3, <3>7, <6>1 DEF Kept, Moved, Same
          <5>2. CASE c.op \notin {"arm", "commit", "restore"}
            BY <2>1, <3>2, <3>3, <5>2, MainMoved DEF Kept
          <5>3. QED
            BY <3>7, <5>1, <5>2
        <4>2. QED
          BY <3>4, <4>1, OffersStep
      <3>8. QED
        BY <3>5, <3>6, <3>7
    <2>3. CASE ServeArm(c) \/ ServeDisarm(c) \/ ServeRead(c) \/ ServeRestore(c)
      <3>1. PICK d \in CallSet : Moved(c, d)
        BY <1>7, ServedMoves DEF IInv
      <3>2. /\ c.op # "commit" /\ unsure' = unsure
            /\ last' = last \/ last' = Without(last, c.kind)
        BY <2>3
           DEF ServeArm, ServeDisarm, ServeRead, ServeRestore, backend,
               history
      <3>3. \A k \in DOMAIN last' : k \in DOMAIN last /\ last'[k] = last[k]
        BY <3>2 DEF Without
      <3>4. \A j \in DOMAIN last' \ (unsure' \cup overrun') :
               j # c.kind => Kept(j)
        BY <2>1, <3>1, <3>2, <3>3, MainMoved DEF Kept
      <3>5. c.kind \in DOMAIN last' \ (unsure' \cup overrun') => Kept(c.kind)
        <4>1. CASE c.op \in {"arm", "restore"}
          <5>1. c.kind \notin overrun =>
                   Main(c.kind) = {c} /\ Main(c.kind)' = {d}
            BY <3>1, <4>1, MainIs, MainMoved
          <5>2. QED
            BY <2>1, <3>1, <3>2, <3>3, <5>1 DEF Kept, Moved, Same
        <4>2. CASE c.op \notin {"arm", "commit", "restore"}
          BY <2>1, <3>1, <3>2, <3>3, <4>2, MainMoved DEF Kept
        <4>3. QED
          BY <3>2, <4>1, <4>2
      <3>6. QED
        BY <3>4, <3>5, OffersStep
    <2>4. CASE ServeCommit(c)
      <3>1. PICK d \in CallSet : Moved(c, d) /\ d.at = "answered"
        BY <2>1, <2>4, AnswerMoves DEF ServeCommit
      <3>2. c.op = "commit" /\ ToCommit(c)
        BY <2>4 DEF ServeCommit, ToCommit
      <3>3. CASE last' = last /\ unsure' = unsure \cup {c.kind}
        <4>1. \A j \in DOMAIN last' \ (unsure' \cup overrun') : Kept(j)
          BY <2>1, <3>1, <3>3, MainMoved DEF Kept
        <4>2. QED
          BY <4>1, OffersStep
      <3>4. CASE /\ MayWrite(c) /\ unsure' = unsure \ {c.kind}
                 /\ last' = IF c.kind = "bank" THEN last
                            ELSE With(last, c.kind, held[c.kind])
        <4>1. \A k \in DOMAIN last' : k # c.kind =>
                 k \in DOMAIN last /\ last'[k] = last[k]
          BY <3>4 DEF With
        <4>2. \A j \in DOMAIN last' \ (unsure' \cup overrun') :
                 j # c.kind => Kept(j)
          BY <2>1, <3>1, <3>4, <4>1, MainMoved DEF Kept
        <4>3. ASSUME c.kind \in DOMAIN last' \ (unsure' \cup overrun')
              PROVE  Offers(c.kind)'
          <5>1. c.kind # "bank"
            BY <3>4, <4>3, SavesAreRemembered
          <5>2. last'[c.kind] = held[c.kind]
            BY <3>4, <5>1 DEF With
          <5>3. shown[c.kind] = held[c.kind]
            <6>1. c.kind \in DOMAIN held \ overrun /\ c \in Main(c.kind)
              BY <2>1, <3>2, <3>4, <4>3 DEF MayWrite, Main
            <6>2. QED
              BY <3>2, <5>1, <6>1 DEF IInv, ShownIsHeld
          <5>4. d \in Main(c.kind)' /\ HasCommitted(d)
            BY <3>1, <3>2 DEF Moved, Same, Main, HasCommitted
          <5>5. QED
            BY <2>1, <5>2, <5>3, <5>4 DEF Offers
        <4>4. QED
          BY <4>2, <4>3, OffersStep
      <3>5. QED
        BY <2>4, <3>3, <3>4 DEF ServeCommit
    <2>5. QED
      BY <1>7, <2>2, <2>3, <2>4 DEF Serve
  <1>8. ASSUME NEW c \in calls, Armed(c) PROVE OffersWhatIsRemembered'
    <2>1. /\ c \in CallSet /\ c.kind \in Kinds /\ c.op = "arm"
          /\ UNCHANGED <<offered, last, unsure, overrun>>
      BY <1>8 DEF Armed, backend, IInv, TypeOK, CallsType, CallSet
    <2>2. \/ calls' = calls \ {c}
          \/ \E d \in CallSet : /\ calls' = (calls \ {c}) \cup {d}
                                 /\ d.kind = c.kind /\ d.op = "disarm"
      BY <1>8, <2>1, ArmingGivenUp, Zenon DEF Armed
    <2>3. c.kind \notin overrun => Main(c.kind) = {c}
      BY <2>1, MainIs
    <2>4. \A j : Main(j)' = Main(j) \ {c}
      BY <2>2, MainAnswered
    <2>5. \A j \in Kinds \ {c.kind} : shown'[j] = shown[j] /\ c \notin Main(j)
      BY <1>8, <2>1, ClearTypes
         DEF Armed, Main, IInv, TypeOK, WindowType, BackendType
    <2>6. \A j \in Kinds \ {c.kind} : Main(j)' = Main(j)
      BY <2>4, <2>5
    <2>7. \A j \in DOMAIN last' \ (unsure' \cup overrun') : Kept(j)
      BY <2>1, <2>3, <2>4, <2>5, <2>6, SavesAreRemembered DEF Kept
    <2>8. QED
      BY <2>7, OffersStep
  <1>9. ASSUME NEW c \in calls, Committed(c) PROVE OffersWhatIsRemembered'
    <2>1. /\ c.kind \in Kinds /\ UNCHANGED <<last, unsure, overrun>>
          /\ c.op = "commit" /\ c.at = "answered" /\ calls' = calls \ {c}
      BY <1>9 DEF Committed, backend, history, IInv, TypeOK, CallsType, CallSet
    <2>2. \A j : Main(j)' = Main(j) \ {c}
      BY <2>1, MainAnswered
    <2>3. \A j \in Kinds \ {c.kind} : /\ shown'[j] = shown[j]
                                     /\ offered'[j] = offered[j]
                                     /\ c \notin Main(j)
      BY <1>9, <2>1, ClearTypes
         DEF Committed, Main, IInv, TypeOK, WindowType, BackendType
    <2>4. \A j \in DOMAIN last' \ (unsure' \cup overrun') :
             j # c.kind => Kept(j)
      <3>1. \A j \in Kinds \ {c.kind} : Main(j)' = Main(j)
        BY <2>2, <2>3
      <3>2. QED
        BY <2>1, <2>3, <3>1, SavesAreRemembered DEF Kept
    <2>5. ASSUME c.kind \in DOMAIN last' \ (unsure' \cup overrun')
          PROVE  Offers(c.kind)'
      <3>1. Main(c.kind) = {c} /\ Main(c.kind)' = {}
        BY <2>1, <2>2, <2>5, MainIs
      <3>2. Offers(c.kind)
        BY <2>1, <2>5 DEF IInv, OffersWhatIsRemembered
      <3>3. last[c.kind] = shown[c.kind]
        BY <2>1, <3>1, <3>2 DEF Offers, ToCommit
      <3>4. offered'[c.kind] = shown[c.kind]
        <4>1. c.kind \in SaveKinds
          BY <2>1, <2>5, SavesAreRemembered DEF SaveKinds
        <4>2. QED
          BY <1>9, <2>1, <4>1
             DEF Committed, IInv, TypeOK, WindowType, BackendType
      <3>5. QED
        BY <2>1, <3>1, <3>3, <3>4 DEF Offers
    <2>6. QED
      BY <2>4, <2>5, OffersStep
  <1>10. ASSUME NEW c \in calls, Undone(c) PROVE OffersWhatIsRemembered'
    <2>1. /\ c.kind \in Kinds /\ UNCHANGED <<shown, last, unsure, overrun>>
          /\ c.op = "restore" /\ c.at = "answered" /\ calls' = calls \ {c}
      BY <1>10 DEF Undone, backend, history, IInv, TypeOK, CallsType, CallSet
    <2>2. \A j : Main(j)' = Main(j) \ {c}
      BY <2>1, MainAnswered
    <2>3. \A j \in Kinds \ {c.kind} :
             offered'[j] = offered[j] /\ c \notin Main(j)
      BY <1>10, <2>1, ClearTypes
         DEF Undone, Main, IInv, TypeOK, WindowType, BackendType
    <2>4. c.kind \in DOMAIN last \ overrun =>
             Main(c.kind) = {c} /\ offered' = offered
      <3>1. ASSUME c.kind \in DOMAIN last \ overrun PROVE c.result # "ok"
        <4>1. c \in Main(c.kind)
          BY <2>1 DEF Main
        <4>2. QED
          BY <2>1, <3>1, <4>1 DEF IInv, SaidAsShown
      <3>2. QED
        BY <1>10, <2>1, <3>1, MainIs DEF Undone
    <2>5. \A j \in DOMAIN last' \ (unsure' \cup overrun') : Kept(j)
      <3>1. \A j \in Kinds \ {c.kind} : Main(j)' = Main(j)
        BY <2>2, <2>3
      <3>2. QED
        BY <2>1, <2>2, <2>3, <2>4, <3>1, SavesAreRemembered DEF Kept
    <2>6. QED
      BY <2>5, OffersStep
  <1>11. ASSUME NEW c \in calls, ReadDone(c) PROVE OffersWhatIsRemembered'
    <2>1. /\ c.op = "read" /\ calls' = calls \ {c}
          /\ UNCHANGED <<shown, offered, last, unsure>>
          /\ overrun \subseteq overrun'
      BY <1>11 DEF ReadDone, SetPhase, backend
    <2>2. \A j : Main(j)' = Main(j)
      BY <2>1 DEF Main
    <2>3. \A j \in DOMAIN last' \ (unsure' \cup overrun') : Kept(j)
      BY <2>1, <2>2 DEF Kept
    <2>4. QED
      BY <2>3, OffersStep
  <1>12. ASSUME NEW c \in calls, Disarmed(c) PROVE OffersWhatIsRemembered'
    <2>1. /\ c \in CallSet /\ c.op = "disarm"
          /\ UNCHANGED <<shown, offered, last, unsure>>
          /\ overrun \subseteq overrun'
      BY <1>12 DEF Disarmed, SetPhase, backend, IInv, TypeOK, CallsType
    <2>2. \/ calls' = calls \ {c}
          \/ \E d \in CallSet : /\ calls' = (calls \ {c}) \cup {d}
                                 /\ d.kind = c.kind /\ d.op = "read"
      BY <1>12, <2>1, ReadFollows DEF Disarmed
    <2>3. \A j : Main(j)' = Main(j)
      BY <2>1, <2>2 DEF Main
    <2>4. \A j \in DOMAIN last' \ (unsure' \cup overrun') : Kept(j)
      BY <2>1, <2>3 DEF Kept
    <2>5. QED
      BY <2>4, OffersStep
  <1>13. ASSUME Reconnect PROVE OffersWhatIsRemembered'
    BY <1>13, NothingIsImage DEF Reconnect, OffersWhatIsRemembered
  <1>14. CASE UNCHANGED <<shown, offered, calls, last, unsure, overrun>>
    <2>1. \A j \in DOMAIN last' \ (unsure' \cup overrun') : Kept(j)
      BY <1>14 DEF Kept, Main
    <2>2. QED
      BY <2>1, OffersStep
  <1>15. QED
    BY <1>1, <1>2, <1>3, <1>4, <1>5, <1>6, <1>7, <1>8, <1>9, <1>10,
       <1>11, <1>12, <1>13, <1>14
       DEF Next, Clicks, Served, Answers, Serve, Expire, Late,
           vars, window, backend, history

-----------------------------------------------------------------------------
(* The theorems.                                                           *)

LEMMA InitHolds == Init => IInv
  <1> SUFFICES ASSUME Init PROVE IInv
    OBVIOUS
  <1>1. Nothing \in Images /\ DOMAIN Nothing = {}
    BY NothingIsImage
  <1>2. TypeOK
    BY <1>1 DEF Init, TypeOK, WindowType, CallsType, BackendType, Phases
  <1>3. OneAtATime /\ Leaving /\ HeldForAReason
    BY <1>1 DEF Init, OneAtATime, Leaving, HeldForAReason, Main
  <1>4. FrozenIsAJob /\ ShownIsHeld /\ SaidAsShown
    BY <1>1 DEF Init, FrozenIsAJob, ShownIsHeld, SaidAsShown, Main
  <1>5. OffersWhatIsRemembered
    BY <1>1 DEF Init, OffersWhatIsRemembered
  <1>6. QED
    BY <1>2, <1>3, <1>4, <1>5 DEF IInv

LEMMA StepHolds == IInv /\ [Next]_vars => IInv'
  <1> SUFFICES ASSUME IInv, [Next]_vars PROVE IInv'
    OBVIOUS
  <1>1. TypeOK'
    BY WindowTypes, CallsTypes, BackendTypes DEF IInv, TypeOK
  <1>2. OneAtATime' /\ Leaving' /\ HeldForAReason' /\ FrozenIsAJob'
    BY KeepsOneAtATime, KeepsLeaving, KeepsHeldForAReason, KeepsFrozenIsAJob
  <1>3. ShownIsHeld' /\ SaidAsShown' /\ OffersWhatIsRemembered'
    BY KeepsShownIsHeld, KeepsSaidAsShown, KeepsOffers
  <1>4. QED
    BY <1>1, <1>2, <1>3 DEF IInv

(* The invariant holds in every state of every behaviour.                  *)
THEOREM Inductive == Spec => []IInv
  BY InitHolds, StepHolds, PTL DEF Spec

(* What the panels, their commands and the connection keep has the types   *)
(* declared above: an image is never of an area the instrument has not.    *)
THEOREM TypeCorrect == Spec => []TypeOK
  <1>1. IInv => TypeOK
    BY DEF IInv
  <1>2. QED
    BY <1>1, Inductive, PTL

(* No arming is left behind a panel that is closed, or shows another.      *)
THEOREM NoneLeftArmed == Spec => []NotLeftArmed
  <1>1. ASSUME IInv PROVE NotLeftArmed
    <2>1. SUFFICES ASSUME NEW k \in DOMAIN held, k \notin refused \cup overrun,
                          phase[k] # "armed" \/ k \in gone,
                          ~Disarming(k)
                   PROVE  phase[k] \in {"arming", "writing"}
      BY DEF NotLeftArmed, Disarming
    <2>2. k \in Kinds
      BY <1>1 DEF IInv, TypeOK, BackendType
    <2>3. PICK c \in Main(k) : Arming(c) \/ ToCommit(c)
      BY <1>1, <2>1 DEF IInv, HeldForAReason, Carries
    <2>4. QED
      BY <1>1, <2>1, <2>2, <2>3 DEF IInv, OneAtATime
  <1>2. QED
    BY <1>1, Inductive, PTL

(* Whatever the connection is about to write is what the screen said when  *)
(* the user agreed to it.                                                  *)
THEOREM WritesAsSaid == Spec => []WritesWhatWasSaid
  <1>1. ASSUME IInv PROVE WritesWhatWasSaid
    <2>1. SUFFICES ASSUME NEW c \in calls, c.at = "admitted",
                          c.kind \notin overrun
                   PROVE  /\ c.op = "commit" /\ MayWrite(c)
                                 => Written(c) = c.said
                          /\ /\ c.op = "restore"
                             /\ c.kind \in DOMAIN last \ unsure
                             => last[c.kind] = c.said
      BY DEF WritesWhatWasSaid
    <2>2. c.kind \in Kinds
      BY <1>1 DEF IInv, TypeOK, CallsType, CallSet
    <2>3. ASSUME c.op = "commit", MayWrite(c)
          PROVE  Written(c) = c.said
      <3>1. c \in Main(c.kind) /\ ToCommit(c) /\ c.kind \in DOMAIN held
        BY <2>1, <2>3 DEF Main, ToCommit, MayWrite
      <3>2. c.said = Says(c.kind, c.job, shown[c.kind])
        BY <1>1, <2>1, <2>2, <2>3, <3>1 DEF IInv, SaidAsShown
      <3>3. CASE c.kind = "bank"
        BY <3>2, <3>3 DEF Says, Written
      <3>4. CASE c.kind # "bank"
        <4>1. shown[c.kind] = held[c.kind]
          BY <1>1, <2>1, <3>1, <3>4 DEF IInv, ShownIsHeld
        <4>2. c.job \in Jobs[c.kind]
          BY <1>1, <2>3 DEF IInv, FrozenIsAJob
        <4>3. (CHOOSE v \in Sound : \E b \in DOMAIN c.job : v = c.job[b])
                 = Only(c.job)
          BY <2>2, <3>4, <4>2, OnlySound
        <4>4. QED
          BY <3>2, <3>4, <4>1, <4>3 DEF Says, Written
      <3>5. QED
        BY <3>3, <3>4
    <2>4. ASSUME c.op = "restore", c.kind \in DOMAIN last \ unsure
          PROVE  last[c.kind] = c.said
      <3>1. Main(c.kind) = {c}
        BY <1>1, <2>1, <2>4, MainIs
      <3>2. c.said = offered[c.kind]
        BY <1>1, <2>1, <2>2, <2>4, <3>1 DEF IInv, SaidAsShown
      <3>3. Offers(c.kind)
        BY <1>1, <2>1, <2>4 DEF IInv, OffersWhatIsRemembered
      <3>4. QED
        BY <2>4, <3>1, <3>2, <3>3 DEF Offers, ToCommit, HasCommitted
    <2>5. QED
      BY <2>3, <2>4
  <1>2. QED
    BY <1>1, Inductive, PTL
=============================================================================
