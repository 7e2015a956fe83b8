------------------------------ MODULE LiveEdit ------------------------------
(***************************************************************************)
(* Live editing: the sound on the screen, the queue that carries edits to  *)
(* the instrument's temporary patch, and what the screen claims about the  *)
(* two (ui/src/model: store.svelte.ts over liveQueue.ts over transport.ts, *)
(* with the Fetch and Verify buttons of editor/SynthBar.svelte, the poll   *)
(* for panel changes of synth.svelte.ts and, past the store, the hover     *)
(* audition of preview.svelte.ts).                                         *)
(*                                                                         *)
(* The editor is one thread of callbacks.  Each step below is one of them, *)
(* from the event that starts it to its next await: an edit, a timer, a    *)
(* promise that settles.  The instrument, the cable and the panel move in  *)
(* between.                                                                *)
(*                                                                         *)
(* A sound is one value per parameter.  An edit sends one frame for a      *)
(* parameter, a whole patch one frame per block; a block holds one         *)
(* parameter here, so both kinds write one value and differ in their key.  *)
(***************************************************************************)
EXTENDS Integers, Sequences, FiniteSets

CONSTANTS
    NParams,       \* parameters of a sound
    Value,         \* what a parameter can hold
    NoSound,       \* no answer yet
    Sounds,        \* the sounds that can be opened, and chosen on the panel
    Stored,        \* those of the library that can be auditioned
    MaxAttempts,   \* LiveQueueOptions.maxAttempts
    BulkLimit,     \* BULK_LIVE_LIMIT
    Reads,         \* bound: the reads the user asks for ("fetch", "verify")
    MaxActs,       \* bound: acts of the user and of the panel
    MaxFailures    \* bound: sends that fail on an open connection

Param == 1..NParams
Sound == [Param -> Value]
(* A waiting frame is keyed by what it writes: a parameter (paramAddressOf)*)
(* or, in a whole patch, its place (-1 - i).                               *)
Key    == Param \cup {-p : p \in Param}
Loc(k) == IF k < 0 THEN -k ELSE k
Frame  == [key : Key, val : Value]
(* A frame at the gate, and whose it is.                                   *)
Gated  == [by : {"queue", "preview"}, frame : Frame]

ASSUME SoundAssumption ==
    /\ NParams \in Nat \ {0}
    /\ Sounds \subseteq Sound /\ Sounds # {} /\ NoSound \notin Sound
    /\ Stored \subseteq Sound
ASSUME QueueAssumption == MaxAttempts \in Nat \ {0} /\ BulkLimit \in Nat
ASSUME ReadsAssumption == Reads \subseteq {"fetch", "verify"}
ASSUME BoundAssumption == MaxActs \in Nat /\ MaxFailures \in Nat

VARIABLES
    doc,       \* PatchStore.doc
    sync,      \* PatchStore.sync, what the screen claims
    live,      \* PatchStore.live
    marks,     \* those that hold of baseSent, fullPending and liveDirty
    pending,   \* LiveQueue.pendingFrames, a Map in insertion order
    attempts,  \* LiveQueue.attempts
    timer,     \* LiveQueue.timer
    lost,      \* LiveQueue.lostCount
    lastSend,  \* LiveQueue.lastFailed
    gate,      \* PacedTransport: frames in flight, one at a time
    reply,     \* how the first of them fared
    link,      \* TauriTransport.connected
    reading,   \* the read in progress (synth.busy)
    answer,    \* what it read
    moved,     \* PatchStore.rev changed since the read began
    hearing,   \* PreviewService: the step under way
    sounding,   \* the sound that step sends
    saved,     \* PreviewService.saved
    poll,      \* the poll for a panel change
    heard,     \* Client.events: the panel's Program Change
    temp,      \* the instrument: its temporary patch
    acts, failures,  \* bounds
    spoiled    \* history: the known ways a claim goes wrong

queue  == <<pending, attempts, timer, lost, lastSend>>
store  == <<doc, sync, live, marks>>
bar    == <<reading, answer, moved>>
panel  == <<poll, heard>>
audition == <<hearing, sounding, saved>>
vars   == <<store, queue, gate, reply, link, bar, audition, panel, temp, acts,
            failures, spoiled>>

Syncs == {"local", "edited", "sent", "tempVerified", "stale", "mismatch"}
Marks == {"baseSent", "fullPending", "liveDirty"}
NoAttempts == [k \in Key |-> 0]

QueueType ==
    /\ pending \in Seq(Frame)
    /\ \A i, j \in DOMAIN pending : pending[i].key = pending[j].key => i = j
    /\ attempts \in [Key -> 0..MaxAttempts - 1]
    /\ timer = IF pending = <<>> THEN "none" ELSE "set"
    /\ lost \in Nat /\ lastSend \in {"ok", "failed"}

TypeOK ==
    /\ QueueType
    /\ doc \in Sound /\ temp \in Sound
    /\ sync \in Syncs /\ live \in {"on", "off"} /\ marks \subseteq Marks
    /\ gate \in Seq(Gated)
    /\ reply \in {"none", "ok", "failed"} /\ (gate = <<>> => reply = "none")
    /\ link \in {"up", "down"}
    /\ reading \in {"none", "fetch", "verify"} /\ answer \in Sound \cup {NoSound}
    /\ moved \in {"no", "yes"}
    /\ hearing \in {"quiet", "reading", "sending", "restoring"}
    /\ sounding \in Sound \cup {NoSound} /\ saved \in Sound \cup {NoSound}
    /\ poll \in {"idle", "asked", "told"} /\ heard \in {"quiet", "changed"}
    /\ acts \in 0..MaxActs /\ failures \in 0..MaxFailures
    /\ spoiled \subseteq {"overtaken", "crossed", "unsent", "auditioned"}

(* The editor has just connected; nothing has been sent.                   *)
Init ==
    /\ doc \in Sounds /\ temp \in Sounds
    /\ sync = "local" /\ live = "on" /\ marks = {}
    /\ pending = <<>> /\ attempts = NoAttempts /\ timer = "none"
    /\ lost = 0 /\ lastSend = "ok"
    /\ gate = <<>> /\ reply = "none" /\ link = "up"
    /\ reading = "none" /\ answer = NoSound /\ moved = "no"
    /\ hearing = "quiet" /\ sounding = NoSound /\ saved = NoSound
    /\ poll = "idle" /\ heard = "quiet"
    /\ acts = 0 /\ failures = 0 /\ spoiled = {}

-----------------------------------------------------------------------------
(* The queue.                                                              *)

Waiting(q, k) == \E i \in DOMAIN q : q[i].key = k

(* P in increasing order; there is one such sequence.                      *)
InOrder(P) ==
    {s \in [1..Cardinality(P) -> P] :
        /\ \A p \in P : \E i \in DOMAIN s : s[i] = p
        /\ \A i, j \in DOMAIN s : i < j => s[i] < s[j]}

(* One frame for each parameter of P, in order.  Map.set: a key that is    *)
(* there keeps its place.                                                  *)
ParamFrame(p, d) == [key |-> p, val |-> d[p]]
Replaced(q, P, d) ==
    [i \in DOMAIN q |-> IF q[i].key \in P THEN ParamFrame(q[i].key, d) ELSE q[i]]

Push(P, d) ==
    /\ \E s \in InOrder({p \in P : ~Waiting(pending, p)}) :
          pending' = Replaced(pending, P, d)
                        \o [i \in DOMAIN s |-> ParamFrame(s[i], d)]
    /\ attempts' = [k \in Key |-> IF k \in P THEN 0 ELSE attempts[k]]
    /\ timer' = "set"
    /\ UNCHANGED <<lost, lastSend>>

Supersede(d) ==
    /\ pending' = [p \in Param |-> [key |-> -p, val |-> d[p]]]
    /\ attempts' = NoAttempts /\ timer' = "set"
    /\ lost' = 0 /\ lastSend' = "ok"

\* Slip: the timer of what is dropped is left running.
ClearFramesOnly ==
    /\ pending' = <<>> /\ attempts' = NoAttempts /\ UNCHANGED timer
    /\ lost' = 0 /\ lastSend' = "ok"

Clear ==
    /\ pending' = <<>> /\ attempts' = NoAttempts /\ timer' = "none"
    /\ lost' = 0 /\ lastSend' = "ok"

(* The store's onstats, called at the end of each of them with what the    *)
(* queue has become: the marks and the claim that follow from m and s.     *)
Failed     == lost > 0 \/ lastSend = "failed"
InFlight   == \E i \in DOMAIN gate : gate[i].by = "queue"
Drained(m) == "liveDirty" \in m /\ pending' = <<>> /\ ~InFlight' /\ ~Failed'

Known(m) ==
    IF Failed' THEN m \ {"baseSent"}
    ELSE IF Drained(m)
         THEN (m \cap {"baseSent"})
                \cup (IF "fullPending" \in m THEN {"baseSent"} ELSE {})
         ELSE m

Shown(m, s) ==
    IF Drained(m) /\ "baseSent" \in Known(m) /\ s = "edited" THEN "sent" ELSE s

(* The timer fires: the oldest frame goes to the gate.                     *)
Run ==
    /\ timer = "set"
    /\ pending' = Tail(pending)
    /\ gate' = Append(gate, [by |-> "queue", frame |-> Head(pending)])
    /\ timer' = IF pending' = <<>> THEN "none" ELSE "set"
    /\ UNCHANGED <<store, attempts, lost, lastSend, reply, link, bar, audition,
                   panel, temp, acts, failures, spoiled>>

(* A stored sound is in the instrument, or about to be, or going.  What    *)
(* else changes or reads the temporary patch now is undone, or mistaken.   *)
Sounding == hearing # "quiet" \/ saved # NoSound
Crossing(races) == IF Sounding THEN races \cup {"auditioned"} ELSE races

(* The first frame at the gate reaches the instrument, or is refused: the  *)
(* connection is closed or busy, or the port fails.                        *)
Deliver ==
    /\ gate # <<>> /\ reply = "none"
    /\ \/ /\ link = "up" /\ reply' = "ok"
          /\ LET f == Head(gate).frame IN temp' = [temp EXCEPT ![Loc(f.key)] = f.val]
          /\ spoiled' = IF Head(gate).by = "queue" THEN Crossing(spoiled) ELSE spoiled
          /\ UNCHANGED failures
       \/ /\ link = "up" /\ failures < MaxFailures
          /\ reply' = "failed" /\ failures' = failures + 1
          /\ UNCHANGED <<temp, spoiled>>
       \/ /\ link = "down" /\ reply' = "failed"
          /\ UNCHANGED <<temp, failures, spoiled>>
    /\ UNCHANGED <<store, queue, gate, link, bar, audition, panel, acts>>

SettleOk(f) ==
    /\ lastSend' = "ok" /\ attempts' = [attempts EXCEPT ![f.key] = 0]
    /\ UNCHANGED <<pending, timer, lost, spoiled>>

\* Slip: a failed frame is tried for ever.
TriedForEver(k) == 1

Tried(k) == attempts[k] + 1

(* A frame that failed waits again unless a frame with its key does.       *)
SettleFailed(f) ==
    /\ lastSend' = "failed"
    /\ \/ /\ Tried(f.key) < MaxAttempts
          /\ attempts' = [attempts EXCEPT ![f.key] = Tried(f.key)]
          /\ pending' = IF Waiting(pending, f.key) THEN pending ELSE Append(pending, f)
          /\ timer' = "set"
          /\ spoiled' = IF pending' # pending /\ f.val # doc[Loc(f.key)]
                        THEN spoiled \cup {"overtaken"} ELSE spoiled
          /\ UNCHANGED lost
       \/ /\ Tried(f.key) >= MaxAttempts
          /\ attempts' = [attempts EXCEPT ![f.key] = 0]
          /\ lost' = lost + 1
          /\ UNCHANGED <<pending, timer, spoiled>>

Settle ==
    /\ reply # "none" /\ Head(gate).by = "queue"
    /\ reply' = "none" /\ gate' = Tail(gate)
    /\ \/ reply = "ok"     /\ SettleOk(Head(gate).frame)
       \/ reply = "failed" /\ SettleFailed(Head(gate).frame)
    /\ marks' = Known(marks) /\ sync' = Shown(marks, sync)
    /\ UNCHANGED <<doc, live, link, bar, audition, panel, temp, acts, failures>>

-----------------------------------------------------------------------------
(* The user.                                                               *)

Act == acts < MaxActs /\ acts' = acts + 1

(* sendPatch, of the sound d, on an open connection.  What was suspect is  *)
(* replaced, but for a claim already made or about to be; a fetch in       *)
(* progress, or a stored sound to be taken back, knows nothing of it.      *)
SendPatch(d) ==
    /\ Supersede(d)
    /\ marks' = marks \cup {"liveDirty", "fullPending"}
    /\ spoiled' = (IF sync' \in {"sent", "tempVerified"} \/ reading # "none" \/ Sounding
                      THEN spoiled ELSE {})
                     \cup (IF reading = "fetch" THEN {"crossed"} ELSE {})

Changed(d) == {p \in Param : d[p] # doc[p]}

\* Slip: a lone parameter goes out whatever the instrument holds.
AlwaysEnough(d) == Cardinality(Changed(d)) <= BulkLimit

(* A lone parameter is enough.                                             *)
Enough(d) == "baseSent" \in marks /\ Cardinality(Changed(d)) <= BulkLimit

(* A new revision: a read in progress sees it when it is done.             *)
Revised == moved' = IF reading = "none" THEN "no" ELSE "yes"

(* set, applyMany, undo, redo, A/B, morph: the sound becomes d.            *)
Edit(d) ==
    /\ Act
    /\ d # doc /\ doc' = d /\ Revised /\ sync' = "edited"
    /\ \/ /\ live = "off" \/ link = "down"
          /\ marks' = marks \ {"baseSent"}
          /\ spoiled' = IF "fullPending" \in marks
                        THEN spoiled \cup {"unsent"} ELSE spoiled
          /\ UNCHANGED queue
       \/ /\ live = "on" /\ link = "up" /\ ~Enough(d)
          /\ SendPatch(d)
       \/ /\ live = "on" /\ link = "up" /\ Enough(d)
          /\ Push(Changed(d), d)
          /\ marks' = {"liveDirty"}
                        \cup (IF Failed THEN marks \ {"baseSent"} ELSE marks)
          /\ UNCHANGED spoiled
    /\ UNCHANGED <<live, gate, reply, link, reading, answer, audition, panel, temp,
                   failures>>

(* The Send to synth button.                                               *)
Send ==
    /\ Act
    /\ UNCHANGED sync
    /\ link = "up" /\ SendPatch(doc)
    /\ UNCHANGED <<doc, live, gate, reply, link, bar, audition, panel, temp, failures>>

LiveOn ==
    /\ Act
    /\ live = "off" /\ live' = "on" /\ UNCHANGED sync
    /\ \/ link = "up" /\ SendPatch(doc)
       \/ link = "down" /\ UNCHANGED <<queue, marks, spoiled>>
    /\ UNCHANGED <<doc, gate, reply, link, bar, audition, panel, temp, failures>>

LiveOff ==
    /\ Act
    /\ live = "on" /\ live' = "off"
    /\ UNCHANGED gate
    /\ Clear /\ marks' = {}
    /\ sync' = IF Shown(marks, sync) = "sent" THEN "edited" ELSE sync
    /\ UNCHANGED <<doc, reply, link, bar, audition, panel, temp, failures, spoiled>>

(* Another sound is opened (the library, a file, a new one).               *)
Open(s) ==
    /\ Act
    /\ Clear /\ marks' = {}
    /\ doc' = s /\ sync' = "local" /\ Revised
    /\ UNCHANGED <<live, gate, reply, link, reading, answer, audition, panel, temp,
                   failures, spoiled>>

WhenClosed(s) == IF s # "local" THEN "edited" ELSE s

Disconnect ==
    /\ Act
    /\ link = "up" /\ link' = "down"
    /\ Clear /\ marks' = {} /\ sync' = WhenClosed(sync)
    /\ heard' = "quiet"
    /\ UNCHANGED <<doc, live, gate, reply, bar, audition, poll, temp, failures,
                   spoiled>>

(* The same or another instrument, holding anything.                       *)
Connect ==
    /\ Act
    /\ link = "down" /\ reading = "none" /\ hearing # "reading"
    /\ link' = "up"
    /\ UNCHANGED gate
    /\ Clear /\ marks' = {} /\ sync' = Shown(marks, sync)
    /\ temp' \in Sounds \cup {temp} /\ spoiled' = Crossing(spoiled)
    /\ UNCHANGED <<doc, live, reply, bar, audition, panel, failures>>

-----------------------------------------------------------------------------
(* Fetch and Verify.                                                       *)

(* The button waits until the queue is idle, then asks.                    *)
StartRead(w) ==
    /\ Act
    /\ reading = "none" /\ hearing # "reading" /\ link = "up"
    /\ pending = <<>> /\ ~InFlight
    /\ reading' = w /\ answer' = NoSound /\ moved' = "no"
    /\ UNCHANGED <<store, queue, gate, reply, link, audition, panel, temp, failures,
                   spoiled>>

ReadOver == reading' = "none" /\ answer' = NoSound /\ moved' = "no"

ReadTemp ==
    /\ reading # "none" /\ answer = NoSound
    /\ \/ /\ link = "up" /\ answer' = temp
          /\ spoiled' = Crossing(spoiled)
          /\ UNCHANGED <<reading, moved>>
       \/ ReadOver /\ UNCHANGED spoiled
    /\ UNCHANGED <<store, queue, gate, reply, link, audition, panel, temp, acts,
                   failures>>

(* A claim made after the connection closed is about another instrument.   *)
Claimed == IF link = "down" THEN spoiled \cup {"crossed"} ELSE spoiled

\* Slip: the sound changed during the read is not looked at.
NeverMoved == moved \in {"no", "yes"}

NotMoved == moved = "no"

FetchDone ==
    /\ reading = "fetch" /\ answer # NoSound /\ ReadOver
    /\ UNCHANGED gate
    /\ \/ /\ ~NotMoved
          /\ UNCHANGED <<store, queue, spoiled>>
       \/ /\ NotMoved
          /\ Clear /\ doc' = answer /\ sync' = "tempVerified" /\ marks' = {"baseSent"}
          /\ spoiled' = Claimed
          /\ UNCHANGED live
    /\ UNCHANGED <<reply, link, audition, panel, temp, acts, failures>>

VerifyDone ==
    /\ reading = "verify" /\ answer # NoSound /\ ReadOver
    /\ \/ /\ ~NotMoved \/ pending # <<>>
          /\ UNCHANGED <<sync, marks, spoiled>>
       \/ /\ NotMoved /\ pending = <<>> /\ answer = doc
          /\ sync' = "tempVerified" /\ marks' = marks \cup {"baseSent"}
          /\ spoiled' = Claimed
       \/ /\ NotMoved /\ pending = <<>> /\ answer # doc
          /\ sync' = "mismatch" /\ marks' = marks \ {"baseSent"}
          /\ UNCHANGED spoiled
    /\ UNCHANGED <<doc, live, queue, gate, reply, link, audition, panel, temp, acts,
                   failures>>

-----------------------------------------------------------------------------
(* The panel.                                                              *)

(* The musician selects a sound there; the instrument sends its number.    *)
PanelSelect(s) ==
    /\ Act
    /\ link = "up" /\ s # temp /\ temp' = s /\ heard' = "changed"
    /\ spoiled' = Crossing(spoiled)
    /\ UNCHANGED <<store, queue, gate, reply, link, bar, audition, poll, failures>>

PollAsk ==
    /\ poll = "idle" /\ link = "up" /\ reading = "none" /\ hearing # "reading"
    /\ heard = "changed"
    /\ poll' = "asked"
    /\ UNCHANGED <<store, queue, gate, reply, link, bar, audition, heard, temp, acts,
                   failures, spoiled>>

PollHear ==
    /\ poll = "asked"
    /\ \/ heard = "changed" /\ poll' = "told" /\ heard' = "quiet"
       \/ heard = "quiet" /\ poll' = "idle" /\ UNCHANGED heard
    /\ UNCHANGED <<store, queue, gate, reply, link, bar, audition, temp, acts, failures,
                   spoiled>>

\* Slip: only the claim is dropped, not what it rests on.
KeepMarks == marks

MarksWhenStale == marks \ {"baseSent", "fullPending"}

MarkStale ==
    \/ /\ link = "up"
       /\ marks' = MarksWhenStale
       /\ sync' = IF sync \in {"sent", "tempVerified", "edited"} THEN "stale" ELSE sync
       /\ spoiled' = IF reading # "none" THEN spoiled \cup {"crossed"} ELSE spoiled
    \/ link = "down" /\ UNCHANGED <<marks, sync, spoiled>>

PollDone ==
    /\ poll = "told" /\ poll' = "idle"
    /\ MarkStale
    /\ UNCHANGED <<doc, live, queue, gate, reply, link, bar, audition, heard, temp, acts,
                   failures>>

-----------------------------------------------------------------------------
(* Hover audition.  Its steps follow one another (PreviewService.chain),   *)
(* and its frames are sent one at a time through the gate, past the queue. *)

(* The frame with place p of the sound d.                                  *)
FrameOf(d, p) == [by |-> "preview", frame |-> [key |-> -p, val |-> d[p]]]

Place(h, d) ==
    /\ hearing' = h /\ sounding' = d /\ gate' = Append(gate, FrameOf(d, 1))

Quiet == hearing' = "quiet" /\ sounding' = NoSound

(* The pointer has rested on a row for a while: the first time, what is in *)
(* the instrument is read before the stored sound d is sent there.  To     *)
(* come and to go are two acts.                                            *)
Audition(d) ==
    /\ acts + 2 <= MaxActs /\ acts' = acts + 2
    /\ hearing = "quiet" /\ link = "up"
    /\ \/ /\ saved = NoSound /\ hearing' = "reading" /\ sounding' = d
          /\ UNCHANGED gate
       \/ saved # NoSound /\ Place("sending", d)
    /\ UNCHANGED <<store, queue, reply, link, bar, saved, panel, temp, failures,
                   spoiled>>

(* Either read may fail: the instrument's sound, or the stored one.        *)
AuditionRead ==
    /\ hearing = "reading"
    /\ \/ link = "up" /\ saved' = temp /\ Place("sending", sounding)
       \/ link = "up" /\ saved' = temp /\ Quiet /\ UNCHANGED gate
       \/ Quiet /\ UNCHANGED <<saved, gate>>
    /\ UNCHANGED <<store, queue, reply, link, bar, panel, temp, acts, failures,
                   spoiled>>

(* The pointer has left, or the library has: what was there is put back.   *)
PutBack ==
    /\ hearing = "quiet" /\ saved # NoSound /\ saved' = NoSound
    /\ \/ /\ link = "up" /\ Place("restoring", saved)
          /\ UNCHANGED <<marks, sync, spoiled>>
       \/ /\ link = "down" /\ MarkStale
          /\ UNCHANGED <<hearing, sounding, gate>>
    /\ UNCHANGED <<doc, live, queue, reply, link, bar, panel, temp, acts, failures>>

(* One of its frames has gone, or not: the next one, or the end.  A sound  *)
(* that cannot be put back makes what the screen claims stale.             *)
AuditionSettle ==
    /\ reply # "none" /\ Head(gate).by = "preview" /\ reply' = "none"
    /\ LET p == Loc(Head(gate).frame.key) IN
       \/ /\ reply = "ok" /\ p < NParams
          /\ gate' = Append(Tail(gate), FrameOf(sounding, p + 1))
          /\ UNCHANGED <<hearing, sounding, marks, sync, spoiled>>
       \/ /\ IF reply = "ok" THEN p = NParams ELSE hearing = "sending"
          /\ gate' = Tail(gate) /\ Quiet
          /\ UNCHANGED <<marks, sync, spoiled>>
       \/ /\ reply = "failed" /\ hearing = "restoring"
          /\ gate' = Tail(gate) /\ Quiet
          /\ MarkStale
    /\ UNCHANGED <<doc, live, queue, link, bar, saved, panel, temp, acts, failures>>

-----------------------------------------------------------------------------
User ==
    \/ \E d \in Sound : Edit(d)
    \/ \E s \in Sounds : Open(s)
    \/ Send \/ LiveOn \/ LiveOff \/ Connect \/ Disconnect
    \/ \E w \in Reads : StartRead(w)
    \/ \E d \in Stored : Audition(d)

Machine ==
    \/ Run \/ Deliver \/ Settle
    \/ ReadTemp \/ FetchDone \/ VerifyDone
    \/ PollAsk \/ PollHear \/ PollDone
    \/ AuditionRead \/ PutBack \/ AuditionSettle

Next == User \/ Machine \/ \E s \in Sounds : PanelSelect(s)

Spec     == Init /\ [][Next]_vars
FairSpec ==
    /\ Spec /\ WF_vars(Run) /\ WF_vars(Deliver) /\ WF_vars(Settle)
    /\ WF_vars(AuditionSettle)

-----------------------------------------------------------------------------
(* The panel has changed the sound and the editor has not been told.       *)
Unnoticed == heard = "changed" \/ poll = "told"

(* SENT and TEMP VERIFIED mean what they say: on an open connection, if    *)
(* the panel has not changed the sound unnoticed and no known race has     *)
(* happened since the last whole send, the instrument holds the sound on   *)
(* the screen (onstats, openFromInstrument, verifyAgainst).  The races:    *)
(* a failed frame sent again behind a newer value (overtaken), a read      *)
(* crossed by a send, a disconnection or a panel change (crossed), and an  *)
(* edit with live editing off during a whole send (unsent).  It is not so  *)
(* while a stored sound is auditioned, but again when the instrument's own *)
(* is back, unless something else has written or read the temporary patch  *)
(* meanwhile (auditioned).  No claim made for one connection outlives it.  *)
ClaimIsTrue ==
    sync \in {"sent", "tempVerified"} /\ spoiled = {} =>
        /\ link # "down"
        /\ link = "up" /\ ~Unnoticed /\ ~Sounding => temp = doc

(* What a single edit relies on: with baseSent, the instrument holds the   *)
(* screen's sound but for the parameters still on their way, so sending    *)
(* one parameter never leaves a mixture of two sounds.                     *)
OnTheWay == {Loc(pending[i].key) : i \in DOMAIN pending}
                \cup {Loc(gate[i].frame.key) : i \in DOMAIN gate}
NoMixture ==
    ("baseSent" \in marks /\ link = "up" /\ ~Unnoticed /\ ~Sounding /\ spoiled = {})
        => \A p \in Param : temp[p] # doc[p] => p \in OnTheWay

(* The queue always drains, whatever fails: whenIdle resolves, and Fetch   *)
(* and Verify do not wait for ever.                                        *)
QueueDrains == []<>(pending = <<>> /\ ~InFlight)

-----------------------------------------------------------------------------
(* store.svelte.ts:89 "Only claim SENT when the instrument has the whole   *)
(* patch and the user has not changed sound behind us" (violated: an edit  *)
(* made with live editing off, while a whole send is still on its way, is  *)
(* shown as SENT when the send ends, and was never sent).                  *)
SentIsTrue ==
    (sync = "sent" /\ link = "up" /\ ~Unnoticed /\ ~Sounding) => temp = doc
=============================================================================
