------------------------------ MODULE Request -------------------------------
(***************************************************************************)
(* One request to the instrument: Client::request and its Collector        *)
(* (crates/xppatch-midi/src/client.rs), between a write and the read-back  *)
(* that is to verify it, over a cable that delays, loses and echoes.       *)
(*                                                                         *)
(* Module Ceremony takes a request for a step that fails or answers with   *)
(* what the instrument holds.  Here is what makes that true: how long the  *)
(* client listens before it asks, what it discards, which pieces of a      *)
(* reply it takes, and when it gives up.                                   *)
(*                                                                         *)
(* Time passes in ticks.  The instrument and the cable are as slow as they *)
(* may be and no slower (Latency, Gap, Delay, EchoDelay); the client's     *)
(* deadlines are its own.  Memory is a row of cells; a block is some of    *)
(* them, and a piece (the data of a DT1) maps cells to values.             *)
(***************************************************************************)
EXTENDS Integers, Sequences, FiniteSets

CONSTANTS
    Cell, Value,
    Blocks,        \* the blocks that are asked for
    First,         \* first_response_timeout
    Inter,         \* inter_reply_timeout
    Ceiling,       \* MAX_ATTEMPT
    Retries,       \* max_retries
    Window,        \* verify_settle and the echo window after a write
    MaxDrain,      \* MAX_DRAIN_CHUNKS
    Capacity,      \* QUEUE_CAPACITY
    Latency, Gap,  \* the instrument's longest wait before a reply, between pieces
    Delay,         \* the longest time in the cable
    EchoDelay,     \* the longest way of an echo
    MaxActs        \* bound: what the user and the musician do

ASSUME TimesAssumption ==
    /\ {Inter, Window, Retries, MaxDrain, Capacity, Latency, Gap, Delay, EchoDelay, MaxActs}
           \subseteq Nat
    /\ First \in Nat \ {0} /\ Ceiling \in Nat /\ First <= Ceiling
ASSUME BlocksAssumption ==
    /\ Cell \subseteq Int
    /\ {} \notin Blocks /\ \A B \in Blocks : B \subseteq Cell /\ IsFiniteSet(B)
(* What the client relies on: a whole reply is there before the next       *)
(* attempt, whether no piece of it was taken or one was (the wait then     *)
(* starts anew); and an echo is there before the read-back.                *)
ASSUME QuickEnough ==
    /\ \A B \in Blocks :
          /\ Latency + (Cardinality(B) - 1) * Gap + Delay < First + Inter
          /\ (Cardinality(B) - 1) * Gap + Delay < Inter + Inter
    /\ EchoDelay < Window

Piece == UNION {[S -> Value] : S \in (SUBSET Cell) \ {{}}}
Frame == [data : Piece, due : 0 .. Delay + EchoDelay]

VARIABLES
    mem,      \* the instrument: its memory
    stream,   \* the pieces of a reply it has still to send
    next,     \* ticks until it must send the next
    cable,    \* replies on their way, and in how many ticks they must be there
    echoes,   \* the client's own messages on their way back
    inbox,    \* received by the port and not taken yet
    phase,    \* what the client is doing
    want,     \* the block it asks for
    attempt,  \* Client::request: attempt
    wait,     \* ticks to the deadline it waits for
    life,     \* ticks to the attempt's ceiling
    got,      \* Collector: the values taken for each cell
    held,     \* history: what each cell has held since the request began
    line,     \* history: whether the line was quiet then
    spent,    \* history: ticks since then, up to one more than is allowed
    acts      \* bound

instrument == <<mem, stream, next>>
wires      == <<cable, echoes, inbox>>
client     == <<phase, want, attempt, wait, life, got>>
history    == <<held, line, spent, acts>>
vars       == <<instrument, wires, client, history>>

Longest(a, b) == IF a > b THEN a ELSE b
Soonest(a, b) == IF a < b THEN a ELSE b

(* The longest a request can take: every attempt to its ceiling, and a     *)
(* pause between two.                                                      *)
LongestRequest == (Retries + 1) * Ceiling + Retries * Inter

TypeOK ==
    /\ mem \in [Cell -> Value]
    /\ stream \in Seq(Piece) /\ next \in 0..Longest(Latency, Gap)
    /\ cable \in Seq(Frame) /\ echoes \in Seq(Frame)
    /\ inbox \in Seq(Piece) /\ Len(inbox) <= Capacity
    /\ phase \in {"idle", "settle", "pause", "collect"}
    /\ want \in Blocks \cup {{}}
    /\ attempt \in 0..Retries
    /\ wait \in 0..Longest(Longest(First, Inter), Window) /\ life \in 0..Ceiling
    /\ phase = "collect" => wait <= life
    /\ got \in [want -> SUBSET Value] /\ held \in [want -> SUBSET Value]
    /\ line \in {"quiet", "busy"} /\ spent \in 0..LongestRequest + 1
    /\ acts \in 0..MaxActs

Init ==
    /\ mem \in [Cell -> Value]
    /\ stream = <<>> /\ next = 0
    /\ cable = <<>> /\ echoes = <<>> /\ inbox = <<>>
    /\ phase = "idle" /\ want = {} /\ attempt = 0 /\ wait = 0 /\ life = 0
    /\ got = <<>> /\ held = <<>> /\ line = "quiet" /\ spent = 0
    /\ acts = 0

-----------------------------------------------------------------------------
(* The instrument (testing.rs): an RQ1 that finds it busy is dropped, and  *)
(* a reply is what the block holds when the RQ1 comes, in one piece or     *)
(* several.                                                                *)

Restricted(f, S) == [c \in DOMAIN f \cap S |-> f[c]]
InOrder(B)       == {s \in [1..Cardinality(B) -> B] :
                        \A i, j \in 1..Cardinality(B) : i < j => s[i] < s[j]}
CellByCell(s)    == [i \in DOMAIN s |-> Restricted(mem, {s[i]})]

Rq1(B) ==
    \/ UNCHANGED <<stream, next>>
    \/ /\ stream = <<>>
       /\ \/ stream' = <<Restricted(mem, B)>>
          \/ \E s \in InOrder(B) : stream' = CellByCell(s)
       /\ next' = Latency

(* The next piece goes out; it may be lost or damaged on its way.          *)
Reply ==
    /\ stream # <<>>
    /\ stream' = Tail(stream) /\ next' = IF Len(stream) = 1 THEN 0 ELSE Gap
    /\ cable' \in {cable, Append(cable, [data |-> stream[1], due |-> Delay])}
    /\ UNCHANGED <<mem, echoes, inbox, client, history>>

Act == acts < MaxActs /\ acts' = acts + 1

(* The musician changes a cell on the panel.                               *)
Note(m) == [c \in want |-> held[c] \cup {m[c]}]

Panel(c, v) ==
    /\ Act /\ v # mem[c] /\ mem' = [mem EXCEPT ![c] = v]
    /\ held' = Note(mem')
    /\ UNCHANGED <<stream, next, wires, client, line, spent>>

-----------------------------------------------------------------------------
(* The client.                                                             *)

NoReplyOutstanding == stream = <<>> /\ cable = <<>>
Quiet ==
    /\ NoReplyOutstanding /\ Len(inbox) <= MaxDrain
    /\ phase = "settle" \/ echoes = <<>>

(* Drain what is left over, forget half a message, ask.                    *)
Drained == SubSeq(inbox, MaxDrain + 1, Len(inbox))

Ask(B) ==
    /\ inbox' = Drained
    /\ Rq1(B)
    /\ phase' = "collect" /\ life' = Ceiling /\ wait' = Soonest(First, Ceiling)
    /\ got' = [c \in B |-> {}]
    /\ UNCHANGED <<mem, cable, echoes>>

Begin(B) ==
    /\ Ask(B) /\ want' = B /\ attempt' = 0
    /\ held' = [c \in B |-> {mem[c]}]
    /\ line' = (IF Quiet THEN "quiet" ELSE "busy") /\ spent' = 0

Read(B) == Act /\ phase = "idle" /\ Begin(B)

(* A message of the client's: the instrument takes it or ignores it, and   *)
(* it may come back (Soft Thru).                                           *)
Dt1(d) ==
    /\ mem' \in {mem, [c \in Cell |-> IF c \in DOMAIN d THEN d[c] ELSE mem[c]]}
    /\ echoes' \in {echoes, Append(echoes, [data |-> d, due |-> EchoDelay])}

(* A live edit is sent and left at that.                                   *)
SendLive(d) ==
    /\ Act /\ phase = "idle" /\ Dt1(d)
    /\ UNCHANGED <<stream, next, cable, inbox, client, held, line, spent>>

\* Slip: the read-back follows at once.
NoEchoWindow == 0

EchoWindow == Window

(* A block is written; what follows is time for its echo, and the          *)
(* read-back.                                                              *)
WriteBlock(d) ==
    /\ Act /\ phase = "idle" /\ Dt1(d)
    /\ phase' = "settle" /\ want' = DOMAIN d /\ wait' = EchoWindow
    /\ got' = [c \in DOMAIN d |-> {}] /\ held' = [c \in DOMAIN d |-> {mem'[c]}]
    /\ inbox' = <<>>
    /\ UNCHANGED <<stream, next, cable, attempt, life, line, spent>>

ReadBack == phase = "settle" /\ wait = 0 /\ Begin(want) /\ UNCHANGED acts

(* Collector::place.                                                       *)
Covered(g, c) == g[c] # {}
News(d)       == \E c \in DOMAIN d \cap want : ~Covered(got, c)

\* Slip: a reply extends the deadline past the ceiling.
ExtendedAlways == Inter

Extended == Soonest(Inter, life)

Place(d) ==
    IF News(d)
    THEN /\ got' = [c \in want |-> IF c \in DOMAIN d THEN got[c] \cup {d[c]} ELSE got[c]]
         /\ wait' = Extended
    ELSE UNCHANGED <<got, wait>>

Listening == phase = "collect" /\ wait > 0 /\ \E c \in want : ~Covered(got, c)

\* Slip: one more than there is room for.
RoomForOneMore == Len(inbox) <= Capacity

HasRoom == Len(inbox) < Capacity

(* A frame arrives: it is placed; or absorbed, where the client only       *)
(* listens (Client::poll); or it waits in the port's queue.                *)
Take(d) ==
    \/ /\ Listening /\ inbox = <<>> /\ Place(d)
       /\ UNCHANGED inbox
    \/ /\ phase \in {"settle", "pause"}
       /\ UNCHANGED <<inbox, got, wait>>
    \/ /\ ~Listening /\ phase \in {"idle", "collect"}
       /\ inbox' = IF HasRoom THEN Append(inbox, d) ELSE inbox
       /\ UNCHANGED <<got, wait>>

Arrive ==
    /\ \/ cable # <<>> /\ Take(cable[1].data) /\ cable' = Tail(cable) /\ UNCHANGED echoes
       \/ echoes # <<>> /\ Take(echoes[1].data) /\ echoes' = Tail(echoes) /\ UNCHANGED cable
    /\ UNCHANGED <<instrument, phase, want, attempt, life, history>>

(* What the drain has left is taken for a reply.                           *)
TakeLeftOver ==
    /\ Listening /\ inbox # <<>> /\ Place(inbox[1]) /\ inbox' = Tail(inbox)
    /\ UNCHANGED <<instrument, cable, echoes, phase, want, attempt, life, history>>

Rest ==
    /\ phase' = "idle" /\ want' = {} /\ attempt' = 0 /\ wait' = 0 /\ life' = 0
    /\ got' = <<>> /\ held' = <<>>
    /\ UNCHANGED <<instrument, wires, line, spent, acts>>

Complete == phase = "collect" /\ \A c \in want : Covered(got, c)

(* Pieces that contradict each other make no answer (assemble).            *)
Agree == \A c \in want : Cardinality(got[c]) = 1

Answered  == Complete /\ Agree /\ Rest
Contradicted == Complete /\ ~Agree /\ Rest

\* Slip: attempts are not counted.
SameAttempt == attempt

NextAttempt == attempt + 1

\* Slip: the next attempt is made at once.
NoPause == 0

Pause == Inter

(* The deadline.  Before another attempt the client listens for a while.   *)
Expire ==
    /\ phase = "collect" /\ wait = 0 /\ ~Complete
    /\ \/ attempt = Retries /\ Rest
       \/ /\ attempt < Retries /\ attempt' = NextAttempt
          /\ phase' = "pause" /\ wait' = Pause /\ inbox' = <<>>
          /\ UNCHANGED <<want, life, got, instrument, cable, echoes, history>>

AskAgain ==
    /\ phase = "pause" /\ wait = 0 /\ Ask(want)
    /\ UNCHANGED <<want, attempt, history>>

(* The token is looked at before an attempt, after the pause and while     *)
(* collecting.                                                             *)
Cancel ==
    /\ (phase = "collect" /\ ~Complete) \/ (phase = "pause" /\ wait \in {0, Inter})
    /\ Rest

-----------------------------------------------------------------------------
(* Time: as long as nothing is overdue.                                    *)

Sooner(q) == [i \in DOMAIN q |-> [q[i] EXCEPT !.due = @ - 1]]

Tick ==
    /\ stream # <<>> => next > 0
    /\ \A q \in {cable, echoes} : \A i \in DOMAIN q : q[i].due > 0
    /\ phase # "idle" => wait > 0
    /\ ~Complete /\ ~(Listening /\ inbox # <<>>)
    /\ next' = IF stream = <<>> THEN 0 ELSE next - 1
    /\ cable' = Sooner(cable) /\ echoes' = Sooner(echoes)
    /\ wait' = Longest(wait - 1, 0) /\ life' = Longest(life - 1, 0)
    /\ spent' = IF phase \in {"collect", "pause"}
                THEN Soonest(spent + 1, LongestRequest + 1) ELSE spent
    /\ UNCHANGED <<mem, stream, inbox, phase, want, attempt, got, held, line, acts>>

World == Reply \/ Arrive \/ Tick

Client ==
    \/ ReadBack \/ TakeLeftOver \/ Answered \/ Contradicted \/ Expire \/ AskAgain

User ==
    \/ \E B \in Blocks : Read(B)
    \/ \E B \in Blocks : \E d \in [B -> Value] : WriteBlock(d)
    \/ \E c \in Cell : \E d \in [{c} -> Value] : SendLive(d)
    \/ \E c \in Cell, v \in Value : Panel(c, v)
    \/ Cancel

Next == World \/ Client \/ User

Spec     == Init /\ [][Next]_vars
FairSpec == Spec /\ WF_vars(World \/ Client)

-----------------------------------------------------------------------------
(* What is taken for an answer is what the instrument has held since the   *)
(* request began: no echo of the client's own messages, no reply left over *)
(* from before.  (The line was quiet then; see AskedOnQuietLine.)          *)
AnswerIsHeld ==
    (Complete /\ Agree /\ line = "quiet")
        => \A c \in want : got[c] \subseteq held[c]

(* A request that was answered leaves no reply outstanding, so that the    *)
(* next one begins on a quiet line, and an attempt is not made while the   *)
(* instrument is still busy with the one before (it would drop it).        *)
AskedOnQuietLine ==
    [][ (Answered \/ AskAgain) /\ line = "quiet" => NoReplyOutstanding ]_vars

(* However replies keep arriving, no request takes longer than this.       *)
Bounded == spent <= LongestRequest

(* Every request ends.                                                     *)
RequestsEnd == phase # "idle" ~> phase = "idle"
=============================================================================
