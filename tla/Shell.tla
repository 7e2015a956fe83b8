------------------------------- MODULE Shell --------------------------------
(***************************************************************************)
(* The desktop shell: the commands by which the editor's window reaches    *)
(* the instrument (src/crates/xppatch-app/src/lib.rs).                     *)
(*                                                                         *)
(* Every command runs on a thread of its own.  They share the connection   *)
(* (a mutex over an Option), the mark that a long operation is running (an *)
(* atomic) and the token that cancels it (a mutex, held for one statement).*)
(* Each action below is a command's stretch from one of these to the next; *)
(* other commands run in between.  What a command does to the instrument   *)
(* while it holds the connection is module Ceremony.                       *)
(***************************************************************************)
EXTENDS Integers, FiniteSets

CONSTANTS
    Caller,       \* the threads that run commands
    None,         \* no thread
    Slots,        \* parts of a long operation; a cancel is looked at before each
    MaxCommands   \* bound: commands begun

ASSUME CallerAssumption == None \notin Caller
ASSUME SlotsAssumption  == Slots \in Nat

VARIABLES
    pc,         \* where each command is; "idle" when none runs
    busy,       \* AppState.busy
    cancel,     \* AppState.cancel: the token of the latest long operation
    cancelled,  \* the tokens that have been cancelled
    guard,      \* who holds the mutex of AppState.synth, or None
    conn,       \* AppState.synth: the connection, 0 for None
    open,       \* the connections whose ports are open
    token,      \* LongOp.cancel of each long operation
    port,       \* the connection each midi_connect has opened
    left,       \* parts each long operation has before it
    tokens, conns,  \* made so far
    begun,      \* bound: commands begun so far
    asked       \* history: who ran a long operation when a cancel came

vars == <<pc, busy, cancel, cancelled, guard, conn, open, token, port, left, tokens, conns,
          begun, asked>>

InLong  == {"install", "longLock", "longWork", "longDrop"}
Holding == {"shortWork", "longWork"}
Places  == InLong \cup Holding \cup {"idle", "shortLock", "take", "open", "store", "close"}

TypeOK ==
    /\ pc \in [Caller -> Places]
    /\ busy \in {"no", "yes"}
    /\ tokens \in Nat /\ cancel \in 0..tokens /\ cancelled \subseteq 0..tokens
    /\ token \in [Caller -> 0..tokens]
    /\ guard \in Caller \cup {None}
    /\ conns \in Nat /\ conn \in 0..conns /\ open \subseteq 1..conns
    /\ port \in [Caller -> 0..conns]
    /\ left \in [Caller -> 0..Slots]
    /\ begun \in Nat /\ asked \subseteq Caller

(* AppState::default: token 0, no connection.                              *)
Init ==
    /\ pc = [c \in Caller |-> "idle"]
    /\ busy = "no" /\ cancel = 0 /\ cancelled = {} /\ guard = None
    /\ conn = 0 /\ open = {}
    /\ token = [c \in Caller |-> 0] /\ port = [c \in Caller |-> 0]
    /\ left = [c \in Caller |-> 0]
    /\ tokens = 0 /\ conns = 0 /\ begun = 0 /\ asked = {}

Goto(c, where) == pc' = [pc EXCEPT ![c] = where]
Begin(c)       == pc[c] = "idle" /\ begun < MaxCommands /\ begun' = begun + 1

-----------------------------------------------------------------------------
(* Short commands: with_synth.                                             *)

(* Refused while a long operation runs.                                    *)
Short(c) ==
    /\ Begin(c)
    /\ \/ busy = "yes" /\ Goto(c, "idle")
       \/ busy = "no" /\ Goto(c, "shortLock")
    /\ UNCHANGED <<busy, cancel, cancelled, guard, conn, open, token, port, left, tokens,
                   conns, asked>>

\* Slip: a command that finds no connection keeps the lock.
KeptBy(c) == c

(* lock_synth: without a connection the lock is let go of at once.         *)
LetGoBy(c) == None

Lock(c, from, work, otherwise) ==
    /\ pc[c] = from /\ guard = None
    /\ \/ conn # 0 /\ guard' = c    /\ Goto(c, work)
       \/ conn = 0 /\ guard' = LetGoBy(c) /\ Goto(c, otherwise)
    /\ UNCHANGED <<busy, cancel, cancelled, conn, open, token, port, left, tokens, conns,
                   begun, asked>>

ShortLock(c) == Lock(c, "shortLock", "shortWork", "idle")

ShortEnd(c) ==
    /\ pc[c] = "shortWork" /\ guard' = None /\ Goto(c, "idle")
    /\ UNCHANGED <<busy, cancel, cancelled, conn, open, token, port, left, tokens, conns,
                   begun, asked>>

-----------------------------------------------------------------------------
(* Long operations: midi_read_bank, midi_backup_all, midi_arm_bank,        *)
(* midi_commit_bank.                                                       *)

\* Slip: the mark is set without looking at it.
MarkAlways(c) == busy' = "yes" /\ Goto(c, "install")

(* begin_long's compare_exchange.                                          *)
Mark(c) ==
    \/ busy = "yes" /\ Goto(c, "idle") /\ UNCHANGED busy
    \/ busy = "no" /\ busy' = "yes" /\ Goto(c, "install")

Long(c) ==
    /\ Begin(c) /\ Mark(c)
    /\ asked' = asked \ {c}
    /\ UNCHANGED <<cancel, cancelled, guard, conn, open, token, port, left, tokens, conns>>

\* Slip: the operation takes the token that is there.
NoFreshToken(c) == UNCHANGED <<tokens, cancel>> /\ token' = [token EXCEPT ![c] = cancel]

FreshToken(c) ==
    /\ tokens' = tokens + 1
    /\ cancel' = tokens' /\ token' = [token EXCEPT ![c] = tokens']

(* begin_long goes on: a fresh token for this operation.                   *)
Install(c) ==
    /\ pc[c] = "install" /\ FreshToken(c) /\ Goto(c, "longLock")
    /\ left' = [left EXCEPT ![c] = Slots]
    /\ UNCHANGED <<busy, cancelled, guard, conn, open, port, conns, begun, asked>>

LongLock(c) == Lock(c, "longLock", "longWork", "longDrop")

\* Slip: the token is not looked at.
GoesOn(c) == left[c] > 0 /\ token[c] \in 0..tokens

\* Slip: one part too many.
OneTooMany(c) == left[c] >= 0 /\ token[c] \notin cancelled

Continues(c) == left[c] > 0 /\ token[c] \notin cancelled

(* One part more; or it is over (done, failed, cancelled) and the mutex is *)
(* let go of.                                                              *)
LongWork(c) ==
    /\ pc[c] = "longWork"
    /\ \/ Continues(c) /\ left' = [left EXCEPT ![c] = @ - 1]
          /\ UNCHANGED <<pc, guard>>
       \/ guard' = None /\ Goto(c, "longDrop") /\ UNCHANGED left
    /\ UNCHANGED <<busy, cancel, cancelled, conn, open, token, port, tokens, conns, begun,
                   asked>>

(* LongOp::drop, however the command ended.                                *)
LongDrop(c) ==
    /\ pc[c] = "longDrop" /\ busy' = "no" /\ Goto(c, "idle")
    /\ UNCHANGED <<cancel, cancelled, guard, conn, open, token, port, left, tokens, conns,
                   begun, asked>>

(* midi_cancel: one statement under the token's mutex.                     *)
MidiCancel(c) ==
    /\ Begin(c)
    /\ cancelled' = cancelled \cup {cancel}
    /\ asked' = asked \cup {d \in Caller : pc[d] \in InLong}
    /\ UNCHANGED <<pc, busy, cancel, guard, conn, open, token, port, left, tokens, conns>>

-----------------------------------------------------------------------------
(* midi_connect and midi_disconnect.                                       *)

Connect(c) ==
    /\ Begin(c) /\ Goto(c, "take")
    /\ UNCHANGED <<busy, cancel, cancelled, guard, conn, open, token, port, left, tokens,
                   conns, asked>>

(* What was connected is let go of, and its ports close.                   *)
LetGo == conn' = 0 /\ open' = open \ {conn}

\* Slip: the connection is taken without waiting for who is using it.
NotWaited == guard \in Caller \cup {None}

Unlocked == guard = None

Take(c) ==
    /\ pc[c] = "take" /\ Unlocked /\ LetGo /\ Goto(c, "open")
    /\ UNCHANGED <<busy, cancel, cancelled, guard, token, port, left, tokens, conns, begun,
                   asked>>

(* The ports open and the instrument answers, or the command fails.        *)
Open(c) ==
    /\ pc[c] = "open"
    /\ \/ /\ conns' = conns + 1 /\ open' = open \cup {conns'}
          /\ port' = [port EXCEPT ![c] = conns']
          /\ Goto(c, "store")
       \/ Goto(c, "idle") /\ UNCHANGED <<conns, open, port>>
    /\ UNCHANGED <<busy, cancel, cancelled, guard, conn, token, left, tokens, begun, asked>>

(* Some(synth) replaces what is there.                                     *)
Store(c) ==
    /\ pc[c] = "store" /\ guard = None
    /\ conn' = port[c] /\ open' = open \ {conn} /\ Goto(c, "idle")
    /\ UNCHANGED <<busy, cancel, cancelled, guard, token, port, left, tokens, conns, begun,
                   asked>>

Disconnect(c) ==
    /\ Begin(c)
    /\ \/ busy = "yes" /\ Goto(c, "idle")
       \/ busy = "no" /\ Goto(c, "close")
    /\ UNCHANGED <<busy, cancel, cancelled, guard, conn, open, token, port, left, tokens,
                   conns, asked>>

Close(c) ==
    /\ pc[c] = "close" /\ guard = None /\ LetGo /\ Goto(c, "idle")
    /\ UNCHANGED <<busy, cancel, cancelled, guard, token, port, left, tokens, conns, begun,
                   asked>>

-----------------------------------------------------------------------------
Command(c) == Short(c) \/ Long(c) \/ MidiCancel(c) \/ Connect(c) \/ Disconnect(c)

Step(c) ==
    \/ ShortLock(c) \/ ShortEnd(c)
    \/ Install(c) \/ LongLock(c) \/ LongWork(c) \/ LongDrop(c)
    \/ Take(c) \/ Open(c) \/ Store(c) \/ Close(c)

Next == \E c \in Caller : Command(c) \/ Step(c)

Spec     == Init /\ [][Next]_vars
FairSpec == Spec /\ \A c \in Caller : WF_vars(Step(c))

-----------------------------------------------------------------------------
(* A cancel reaches the long operation that holds or awaits the            *)
(* connection: the shared token is its own (begin_long is single-flight).  *)
CancelReaches ==
    \A c \in Caller : pc[c] \in {"longLock", "longWork"} => token[c] = cancel

(* No long operation is stopped by a cancel that came before it began.     *)
OnlyWhenAsked ==
    \A c \in Caller : (pc[c] \in {"longLock", "longWork"} /\ token[c] \in cancelled)
                          => c \in asked

(* The connection is never closed under a command that is using it, and    *)
(* no port is left open that nobody holds (a port that leaks cannot be     *)
(* opened again where ports are exclusive).                                *)
NoPortLostOrLeaked ==
    /\ \A c \in Caller : pc[c] \in Holding => conn \in open
    /\ open \subseteq {conn} \cup {port[c] : c \in {d \in Caller : pc[d] = "store"}}

(* The shell keeps the promise of SingleFlight.                            *)
RunningIn(at) == IF \E c \in Caller : at[c] \in InLong
                 THEN CHOOSE c \in Caller : at[c] \in InLong ELSE None

Running == RunningIn(pc)
Begun   == Running # None /\ pc[Running] # "install"
Told    == IF Begun /\ token[Running] \in cancelled THEN "yes" ELSE "no"
Done    == IF Begun THEN Slots - left[Running] ELSE 0

Flight == INSTANCE SingleFlight WITH running <- Running, told <- Told, done <- Done

(* One long operation at a time; once it is told to stop it begins no      *)
(* further part, and it ends.                                              *)
FlightSpec == Flight!Spec
FlightSafe == Flight!Init /\ [][Flight!Next]_(Flight!vars)

(* Every command ends.                                                     *)
CommandsEnd == \A c \in Caller : pc[c] # "idle" ~> pc[c] = "idle"

=============================================================================
