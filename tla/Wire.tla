-------------------------------- MODULE Wire --------------------------------
(***************************************************************************)
(* What comes in from the instrument: the bytes of its messages, in the    *)
(* chunks the backend delivers, through the callback's filter and queue    *)
(* (hardware.rs), the assembler (assembler.rs) and the decoder of          *)
(* controllers (controls.rs), to the client's lists (absorb).              *)
(*                                                                         *)
(* A long SysEx may come in fragments and with real-time bytes in it, the  *)
(* instrument may be switched off in the middle of one, and a chunk is     *)
(* lost when the queue is full.  A channel message comes in one chunk, its *)
(* repetitions under running status with it.                               *)
(***************************************************************************)
EXTENDS Sysex

CONSTANTS
  Players,      \* what may be sent: of each instrument its messages (bytes)
  Realtime,     \* real-time bytes that may be mixed in
  Cuts,         \* bound: where in a message a fragment may end
  Channels,     \* MIDI channels used
  MAX_CONTROLS, \* controls kept until they are taken (512)
  MAX_EVENTS,   \* program and bank changes kept (256)
  MaxMessages   \* bound: messages sent

VARIABLES
  player,    \* the instrument, one of Players
  out,       \* bytes of the message being sent that are still to come
  whole,     \* that message
  listening, \* listen_controllers
  sysex,     \* the assembler's unfinished frame, <<>> when there is none
  channel,   \* its unfinished channel message: status 0 when there is none
  decoder,   \* of every channel, what it said of parameter numbers
  events,    \* Client.events: how many (what they are is not told apart)
  controls,  \* Client.controls: the latest value of each source
  count,     \* messages sent (bound)
  history    \* what was sent and heard, for the properties

wireVars == <<player, out, whole, listening, sysex, channel, decoder, events,
              controls, count, history>>

-----------------------------------------------------------------------------
(* The assembler: one byte at a time.  a is [sysex, channel], the result   *)
(* has the frames and the controllers that came of it.                     *)

NoChannel == [status |-> 0, data |-> <<>>]

\* status: only channel messages are tracked; system common cancels.
status(b) ==
  IF b \in 128..239 THEN [status |-> b, data |-> <<>>] ELSE NoChannel

Needs(st) == IF st \div 16 \in {12, 13} THEN 1 ELSE 2

\* data: a byte of a channel message; the status stays for running status.
data(a, b) ==
  LET c == [a.channel EXCEPT !.data = Append(@, b)]
      full == Len(c.data) >= Needs(c.status)
      event == [channel |-> c.status % 16, kind |-> c.status \div 16,
                data |-> c.data]
  IN IF c.status = 0 THEN a
     ELSE IF ~full THEN [a EXCEPT !.channel = c]
     ELSE [a EXCEPT !.channel = [c EXCEPT !.data = <<>>],
                    !.said = IF event.kind \in {11, 12}
                             THEN Append(@, event) ELSE @]

GoesOn(a, b) ==
  IF b >= SYSEX_START /\ b # SYSEX_END THEN
    IF b = SYSEX_START /\ a.sysex = <<>> THEN [a EXCEPT !.sysex = <<b>>] ELSE a
  ELSE IF a.sysex = <<>>
       THEN IF b >= 128 THEN [a EXCEPT !.channel = status(b)] ELSE data(a, b)
  ELSE IF b = SYSEX_END
       THEN [a EXCEPT !.sysex = <<>>, !.frames = Append(@, a.sysex \o <<b>>)]
  ELSE [a EXCEPT !.sysex = Append(@, b)]

\* byte: real-time anywhere; F0 begins again; in a frame F7 ends it, another
\* status or too many bytes end it without a frame.
byte(a, b) ==
  IF b >= REALTIME_MIN THEN a
  ELSE IF b = SYSEX_START
       THEN [a EXCEPT !.sysex = <<b>>, !.channel = NoChannel]
  ELSE IF a.sysex = <<>>
       THEN IF b >= 128 THEN [a EXCEPT !.channel = status(b)] ELSE data(a, b)
  ELSE IF b = SYSEX_END
       THEN [a EXCEPT !.sysex = <<>>, !.frames = Append(@, a.sysex \o <<b>>)]
  ELSE IF b >= 128
       THEN [a EXCEPT !.sysex = <<>>, !.channel = status(b)]
  ELSE IF Len(a.sysex) >= MAX_FRAME_LEN
       THEN [a EXCEPT !.sysex = <<>>]
  ELSE [a EXCEPT !.sysex = Append(@, b)]

\* feed: a chunk, byte after byte.
feed(chunk) ==
  LET after[i \in 0..Len(chunk)] ==
        IF i = 0 THEN [sysex |-> sysex, channel |-> channel,
                       frames |-> <<>>, said |-> <<>>]
        ELSE byte(after[i - 1], chunk[i])
  IN after[Len(chunk)]

-----------------------------------------------------------------------------
(* The decoder of one channel.  -1 stands for a value not heard.           *)

NewChannel == [selected |-> "none", msb |-> -1, lsb |-> -1,
               data_msb |-> -1, data_lsb |-> -1]

\* number: the parameter number selected; RPN 127 127 selects nothing.
number(c) ==
  IF \/ c.selected = "none" \/ c.msb = -1 \/ c.lsb = -1
     \/ c.selected = "rpn" /\ c.msb = 127 /\ c.lsb = 127
  THEN -1 ELSE c.msb * 128 + c.lsb

Cc(n, v)        == [kind |-> "cc", number |-> n, value |-> v]
Silent          == [kind |-> "none", number |-> 0, value |-> 0]
MsbCc(kind)     == IF kind = "nrpn" THEN 99 ELSE 101
SelectionKind(n) == IF n \in {98, 99} THEN "nrpn" ELSE "rpn"

KeepsEntry(c, n, v) ==
  LET to == [c EXCEPT !.selected = SelectionKind(n)]
  IN IF n = MsbCc(SelectionKind(n)) THEN [to EXCEPT !.msb = v, !.lsb = -1]
     ELSE [to EXCEPT !.lsb = v]

\* Selecting a number: of the other kind, or its MSB, from the start.
select(c, n, v) ==
  LET kind == SelectionKind(n)
      fresh == [NewChannel EXCEPT !.selected = kind,
                  !.msb = IF c.selected = kind THEN c.msb ELSE -1]
  IN IF n = MsbCc(kind) THEN [fresh EXCEPT !.msb = v]
     ELSE [fresh EXCEPT !.lsb = v]

\* What one Control Change does to the channel, and what is reported.
decode(c, n, v) ==
  IF n \in 98..101 THEN [to |-> select(c, n, v), said |-> Silent]
  ELSE IF n \notin {6, 38} \/ number(c) = -1 THEN [to |-> c, said |-> Cc(n, v)]
  ELSE LET to == IF n = 6 THEN [c EXCEPT !.data_msb = v]
                 ELSE [c EXCEPT !.data_lsb = v]
           lsb == IF to.data_lsb = -1 THEN 0 ELSE to.data_lsb
       IN [to |-> to,
           said |-> IF to.data_msb = -1 THEN Silent
                    ELSE [kind |-> c.selected, number |-> number(c),
                          value |-> to.data_msb * 128 + lsb]]

-----------------------------------------------------------------------------
(* The client.                                                             *)

\* absorb keeps the latest value of each source, at most MAX_CONTROLS.
Report(list, ch, said) ==
  LET entry == [channel |-> ch, kind |-> said.kind, number |-> said.number,
                value |-> said.value]
      Same(k) == [list[k] EXCEPT !.value = 0] = [entry EXCEPT !.value = 0]
  IN IF \E k \in DOMAIN list : Same(k)
     THEN [k \in DOMAIN list |-> IF Same(k) THEN entry ELSE list[k]]
     ELSE IF Len(list) < MAX_CONTROLS THEN Append(list, entry) ELSE list

IsControl(e) == e.kind = 11 /\ e.data[1] \notin {0, 32}

\* One channel event: a controller goes to the decoder, a program or bank
\* change is counted (the temporary patch is stale).
heed(r, e) ==
  IF ~IsControl(e) THEN [r EXCEPT !.events = AtMost(@ + 1, MAX_EVENTS)]
  ELSE LET d == decode(r.decoder[e.channel], e.data[1], e.data[2])
       IN [decoder  |-> [r.decoder EXCEPT ![e.channel] = d.to],
           controls |-> IF d.said = Silent THEN r.controls
                        ELSE Report(r.controls, e.channel, d.said),
           events   |-> r.events]

heed_all(es) ==
  LET after[i \in 0..Len(es)] ==
        IF i = 0 THEN [decoder |-> decoder, controls |-> controls,
                       events |-> events]
        ELSE heed(after[i - 1], es[i])
  IN after[Len(es)]

absorb(chunk) ==
  LET a == feed(chunk)
      r == heed_all(a.said)
  IN /\ sysex' = a.sysex
     /\ channel' = a.channel
     /\ decoder' = r.decoder
     /\ controls' = r.controls
     /\ events' = r.events

clientVars == <<sysex, channel, decoder, controls, events>>

\* is_relevant: what the callback lets through, by the first byte of a chunk.
is_relevant(chunk) ==
  LET s == chunk[1]
  IN \/ s = SYSEX_START
     \/ s \div 16 = 12
     \/ s \div 16 = 11 /\ (listening \/ chunk[2] \in {0, 32})
     \/ s < 128

-----------------------------------------------------------------------------
(* The instrument and the cable.                                           *)

IsSysex(m) == m[1] = SYSEX_START

\* What an instrument sends: a SysEx, or a channel message whose data bytes
\* are one message or, under running status, several.
IsSysexMessage(m) ==
  /\ m \in Seq(Nat)
  /\ Len(m) >= 2
  /\ IsSysex(m)
  /\ m[Len(m)] = SYSEX_END
  /\ \A i \in 2..(Len(m) - 1) : m[i] \in SevenBit

IsChannelMessage(m) ==
  /\ m \in Seq(Nat)
  /\ Len(m) > 1
  /\ m[1] \in 128..239
  /\ m[1] % 16 \in Channels
  /\ (Len(m) - 1) % Needs(m[1]) = 0
  /\ \A i \in 2..Len(m) : m[i] \in SevenBit

ASSUME PlayersAssumption ==
  \A P \in Players : \A m \in P : IsSysexMessage(m) \/ IsChannelMessage(m)

ASSUME WireAssumption ==
  /\ Realtime \subseteq REALTIME_MIN..255
  /\ {MAX_CONTROLS, MAX_EVENTS, MaxMessages} \subseteq Nat

\* The controllers of a channel message, as <<channel, number, value>>.
ControlsOf(m) ==
  IF m[1] \div 16 # 11 THEN <<>>
  ELSE [k \in 1..((Len(m) - 1) \div 2) |->
          <<m[1] % 16, m[2 * k], m[2 * k + 1]>>]

Begin(m) ==
  /\ out = <<>>
  /\ count < MaxMessages
  /\ count' = count + 1
  /\ out' = m
  /\ whole' = m
  /\ history' = [history EXCEPT !.doubt = FALSE]
  /\ UNCHANGED <<player, listening, clientVars>>

\* The rest of `out` after k bytes that came as `chunk`, <<>> when they were
\* lost.  What is lost raises a doubt about the SysEx it was part of; the last
\* byte of one without doubt makes it a frame sent whole.
Sent(k, chunk) ==
  LET lost  == chunk = <<>>
      doubt == history.doubt \/ lost
      done  == k = Len(out) /\ IsSysex(whole) /\ ~doubt
  IN /\ out' = SubSeq(out, k + 1, Len(out))
     /\ history' = [history EXCEPT
          !.doubt  = doubt,
          !.torn   = @ \/ (lost /\ IsSysex(whole)),
          !.sent   = IF done THEN Append(@, whole) ELSE @,
          !.stream = @ \o chunk,
          !.found  = @ \o feed(chunk).frames,
          !.got    = IF doubt THEN @ ELSE @ \o feed(chunk).frames,
          !.heard  = IF lost THEN @ ELSE @ \o ControlsOf(whole)]
     /\ UNCHANGED <<player, whole, listening, count>>

Ends(k) == IF IsSysex(whole)
           THEN Len(whole) - Len(out) + k \in Cuts \cup {Len(whole)}
           ELSE k = Len(out)

\* A chunk of k bytes reaches the client, with a real-time byte after them that
\* is in the middle of the frame.
Deliver(k, rt) ==
  LET chunk == SubSeq(out, 1, k) \o rt
  IN /\ Ends(k)
     /\ rt # <<>> => k < Len(out)
     /\ is_relevant(chunk)
     /\ absorb(chunk)
     /\ Sent(k, chunk)

\* The filter drops it, or the queue between the callback and the client is
\* full.
Filtered(k) ==
  /\ Ends(k)
  /\ ~is_relevant(SubSeq(out, 1, k))
  /\ Sent(k, <<>>)
  /\ UNCHANGED clientVars

QueueFull(k) ==
  /\ Ends(k)
  /\ is_relevant(SubSeq(out, 1, k))
  /\ Sent(k, <<>>)
  /\ UNCHANGED clientVars

\* The instrument is switched off in the middle of a message.
CutOff ==
  /\ out # <<>>
  /\ out # whole
  /\ out' = <<>>
  /\ UNCHANGED <<player, whole, listening, clientVars, count, history>>

-----------------------------------------------------------------------------
(* The client's other operations.                                          *)

\* reset, before a request is sent.
Reset ==
  /\ sysex # <<>> \/ channel # NoChannel
  /\ sysex' = <<>>
  /\ channel' = NoChannel
  /\ history' = [history EXCEPT !.doubt = out \notin {<<>>, whole},
                                !.stream = <<>>, !.found = <<>>]
  /\ UNCHANGED <<player, out, whole, listening, decoder, events, controls,
                 count>>

listen_controllers(on) ==
  /\ listening' = on
  /\ controls' = IF on THEN controls ELSE <<>>
  /\ decoder' = [c \in Channels |-> NewChannel]
  /\ history' = [history EXCEPT !.heard = <<>>, !.taken = 0]
  /\ UNCHANGED <<player, out, whole, sysex, channel, events, count>>

take_controls ==
  /\ controls # <<>>
  /\ controls' = <<>>
  /\ history' = [history EXCEPT !.taken = Len(history.heard)]
  /\ UNCHANGED <<player, out, whole, listening, sysex, channel, decoder,
                 events, count>>

take_events ==
  /\ events > 0
  /\ events' = 0
  /\ UNCHANGED <<player, out, whole, listening, sysex, channel, decoder,
                 controls, count, history>>

WireInit ==
  /\ player \in Players
  /\ out = <<>>
  /\ whole = <<>>
  /\ listening = FALSE
  /\ sysex = <<>>
  /\ channel = NoChannel
  /\ decoder = [c \in Channels |-> NewChannel]
  /\ events = 0
  /\ controls = <<>>
  /\ count = 0
  /\ history = [sent |-> <<>>, got |-> <<>>, doubt |-> FALSE,
                stream |-> <<>>, found |-> <<>>, heard |-> <<>>, taken |-> 0,
                torn |-> FALSE]

WireNext ==
  \/ \E m \in player : Begin(m)
  \/ \E k \in DOMAIN out :
       \/ \E rt \in {<<>>} \cup {<<r>> : r \in Realtime} : Deliver(k, rt)
       \/ Filtered(k)
       \/ QueueFull(k)
  \/ CutOff
  \/ Reset
  \/ \E on \in BOOLEAN : listen_controllers(on)
  \/ take_controls
  \/ take_events

WireSpec == WireInit /\ [][WireNext]_wireVars

-----------------------------------------------------------------------------
(* What comes in is what was sent.                                         *)

Accepted(fs) ==
  LET of[i \in 0..Len(fs)] ==
        IF i = 0 THEN <<>>
        ELSE IF Parses(fs[i]) THEN Append(of[i - 1], fs[i]) ELSE of[i - 1]
  IN of[Len(fs)]

\* Of the messages none of whose chunks was lost, every one that is a message
\* of the instrument is read, once, as it was sent and in that order, and
\* nothing else is: whatever was cut short before it, however it was cut into
\* chunks and whatever real-time bytes were in it.
ReadAsSent == Accepted(history.got) = Accepted(history.sent)

\* The assembler of the cable and the frames of a file (stream.rs) are two
\* readers of the same bytes: they accept the same messages.
ReadersAgree == Accepted(history.found) = Accepted(frames(history.stream))

\* Of the first i controllers heard: those of channel c with a number of S,
\* and which of some is the latest, 0 when there is none.
On(h, i, c, S) == {j \in 1..i : h[j][1] = c /\ h[j][2] \in S}
Latest(S)      == Max({0} \cup S)

\* The parameter number then selected: of the kind last spoken of, both its
\* bytes sent since the other kind was, and the LSB after the MSB.
Chosen(h, i, c)    == Latest(On(h, i, c, 98..101))
KindOf(h, i, c)    == SelectionKind(h[Chosen(h, i, c)][2])
OtherOf(kind)      == IF kind = "nrpn" THEN {100, 101} ELSE {98, 99}
OtherAt(h, i, c)   == Latest(On(h, i, c, OtherOf(KindOf(h, i, c))))
MsbAt(h, i, c)     == Latest({j \in On(h, i, c, {MsbCc(KindOf(h, i, c))}) :
                                j > OtherAt(h, i, c)})
LsbAt(h, i, c)     == Latest({j \in On(h, i, c, {MsbCc(KindOf(h, i, c)) - 1}) :
                                j > OtherAt(h, i, c) /\ j > MsbAt(h, i, c)})
IsSelected(h, i, c) ==
  /\ Chosen(h, i, c) # 0
  /\ MsbAt(h, i, c) # 0
  /\ LsbAt(h, i, c) # 0
  /\ ~( /\ KindOf(h, i, c) = "rpn"
        /\ h[MsbAt(h, i, c)][3] = 127
        /\ h[LsbAt(h, i, c)][3] = 127 )

\* The byte of a value that controller n entered since any selection.
EnteredAt(h, i, c, n) ==
  Latest({j \in On(h, i, c, {n}) : j > Chosen(h, i, c)})

\* What the i-th controller heard means, from all that was heard before: bank
\* selects and selections are silent, the rest is the controller itself or,
\* for a number that is selected, the value of it entered so far.
Meaning(h, i) ==
  LET c == h[i][1]
      vmsb == EnteredAt(h, i, c, 6)
      vlsb == EnteredAt(h, i, c, 38)
  IN IF h[i][2] \in {0, 32} \cup (98..101) THEN Silent
     ELSE IF h[i][2] \notin {6, 38} \/ ~IsSelected(h, i, c)
     THEN Cc(h[i][2], h[i][3])
     ELSE IF vmsb = 0 THEN Silent
     ELSE [kind |-> KindOf(h, i, c),
           number |-> h[MsbAt(h, i, c)][3] * 128 + h[LsbAt(h, i, c)][3],
           value |-> h[vmsb][3] * 128 + (IF vlsb = 0 THEN 0 ELSE h[vlsb][3])]

\* Every source that moved since the list was last taken is in it once (while
\* there is room) with the value it last had: no value mixes two parameter
\* numbers, two channels, or a number with the entry of the one before.  Not
\* so once a fragment of a SysEx was lost: without its F0 the data bytes left
\* are taken for more of the last channel message (assembler.rs:105).
ControlsAreRight ==
  LET h == history.heard
      SourceOf(i) == <<h[i][1], Meaning(h, i).kind, Meaning(h, i).number>>
      ListedAs(k) == <<controls[k].channel, controls[k].kind,
                       controls[k].number>>
      moved == {i \in DOMAIN h : Meaning(h, i) # Silent}
      IsLatest(i) == \A j \in moved : j > i => SourceOf(j) # SourceOf(i)
      Listed(i) == \E k \in DOMAIN controls : ListedAs(k) = SourceOf(i)
  IN ~history.torn =>
       /\ \A i \in moved :
            i > history.taken => Listed(i) \/ Len(controls) = MAX_CONTROLS
       /\ \A k \in DOMAIN controls, i \in moved :
            ListedAs(k) = SourceOf(i) /\ IsLatest(i) =>
              controls[k].value = Meaning(h, i).value
=============================================================================
