------------------------------- MODULE Sysex -------------------------------
(***************************************************************************)
(* Roland messages (crates/xppatch-sysex): addresses of four 7-bit lanes,  *)
(* the checksum, frames and how they are read, cut into pieces and found   *)
(* in a stream of bytes, and what a write to an address does.  A byte is   *)
(* a number; an address is its compact number, as in the code.             *)
(***************************************************************************)
EXTENDS Integers, Sequences, FiniteSets, SequencesExt

CONSTANTS
  MAX_FRAME_LEN,          \* longest frame accepted (512)
  MAX_DT1_DATA_TO_DEVICE  \* data bytes the instrument takes at once (128)

ASSUME SysexAssumption ==
  {MAX_FRAME_LEN, MAX_DT1_DATA_TO_DEVICE} \subseteq Nat \ {0}

SYSEX_START  == 240
SYSEX_END    == 247
REALTIME_MIN == 248
SevenBit     == 0..127

-----------------------------------------------------------------------------
(* Addresses.                                                              *)

MAX_COMPACT == 268435455

from_lanes(l) == ((l[1] * 128 + l[2]) * 128 + l[3]) * 128 + l[4]
lanes(a) == <<a \div 2097152, (a \div 16384) % 128, (a \div 128) % 128,
              a % 128>>

\* A span of n bytes from a stays inside the address space (n = 0 does not).
SpanFits(a, n) == n > 0 /\ a + n - 1 <= MAX_COMPACT

-----------------------------------------------------------------------------
(* Messages and frames.                                                    *)

SumOf(bs) ==
  LET sum[i \in 0..Len(bs)] == IF i = 0 THEN 0 ELSE sum[i - 1] + bs[i]
  IN sum[Len(bs)]
checksum(bs) == (128 - (SumOf(bs) % 128)) % 128

Dt1(a, data) == [command |-> 18, address |-> a, body |-> data]
Rq1(a, size) == [command |-> 17, address |-> a, body |-> lanes(size)]
IsDt1(m) == m.command = 18
SizeAsked(m) == from_lanes(m.body)

\* What may be sent or accepted: no empty message, nothing past the last
\* address, 7-bit data.
Sane(m) ==
  IF IsDt1(m)
  THEN /\ SpanFits(m.address, Len(m.body))
       /\ \A i \in DOMAIN m.body : m.body[i] \in SevenBit
  ELSE SpanFits(m.address, SizeAsked(m))

\* encode: the frame of a message (for one that is Sane).
encode(m, device) ==
  LET body == lanes(m.address) \o m.body
  IN <<SYSEX_START, 65, device, 106, m.command>> \o body
       \o <<checksum(body), SYSEX_END>>

BodyOf(f) == SubSeq(f, 6, Len(f) - 2)
MessageOf(f) ==
  [command |-> f[5], address |-> from_lanes(SubSeq(f, 6, 9)),
   body |-> SubSeq(f, 10, Len(f) - 2)]

\* parse: the frames that are accepted.
Parses(f) ==
  /\ Len(f) \in 12..MAX_FRAME_LEN
  /\ f[1] = SYSEX_START
  /\ f[Len(f)] = SYSEX_END
  /\ \A i \in 2..(Len(f) - 1) : f[i] \in SevenBit
  /\ f[2] = 65
  /\ f[3] \in 16..31
  /\ f[4] = 106
  /\ f[5] \in {17, 18}
  /\ f[Len(f) - 1] = checksum(BodyOf(f))
  /\ f[5] = 17 => Len(BodyOf(f)) = 8
  /\ Sane(MessageOf(f))

\* Real-time bytes may stand anywhere in a frame, and are taken out.
KeepsRealtime(bs)   == bs
WithoutRealtime(bs) ==
  LET kept[i \in 0..Len(bs)] ==
        IF i = 0 THEN <<>>
        ELSE IF bs[i] < REALTIME_MIN THEN Append(kept[i - 1], bs[i])
        ELSE kept[i - 1]
  IN kept[Len(bs)]

\* frames: what lies between F0 and F7, or the next F0, or the end of the
\* bytes.  The first j bytes hold the frames before their last F0, and one.
Starts(bytes, j) == {i \in 1..j : bytes[i] = SYSEX_START}
StopOf(bytes, i, j) == Min({j} \cup {e \in i..j : bytes[e] = SYSEX_END})
FrameFrom(bytes, i, j) ==
  WithoutRealtime(SubSeq(bytes, i, StopOf(bytes, i, j)))
frames(bytes) ==
  LET upto[j \in 0..Len(bytes)] ==
        IF Starts(bytes, j) = {} THEN <<>>
        ELSE LET i == Max(Starts(bytes, j))
             IN Append(upto[i - 1], FrameFrom(bytes, i, j))
  IN upto[Len(bytes)]

-----------------------------------------------------------------------------
(* Pieces.                                                                 *)

CeilDiv(n, d) == (n + d - 1) \div d
AtMost(x, y) == IF x <= y THEN x ELSE y

\* split_dt1: pieces of at most n bytes at advancing addresses (n > 0, data
\* whose span fits).
Splittable(a, data, n) == n > 0 /\ SpanFits(a, Len(data))
AtOneAddress(a, data, n) ==
  [k \in 1..CeilDiv(Len(data), n) |->
     Dt1(a, SubSeq(data, (k - 1) * n + 1, AtMost(k * n, Len(data))))]
split_dt1(a, data, n) ==
  [k \in 1..CeilDiv(Len(data), n) |->
     Dt1(a + (k - 1) * n,
         SubSeq(data, (k - 1) * n + 1, AtMost(k * n, Len(data))))]

\* resplit_dt1: every frame cut again, for the same device; refused when one
\* of them is not a DT1.
Resplittable(fs, n) ==
  n > 0 /\ \A k \in DOMAIN fs : Parses(fs[k]) /\ fs[k][5] = 18
resplit_dt1(fs, n) ==
  LET limit == AtMost(n, MAX_DT1_DATA_TO_DEVICE)
      Pieces(f) == split_dt1(MessageOf(f).address, MessageOf(f).body, limit)
  IN FlattenSeq([k \in DOMAIN fs |->
       [p \in DOMAIN Pieces(fs[k]) |-> encode(Pieces(fs[k])[p], fs[k][3])]])

-----------------------------------------------------------------------------
(* The memory map.                                                         *)

USER_PATCH_COUNT       == 128
USER_PERFORMANCE_COUNT == 32
USER_RHYTHM_COUNT      == 2

SYSTEM           == from_lanes(<<0, 0, 0, 0>>)
TEMP_PERFORMANCE == from_lanes(<<1, 0, 0, 0>>)
temp_patch_part(part) == from_lanes(<<2, part, 0, 0>>)
TEMP_PATCH       == from_lanes(<<3, 0, 0, 0>>)
user_performance(slot) == from_lanes(<<16, slot, 0, 0>>)
user_rhythm(slot)      == from_lanes(<<16, 64 + slot, 0, 0>>)
user_patch(slot)       == from_lanes(<<17, slot, 0, 0>>)

classify(a) ==
  CASE lanes(a)[1] \in 1..3        -> "temporary"
    [] lanes(a)[1] \in {0, 16, 17} -> "permanent"
    [] OTHER                       -> "unknown"

\* classify_range: by the first and the last byte of the write.
classify_range(a, n) ==
  IF ~SpanFits(a, n) THEN "unknown"
  ELSE LET ends == {classify(a), classify(a + n - 1)}
       IN IF "permanent" \in ends THEN "permanent"
          ELSE IF ends = {"temporary"} THEN "temporary" ELSE "unknown"
=============================================================================
