------------------------------- MODULE Files -------------------------------
(***************************************************************************)
(* Files of stored sounds (crates/xppatch-core: syx.rs, smf.rs): messages  *)
(* one after the other, or the SysEx events of a Standard MIDI File.  A    *)
(* reading is [ok, ...]; ok is FALSE where the code returns an error.      *)
(***************************************************************************)
EXTENDS Documents

Record(f) == [address |-> MessageOf(f).address, data |-> MessageOf(f).body]
Stored(f) == Parses(f) /\ IsDt1(MessageOf(f))

Records(fs) ==
  LET good == SelectSeq(fs, Stored)
  IN [k \in DOMAIN good |-> Record(good[k])]

\* parse: one frame that is not stored data fails the whole file.
StrictRead(fs, records) ==
  [ok |-> fs # <<>> /\ Len(records) = Len(fs), records |-> records]
ReadStrictly(fs) == StrictRead(fs, Records(fs))
parse(bytes)     == ReadStrictly(frames(bytes))

\* parse_lenient: such frames are left out and counted.
LenientRead(fs, records) ==
  [ok      |-> records # <<>>,
   records |-> records,
   skipped |-> Len(fs) - Len(records)]
ReadLeniently(fs)    == LenientRead(fs, Records(fs))
parse_lenient(bytes) == ReadLeniently(frames(bytes))

-----------------------------------------------------------------------------
(* What the records of a file hold.                                        *)

\* The User slot of a kind that an address lies in, or -1.
SlotOf(kind, a) ==
  LET l == lanes(a) IN
  CASE kind = "patch" /\ l[1] = 17 /\ l[2] < user_slots(kind) -> l[2]
    [] kind = "performance" /\ l[1] = 16 /\ l[2] < user_slots(kind) -> l[2]
    [] kind = "rhythm" /\ l[1] = 16 /\ l[2] - 64 \in 0..(user_slots(kind) - 1)
         -> l[2] - 64
    [] OTHER -> -1

SlotsIn(kind, records) ==
  {SlotOf(kind, r.address) : r \in ToSet(records)} \ {-1}
PiecesOf(kind, slot, records) ==
  SelectSeq(records, LAMBDA r : SlotOf(kind, r.address) = slot)

\* user_patches, user_documents: every slot the file mentions, or nothing;
\* pieces are those of each slot.
AllOrNothing(kind, pieces) ==
  LET whole == \A s \in DOMAIN pieces :
                 Assembles(kind, user_base(kind, s), pieces[s])
  IN [ok    |-> whole,
      slots |-> [s \in {x \in DOMAIN pieces : whole} |->
                   from_dt1(kind, user_base(kind, s), pieces[s])]]
user_documents(kind, records) ==
  AllOrNothing(kind, [s \in SlotsIn(kind, records) |->
                        PiecesOf(kind, s, records)])

\* A part is short when the pieces that begin inside it hold fewer bytes.
Parts(slot) == to_dt1(init_document("patch"), user_patch(slot))
StartsIn(part, a) == a \in part.address..(part.address + Len(part.data) - 1)
ShortWhenEmpty(part, pieces) ==
  \A k \in DOMAIN pieces : ~StartsIn(part, pieces[k].address)
Short(part, pieces) ==
  SumOf([k \in DOMAIN pieces |->
           IF StartsIn(part, pieces[k].address)
           THEN Len(pieces[k].data) ELSE 0]) < Len(part.data)
ShortAmong(parts, pieces) == {i \in DOMAIN parts : Short(parts[i], pieces)}
ShortParts(slot, records) ==
  ShortAmong(Parts(slot), PiecesOf("patch", slot, records))

\* A short part loses its pieces and is given its initial values.
Filled(pieces, gaps) ==
  SelectSeq(pieces, LAMBDA r :
    \A k \in DOMAIN gaps : ~StartsIn(gaps[k], r.address)) \o gaps
FillGaps(parts, pieces) ==
  Filled(pieces, SelectSeq(parts, LAMBDA p : Short(p, pieces)))
FilledPieces(slot, records) ==
  FillGaps(Parts(slot), PiecesOf("patch", slot, records))

\* user_patches_lenient: with more short parts than messages skipped the
\* file is taken as cut short, and read like any other.
WithFilled(r, filled) == [ok |-> r.ok, slots |-> r.slots, filled |-> filled]
LenientOr(strict, full, filled, damaged) ==
  CASE ~full.ok                       -> WithFilled(full, {})
    [] Cardinality(filled) > damaged  -> WithFilled(strict, {})
    [] OTHER                          -> WithFilled(full, filled)
user_patches_lenient(records, damaged) ==
  LET slots == SlotsIn("patch", records)
  IN LenientOr(user_documents("patch", records),
               AllOrNothing("patch",
                            [s \in slots |-> FilledPieces(s, records)]),
               UNION {{s} \X ShortParts(s, records) : s \in slots},
               damaged)

\* temp_patch, system_document: what is addressed to one area, if anything.
AreaOf(records, base) ==
  SelectSeq(records, LAMBDA r : SubSeq(lanes(r.address), 1, 2)
                                  = SubSeq(lanes(base), 1, 2))
OneDocument(kind, base, pieces) ==
  LET whole == Assembles(kind, base, pieces)
  IN [ok   |-> pieces = <<>> \/ whole,
      held |-> {from_dt1(kind, base, p) : p \in {q \in {pieces} : whole}}]
area_document(kind, base, records) ==
  OneDocument(kind, base, AreaOf(records, base))
temp_patch(records)      == area_document("patch", TEMP_PATCH, records)
system_document(records) == area_document("system", SYSTEM, records)

-----------------------------------------------------------------------------
(* Writing files: the messages of one document; split = 0 is no split.     *)

document_messages(doc, base, device, split) ==
  LET Cut(p) == IF split = 0 THEN <<Dt1(p.address, p.data)>>
                ELSE split_dt1(p.address, p.data, split)
      ms == FlattenSeq([i \in DOMAIN to_dt1(doc, base) |->
                          Cut(to_dt1(doc, base)[i])])
  IN [k \in DOMAIN ms |-> encode(ms[k], device)]

\* user_patch_bank_bytes, user_document_bytes, for slots that exist and
\* documents of the kind that are not Invalid.
bank_messages(kind, bank, device, split) ==
  FlattenSeq([k \in DOMAIN bank |->
    document_messages(bank[k].doc, user_base(kind, bank[k].slot), device,
                      split)])
system_messages(doc, device, split) ==
  document_messages(doc, SYSTEM, device, split)

-----------------------------------------------------------------------------
(* Standard MIDI Files, as their tracks: sequences of events [status,      *)
(* data], where status 0 is none (running status).                         *)

META == 255

AnyFrame(f) == Len(f) >= 3
\* syx_to_smf: one track, one event per frame that is complete.
Complete(f) == Len(f) >= 3 /\ f[Len(f)] = SYSEX_END
complete_frames(bytes) ==
  LET fs == frames(bytes)
      kept[k \in 0..Len(fs)] ==
        IF k = 0 THEN <<>>
        ELSE IF Complete(fs[k]) THEN Append(kept[k - 1], fs[k])
        ELSE kept[k - 1]
  IN kept[Len(fs)]
EventOf(f) == [status |-> SYSEX_START, data |-> Tail(f)]
EndOfTrack == [status |-> META, data |-> <<>>]
syx_to_smf(bytes) ==
  LET fs == complete_frames(bytes)
  IN [ok     |-> fs # <<>>,
      tracks |-> <<Append([k \in DOMAIN fs |-> EventOf(fs[k])],
                          EndOfTrack)>>]

\* read_track: an F7 event goes on with a message that has not ended, and is
\* otherwise left out.
StatusOf(r, e) == IF e.status = 0 THEN r.running ELSE e.status
Received(r, message) ==
  LET whole == message[Len(message)] = SYSEX_END
  IN [running |-> r.running,
      pending |-> IF whole THEN <<>> ELSE message,
      out     |-> IF whole THEN r.out \o message ELSE r.out,
      ok      |-> r.ok]
ReadEvent(r, e) ==
  LET status == StatusOf(r, e)
  IN CASE status = META -> r
       [] status \in 128..239 -> [r EXCEPT !.running = status]
       [] status = SYSEX_START /\ r.pending # <<>> -> [r EXCEPT !.ok = FALSE]
       [] status = SYSEX_START /\ r.pending = <<>> ->
            Received(r, <<SYSEX_START>> \o e.data)
       [] status = SYSEX_END /\ r.pending = <<>> -> r
       [] status = SYSEX_END /\ r.pending # <<>> ->
            Received(r, r.pending \o e.data)
       [] OTHER -> [r EXCEPT !.ok = FALSE]
read_track(events) ==
  LET r[k \in 0..Len(events)] ==
        IF k = 0
        THEN [running |-> 0, pending |-> <<>>, out |-> <<>>, ok |-> TRUE]
        ELSE ReadEvent(r[k - 1], events[k])
      end == r[Len(events)]
  IN [ok |-> end.ok /\ end.pending = <<>>, out |-> end.out]

\* smf_to_syx: what every track holds, one after the other.
smf_to_syx(tracks) ==
  LET out == FlattenSeq([t \in DOMAIN tracks |-> read_track(tracks[t]).out])
  IN [ok    |-> /\ \A t \in DOMAIN tracks : read_track(tracks[t]).ok
                /\ out # <<>>,
      bytes |-> out]
=============================================================================
