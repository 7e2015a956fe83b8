------------------------------ MODULE Session ------------------------------
(***************************************************************************)
(* One sound in the editor (crates/xppatch-wasm, and the store and the     *)
(* undo history of the window over it): edits and undo, the messages they  *)
(* send to the instrument's temporary memory, and the files it is saved    *)
(* to and read from.  The queue between the store and the instrument is    *)
(* module LiveEdit's; here a message that is sent has arrived.             *)
(***************************************************************************)
EXTENDS Files

CONSTANTS
  Opened,             \* documents the editor may start from
  Second,             \* the patch saved beside the one edited
  NAMES,              \* names that are typed, as characters
  BULK_LIVE_LIMIT,    \* most parameters sent one by one
  CHUNK,              \* data bytes per message the user chose for live sends
  HISTORY_LIMIT,
  Foreign,            \* messages of a file that are no data of this kind
  Bad,                \* what a damaged byte may turn into
  MaxSteps            \* bound on edits, and harm to and changes of a file

ASSUME SessionAssumption ==
  /\ BULK_LIVE_LIMIT \in Nat /\ CHUNK \in Nat \ {0}
  /\ MAX_DT1_DATA_TO_DEVICE + 11 <= MAX_FRAME_LEN
  /\ HISTORY_LIMIT \in Nat \ {0} /\ MaxSteps \in Nat
ASSUME OpenedAssumption == \A d \in Opened : IsDocument(d)
ASSUME FilesAssumption ==
  /\ "patch" \in Kinds => IsDocument(Second)
  /\ \A f \in Foreign : f \in Seq(ToSet(f))

VARIABLES
  doc,       \* the document in the editor
  group,     \* its bytes when the open undo group began, <<>> if none is
  history,   \* [items: Seq([before, after]), applied]
  live,      \* live editing is on
  baseSent,  \* the instrument was sent the whole document
  heard,     \* what live messages wrote: address -> byte
  refused,   \* a live message was refused since the last whole send
  file,      \* the messages of a file, as bytes
  midi,      \* the tracks of its MIDI form, <<>> if it was not made
  written,   \* the documents saved to the file, by slot
  faults,    \* kinds of harm the file has come to
  steps

editVars == <<doc, group, history>>
liveVars == <<live, baseSent, heard, refused>>
fileVars == <<file, midi, written, faults>>
vars     == <<editVars, liveVars, fileVars, steps>>

kind   == doc.kind
DEVICE == 16
Step   == steps < MaxSteps /\ steps' = steps + 1

-----------------------------------------------------------------------------
(* Live messages.                                                          *)

\* The name of a Rhythm Set is held back: its temporary address is not known.
FirstBlock(k) == IF k = "rhythm" THEN 2 ELSE 1
FirstSent     == FirstBlock(kind)

\* What the backend lets through to the instrument, whatever the editor sends.
inside_temp_patch_block(a, n) ==
  \E k \in Kinds \ {"system"} : \E i \in FirstBlock(k)..(1 + items(k)) :
    LET l == layout(k)[i]
    IN /\ a >= temp_base(k) + l.offset
       /\ a + n <= temp_base(k) + l.offset + l.def.size
send_temp_frame(f) ==
  /\ Stored(f) /\ f[3] = DEVICE
  /\ LET r == Record(f)
     IN /\ Len(r.data) <= MAX_DT1_DATA_TO_DEVICE
        /\ classify_range(r.address, Len(r.data)) = "temporary"
        /\ inside_temp_patch_block(r.address, Len(r.data))

Hear(memory, f) ==
  LET r == Record(f)
      span == r.address..(r.address + Len(r.data) - 1)
  IN IF ~send_temp_frame(f) THEN memory
     ELSE [a \in DOMAIN memory \cup span |->
             IF a \in span THEN r.data[a - r.address + 1] ELSE memory[a]]
HearAll(memory, fs) ==
  LET after[k \in 0..Len(fs)] ==
        IF k = 0 THEN memory ELSE Hear(after[k - 1], fs[k])
  IN after[Len(fs)]

\* patch_frames, doc_frames, for a document that is not Invalid.
patch_frames(d) ==
  LET pieces == SubSeq(to_dt1(d, temp_base(d.kind)), FirstSent,
                       Len(d.blocks))
      ms == FlattenSeq([i \in DOMAIN pieces |->
              split_dt1(pieces[i].address, pieces[i].data,
                        MAX_DT1_DATA_TO_DEVICE)])
  IN [k \in DOMAIN ms |-> encode(ms[k], DEVICE)]

param_frame(d, c) ==
  LET p == param_dt1(d, temp_base(d.kind), c[1], c[2])
  IN encode(Dt1(p.address, p.data), DEVICE)

param_frames(d, cs) == [k \in DOMAIN cs |-> param_frame(d, cs[k])]

\* cutFrames: only a smaller size than the instrument's cuts again.
cutFrames(fs) ==
  IF CHUNK >= MAX_DT1_DATA_TO_DEVICE THEN fs ELSE resplit_dt1(fs, CHUNK)

\* sendPatch: a refusal is reported and changes nothing.
sendPatch(d) ==
  IF Invalid(d)
  THEN refused' = TRUE /\ UNCHANGED <<baseSent, heard>>
  ELSE /\ heard' = HearAll(heard, cutFrames(patch_frames(d)))
       /\ baseSent' = TRUE
       /\ refused' = FALSE

\* changedParams: the parameters <<block, parameter>> with another byte.
changedParams(old, new) ==
  UNION {{<<i, j>> : j \in {n \in DOMAIN DefOf(new.kind, i).params :
                      \E k \in BytesOf(DefOf(new.kind, i).params[n]) :
                        old.blocks[i][k] # new.blocks[i][k]}} :
           i \in DOMAIN new.blocks}

\* afterEdit: what an edit sends.
afterEdit(new) ==
  LET sendable == {c \in changedParams(doc, new) : c[1] >= FirstSent}
      fit      == {c \in sendable : ParamSendable(new, c[1], c[2])}
  IN IF ~live \/ ~is_live_editable(kind)
     THEN baseSent' = FALSE /\ UNCHANGED <<heard, refused>>
     ELSE IF ~baseSent \/ Cardinality(sendable) > BULK_LIVE_LIMIT
     THEN sendPatch(new)
     ELSE /\ heard' = HearAll(heard, param_frames(new, SetToSeq(fit)))
          /\ refused' = (refused \/ fit # sendable)
          /\ UNCHANGED baseSent

setLive(on) ==
  /\ is_live_editable(kind) /\ on # live
  /\ live' = on
  /\ IF on THEN sendPatch(doc)
     ELSE baseSent' = FALSE /\ UNCHANGED <<heard, refused>>
  /\ UNCHANGED <<editVars, fileVars, steps>>

-----------------------------------------------------------------------------
(* Undo history.                                                           *)

NoHistory == [items |-> <<>>, applied |-> 0]

KeepsRedo(h, before, after) ==
  [items   |-> SubSeq(h.items, 1, h.applied)
                 \o <<[before |-> before, after |-> after]>>
                 \o SubSeq(h.items, h.applied + 1, Len(h.items)),
   applied |-> h.applied + 1]

\* record: what could be redone is dropped, then what exceeds the limit.
record(h, before, after) ==
  LET all == Append(SubSeq(h.items, 1, h.applied),
                    [before |-> before, after |-> after])
      kept == SubSeq(all, Max({1, Len(all) - HISTORY_LIMIT + 1}), Len(all))
  IN [items |-> kept, applied |-> Len(kept)]

\* end: a group that changed something is one entry.
Recorded(before, new) ==
  IF before = to_block_bytes(new) THEN history
  ELSE record(history, before, to_block_bytes(new))

Begin ==
  /\ group = <<>>
  /\ group' = to_block_bytes(doc)
  /\ UNCHANGED <<doc, history, liveVars, fileVars, steps>>
End ==
  /\ group # <<>>
  /\ group' = <<>>
  /\ history' = Recorded(group, doc)
  /\ UNCHANGED <<doc, liveVars, fileVars, steps>>

\* An edit made as its own group, or within the open one.
Edit(new) ==
  /\ file = <<>> /\ Step
  /\ doc' = new
  /\ history' = IF group = <<>> THEN Recorded(to_block_bytes(doc), new)
                ELSE history
  /\ afterEdit(new)
  /\ UNCHANGED <<group, live, fileVars>>

WithBlock(i, data) == [doc EXCEPT !.blocks[i] = data]

\* set: in range, and a change; a malformed value cannot be read to tell.
Set ==
  \E i \in DOMAIN doc.blocks : \E p \in ToSet(DefOf(kind, i).params) :
    \E v \in {p.min, p.max} :
      /\ \A k \in BytesOf(p) : doc.blocks[i][k] < Unit(p)
      /\ v # get_param(p, doc.blocks[i])
      /\ Edit(WithBlock(i, write(p, v, doc.blocks[i])))

setName ==
  \E chars \in NAMES : LET def == DefOf(kind, 1) IN
    /\ TextFits(def, chars)
    /\ Trimmed(chars) # text(def, doc.blocks[1])
    /\ Edit(WithBlock(1, set_text(def, chars, doc.blocks[1])))

\* applyMany: a tool that sets every parameter to its greatest value.
applyMany ==
  LET Greatest(i) ==
        LET ps == DefOf(kind, i).params
        IN write_all(ps, [j \in DOMAIN ps |-> ps[j].max], doc.blocks[i])
      new == [doc EXCEPT !.blocks = [i \in DOMAIN doc.blocks |-> Greatest(i)]]
  IN new # doc /\ Edit(new)

\* undo, redo, jumpTo: the open group is ended first.
Restore(h, snapshot) ==
  /\ file = <<>>
  /\ doc' = from_block_bytes(kind, snapshot)
  /\ group' = <<>>
  /\ history' = h
  /\ afterEdit(from_block_bytes(kind, snapshot))
  /\ UNCHANGED <<live, fileVars, steps>>

Ended == IF group = <<>> THEN history ELSE Recorded(group, doc)
undo ==
  LET h == Ended IN
    /\ h.applied > 0
    /\ Restore([h EXCEPT !.applied = @ - 1], h.items[h.applied].before)
redo ==
  LET h == Ended IN
    /\ h.applied < Len(h.items)
    /\ Restore([h EXCEPT !.applied = @ + 1], h.items[h.applied + 1].after)
jumpTo ==
  LET h == Ended IN
    \E n \in 0..Len(h.items) :
      /\ h.items # <<>>
      /\ Restore([h EXCEPT !.applied = n],
                 IF n = 0 THEN h.items[1].before ELSE h.items[n].after)

-----------------------------------------------------------------------------
(* Files.                                                                  *)

FileBytes == FlattenSeq(file)

\* bank_to_syx, to_syx, a backup of the memory (not split), a dump of the
\* temporary patch by the instrument: each one [written, messages].
Exports ==
  LET One      == (0 :> doc)
      Two      == (0 :> doc) @@ (1 :> Second)
      bank     == <<[slot |-> 0, doc |-> doc]>>
      Saved(w, ms) == [written |-> w, messages |-> ms]
  IN CASE kind = "patch" ->
            { Saved(One, bank_messages(kind, bank, DEVICE,
                                       MAX_DT1_DATA_TO_DEVICE)),
              Saved(Two, bank_messages(kind,
                           Append(bank, [slot |-> 1, doc |-> Second]),
                           DEVICE, 0)),
              Saved(One, document_messages(doc, TEMP_PATCH, DEVICE, 0)) }
       [] kind = "system" ->
            {Saved(One, system_messages(doc, DEVICE,
                                        MAX_DT1_DATA_TO_DEVICE))}
       [] OTHER ->
            {Saved(One, bank_messages(kind, bank, DEVICE,
                                      MAX_DT1_DATA_TO_DEVICE))}

Export ==
  /\ file = <<>> /\ group = <<>> /\ ~Invalid(doc)
  /\ \E x \in Exports : file' = x.messages /\ written' = x.written
  /\ midi' = <<>> /\ faults' = {}
  /\ UNCHANGED <<editVars, liveVars, steps>>

\* What may happen to a file on the way.
Harm(what, messages) ==
  /\ file # <<>> /\ midi = <<>> /\ Step
  /\ file' = messages
  /\ faults' = faults \cup what
  /\ UNCHANGED <<midi, written, editVars, liveVars>>

Lose ==
  /\ Len(file) > 1
  /\ \E k \in DOMAIN file : Harm({"lost"}, RemoveAt(file, k))
Double ==
  \E k \in DOMAIN file :
    Harm({"doubled"}, InsertAt(file, k, file[k]))
Swap ==
  \E k \in 1..(Len(file) - 1) :
    Harm({}, [file EXCEPT ![k] = file[k + 1], ![k + 1] = file[k]])
Insert ==
  \E k \in 1..(Len(file) + 1), f \in Foreign :
    Harm({"foreign"}, InsertAt(file, k, f))
Tick ==
  \E k \in DOMAIN file :
    /\ Len(file[k]) > 3
    /\ Harm({}, ReplaceAt(file, k, InsertAt(file[k], 4, 254)))
\* A byte is changed: the first, a byte of data or the last.  Without its
\* first byte a message is not seen at all; a byte that became a real-time
\* byte is taken out, and if it was 0 the checksum still holds.
Damage ==
  \E k \in DOMAIN file :
    \E at \in {1, 10, Len(file[k])} \cap DOMAIN file[k] : \E b \in Bad :
      /\ b # file[k][at]
      /\ at # 10 => b < 128
      /\ Harm(IF at = 1 \/ b >= REALTIME_MIN THEN {"lost"} ELSE {"damaged"},
              ReplaceAt(file, k, ReplaceAt(file[k], at, b)))

\* The file as a MIDI file, and what a sequencer may make of it.
SaveAsMidi ==
  /\ file # <<>> /\ midi = <<>>
  /\ syx_to_smf(FileBytes).ok
  /\ midi' = syx_to_smf(FileBytes).tracks
  /\ UNCHANGED <<file, written, faults, steps, editVars, liveVars>>

Sequence(tracks) ==
  /\ Step /\ midi' = tracks
  /\ UNCHANGED <<file, written, faults, editVars, liveVars>>
\* Event k of a track stands on its own: it has a status, and no message is
\* open before it.
AtRest(track, k) ==
  track[k].status # 0 /\ \A e \in {track[j] : j \in {k - 1} \cap DOMAIN track} :
    e.status \in {SYSEX_START, SYSEX_END} => Last(e.data) = SYSEX_END
SplitEvent ==
  \E t \in DOMAIN midi : \E k \in DOMAIN midi[t] :
    LET track == midi[t]
        data  == track[k].data
    IN /\ track[k].status = SYSEX_START /\ Len(data) > 8
       /\ Last(data) = SYSEX_END
       /\ Sequence([midi EXCEPT ![t] =
            SubSeq(track, 1, k - 1)
            \o <<[status |-> SYSEX_START, data |-> SubSeq(data, 1, 8)],
                 [status |-> SYSEX_END, data |-> SubSeq(data, 9, Len(data))]>>
            \o SubSeq(track, k + 1, Len(track))])
\* Notes, the second by running status; a meta event; an escape.
Others == { <<[status |-> 144, data |-> <<60, 64>>],
              [status |-> 0, data |-> <<60, 0>>]>>,
            <<[status |-> META, data |-> <<>>]>>,
            <<[status |-> SYSEX_END, data |-> <<243, 1>>]>> }
AddEvent ==
  \E t \in DOMAIN midi : \E k \in DOMAIN midi[t] : \E es \in Others :
    /\ AtRest(midi[t], k)
    /\ Sequence([midi EXCEPT ![t] =
         SubSeq(midi[t], 1, k - 1) \o es
         \o SubSeq(midi[t], k, Len(midi[t]))])
SplitTrack ==
  /\ Len(midi) = 1
  /\ \E k \in 2..Len(midi[1]) :
    /\ AtRest(midi[1], k)
    /\ Sequence(<<SubSeq(midi[1], 1, k - 1),
                  SubSeq(midi[1], k, Len(midi[1]))>>)

\* asSyx: a MIDI file is unpacked first.
Picked == IF midi = <<>> THEN [ok |-> TRUE, bytes |-> FileBytes]
          ELSE smf_to_syx(midi)

Nothing == [ok |-> FALSE, slots |-> <<>>, filled |-> {}, skipped |-> 0]

\* import_syx: a dump, when it was read at all.
Held(d, skipped) ==
  [ok |-> d.ok /\ d.held # {}, filled |-> {}, skipped |-> skipped,
   slots |-> [s \in {0 : x \in d.held} |-> CHOOSE x \in d.held : TRUE]]

Report(r, skipped) == [ok |-> r.ok, slots |-> r.slots, filled |-> r.filled,
                       skipped |-> skipped]

\* from_syx_slot, syx_names, syx_report of a patch file, and import_syx, which
\* also takes a dump of the temporary patch.
OrTemporary(patches, lenient) ==
  CASE ~lenient.ok \/ ~patches.ok -> Nothing
    [] DOMAIN patches.slots = {}  -> Held(temp_patch(lenient.records),
                                          lenient.skipped)
    [] OTHER                      -> Report(patches, lenient.skipped)
PatchFile(lenient) ==
  OrTemporary(user_patches_lenient(lenient.records, lenient.skipped), lenient)

\* Performances and Rhythm Sets are read strictly, and the System settings as
\* the backup of a save is checked.
StrictFile(strict) ==
  CASE ~strict.ok      -> Nothing
    [] kind = "system" -> Held(system_document(strict.records), 0)
    [] OTHER           ->
         Report(WithFilled(user_documents(kind, strict.records), {}), 0)

Reading(bytes) == IF kind = "patch" THEN PatchFile(parse_lenient(bytes))
                  ELSE StrictFile(parse(bytes))
ReadingOf(picked) == IF picked.ok THEN Reading(picked.bytes) ELSE Nothing

\* loadSyx, open: the history starts again and nothing is sent.
OpenFile ==
  /\ file # <<>> /\ kind # "system"
  /\ \E r \in {ReadingOf(Picked)} :
       /\ r.ok
       /\ \E s \in DOMAIN r.slots : doc' = r.slots[s]
  /\ group' = <<>> /\ history' = NoHistory
  /\ baseSent' = FALSE
  /\ file' = <<>> /\ midi' = <<>> /\ written' = <<>> /\ faults' = {}
  /\ UNCHANGED <<live, heard, refused, steps>>
CloseFile ==
  /\ file # <<>>
  /\ file' = <<>> /\ midi' = <<>> /\ written' = <<>> /\ faults' = {}
  /\ UNCHANGED <<editVars, liveVars, steps>>

-----------------------------------------------------------------------------

Init ==
  /\ doc \in Opened /\ group = <<>> /\ history = NoHistory
  /\ live \in BOOLEAN /\ baseSent = FALSE /\ heard = <<>> /\ refused = FALSE
  /\ file = <<>> /\ midi = <<>> /\ written = <<>> /\ faults = {}
  /\ steps = 0

Next ==
  \/ \E on \in BOOLEAN : setLive(on)
  \/ Begin \/ End \/ Set \/ setName \/ applyMany
  \/ undo \/ redo \/ jumpTo
  \/ Export \/ Lose \/ Double \/ Swap \/ Insert \/ Tick \/ Damage
  \/ SaveAsMidi \/ SplitEvent \/ AddEvent \/ SplitTrack
  \/ OpenFile \/ CloseFile

Spec == Init /\ [][Next]_vars

-----------------------------------------------------------------------------

\* Once the whole document was sent, and no message refused by the editor
\* since, the instrument holds every byte of it that is sent, whatever was
\* edited, undone or cut: the backend lets all of these messages through.
\* And it lets none through that does not lie in temporary memory.
InstrumentFollows ==
  /\ \A a \in DOMAIN heard : classify(a) = "temporary"
  /\ baseSent /\ ~refused =>
       \A i \in FirstSent..Len(doc.blocks) : \A k \in DOMAIN doc.blocks[i] :
         LET a == temp_base(kind) + layout(kind)[i].offset + k - 1
         IN a \in DOMAIN heard /\ heard[a] = doc.blocks[i][k]

\* The history is a chain of states that leads to the document (to where
\* the open group began), and what can be redone leads on from there; also
\* when old entries were dropped or a group was open when undo was pressed.
UndoReturns ==
  LET here == IF group = <<>> THEN to_block_bytes(doc) ELSE group
      all  == history.items
  IN /\ history.applied \in 0..Len(all)
     /\ history.applied > 0 => all[history.applied].after = here
     /\ history.applied < Len(all) => all[history.applied + 1].before = here
     /\ \A k \in 2..Len(all) : all[k].before = all[k - 1].after

\* What a file is read as is what was saved: each block as it was written,
\* or listed as reset, at its initial values, when a byte of it is missing,
\* with no more blocks reset than messages skipped.  A patch file with
\* nothing lost or doubled is read as long as one message is left (its MIDI
\* form carries no message without an end), and a file that came to no harm
\* is read as a whole.
Honest(r, records) ==
  LET At(s, i) == user_base(kind, s) + layout(kind)[i].offset
      Missing(s, i) == \E k \in DOMAIN written[s].blocks[i] :
                         DataAt(records, At(s, i) + k - 1) = {}
      Kept(s, i) ==
        IF <<s, i>> \in r.filled
        THEN Missing(s, i) /\ r.slots[s].blocks[i] = init(DefOf(kind, i))
        ELSE r.slots[s].blocks[i] = written[s].blocks[i]
  IN /\ r.ok => /\ DOMAIN r.slots \subseteq DOMAIN written
                /\ \A s \in DOMAIN r.slots :
                     \A i \in DOMAIN layout(kind) : Kept(s, i)
                /\ Cardinality(r.filled) <= r.skipped
     /\ /\ kind = "patch" /\ midi = <<>>
        /\ faults \cap {"lost", "doubled"} = {}
        /\ SlotsIn(kind, records) # {}
        => r.ok
     /\ faults \subseteq {"doubled"} => r.ok /\ r.slots = written
HonestReading ==
  file # <<>> => \A picked \in {Picked} :
    picked.ok => Honest(Reading(picked.bytes),
                        parse_lenient(picked.bytes).records)

\* A file saved as a MIDI file is read as the same messages, also when a
\* sequencer split an event, put others between or began another track.
SameThroughMidi ==
  midi # <<>> => LET picked == Picked IN
    /\ picked.ok
    /\ picked.bytes = FlattenSeq(complete_frames(FileBytes))
=============================================================================
