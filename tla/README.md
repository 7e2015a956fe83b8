# XP60 Studio in TLA+

Specifications, model-checking runs and proofs for XP60 Studio (the `xppatch`
workspace): a desktop editor for the Roland XP-60 synthesizer, with a Rust
backend (`src/crates`), a Tauri shell (`src/crates/xppatch-app`) and a Svelte
window (`src/ui`).  The modules follow the code; every definition that stands
for code is listed with its file and lines in `PROJECT.json` (`map`).

The program's hard promises are these:

1. the instrument's permanent memory is never overwritten unless what was there
   is in a verified backup file, and only what was confirmed is written;
2. what the screen claims about the instrument (SENT, TEMP VERIFIED) is true,
   and single edits never leave a mixture of two sounds in it;
3. the commands of the window share one connection without losing it, waiting
   for ever, or cancelling the wrong operation;
4. an answer from the instrument is what the instrument holds, although the
   cable delays, loses and echoes;
5. what the user stores stays: patches and banks of the library, what a bank
   held before a change, the library itself when its folder is changed;
6. a file of sounds is read as what was saved, or what is missing is listed.

## 1. Inventory

### Modelled

**The write ceremony** (`crates/xppatch-app/src/synth.rs`, permanent writes in
`crates/xppatch-midi/src/client.rs`).  State: one arming at a time (its backup,
its confirmed slots, its age), the last save that can be undone for the User
patches and for the System settings, the files.  Operations: arm, disarm and
commit for a User patch, the System settings and a bank of patches; undo of the
first two.  Hard: every operation is many messages to a machine on which the
musician may store something at any moment, which may ignore a message (User
Memory Protect) or not answer, over a cable that may be pulled; the program may
stop between any two.  Correct when: what is overwritten was backed up; a change
somebody made is noticed before it is overwritten; "verified" is true; a bank
write stops at the first slot that does not verify; a stale or replaced arming
writes nothing.  Module `Ceremony`, modelled but for reads without state.

**The panels of the ceremony** (`ui/src/model/save.svelte.ts`,
`systemSave.svelte.ts`, `bank.svelte.ts`).  State: each panel's phase, what it
has frozen to write, what it says it would replace, what it offers to put back.
Operations: arm, cancel, commit, undo, read the bank, back it up, and every
answer of theirs.  Hard: each is an `await`, the user clicks on meanwhile, the
commands travel on threads of their own and may overtake each other, be refused
as busy or find the arming expired.  Correct when: what is written is what the
screen said, and no arming stays behind a panel that is closed.  Module `Panels`.

**The command shell** (`crates/xppatch-app/src/lib.rs`).  State: the connection
(mutex over an `Option`), `busy` (atomic), the current cancel token (mutex).
Operations: short commands, long ones (`begin_long` ... `LongOp::drop`),
`midi_connect`, `midi_disconnect`, `midi_cancel`.  Hard: every command is a
thread; they interleave between any two of the three shared places.  Correct
when: one long operation at a time, a cancel reaches it and no later one, no
port is lost or leaked, every command ends.  Modules `SingleFlight` (the
promise) and `Shell` (the code).

**Live editing** (`ui/src/model/store.svelte.ts`, `liveQueue.ts`,
`transport.ts`, `preview.svelte.ts`, the Fetch/Verify/Send buttons of
`editor/SynthBar.svelte`, the poll of `synth.svelte.ts`).  State: the document,
the claim, three marks the claim rests on, the queue of frames with its attempts
and timer, the gate with one frame in flight, the read in progress, the sound an
audition will put back.  Operations: edit, open, send, live on and off, connect,
disconnect, fetch, verify, audition, and the timers and promises.  Hard: one
thread of callbacks, every `await` a place where the rest moves; an audition
writes past the store.  Correct when: the claims are true, edits never mix two
sounds, the queue drains.  Module `LiveEdit`.

**The request protocol** (`crates/xppatch-midi/src/client.rs`: `request`,
`poll`, `Collector`).  State: the attempt, its deadline and ceiling, the cells
covered so far.  Operations: ask, collect, retry, give up, cancel; a write with
its echo window and read-back.  Hard: replies may be lost, late, cut in pieces,
or answers to an earlier attempt; Soft Thru returns the client's own writes; an
instrument that is busy drops a request.  Correct when: what is accepted was
held by the instrument since the request began, the next request finds a quiet
line, and every request ends in bounded time.  Module `Request`.

**What comes in** (`hardware.rs`, `assembler.rs`, `controls.rs` and `absorb` of
`client.rs`, all in `crates/xppatch-midi/src`; `crates/xppatch-sysex/src/stream.rs`).
State: the bounded queue of the input callback, the message being assembled, the
running status, per channel the number and the value being put together, the
lists of events and controllers.  Hard: messages come in fragments with
real-time bytes in them, stop in the middle, are too long or lost; a 14-bit
number and its value come as four messages, on sixteen channels at once.
Correct when: what was sent whole is read once and in order, both readers of
frames agree, each controller's value is its own.  Modules `Sysex`, `Wire`.

**The library** (`crates/xppatch-library/src/lib.rs`, `bulk.rs`).  State, in
SQLite: patches stored once by content, their tags, bulks (banks by place), the
versions kept of each.  Operations: every command of the window, and opening an
older library.  Hard: patches are shared by bulks; a command that fails half
way, a stop during the first start; ids that SQLite gives again; a throttle of
versions.  Correct when: no twins, no dangling place, banks whole or not at all,
what a bulk held before a change is kept.  Modules `LibraryTables`, `Library`.

**Its folder** (`crates/xppatch-app/src/storage.rs`).  State: the pointer file,
the folders.  Operations: choosing a folder copies the library and the backups
there step by step, then points to it; the next start uses it.  Hard: a kill or
a full disk after any step or in the middle of a copy, commands meanwhile, a
folder that holds files of its own, a drive that is absent at a start.  Correct
when: nothing of any folder is overwritten, and the pointer moves only to a
folder with everything copied as it is, or with a file of that name from before.
Module `Storage`.

**A sound and its files** (`crates/xppatch-core`: `doc.rs`, `block.rs`,
`patch.rs`, `map.rs`, `syx.rs`, `smf.rs`; `crates/xppatch-wasm`;
`ui/src/model/history.ts` and the editing half of `store.svelte.ts`;
`client.rs: send_temp_frame`).  State: the document, the undo history and its
open group, a file.  Operations: edits by parameter, name or block, undo, redo,
jumps, the messages they send, saving and opening `.syx` and `.mid`.  Hard: an
edit sends single parameters or the whole; the history is bounded and groups
may be open; a damaged bank is read as far as it goes, a sequencer rewrites a
MIDI file.  Correct when: the instrument follows the screen, undo returns, a
file is read as what was saved or says what is missing.  Modules `Documents`,
`Files`, `Session`.

### Not modelled

| Part | Why |
|---|---|
| The views (`editor/*.svelte`) | presentation; handlers that change state are modelled with what they call |
| The window's library lists (`bulks.svelte.ts`, `library.svelte.ts`) | a cache with one guard (the ticket of `refresh`); the commands behind it are modelled |
| The bank's grid (`bank.svelte.ts`: `slots`, `original`) | what it shows after a commit follows the report; its phases are modelled |
| The parameter tables and wording (`schema.rs`, `display.rs`, most of `map.rs`) | data, covered by the repository's own tests; small tables stand for them |
| Search, sorting and hashing in the library, SQLite itself | no state of their own; a transaction is one step |
| The pacing in milliseconds of the gate, the timers of hover audition | the steps they separate happen in any order |
| A/B buffers, morphing, initialising tools | edits like any other to what is modelled |
| Port names and opening (`hardware.rs`), the virtual instrument | pure input and output; a test double whose faults are environment steps |

### Interactions

    window (ui)            shell (lib.rs)             client.rs        instrument
    LiveEdit --invoke--->  one mutex, one busy  --->  requests and --> memory, panel
    Panels   --invoke--->  mark, one token            messages         (environment)
             <--promise--  (Shell)   Ceremony   <---  Request, Wire <--
    Session: the document  one mutex: Library,
    and its files          Storage

A command holds the mutex of the connection from its first message to its last,
so `Ceremony` may take one command at a time; `Shell` shows what the mutex does.
`LiveEdit` and `Panels` see the shell as promises that resolve or fail; in
`Panels` a command is served at once, and `Ceremony` says what it does to the
instrument meanwhile.  `Session` sends messages that arrive; `LiveEdit` has the
queue between.  The library has a mutex of its own, held for a whole command.
The instrument appears in `Ceremony` by its permanent memory and in `LiveEdit`
and `Session` by its temporary one; no command modelled here touches both.

## 2. Modules

| Module | Is | Extends |
|---|---|---|
| `Ceremony` | the write ceremony | |
| `CeremonyProofs` | its theorems | `Ceremony` |
| `MCCeremony` | values for TLC | `Ceremony` |
| `SingleFlight` | what the shell promises of long operations | |
| `Shell` | the shell; `Flight == INSTANCE SingleFlight` | |
| `ShellProofs` | its theorems | `Shell` |
| `MCShell` | for TLC | `Shell` |
| `Request` | one request and its line | |
| `RequestProofs` | its theorems | `Request` |
| `MCRequest` | values for TLC | `Request` |
| `LiveEdit` | live editing and hover audition | |
| `LiveEditProofs` | its theorems | `LiveEdit` |
| `MCLiveEdit` | values for TLC | `LiveEdit` |
| `Panels` | the panels of the ceremony | |
| `PanelsProofs` | its theorems | `Panels` |
| `MCPanels` | values for TLC | `Panels` |
| `Sysex` | operators: addresses, checksums, frames, pieces | |
| `Wire` | what comes in | `Sysex` |
| `WireProofs` | its theorems, and what the readers of bytes do | `Wire` |
| `MCWire` | values for TLC | `Wire` |
| `Documents` | operators: blocks, parameters, documents | `Sysex` |
| `Files` | operators: reading and writing files | `Documents` |
| `Session` | a sound, its history and its files | `Files` |
| `SessionProofs` | its theorems | `Session` |
| `MCSession` | values for TLC | `Session` |
| `LibraryTables` | operators: what each command makes of the tables | |
| `Library` | the open library | `LibraryTables` |
| `Storage` | its folder, and the starts | `Library` |
| `StorageProofs` | what is true of those operators, and the theorems of `Library` and `Storage` | `Storage` |
| `MCLibrary` | values and starts for TLC | `Storage` |

A definition whose comment begins with *Slip*, or that stands just before the
one it is a mistaken form of, is no part of the specification: it is a plausible
mistake, there to see that a property notices it (`mutants` in `PROJECT.json`).

**Ceremony.**  An *area* is a User slot or the System settings, an *image* what
it holds, one value per block.  `plan` and `armed` are the `Option` fields of
`Synth` that hold an arming; a commit takes the plan out (`armed` loses it) and
`plan` keeps it while the command runs.  `cmd`, `phase`, `area`, `job`, `seen`,
`got`, `pass` and `sent` are the locals of the running command.  Each request
(`ReadBlock`) and each message (`SendBlock`) is a step.  `PanelStore`, `Tick`
and `Restart` may come between any two.  `touched` and `orig` are history: they
record what the musician did during a pass and what a commit has begun to
overwrite.  One request is one step that answers with what the instrument holds
at that moment, or fails; `Request` says why that is so.

**Panels.**  `calls` are the commands under way; each is `sent`, then `admitted`
by the shell or refused as busy, then served, then `answered`, and the handler
behind the `await` is the action on its answer (`Armed`, `Committed`, `Undone`,
`ReadDone`, `Disarmed`).  A command carries in `said` what the screen said when
the user agreed to it.  How a served command ends is left open.  Expiry, by the
backend's clock and by the panel's own, and a new connection come at any moment.
`gone`, `refused`, `unsure` and `overrun` are history.

**Request.**  Time is in ticks; `Tick` is disabled while something is overdue,
so that `Latency`, `Gap`, `Delay` and `EchoDelay` are upper bounds and
everything may be faster.  The instrument follows `testing.rs`: it answers with
what the block held when the request came, in one piece or cell by cell, and
drops a request while it is busy.  `wait` and `life` are the deadline and the
ceiling, `got` the values the collector has for each cell (more than one: the
pieces contradict each other, and `assemble` refuses them).  `held` and `line`
are history: what each cell has held since the request began, and whether the
line was quiet then.

**Shell.**  `pc` says where each thread is.  A step is a stretch from one shared
place to the next: the atomic, the token's mutex (held for a statement), the
connection's mutex.  Connections are numbered; `open` has those whose ports are
open, so that a port dropped twice or never shows.

**LiveEdit.**  A step is a callback up to its next `await`.  `Run` is the
queue's timer (a batch goes to the gate), `Deliver` a frame that reaches the
instrument or fails, `Settle` the promise of the first frame.  A sound is one
value per parameter; a block holds one parameter, so a single edit and a whole
patch write the same things under different keys, as in the code.  An audition
(`Audition`, `AuditionRead`, `AuditionSettle`, `PutBack`) sends its frames
through the same gate, one at a time, and none of them counts in the queue.
`spoiled` records the races of section 6 and is cleared by the next whole send.

**Wire.**  Bytes are numbers.  `Begin` is a message the instrument or a keyboard
starts, `Deliver` its next chunk through the filter, the assembler and the
decoder; `Filtered`, `QueueFull`, `CutOff` are what may go wrong on the way and
`Reset` is what a request does first.  `history` has what was sent whole, what
was found, and what a controller was told.

**Library.**  Each operator of `LibraryTables` has the name of the function it
stands for and takes the tables first; it returns the tables and whether it was
refused.  A command holds the mutex of the library for its whole call
(`with_library`), so it is one action.  `Open`, `Group` and `Stamp` are the
three steps of a first start, and may be cut short.  In `Storage` the choice of
a folder is a thread of its own: `Choose`, `CopyLibrary`, `CopyBackup`,
`BackupsCopied`, `Point`, with `ChoiceFails` and `Stop` after any of them.  A
copy is made under its final name, and `LibraryCut` and `BackupCut` are one that
ends half way: part of a library, which has no mark, or `Part` of a backup stays
there, and the choice is over (a kill is that and a `Stop`).  `choice.had`
remembers the files the folder had when the choice began.
`Init` of `Storage` begins with any library made before bulks and with anything
in the other folders; `MCLibrary` picks the starts that TLC explores among
those.

**Session.**  A document is a sequence of blocks of bytes, as in the code, over
small parameter maps.  An edit sends what `afterEdit` sends and the messages
arrive; `Hear` is the instrument behind the check of `send_temp_frame`.  A file
is a sequence of messages that are lost, doubled, swapped, damaged or mixed with
others, or become a MIDI file that a sequencer takes apart.

## 3. Runs

| Run | Bounds | Properties |
|---|---|---|
| `ceremony_commands` | 2 slots and the System area, 2 blocks, 2 values; 2 files of saves or 3 backed-up images of a bank | `TypeOK`, `OverwrittenIsBackedUp`, `UndoOverwritesOnlyItsSave`, `OnePending`, `VerifiedIsHeld`, `CommandsEnd`, `OneSlotAtATime`, `OnlyConfirmedIsWritten` |
| `ceremony_written` | 1 slot and the System area, 2 blocks, 2 values, 2 files | `WrittenIsRemembered` (violated) |
| `panels_clicks` | the patch panel and the bank, 2 slots, 3 sounds, 2 commands under way | `NotLeftArmed`, `WritesWhatWasSaid` |
| `live_claims` | 2 parameters, 2 values, 4 acts (an audition is two), 1 failing send | `TypeOK`, `ClaimIsTrue`, `NoMixture`, `QueueDrains` |
| `live_sent` | 3 acts, no read | `SentIsTrue` (violated) |
| `request_reads` | 2 cells of 2 values, 1 retry, 3 acts | `TypeOK`, `AnswerIsHeld`, `Bounded`, `AskedOnQuietLine`, `RequestsEnd` |
| `shell_commands` | 3 threads, 4 commands, 2 parts | `TypeOK`, `CancelReaches`, `OnlyWhenAsked`, `NoPortLostOrLeaked`, `FlightSpec`, `CommandsEnd` |
| `wire_incoming` | 3 messages of one of 3 players, 2 channels, lists of 2 | `ReadAsSent`, `ReadersAgree`, `ControlsAreRight` |
| `session_sound` | blocks of 3 bytes, 3 kinds of document, 2 edits, or harm to a file twice, history of 1 | `InstrumentFollows`, `UndoReturns`, `HonestReading`, `SameThroughMidi` |
| `library_commands` | banks of 2 places, 2 sounds, 2 names, 2 versions; 3 commands, or 4 starts and choices with a command among them | `TypeOK`, `StoredOnce`, `OriginalIsKept`, `WholeOrNotAtAll`, `ChangesAreKept`, `DeletesOnlyItsOwn`, `NothingOverwritten`, `PointedIsReady` |
| `library_restore` | 1 bulk, 4 commands, 1 start | `RestoreGivesWhatWasKept` (violated) |
| `library_folder` | 1 folder, 2 backups, 4 starts, choices and backups | `PointedIsWhole` (violated) |

Why the bounds are enough.  *Ceremony*: two blocks are the fewest for a torn
read, a half-written slot and a read mixed from two sounds; the panel's sounds
share a block with the user's, so that a torn image can look like a whole one;
two slots are the fewest for a bank that is written in part.  Saves and a bank
are explored apart (`Apart`): none is armed once the other has made a backup,
while the panel, faults, expiry and restarts come in everywhere.  The constraint
never takes the last step from a running command, so `CommandsEnd` is not
weakened.  Every command can
be repeated without limit: only the files are counted.  The lifetimes are
compared and nothing else, so 0 and 1 reach every case (not expired, expired for
a save, expired for a bank); ages stop at one past the longest.  *Panels*: two
commands under way are the fewest that can overtake each other; the clicks are
not counted.  The System panel has the patch panel's handlers and is left out of
the run.  Swapping the slots with their sounds is a symmetry.  A behaviour is
followed up to the step that overwrites a phase (`InStep`), since both
properties exempt what comes after.  *LiveEdit*: the longest known race takes
three acts; four leave one for what precedes it.  The two parameters may agree
or differ between screen and instrument in every way.  The starting sound of the
instrument is fixed, as the values differ in name only.  *Request*: two cells
are the fewest for a reply in pieces, an overlap and a partial cover; the second
block, the first cell alone, is what a probe asks for, so that pieces are
clipped and rejected.  Three acts leave room for a live edit or a cancelled
read, a write or a panel change, and the read they disturb (four acts pass the
safety properties too, in a longer run).  The times are chosen so that the
assumption `QuickEnough` just holds: one tick more of latency, gap, delay or
echo and TLC finds `AnswerIsHeld` or `AskedOnQuietLine` violated.  That is the
reading of the code's numbers (1500 + 750 ms for a reply; 50 ms and 0.4 ms a
byte for an echo).  *Shell*: two threads race and a third cancels; five commands
pass as well.  *Wire*: the limit is 13 bytes where the frames have 12 to 16, so
that one just fits and one is too long; fragments end before the address and
before the data; three messages are a damaged one, the one that cuts it off and
the next.  *Session*: three bytes a block where an instrument takes two, as a
Tone has 129 where it takes 128; a parameter of each encoding; one document out
of range.  What becomes of a file does not depend on how its document was made,
so a file is saved from an unedited one (`FilesApart`).  *Library*: three
commands make a patch shared, changed and deleted; two places and two versions
reach the throttle and the pruning.  Commands and folders are explored one deep
in the other.  For every safety property of `Ceremony`, `Shell`, `LiveEdit`,
`Panels`, `Request`, `Wire` and `Storage`, and for all of `Session` but
`HonestReading`, the proofs of section 5 take the bounds away.

## 4. Fairness

Only what the program or its runtime must do is fair; users, the panel, faults
and restarts never are.

- `Ceremony`: `WF_vars(Work)`.  A request has a deadline and a bounded number of
  attempts, a message is accepted or refused by the port, files are written or
  not: the running command always has a next step.
- `LiveEdit`: `WF` of `Run`, `Deliver`, `Settle` and `AuditionSettle`.  A timer
  that is set fires, an `invoke` promise settles.  Reads and polls need none.
- `Request`: `WF_vars(World \/ Client)`.  Time passes, what is on the cable
  arrives or is lost, the client's thread runs.
- `Shell`: `WF_vars(Step(c))` for each thread.  The threads are scheduled; a
  mutex that is let go of is obtained at last since commands are bounded in a
  run (weak fairness is enough only there; nothing is proved about it).

The other modules state safety only: a library command is one step, and what a
panel awaits is `Shell`'s and `Ceremony`'s to end.

## 5. Proofs

Eight modules hold theorems.  They hold for every value of the constants under
the `ASSUME`s of the modules they are about, each of which TLC evaluates in a
run:

- `Ceremony`: areas are distinct, images have a block, the single lifetime is
  not above the bank's.  `Shell`: no thread is `None`, the number of parts is a
  natural number.
- `LiveEdit`: a sound has a parameter and is not `NoSound`; a frame is tried
  once at least.  `Panels`: a User save is of one slot, a System save of the
  System area, a bank of slots.
- `Request`: the times are natural numbers and the first deadline lies within
  the ceiling; a block is finite and not empty; `QuickEnough`, which says what
  the client's numbers rely on (below).
- `Library` and `Storage`: a bank has a place, a bulk keeps a version, a bank
  from outside names no place beyond the last.
- `Wire`: what is played are SysEx messages of 7-bit data and channel messages
  of the form the instrument sends; real-time bytes are 248 and up.
- `Session`: `MAP` passes `validate_block`, as the code checks when it loads its
  tables.  The tables it loads (`data/xp60-parameters.json`) also have these
  traits: every byte of a block belongs to a parameter, a parameter fits one
  message, a kind has no more blocks than `doc.rs` and `patch.rs` say, and a
  block ends before the address of the next.  A full message is a frame that is
  accepted (128 bytes of data and 11 around them, of 512).  The history holds an
  entry; a document the program starts with or saves beside the one edited has
  the length of its kind; a foreign message in a file is bytes.

The bounds that cap a run (`MaxActs`, `MaxCalls`, `MaxClock` and so on) are any
natural numbers in the proofs.

**Ceremony.**  `OverwrittenIsBackedUp` is not inductive: it depends on what a
commit read before its first message being what is there and what is on disk.
`IInv` adds

- `Shape`: what a command has in hand in each phase;
- `PlansAreBackedUp`: what an arming holds is on disk;
- `ReadIsCurrent`: what a pass has read is in the area still, unless `touched`;
- `AboutToOverwrite`: just before its first message, a commit finds what it
  expects, unless `touched`;
- `OnePending`, and the two safety properties themselves.

`Inductive` proves `Spec => []IInv`, one lemma per conjunct and one step per
action; `TypeCorrect`, `BackedUp`, `UndoIsSafe` and `OneWriteIsPending` follow.
The action properties `Verification`, `Confirmation` and `OneSlot` use it, with
a second small invariant (`UnderWay`) for the last two.

**Shell.**  `IInv` has `OneLong` (the mark is set exactly for one thread),
`GuardHeld` (who works holds the mutex) and `Ports` (what is connected is open,
and a connection about to be stored is nobody else's) beside the properties.
`Implements` proves that every step of `Shell` is a step of `SingleFlight` or
none, under the mapping of `Flight`.

**Live editing.**  Neither `ClaimIsTrue` nor `NoMixture` is inductive: a claim is
true in the end because of what was true on the way.  `IInv` adds

- `Flows`: while the instrument was sent the whole sound and nothing has gone
  wrong, the last frame for each parameter carries what the screen shows, and a
  parameter with no frame on its way holds it;
- `Ordered`: the frame of a whole send does not wait behind a single edit of the
  same parameter (the two have different keys, so neither replaces the other);
- `ClaimHolds` and `ReadFits`: what a claim, and a read that may become one, say
  of the instrument's own sound and of the frames still to come;
- `Auditions`, `PutsBack`: what an audition has at the gate and will put back;
- `ClosedExpectsNothing`: with the connection closed the marks expect no answer.

The instrument's *own* sound (`Own`) is what it would hold if the audition under
way were put back now; with it one formula serves with and without an audition.
`TypeCorrect`, `ClaimsHold` and `NeverAMixture` follow from `Inductive`.

**Panels.**  Both properties rest on a fact about the window: unless a phase was
overwritten, a panel has one arming, commit or undo under way at most, and its
phase says which (`OneAtATime`).  So an answer belongs to the latest click.
`HeldForAReason` says what may still end an arming; `ShownIsHeld`, `SaidAsShown`
and `OffersWhatIsRemembered` keep what the panel shows, what the connection
holds and what a command carries views of one arming; `Leaving` and
`FrozenIsAJob` are about a panel that is closed while it arms and about what it
would write.  `NoneLeftArmed` and `WritesAsSaid` follow.  A type invariant is
stated there and in no run, as it is part of `IInv`.

**Request.**  A request that began on a quiet line has the reply to itself.
`Outstanding` says that what is on its way are pieces of its block that it still
waits for, each cell once; `Genuine` that they are of what the instrument held
since; `Punctual` that they are there before the next attempt would be made,
even if a piece is taken now and the wait starts anew; `NothingElse`, `Dues`,
`Wants` and `Pace` bound the rest.  `TakesWhatIsHeld`, `InTime` and
`LeavesAQuietLine` follow.  In a first attempt `Punctual` was not inductive, and
TLC gave the reason: with a first deadline of 4 ticks and pauses of 1, a reply in
pieces 2 ticks apart asked again on a line that was not quiet, although the
reply as a whole was quick enough.  `QuickEnough` therefore also says that all
of a reply arrives within two pauses of its first piece.  In the code's numbers
that is 1.5 s (750 ms each, `client.rs:74`); the longest block, a Tone of 129
bytes, takes some 45 ms on a MIDI cable.

**Wire.**  The readers are recursive functions of the bytes; what they do with
one byte more is proved for each, and the invariant says how far they have come
with what has arrived.  `WireInv` is `ReadAsSent` and

- `Sending`: what is still to come is the end of one message (all of it, for a
  channel message);
- `Framing`: in the middle of a SysEx of which nothing was lost the assembler
  holds what has come of it, so that its last chunk makes it the frame that was
  sent; by itself `ReadAsSent` says nothing of a message under way;
- `AgreedOn`: both readers have accepted the same messages, and what the
  assembler holds is the last frame of the stream.  They part only over a frame
  that is too long or has a status byte in it (`Doomed`): the assembler gives it
  up at once, the other reader keeps it, and it is never a message, whatever
  comes after it;
- `Hearing`: unless a SysEx lost its beginning (`torn`), the decoder is where
  the channel messages heard so far lead (`Following`), channel by channel, the
  list has their last controllers, and no channel message runs on into a SysEx.

`MessagesAreReadAsSent`, `TheReadersAgree` and `TheControlsAreRight` follow.

**Library and its folder.**  `StorageProofs` has one lemma per command: it keeps
the tables well formed and every patch stored once (`Good`), carried out or
refused, and it is a *change* that keeps what the bulk held before.  `IInv` is
`Good(db)`, the types, `Shelves` (in every folder a good library or none, and the
copy made before its bulks while they are not marked as done), `Opened` and
`Chosen` (how far a start and a choice have come: whatever is already in the
folder chosen is either what was copied or was there before, for the backups by
`Listed`, for the library by `HasLibrary`).  With it follows every
property of `library_commands`: `NothingTwice`, `KeepsTheOriginal`,
`OverwritesNothing`, `PointsWhereItIsReady`, `StoresWhole`, `KeepsWhatWasThere`,
`DeletesNoOthers`.  The import that stores patch after patch gives each new one
its number by counting those before it (`add_allFacts`); the grouping of an
older library is a recursive function (`migrate_to_bulksFacts`): that such a
function exists, and what holds of each of its values, is proved by a least
counterexample, since the induction theorems of the library take an operator and
cannot be used.

**Session.**  The history keeps bytes, so undo leads back only if a snapshot is
cut into the blocks it was made of.  `RoundTrip` is that lemma, for any map of
parameters; `FlattenFacts` and `StartFacts` say what `FlattenSeq` and the sums of
block sizes are, again by a least counterexample.  It takes that the document is
whole, so `IInv` is `IsDocument(doc)`, that the group and every entry are
snapshots of its kind, and `Chain`; the lemmas up to `OpenStep` show that every
edit keeps the length of each block and that every file is read as whole
documents.  `UndoLeadsBack` follows, and that the length check of
`from_block_bytes` refuses no undo.

`TheInstrumentFollows` adds `SentInv`: what was heard lies in temporary memory,
only a kind that has a temporary memory was sent, and the bytes of the document
are at their places unless a message was refused.  That every edit and every
move within the history keeps it takes four facts, each of any map, any size of
messages and any document:

- the codec: a message that was framed passes the backend's checks and is read
  back as it was (`ReadBack`; its address by `LaneFacts`, its checksum by
  `SumFacts`);
- the places: every block of a document lies in temporary memory and no two
  share an address (`PlaceFacts`, `Apart`), for the strides and the number of
  blocks of each kind;
- the frames: one that carries bytes of one block to their places (`FrameOf`)
  is let through by `inside_temp_patch_block` and spoils no byte that was right
  (`HearFrame`, and `HearFrames` for all of a send by counting up);
- the cover: a whole send, split for the instrument and cut again for the user's
  size, carries every byte of every block that is sent (`PatchFrames`,
  `CutFrames`), a single edit those of its parameter (`ParamFrame`), and a byte
  that changed belongs to a parameter that changed (`SendChanges`).

`SameSoundThroughMidi` adds `MidiInv`: the file is messages of bytes, whatever
harm it came to, and the tracks of its MIDI form together yield its whole
messages.  A `Track` holds every message in one event or in two that follow each
other, and rests at its ends; what an event adds to the messages (`Gives`) does
not depend on the reader.  It rests on what the reader of frames finds, which
begins with F0 and has no F7 but at its end (`FramesOpen`, `CompleteFrames`); on what a sequencer may do, which leaves a track a track with
the same yield (`EventSplit`, `EventAdded`, `CutTrack`); and on `ReadTrack`: after
each event the reader holds the messages so far, but for one that is open.  The
proof found that the arms of `ReadEvent` overlapped where the code's `match`
takes the first; each now says when it applies.

Model-checked only:

- every liveness property (`CommandsEnd` twice, `QueueDrains`, `RequestsEnd`) and
  the fairness of `FlightSpec`, which the prover does not handle;
- `HonestReading` of `Session`: it says what a file comes to that was harmed in
  any way, which is an induction over data for each reader, through `SelectSeq`
  and `FoldLeft`, whose definitions the provers do not have;
- the four properties of section 6 that the code violates.

## 6. What the runs found

- `WrittenIsRemembered`: a save whose read-back times out has written the slot,
  yet the attempt is forgotten and Undo refuses (`synth.rs:328`).
- `SentIsTrue`: with Live off, an edit made while a whole send goes out ends as
  SENT (`store.svelte.ts:206`).
- `RestoreGivesWhatWasKept`: a version that names a deleted patch gives another
  one, stored since under the same number, when it is restored (`bulk.rs:635`).
- `PointedIsWhole`: a backup is copied straight to its final name; when that is
  cut short by a kill or a full disk, the part is kept by the next choice as a
  file that was there (`storage.rs:73`), and the pointer moves to it.  So is
  part of a library (`storage.rs:102`), which the next start then opens.

What the other runs hold to is exempt by name where the code does otherwise.

*Claims* (`ClaimIsTrue`, `NoMixture`; `spoiled`).  *Overtaken*: a frame that
failed is sent again behind a newer value (`liveQueue.ts:159`).  *Crossed*: a
read crossed by a send, a disconnection or a panel change; a whole send started
while Fetch reads leaves TEMP VERIFIED over a mixture (`SynthBar.svelte:31`,
`store.svelte.ts:399`).  *Unsent*: the second finding.  *Auditioned*: what is
written or read while a stored sound is auditioned, a live edit for one, is
overwritten or mistaken when the instrument's own is put back
(`preview.svelte.ts:95-123`).

*Answers* (`AnswerIsHeld`; `line`).  A request begun on a line that is not
quiet: after a request that was cancelled or gave up (only retries wait for the
line to fall silent), right after a live edit whose echo is on its way, and with
more than `MAX_DRAIN_CHUNKS` unread.

*Panels* (`overrun`, `unsure`, `refused`).  A phase is set after an `await`
whatever a click has made of it: an expired commit awaits the disarming and then
says failed (`save.svelte.ts:120-124`), a bank that is read first gives up its
arming and then says reading (`bank.svelte.ts:187`); Back up everything does
not give up an arming at all (`bank.svelte.ts:256`).  A commit that the backend
refused, or does not remember, offers Undo all the same, which may put back an
earlier save of another slot (`save.svelte.ts:141-144`).  A disarming refused as
busy leaves the arming to expire.

*Folders* (`had` in `PointedIsReady`).  A file that the folder chosen had before
this choice is kept under its name: another library or backup of the user's, as
`storage.rs:3` says, or part of one, the finding above.

*Controllers* (`torn`).  The queue drops a SysEx fragment that does not fit
(`hardware.rs:97`); without the first one its data bytes are taken for more of
the last channel message (`assembler.rs:116`).

*Files* (`faults`).  A real-time byte in the place of a data byte 0 is taken out
and the checksum still holds; in a file with doubled messages a part that is
missing bytes is not filled, and the file is refused (`syx.rs:260`); a message
without its end is not in the MIDI form (`smf.rs:57`).

*Live values* (`refused` in `Session`).  Undo back to a value out of range is
refused by the codec; when more than `BULK_LIVE_LIMIT` values changed the whole
send is refused and single edits go on alone (`store.svelte.ts:217-223`).

Met while modelling, and not of these properties:

- A fresh read that ends `Stale` or on a dead port counts as a write: the
  attempt that could be undone is replaced (`synth.rs:328-334`).
- A short command may pass the `busy` check and then wait behind a long
  operation (`lib.rs:59`).  A cancel that comes between the mark and the fresh
  token (`lib.rs:80-85`) cancels the operation before and is without effect.
- The pointer leaves a row while the first read of an audition is under way:
  nothing is saved or playing yet, so no timer is set (`preview.svelte.ts:75`),
  and the stored sound that is sent next stays until the pointer comes back.
- `is_relevant` drops a fragment that begins with a real-time byte or with the
  end of a SysEx (`hardware.rs:19-29`); the assembler then waits for the next.
- An import does not hand on which parts of a damaged bank it filled
  (`xppatch-library/src/lib.rs:264`).
- An older library may be grouped twice: the bulks are committed before
  `PRAGMA user_version` is set (`lib.rs:225-226`), and after a stop between the
  two the next start groups every patch again (`bulk.rs:652` takes them all,
  where `bulk.rs:647` says those "in no bulk", "Used once", and `lib.rs:152`
  "once").  `Group` does the same.  Nothing is lost, but every bulk is there
  twice.
- A copy before bulks that is cut short is kept as well (`!backup.exists()`,
  `lib.rs:163`).  `Open` takes that one copy as whole or absent, and leaves out
  the copy of a library with tables and no patches (`lib.rs:156-162`), which has
  nothing to group.
- A save's backup is created before it is written (`synth.rs:69-76`, `:273`);
  `Storage.WriteBackup` is one step, so a folder chosen in between may be copied
  part of it.
- Nothing keeps two programs from using one library.

## 7. Plan

1. Proof: `HonestReading` of `Session`, with the readers of files written as
   recursive functions as those of `Wire` and the MIDI reader are.
2. The window's idea of the connection against the shell's (a refused
   disconnection, `synth.svelte.ts:129`).
3. `WritesWhatWasSaid` over `Ceremony` by INSTANCE in the place of commands
   that are served at once.
