------------------------------ MODULE Ceremony ------------------------------
(***************************************************************************)
(* The write ceremony: the only way the application changes the            *)
(* instrument's permanent memory (crates/xppatch-app/src/synth.rs over     *)
(* the permanent-write part of crates/xppatch-midi/src/client.rs).         *)
(*                                                                         *)
(* A save is armed by reading the area it would overwrite and putting what *)
(* was read in a verified backup file; one commit then reads the area      *)
(* again, refuses if it changed, writes it message by message and reads it *)
(* back.  The last attempt can be undone.  A bank write does the same for  *)
(* many User slots under one arming.                                       *)
(*                                                                         *)
(* Commands hold the connection's mutex, so one runs at a time (the shell  *)
(* around them is module Shell), but every request and every message of a  *)
(* command is a step of its own: the musician may store something from the *)
(* instrument's panel between any two of them, any reply may be missing,   *)
(* any message may be ignored (User Memory Protect, or sent too fast), the *)
(* cable may be pulled and the application may die.                        *)
(*                                                                         *)
(* An image is what an area holds: one value per block.  A read is one     *)
(* request per block, so what is read may be torn; a write is modelled     *)
(* with one message per block (a Tone takes two in the code).              *)
(***************************************************************************)
EXTENDS Integers, Sequences, FiniteSets

CONSTANTS
    Slots,          \* the User patch slots
    SystemArea,     \* the System settings
    NoArea,         \* the area of no command
    NBlocks,        \* blocks in an image (5 for a patch)
    Value,          \* what a block can hold
    Patches,        \* the images the user asks to save
    PanelPatches,   \* the images the musician may store from the panel
    Lifetime,       \* ARMING_LIFETIME, in clock ticks
    BankLifetime,   \* BANK_ARMING_LIFETIME, in clock ticks
    Offered,        \* bound: what the user arms
    MaxFiles        \* bound: backup files on the disk

Areas == Slots \cup {SystemArea}
Image == [1..NBlocks -> Value]

ASSUME AreasAssumption == SystemArea \notin Slots /\ NoArea \notin Areas
ASSUME ImageAssumption ==
    /\ NBlocks \in Nat \ {0}
    /\ Patches \subseteq Image
    /\ PanelPatches \subseteq Image
ASSUME LifetimeAssumption ==
    Lifetime \in Nat /\ BankLifetime \in Nat /\ Lifetime <= BankLifetime

(* What can be armed.  Synth keeps each in a field of its own; the code of *)
(* a User save and of a System save is the same but for the names, and a   *)
(* bank write does the same for many slots.                                *)
Kinds     == {"user", "system", "bank"}
SaveKinds == {"user", "system"}

VARIABLES
    mem,      \* the instrument: what each area holds
    disk,     \* the backup files: <<area, image>> verified on disk
    plan,     \* the plan of Synth.save, Synth.system or Synth.bank; a commit
              \* takes it out of Synth, and it stays here while it runs
    armed,    \* the kinds that Synth still holds a plan of
    last,     \* Synth.last and Synth.system_last, those present
    cmd,      \* the command that holds the connection
    kind,     \* what it arms, commits or restores
    phase,    \* what it is doing
    area,     \* the area it is working on
    asked,    \* the areas it was asked to write, or to arm
    job,      \* what it still has to write, by area
    seen,     \* what arming has read so far, by area
    got,      \* the blocks read in the current pass
    pass,     \* fetch_patch tries a read at most twice
    sent,     \* messages of the current area sent so far
    touched,  \* history: the area, if the panel changed it since the pass
              \* over it began
    orig      \* history: what the areas held that a commit has begun to
              \* overwrite and has not verified

opVars == <<cmd, kind, phase, area, asked, job, seen, got, pass, sent>>
vars   == <<mem, disk, plan, armed, last, opVars, touched, orig>>

Commands == {"idle", "arm", "commit", "restore"}
Phases   == {"none", "read", "file", "write", "back"}
(* Ticks past BankLifetime make no difference to any guard.                *)
Age == 0 .. BankLifetime + 1

(* A function from some of S to T.                                         *)
IsPartial(f, S, T) == DOMAIN f \subseteq S /\ f \in [DOMAIN f -> T]

Attempt == [area : Areas, backup : Image, wrote : Image,
            outcome : {"ok", "failed"}]

IsPlan(p) ==
    /\ p = [backup |-> p.backup, confirmed |-> p.confirmed, age |-> p.age]
    /\ IsPartial(p.backup, Areas, Image)
    /\ p.confirmed \subseteq Areas
    /\ p.age \in Age

TypeOK ==
    /\ mem \in [Areas -> Image]
    /\ disk \subseteq Areas \X Image
    /\ DOMAIN plan \subseteq Kinds
    /\ plan = [k \in DOMAIN plan |-> plan[k]]
    /\ \A k \in DOMAIN plan : IsPlan(plan[k])
    /\ armed \subseteq DOMAIN plan
    /\ IsPartial(last, SaveKinds, Attempt)
    /\ cmd \in Commands
    /\ kind \in Kinds
    /\ phase \in Phases
    /\ area \in Areas \cup {NoArea}
    /\ asked \subseteq Areas
    /\ IsPartial(job, Areas, Image)
    /\ IsPartial(seen, Areas, Image)
    /\ got \in Seq(Value) /\ Len(got) <= NBlocks
    /\ pass \in {1, 2}
    /\ sent \in 0..NBlocks
    /\ touched \subseteq {area}
    /\ IsPartial(orig, Areas, Image)

Nothing       == [x \in {} |-> 0]
With(f, x, v) == [y \in DOMAIN f \cup {x} |-> IF y = x THEN v ELSE f[y]]
Without(f, x) == [y \in DOMAIN f \ {x} |-> f[y]]

Init ==
    /\ mem \in [Areas -> PanelPatches]
    /\ disk = {}
    /\ plan = Nothing /\ armed = {} /\ last = Nothing
    /\ cmd = "idle" /\ kind = "user" /\ phase = "none" /\ area = NoArea
    /\ asked = {} /\ job = Nothing /\ seen = Nothing
    /\ got = <<>> /\ pass = 1 /\ sent = 0
    /\ touched = {} /\ orig = Nothing

-----------------------------------------------------------------------------
(* The frame of a command.  A command that is refused changes nothing and   *)
(* is no step here.                                                        *)

Begin(c, k, A) == cmd = "idle" /\ cmd' = c /\ kind' = k /\ asked' = A

(* Start a pass over area a that ends in phase ph.                         *)
Visit(a, ph) ==
    /\ area' = a /\ phase' = ph
    /\ got' = <<>> /\ pass' = 1 /\ sent' = 0
    /\ touched' = {}

Finish ==
    /\ cmd' = "idle" /\ kind' = "user" /\ phase' = "none" /\ area' = NoArea
    /\ asked' = {} /\ job' = Nothing /\ seen' = Nothing
    /\ got' = <<>> /\ pass' = 1 /\ sent' = 0
    /\ touched' = {}

-----------------------------------------------------------------------------
(* Step one: arming.                                                       *)

\* Slip: only the arming of the same kind is replaced.
ClearUserArming == plan' = Without(plan, "user") /\ armed' = armed \ {"user"}

(* Arming replaces every other arming, whatever becomes of it.             *)
ClearArmings == plan' = Nothing /\ armed' = {}

ArmUserSave(s) ==
    /\ Begin("arm", "user", {s})
    /\ ClearArmings
    /\ Visit(s, "read")
    /\ UNCHANGED <<mem, disk, last, job, seen, orig>>

ArmSystemSave ==
    /\ Begin("arm", "system", {SystemArea})
    /\ ClearArmings
    /\ Visit(SystemArea, "read")
    /\ UNCHANGED <<mem, disk, last, job, seen, orig>>

(* A bank is armed for the slots C the user chose, but every slot is read. *)
ArmBankWrite(C) ==
    /\ ClearArmings
    /\ \/ C = {} /\ cmd = "idle" /\ UNCHANGED <<opVars, touched>>
       \/ /\ C # {}
          /\ Begin("arm", "bank", C)
          /\ \E s \in Slots : Visit(s, "read")
          /\ UNCHANGED <<job, seen>>
    /\ UNCHANGED <<mem, disk, last, orig>>

ToRead == IF kind = "bank" THEN Slots ELSE asked

(* An area has been read; the next one is, or the backup can be written.   *)
PlanRead ==
    /\ cmd = "arm" /\ phase = "read" /\ Len(got) = NBlocks
    /\ seen' = With(seen, area, got)
    /\ \/ \E a \in ToRead \ DOMAIN seen' : Visit(a, "read")
       \/ /\ ToRead \subseteq DOMAIN seen'
          /\ Visit(area, "file")
    /\ UNCHANGED <<mem, disk, plan, armed, last, cmd, kind, asked, job, orig>>

(* The backup file is created, synced and read back; only a file that      *)
(* holds exactly what was read arms the write.                             *)
WriteBackup ==
    /\ cmd = "arm" /\ phase = "file"
    /\ \/ /\ disk' = disk \cup {<<a, seen[a]>> : a \in DOMAIN seen}
          /\ Cardinality(disk') <= MaxFiles
          /\ plan' = With(plan, kind, [backup |-> seen, confirmed |-> asked, age |-> 0])
          /\ armed' = armed \cup {kind}
          /\ Finish
       \/ /\ Finish
          /\ UNCHANGED <<disk, plan, armed>>
    /\ UNCHANGED <<mem, last, orig>>

Disarm(k) ==
    /\ cmd = "idle" /\ k \in armed
    /\ armed' = armed \ {k}
    /\ UNCHANGED <<mem, disk, plan, last, opVars, touched, orig>>

(* The clock.                                                              *)
Older(n) == IF n <= BankLifetime THEN n + 1 ELSE n

Tick ==
    /\ \E k \in armed : Older(plan[k].age) # plan[k].age
    /\ plan' = [k \in DOMAIN plan |-> [plan[k] EXCEPT !.age = Older(@)]]
    /\ UNCHANGED <<mem, disk, armed, last, opVars, touched, orig>>

-----------------------------------------------------------------------------
(* Step two: the commit.                                                   *)

LifetimeOf(k) == IF k = "bank" THEN BankLifetime ELSE Lifetime
Expired(k) == plan[k].age > LifetimeOf(k)

\* Slip: anything that was backed up may be written.
AcceptsBackedUp(k, J) == DOMAIN J # {} /\ DOMAIN J \subseteq DOMAIN plan[k].backup

(* What is written must be exactly what was confirmed.                     *)
Accepts(k, J) == DOMAIN J = plan[k].confirmed

(* Commit J (an image for each area).  The arming is used up first,        *)
(* whatever happens; an expired arming, a set of slots that was not        *)
(* confirmed and bytes that are no valid patch end it there.               *)
Commit(k, J) ==
    /\ cmd = "idle" /\ k \in armed
    /\ armed' = armed \ {k}
    /\ \/ UNCHANGED <<opVars, touched>>
       \/ /\ ~Expired(k) /\ Accepts(k, J)
          /\ Begin("commit", k, DOMAIN J)
          /\ job' = J
          /\ \E a \in DOMAIN J : Visit(a, "read")
          /\ UNCHANGED seen
    /\ UNCHANGED <<mem, disk, plan, last, orig>>

(* A single save names no slot: it goes where it was armed.                *)
CommitUserSave(p)   == Commit("user", [a \in plan["user"].confirmed |-> p])
CommitSystemSave(p) == Commit("system", [a \in plan["system"].confirmed |-> p])
CommitBankWrite(J)  == Commit("bank", J)

\* Slip: the slot is not looked at before it is put back.
UndoFirstUnchecked(k) == "write"

(* The area must still hold what the attempt wrote, unless it failed.      *)
UndoFirst(k) == IF last[k].outcome = "ok" THEN "read" ELSE "write"

(* Undo: put back what the last attempt replaced.                          *)
Restore(k) ==
    /\ k \in DOMAIN last
    /\ Begin("restore", k, {last[k].area})
    /\ job' = [a \in {last[k].area} |-> last[k].backup]
    /\ Visit(last[k].area, UndoFirst(k))
    /\ UNCHANGED <<mem, disk, plan, armed, last, seen, orig>>

\* Slip: what was read back is remembered, not what was meant.
AttemptSeen(r) == [area |-> area, backup |-> plan[kind].backup[area],
                   wrote |-> got, outcome |-> IF r = "ok" THEN "ok" ELSE "failed"]

AttemptMade(r) == [area |-> area, backup |-> plan[kind].backup[area],
                   wrote |-> job[area], outcome |-> IF r = "ok" THEN "ok" ELSE "failed"]

(* Remember the attempt, so that it can be undone, unless nothing was      *)
(* written; the result alone decides that.                                 *)
WroteSomething(r) == r \notin {"Refused", "Timeout", "Cancelled", "Patch"}

Remember(r) ==
    last' = IF cmd = "commit" /\ kind \in SaveKinds /\ WroteSomething(r)
            THEN With(last, kind, AttemptMade(r)) ELSE last

(* The command fails with r.                                               *)
Fail(r) ==
    /\ Finish
    /\ Remember(r)
    /\ UNCHANGED <<mem, disk, plan, armed, orig>>

-----------------------------------------------------------------------------
(* The requests and messages of the running command.                       *)

Reading == cmd # "idle" /\ phase \in {"read", "back"}

(* One block is asked for and answered.                                    *)
ReadBlock ==
    /\ Reading /\ Len(got) < NBlocks
    /\ got' = Append(got, mem[area][Len(got) + 1])
    /\ UNCHANGED <<mem, disk, plan, armed, last, cmd, kind, phase, area, asked, job,
                   seen, pass, sent, touched, orig>>

(* No reply after every attempt, or the port is gone.                      *)
ReadFails ==
    /\ Reading /\ Len(got) < NBlocks
    /\ \E r \in {"Timeout", "Transport"} : Fail(r)

\* Slip: a read that keeps hearing events is repeated for ever.
AlwaysMorePasses == TRUE

MorePasses == pass = 1

(* A Program or Bank Change was heard while a patch was read: it is read   *)
(* once more, then given up.  System reads do not look at the events.      *)
HeardEvent ==
    /\ Reading /\ area \in Slots /\ Len(got) = NBlocks
    /\ \/ /\ MorePasses
          /\ pass' = 2 /\ got' = <<>> /\ touched' = {}
          /\ UNCHANGED <<mem, disk, plan, armed, last, cmd, kind, phase, area, asked,
                         job, seen, sent, orig>>
       \/ ~MorePasses /\ Fail("Stale")

(* What must still be in the area for it to be overwritten.                *)
Expected ==
    IF cmd = "restore" THEN last[kind].wrote ELSE plan[kind].backup[area]

\* Slip: the fresh read is not compared.
NotCompared == TRUE

StillAsExpected == got = Expected

CheckFresh ==
    /\ cmd \in {"commit", "restore"} /\ phase = "read" /\ Len(got) = NBlocks
    /\ \/ /\ StillAsExpected
          /\ phase' = "write" /\ got' = <<>> /\ sent' = 0
          /\ UNCHANGED <<mem, disk, plan, armed, last, cmd, kind, area, asked, job,
                         seen, pass, touched, orig>>
       \/ /\ ~StillAsExpected
          /\ Fail(IF cmd = "restore" THEN "SlotChanged" ELSE "Refused")

(* The cancel token stops an arming or a commit of a bank, and only before *)
(* the first message of a slot.                                            *)
Cancel ==
    /\ kind = "bank" /\ cmd # "idle"
    /\ phase = "read" \/ (phase = "write" /\ sent = 0)
    /\ Fail("Cancelled")

(* What a commit overwrites with its first message, if it is what it read. *)
Overwrites ==
    IF cmd = "commit" /\ sent = 0 /\ touched = {} THEN With(orig, area, mem[area])
    ELSE orig

(* The next message: the instrument stores it or ignores it.               *)
SendBlock ==
    /\ phase = "write" /\ sent < NBlocks
    /\ sent' = sent + 1
    /\ \/ mem' = [mem EXCEPT ![area][sent + 1] = job[area][sent + 1]]
       \/ mem' = mem
    /\ orig' = Overwrites
    /\ UNCHANGED <<disk, plan, armed, last, cmd, kind, phase, area, asked, job, seen,
                   got, pass, touched>>

SendFails == phase = "write" /\ sent < NBlocks /\ Fail("Transport")

(* All sent: after the echo window the area is read back.                  *)
ReadBack ==
    /\ phase = "write" /\ sent = NBlocks
    /\ phase' = "back" /\ got' = <<>> /\ pass' = 1 /\ touched' = {}
    /\ UNCHANGED <<mem, disk, plan, armed, last, cmd, kind, area, asked, job, seen,
                   sent, orig>>

\* Slip: the read-back is not compared.
Trusted == TRUE

Matches == got = job[area]

(* The read-back equals what was sent; a bank goes on to its next slot.    *)
Verified ==
    /\ phase = "back" /\ Len(got) = NBlocks /\ Matches
    /\ orig' = Without(orig, area)
    /\ \/ /\ DOMAIN job = {area}
          /\ Finish
          /\ IF cmd = "restore" THEN last' = Without(last, kind)
                                ELSE Remember("ok")
       \/ /\ job' = Without(job, area)
          /\ \E a \in DOMAIN job' : Visit(a, "read")
          /\ UNCHANGED <<last, cmd, kind, asked, seen>>
    /\ UNCHANGED <<mem, disk, plan, armed>>

\* Slip: a bank write goes on after a slot that did not verify.
DiffersGoesOn ==
    /\ phase = "back" /\ Len(got) = NBlocks /\ ~Matches
    /\ \/ DOMAIN job = {area} /\ Fail("Mismatch")
       \/ /\ job' = Without(job, area)
          /\ \E a \in DOMAIN job' : Visit(a, "read")
          /\ UNCHANGED <<mem, disk, plan, armed, last, cmd, kind, asked, seen, orig>>

Differs ==
    /\ phase = "back" /\ Len(got) = NBlocks /\ ~Matches
    /\ Fail("Mismatch")

-----------------------------------------------------------------------------
(* The rest of the world.                                                  *)

(* The musician stores a patch (or changes a setting) on the panel.        *)
PanelStore(a, p) ==
    /\ p # mem[a]
    /\ mem' = [mem EXCEPT ![a] = p]
    /\ touched' = touched \cup ({a} \cap {area})
    /\ orig' = Without(orig, a)
    /\ UNCHANGED <<disk, plan, armed, last, opVars>>

(* The application dies, or the connection is closed and opened again: the *)
(* Synth is built anew.  The instrument and the files stay.                *)
Restart ==
    /\ Finish
    /\ plan' = Nothing /\ armed' = {} /\ last' = Nothing
    /\ UNCHANGED <<mem, disk, orig>>

Ask ==
    \/ "user" \in Offered /\ \E s \in Slots : ArmUserSave(s)
    \/ "system" \in Offered /\ ArmSystemSave
    \/ "bank" \in Offered /\ \E C \in SUBSET Slots : ArmBankWrite(C)
    \/ \E k \in Kinds : Disarm(k)
    \/ \E p \in Patches : CommitUserSave(p)
    \/ \E p \in Patches : CommitSystemSave(p)
    \/ \E C \in SUBSET Slots : \E J \in [C -> Patches] : CommitBankWrite(J)
    \/ \E k \in SaveKinds : Restore(k)

Work ==
    \/ PlanRead \/ WriteBackup
    \/ ReadBlock \/ ReadFails \/ HeardEvent
    \/ CheckFresh \/ Cancel
    \/ SendBlock \/ SendFails \/ ReadBack
    \/ Verified \/ Differs

World ==
    \/ Tick
    \/ \E a \in Areas, p \in PanelPatches : PanelStore(a, p)
    \/ Restart

Next == Ask \/ Work \/ World

Spec     == Init /\ [][Next]_vars
FairSpec == Spec /\ WF_vars(Work)

-----------------------------------------------------------------------------
(* Whatever a commit has begun to overwrite and has not verified is in a   *)
(* backup file, even if the application has died since.                    *)
OverwrittenIsBackedUp ==
    \A a \in DOMAIN orig : <<a, orig[a]>> \in disk

(* Undo of a save that succeeded overwrites exactly what that save wrote:  *)
(* a later change in the slot is never lost.                               *)
UndoOverwritesOnlyItsSave ==
    (/\ cmd = "restore" /\ last[kind].outcome = "ok"
     /\ phase = "write" /\ sent = 0 /\ touched = {})
        => mem[area] = last[kind].wrote

(* At most one write is ever armed, of whatever kind: confirming one can   *)
(* never set off another that was armed earlier and forgotten.             *)
OnePending == \A j, k \in DOMAIN plan : j = k

(* What is reported as verified is in the instrument, whatever replies and *)
(* messages were lost on the way (unless the panel changed it meanwhile).  *)
VerifiedIsHeld ==
    [][ Verified /\ touched = {} => mem[area] = job[area] ]_vars

(* A bank write goes on to another slot only when it has settled the one   *)
(* before: a bank write that stops leaves at most one slot half written.   *)
OneSlotAtATime ==
    [][ (cmd = "commit" /\ cmd' = "commit" /\ area' # area)
            => sent = NBlocks /\ area \notin DOMAIN orig' ]_vars

(* A message of a commit goes only to an area that was read, backed up and *)
(* confirmed, under an arming that is used up and had not expired.         *)
OnlyConfirmedIsWritten ==
    [][ (cmd = "commit" /\ sent' = sent + 1)
            => /\ area \in plan[kind].confirmed \cap DOMAIN plan[kind].backup
               /\ kind \notin armed
               /\ plan[kind].age <= LifetimeOf(kind) ]_vars

(* Every command ends: each request and each message is answered, refused  *)
(* or timed out, and no read is repeated for ever.                         *)
CommandsEnd == cmd # "idle" ~> cmd = "idle"

-----------------------------------------------------------------------------
(* synth.rs:327 says an attempt is remembered unless nothing could have    *)
(* been written (a refusal or a read failure before any write).  The code  *)
(* decides by the kind of the error alone.                                 *)
GivesUp == cmd = "commit" /\ kind \in SaveKinds /\ cmd' = "idle" /\ plan' = plan

(* A save that sent a message and failed can be undone (violated: a        *)
(* read-back that times out is taken for a read failure before the write). *)
WrittenIsRemembered ==
    [][ GivesUp /\ sent > 0 =>
            /\ kind \in DOMAIN last'
            /\ last'[kind].area = area
            /\ last'[kind].backup = plan[kind].backup[area] ]_vars
=============================================================================
