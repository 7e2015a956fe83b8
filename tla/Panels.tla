------------------------------- MODULE Panels -------------------------------
(***************************************************************************)
(* The window's side of the write ceremony: the panel that saves a patch,  *)
(* the one that saves the System settings and the bank                     *)
(* (ui/src/model/save.svelte.ts, systemSave.svelte.ts, bank.svelte.ts),    *)
(* over the commands they reach the connection by                          *)
(* (crates/xppatch-app/src/lib.rs, synth.rs).                              *)
(*                                                                         *)
(* A panel awaits its commands, and the user goes on meanwhile: he leaves  *)
(* the panel, opens another, clicks again.  The commands run on threads of *)
(* their own, so two of one panel (the arming and the disarming of the one *)
(* before) arrive in any order.  What a command does to the instrument     *)
(* step by step is module Ceremony; here it is served at once, since the   *)
(* connection is held meanwhile, and how it ends is left open.             *)
(***************************************************************************)
EXTENDS Naturals, FiniteSets

CONSTANTS
    Kinds,       \* the panels: of "user", "system" and "bank"
    Slots,       \* the User slots
    SystemArea,  \* the System settings
    Sound,       \* what an area holds
    Occupants,   \* what arming finds in an area
    Jobs,        \* what the user saves from each panel: sounds, by area
    MaxCalls     \* bound: commands under way

SaveKinds == Kinds \ {"bank"}

ASSUME KindsAssumption == Kinds \subseteq {"user", "system", "bank"}
ASSUME JobsAssumption ==
    /\ SystemArea \notin Slots /\ Occupants \subseteq Sound
    /\ \A k \in Kinds : \A J \in Jobs[k] :
        /\ DOMAIN J # {} /\ J \in [DOMAIN J -> Sound]
        /\ CASE k = "user"   -> \E s \in Slots : DOMAIN J = {s}
             [] k = "system" -> DOMAIN J = {SystemArea}
             [] k = "bank"   -> DOMAIN J \subseteq Slots

VARIABLES
    phase,    \* SaveFlow.phase and BankService.phase, by panel
    frozen,   \* frozen: the images to write, by area; Nothing for null
    shown,    \* armed: what the panel says of the areas it would replace
    offered,  \* last: what the panel offers to put back, by area
    closing,  \* cancelWhenArmed
    late,     \* the panels whose own clock says the arming has expired
    calls,    \* the commands under way
    held,     \* the armings the connection holds: what was backed up
    old,      \* the armings that have expired
    last,     \* Synth.last and Synth.system_last: what was backed up
    gone,     \* history: the panels the user walked away from while arming
    refused,  \* history: the panels whose call to disarm or to commit was
              \* refused as busy
    unsure,   \* history: the panels whose latest commit is not remembered
    overrun   \* history: the panels whose phase was overwritten by what an
              \* earlier click still had to do

window  == <<phase, frozen, shown, offered, closing, late>>
backend == <<held, old, last>>
history == <<gone, refused, unsure, overrun>>
vars    == <<window, calls, backend, history>>

Nothing       == [x \in {} |-> 0]
With(f, x, v) == [y \in DOMAIN f \cup {x} |-> IF y = x THEN v ELSE f[y]]
Without(f, x) == [y \in DOMAIN f \ {x} |-> f[y]]
Clear(f, k)   == [f EXCEPT ![k] = Nothing]

Init ==
    /\ phase = [k \in Kinds |-> "idle"]
    /\ frozen = [k \in Kinds |-> Nothing] /\ shown = [k \in Kinds |-> Nothing]
    /\ offered = [k \in Kinds |-> Nothing]
    /\ closing = {} /\ late = {} /\ calls = {}
    /\ held = Nothing /\ old = {} /\ last = Nothing
    /\ gone = {} /\ refused = {} /\ unsure = {} /\ overrun = {}

-----------------------------------------------------------------------------
(* Commands.  A long one (every command of the bank but its disarming) is  *)
(* refused while another is under way, and so is a short one that looks    *)
(* while a long one is.                                                    *)

Long(c) == c.kind = "bank" /\ c.op # "disarm"
Busy    == \E c \in calls : Long(c) /\ c.at = "admitted"

(* Send op for panel k: job is what to write (or to arm, by its areas),    *)
(* said what the screen said of it, then what follows on its answer.       *)
Call(k, op, job, said, then) ==
    \E n \in (1..MaxCalls) \ {c.n : c \in calls} :
        /\ \A m \in 1..(n - 1) : \E c \in calls : c.n = m
        /\ calls' = calls \cup
               {[n |-> n, kind |-> k, op |-> op, job |-> job, said |-> said,
                 then |-> then, at |-> "sent", result |-> "none",
                was |-> Nothing]}

Now(c, at, r) ==
    calls' = (calls \ {c}) \cup {[c EXCEPT !.at = at, !.result = r]}

Answer(c, r) == Now(c, "answered", r)

Admit(c) ==
    /\ c.at = "sent"
    /\ \/ /\ ~Busy
          /\ Now(c, "admitted", "none")
          /\ UNCHANGED <<refused, unsure>>
       \/ /\ Busy
          /\ Answer(c, "error")
          /\ refused' = IF c.op \in {"disarm", "commit"}
                        THEN refused \cup {c.kind} ELSE refused
          /\ unsure' = IF c.op = "commit" THEN unsure \cup {c.kind} ELSE unsure
    /\ UNCHANGED <<window, backend, gone, overrun>>

(* Arming gives up every arming there is, reads what it would replace and  *)
(* keeps it in a file; then there is one.                                  *)
ServeArm(c) ==
    /\ c.at = "admitted" /\ c.op = "arm"
    /\ \/ \E was \in [DOMAIN c.job -> Occupants] :
              /\ held' = With(Nothing, c.kind, was)
              /\ calls' = (calls \ {c}) \cup
                     {[c EXCEPT !.at = "answered", !.result = "ok",
                                !.was = was]}
       \/ held' = Nothing /\ Answer(c, "error")
    /\ old' = {}
    /\ refused' = refused \ {c.kind}
    /\ UNCHANGED <<window, last, gone, unsure, overrun>>

ServeDisarm(c) ==
    /\ c.at = "admitted" /\ c.op = "disarm"
    /\ held' = Without(held, c.kind)
    /\ old' = old \ {c.kind}
    /\ Answer(c, "ok")
    /\ UNCHANGED <<window, last, history>>

(* A bank's commit names its slots again; a save's patch goes where the    *)
(* arming says.                                                            *)
Accepts(c) == c.kind = "bank" => DOMAIN c.job = DOMAIN held["bank"]

Written(c) ==
    IF c.kind = "bank" THEN c.job
    ELSE [a \in DOMAIN held[c.kind] |->
             CHOOSE v \in Sound : \E b \in DOMAIN c.job : v = c.job[b]]

MayWrite(c) == c.kind \in DOMAIN held \ old /\ Accepts(c)

(* The arming is used up, whatever happens.  An attempt that fails is      *)
(* remembered or not by the kind of its error alone (see Ceremony), a bank *)
(* never.                                                                  *)
ServeCommit(c) ==
    /\ c.at = "admitted" /\ c.op = "commit"
    /\ held' = Without(held, c.kind)
    /\ old' = old \ {c.kind}
    /\ \/ /\ Answer(c, "error")
          /\ unsure' = unsure \cup {c.kind}
          /\ UNCHANGED last
       \/ /\ MayWrite(c)
          /\ \E r \in {"ok", "error"} : Answer(c, r)
          /\ unsure' = unsure \ {c.kind}
          /\ last' = IF c.kind = "bank" THEN last
                     ELSE With(last, c.kind, held[c.kind])
    /\ UNCHANGED <<window, gone, refused, overrun>>

(* Undo: nothing is written if there is nothing to put back, or the area   *)
(* has changed since.                                                      *)
ServeRestore(c) ==
    /\ c.at = "admitted" /\ c.op = "restore"
    /\ \/ Answer(c, "error") /\ UNCHANGED last
       \/ /\ c.kind \in DOMAIN last
          /\ \/ Answer(c, "ok") /\ last' = Without(last, c.kind)
             \/ Answer(c, "error") /\ UNCHANGED last
    /\ UNCHANGED <<window, held, old, history>>

(* The bank, or all memory, is read.                                       *)
ServeRead(c) ==
    /\ c.at = "admitted" /\ c.op = "read"
    /\ \E r \in {"ok", "error"} : Answer(c, r)
    /\ UNCHANGED <<window, backend, history>>

(* An arming expires.                                                      *)
Expire(k) ==
    /\ k \in DOMAIN held \ old
    /\ old' = old \cup {k}
    /\ UNCHANGED <<window, calls, held, last, history>>

(* The connection is opened anew (whether or not a long command has begun).*)
Reconnect ==
    /\ DOMAIN held # {} \/ DOMAIN last # {}
    /\ held' = Nothing /\ old' = {} /\ last' = Nothing
    /\ UNCHANGED <<window, calls, history>>

-----------------------------------------------------------------------------
(* The window.                                                             *)

Working(k) == phase[k] \in {"arming", "writing", "reading"}

(* What an earlier click still had to do sets the phase, whatever a later  *)
(* one has made of it.                                                     *)
SetPhase(k, p) ==
    /\ phase' = [phase EXCEPT ![k] = p]
    /\ overrun' = IF phase[k] \in {"arming", "armed", "writing"}
                  THEN overrun \cup {k} ELSE overrun

\* Slip: a panel that is writing can be armed again.
MayArmWhileWriting(k) == phase[k] \notin {"arming", "armed", "reading"}

MayArm(k) == ~Working(k) /\ phase[k] # "armed"

(* Step one: what is to be written is frozen, and the arming asked for.    *)
Arm(k, J) ==
    /\ MayArm(k)
    /\ frozen' = [frozen EXCEPT ![k] = J]
    /\ phase' = [phase EXCEPT ![k] = "arming"]
    /\ closing' = closing \ {k}
    /\ Call(k, "arm", J, Nothing, "nothing")
    /\ UNCHANGED <<shown, offered, late, backend, history>>

(* Leave the armed phase first, so that no click on Replace races the      *)
(* disarming; when that is answered, do what was to follow.                *)
GiveUp(k, then) ==
    /\ phase' = [phase EXCEPT ![k] = "idle"]
    /\ shown' = Clear(shown, k)
    /\ frozen' = Clear(frozen, k)
    /\ late' = late \ {k}
    /\ Call(k, "disarm", Nothing, Nothing, then)

(* The user walks away: a panel still arming is disarmed when it is armed. *)
Cancel(k) ==
    /\ \/ /\ phase[k] = "arming" /\ k \notin closing
          /\ closing' = closing \cup {k} /\ gone' = gone \cup {k}
          /\ UNCHANGED <<phase, frozen, shown, late, calls>>
       \/ /\ phase[k] = "armed"
          /\ GiveUp(k, "nothing")
          /\ UNCHANGED <<closing, gone>>
    /\ UNCHANGED <<offered, backend, refused, unsure, overrun>>

\* Slip: the arming that arrives is not dropped.
ClosedForgotten(k) == FALSE

ClosedMeanwhile(k) == k \in closing

Armed(c) ==
    /\ c.at = "answered" /\ c.op = "arm"
    /\ \/ /\ c.result # "error" /\ ~ClosedMeanwhile(c.kind)
          /\ phase' = [phase EXCEPT ![c.kind] = "armed"]
          /\ shown' = [shown EXCEPT ![c.kind] = c.was]
          /\ calls' = calls \ {c}
          /\ UNCHANGED <<frozen, gone>>
       \/ /\ c.result # "error" /\ ClosedMeanwhile(c.kind)
          /\ phase' = [phase EXCEPT ![c.kind] = "idle"]
          /\ shown' = Clear(shown, c.kind)
          /\ frozen' = Clear(frozen, c.kind)
          /\ gone' = gone \ {c.kind}
          /\ calls' = (calls \ {c}) \cup
                 {[c EXCEPT !.op = "disarm", !.at = "sent", !.job = Nothing,
                            !.result = "none", !.was = Nothing]}
       \/ /\ c.result = "error"
          /\ phase' = [phase EXCEPT ![c.kind] = "failed"]
          /\ shown' = Clear(shown, c.kind)
          /\ frozen' = Clear(frozen, c.kind)
          /\ gone' = gone \ {c.kind}
          /\ calls' = calls \ {c}
    /\ closing' = closing \ {c.kind}
    /\ UNCHANGED <<offered, late, backend, refused, unsure, overrun>>

(* The panel's clock starts when it hears of the arming.                   *)
Late(k) ==
    /\ k \in SaveKinds /\ phase[k] = "armed" /\ k \notin late
    /\ k \in DOMAIN held => k \in old
    /\ late' = late \cup {k}
    /\ UNCHANGED <<phase, frozen, shown, offered, closing, calls, backend,
                   history>>

(* What the screen says will be written: this patch, into that slot.       *)
Said(k) ==
    IF k = "bank" THEN frozen[k]
    ELSE [a \in DOMAIN shown[k] |->
             frozen[k][CHOOSE b \in DOMAIN frozen[k] : TRUE]]

(* Step two.                                                               *)
Commit(k) ==
    /\ phase[k] = "armed" /\ DOMAIN frozen[k] # {}
    /\ \/ k \in late /\ GiveUp(k, "fail")
       \/ /\ k \notin late
          /\ phase' = [phase EXCEPT ![k] = "writing"]
          /\ frozen' = Clear(frozen, k)
          /\ shown' = IF k = "bank" THEN Clear(shown, k) ELSE shown
          /\ Call(k, "commit", frozen[k], Said(k), "nothing")
          /\ UNCHANGED late
    /\ UNCHANGED <<offered, closing, backend, history>>

Outcome(c) == IF c.result = "ok" THEN "done" ELSE "failed"

(* Whatever becomes of it, a save offers to put back what was there.       *)
Committed(c) ==
    /\ c.at = "answered" /\ c.op = "commit"
    /\ phase' = [phase EXCEPT ![c.kind] = Outcome(c)]
    /\ shown' = Clear(shown, c.kind)
    /\ offered' = IF c.kind \in SaveKinds
                  THEN [offered EXCEPT ![c.kind] = shown[c.kind]] ELSE offered
    /\ calls' = calls \ {c}
    /\ UNCHANGED <<frozen, closing, late, backend, history>>

Undo(k) ==
    /\ k \in SaveKinds /\ DOMAIN offered[k] # {}
    /\ ~Working(k) /\ phase[k] # "armed"
    /\ phase' = [phase EXCEPT ![k] = "writing"]
    /\ Call(k, "restore", Nothing, offered[k], "nothing")
    /\ UNCHANGED <<frozen, shown, offered, closing, late, backend, gone,
                   refused, unsure, overrun>>

Undone(c) ==
    /\ c.at = "answered" /\ c.op = "restore"
    /\ phase' = [phase EXCEPT ![c.kind] = Outcome(c)]
    /\ offered' = IF c.result = "ok" THEN Clear(offered, c.kind)
                                     ELSE offered
    /\ calls' = calls \ {c}
    /\ UNCHANGED <<frozen, shown, closing, late, backend, history>>

(* The bank is read again: an arming is given up first, and awaited.       *)
ReadFromSynth ==
    /\ "bank" \in Kinds /\ ~Working("bank")
    /\ \/ phase["bank"] = "armed" /\ GiveUp("bank", "read")
       \/ /\ phase["bank"] # "armed"
          /\ phase' = [phase EXCEPT !["bank"] = "reading"]
          /\ Call("bank", "read", Nothing, Nothing, "nothing")
          /\ UNCHANGED <<shown, frozen, late>>
    /\ UNCHANGED <<offered, closing, backend, history>>

(* All of the memory is read, armed or not.                                *)
BackupEverything ==
    /\ "bank" \in Kinds /\ ~Working("bank")
    /\ SetPhase("bank", "reading")
    /\ Call("bank", "read", Nothing, Nothing, "nothing")
    /\ UNCHANGED <<frozen, shown, offered, closing, late, backend, gone,
                   refused, unsure>>

ReadDone(c) ==
    /\ c.at = "answered" /\ c.op = "read"
    /\ SetPhase(c.kind, IF c.result = "ok" THEN "idle" ELSE "failed")
    /\ calls' = calls \ {c}
    /\ UNCHANGED <<frozen, shown, offered, closing, late, backend, gone,
                   refused, unsure>>

(* The disarming is answered (an error counts as well): what followed it   *)
(* goes on.                                                                *)
Disarmed(c) ==
    /\ c.at = "answered" /\ c.op = "disarm"
    /\ \/ /\ c.then = "nothing"
          /\ calls' = calls \ {c}
          /\ UNCHANGED <<phase, overrun>>
       \/ /\ c.then = "fail"
          /\ SetPhase(c.kind, "failed")
          /\ calls' = calls \ {c}
       \/ /\ c.then = "read"
          /\ SetPhase(c.kind, "reading")
          /\ calls' = (calls \ {c}) \cup
                 {[c EXCEPT !.op = "read", !.then = "nothing", !.at = "sent",
                            !.result = "none"]}
    /\ UNCHANGED <<frozen, shown, offered, closing, late, backend, gone,
                   refused, unsure>>

Clicks ==
    \E k \in Kinds :
        \/ \E J \in Jobs[k] : Arm(k, J)
        \/ Cancel(k)
        \/ Commit(k)
        \/ Undo(k)

Served ==
    \E c \in calls :
        \/ Admit(c)
        \/ ServeArm(c)
        \/ ServeDisarm(c)
        \/ ServeCommit(c)
        \/ ServeRestore(c)
        \/ ServeRead(c)

Answers ==
    \E c \in calls :
        \/ Armed(c)
        \/ Committed(c)
        \/ Undone(c)
        \/ ReadDone(c)
        \/ Disarmed(c)

Next ==
    \/ Clicks
    \/ ReadFromSynth
    \/ BackupEverything
    \/ Served
    \/ Answers
    \/ \E k \in Kinds : Expire(k) \/ Late(k)
    \/ Reconnect

Spec == Init /\ [][Next]_vars

-----------------------------------------------------------------------------
(* Whatever the connection is about to write is what the screen said when  *)
(* the user agreed to it: the patch that was frozen, into the slot that    *)
(* was read, or what that slot held, back into it.  (Two things are taken  *)
(* out, each under a name: a phase overwritten by an earlier click, and an *)
(* undo after a commit that the connection does not remember.)             *)
WritesWhatWasSaid ==
    \A c \in calls :
        c.at = "admitted" /\ c.kind \notin overrun =>
            /\ c.op = "commit" /\ MayWrite(c) => Written(c) = c.said
            /\ c.op = "restore" /\ c.kind \in DOMAIN last \ unsure =>
                   last[c.kind] = c.said

(* No arming is left behind a panel that is closed, or shows another: the  *)
(* panel is arming, armed or writing, or its call to disarm is under way.  *)
(* (Unless it was refused as busy, or the phase was overwritten.)          *)
NotLeftArmed ==
    \A k \in DOMAIN held :
        \/ phase[k] \in {"arming", "writing"}
        \/ phase[k] = "armed" /\ k \notin gone
        \/ \E c \in calls : c.kind = k /\ c.op = "disarm"
        \/ k \in refused \cup overrun
=============================================================================
