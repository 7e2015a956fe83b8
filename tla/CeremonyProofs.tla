--------------------------- MODULE CeremonyProofs ---------------------------
(***************************************************************************)
(* Theorems about the write ceremony, for any number of slots, blocks and  *)
(* values.  The safety properties of Ceremony are not inductive: that a    *)
(* write overwrites only what is backed up follows from what the arming    *)
(* read, what the fresh read found and whether the panel changed the area  *)
(* in between.  IInv states those links.                                   *)
(***************************************************************************)
EXTENDS Ceremony, TLAPS

(* What a command has in hand at each point.                               *)
Shape ==
    /\ cmd = "idle" => phase = "none" /\ area = NoArea
    /\ cmd # "idle" => area \in Areas
    /\ cmd = "arm" => /\ plan = Nothing
                      /\ phase \in {"read", "file"}
                      /\ asked \subseteq ToRead
                      /\ phase = "file" => ToRead \subseteq DOMAIN seen
    /\ cmd = "commit" => /\ kind \in DOMAIN plan
                         /\ phase \in {"read", "write", "back"}
                         /\ area \in DOMAIN job
                         /\ DOMAIN job \subseteq plan[kind].confirmed
    /\ cmd = "restore" => /\ kind \in DOMAIN last
                          /\ phase \in {"read", "write", "back"}
                          /\ area = last[kind].area
                          /\ DOMAIN job = {area}
                          /\ phase = "read" => last[kind].outcome = "ok"
    /\ \A k \in DOMAIN plan : plan[k].confirmed \subseteq DOMAIN plan[k].backup

(* Every image a plan would put back is in a file.                         *)
PlansAreBackedUp ==
    \A k \in DOMAIN plan : \A a \in DOMAIN plan[k].backup :
        <<a, plan[k].backup[a]>> \in disk

(* What a pass has read so far is what the area holds, unless the panel    *)
(* changed the area since the pass began.                                  *)
ReadIsCurrent ==
    (phase \in {"read", "back"} /\ touched = {}) =>
        \A i \in 1..Len(got) : got[i] = mem[area][i]

(* Just before a commit's first message the area holds what was backed up. *)
AboutToOverwrite ==
    (cmd = "commit" /\ phase = "write" /\ sent = 0 /\ touched = {}) =>
        mem[area] = plan[kind].backup[area]

IInv ==
    /\ TypeOK
    /\ Shape
    /\ OnePending
    /\ PlansAreBackedUp
    /\ ReadIsCurrent
    /\ AboutToOverwrite
    /\ UndoOverwritesOnlyItsSave
    /\ OverwrittenIsBackedUp

-----------------------------------------------------------------------------
(* Partial functions.                                                      *)

LEMMA NothingPartial == ASSUME NEW S, NEW T PROVE IsPartial(Nothing, S, T)
  BY DEF IsPartial, Nothing

LEMMA WithPartial ==
    ASSUME NEW S, NEW T, NEW f, IsPartial(f, S, T), NEW x \in S, NEW v \in T
    PROVE  /\ IsPartial(With(f, x, v), S, T)
           /\ DOMAIN With(f, x, v) = DOMAIN f \cup {x}
           /\ With(f, x, v)[x] = v
           /\ \A y \in DOMAIN f \ {x} : With(f, x, v)[y] = f[y]
  BY DEF IsPartial, With

LEMMA WithoutPartial ==
    ASSUME NEW S, NEW T, NEW f, IsPartial(f, S, T), NEW x
    PROVE  /\ IsPartial(Without(f, x), S, T)
           /\ DOMAIN Without(f, x) = DOMAIN f \ {x}
           /\ \A y \in DOMAIN f \ {x} : Without(f, x)[y] = f[y]
  BY DEF IsPartial, Without

(* Finish leaves nothing of the command.                                   *)
FinishedType ==
    /\ cmd \in Commands /\ kind \in Kinds /\ phase \in Phases
    /\ area \in Areas \cup {NoArea}
    /\ asked \subseteq Areas
    /\ IsPartial(job, Areas, Image) /\ IsPartial(seen, Areas, Image)
    /\ got \in Seq(Value) /\ Len(got) <= NBlocks
    /\ pass \in {1, 2} /\ sent \in 0..NBlocks /\ touched \subseteq {area}

LEMMA FinishType == Finish => FinishedType'
  <1> SUFFICES ASSUME Finish PROVE FinishedType' OBVIOUS
  <1>1. <<>> \in Seq(Value) /\ Len(<<>>) <= NBlocks
    BY ImageAssumption
  <1>2. IsPartial(job', Areas, Image) /\ IsPartial(seen', Areas, Image)
    BY NothingPartial DEF Finish
  <1>3. QED
    BY <1>1, <1>2, ImageAssumption
       DEF Finish, FinishedType, Commands, Kinds, Phases

LEMMA VisitType ==
    ASSUME NEW a \in Areas, NEW ph \in Phases, Visit(a, ph)
    PROVE  /\ area' \in Areas \cup {NoArea} /\ phase' \in Phases
           /\ got' \in Seq(Value) /\ Len(got') <= NBlocks
           /\ pass' \in {1, 2} /\ sent' \in 0..NBlocks /\ touched' \subseteq {area'}
  BY ImageAssumption DEF Visit

(* The attempt a failing or verified commit remembers.                     *)
LEMMA AttemptType ==
    ASSUME TypeOK, Shape, NEW r, Remember(r)
    PROVE  IsPartial(last', SaveKinds, Attempt)
  <1>1. CASE cmd = "commit" /\ kind \in SaveKinds /\ WroteSomething(r)
    <2>1. IsPlan(plan[kind]) /\ area \in DOMAIN plan[kind].backup /\ area \in DOMAIN job
      BY <1>1 DEF TypeOK, Shape
    <2>2. AttemptMade(r) \in Attempt
      BY <2>1, <1>1 DEF AttemptMade, Attempt, TypeOK, Shape, IsPlan, IsPartial
    <2>3. QED BY <1>1, <2>2, WithPartial DEF Remember, TypeOK
  <1>2. CASE ~(cmd = "commit" /\ kind \in SaveKinds /\ WroteSomething(r))
    BY <1>2 DEF Remember, TypeOK
  <1>3. QED BY <1>1, <1>2

LEMMA FailType ==
    ASSUME TypeOK, Shape, NEW r, Fail(r) PROVE TypeOK'
  BY FinishType, AttemptType DEF Fail, FinishedType, TypeOK

LEMMA NoPlanType ==
    ASSUME plan' = Nothing
    PROVE  /\ DOMAIN plan' = {}
           /\ plan' = [k \in DOMAIN plan' |-> plan'[k]]
  BY DEF Nothing

-----------------------------------------------------------------------------
(* Type correctness, one step per action.                                  *)

LEMMA ArmType ==
    ASSUME TypeOK, NEW a \in Areas, NEW A \in SUBSET Areas, NEW k \in Kinds,
           Begin("arm", k, A), ClearArmings, Visit(a, "read"),
           UNCHANGED <<mem, disk, last, job, seen, orig>>
    PROVE  TypeOK'
  BY NoPlanType, VisitType DEF TypeOK, Begin, ClearArmings, Commands, Phases

LEMMA CommitType ==
    ASSUME TypeOK, Shape, NEW k \in armed, NEW J, IsPartial(J, Areas, Image),
           Commit(k, J)
    PROVE  TypeOK'
  <1>1. k \in Kinds BY DEF TypeOK
  <1>2. CASE UNCHANGED <<opVars, touched>>
    BY <1>2 DEF Commit, TypeOK, opVars
  <1>3. CASE /\ Begin("commit", k, DOMAIN J)
             /\ job' = J /\ UNCHANGED seen
             /\ \E a \in DOMAIN J : Visit(a, "read")
    <2>1. PICK a \in DOMAIN J : Visit(a, "read") BY <1>3
    <2>2. a \in Areas /\ DOMAIN J \subseteq Areas BY DEF IsPartial
    <2>3. QED
      BY <1>1, <1>3, <2>1, <2>2, VisitType DEF Commit, TypeOK, Begin, Commands, Phases
  <1>4. QED BY <1>2, <1>3 DEF Commit

LEMMA RestoreType ==
    ASSUME TypeOK, NEW k, Restore(k) PROVE TypeOK'
  <1>1. k \in SaveKinds /\ last[k] \in Attempt
    BY DEF Restore, TypeOK, IsPartial
  <1>2. /\ last[k].area \in Areas /\ last[k].backup \in Image
        /\ UndoFirst(k) \in Phases
    BY <1>1 DEF Attempt, UndoFirst, Phases
  <1>3. IsPartial(job', Areas, Image)
    BY <1>2 DEF Restore, IsPartial
  <1>4. QED
    BY <1>1, <1>2, <1>3, VisitType
       DEF Restore, TypeOK, Begin, Commands, Kinds, SaveKinds

LEMMA TypeStep ==
    ASSUME TypeOK, Shape, [Next]_vars PROVE TypeOK'
  <1>1. ASSUME NEW s \in Slots, ArmUserSave(s) PROVE TypeOK'
    BY <1>1, ArmType DEF ArmUserSave, Areas, Kinds
  <1>2. ASSUME ArmSystemSave PROVE TypeOK'
    BY <1>2, ArmType DEF ArmSystemSave, Areas, Kinds
  <1>3. ASSUME NEW C \in SUBSET Slots, ArmBankWrite(C) PROVE TypeOK'
    <2>1. CASE cmd = "idle" /\ UNCHANGED <<opVars, touched>>
      BY <1>3, <2>1, NoPlanType DEF ArmBankWrite, ClearArmings, TypeOK, opVars
    <2>2. ASSUME NEW s \in Slots, Begin("arm", "bank", C), Visit(s, "read"),
                 UNCHANGED <<job, seen>>
          PROVE  TypeOK'
      BY <1>3, <2>2, ArmType DEF ArmBankWrite, Areas, Kinds
    <2>3. QED BY <1>3, <2>1, <2>2 DEF ArmBankWrite
  <1>4. ASSUME PlanRead PROVE TypeOK'
    <2>1. /\ area \in Areas /\ got \in Image
      BY <1>4 DEF PlanRead, TypeOK, Shape, Image
    <2>2. IsPartial(seen', Areas, Image)
      BY <1>4, <2>1, WithPartial DEF PlanRead, TypeOK
    <2>3. PICK a \in Areas, ph \in Phases : Visit(a, ph)
      <3>1. ToRead \subseteq Areas
        BY DEF ToRead, TypeOK, Areas
      <3>2. QED BY <1>4, <2>1, <3>1 DEF PlanRead, Phases
    <2>4. QED
      BY <1>4, <2>2, <2>3, VisitType DEF PlanRead, TypeOK
  <1>5. ASSUME WriteBackup PROVE TypeOK'
    <2>1. FinishedType'
      BY <1>5, FinishType DEF WriteBackup
    <2>2. CASE UNCHANGED <<disk, plan, armed>>
      BY <1>5, <2>1, <2>2 DEF WriteBackup, TypeOK, FinishedType
    <2>3. CASE /\ disk' = disk \cup {<<a, seen[a]>> : a \in DOMAIN seen}
               /\ plan' = With(plan, kind, [backup |-> seen, confirmed |-> asked,
                                            age |-> 0])
               /\ armed' = armed \cup {kind}
      <3>1. disk' \subseteq Areas \X Image
        BY <2>3 DEF TypeOK, IsPartial
      <3>2. IsPlan([backup |-> seen, confirmed |-> asked, age |-> 0])
        BY LifetimeAssumption DEF TypeOK, IsPlan, Age
      <3>3. /\ DOMAIN plan' \subseteq Kinds /\ armed' \subseteq DOMAIN plan'
            /\ plan' = [k \in DOMAIN plan' |-> plan'[k]]
            /\ \A k \in DOMAIN plan' : IsPlan(plan'[k])
        BY <2>3, <3>2 DEF TypeOK, With
      <3>4. QED
        BY <1>5, <2>1, <3>1, <3>3 DEF WriteBackup, TypeOK, FinishedType
    <2>4. QED BY <1>5, <2>2, <2>3 DEF WriteBackup
  <1>6. ASSUME NEW k \in Kinds, Disarm(k) PROVE TypeOK'
    BY <1>6 DEF Disarm, TypeOK, opVars
  <1>7. ASSUME Tick PROVE TypeOK'
    <2>1. ASSUME NEW k \in DOMAIN plan PROVE IsPlan(plan'[k])
      BY <1>7, <2>1, LifetimeAssumption DEF Tick, TypeOK, IsPlan, Age, Older
    <2>2. QED BY <1>7, <2>1 DEF Tick, TypeOK, opVars
  <1>8. ASSUME NEW p \in Patches, CommitUserSave(p) PROVE TypeOK'
    <2>1. IsPartial([a \in plan["user"].confirmed |-> p], Areas, Image)
      BY <1>8, ImageAssumption
         DEF CommitUserSave, Commit, TypeOK, IsPlan, IsPartial
    <2>2. QED BY <1>8, <2>1, CommitType DEF CommitUserSave, Commit
  <1>9. ASSUME NEW p \in Patches, CommitSystemSave(p) PROVE TypeOK'
    <2>1. IsPartial([a \in plan["system"].confirmed |-> p], Areas, Image)
      BY <1>9, ImageAssumption
         DEF CommitSystemSave, Commit, TypeOK, IsPlan, IsPartial
    <2>2. QED BY <1>9, <2>1, CommitType DEF CommitSystemSave, Commit
  <1>10. ASSUME NEW C \in SUBSET Slots, NEW J \in [C -> Patches], CommitBankWrite(J)
         PROVE TypeOK'
    <2>1. IsPartial(J, Areas, Image)
      BY ImageAssumption DEF IsPartial, Areas
    <2>2. QED BY <1>10, <2>1, CommitType DEF CommitBankWrite, Commit
  <1>11. ASSUME NEW k, Restore(k) PROVE TypeOK'
    BY <1>11, RestoreType
  <1>12. ASSUME ReadBlock PROVE TypeOK'
    <2>1. area \in Areas
      BY <1>12 DEF ReadBlock, Reading, TypeOK, Shape
    <2>2. mem[area][Len(got) + 1] \in Value
      BY <1>12, <2>1, ImageAssumption DEF ReadBlock, TypeOK, Image
    <2>3. got' \in Seq(Value) /\ Len(got') <= NBlocks
      BY <1>12, <2>2, ImageAssumption DEF ReadBlock, TypeOK
    <2>4. QED BY <1>12, <2>3 DEF ReadBlock, TypeOK
  <1>13. ASSUME NEW r, Fail(r) PROVE TypeOK'
    BY <1>13, FailType
  <1>14. ASSUME HeardEvent PROVE TypeOK'
    <2>1. CASE /\ pass' = 2 /\ got' = <<>> /\ touched' = {}
               /\ UNCHANGED <<mem, disk, plan, armed, last, cmd, kind, phase, area,
                              asked, job, seen, sent, orig>>
      BY <2>1, ImageAssumption DEF TypeOK
    <2>2. QED BY <1>14, <1>13, <2>1 DEF HeardEvent
  <1>15. ASSUME CheckFresh PROVE TypeOK'
    <2>1. CASE /\ phase' = "write" /\ got' = <<>> /\ sent' = 0
               /\ UNCHANGED <<mem, disk, plan, armed, last, cmd, kind, area, asked,
                              job, seen, pass, touched, orig>>
      BY <2>1, ImageAssumption DEF TypeOK, Phases
    <2>2. QED BY <1>15, <1>13, <2>1 DEF CheckFresh
  <1>16. ASSUME SendBlock PROVE TypeOK'
    <2>1. area \in DOMAIN job \/ cmd \in {"idle", "arm"}
      BY DEF TypeOK, Shape, Commands
    <2>2. area \in Areas /\ area \in DOMAIN job
      BY <1>16, <2>1 DEF SendBlock, TypeOK, Shape, IsPartial
    <2>3. sent + 1 \in 1..NBlocks /\ sent' \in 0..NBlocks
      BY <1>16, ImageAssumption DEF SendBlock, TypeOK
    <2>4. mem[area] \in Image /\ job[area] \in Image
      BY <2>2 DEF TypeOK, IsPartial
    <2>5. job[area][sent + 1] \in Value
      BY <2>3, <2>4 DEF Image
    <2>6. [mem[area] EXCEPT ![sent + 1] = job[area][sent + 1]] \in Image
      BY <2>3, <2>4, <2>5 DEF Image
    <2>7. mem' \in [Areas -> Image]
      BY <1>16, <2>2, <2>6 DEF SendBlock, TypeOK
    <2>8. IsPartial(orig', Areas, Image)
      BY <1>16, <2>2, <2>4, WithPartial DEF SendBlock, Overwrites, TypeOK
    <2>9. QED BY <1>16, <2>3, <2>7, <2>8 DEF SendBlock, TypeOK
  <1>17. ASSUME ReadBack PROVE TypeOK'
    BY <1>17, ImageAssumption DEF ReadBack, TypeOK, Phases
  <1>18. ASSUME Verified PROVE TypeOK'
    <2>1. IsPartial(orig', Areas, Image)
      BY <1>18, WithoutPartial DEF Verified, TypeOK
    <2>2. CASE Finish /\ IF cmd = "restore" THEN last' = Without(last, kind)
                                            ELSE Remember("ok")
      <3>1. IsPartial(last', SaveKinds, Attempt)
        <4>1. CASE cmd = "restore"
          <5>1. last' = Without(last, kind) BY <2>2, <4>1
          <5>2. QED BY <5>1, WithoutPartial DEF TypeOK
        <4>2. CASE cmd # "restore"
          <5>1. Remember("ok") BY <2>2, <4>2
          <5>2. QED BY <5>1, AttemptType
        <4>3. QED BY <4>1, <4>2
      <3>2. FinishedType' BY <2>2, FinishType
      <3>3. QED BY <1>18, <2>1, <3>1, <3>2 DEF Verified, TypeOK, FinishedType
    <2>3. CASE /\ job' = Without(job, area)
               /\ \E a \in DOMAIN job' : Visit(a, "read")
               /\ UNCHANGED <<last, cmd, kind, asked, seen>>
      <3>1. IsPartial(job', Areas, Image)
        BY <2>3, WithoutPartial DEF TypeOK
      <3>2. PICK a \in Areas : Visit(a, "read")
        BY <2>3, <3>1 DEF IsPartial
      <3>3. QED
        BY <1>18, <2>1, <2>3, <3>1, <3>2, VisitType DEF Verified, TypeOK, Phases
    <2>4. QED BY <1>18, <2>2, <2>3 DEF Verified
  <1>19. ASSUME NEW a \in Areas, NEW p \in PanelPatches, PanelStore(a, p)
         PROVE TypeOK'
    <2>1. p \in Image BY ImageAssumption
    <2>2. mem' \in [Areas -> Image]
      BY <1>19, <2>1 DEF PanelStore, TypeOK
    <2>3. IsPartial(orig', Areas, Image)
      BY <1>19, WithoutPartial DEF PanelStore, TypeOK
    <2>4. QED BY <1>19, <2>2, <2>3 DEF PanelStore, TypeOK, opVars
  <1>20. ASSUME Restart PROVE TypeOK'
    <2>1. FinishedType' BY <1>20, FinishType DEF Restart
    <2>2. IsPartial(last', SaveKinds, Attempt)
      BY <1>20, NothingPartial DEF Restart
    <2>3. QED BY <1>20, <2>1, <2>2, NoPlanType DEF Restart, TypeOK, FinishedType
  <1>21. ASSUME UNCHANGED vars PROVE TypeOK'
    BY <1>21 DEF vars, opVars, TypeOK
  <1>22. QED
    BY <1>1, <1>2, <1>3, <1>4, <1>5, <1>6, <1>7, <1>8, <1>9, <1>10, <1>11, <1>12,
       <1>13, <1>14, <1>15, <1>16, <1>17, <1>18, <1>19, <1>20, <1>21
       DEF Next, Ask, Work, World, ReadFails, Cancel, SendFails, Differs

-----------------------------------------------------------------------------
(* What each point of a command has in hand.                               *)

(* Time passes, and nothing else about the plans changes.                  *)
LEMMA TickPlan ==
    ASSUME TypeOK, Tick
    PROVE  /\ DOMAIN plan' = DOMAIN plan
           /\ \A k \in DOMAIN plan : /\ plan'[k].backup = plan[k].backup
                                    /\ plan'[k].confirmed = plan[k].confirmed
  BY DEF Tick, TypeOK, IsPlan

PlansHoldTheirSlots ==
    \A k \in DOMAIN plan : plan[k].confirmed \subseteq DOMAIN plan[k].backup

LEMMA FinishShape ==
    ASSUME Finish, PlansHoldTheirSlots' PROVE Shape'
  BY DEF Finish, Shape, PlansHoldTheirSlots

LEMMA ArmShape ==
    ASSUME NEW a \in Areas, NEW A, NEW k,
           Begin("arm", k, A), ClearArmings, Visit(a, "read"),
           A \subseteq IF k = "bank" THEN Slots ELSE A
    PROVE  Shape'
  BY DEF Shape, Begin, ClearArmings, Visit, ToRead, Nothing

LEMMA CommitShape ==
    ASSUME TypeOK, Shape, NEW k \in armed, NEW J, IsPartial(J, Areas, Image),
           Commit(k, J)
    PROVE  Shape'
  <1>1. CASE UNCHANGED <<opVars, touched>>
    BY <1>1 DEF Commit, Shape, opVars, ToRead
  <1>2. CASE /\ Accepts(k, J)
             /\ Begin("commit", k, DOMAIN J)
             /\ job' = J
             /\ \E a \in DOMAIN J : Visit(a, "read")
    <2>1. PICK a \in DOMAIN J : Visit(a, "read") BY <1>2
    <2>2. a \in Areas BY DEF IsPartial
    <2>3. QED
      BY <1>2, <2>1, <2>2 DEF Commit, Shape, Begin, Visit, Accepts, TypeOK
  <1>3. QED BY <1>1, <1>2 DEF Commit

LEMMA ShapeStep ==
    ASSUME TypeOK, Shape, [Next]_vars PROVE Shape'
  <1>0. PlansHoldTheirSlots BY DEF Shape, PlansHoldTheirSlots
  <1>1. ASSUME NEW s \in Slots, ArmUserSave(s) PROVE Shape'
    BY <1>1, ArmShape DEF ArmUserSave, Areas
  <1>2. ASSUME ArmSystemSave PROVE Shape'
    BY <1>2, ArmShape DEF ArmSystemSave, Areas
  <1>3. ASSUME NEW C \in SUBSET Slots, ArmBankWrite(C) PROVE Shape'
    <2>1. CASE cmd = "idle" /\ UNCHANGED <<opVars, touched>>
      BY <1>3, <2>1 DEF ArmBankWrite, ClearArmings, Shape, opVars, Nothing
    <2>2. ASSUME NEW s \in Slots, Begin("arm", "bank", C), Visit(s, "read")
          PROVE  Shape'
      BY <1>3, <2>2, ArmShape DEF ArmBankWrite, Areas
    <2>3. QED BY <1>3, <2>1, <2>2 DEF ArmBankWrite
  <1>4. ASSUME PlanRead PROVE Shape'
    <2>1. ToRead' = ToRead /\ ToRead \subseteq Areas /\ area \in Areas
      BY <1>4 DEF PlanRead, ToRead, TypeOK, Areas, Shape
    <2>2. CASE \E a \in ToRead \ DOMAIN seen' : Visit(a, "read")
      BY <1>4, <2>1, <2>2 DEF PlanRead, Shape, Visit
    <2>3. CASE ToRead \subseteq DOMAIN seen' /\ Visit(area, "file")
      BY <1>4, <2>1, <2>3 DEF PlanRead, Shape, Visit
    <2>4. QED BY <1>4, <2>2, <2>3 DEF PlanRead
  <1>5. ASSUME WriteBackup PROVE Shape'
    <2>1. asked \subseteq DOMAIN seen /\ plan = Nothing
      BY <1>5 DEF WriteBackup, Shape
    <2>2. PlansHoldTheirSlots'
      BY <1>0, <1>5, <2>1 DEF WriteBackup, PlansHoldTheirSlots, With, Nothing
    <2>3. QED BY <1>5, <2>2, FinishShape DEF WriteBackup
  <1>6. ASSUME NEW k \in Kinds, Disarm(k) PROVE Shape'
    BY <1>6 DEF Disarm, Shape, opVars, ToRead
  <1>7. ASSUME Tick PROVE Shape'
    <2>1. plan = Nothing => plan' = Nothing
      BY <1>7 DEF Tick, Nothing
    <2>2. QED BY <1>7, <2>1, TickPlan DEF Tick, Shape, opVars, ToRead, TypeOK
  <1>8. ASSUME NEW p \in Patches, CommitUserSave(p) PROVE Shape'
    <2>1. IsPartial([a \in plan["user"].confirmed |-> p], Areas, Image)
      BY <1>8, ImageAssumption
         DEF CommitUserSave, Commit, TypeOK, IsPlan, IsPartial
    <2>2. QED BY <1>8, <2>1, CommitShape DEF CommitUserSave, Commit
  <1>9. ASSUME NEW p \in Patches, CommitSystemSave(p) PROVE Shape'
    <2>1. IsPartial([a \in plan["system"].confirmed |-> p], Areas, Image)
      BY <1>9, ImageAssumption
         DEF CommitSystemSave, Commit, TypeOK, IsPlan, IsPartial
    <2>2. QED BY <1>9, <2>1, CommitShape DEF CommitSystemSave, Commit
  <1>10. ASSUME NEW C \in SUBSET Slots, NEW J \in [C -> Patches], CommitBankWrite(J)
         PROVE Shape'
    <2>1. IsPartial(J, Areas, Image)
      BY ImageAssumption DEF IsPartial, Areas
    <2>2. QED BY <1>10, <2>1, CommitShape DEF CommitBankWrite, Commit
  <1>11. ASSUME NEW k, Restore(k) PROVE Shape'
    <2>1. last[k].area \in Areas
      BY <1>11 DEF Restore, TypeOK, IsPartial, Attempt
    <2>2. QED BY <1>0, <1>11, <2>1
              DEF Restore, Shape, Begin, Visit, UndoFirst, PlansHoldTheirSlots
  <1>12. ASSUME NEW r, Fail(r) PROVE Shape'
    BY <1>0, <1>12, FinishShape DEF Fail, PlansHoldTheirSlots
  <1>13. ASSUME ReadBlock PROVE Shape'
    BY <1>13 DEF ReadBlock, Shape, ToRead
  <1>14. ASSUME HeardEvent PROVE Shape'
    <2>1. CASE UNCHANGED <<mem, disk, plan, armed, last, cmd, kind, phase, area,
                           asked, job, seen, sent, orig>>
      BY <2>1 DEF Shape, ToRead
    <2>2. QED BY <1>14, <1>12, <2>1 DEF HeardEvent
  <1>15. ASSUME CheckFresh PROVE Shape'
    <2>1. CASE /\ phase' = "write"
               /\ UNCHANGED <<mem, disk, plan, armed, last, cmd, kind, area, asked,
                              job, seen, pass, touched, orig>>
      BY <1>15, <2>1 DEF CheckFresh, Shape
    <2>2. QED BY <1>15, <1>12, <2>1 DEF CheckFresh
  <1>16. ASSUME SendBlock PROVE Shape'
    BY <1>16 DEF SendBlock, Shape, ToRead
  <1>17. ASSUME ReadBack PROVE Shape'
    BY <1>17 DEF ReadBack, Shape, ToRead
  <1>18. ASSUME Verified PROVE Shape'
    <2>1. CASE Finish
      BY <1>0, <1>18, <2>1, FinishShape DEF Verified, PlansHoldTheirSlots
    <2>2. CASE /\ job' = Without(job, area)
               /\ \E a \in DOMAIN job' : Visit(a, "read")
               /\ UNCHANGED <<last, cmd, kind, asked, seen>>
      <3>1. PICK a \in DOMAIN job' : Visit(a, "read") BY <2>2
      <3>2. DOMAIN job' = DOMAIN job \ {area} /\ a \in Areas
        BY <2>2, <3>1 DEF Without, TypeOK, IsPartial
      <3>3. cmd = "commit"
        BY <1>18, <3>1, <3>2 DEF Verified, TypeOK, Shape, Commands
      <3>4. QED BY <1>18, <2>2, <3>1, <3>2, <3>3 DEF Verified, Shape, Visit
    <2>3. QED BY <1>18, <2>1, <2>2 DEF Verified
  <1>19. ASSUME NEW a \in Areas, NEW p \in PanelPatches, PanelStore(a, p)
         PROVE Shape'
    BY <1>19 DEF PanelStore, Shape, opVars, ToRead
  <1>20. ASSUME Restart PROVE Shape'
    BY <1>20, FinishShape DEF Restart, PlansHoldTheirSlots, Nothing
  <1>21. ASSUME UNCHANGED vars PROVE Shape'
    BY <1>21 DEF vars, opVars, Shape, ToRead
  <1>22. QED
    BY <1>1, <1>2, <1>3, <1>4, <1>5, <1>6, <1>7, <1>8, <1>9, <1>10, <1>11, <1>12,
       <1>13, <1>14, <1>15, <1>16, <1>17, <1>18, <1>19, <1>20, <1>21
       DEF Next, Ask, Work, World, ReadFails, Cancel, SendFails, Differs

-----------------------------------------------------------------------------
(* What is known of the areas.                                             *)

(* A complete pass over an area the panel has left alone read the area.    *)
LEMMA CompletePass ==
    ASSUME TypeOK, ReadIsCurrent, area \in Areas, phase \in {"read", "back"},
           Len(got) = NBlocks, touched = {}
    PROVE  got = mem[area]
  <1>1. mem[area] \in [1..NBlocks -> Value] BY DEF TypeOK, Image
  <1>2. \A i \in 1..NBlocks : got[i] = mem[area][i] BY DEF ReadIsCurrent
  <1>3. DOMAIN got = 1..NBlocks /\ got = [i \in 1..Len(got) |-> got[i]]
    BY DEF TypeOK
  <1>4. QED BY <1>1, <1>2, <1>3

LEMMA PlansStep ==
    ASSUME TypeOK, Shape, PlansAreBackedUp, [Next]_vars PROVE PlansAreBackedUp'
  <1>1. disk \subseteq disk'
    BY DEF Next, vars, Ask, Work, World, ArmUserSave, ArmSystemSave, ArmBankWrite,
           Disarm, CommitUserSave, CommitSystemSave, CommitBankWrite, Commit, Restore,
           PlanRead, WriteBackup, ReadBlock, ReadFails, HeardEvent, CheckFresh, Cancel,
           SendBlock, SendFails, ReadBack, Verified, Differs, Tick, PanelStore, Restart,
           Fail
  <1>2. CASE plan' = plan
    BY <1>1, <1>2 DEF PlansAreBackedUp
  <1>3. CASE plan' = Nothing
    BY <1>3 DEF PlansAreBackedUp, Nothing
  <1>4. CASE Tick
    BY <1>1, <1>4, TickPlan DEF PlansAreBackedUp
  <1>5. CASE WriteBackup /\ plan' # plan
    <2>1. plan = Nothing BY <1>5 DEF WriteBackup, Shape
    <2>2. /\ disk' = disk \cup {<<a, seen[a]>> : a \in DOMAIN seen}
          /\ plan' = With(plan, kind, [backup |-> seen, confirmed |-> asked,
                                       age |-> 0])
      BY <1>5 DEF WriteBackup
    <2>3. DOMAIN plan' = {kind} /\ plan'[kind].backup = seen
      BY <2>1, <2>2 DEF With, Nothing
    <2>4. QED BY <2>2, <2>3 DEF PlansAreBackedUp
  <1>6. QED
    BY <1>2, <1>3, <1>4, <1>5
       DEF Next, vars, Ask, Work, World, ArmUserSave, ArmSystemSave, ArmBankWrite,
           ClearArmings, Disarm, CommitUserSave, CommitSystemSave, CommitBankWrite,
           Commit, Restore, PlanRead, ReadBlock, ReadFails, HeardEvent, CheckFresh,
           Cancel, SendBlock, SendFails, ReadBack, Verified, Differs, PanelStore,
           Restart, Fail

LEMMA OnePendingStep ==
    ASSUME TypeOK, Shape, OnePending, [Next]_vars PROVE OnePending'
  <1>1. CASE plan' = plan
    BY <1>1 DEF OnePending
  <1>2. CASE plan' = Nothing
    BY <1>2 DEF OnePending, Nothing
  <1>3. CASE Tick
    BY <1>3, TickPlan DEF OnePending
  <1>4. CASE WriteBackup
    BY <1>4 DEF WriteBackup, Shape, With, Nothing, OnePending
  <1>5. QED
    BY <1>1, <1>2, <1>3, <1>4
       DEF Next, vars, Ask, Work, World, ArmUserSave, ArmSystemSave, ArmBankWrite,
           ClearArmings, Disarm, CommitUserSave, CommitSystemSave, CommitBankWrite,
           Commit, Restore, PlanRead, ReadBlock, ReadFails, HeardEvent, CheckFresh,
           Cancel, SendBlock, SendFails, ReadBack, Verified, Differs, PanelStore,
           Restart, Fail

(* What is claimed of the area a command is working on.                    *)
OnArea == ReadIsCurrent /\ AboutToOverwrite /\ UndoOverwritesOnlyItsSave

(* Nothing is claimed when a pass begins or a command has ended.           *)
LEMMA FreshPass ==
    ASSUME NEW a, Visit(a, "read") \/ Visit(a, "file") PROVE OnArea'
  BY DEF Visit, OnArea, ReadIsCurrent, AboutToOverwrite, UndoOverwritesOnlyItsSave

LEMMA Ended == ASSUME Finish PROVE OnArea'
  BY DEF Finish, OnArea, ReadIsCurrent, AboutToOverwrite, UndoOverwritesOnlyItsSave

LEMMA OnAreaStep ==
    ASSUME TypeOK, Shape, OnArea, [Next]_vars PROVE OnArea'
  <1> USE DEF OnArea, ReadIsCurrent, AboutToOverwrite, UndoOverwritesOnlyItsSave
  <1>1. ASSUME NEW s \in Slots, ArmUserSave(s) PROVE OnArea'
    BY <1>1, FreshPass DEF ArmUserSave
  <1>2. ASSUME ArmSystemSave PROVE OnArea'
    BY <1>2, FreshPass DEF ArmSystemSave
  <1>3. ASSUME NEW C \in SUBSET Slots, ArmBankWrite(C) PROVE OnArea'
    <2>1. CASE cmd = "idle" /\ UNCHANGED <<opVars, touched>>
      BY <1>3, <2>1 DEF ArmBankWrite, opVars, Shape
    <2>2. QED BY <1>3, <2>1, FreshPass DEF ArmBankWrite
  <1>4. ASSUME PlanRead PROVE OnArea'
    BY <1>4, FreshPass DEF PlanRead
  <1>5. ASSUME WriteBackup PROVE OnArea'
    BY <1>5, Ended DEF WriteBackup
  <1>6. ASSUME NEW k \in Kinds, Disarm(k) PROVE OnArea'
    BY <1>6 DEF Disarm, opVars
  <1>7. ASSUME Tick PROVE OnArea'
    BY <1>7, TickPlan DEF Tick, opVars, Shape
  <1>8. ASSUME NEW k \in armed, NEW J, Commit(k, J) PROVE OnArea'
    <2>1. CASE UNCHANGED <<opVars, touched>>
      BY <1>8, <2>1 DEF Commit, opVars, Shape
    <2>2. QED BY <1>8, <2>1, FreshPass DEF Commit
  <1>9. ASSUME NEW k, Restore(k) PROVE OnArea'
    BY <1>9 DEF Restore, Begin, Visit, UndoFirst
  <1>10. ASSUME NEW r, Fail(r) PROVE OnArea'
    BY <1>10, Ended DEF Fail
  <1>11. ASSUME ReadBlock PROVE OnArea'
    <2>1. ASSUME touched = {}, NEW i \in 1..Len(got') PROVE got'[i] = mem[area][i]
      <3>1. CASE i = Len(got) + 1
        BY <1>11, <3>1 DEF ReadBlock, TypeOK
      <3>2. CASE i # Len(got) + 1
        BY <1>11, <2>1, <3>2 DEF ReadBlock, Reading, TypeOK
      <3>3. QED BY <3>1, <3>2
    <2>2. QED BY <1>11, <2>1 DEF ReadBlock, Reading
  <1>12. ASSUME HeardEvent PROVE OnArea'
    <2>1. CASE /\ got' = <<>>
               /\ UNCHANGED <<mem, disk, plan, armed, last, cmd, kind, phase, area,
                              asked, job, seen, sent, orig>>
      BY <1>12, <2>1 DEF HeardEvent, Reading
    <2>2. QED BY <1>12, <1>10, <2>1 DEF HeardEvent
  <1>13. ASSUME CheckFresh PROVE OnArea'
    <2>1. area \in Areas BY <1>13 DEF CheckFresh, Shape
    <2>2. CASE /\ StillAsExpected
               /\ phase' = "write"
               /\ UNCHANGED <<mem, disk, plan, armed, last, cmd, kind, area, asked,
                              job, seen, pass, touched, orig>>
      BY <1>13, <2>1, <2>2, CompletePass DEF CheckFresh, StillAsExpected, Expected
    <2>3. QED BY <1>13, <1>10, <2>2 DEF CheckFresh
  <1>14. ASSUME SendBlock PROVE OnArea'
    BY <1>14, ImageAssumption DEF SendBlock, TypeOK
  <1>15. ASSUME ReadBack PROVE OnArea'
    BY <1>15 DEF ReadBack
  <1>16. ASSUME Verified PROVE OnArea'
    BY <1>16, Ended, FreshPass DEF Verified
  <1>17. ASSUME NEW a \in Areas, NEW p \in PanelPatches, PanelStore(a, p)
         PROVE OnArea'
    <2>1. CASE a = area
      BY <1>17, <2>1 DEF PanelStore, opVars
    <2>2. CASE a # area
      <3>1. area \in Areas => mem'[area] = mem[area]
        BY <1>17, <2>2 DEF PanelStore, TypeOK
      <3>2. touched' = touched BY <1>17, <2>2 DEF PanelStore
      <3>3. QED BY <1>17, <3>1, <3>2 DEF PanelStore, opVars, Shape
    <2>3. QED BY <2>1, <2>2
  <1>18. ASSUME Restart PROVE OnArea'
    BY <1>18, Ended DEF Restart
  <1>19. ASSUME UNCHANGED vars PROVE OnArea'
    BY <1>19 DEF vars, opVars
  <1>20. QED
    BY <1>1, <1>2, <1>3, <1>4, <1>5, <1>6, <1>7, <1>8, <1>9, <1>10, <1>11, <1>12,
       <1>13, <1>14, <1>15, <1>16, <1>17, <1>18, <1>19
       DEF Next, Ask, Work, World, ReadFails, Cancel, SendFails, Differs,
           CommitUserSave, CommitSystemSave, CommitBankWrite, Commit

LEMMA OverwrittenStep ==
    ASSUME TypeOK, Shape, PlansAreBackedUp, AboutToOverwrite, OverwrittenIsBackedUp,
           [Next]_vars
    PROVE  OverwrittenIsBackedUp'
  <1>1. disk \subseteq disk'
    BY DEF Next, vars, Ask, Work, World, ArmUserSave, ArmSystemSave, ArmBankWrite,
           Disarm, CommitUserSave, CommitSystemSave, CommitBankWrite, Commit, Restore,
           PlanRead, WriteBackup, ReadBlock, ReadFails, HeardEvent, CheckFresh, Cancel,
           SendBlock, SendFails, ReadBack, Verified, Differs, Tick, PanelStore, Restart,
           Fail
  <1>2. CASE orig' = orig
    BY <1>1, <1>2 DEF OverwrittenIsBackedUp
  <1>3. ASSUME NEW a, orig' = Without(orig, a) PROVE OverwrittenIsBackedUp'
    BY <1>1, <1>3 DEF OverwrittenIsBackedUp, Without
  <1>4. CASE SendBlock /\ orig' # orig
    <2>1. /\ cmd = "commit" /\ phase = "write" /\ sent = 0 /\ touched = {}
          /\ orig' = With(orig, area, mem[area])
      BY <1>4 DEF SendBlock, Overwrites
    <2>2. mem[area] = plan[kind].backup[area]
      BY <2>1 DEF AboutToOverwrite
    <2>3. <<area, mem[area]>> \in disk
      BY <2>1, <2>2 DEF Shape, PlansAreBackedUp
    <2>4. QED
      BY <1>1, <2>1, <2>3 DEF OverwrittenIsBackedUp, With
  <1>5. QED
    BY <1>2, <1>3, <1>4
       DEF Next, vars, Ask, Work, World, ArmUserSave, ArmSystemSave, ArmBankWrite,
           Disarm, CommitUserSave, CommitSystemSave, CommitBankWrite, Commit, Restore,
           PlanRead, WriteBackup, ReadBlock, ReadFails, HeardEvent, CheckFresh, Cancel,
           SendFails, ReadBack, Verified, Differs, Tick, PanelStore, Restart, Fail

-----------------------------------------------------------------------------
LEMMA InitInv == ASSUME Init PROVE IInv
  <1>1. /\ IsPartial(last, SaveKinds, Attempt) /\ IsPartial(job, Areas, Image)
        /\ IsPartial(seen, Areas, Image) /\ IsPartial(orig, Areas, Image)
    BY NothingPartial DEF Init
  <1>2. DOMAIN plan = {} /\ plan = [k \in DOMAIN plan |-> plan[k]]
    BY DEF Init, Nothing
  <1>3. mem \in [Areas -> Image] BY ImageAssumption DEF Init
  <1>4. <<>> \in Seq(Value) /\ Len(<<>>) <= NBlocks BY ImageAssumption
  <1>5. TypeOK
    BY <1>1, <1>2, <1>3, <1>4, ImageAssumption
       DEF Init, TypeOK, Commands, Kinds, Phases
  <1>6. QED
    BY <1>2, <1>5
       DEF Init, IInv, Shape, OnePending, PlansAreBackedUp, ReadIsCurrent,
           AboutToOverwrite, UndoOverwritesOnlyItsSave, OverwrittenIsBackedUp, Nothing

(* IInv is an inductive invariant of the ceremony: it holds at the start   *)
(* and every step of the application, the instrument, the musician and the *)
(* clock keeps it.                                                         *)
THEOREM Inductive == Spec => []IInv
  <1>1. Init => IInv BY InitInv
  <1>2. IInv /\ [Next]_vars => IInv'
    BY TypeStep, ShapeStep, OnePendingStep, PlansStep, OnAreaStep, OverwrittenStep
       DEF IInv, OnArea
  <1>3. QED BY <1>1, <1>2, PTL DEF Spec

(* Every variable keeps to its type.                                       *)
THEOREM TypeCorrect == Spec => []TypeOK
  BY Inductive, PTL DEF IInv

(* Whatever a commit has begun to overwrite and has not verified can be    *)
(* put back from a file: commit_user_write, commit_user_bank and           *)
(* commit_system_write send their first message only to an area that still *)
(* holds what create_backup_file made durable.                             *)
THEOREM BackedUp == Spec => []OverwrittenIsBackedUp
  BY Inductive, PTL DEF IInv

(* restore_user_backup and restore_system_backup never write over a change *)
(* made since a save that succeeded.                                       *)
THEOREM UndoIsSafe == Spec => []UndoOverwritesOnlyItsSave
  BY Inductive, PTL DEF IInv

(* Arming one kind of write drops every other.                             *)
THEOREM OneWriteIsPending == Spec => []OnePending
  BY Inductive, PTL DEF IInv

-----------------------------------------------------------------------------
(* What a step may never do.                                               *)

(* A commit runs under an arming that is used up and had not expired, and  *)
(* reads an area back only when all of it was sent.                        *)
UnderWay ==
    /\ cmd = "commit" => /\ kind \notin armed
                         /\ plan[kind].age <= LifetimeOf(kind)
    /\ phase = "back" => sent = NBlocks

LEMMA UnderWayStep ==
    ASSUME IInv, UnderWay, [Next]_vars PROVE UnderWay'
  <1> USE DEF UnderWay
  <1>1. ASSUME NEW a, NEW A, NEW k,
               Begin("arm", k, A), Visit(a, "read")
        PROVE  UnderWay'
    BY <1>1 DEF Begin, Visit
  <1>2. CASE cmd = "idle" /\ UNCHANGED <<opVars, touched>>
    BY <1>2 DEF opVars, IInv, Shape
  <1>3. CASE Finish BY <1>3 DEF Finish
  <1>4. ASSUME NEW k \in armed, NEW J, Commit(k, J) PROVE UnderWay'
    <2>1. CASE UNCHANGED <<opVars, touched>>
      BY <1>4, <1>2, <2>1 DEF Commit
    <2>2. CASE ~Expired(k) /\ Begin("commit", k, DOMAIN J)
               /\ \E a \in DOMAIN J : Visit(a, "read")
      <3>1. plan[k].age <= LifetimeOf(k)
        BY <2>2, LifetimeAssumption
           DEF Expired, LifetimeOf, IInv, TypeOK, IsPlan, Age
      <3>2. QED BY <1>4, <2>2, <3>1 DEF Commit, Begin, Visit, LifetimeOf
    <2>3. QED BY <1>4, <2>1, <2>2 DEF Commit
  <1>5. ASSUME NEW k, Restore(k) PROVE UnderWay'
    BY <1>5 DEF Restore, Begin, Visit, UndoFirst
  <1>6. CASE Tick
    <2>1. cmd # "commit"
      BY <1>6 DEF Tick, IInv, TypeOK, Shape, OnePending
    <2>2. QED BY <1>6, <2>1 DEF Tick, opVars
  <1>7. CASE PlanRead
    BY <1>7 DEF PlanRead, Visit
  <1>8. CASE Verified
    BY <1>8, <1>3 DEF Verified, Visit, LifetimeOf
  <1>9. CASE SendBlock
    BY <1>9 DEF SendBlock, LifetimeOf
  <1>10. CASE ReadBack
    BY <1>10 DEF ReadBack, LifetimeOf
  <1>11. CASE CheckFresh
    BY <1>11, <1>3 DEF CheckFresh, Fail, LifetimeOf
  <1>12. CASE HeardEvent
    BY <1>12, <1>3 DEF HeardEvent, Fail, LifetimeOf
  <1>13. CASE ReadBlock
    BY <1>13 DEF ReadBlock, LifetimeOf
  <1>14. ASSUME NEW a, NEW p, PanelStore(a, p) PROVE UnderWay'
    BY <1>14 DEF PanelStore, opVars, LifetimeOf
  <1>15. CASE UNCHANGED vars BY <1>15 DEF vars, opVars, LifetimeOf
  <1>16. QED
    BY <1>1, <1>2, <1>3, <1>4, <1>5, <1>6, <1>7, <1>8, <1>9, <1>10, <1>11, <1>12,
       <1>13, <1>14, <1>15
       DEF Next, Ask, Work, World, ArmUserSave, ArmSystemSave, ArmBankWrite, Disarm,
           CommitUserSave, CommitSystemSave, CommitBankWrite, Commit, WriteBackup,
           ReadFails, Cancel, SendFails, Differs, Restart, Fail

LEMMA AllInvariants == Spec => [](IInv /\ UnderWay)
  <1>1. Init => UnderWay BY DEF Init, UnderWay
  <1>2. IInv /\ UnderWay /\ [Next]_vars => UnderWay' BY UnderWayStep
  <1>3. QED BY <1>1, <1>2, Inductive, PTL DEF Spec

(* What is reported as verified is what the instrument holds: read_user_   *)
(* slot, fetch_bank and read_system after the write read it.               *)
LEMMA VerifiedStep ==
    ASSUME IInv, Verified, touched = {} PROVE mem[area] = job[area]
  <1>1. area \in Areas BY DEF Verified, IInv, Shape
  <1>2. got = mem[area] BY <1>1, CompletePass DEF Verified, IInv
  <1>3. QED BY <1>2 DEF Verified, Matches

THEOREM Verification == Spec => VerifiedIsHeld
  BY Inductive, VerifiedStep, PTL DEF VerifiedIsHeld

(* A message of a commit goes only where the arming allows it.             *)
LEMMA ConfirmedStep ==
    ASSUME IInv, UnderWay, [Next]_vars, cmd = "commit", sent' = sent + 1
    PROVE  /\ area \in plan[kind].confirmed \cap DOMAIN plan[kind].backup
           /\ kind \notin armed
           /\ plan[kind].age <= LifetimeOf(kind)
  BY DEF UnderWay, IInv, Shape

THEOREM Confirmation == Spec => OnlyConfirmedIsWritten
  <1>1. IInv /\ UnderWay /\ [Next]_vars =>
           ((cmd = "commit" /\ sent' = sent + 1)
               => /\ area \in plan[kind].confirmed \cap DOMAIN plan[kind].backup
                  /\ kind \notin armed
                  /\ plan[kind].age <= LifetimeOf(kind))
    BY ConfirmedStep
  <1>2. QED BY <1>1, AllInvariants, PTL DEF Spec, OnlyConfirmedIsWritten

(* A bank write moves on only past a slot that verified.                   *)
LEMMA NextSlotStep ==
    ASSUME IInv, UnderWay, [Next]_vars, cmd = "commit", cmd' = "commit", area' # area
    PROVE  sent = NBlocks /\ area \notin DOMAIN orig'
  <1>1. CASE Verified
    BY <1>1 DEF Verified, UnderWay, Without
  <1>2. CASE Finish BY <1>2 DEF Finish
  <1>3. QED
    BY <1>1, <1>2
       DEF Next, vars, opVars, Ask, Work, World, ArmUserSave, ArmSystemSave,
           ArmBankWrite, Begin, Disarm, CommitUserSave, CommitSystemSave,
           CommitBankWrite, Commit, Restore, PlanRead, WriteBackup, ReadBlock,
           ReadFails, HeardEvent, CheckFresh, Cancel, SendBlock, SendFails, ReadBack,
           Differs, Tick, PanelStore, Restart, Fail

THEOREM OneSlot == Spec => OneSlotAtATime
  <1>1. IInv /\ UnderWay /\ [Next]_vars =>
           ((cmd = "commit" /\ cmd' = "commit" /\ area' # area)
               => sent = NBlocks /\ area \notin DOMAIN orig')
    BY NextSlotStep
  <1>2. QED BY <1>1, AllInvariants, PTL DEF Spec, OneSlotAtATime
=============================================================================
