-------------------------- MODULE BatchQueueProofs --------------------------
(***************************************************************************)
(* Theorems about the batch queue, for all operations, plans, schedulers   *)
(* and sessions.                                                           *)
(***************************************************************************)
EXTENDS BatchQueue, FiniteSetTheorems, TLAPS

-----------------------------------------------------------------------------
(* Types.                                                                  *)

Writes == [Ops -> Operation \cup {Nothing}]

\* A confirmation that has not been written yet completes the step before the
\* one its record points at.
ConfirmsAStep ==
    \A a \in Actors, o \in Ops :
        phase[a] = "confirm" /\ pend[a][o] # Nothing => pend[a][o].step \in Nat \ {0}

TypeInv == TypeOK /\ ConfirmsAStep

LEMMA SetStatusType ==
    ASSUME NEW r \in Operation, NEW s \in Status PROVE [r EXCEPT !.status = s] \in Operation
BY DEF Operation

LEMMA FreshType == \A o \in Ops : Fresh(o) \in Operation
BY QueueAssumption DEF Fresh, Operation, Status, AtGate, Terminal

LEMMA RequeuedType ==
    ASSUME NEW o \in Ops, NEW r \in Operation PROVE Requeued(o, r) \in Operation
BY QueueAssumption DEF Requeued, Operation, Status, AtGate, Terminal

\* What the scheduler puts into pend has the type of pend.
LEMMA SchedulerWritesType ==
    ASSUME TypeOK
    PROVE  /\ NoWrites \in Writes /\ RepairWrites \in Writes /\ DependencyWrites \in Writes
           /\ \A o \in Ops, r \in Operation : WriteOnly(o, r) \in Writes
<1>1. file \in [Ops -> Operation]
  BY DEF TypeOK
<1>2. NoWrites \in Writes
  BY DEF NoWrites, Writes
<1>3. RepairWrites \in Writes
  BY <1>1, RequeuedType DEF RepairWrites, Writes
<1>4. \A o \in Ops : [file[o] EXCEPT !.status = DependencyStatus(o)] \in Operation
  <2>1. \A o \in Ops : DependencyStatus(o) \in Status
    BY DEF DependencyStatus, Status, Terminal
  <2> QED
    BY <1>1, <2>1 DEF Operation
<1>5. DependencyWrites \in Writes
  BY <1>4 DEF DependencyWrites, Writes
<1>6. \A o \in Ops, r \in Operation : WriteOnly(o, r) \in Writes
  BY <1>2 DEF WriteOnly, Writes
<1> QED
  BY <1>2, <1>3, <1>5, <1>6

LEMMA PlaceType == ASSUME NEW o \in Ops, NEW p \in Ops PROVE Place(o, p) \in Nat \ {0}
<1> DEFINE Q == {q \in Peers(o) : Before(q, p)}
<1>1. IsFiniteSet(Q)
  BY QueueAssumption, FS_Subset DEF Peers
<1>2. Cardinality(Q) \in Nat
  BY <1>1, FS_CardinalityType
<1> QED
  BY <1>2 DEF Place

LEMMA MoveWriteType ==
    ASSUME TypeOK, NEW o \in Ops, NEW target \in Nat PROVE MoveWrite(o, target) \in Writes
<1>1. file \in [Ops -> Operation]
  BY DEF TypeOK
<1>2. \A p \in Ops : NewPlace(o, p, target) \in Nat
  BY PlaceType DEF NewPlace
<1>3. \A p \in Ops : [file[p] EXCEPT !.pos = NewPlace(o, p, target)] \in Operation
  BY <1>1, <1>2 DEF Operation
<1> QED
  BY <1>3 DEF MoveWrite, Writes, NoWrites

-----------------------------------------------------------------------------
(* What commands make of the files they have read.  All but a confirmation *)
(* leave the step where it is and neither complete an operation nor put it *)
(* at a gate.                                                              *)

Harmless(o, r) ==
    /\ r.step = file[o].step
    /\ r.status = "Completed" => file[o].status = "Completed"
    /\ r.status \in AtGate => file[o].status \in AtGate

Confirms(o, r) ==
    /\ file[o].status \in AtGate
    /\ r.step = file[o].step + 1
    /\ r.status \notin AtGate
    /\ r.status = "Completed" => r.step >= Len(Plan[o])

HarmlessWrites(writes) == \A o \in Ops : writes[o] # Nothing => Harmless(o, writes[o])
ConfirmWrites(writes) == \A o \in Ops : writes[o] # Nothing => Confirms(o, writes[o])

LEMMA WriteOnlyIs ==
    ASSUME NEW o \in Ops, NEW r
    PROVE  \A p \in Ops : WriteOnly(o, r)[p] = IF p = o THEN r ELSE Nothing
BY DEF WriteOnly, NoWrites

LEMMA SchedulerHarmless ==
    ASSUME TypeOK
    PROVE  HarmlessWrites(NoWrites) /\ HarmlessWrites(RepairWrites)
           /\ HarmlessWrites(DependencyWrites)
<1>1. \A o \in Ops : file[o] = [file[o] EXCEPT !.status = file[o].status] /\ file[o] \in Operation
  BY DEF TypeOK, Operation
<1>2. HarmlessWrites(NoWrites)
  BY DEF NoWrites, HarmlessWrites
<1>3. \A o \in Ops : Harmless(o, Requeued(o, file[o]))
  BY <1>1 DEF Requeued, Harmless, Operation, AtGate
<1>4. HarmlessWrites(RepairWrites)
  BY <1>3 DEF RepairWrites, HarmlessWrites
<1>5. ASSUME NEW o \in Ops
      PROVE  Harmless(o, [file[o] EXCEPT !.status = DependencyStatus(o)])
  <2>1. DependencyStatus(o) \in {"Failed", "Queued", "WaitingForDependency"}
    BY DEF DependencyStatus
  <2> QED
    BY <1>1, <2>1 DEF Harmless, Operation, AtGate
<1>6. HarmlessWrites(DependencyWrites)
  BY <1>5 DEF DependencyWrites, HarmlessWrites
<1> QED
  BY <1>2, <1>4, <1>6

\* Every command of a session is a read that ends in harmless writes or in the
\* writes of a confirmation.
LEMMA SessionReads ==
    ASSUME TypeOK, NEW u \in Sessions, SessionStep(u)
    PROVE  \E command, next, writes :
             /\ ReadFiles(u, command, next, writes) /\ writes \in Writes
             /\ \/ next \in {"write", "stop", "repair"} /\ HarmlessWrites(writes)
                \/ next = "confirm" /\ ConfirmWrites(writes)
<1>1. file \in [Ops -> Operation]
  BY DEF TypeOK
<1>2. NoWrites \in Writes /\ HarmlessWrites(NoWrites)
  BY SchedulerWritesType, SchedulerHarmless
<1>3. \A o \in Ops, r \in Operation : WriteOnly(o, r) \in Writes
  BY SchedulerWritesType
<1>4. \A o \in Ops, r \in Operation : Harmless(o, r) => HarmlessWrites(WriteOnly(o, r))
  BY WriteOnlyIs DEF HarmlessWrites
<1>5. CASE GetQueue(u)
  BY <1>5, SchedulerWritesType, SchedulerHarmless DEF GetQueue
<1>6. CASE SetBatchPriority(u)
  <2>1. PICK rank \in 0..2 : ReadFiles(u, "BatchPriority", "write", BatchPriorityWrite(rank))
    BY <1>6 DEF SetBatchPriority
  <2>2. \A o \in Ops : /\ [file[o] EXCEPT !.rank = rank] \in Operation
                       /\ Harmless(o, [file[o] EXCEPT !.rank = rank])
    BY <1>1 DEF Operation, Harmless
  <2>3. BatchPriorityWrite(rank) \in Writes /\ HarmlessWrites(BatchPriorityWrite(rank))
    BY <2>2 DEF BatchPriorityWrite, Writes, HarmlessWrites
  <2> QED
    BY <2>1, <2>3
<1>7. ASSUME NEW o \in Ops, Suspend(u, o) PROVE SuspendWrite(o) \in Writes /\ HarmlessWrites(SuspendWrite(o))
  <2> DEFINE r == [file[o] EXCEPT !.status = "Paused"]
  <2>1. r \in Operation /\ Harmless(o, r)
    BY <1>1 DEF Operation, Status, Harmless, AtGate
  <2>2. WriteOnly(o, r) \in Writes /\ HarmlessWrites(WriteOnly(o, r))
    BY <2>1, <1>3, <1>4
  <2> QED
    BY <2>2, <1>2 DEF SuspendWrite
<1>8. ASSUME NEW o \in Ops PROVE ResumeWrite(o) \in Writes /\ HarmlessWrites(ResumeWrite(o))
  <2> DEFINE r == [file[o] EXCEPT !.status = IF \A d \in Deps[o] : file[d].status = "Completed"
                                             THEN "Queued" ELSE "WaitingForDependency"]
  <2>1. r \in Operation /\ Harmless(o, r)
    BY <1>1 DEF Operation, Status, Harmless, AtGate
  <2>2. WriteOnly(o, r) \in Writes /\ HarmlessWrites(WriteOnly(o, r))
    BY <2>1, <1>3, <1>4
  <2> QED
    BY <2>2, <1>2 DEF ResumeWrite
<1>9. ASSUME NEW o \in Ops, NEW c \in BOOLEAN
      PROVE  StopWrite(o, c) \in Writes /\ HarmlessWrites(StopWrite(o, c))
  <2> DEFINE r1 == [file[o] EXCEPT !.cancel = TRUE, !.cleanup = c]
             r2 == [file[o] EXCEPT !.cancel = TRUE, !.cleanup = TRUE, !.status = "CleanupQueued"]
             r3 == [file[o] EXCEPT !.cancel = TRUE, !.status = "Cancelled"]
  <2>1. r1 \in Operation /\ Harmless(o, r1)
    BY <1>1 DEF Operation, Harmless
  <2>2. r2 \in Operation /\ Harmless(o, r2)
    BY <1>1 DEF Operation, Status, Harmless, AtGate
  <2>3. r3 \in Operation /\ Harmless(o, r3)
    BY <1>1 DEF Operation, Status, Terminal, Harmless, AtGate
  <2>4. \A r \in {r1, r2, r3} : WriteOnly(o, r) \in Writes /\ HarmlessWrites(WriteOnly(o, r))
    BY <2>1, <2>2, <2>3, <1>3, <1>4
  <2> QED
    BY <2>4, <1>2 DEF StopWrite
<1>10. ASSUME NEW o \in Ops, SetPriority(u, o)
       PROVE  \E writes \in Writes : HarmlessWrites(writes) /\ ReadFiles(u, "Priority", "write", writes)
  <2>1. PICK rank \in 0..2 : ReadFiles(u, "Priority", "write", PriorityWrite(o, rank))
    BY <1>10 DEF SetPriority
  <2> DEFINE r == [file[o] EXCEPT !.rank = rank, !.overridden = TRUE]
  <2>2. r \in Operation /\ Harmless(o, r) /\ file[o] \in Operation /\ Harmless(o, file[o])
    BY <1>1 DEF Operation, Harmless
  <2>3. PriorityWrite(o, rank) \in Writes /\ HarmlessWrites(PriorityWrite(o, rank))
    BY <2>2, <1>3, <1>4 DEF PriorityWrite
  <2> QED
    BY <2>1, <2>3
<1>11. ASSUME NEW o \in Ops, Move(u, o)
       PROVE  \E writes \in Writes : HarmlessWrites(writes) /\ ReadFiles(u, "Move", "write", writes)
  <2>1. PICK target \in 1..Cardinality(Peers(o)) : ReadFiles(u, "Move", "write", MoveWrite(o, target))
    BY <1>11 DEF Move
  <2>2. \A p \in Ops : Harmless(p, [file[p] EXCEPT !.pos = NewPlace(o, p, target)])
    BY <1>1 DEF Operation, Harmless
  <2>3. HarmlessWrites(MoveWrite(o, target))
    BY <2>2, <1>2 DEF MoveWrite, HarmlessWrites
  <2>4. MoveWrite(o, target) \in Writes
    BY <2>1, MoveWriteType
  <2> QED
    BY <2>1, <2>3, <2>4
<1>12. ASSUME NEW o \in Ops PROVE WriteOnly(o, file[o]) \in Writes /\ HarmlessWrites(WriteOnly(o, file[o]))
  BY <1>1, <1>3, <1>4 DEF Harmless
<1>13. ASSUME NEW o \in Ops, file[o].status \in AtGate, NEW s \in AtGate
       PROVE  LET r == [file[o] EXCEPT !.status = s]
              IN  WriteOnly(o, r) \in Writes /\ HarmlessWrites(WriteOnly(o, r))
  <2>1. [file[o] EXCEPT !.status = s] \in Operation /\ Harmless(o, [file[o] EXCEPT !.status = s])
    BY <1>1, <1>13 DEF Operation, Status, Harmless, AtGate
  <2> QED
    BY <2>1, <1>3, <1>4
<1>14. ASSUME NEW o \in Ops, Confirm(u, o)
       PROVE  LET w == WriteOnly(o, ConfirmedRecord(o))
              IN  w \in Writes /\ ConfirmWrites(w)
  <2>1. file[o].status \in AtGate /\ file[o].step \in Nat
    BY <1>1, <1>14 DEF Confirm, Operation
  <2>2. PICK s \in {"Completed", "Queued"} :
          /\ ConfirmedRecord(o) = [file[o] EXCEPT !.step = @ + 1, !.status = s]
          /\ s = "Completed" => file[o].step + 1 >= Len(Plan[o])
    BY DEF ConfirmedRecord
  <2>3. ConfirmedRecord(o) \in Operation
    <3>1. s \in Status
      BY DEF Status, Terminal
    <3>2. [file[o] EXCEPT !.step = @ + 1] \in Operation
      BY <1>1, <2>1 DEF Operation
    <3>3. ConfirmedRecord(o) = [[file[o] EXCEPT !.step = @ + 1] EXCEPT !.status = s]
      BY <2>2, <1>1 DEF Operation
    <3> QED
      BY <3>1, <3>2, <3>3, SetStatusType
  <2>4. Confirms(o, ConfirmedRecord(o))
    BY <1>1, <2>1, <2>2 DEF Confirms, Operation, AtGate
  <2> QED
    BY <2>3, <2>4, <1>3, WriteOnlyIs DEF ConfirmWrites
<1>15. SUFFICES ASSUME ~GetQueue(u), ~SetBatchPriority(u)
                PROVE  \E command, next, writes :
                         /\ ReadFiles(u, command, next, writes) /\ writes \in Writes
                         /\ \/ next \in {"write", "stop", "repair"} /\ HarmlessWrites(writes)
                            \/ next = "confirm" /\ ConfirmWrites(writes)
  BY <1>5, <1>6
<1>16. PICK o \in Ops : \/ Suspend(u, o) \/ Resume(u, o) \/ Stop(u, o) \/ StopCleanup(u, o)
                        \/ SetPriority(u, o) \/ Move(u, o) \/ SetAttention(u, o)
                        \/ Probe(u, o) \/ Confirm(u, o)
  BY <1>15 DEF SessionStep
<1>17. CASE Suspend(u, o)
  BY <1>17, <1>7 DEF Suspend
<1>18. CASE Resume(u, o)
  BY <1>18, <1>8 DEF Resume
<1>19. CASE Stop(u, o) \/ StopCleanup(u, o)
  BY <1>19, <1>9 DEF Stop, StopCleanup
<1>20. CASE SetAttention(u, o)
  BY <1>20, <1>12 DEF SetAttention
<1>21. CASE Probe(u, o)
  BY <1>21, <1>13 DEF Probe, ProbeResults
<1>22. CASE Confirm(u, o)
  <2>1. file[o].status \in AtGate
    BY <1>22 DEF Confirm
  <2>2. "WaitingForUser" \in AtGate
    BY DEF AtGate
  <2> QED
    BY <1>22, <1>14, <1>13, <2>1, <2>2 DEF Confirm
<1> QED
  BY <1>10, <1>11, <1>16, <1>17, <1>18, <1>19, <1>20, <1>21, <1>22

\* What the scheduler puts into pend: nothing new about steps either.
LEMMA SelectWrites ==
    ASSUME TypeOK, NEW h \in Hosts, NEW S \in SUBSET Ops
    PROVE  LET w == [o \in Ops |-> IF o \in S THEN Claim(h, file[o]) ELSE Nothing]
           IN  w \in Writes /\ HarmlessWrites(w)
<1>1. ASSUME NEW o \in Ops
      PROVE  Claim(h, file[o]) \in Operation /\ Harmless(o, Claim(h, file[o]))
  <2>1. file[o] \in Operation
    BY DEF TypeOK
  <2>2. Claim(h, file[o]) \in Operation
    BY <2>1 DEF Claim, Operation, Status
  <2>3. Harmless(o, Claim(h, file[o]))
    BY <2>1 DEF Claim, Operation, Harmless, AtGate
  <2> QED
    BY <2>2, <2>3
<1> QED
  BY <1>1 DEF Writes, HarmlessWrites

LEMMA CheckWrites ==
    ASSUME TypeOK, NEW S \in SUBSET Ops
    PROVE  LET w == [o \in Ops |-> IF o \in S /\ file[o].status = "Running"
                                   THEN Requeued(o, file[o]) ELSE Nothing]
           IN  w \in Writes /\ HarmlessWrites(w)
<1>1. \A o \in Ops : Requeued(o, file[o]) \in Operation /\ Harmless(o, Requeued(o, file[o]))
  <2>1. \A o \in Ops : file[o] \in Operation
    BY DEF TypeOK
  <2> QED
    BY <2>1, RequeuedType DEF Requeued, Operation, Harmless, AtGate
<1> QED
  BY <1>1 DEF Writes, HarmlessWrites

LEMMA ProbeWrites ==
    ASSUME TypeOK, NEW o \in Ops, file[o].status \in AtGate, NEW r \in ProbeResults(o)
    PROVE  WriteOnly(o, r) \in Writes /\ HarmlessWrites(WriteOnly(o, r))
<1>1. PICK s \in AtGate : r = [file[o] EXCEPT !.status = s]
  BY DEF ProbeResults
<1>2. file[o] \in Operation /\ s \in Status
  BY DEF TypeOK, Status
<1>3. r \in Operation
  BY <1>1, <1>2, SetStatusType
<1>4. Harmless(o, r)
  BY <1>1, <1>2 DEF Operation, Harmless, AtGate
<1> QED
  BY <1>3, <1>4, SchedulerWritesType, WriteOnlyIs DEF HarmlessWrites

\* Every action but the execution of a job and the writing of a file changes
\* neither a file nor the history, and gives at most one actor new writes.
Plans(a) ==
    \E writes \in Writes :
       /\ pend' = [pend EXCEPT ![a] = writes]
       /\ UNCHANGED <<file, history>>
       /\ \/ HarmlessWrites(writes) /\ phase' \in {[phase EXCEPT ![a] = p] : p \in Phase \ {"confirm"}}
          \/ ConfirmWrites(writes) /\ phase' = [phase EXCEPT ![a] = "confirm"]

\* A step that only moves an actor, with nothing left to write, to its next phase.
Advances(a) ==
    /\ Idle(a) /\ UNCHANGED <<file, pend, history>>
    /\ phase' \in {[phase EXCEPT ![a] = p] : p \in Phase \ {"confirm"}}

LEMMA SchedulerPlans ==
    ASSUME TypeOK, NEW h \in Hosts, SchedulerStep(h)
    PROVE  Plans(h) \/ Advances(h)
<1>1. CASE BeginSelection(h)
  BY <1>1, SchedulerWritesType, SchedulerHarmless DEF BeginSelection, Plans, Phase
<1>2. CASE Select(h)
  <2>1. PICK S \in SUBSET Candidates :
          pend' = [pend EXCEPT ![h] = [o \in Ops |-> IF o \in S THEN Claim(h, file[o]) ELSE Nothing]]
    BY <1>2 DEF Select
  <2>2. S \in SUBSET Ops
    BY DEF Candidates
  <2>3. phase' = [phase EXCEPT ![h] = "claim"] /\ UNCHANGED <<file, history>>
    BY <1>2 DEF Select
  <2> QED
    BY <2>1, <2>2, <2>3, SelectWrites DEF Plans, Phase
<1>3. CASE StartJobs(h)
  BY <1>3 DEF StartJobs, Advances, Phase
<1>4. CASE CheckJobs(h)
  <2>1. claimed[h] \in SUBSET Ops
    BY DEF TypeOK
  <2>2. /\ pend' = [pend EXCEPT ![h] =
                     [o \in Ops |-> IF o \in claimed[h] /\ file[o].status = "Running"
                                    THEN Requeued(o, file[o]) ELSE Nothing]]
        /\ phase' = [phase EXCEPT ![h] = "check"] /\ UNCHANGED <<file, history>>
    BY <1>4 DEF CheckJobs
  <2> QED
    BY <2>1, <2>2, CheckWrites DEF Plans, Phase
<1>5. CASE EndRound(h)
  BY <1>5 DEF EndRound, Advances, Phase
<1>6. CASE HostProbe(h)
  <2>1. PICK o \in Ops : /\ file[o].status \in AtGate
                        /\ \E r \in ProbeResults(o) : pend' = [pend EXCEPT ![h] = WriteOnly(o, r)]
    BY <1>6 DEF HostProbe
  <2>2. phase' = [phase EXCEPT ![h] = "probe"] /\ UNCHANGED <<file, history>>
    BY <1>6 DEF HostProbe
  <2> QED
    BY <2>1, <2>2, ProbeWrites DEF Plans, Phase
<1>7. CASE NextRound(h)
  BY <1>7 DEF NextRound, Advances, Phase
<1> QED
  BY <1>1, <1>2, <1>3, <1>4, <1>5, <1>6, <1>7 DEF SchedulerStep

LEMMA SessionPlans ==
    ASSUME TypeOK, NEW u \in Sessions, SessionStep(u)
    PROVE  Plans(u)
<1>1. PICK command, next, writes :
          /\ ReadFiles(u, command, next, writes) /\ writes \in Writes
          /\ \/ next \in {"write", "stop", "repair"} /\ HarmlessWrites(writes)
             \/ next = "confirm" /\ ConfirmWrites(writes)
  BY SessionReads
<1> QED
  BY <1>1 DEF ReadFiles, Plans, Phase

LEMMA CommandPlans ==
    ASSUME TypeOK, NEW a \in Actors, UpdateDependencies(a) \/ EndCommand(a)
    PROVE  Plans(a) \/ Advances(a)
<1>1. CASE UpdateDependencies(a)
  BY <1>1, SchedulerWritesType, SchedulerHarmless DEF UpdateDependencies, Plans, Phase
<1>2. CASE EndCommand(a)
  BY <1>2 DEF EndCommand, Advances, Phase
<1> QED
  BY <1>1, <1>2

-----------------------------------------------------------------------------
(* The type invariant.                                                     *)

LEMMA PlansType ==
    ASSUME TypeInv, NEW a \in Actors, Plans(a)
    PROVE  /\ pend' \in [Actors -> Writes] /\ phase' \in [Actors -> Phase]
           /\ file' \in [Ops -> Operation] /\ UNCHANGED history /\ ConfirmsAStep'
<1>1. PICK writes \in Writes :
         /\ pend' = [pend EXCEPT ![a] = writes]
         /\ UNCHANGED <<file, history>>
         /\ \/ HarmlessWrites(writes) /\ phase' \in {[phase EXCEPT ![a] = p] : p \in Phase \ {"confirm"}}
            \/ ConfirmWrites(writes) /\ phase' = [phase EXCEPT ![a] = "confirm"]
  BY DEF Plans
<1>2. pend \in [Actors -> Writes] /\ phase \in [Actors -> Phase] /\ file \in [Ops -> Operation]
  BY DEF TypeInv, TypeOK, Writes
<1>3. pend' \in [Actors -> Writes] /\ phase' \in [Actors -> Phase] /\ file' \in [Ops -> Operation]
  BY <1>1, <1>2 DEF Phase
<1>4. ASSUME NEW b \in Actors, NEW o \in Ops, phase'[b] = "confirm", pend'[b][o] # Nothing
      PROVE  pend'[b][o].step \in Nat \ {0}
  <2>1. CASE b # a
    BY <1>1, <1>2, <1>4, <2>1 DEF TypeInv, ConfirmsAStep
  <2>2. CASE b = a
    <3>1. ConfirmWrites(writes) /\ pend'[b][o] = writes[o]
      BY <1>1, <1>2, <1>4, <2>2
    <3>2. writes[o].step = file[o].step + 1 /\ file[o].step \in Nat
      BY <3>1, <1>2, <1>4 DEF ConfirmWrites, Confirms, Operation
    <3> QED
      BY <3>1, <3>2
  <2> QED
    BY <2>1, <2>2
<1> QED
  BY <1>1, <1>3, <1>4 DEF ConfirmsAStep

LEMMA AdvancesType ==
    ASSUME TypeInv, NEW a \in Actors, Advances(a)
    PROVE  /\ pend' \in [Actors -> Writes] /\ phase' \in [Actors -> Phase]
           /\ file' \in [Ops -> Operation] /\ UNCHANGED history /\ ConfirmsAStep'
<1>1. pend \in [Actors -> Writes] /\ phase \in [Actors -> Phase] /\ file \in [Ops -> Operation]
  BY DEF TypeInv, TypeOK, Writes
<1>2. phase' \in [Actors -> Phase]
  BY <1>1 DEF Advances, Phase
<1>3. ConfirmsAStep'
  BY <1>1 DEF Advances, TypeInv, ConfirmsAStep
<1> QED
  BY <1>1, <1>2, <1>3 DEF Advances

LEMMA TypeStep == ASSUME TypeInv, [Next]_vars PROVE TypeInv'
<1>1. TypeOK /\ ConfirmsAStep
  BY DEF TypeInv
<1>2. ASSUME NEW h \in Hosts, StartHost(h) PROVE TypeInv'
  BY <1>1, <1>2 DEF StartHost, TypeInv, TypeOK, ConfirmsAStep, bounds, history
<1>3. ASSUME NEW h \in Hosts, Crash(h) PROVE TypeInv'
  <2>1. /\ mem' \in [Hosts -> [Ops -> Operation]] /\ job' \in [Hosts -> [Ops -> JobState]]
        /\ proc' \in [Hosts -> {"new", "up", "dead"}] /\ claimed' \in [Hosts -> SUBSET Ops]
        /\ mutex' \in Hosts \cup {NoHost}
    BY <1>1, <1>3, FreshType DEF Crash, TypeOK, JobState
  <2>2. pend' \in [Actors -> Writes] /\ phase' \in [Actors -> Phase]
    BY <1>1, <1>3, SchedulerWritesType DEF Crash, TypeOK, Phase, Actors, Writes
  <2>3. ConfirmsAStep'
    BY <1>1, <1>3 DEF Crash, ConfirmsAStep, TypeOK, Actors, NoWrites
  <2> QED
    BY <1>1, <1>3, <2>1, <2>2, <2>3 DEF Crash, TypeInv, TypeOK, Writes, bounds, history
<1>4. ASSUME NEW h \in Hosts, SchedulerStep(h) PROVE TypeInv'
  <2>1. h \in Actors
    BY DEF Actors
  <2>2. /\ pend' \in [Actors -> Writes] /\ phase' \in [Actors -> Phase]
        /\ file' \in [Ops -> Operation] /\ UNCHANGED history /\ ConfirmsAStep'
    BY <1>1, <1>4, <2>1, SchedulerPlans, PlansType, AdvancesType DEF TypeInv
  <2>3. /\ proc' = proc /\ mem' = mem /\ UNCHANGED bounds
        /\ mutex' \in Hosts \cup {NoHost}
        /\ claimed' \in [Hosts -> SUBSET Ops]
        /\ job' \in [Hosts -> [Ops -> JobState]]
    <3>1. CASE Select(h)
      BY <1>1, <3>1 DEF Select, TypeOK, Candidates, bounds
    <3>2. CASE BeginSelection(h) \/ CheckJobs(h) \/ HostProbe(h) \/ NextRound(h)
      BY <1>1, <3>2 DEF BeginSelection, CheckJobs, HostProbe, NextRound, TypeOK, bounds
    <3>3. CASE StartJobs(h)
      BY <1>1, <3>3 DEF StartJobs, TypeOK, JobState, bounds
    <3>4. CASE EndRound(h)
      BY <1>1, <3>4 DEF EndRound, TypeOK, bounds
    <3> QED
      BY <1>4, <3>1, <3>2, <3>3, <3>4 DEF SchedulerStep
  <2> QED
    BY <1>1, <2>2, <2>3 DEF TypeInv, TypeOK, Writes, bounds, history
<1>5. ASSUME NEW h \in Hosts, NEW o \in Ops, JobStep(h, o) PROVE TypeInv'
  <2>1. file[o] \in Operation /\ mem[h][o] \in Operation
    BY <1>1 DEF TypeOK
  <2>2. PICK r \in Operation, m \in Operation, next \in JobState :
          /\ file' = [file EXCEPT ![o] = r]
          /\ mem' = [mem EXCEPT ![h][o] = m]
          /\ job' = [job EXCEPT ![h][o] = next]
    <3>1. CASE JobStart(h, o)
      <4>1. /\ [file[o] EXCEPT !.status = "Running"] \in Operation
            /\ Claim(h, file[o]) \in Operation
        BY <2>1 DEF Claim, Operation, Status
      <4> QED
        BY <3>1, <4>1 DEF JobStart, SaveAndGoOn, JobState
    <3>2. CASE JobBeginStep(h, o)
      BY <3>2, <2>1 DEF JobBeginStep, SaveAndGoOn, JobState
    <3>3. CASE JobStepDone(h, o)
      <4>1. [mem[h][o] EXCEPT !.step = @ + 1] \in Operation
        BY <2>1 DEF Operation
      <4> QED
        BY <3>3, <4>1 DEF JobStepDone, SaveAndGoOn, JobState
    <3>4. CASE JobCleanup(h, o)
      <4>1. [mem[h][o] EXCEPT !.status = "Cancelled"] \in Operation
        BY <2>1, SetStatusType DEF Status, Terminal
      <4> QED
        BY <3>4, <4>1 DEF JobCleanup, SaveAndSummarize, SaveAndGoOn, JobState
    <3>5. CASE JobCancel(h, o)
      <4>1. [mem[h][o] EXCEPT !.status = "CleanupQueued", !.cleanup = TRUE] \in Operation
        BY <2>1 DEF Operation, Status
      <4> QED
        BY <3>5, <4>1 DEF JobCancel, SaveAndSummarize, SaveAndGoOn, JobState
    <3>6. CASE JobUserGate(h, o) \/ JobFail(h, o) \/ JobComplete(h, o)
      <4>1. \A s \in {"WaitingForUser", "Failed", "Completed"} :
               [mem[h][o] EXCEPT !.status = s, !.owner = NoHost] \in Operation
        BY <2>1 DEF Operation, Status, AtGate, Terminal
      <4> QED
        BY <3>6, <4>1, FreshType
        DEF JobUserGate, JobFail, JobComplete, SaveAndSummarize, SaveAndGoOn, EndJob, JobState
    <3>7. CASE JobSummary(h, o)
      <4>1. file' = [file EXCEPT ![o] = file[o]]
        BY <1>1, <3>7 DEF JobSummary, TypeOK
      <4> QED
        BY <3>7, <4>1, <2>1, FreshType DEF JobSummary, EndJob, JobState
    <3> QED
      BY <1>5, <3>1, <3>2, <3>3, <3>4, <3>5, <3>6, <3>7 DEF JobStep
  <2>3. /\ file' \in [Ops -> Operation] /\ mem' \in [Hosts -> [Ops -> Operation]]
        /\ job' \in [Hosts -> [Ops -> JobState]]
    BY <1>1, <2>2 DEF TypeOK
  <2>4. UNCHANGED <<proc, mutex, phase, pend, claimed, issued, aborts>> /\ errors' \in Nat
    BY <1>1, <1>5 DEF JobStep, JobFail, TypeOK, bounds
  <2>5. done' \in [Ops -> SUBSET Nat] /\ finished' \subseteq Ops /\ stopped' \subseteq Ops
    <3>1. CASE JobStepDone(h, o)
      BY <3>1, <1>1, <2>1 DEF JobStepDone, TypeOK, Operation
    <3>2. CASE JobComplete(h, o)
      BY <3>2, <1>1 DEF JobComplete, TypeOK
    <3>3. CASE UNCHANGED history
      BY <3>3, <1>1 DEF history, TypeOK
    <3> QED
      BY <1>5, <3>1, <3>2, <3>3
      DEF JobStep, JobStart, JobCleanup, JobCancel, JobBeginStep, JobUserGate, JobFail, JobSummary
  <2> QED
    BY <1>1, <2>3, <2>4, <2>5 DEF TypeInv, TypeOK, ConfirmsAStep
<1>6. ASSUME NEW h \in Hosts, NEW o \in Ops, JobAbort(h, o) PROVE TypeInv'
  <2>1. Fresh(o) \in Operation
    BY FreshType
  <2>2. /\ mem' \in [Hosts -> [Ops -> Operation]] /\ job' \in [Hosts -> [Ops -> JobState]]
        /\ aborts' \in Nat
    BY <1>1, <1>6, <2>1 DEF JobAbort, EndJob, TypeOK, JobState
  <2> QED
    BY <1>1, <1>6, <2>2 DEF JobAbort, TypeInv, TypeOK, ConfirmsAStep, history
<1>7. ASSUME NEW u \in Sessions, SessionStep(u) PROVE TypeInv'
  <2>1. u \in Actors
    BY DEF Actors
  <2>2. /\ pend' \in [Actors -> Writes] /\ phase' \in [Actors -> Phase]
        /\ file' \in [Ops -> Operation] /\ UNCHANGED history /\ ConfirmsAStep'
    BY <1>1, <1>7, <2>1, SessionPlans, PlansType DEF TypeInv
  <2>3. UNCHANGED <<proc, mutex, claimed, job, mem, aborts, errors>> /\ issued' = issued + 1
    BY <1>1, <1>7, SessionReads DEF ReadFiles
  <2> QED
    BY <1>1, <2>2, <2>3 DEF TypeInv, TypeOK, Writes, history
<1>8. ASSUME NEW a \in Actors, UpdateDependencies(a) \/ EndCommand(a) PROVE TypeInv'
  <2>1. /\ pend' \in [Actors -> Writes] /\ phase' \in [Actors -> Phase]
        /\ file' \in [Ops -> Operation] /\ UNCHANGED history /\ ConfirmsAStep'
    BY <1>1, <1>8, CommandPlans, PlansType, AdvancesType DEF TypeInv
  <2>2. UNCHANGED <<proc, mutex, claimed, job, mem, bounds>>
    BY <1>8 DEF UpdateDependencies, EndCommand
  <2> QED
    BY <1>1, <2>1, <2>2 DEF TypeInv, TypeOK, Writes, bounds, history
<1>9. ASSUME NEW a \in Actors, NEW o \in Ops, WriteFile(a, o) PROVE TypeInv'
  <2>1. pend[a] \in [Ops -> Operation \cup {Nothing}] /\ pend[a][o] \in Operation
    BY <1>1, <1>9 DEF WriteFile, TypeOK
  <2>2. file' \in [Ops -> Operation]
    BY <1>1, <1>9, <2>1 DEF WriteFile, TypeOK
  <2>3. pend' \in [Actors -> Writes] /\ ConfirmsAStep'
    <3>1. pend' \in [Actors -> Writes]
      BY <1>1, <1>9, <2>1 DEF WriteFile, TypeOK, Writes
    <3>2. \A b \in Actors, p \in Ops : pend'[b][p] = IF b = a /\ p = o THEN Nothing ELSE pend[b][p]
      BY <1>1, <1>9 DEF WriteFile, TypeOK
    <3> QED
      BY <1>1, <1>9, <3>1, <3>2 DEF WriteFile, ConfirmsAStep
  <2>4. done' \in [Ops -> SUBSET Nat]
    <3>1. CASE phase[a] = "confirm"
      <4>1. pend[a][o].step - 1 \in Nat
        BY <1>1, <1>9, <2>1, <3>1 DEF ConfirmsAStep, WriteFile
      <4> QED
        BY <1>1, <1>9, <3>1, <4>1 DEF WriteFile, TypeOK
    <3>2. CASE phase[a] # "confirm"
      BY <1>1, <1>9, <3>2 DEF WriteFile, TypeOK
    <3> QED
      BY <3>1, <3>2
  <2>5. finished' \subseteq Ops /\ stopped' \subseteq Ops
    BY <1>1, <1>9 DEF WriteFile, TypeOK
  <2>6. UNCHANGED <<proc, mutex, phase, claimed, job, mem, bounds>>
    BY <1>9 DEF WriteFile
  <2> QED
    BY <1>1, <2>2, <2>3, <2>4, <2>5, <2>6 DEF TypeInv, TypeOK, Writes, bounds
<1>10. ASSUME NEW a \in Actors, CommandFails(a) PROVE TypeInv'
  <2>1. pend' \in [Actors -> Writes] /\ phase' \in [Actors -> Phase]
    BY <1>1, <1>10, SchedulerWritesType DEF CommandFails, TypeOK, Phase, Writes
  <2>2. claimed' \in [Hosts -> SUBSET Ops] /\ mutex' \in Hosts \cup {NoHost} /\ errors' \in Nat
    BY <1>1, <1>10 DEF CommandFails, TypeOK
  <2>3. ConfirmsAStep'
    BY <1>1, <1>10 DEF CommandFails, ConfirmsAStep, TypeOK, NoWrites
  <2> QED
    BY <1>1, <1>10, <2>1, <2>2, <2>3 DEF CommandFails, TypeInv, TypeOK, Writes, history
<1>11. CASE UNCHANGED vars
  BY <1>1, <1>11 DEF vars, TypeInv, TypeOK, ConfirmsAStep
<1> QED
  BY <1>2, <1>3, <1>4, <1>5, <1>6, <1>7, <1>8, <1>9, <1>10, <1>11 DEF Next, CommandStep

\* Every variable keeps its type, in every behaviour of the queue.
THEOREM TypeCorrect == Spec => []TypeOK
<1>1. Init => TypeInv
  BY FreshType, QueueAssumption
  DEF Init, TypeInv, TypeOK, ConfirmsAStep, NoWrites, Phase, JobState
<1>2. TypeInv /\ [Next]_vars => TypeInv'
  BY TypeStep
<1>3. TypeInv => TypeOK
  BY DEF TypeInv
<1> QED
  BY <1>1, <1>2, <1>3, PTL DEF Spec

-----------------------------------------------------------------------------
(* The order of steps.  Every copy of an operation, on disk, in a job or on *)
(* its way to the disk, points at a step whose predecessors are completed: *)
(* a stale copy is behind, never ahead.                                    *)

Covered(o, n) == \A k \in 0..(n - 1) : k \in done[o]

RecordOK(o, r) ==
    /\ Covered(o, r.step)
    /\ r.status = "Completed" => r.step >= Len(Plan[o])
    /\ r.status \in AtGate => r.step < Len(Plan[o])

\* The record of a confirmation is one step ahead until it is written.
ConfirmOK(o, r) ==
    /\ Covered(o, r.step - 1) /\ r.step - 1 < Len(Plan[o])
    /\ r.status \notin AtGate
    /\ r.status = "Completed" => r.step >= Len(Plan[o])

FilesOK == \A o \in Ops : RecordOK(o, file[o])
JobsOK ==
    \A h \in Hosts, o \in Ops :
        /\ RecordOK(o, mem[h][o])
        /\ job[h][o] \in {"boundary", "step", "cleanup"} => mem[h][o].status = "Running"
        /\ job[h][o] = "step" => mem[h][o].step < Len(Plan[o])
PendingOK ==
    \A a \in Actors, o \in Ops : pend[a][o] # Nothing =>
        IF phase[a] = "confirm" THEN ConfirmOK(o, pend[a][o]) ELSE RecordOK(o, pend[a][o])

StepInv == FilesOK /\ JobsOK /\ PendingOK

LEMMA LenType == \A o \in Ops : Len(Plan[o]) \in Nat
BY QueueAssumption

LEMMA FreshOK == \A o \in Ops : RecordOK(o, Fresh(o))
BY LenType DEF Fresh, RecordOK, Covered, AtGate

\* Completing steps spoils no record.
LEMMA RecordsKept ==
    ASSUME \A o \in Ops : done[o] \subseteq done'[o]
    PROVE  \A o \in Ops, r \in Operation :
             (RecordOK(o, r) => RecordOK(o, r)') /\ (ConfirmOK(o, r) => ConfirmOK(o, r)')
BY DEF RecordOK, ConfirmOK, Covered

LEMMA FilesKept == ASSUME TypeOK, StepInv, UNCHANGED <<file, done>> PROVE FilesOK'
BY DEF StepInv, FilesOK, RecordOK, Covered

LEMMA JobsKept == ASSUME TypeOK, StepInv, UNCHANGED <<job, mem, done>> PROVE JobsOK'
BY DEF StepInv, JobsOK, RecordOK, Covered

LEMMA PendingKept == ASSUME TypeOK, StepInv, UNCHANGED <<pend, phase, done>> PROVE PendingOK'
BY DEF StepInv, PendingOK, RecordOK, ConfirmOK, Covered

LEMMA PlansPending ==
    ASSUME TypeInv, StepInv, NEW a \in Actors, Plans(a) PROVE FilesOK' /\ PendingOK' /\ UNCHANGED history
<1>1. PICK writes \in Writes :
         /\ pend' = [pend EXCEPT ![a] = writes]
         /\ UNCHANGED <<file, history>>
         /\ \/ HarmlessWrites(writes) /\ phase' \in {[phase EXCEPT ![a] = p] : p \in Phase \ {"confirm"}}
            \/ ConfirmWrites(writes) /\ phase' = [phase EXCEPT ![a] = "confirm"]
  BY DEF Plans
<1>2. pend \in [Actors -> Writes] /\ phase \in [Actors -> Phase] /\ TypeOK
  BY DEF TypeInv, TypeOK, Writes
<1>3. UNCHANGED <<file, done>> /\ done' = done /\ file \in [Ops -> Operation]
  BY <1>1, <1>2 DEF history, TypeOK
<1>4. FilesOK'
  BY <1>2, <1>3, FilesKept
<1>5. ASSUME NEW b \in Actors, NEW o \in Ops, pend'[b][o] # Nothing
      PROVE  IF phase'[b] = "confirm" THEN ConfirmOK(o, pend'[b][o]) ELSE RecordOK(o, pend'[b][o])
  <2>1. CASE b # a
    <3>1. pend'[b] = pend[b] /\ phase'[b] = phase[b]
      BY <1>1, <1>2, <2>1
    <3> QED
      BY <3>1, <1>5 DEF StepInv, PendingOK
  <2>2. CASE b = a /\ HarmlessWrites(writes) /\ phase'[a] # "confirm"
    <3>1. Harmless(o, pend'[a][o])
      BY <1>1, <1>2, <1>5, <2>2 DEF HarmlessWrites
    <3>2. RecordOK(o, pend'[a][o])
      BY <3>1 DEF Harmless, StepInv, FilesOK, RecordOK
    <3> QED
      BY <2>2, <3>2
  <2>3. CASE b = a /\ ConfirmWrites(writes) /\ phase'[a] = "confirm"
    <3>1. Confirms(o, pend'[a][o]) /\ file[o].step \in Nat /\ Len(Plan[o]) \in Nat
      BY <1>1, <1>2, <1>3, <1>5, <2>3, LenType DEF ConfirmWrites, Operation
    <3>2. ConfirmOK(o, pend'[a][o])
      BY <3>1 DEF Confirms, StepInv, FilesOK, RecordOK, ConfirmOK
    <3> QED
      BY <2>3, <3>2
  <2> QED
    BY <1>1, <1>2, <2>1, <2>2, <2>3 DEF Phase
<1>6. PendingOK'
  BY <1>3, <1>5 DEF PendingOK, RecordOK, ConfirmOK, Covered
<1> QED
  BY <1>1, <1>4, <1>6

LEMMA AdvancesPending ==
    ASSUME TypeInv, StepInv, NEW a \in Actors, Advances(a)
    PROVE  FilesOK' /\ PendingOK' /\ UNCHANGED history
<1>1. phase \in [Actors -> Phase] /\ TypeOK /\ UNCHANGED <<file, done>> /\ done' = done
  BY DEF TypeInv, TypeOK, Advances, history
<1>2. FilesOK'
  BY <1>1, FilesKept
<1>3. PendingOK'
  BY <1>1 DEF Advances, Idle, StepInv, PendingOK, NoWrites, RecordOK, ConfirmOK, Covered
<1> QED
  BY <1>2, <1>3 DEF Advances

\* A job writes, and keeps, records it may: what it has read, or that moved on
\* by the step it has executed.
LEMMA JobStepOK ==
    ASSUME TypeInv, StepInv, NEW h \in Hosts, NEW o \in Ops, JobStep(h, o) PROVE StepInv'
<1>1. file[o] \in Operation /\ mem[h][o] \in Operation /\ TypeOK
  BY DEF TypeInv, TypeOK
<1>2. RecordOK(o, file[o]) /\ RecordOK(o, mem[h][o])
  BY DEF StepInv, FilesOK, JobsOK
<1>3. \A p \in Ops : done[p] \subseteq done'[p]
  <2>1. done \in [Ops -> SUBSET Nat]
    BY <1>1 DEF TypeOK
  <2>2. CASE JobStepDone(h, o)
    BY <2>1, <2>2 DEF JobStepDone
  <2>3. CASE UNCHANGED done
    BY <2>3
  <2> QED
    BY <2>2, <2>3
    DEF JobStep, JobStart, JobCleanup, JobCancel, JobBeginStep, JobUserGate, JobFail, JobComplete, JobSummary,
        history
<1>4. \A p \in Ops, r \in Operation :
         (RecordOK(p, r) => RecordOK(p, r)') /\ (ConfirmOK(p, r) => ConfirmOK(p, r)')
  BY <1>3, RecordsKept
<1>5. PICK r \in Operation, m \in Operation, next \in JobState :
         /\ file' = [file EXCEPT ![o] = r] /\ RecordOK(o, r)'
         /\ mem' = [mem EXCEPT ![h][o] = m] /\ RecordOK(o, m)'
         /\ job' = [job EXCEPT ![h][o] = next]
         /\ next \in {"boundary", "step", "cleanup"} => m.status = "Running"
         /\ next = "step" => m.step < Len(Plan[o])
  <2>0. RecordOK(o, Fresh(o))' /\ Fresh(o) \in Operation /\ "off" \in JobState
    BY <1>4, FreshOK, FreshType DEF JobState
  <2>1. CASE JobStart(h, o)
    <3>1. PICK r \in {[file[o] EXCEPT !.status = "Running"], Claim(h, file[o])},
               next \in {"cleanup", "boundary"} : SaveAndGoOn(h, o, r, next)
      BY <2>1 DEF JobStart
    <3>2. r \in Operation
      BY <1>1, <3>1 DEF Claim, Operation, Status
    <3>3. RecordOK(o, r)
      BY <1>1, <1>2, <3>1 DEF Claim, Operation, RecordOK, AtGate
    <3>4. r.status = "Running"
      BY <1>1, <3>1 DEF Claim, Operation
    <3> QED
      BY <1>4, <3>1, <3>2, <3>3, <3>4 DEF SaveAndGoOn, JobState
  <2>2. CASE JobBeginStep(h, o)
    BY <1>1, <1>2, <1>4, <2>2 DEF JobBeginStep, SaveAndGoOn, StepInv, JobsOK, JobState
  <2>3. CASE JobStepDone(h, o)
    <3>0. /\ mem[h][o].step \in Nat /\ [mem[h][o] EXCEPT !.step = @ + 1] \in Operation
          /\ [mem[h][o] EXCEPT !.step = @ + 1].step = mem[h][o].step + 1
          /\ [mem[h][o] EXCEPT !.step = @ + 1].status = mem[h][o].status
      BY <1>1 DEF Operation
    <3>1. PICK r \in Operation :
            /\ r = [mem[h][o] EXCEPT !.step = @ + 1] /\ r.step = mem[h][o].step + 1
            /\ r.status = mem[h][o].status /\ mem[h][o].step \in Nat
      BY <3>0, Zenon
    <3>2. r.status = "Running"
      BY <2>3, <3>1 DEF JobStepDone, StepInv, JobsOK
    <3>3. done'[o] = done[o] \cup {mem[h][o].step}
      BY <1>1, <2>3 DEF JobStepDone, TypeOK
    <3>4. RecordOK(o, r)'
      BY <1>2, <3>1, <3>2, <3>3 DEF RecordOK, Covered, AtGate
    <3>5. SaveAndGoOn(h, o, r, "boundary")
      BY <2>3, <3>1 DEF JobStepDone
    <3> QED
      BY <3>1, <3>2, <3>4, <3>5 DEF SaveAndGoOn, JobState
  <2>4. ASSUME NEW r \in Operation, r.step = mem[h][o].step, SaveAndSummarize(h, o, r),
               r.status = "Completed" => mem[h][o].step >= Len(Plan[o]),
               r.status \in AtGate => mem[h][o].step < Len(Plan[o])
        PROVE  /\ file' = [file EXCEPT ![o] = r] /\ RecordOK(o, r)'
               /\ mem' = [mem EXCEPT ![h][o] = r]
               /\ job' = [job EXCEPT ![h][o] = "summary"] /\ "summary" \in JobState
    <3>1. RecordOK(o, r)
      BY <1>2, <2>4 DEF RecordOK
    <3> QED
      BY <1>4, <2>4, <3>1 DEF SaveAndSummarize, SaveAndGoOn, JobState
  <2>5. CASE JobCleanup(h, o)
    <3>0. /\ [mem[h][o] EXCEPT !.status = "Cancelled"] \in Operation
          /\ [mem[h][o] EXCEPT !.status = "Cancelled"].step = mem[h][o].step
          /\ [mem[h][o] EXCEPT !.status = "Cancelled"].status = "Cancelled"
      BY <1>1 DEF Operation, Status, Terminal
    <3>1. PICK r \in Operation : /\ r = [mem[h][o] EXCEPT !.status = "Cancelled"]
                                 /\ r.step = mem[h][o].step /\ r.status = "Cancelled"
      BY <3>0, Zenon
    <3>2. SaveAndSummarize(h, o, r)
      BY <2>5, <3>1 DEF JobCleanup
    <3>3. /\ file' = [file EXCEPT ![o] = r] /\ RecordOK(o, r)'
          /\ mem' = [mem EXCEPT ![h][o] = r]
          /\ job' = [job EXCEPT ![h][o] = "summary"] /\ "summary" \in JobState
      BY <2>4, <3>1, <3>2 DEF AtGate
    <3> QED
      BY <3>3
  <2>6. CASE JobCancel(h, o)
    <3>0. /\ [mem[h][o] EXCEPT !.status = "CleanupQueued", !.cleanup = TRUE] \in Operation
          /\ [mem[h][o] EXCEPT !.status = "CleanupQueued", !.cleanup = TRUE].step = mem[h][o].step
          /\ [mem[h][o] EXCEPT !.status = "CleanupQueued", !.cleanup = TRUE].status = "CleanupQueued"
      BY <1>1 DEF Operation, Status
    <3>1. PICK r \in Operation : /\ r = [mem[h][o] EXCEPT !.status = "CleanupQueued", !.cleanup = TRUE]
                                 /\ r.step = mem[h][o].step /\ r.status = "CleanupQueued"
      BY <3>0, Zenon
    <3>2. SaveAndSummarize(h, o, r)
      BY <2>6, <3>1 DEF JobCancel
    <3>3. /\ file' = [file EXCEPT ![o] = r] /\ RecordOK(o, r)'
          /\ mem' = [mem EXCEPT ![h][o] = r]
          /\ job' = [job EXCEPT ![h][o] = "summary"] /\ "summary" \in JobState
      BY <2>4, <3>1, <3>2 DEF AtGate
    <3> QED
      BY <3>3
  <2>7. CASE JobUserGate(h, o) \/ JobComplete(h, o)
    <3>1. PICK s \in {"WaitingForUser", "Completed"} :
            /\ SaveAndSummarize(h, o, [mem[h][o] EXCEPT !.status = s, !.owner = NoHost])
            /\ s = "WaitingForUser" => job[h][o] = "step"
            /\ s = "Completed" => mem[h][o].step >= Len(Plan[o])
      BY <2>7 DEF JobUserGate, JobComplete
    <3>0. [mem[h][o] EXCEPT !.status = s, !.owner = NoHost] \in Operation /\ [mem[h][o] EXCEPT !.status = s, !.owner = NoHost].step = mem[h][o].step /\ [mem[h][o] EXCEPT !.status = s, !.owner = NoHost].status = s
      BY <1>1 DEF Operation, Status, AtGate, Terminal
    <3>2. PICK r \in Operation : /\ r = [mem[h][o] EXCEPT !.status = s, !.owner = NoHost]
                                 /\ r.step = mem[h][o].step /\ r.status = s
      BY <3>0, Zenon
    <3>3. s \in AtGate => mem[h][o].step < Len(Plan[o])
      BY <3>1 DEF AtGate, StepInv, JobsOK
    <3>4. /\ file' = [file EXCEPT ![o] = r] /\ RecordOK(o, r)'
          /\ mem' = [mem EXCEPT ![h][o] = r]
          /\ job' = [job EXCEPT ![h][o] = "summary"] /\ "summary" \in JobState
      BY <2>4, <3>1, <3>2, <3>3
    <3> QED
      BY <3>4
  <2>8. CASE JobFail(h, o)
    <3>0. /\ [mem[h][o] EXCEPT !.status = "Failed", !.owner = NoHost] \in Operation
          /\ [mem[h][o] EXCEPT !.status = "Failed", !.owner = NoHost].step = mem[h][o].step
          /\ [mem[h][o] EXCEPT !.status = "Failed", !.owner = NoHost].status = "Failed"
      BY <1>1 DEF Operation, Status, Terminal
    <3>1. PICK r \in Operation : /\ file' = [file EXCEPT ![o] = r]
                                 /\ r.step = mem[h][o].step /\ r.status = "Failed"
      BY <2>8, <3>0 DEF JobFail
    <3>2. RecordOK(o, r)
      BY <1>2, <3>1 DEF RecordOK, AtGate
    <3> QED
      BY <1>4, <2>0, <2>8, <3>1, <3>2 DEF JobFail, EndJob
  <2>9. CASE JobSummary(h, o)
    <3>1. file' = [file EXCEPT ![o] = file[o]] /\ RecordOK(o, file[o])'
      BY <1>1, <1>2, <1>4, <2>9 DEF JobSummary, TypeOK
    <3> QED
      BY <1>1, <2>0, <2>9, <3>1 DEF JobSummary, EndJob
  <2> QED
    BY <2>1, <2>2, <2>3, <2>5, <2>6, <2>7, <2>8, <2>9 DEF JobStep
<1>6. FilesOK'
  BY <1>1, <1>4, <1>5 DEF StepInv, FilesOK, TypeOK
<1>7. JobsOK'
  <2> SUFFICES ASSUME NEW g \in Hosts, NEW p \in Ops
               PROVE  /\ RecordOK(p, mem[g][p])'
                      /\ job'[g][p] \in {"boundary", "step", "cleanup"} => mem'[g][p].status = "Running"
                      /\ job'[g][p] = "step" => mem'[g][p].step < Len(Plan[p])
    BY DEF JobsOK
  <2>1. CASE g = h /\ p = o
    <3>1. mem'[g][p] = m /\ job'[g][p] = next
      BY <1>1, <1>5, <2>1 DEF TypeOK
    <3> QED
      BY <1>5, <2>1, <3>1
  <2>2. CASE ~(g = h /\ p = o)
    <3>1. mem'[g][p] = mem[g][p] /\ job'[g][p] = job[g][p] /\ mem[g][p] \in Operation
      BY <1>1, <1>5, <2>2 DEF TypeOK
    <3> QED
      BY <1>4, <3>1 DEF StepInv, JobsOK
  <2> QED
    BY <2>1, <2>2
<1>8. PendingOK'
  <2>1. UNCHANGED <<pend, phase>>
    BY DEF JobStep, JobFail
  <2>2. \A a \in Actors, p \in Ops : pend[a][p] # Nothing => pend[a][p] \in Operation
    BY <1>1 DEF TypeOK
  <2> QED
    BY <1>4, <2>1, <2>2 DEF StepInv, PendingOK
<1> QED
  BY <1>6, <1>7, <1>8 DEF StepInv

\* A pending record replaces a file; if it is a confirmation, its step is
\* completed with it.
LEMMA WriteFileOK ==
    ASSUME TypeInv, StepInv, NEW a \in Actors, NEW o \in Ops, WriteFile(a, o)
    PROVE  /\ StepInv'
           /\ phase[a] = "confirm" =>
                /\ pend[a][o].step \in Nat \ {0} /\ ConfirmOK(o, pend[a][o])
                /\ done' = [done EXCEPT ![o] = @ \cup {pend[a][o].step - 1}]
<1>1. TypeOK /\ pend[a][o] # Nothing /\ pend[a][o] \in Operation
  BY DEF TypeInv, TypeOK, WriteFile
<1>2. phase[a] = "confirm" =>
        /\ pend[a][o].step \in Nat \ {0} /\ ConfirmOK(o, pend[a][o])
        /\ done' = [done EXCEPT ![o] = @ \cup {pend[a][o].step - 1}]
  BY <1>1 DEF TypeInv, ConfirmsAStep, WriteFile, StepInv, PendingOK
<1>3. \A p \in Ops : done[p] \subseteq done'[p]
  BY <1>1 DEF WriteFile, TypeOK
<1>4. \A p \in Ops, r \in Operation :
         (RecordOK(p, r) => RecordOK(p, r)') /\ (ConfirmOK(p, r) => ConfirmOK(p, r)')
  BY <1>3, RecordsKept
<1>5. PICK r \in Operation : r = pend[a][o] /\ file' = [file EXCEPT ![o] = r]
  BY <1>1 DEF WriteFile
<1>6. RecordOK(o, r)'
  <2>1. CASE phase[a] = "confirm"
    <3>1. /\ Covered(o, r.step - 1) /\ r.step \in Nat \ {0}
          /\ r.status \notin AtGate /\ (r.status = "Completed" => r.step >= Len(Plan[o]))
      BY <1>2, <1>5, <2>1 DEF ConfirmOK
    <3>2. done'[o] = done[o] \cup {r.step - 1}
      BY <1>1, <1>2, <1>5, <2>1 DEF TypeOK
    <3> QED
      BY <3>1, <3>2 DEF RecordOK, Covered
  <2>2. CASE phase[a] # "confirm"
    <3>1. RecordOK(o, r)
      BY <1>1, <1>5, <2>2 DEF StepInv, PendingOK
    <3> QED
      BY <1>4, <3>1
  <2> QED
    BY <2>1, <2>2
<1>7. FilesOK'
  <2>1. file \in [Ops -> Operation]
    BY <1>1 DEF TypeOK
  <2> QED
    BY <1>4, <1>5, <1>6, <2>1 DEF StepInv, FilesOK
<1>8. JobsOK'
  <2>1. UNCHANGED <<job, mem>> /\ \A h \in Hosts, p \in Ops : mem[h][p] \in Operation
    BY <1>1 DEF WriteFile, TypeOK
  <2> QED
    BY <1>4, <2>1 DEF StepInv, JobsOK
<1>9. PendingOK'
  <2>1. \A b \in Actors, p \in Ops : pend[b][p] # Nothing => pend[b][p] \in Operation
    BY <1>1 DEF TypeOK
  <2>2. /\ phase' = phase
        /\ \A b \in Actors, p \in Ops : pend'[b][p] = IF b = a /\ p = o THEN Nothing ELSE pend[b][p]
    BY <1>1 DEF WriteFile, TypeOK
  <2> QED
    BY <1>4, <2>1, <2>2 DEF StepInv, PendingOK
<1> QED
  BY <1>2, <1>7, <1>8, <1>9 DEF StepInv

\* Jobs that end or die leave a fresh copy behind.
LEMMA JobsEnd ==
    ASSUME TypeInv, StepInv, UNCHANGED done,
           \A h \in Hosts, o \in Ops :
               \/ mem'[h][o] = mem[h][o] /\ job'[h][o] \in {job[h][o], "off", "new"}
               \/ mem'[h][o] = Fresh(o) /\ job'[h][o] = "off"
    PROVE  JobsOK'
<1>1. \A o \in Ops : \A r : RecordOK(o, r) = (RecordOK(o, r))'
  BY DEF RecordOK, Covered
<1> QED
  BY FreshOK, <1>1 DEF StepInv, JobsOK, RecordOK, Covered

LEMMA StepInvStep == ASSUME TypeInv, StepInv, [Next]_vars PROVE StepInv'
<1>1. TypeOK
  BY DEF TypeInv
<1>2. ASSUME NEW h \in Hosts, StartHost(h) PROVE StepInv'
  BY <1>1, <1>2, FilesKept, JobsKept, PendingKept DEF StartHost, StepInv, history
<1>3. ASSUME NEW h \in Hosts, Crash(h) PROVE StepInv'
  <2>1. JobsOK'
    BY <1>1, <1>3, JobsEnd DEF Crash, TypeOK, history
  <2>2. FilesOK'
    BY <1>1, <1>3, FilesKept DEF Crash, history
  <2>3. \A a \in Actors : \/ pend'[a] = NoWrites
                          \/ pend'[a] = pend[a] /\ phase'[a] = phase[a]
    BY <1>1, <1>3 DEF Crash, TypeOK
  <2>4. PendingOK'
    BY <1>3, <2>3 DEF Crash, history, StepInv, PendingOK, NoWrites, RecordOK, ConfirmOK, Covered
  <2> QED
    BY <2>1, <2>2, <2>4 DEF StepInv
<1>4. ASSUME NEW h \in Hosts, SchedulerStep(h) PROVE StepInv'
  <2>1. FilesOK' /\ PendingOK' /\ UNCHANGED done
    BY <1>1, <1>4, SchedulerPlans, PlansPending, AdvancesPending DEF Actors, history
  <2>2. \A g \in Hosts, o \in Ops : mem'[g][o] = mem[g][o] /\ job'[g][o] \in {job[g][o], "off", "new"}
    <3>1. CASE StartJobs(h)
      BY <1>1, <3>1 DEF StartJobs, TypeOK
    <3> QED
      BY <1>4, <3>1 DEF SchedulerStep, BeginSelection, Select, CheckJobs, EndRound, HostProbe, NextRound
  <2> QED
    BY <2>1, <2>2, JobsEnd DEF StepInv
<1>5. ASSUME NEW h \in Hosts, NEW o \in Ops, JobAbort(h, o) PROVE StepInv'
  <2>1. JobsOK'
    BY <1>1, <1>5, JobsEnd DEF JobAbort, EndJob, TypeOK, history
  <2> QED
    BY <1>1, <1>5, <2>1, FilesKept, PendingKept DEF JobAbort, StepInv, history
<1>6. ASSUME NEW u \in Sessions, SessionStep(u) PROVE StepInv'
  <2>1. FilesOK' /\ PendingOK' /\ UNCHANGED done
    BY <1>1, <1>6, SessionPlans, PlansPending DEF Actors, history
  <2>2. UNCHANGED <<job, mem>>
    BY <1>1, <1>6, SessionReads DEF ReadFiles
  <2> QED
    BY <1>1, <2>1, <2>2, JobsKept DEF StepInv
<1>7. ASSUME NEW a \in Actors, UpdateDependencies(a) \/ EndCommand(a) PROVE StepInv'
  <2>1. FilesOK' /\ PendingOK' /\ UNCHANGED done
    BY <1>1, <1>7, CommandPlans, PlansPending, AdvancesPending DEF history
  <2>2. UNCHANGED <<job, mem>>
    BY <1>7 DEF UpdateDependencies, EndCommand
  <2> QED
    BY <1>1, <2>1, <2>2, JobsKept DEF StepInv
<1>8. ASSUME NEW a \in Actors, CommandFails(a) PROVE StepInv'
  <2>1. FilesOK' /\ JobsOK'
    BY <1>1, <1>8, FilesKept, JobsKept DEF CommandFails, history
  <2>2. \A b \in Actors : \/ pend'[b] = NoWrites
                          \/ pend'[b] = pend[b] /\ phase'[b] = phase[b]
    BY <1>1, <1>8 DEF CommandFails, TypeOK
  <2>3. PendingOK'
    BY <1>8, <2>2
    DEF CommandFails, history, StepInv, PendingOK, NoWrites, RecordOK, ConfirmOK, Covered
  <2> QED
    BY <2>1, <2>3 DEF StepInv
<1>9. CASE UNCHANGED vars
  BY <1>1, <1>9, FilesKept, JobsKept, PendingKept DEF vars, StepInv
<1> QED
  BY <1>2, <1>3, <1>4, <1>5, <1>6, <1>7, <1>8, <1>9, JobStepOK, WriteFileOK DEF Next, CommandStep

LEMMA InitOK == Init => TypeInv /\ StepInv
<1> SUFFICES ASSUME Init PROVE TypeInv /\ StepInv
  OBVIOUS
<1>1. TypeInv
  BY FreshType, QueueAssumption
  DEF Init, TypeInv, TypeOK, ConfirmsAStep, NoWrites, Phase, JobState
<1>2. StepInv
  BY FreshOK DEF Init, StepInv, FilesOK, JobsOK, PendingOK, NoWrites
<1> QED
  BY <1>1, <1>2

\* However commands, crashes and stale writes are interleaved, no step of an
\* operation begins before its predecessors are completed, and a Completed
\* operation has completed its whole plan.
THEOREM StepsAreInOrder == Spec => []StepsInOrder
<1>1. TypeInv /\ StepInv /\ [Next]_vars => (TypeInv /\ StepInv)'
  BY TypeStep, StepInvStep
<1>2. TypeInv /\ StepInv => StepsInOrder
  <2> SUFFICES ASSUME TypeInv, StepInv PROVE StepsInOrder
    OBVIOUS
  <2>1. \A o \in Ops : file[o].step \in Nat
    BY DEF TypeInv, TypeOK, Operation
  <2> QED
    BY <2>1, LenType DEF StepsInOrder, StepInv, FilesOK, JobsOK, RecordOK, Covered
<1> QED
  BY InitOK, <1>1, <1>2, PTL DEF Spec

-----------------------------------------------------------------------------
(* The queue implements the step log: a job's completed step, a written    *)
(* confirmation and the completion of an operation are its steps, and      *)
(* everything else stutters.                                               *)

LEMMA LogJobStep ==
    ASSUME TypeInv, StepInv, NEW h \in Hosts, NEW o \in Ops, JobStep(h, o)
    PROVE  [Log!Next]_<<done, finished>>
<1>1. /\ mem[h][o] \in Operation /\ mem[h][o].step \in Nat /\ Len(Plan[o]) \in Nat
      /\ RecordOK(o, mem[h][o])
  BY LenType DEF TypeInv, TypeOK, Operation, StepInv, JobsOK
<1>2. CASE JobStepDone(h, o)
  <2>1. mem[h][o].step \in Log!StepsOf(o)
    BY <1>1, <1>2 DEF JobStepDone, StepInv, JobsOK, Log!StepsOf
  <2>2. Log!CompleteStep(o, mem[h][o].step) /\ UNCHANGED finished
    BY <1>1, <1>2, <2>1 DEF JobStepDone, RecordOK, Covered, Log!CompleteStep
  <2> QED
    BY <2>1, <2>2 DEF Log!Next
<1>3. CASE JobComplete(h, o)
  <2>1. UNCHANGED done /\ Log!CompleteOperation(o)
    BY <1>1, <1>3 DEF JobComplete, RecordOK, Covered, Log!CompleteOperation, Log!StepsOf
  <2> QED
    BY <2>1 DEF Log!Next
<1>4. CASE UNCHANGED history
  BY <1>4 DEF history
<1> QED
  BY <1>2, <1>3, <1>4
  DEF JobStep, JobStart, JobCleanup, JobCancel, JobBeginStep, JobUserGate, JobFail, JobSummary

LEMMA LogWriteFile ==
    ASSUME TypeInv, StepInv, NEW a \in Actors, NEW o \in Ops, WriteFile(a, o)
    PROVE  [Log!Next]_<<done, finished>>
<1>1. CASE phase[a] = "confirm"
  <2> DEFINE k == pend[a][o].step - 1
  <2>1. /\ pend[a][o].step \in Nat \ {0} /\ ConfirmOK(o, pend[a][o]) /\ Len(Plan[o]) \in Nat
        /\ done' = [done EXCEPT ![o] = @ \cup {k}] /\ done \in [Ops -> SUBSET Nat]
    BY <1>1, WriteFileOK, LenType DEF TypeInv, TypeOK
  <2>2. k \in Log!StepsOf(o)
    BY <2>1 DEF ConfirmOK, Log!StepsOf
  <2>3. Log!CompleteStep(o, k)
    BY <2>1, <2>2 DEF ConfirmOK, Covered, Log!CompleteStep
  <2>4. CASE pend[a][o].status = "Completed"
    <3>1. \A i \in Log!StepsOf(o) : i \in 0..(k - 1) \/ i = k
      BY <2>1, <2>2, <2>4 DEF ConfirmOK, Log!StepsOf
    <3>2. \A i \in Log!StepsOf(o) : i \in done'[o]
      BY <2>1, <3>1 DEF ConfirmOK, Covered
    <3>3. Log!CompleteOperation(o)
      BY <1>1, <2>4, <3>2 DEF WriteFile, Log!CompleteOperation
    <3> QED
      BY <2>2, <2>3, <3>3 DEF Log!Next
  <2>5. CASE pend[a][o].status # "Completed"
    <3>1. UNCHANGED finished
      BY <2>5 DEF WriteFile
    <3> QED
      BY <2>2, <2>3, <3>1 DEF Log!Next
  <2> QED
    BY <2>4, <2>5
<1>2. CASE phase[a] # "confirm"
  BY <1>2 DEF WriteFile
<1> QED
  BY <1>1, <1>2

LEMMA LogStep == ASSUME TypeInv, StepInv, [Next]_vars PROVE [Log!Next]_<<done, finished>>
<1>1. TypeOK
  BY DEF TypeInv
<1>2. ASSUME NEW h \in Hosts, StartHost(h) \/ Crash(h) PROVE UNCHANGED history
  BY <1>2 DEF StartHost, Crash
<1>3. ASSUME NEW h \in Hosts, SchedulerStep(h) PROVE UNCHANGED history
  BY <1>3 DEF SchedulerStep, BeginSelection, Select, StartJobs, CheckJobs, EndRound, HostProbe, NextRound
<1>4. ASSUME NEW h \in Hosts, NEW o \in Ops, JobAbort(h, o) PROVE UNCHANGED history
  BY <1>4 DEF JobAbort
<1>5. ASSUME NEW u \in Sessions, SessionStep(u) PROVE UNCHANGED history
  BY <1>1, <1>5, SessionReads DEF ReadFiles
<1>6. ASSUME NEW a \in Actors, UpdateDependencies(a) \/ EndCommand(a) \/ CommandFails(a)
      PROVE  UNCHANGED history
  BY <1>6 DEF UpdateDependencies, EndCommand, CommandFails
<1>7. CASE UNCHANGED vars
  BY <1>7 DEF vars, history
<1> QED
  BY <1>2, <1>3, <1>4, <1>5, <1>6, <1>7, LogJobStep, LogWriteFile DEF Next, CommandStep, history

\* Nothing that happens to files, processes and commands completes a step early,
\* leaves one out, or completes an operation without its steps.
THEOREM QueueImplementsStepLog == Spec => ImplementsStepLog
<1>1. Init => Log!Init
  BY DEF Init, Log!Init
<1>2. TypeInv /\ StepInv /\ [Next]_vars => (TypeInv /\ StepInv)'
  BY TypeStep, StepInvStep
<1>3. TypeInv /\ StepInv /\ [Next]_vars => [Log!Next]_<<done, finished>>
  BY LogStep
<1> QED
  BY InitOK, <1>1, <1>2, <1>3, PTL DEF Spec, ImplementsStepLog, Log!Spec

-----------------------------------------------------------------------------
(* Exclusion.  A job runs in a living process, in the round in which that   *)
(* process selected its operation; with the host lease there is one such   *)
(* process, and a selection is compatible with itself.                     *)

OneHost == SingleHost => \A g, h \in Hosts : proc[g] = "up" /\ proc[h] = "up" => g = h
RoundsLive == \A h \in Hosts : phase[h] # "idle" => proc[h] = "up"
JobsInRound ==
    \A h \in Hosts, o \in Ops : job[h][o] # "off" => phase[h] = "run" /\ o \in claimed[h]
ClaimsCompatible ==
    \A h \in Hosts : \A o, p \in claimed[h] : o # p => Compatible(o, p)

RoundInv == OneHost /\ RoundsLive /\ JobsInRound /\ ClaimsCompatible

LEMMA CompatibleSymmetric ==
    ASSUME NEW o \in Ops, NEW p \in Ops, Compatible(o, p) PROVE Compatible(p, o)
BY DEF Compatible

LEMMA BeforeTotal ==
    ASSUME TypeOK, NEW o \in Ops, NEW p \in Ops, o # p PROVE Before(o, p) \/ Before(p, o)
<1>0. file[o] \in Operation /\ file[p] \in Operation
  BY DEF TypeOK
<1>1. /\ file[o].rank \in Nat /\ file[p].rank \in Nat
      /\ file[o].pos \in Nat /\ file[p].pos \in Nat
  BY <1>0 DEF Operation
<1>2. Created[o] \in Nat /\ Created[p] \in Nat /\ Created[o] # Created[p]
  BY QueueAssumption
<1> QED
  BY <1>1, <1>2 DEF Before

LEMMA SelectionCompatible ==
    ASSUME TypeOK, NEW S \in SUBSET Candidates, IsSelection(S)
    PROVE  \A o, p \in S : o # p => Compatible(o, p)
<1>1. ASSUME NEW o \in S, NEW p \in S, Before(o, p) PROVE Compatible(o, p)
  <2>1. Fits(p, {s \in S : Before(s, p)})
    BY DEF IsSelection
  <2> QED
    BY <1>1, <2>1 DEF Fits
<1>2. S \subseteq Ops
  BY DEF Candidates
<1> QED
  BY <1>1, <1>2, BeforeTotal, CompatibleSymmetric

LEMMA RoundStep == ASSUME TypeInv, RoundInv, [Next]_vars PROVE RoundInv'
<1>1. /\ proc \in [Hosts -> {"new", "up", "dead"}] /\ phase \in [Actors -> Phase]
      /\ claimed \in [Hosts -> SUBSET Ops] /\ job \in [Hosts -> [Ops -> JobState]]
      /\ Hosts \subseteq Actors /\ TypeOK
  BY DEF TypeInv, TypeOK, Actors
<1>2. ASSUME NEW h \in Hosts, StartHost(h) PROVE RoundInv'
  <2>1. OneHost'
    BY <1>1, <1>2 DEF StartHost, OneHost
  <2>2. RoundsLive'
    BY <1>1, <1>2 DEF StartHost, RoundInv, RoundsLive
  <2> QED
    BY <1>2, <2>1, <2>2 DEF StartHost, RoundInv, JobsInRound, ClaimsCompatible, Compatible
<1>3. ASSUME NEW h \in Hosts, Crash(h) PROVE RoundInv'
  <2>1. OneHost' /\ RoundsLive'
    BY <1>1, <1>3 DEF Crash, RoundInv, OneHost, RoundsLive
  <2>2. JobsInRound'
    BY <1>1, <1>3 DEF Crash, RoundInv, JobsInRound
  <2>3. ClaimsCompatible'
    BY <1>1, <1>3 DEF Crash, RoundInv, ClaimsCompatible, Compatible
  <2> QED
    BY <2>1, <2>2, <2>3 DEF RoundInv
<1>4. ASSUME NEW h \in Hosts, SchedulerStep(h) PROVE RoundInv'
  <2>1. /\ proc[h] = "up" /\ proc' = proc
        /\ \A g \in Hosts : g # h => /\ phase'[g] = phase[g] /\ claimed'[g] = claimed[g]
                                     /\ job'[g] = job[g]
    BY <1>1, <1>4
    DEF SchedulerStep, BeginSelection, Select, StartJobs, CheckJobs, EndRound, HostProbe, NextRound,
        RoundInv, RoundsLive
  <2>2. OneHost' /\ RoundsLive'
    BY <1>1, <2>1 DEF RoundInv, OneHost, RoundsLive
  <2>3. \A o \in Ops : job'[h][o] # "off" => phase'[h] = "run" /\ o \in claimed'[h]
    <3>1. CASE StartJobs(h)
      BY <1>1, <3>1 DEF StartJobs
    <3>2. CASE CheckJobs(h)
      BY <1>1, <3>2 DEF CheckJobs
    <3>3. CASE BeginSelection(h) \/ Select(h) \/ EndRound(h) \/ HostProbe(h) \/ NextRound(h)
      <4>1. job' = job /\ phase[h] # "run"
        BY <3>3 DEF BeginSelection, Select, EndRound, HostProbe, NextRound
      <4> QED
        BY <4>1 DEF RoundInv, JobsInRound
    <3> QED
      BY <1>4, <3>1, <3>2, <3>3 DEF SchedulerStep
  <2>4. \A o, p \in claimed'[h] : o # p => Compatible(o, p)
    <3>1. CASE Select(h)
      BY <1>1, <3>1, SelectionCompatible DEF Select
    <3>2. claimed'[h] \in {claimed[h], {}} \/ Select(h)
      BY <1>1, <1>4
      DEF SchedulerStep, BeginSelection, StartJobs, CheckJobs, EndRound, HostProbe, NextRound
    <3> QED
      BY <3>1, <3>2 DEF RoundInv, ClaimsCompatible
  <2>5. JobsInRound'
    BY <2>1, <2>3 DEF RoundInv, JobsInRound
  <2>6. ClaimsCompatible'
    BY <2>1, <2>4 DEF RoundInv, ClaimsCompatible, Compatible
  <2> QED
    BY <2>2, <2>5, <2>6 DEF RoundInv
<1>5. ASSUME NEW h \in Hosts, NEW o \in Ops, JobStep(h, o) \/ JobAbort(h, o) PROVE RoundInv'
  <2>1. /\ UNCHANGED <<proc, phase, claimed>> /\ job[h][o] # "off"
        /\ \E next : job' = [job EXCEPT ![h][o] = next]
    BY <1>5
    DEF JobStep, JobStart, JobCleanup, JobCancel, JobBeginStep, JobStepDone, JobUserGate, JobFail,
        JobComplete, JobSummary, JobAbort, SaveAndGoOn, SaveAndSummarize, EndJob
  <2> QED
    BY <1>1, <2>1
    DEF RoundInv, OneHost, RoundsLive, JobsInRound, ClaimsCompatible, Compatible
<1>6. ASSUME NEW u \in Sessions, SessionStep(u) PROVE RoundInv'
  <2>1. UNCHANGED <<proc, claimed, job>> /\ \E next : phase' = [phase EXCEPT ![u] = next]
    BY <1>1, <1>6, SessionReads DEF ReadFiles
  <2>2. \A g \in Hosts : phase'[g] = phase[g]
    BY <1>1, <2>1, QueueAssumption
  <2> QED
    BY <2>1, <2>2 DEF RoundInv, OneHost, RoundsLive, JobsInRound, ClaimsCompatible, Compatible
<1>7. ASSUME NEW a \in Actors, CommandStep(a) PROVE RoundInv'
  <2>1. UNCHANGED <<proc, claimed, job>>
    BY <1>7 DEF CommandStep, UpdateDependencies, EndCommand, WriteFile
  <2>2. \A g \in Hosts : phase'[g] = phase[g] \/ phase[g] \in {"repair", "confirm"}
    BY <1>1, <1>7, QueueAssumption DEF CommandStep, UpdateDependencies, EndCommand, WriteFile
  <2> QED
    BY <2>1, <2>2 DEF RoundInv, OneHost, RoundsLive, JobsInRound, ClaimsCompatible, Compatible
<1>8. ASSUME NEW a \in Actors, CommandFails(a) PROVE RoundInv'
  <2>1. /\ UNCHANGED <<proc, job>>
        /\ \A g \in Hosts : \/ phase'[g] = phase[g] /\ claimed'[g] = claimed[g]
                            \/ phase'[g] = "idle" /\ claimed'[g] = {} /\ phase[g] # "run"
    BY <1>1, <1>8 DEF CommandFails
  <2> QED
    BY <2>1 DEF RoundInv, OneHost, RoundsLive, JobsInRound, ClaimsCompatible, Compatible
<1>9. CASE UNCHANGED vars
  BY <1>9 DEF vars, RoundInv, OneHost, RoundsLive, JobsInRound, ClaimsCompatible, Compatible
<1> QED
  BY <1>2, <1>3, <1>4, <1>5, <1>6, <1>7, <1>8, <1>9 DEF Next

\* With the lease of the scheduler host, no operation is executed twice at the
\* same time and operations executed together are compatible, whatever sessions
\* write in between.
THEOREM ExecutionIsExclusive == Spec => [](SingleHost => Exclusion)
<1>1. Init => RoundInv
  BY DEF Init, RoundInv, OneHost, RoundsLive, JobsInRound, ClaimsCompatible, Actors
<1>2. TypeInv /\ RoundInv /\ [Next]_vars => (TypeInv /\ RoundInv)'
  BY TypeStep, RoundStep
<1>3. RoundInv => (SingleHost => Exclusion)
  <2> SUFFICES ASSUME RoundInv, SingleHost, NEW x \in Executing, NEW y \in Executing, x # y
               PROVE  x[2] # y[2] /\ Compatible(x[2], y[2])
    BY DEF Exclusion
  <2>1. /\ x = <<x[1], x[2]>> /\ x[1] \in Hosts /\ x[2] \in Ops /\ job[x[1]][x[2]] # "off"
        /\ y = <<y[1], y[2]>> /\ y[1] \in Hosts /\ y[2] \in Ops /\ job[y[1]][y[2]] # "off"
    BY DEF Executing
  <2>2. x[1] = y[1] /\ x[2] \in claimed[x[1]] /\ y[2] \in claimed[y[1]]
    BY <2>1 DEF RoundInv, OneHost, RoundsLive, JobsInRound
  <2> QED
    BY <2>1, <2>2 DEF RoundInv, ClaimsCompatible
<1> QED
  BY InitOK, <1>1, <1>2, <1>3, PTL DEF Spec

=============================================================================
