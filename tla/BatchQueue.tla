----------------------------- MODULE BatchQueue -----------------------------
(***************************************************************************)
(* The persistent batch queue of SQL Server Lab: the operation files, the  *)
(* scheduler processes that claim and execute operations, and the console  *)
(* or browser sessions that steer them.                                    *)
(*                                                                         *)
(* Every operation is one JSON file.  A command reads the whole file,      *)
(* changes fields of its copy and later replaces the whole file; only the  *)
(* scheduler's selection runs under the workflow mutex.  The model keeps   *)
(* that: a command first puts the records it is going to write into        *)
(* pend[a], and each file is replaced by a step of its own (WriteFile),    *)
(* with anything in between.                                               *)
(*                                                                         *)
(* One batch is modelled, from the moment it has been submitted.           *)
(***************************************************************************)
EXTENDS Naturals, Sequences, FiniteSets

CONSTANTS
    Ops,          \* operations (child jobs) of the submitted batch
    Hosts,        \* scheduler processes; a process identity is never reused
    Sessions,     \* operator sessions (console, browser)
    LockNames,    \* names of the exclusive resources
    NoHost,       \* worker = $null
    Nothing,      \* no pending write
    Plan,         \* [Ops -> Seq(StepKind)]: the steps of each operation
    Deps,         \* [Ops -> SUBSET Ops]: dependencies
    Locks,        \* [Ops -> SUBSET LockNames]
    Class,        \* [Ops -> ResourceClass]
    Created,      \* [Ops -> Nat]: createdAt, the last sort key
    MaxWorkers,   \* -MaxWorkers of every scheduler call
    SingleHost,   \* TRUE: every scheduler runs in the host that holds the lease
    Commands,     \* the commands the sessions use in this instance
    MaxCommands,  \* bound: commands issued in one behaviour
    MaxAborts,    \* bound: thread jobs that end without writing a final status
    MaxErrors     \* bound: commands that throw before they have written their files

StepKind == {"Action", "Artifact", "UserAction"}
ResourceClass == {"HyperVHeavy", "ExclusiveStorage", "RuntimeNormal", "LifecycleLight"}
Terminal == {"Completed", "Failed", "Cancelled"}
AtGate == {"WaitingForUser", "CandidateSatisfied"}
Status == {"Queued", "CleanupQueued", "WaitingForDependency", "Running", "Paused"}
              \cup AtGate \cup Terminal
SessionCommand == {"Priority", "BatchPriority", "Move", "Suspend", "Resume", "Stop", "StopCleanup",
                   "Confirm", "Attention", "Probe", "Queue"}

ASSUME QueueAssumption ==
    /\ IsFiniteSet(Ops) /\ IsFiniteSet(Hosts)
    /\ NoHost \notin Hosts
    /\ Hosts \cap Sessions = {}
    /\ Plan \in [Ops -> Seq(StepKind)]
    /\ Deps \in [Ops -> SUBSET Ops]
    /\ \A o \in Ops : \A d \in Deps[o] : Deps[d] = {}
    /\ Locks \in [Ops -> SUBSET LockNames]
    /\ Class \in [Ops -> ResourceClass]
    /\ Created \in [Ops -> Nat]
    /\ \A o, p \in Ops : Created[o] = Created[p] => o = p
    /\ MaxWorkers \in 1..16
    /\ SingleHost \in BOOLEAN
    /\ Commands \subseteq SessionCommand
    /\ MaxCommands \in Nat /\ MaxAborts \in Nat /\ MaxErrors \in Nat

Actors == Hosts \cup Sessions

\* The fields of an operation file the queue decides by.
Operation == [status : Status, step : Nat, cancel : BOOLEAN, cleanup : BOOLEAN,
              owner : Hosts \cup {NoHost}, rank : 0..2, pos : Nat, overridden : BOOLEAN]

ASSUME NothingAssumption == Nothing \notin Operation

VARIABLES
    file,      \* file[o]: the operation file of o
    proc,      \* proc[h]: "new", "up" or "dead"
    mutex,     \* the process that holds the workflow mutex
    phase,     \* phase[a]: where the actor is in its command
    pend,      \* pend[a][o]: the record a is going to write to o's file
    claimed,   \* claimed[h]: the operations h selected in its current round
    job,       \* job[h][o]: the thread job of h that executes o
    mem,       \* mem[h][o]: the copy of the operation that job works on
    issued,    \* number of session commands so far
    aborts,    \* number of thread jobs that ended unexpectedly so far
    errors,    \* number of commands that have thrown so far
    done,      \* history: done[o], the steps of o that have been completed
    finished,  \* history: the operations that have been completed once
    stopped    \* history: the operations a session has stopped while they ran

vars == <<file, proc, mutex, phase, pend, claimed, job, mem, issued, aborts, errors, done, finished, stopped>>
history == <<done, finished, stopped>>
bounds == <<issued, aborts, errors>>

-----------------------------------------------------------------------------
(* What a command makes of the files it has read.                          *)

Fresh(o) ==
    [status |-> IF Deps[o] = {} THEN "Queued" ELSE "WaitingForDependency",
     step |-> 0, cancel |-> FALSE, cleanup |-> FALSE, owner |-> NoHost,
     rank |-> 1, pos |-> Created[o], overridden |-> FALSE]

NoWrites == [o \in Ops |-> Nothing]
WriteOnly(o, r) == [NoWrites EXCEPT ![o] = r]
Idle(a) == pend[a] = NoWrites

\* Error seeded in Requeued: the operation starts again from its first step.
RequeuedFromStart(o, r) ==
    [r EXCEPT !.status = IF r.cleanup THEN "CleanupQueued"
                         ELSE IF Deps[o] # {} THEN "WaitingForDependency" ELSE "Queued",
              !.step = 0, !.owner = NoHost]

Requeued(o, r) ==
    [r EXCEPT !.status = IF r.cleanup THEN "CleanupQueued"
                         ELSE IF Deps[o] # {} THEN "WaitingForDependency" ELSE "Queued",
              !.owner = NoHost]

\* Errors seeded in Abandoned: every running operation, or none with an owner.
AbandonedAlways(o) == file[o].status = "Running"
AbandonedUnowned(o) == file[o].status = "Running" /\ file[o].owner = NoHost

Abandoned(o) ==
    /\ file[o].status = "Running"
    /\ IF file[o].owner = NoHost THEN TRUE ELSE proc[file[o].owner] # "up"

RepairWrites == [o \in Ops |-> IF Abandoned(o) THEN Requeued(o, file[o]) ELSE Nothing]

\* Errors seeded in DependencyStatus: a gate that seems satisfied counts as
\* completed; a status nobody knows.
DependencyStatusCandidate(o) ==
    IF \E d \in Deps[o] : file[d].status \in {"Failed", "Cancelled"} THEN "Failed"
    ELSE IF \A d \in Deps[o] : file[d].status \in {"Completed", "CandidateSatisfied"} THEN "Queued"
    ELSE "WaitingForDependency"
DependencyStatusUnknown(o) ==
    IF \E d \in Deps[o] : file[d].status \in {"Failed", "Cancelled"} THEN "DependencyFailed"
    ELSE IF \A d \in Deps[o] : file[d].status = "Completed" THEN "Queued"
    ELSE "WaitingForDependency"

DependencyStatus(o) ==
    IF \E d \in Deps[o] : file[d].status \in {"Failed", "Cancelled"} THEN "Failed"
    ELSE IF \A d \in Deps[o] : file[d].status = "Completed" THEN "Queued"
    ELSE "WaitingForDependency"

\* Error seeded in DependencyWrites: applied to every operation that is not running.
DependencyWritesToAll ==
    [o \in Ops |-> IF file[o].status # "Running" /\ DependencyStatus(o) # file[o].status
                   THEN [file[o] EXCEPT !.status = DependencyStatus(o)]
                   ELSE Nothing]

DependencyWrites ==
    [o \in Ops |-> IF file[o].status = "WaitingForDependency" /\ DependencyStatus(o) # file[o].status
                   THEN [file[o] EXCEPT !.status = DependencyStatus(o)]
                   ELSE Nothing]

-----------------------------------------------------------------------------
(* Selection: candidates in the order priority, position, creation; each   *)
(* is taken if it fits to the running operations and those taken before.   *)

Running == {o \in Ops : file[o].status = "Running"}
Candidates == {o \in Ops : file[o].status \in {"Queued", "CleanupQueued"}}

Before(p, q) ==
    \/ file[p].rank < file[q].rank
    \/ /\ file[p].rank = file[q].rank
       /\ \/ file[p].pos < file[q].pos
          \/ file[p].pos = file[q].pos /\ Created[p] < Created[q]

\* Two operations the scheduler may execute at the same time.
Compatible(o, p) ==
    /\ Class[o] # "ExclusiveStorage" /\ Class[p] # "ExclusiveStorage"
    /\ ~(Class[o] = "HyperVHeavy" /\ Class[p] = "HyperVHeavy")
    /\ Locks[o] \cap Locks[p] = {}

\* Errors seeded in Fits: the operations taken before are not looked at; one
\* worker too many.
FitsRunningOnly(c, taken) ==
    /\ Cardinality(Running \cup taken) < MaxWorkers
    /\ \A o \in Running : Compatible(o, c)
FitsOneMore(c, taken) ==
    /\ Cardinality(Running \cup taken) <= MaxWorkers
    /\ \A o \in Running \cup taken : Compatible(o, c)

Fits(c, taken) ==
    /\ Cardinality(Running \cup taken) < MaxWorkers
    /\ \A o \in Running \cup taken : Compatible(o, c)

IsSelection(S) ==
    \A c \in Candidates : c \in S <=> Fits(c, {s \in S : Before(s, c)})

Claim(h, r) == [r EXCEPT !.status = "Running", !.owner = h]

-----------------------------------------------------------------------------
(* The scheduler process.                                                  *)

StartHost(h) ==
    /\ proc[h] = "new"
    /\ SingleHost => \A g \in Hosts : proc[g] # "up"
    /\ proc' = [proc EXCEPT ![h] = "up"]
    /\ UNCHANGED <<file, mutex, phase, pend, claimed, job, mem, bounds, history>>

\* The process dies with its thread jobs; the mutex becomes free.  Another
\* process is left to start (the number of crashes is bounded by Hosts).
Crash(h) ==
    /\ proc[h] = "up"
    /\ \E g \in Hosts : proc[g] = "new"
    /\ proc' = [proc EXCEPT ![h] = "dead"]
    /\ mutex' = IF mutex = h THEN NoHost ELSE mutex
    /\ phase' = [phase EXCEPT ![h] = "idle"]
    /\ pend' = [pend EXCEPT ![h] = NoWrites]
    /\ claimed' = [claimed EXCEPT ![h] = {}]
    /\ job' = [job EXCEPT ![h] = [o \in Ops |-> "off"]]
    /\ mem' = [mem EXCEPT ![h] = [o \in Ops |-> Fresh(o)]]
    /\ UNCHANGED <<file, bounds, history>>

BeginSelection(h) ==
    /\ proc[h] = "up" /\ phase[h] = "idle" /\ mutex = NoHost
    /\ mutex' = h
    /\ phase' = [phase EXCEPT ![h] = "repair"]
    /\ pend' = [pend EXCEPT ![h] = RepairWrites]
    /\ UNCHANGED <<file, proc, claimed, job, mem, bounds, history>>

\* Repair-LabAbandonedOperations has written its files: Update-LabDependencyStates.
UpdateDependencies(a) ==
    /\ phase[a] \in {"repair", "confirm"} /\ Idle(a)
    /\ phase' = [phase EXCEPT ![a] = IF phase[a] = "repair" THEN "deps" ELSE "write"]
    /\ pend' = [pend EXCEPT ![a] = DependencyWrites]
    /\ UNCHANGED <<file, proc, mutex, claimed, job, mem, bounds, history>>

Select(h) ==
    /\ h \in Hosts /\ phase[h] = "deps" /\ Idle(h)
    /\ \E S \in SUBSET Candidates :
         /\ IsSelection(S)
         /\ claimed' = [claimed EXCEPT ![h] = S]
         /\ pend' = [pend EXCEPT ![h] =
              [o \in Ops |-> IF o \in S THEN Claim(h, file[o]) ELSE Nothing]]
    /\ phase' = [phase EXCEPT ![h] = "claim"]
    /\ UNCHANGED <<file, proc, mutex, job, mem, bounds, history>>

\* The claims are on disk: release the mutex, start a thread job per operation.
StartJobs(h) ==
    /\ phase[h] = "claim" /\ Idle(h)
    /\ mutex' = NoHost
    /\ phase' = [phase EXCEPT ![h] = IF claimed[h] = {} THEN "due" ELSE "run"]
    /\ job' = [job EXCEPT ![h] = [o \in Ops |-> IF o \in claimed[h] THEN "new" ELSE "off"]]
    /\ UNCHANGED <<file, proc, pend, claimed, mem, bounds, history>>

\* Error seeded in CheckJobs: nothing is released.
CheckJobsNothing(h) ==
    /\ phase[h] = "run" /\ \A o \in Ops : job[h][o] = "off"
    /\ phase' = [phase EXCEPT ![h] = "check"]
    /\ UNCHANGED <<file, proc, mutex, pend, claimed, job, mem, bounds, history>>

\* All jobs have ended; a claimed file that still says Running is released.
CheckJobs(h) ==
    /\ phase[h] = "run" /\ \A o \in Ops : job[h][o] = "off"
    /\ phase' = [phase EXCEPT ![h] = "check"]
    /\ pend' = [pend EXCEPT ![h] =
         [o \in Ops |-> IF o \in claimed[h] /\ file[o].status = "Running"
                        THEN Requeued(o, file[o]) ELSE Nothing]]
    /\ UNCHANGED <<file, proc, mutex, claimed, job, mem, bounds, history>>

EndRound(h) ==
    /\ phase[h] = "check" /\ Idle(h)
    /\ phase' = [phase EXCEPT ![h] = "due"]
    /\ claimed' = [claimed EXCEPT ![h] = {}]
    /\ UNCHANGED <<file, proc, mutex, pend, job, mem, bounds, history>>

\* Error seeded in ProbeResults: a gate that seems satisfied is passed.
ProbeResultsPassing(o) ==
    {[file[o] EXCEPT !.status = "WaitingForUser"],
     [file[o] EXCEPT !.status = "Queued", !.step = @ + 1]}

\* The probe of one gate that is due only looks at the resource and records
\* whether it seems done.
ProbeResults(o) == {[file[o] EXCEPT !.status = s] : s \in AtGate}

HostProbe(h) ==
    /\ phase[h] = "due"
    /\ \E o \in Ops : /\ file[o].status \in AtGate
                     /\ \E r \in ProbeResults(o) : pend' = [pend EXCEPT ![h] = WriteOnly(o, r)]
    /\ phase' = [phase EXCEPT ![h] = "probe"]
    /\ UNCHANGED <<file, proc, mutex, claimed, job, mem, bounds, history>>

NextRound(h) ==
    /\ phase[h] \in {"due", "probe"} /\ Idle(h)
    /\ phase' = [phase EXCEPT ![h] = "idle"]
    /\ UNCHANGED <<file, proc, mutex, pend, claimed, job, mem, bounds, history>>

-----------------------------------------------------------------------------
(* The thread job of process h that executes operation o.  It reads the    *)
(* file once and afterwards only writes its own copy.                      *)

EndJob(h, o) ==
    /\ job' = [job EXCEPT ![h][o] = "off"]
    /\ mem' = [mem EXCEPT ![h][o] = Fresh(o)]

SaveAndGoOn(h, o, r, next) ==
    /\ file' = [file EXCEPT ![o] = r]
    /\ mem' = [mem EXCEPT ![h][o] = r]
    /\ job' = [job EXCEPT ![h][o] = next]

\* The last status is on disk; Update-LabBatchSummary is still to come.
SaveAndSummarize(h, o, r) == SaveAndGoOn(h, o, r, "summary")

JobStart(h, o) ==
    /\ job[h][o] = "new"
    /\ IF file[o].cleanup \/ file[o].status = "CleanupQueued"
       THEN SaveAndGoOn(h, o, [file[o] EXCEPT !.status = "Running"], "cleanup")
       ELSE SaveAndGoOn(h, o, Claim(h, file[o]), "boundary")
    /\ UNCHANGED history

\* Invoke-LabOperationCleanup: the result is recorded, the status is Cancelled
\* whether the run could be removed or not.
JobCleanup(h, o) ==
    /\ job[h][o] = "cleanup"
    /\ SaveAndSummarize(h, o, [mem[h][o] EXCEPT !.status = "Cancelled"])
    /\ UNCHANGED history

JobCancel(h, o) ==
    /\ job[h][o] = "boundary" /\ mem[h][o].step < Len(Plan[o]) /\ mem[h][o].cancel
    /\ SaveAndSummarize(h, o, [mem[h][o] EXCEPT !.status = "CleanupQueued", !.cleanup = TRUE])
    /\ UNCHANGED history

JobBeginStep(h, o) ==
    /\ job[h][o] = "boundary" /\ mem[h][o].step < Len(Plan[o]) /\ ~mem[h][o].cancel
    /\ SaveAndGoOn(h, o, mem[h][o], "step")
    /\ UNCHANGED history

JobStepDone(h, o) ==
    /\ job[h][o] = "step" /\ Plan[o][mem[h][o].step + 1] # "UserAction"
    /\ SaveAndGoOn(h, o, [mem[h][o] EXCEPT !.step = @ + 1], "boundary")
    /\ done' = [done EXCEPT ![o] = @ \cup {mem[h][o].step}]
    /\ UNCHANGED <<finished, stopped>>

JobUserGate(h, o) ==
    /\ job[h][o] = "step" /\ Plan[o][mem[h][o].step + 1] # "Action"
    /\ SaveAndSummarize(h, o, [mem[h][o] EXCEPT !.status = "WaitingForUser", !.owner = NoHost])
    /\ UNCHANGED history

\* An exception, of a step or of a write or the summary around the steps, is
\* recorded as a failure of the operation, whatever has been recorded before.
JobFail(h, o) ==
    /\ \/ job[h][o] = "step" /\ UNCHANGED errors
       \/ job[h][o] \in {"boundary", "cleanup", "summary"} /\ errors < MaxErrors /\ errors' = errors + 1
    /\ file' = [file EXCEPT ![o] = [mem[h][o] EXCEPT !.status = "Failed", !.owner = NoHost]]
    /\ EndJob(h, o)
    /\ UNCHANGED <<proc, mutex, phase, pend, claimed, issued, aborts, history>>

JobComplete(h, o) ==
    /\ job[h][o] = "boundary" /\ mem[h][o].step >= Len(Plan[o])
    /\ SaveAndSummarize(h, o, [mem[h][o] EXCEPT !.status = "Completed", !.owner = NoHost])
    /\ finished' = finished \cup {o}
    /\ UNCHANGED <<done, stopped>>

JobSummary(h, o) ==
    /\ job[h][o] = "summary" /\ mutex = NoHost
    /\ EndJob(h, o)
    /\ UNCHANGED <<file, history>>

\* The job ends without a final status: its process or its last write failed.
JobAbort(h, o) ==
    /\ job[h][o] # "off" /\ aborts < MaxAborts
    /\ aborts' = aborts + 1
    /\ EndJob(h, o)
    /\ UNCHANGED <<file, proc, mutex, phase, pend, claimed, issued, errors, history>>

JobStep(h, o) ==
    \/ JobFail(h, o)
    \/ /\ \/ JobStart(h, o) \/ JobCleanup(h, o) \/ JobCancel(h, o) \/ JobBeginStep(h, o)
          \/ JobStepDone(h, o) \/ JobUserGate(h, o) \/ JobComplete(h, o) \/ JobSummary(h, o)
       /\ UNCHANGED <<proc, mutex, phase, pend, claimed, bounds>>

-----------------------------------------------------------------------------
(* The sessions.  A command reads at one moment and writes later, without  *)
(* the mutex.                                                              *)

\* Suspend, Resume and Stop, per operation.
SuspendWrite(o) ==
    IF file[o].status \in {"Queued", "WaitingForDependency"}
    THEN WriteOnly(o, [file[o] EXCEPT !.status = "Paused"]) ELSE NoWrites

\* Error seeded in ResumeWrite: the dependencies are not looked at.
ResumeWriteQueued(o) ==
    IF file[o].status = "Paused"
    THEN WriteOnly(o, [file[o] EXCEPT !.status = "Queued"]) ELSE NoWrites

ResumeWrite(o) ==
    IF file[o].status = "Paused"
    THEN WriteOnly(o, [file[o] EXCEPT !.status =
           IF \A d \in Deps[o] : file[d].status = "Completed"
           THEN "Queued" ELSE "WaitingForDependency"])
    ELSE NoWrites

StopWrite(o, withCleanup) ==
    IF file[o].status \in Terminal /\ (~withCleanup \/ file[o].status = "Cancelled")
    THEN NoWrites
    ELSE IF file[o].status = "Running"
         THEN WriteOnly(o, [file[o] EXCEPT !.cancel = TRUE, !.cleanup = withCleanup])
    ELSE IF withCleanup
         THEN WriteOnly(o, [file[o] EXCEPT !.cancel = TRUE, !.cleanup = TRUE,
                                           !.status = "CleanupQueued"])
    ELSE WriteOnly(o, [file[o] EXCEPT !.cancel = TRUE, !.status = "Cancelled"])

PriorityWrite(o, rank) ==
    WriteOnly(o, IF file[o].status \in Terminal THEN file[o]
                 ELSE [file[o] EXCEPT !.rank = rank, !.overridden = TRUE])

BatchPriorityWrite(rank) ==
    [o \in Ops |-> IF ~file[o].overridden /\ file[o].status \notin Terminal
                   THEN [file[o] EXCEPT !.rank = rank] ELSE Nothing]

\* Move rewrites the position of every peer, each from the copy it has read.
Peers(o) == {p \in Ops : /\ file[p].rank = file[o].rank
                         /\ file[p].status \notin Terminal \cup {"Running"}}
Place(o, p) == Cardinality({q \in Peers(o) : Before(q, p)}) + 1
\* Error seeded in NewPlace: the peers between the two places keep theirs.
NewPlaceOnlyMoved(o, p, target) == IF p = o THEN target ELSE Place(o, p)

NewPlace(o, p, target) ==
    IF p = o THEN target
    ELSE IF target <= Place(o, p) /\ Place(o, p) < Place(o, o) THEN Place(o, p) + 1
    ELSE IF Place(o, o) < Place(o, p) /\ Place(o, p) <= target THEN Place(o, p) - 1
    ELSE Place(o, p)

MoveWrite(o, target) ==
    IF o \notin Peers(o) \/ target = Place(o, o) THEN NoWrites
    ELSE [p \in Ops |-> IF p \in Peers(o)
                        THEN [file[p] EXCEPT !.pos = NewPlace(o, p, target)] ELSE Nothing]

\* Error seeded in ConfirmedRecord: the confirmation completes the operation.
ConfirmedRecordCompleting(o) == [file[o] EXCEPT !.step = @ + 1, !.status = "Completed"]

\* A verified confirmation completes the gate's step; a refused one puts the
\* gate back to WaitingForUser.
ConfirmedRecord(o) ==
    [file[o] EXCEPT !.step = @ + 1,
                    !.status = IF file[o].step + 1 >= Len(Plan[o]) THEN "Completed" ELSE "Queued"]

ReadFiles(u, command, next, writes) ==
    /\ command \in Commands /\ phase[u] = "idle" /\ issued < MaxCommands
    /\ issued' = issued + 1
    /\ phase' = [phase EXCEPT ![u] = next]
    /\ pend' = [pend EXCEPT ![u] = writes]
    /\ UNCHANGED <<file, proc, mutex, claimed, job, mem, aborts, errors, history>>

Suspend(u, o) ==
    file[o].status # "Running" /\ ReadFiles(u, "Suspend", "write", SuspendWrite(o))
Resume(u, o) == ReadFiles(u, "Resume", "write", ResumeWrite(o))
Stop(u, o) == ReadFiles(u, "Stop", "stop", StopWrite(o, FALSE))
StopCleanup(u, o) == ReadFiles(u, "StopCleanup", "stop", StopWrite(o, TRUE))
SetPriority(u, o) ==
    \E rank \in 0..2 : ReadFiles(u, "Priority", "write", PriorityWrite(o, rank))
SetBatchPriority(u) ==
    \E rank \in 0..2 : ReadFiles(u, "BatchPriority", "write", BatchPriorityWrite(rank))
Move(u, o) ==
    \E target \in 1..Cardinality(Peers(o)) : ReadFiles(u, "Move", "write", MoveWrite(o, target))
SetAttention(u, o) == ReadFiles(u, "Attention", "write", WriteOnly(o, file[o]))
Probe(u, o) ==
    /\ file[o].status \in AtGate
    /\ \E r \in ProbeResults(o) : ReadFiles(u, "Probe", "write", WriteOnly(o, r))
Confirm(u, o) ==
    /\ file[o].status \in AtGate
    /\ \/ ReadFiles(u, "Confirm", "confirm", WriteOnly(o, ConfirmedRecord(o)))
       \/ ReadFiles(u, "Confirm", "write",
                    WriteOnly(o, [file[o] EXCEPT !.status = "WaitingForUser"]))

\* Get-SqlServerLabQueue repairs abandoned operations and updates the
\* dependency states before it reports, without the mutex.
GetQueue(u) == ReadFiles(u, "Queue", "repair", RepairWrites)

EndCommand(u) ==
    /\ u \in Sessions /\ phase[u] \in {"write", "stop", "deps"} /\ Idle(u)
    /\ phase' = [phase EXCEPT ![u] = "idle"]
    /\ UNCHANGED <<file, proc, mutex, pend, claimed, job, mem, bounds, history>>

SessionStep(u) ==
    \/ GetQueue(u) \/ SetBatchPriority(u)
    \/ \E o \in Ops : \/ Suspend(u, o) \/ Resume(u, o) \/ Stop(u, o) \/ StopCleanup(u, o)
                      \/ SetPriority(u, o) \/ Move(u, o) \/ SetAttention(u, o)
                      \/ Probe(u, o) \/ Confirm(u, o)

-----------------------------------------------------------------------------
(* One pending record replaces its file.  The files of one command are     *)
(* written in any order.                                                   *)

WriteFile(a, o) ==
    /\ pend[a][o] # Nothing
    /\ file' = [file EXCEPT ![o] = pend[a][o]]
    /\ pend' = [pend EXCEPT ![a][o] = Nothing]
    /\ done' = IF phase[a] = "confirm"
               THEN [done EXCEPT ![o] = @ \cup {pend[a][o].step - 1}] ELSE done
    /\ finished' = IF phase[a] = "confirm" /\ pend[a][o].status = "Completed"
                   THEN finished \cup {o} ELSE finished
    /\ stopped' = IF phase[a] = "stop" /\ pend[a][o].status = "Running"
                  THEN stopped \cup {o} ELSE stopped
    /\ UNCHANGED <<proc, mutex, phase, claimed, job, mem, bounds>>

\* A write throws (another process has the file open), or the session is closed:
\* the rest of the command is lost.  The host logs the error and goes on.
CommandFails(a) ==
    /\ phase[a] \notin {"idle", "run"} /\ errors < MaxErrors
    /\ errors' = errors + 1
    /\ mutex' = IF mutex = a THEN NoHost ELSE mutex
    /\ phase' = [phase EXCEPT ![a] = "idle"]
    /\ pend' = [pend EXCEPT ![a] = NoWrites]
    /\ claimed' = [h \in Hosts |-> IF h = a THEN {} ELSE claimed[h]]
    /\ UNCHANGED <<file, proc, job, mem, issued, aborts, history>>

CommandStep(a) ==
    UpdateDependencies(a) \/ EndCommand(a) \/ \E o \in Ops : WriteFile(a, o)

-----------------------------------------------------------------------------
Init ==
    /\ file = [o \in Ops |-> Fresh(o)]
    /\ proc = [h \in Hosts |-> "new"]
    /\ mutex = NoHost
    /\ phase = [a \in Actors |-> "idle"]
    /\ pend = [a \in Actors |-> NoWrites]
    /\ claimed = [h \in Hosts |-> {}]
    /\ job = [h \in Hosts |-> [o \in Ops |-> "off"]]
    /\ mem = [h \in Hosts |-> [o \in Ops |-> Fresh(o)]]
    /\ issued = 0 /\ aborts = 0 /\ errors = 0
    /\ done = [o \in Ops |-> {}]
    /\ finished = {}
    /\ stopped = {}

SchedulerStep(h) ==
    \/ BeginSelection(h) \/ Select(h) \/ StartJobs(h) \/ CheckJobs(h)
    \/ EndRound(h) \/ HostProbe(h) \/ NextRound(h)

Next ==
    \/ \E h \in Hosts : StartHost(h) \/ Crash(h) \/ SchedulerStep(h)
    \/ \E h \in Hosts, o \in Ops : JobStep(h, o) \/ JobAbort(h, o)
    \/ \E u \in Sessions : SessionStep(u)
    \/ \E a \in Actors : CommandStep(a) \/ CommandFails(a)

Spec == Init /\ [][Next]_vars

\* A process is started again after a crash, a scheduler round and a command
\* go on, and every step action returns.  Nobody is obliged to issue a command,
\* to crash, to abort or to throw.
Fairness ==
    /\ \A h \in Hosts : WF_vars(StartHost(h)) /\ WF_vars(SchedulerStep(h))
    /\ \A h \in Hosts, o \in Ops : WF_vars(JobStep(h, o))
    /\ \A a \in Actors : WF_vars(CommandStep(a))

FairSpec == Spec /\ Fairness

-----------------------------------------------------------------------------
(* Properties.                                                             *)

JobState == {"off", "new", "boundary", "step", "cleanup", "summary"}
Phase == {"idle", "repair", "deps", "claim", "run", "check", "due", "probe",
          "write", "stop", "confirm"}

\* Every variable keeps its type.
TypeOK ==
    /\ file \in [Ops -> Operation]
    /\ proc \in [Hosts -> {"new", "up", "dead"}]
    /\ mutex \in Hosts \cup {NoHost}
    /\ phase \in [Actors -> Phase]
    /\ pend \in [Actors -> [Ops -> Operation \cup {Nothing}]]
    /\ claimed \in [Hosts -> SUBSET Ops]
    /\ job \in [Hosts -> [Ops -> JobState]]
    /\ mem \in [Hosts -> [Ops -> Operation]]
    /\ issued \in Nat /\ aborts \in Nat /\ errors \in Nat
    /\ done \in [Ops -> SUBSET Nat]
    /\ finished \subseteq Ops
    /\ stopped \subseteq Ops

Executing == {x \in Hosts \X Ops : job[x[1]][x[2]] \notin {"off", "summary"}}

\* No operation is executed twice at the same time, and two operations that
\* run together neither share a lock nor break the limits of their resource
\* classes ("Mutationen derselben Umgebung ... sind exklusiv").
Exclusion ==
    \A x, y \in Executing : x # y => x[2] # y[2] /\ Compatible(x[2], y[2])

\* At most MaxWorkers operations are executed at the same time.
WorkerLimit == Cardinality(Executing) <= MaxWorkers

\* However commands, crashes and stale writes are interleaved, a step is only
\* executed after all earlier steps of its operation have been completed, and a
\* Completed operation has completed all of them; a step that waits for the
\* user is completed by a verified confirmation only.
StepsInOrder ==
    /\ \A h \in Hosts, o \in Ops :
         job[h][o] = "step" => \A k \in 0..(mem[h][o].step - 1) : k \in done[o]
    /\ \A o \in Ops :
         file[o].status = "Completed" => \A k \in 0..(Len(Plan[o]) - 1) : k \in done[o]

\* No step of an operation is executed before all its dependencies have been
\* completed once.
DependenciesFirst ==
    \A h \in Hosts, o \in Ops : job[h][o] = "step" => Deps[o] \subseteq finished

\* A file that says Running names a process that has died, so that the repair
\* releases it, or one that has claimed it and will write it again: the slot and
\* the locks of a running operation are always given back.
RunningIsOwned ==
    \A o \in Running :
        LET h == file[o].owner IN
        h \in Hosts /\ (proc[h] = "dead" \/ (phase[h] # "idle" /\ o \in claimed[h]))

\* A move puts the operation at the wanted place among its peers, gives each
\* place to one peer and leaves the order of the others as it is.
MoveReorders ==
    \A o \in Ops : o \in Peers(o) => \A target \in 1..Cardinality(Peers(o)) :
        /\ NewPlace(o, o, target) = target
        /\ {NewPlace(o, p, target) : p \in Peers(o)} = 1..Cardinality(Peers(o))
        /\ \A p, q \in Peers(o) \ {o} :
             Before(p, q) => NewPlace(o, p, target) < NewPlace(o, q, target)

\* A persisted step is never taken back: after a crash an operation goes on at
\* its last persistent step.
ProgressKept == [][\A o \in Ops : file'[o].step >= file[o].step]_vars

\* Neither schedulers, nor crashes, nor lost jobs take an operation that has
\* ended out of the state it has ended in; only commands of a session do.
TerminalKept ==
    [][\A o \in Ops : file[o].status \in Terminal => file'[o].status = file[o].status]_vars

\* Once a stop has been recorded for a running operation, no further step of it
\* begins ("Beginnt keinen neuen Mutationsschritt").
StopHonoured ==
    [][\A h \in Hosts, o \in Ops :
         o \in stopped /\ job[h][o] # "step" => job'[h][o] # "step"]_vars

\* Once nobody issues commands any more, every operation comes to rest for good:
\* it has ended, waits for its user, is paused, or waits for such a dependency.
Blocked(o) ==
    /\ file[o].status = "WaitingForDependency"
    /\ \E d \in Deps[o] : file[d].status \in AtGate \cup {"Paused"}
ComesToRest ==
    <>[](\A o \in Ops : file[o].status \in Terminal \cup AtGate \cup {"Paused"} \/ Blocked(o))

\* The queue implements the step log: no interleaving of stale writes, crashes
\* and commands leaves a step out or completes an operation without its steps.
Log == INSTANCE StepLog
ImplementsStepLog == Log!Spec
=============================================================================
