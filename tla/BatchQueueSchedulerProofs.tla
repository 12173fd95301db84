---------------------- MODULE BatchQueueSchedulerProofs ----------------------
(***************************************************************************)
(* Any number of schedulers on one store, without the lease of the host    *)
(* and without an operator: the workflow mutex around the selection and    *)
(* the owner in the file are enough to keep operations exclusive, to give  *)
(* slots back and to keep what has been achieved.                          *)
(*                                                                         *)
(* Writes are still made one by one, after their process has read, and     *)
(* partly without the mutex.  The argument is that every pending write is  *)
(* still right when it is made: the status of its file is one that nobody  *)
(* else may change.                                                        *)
(***************************************************************************)
EXTENDS BatchQueueOrderProofs

-----------------------------------------------------------------------------
(* The invariant.                                                          *)

Owned(h, o) == file[o].status = "Running" /\ file[o].owner = h
Plain(r) == ~r.cancel /\ ~r.cleanup /\ r.status \notin {"Paused", "Cancelled", "CleanupQueued"}
Open == {"Queued", "WaitingForDependency"}
AtRest == AtGate \cup {"Completed", "Failed"}

\* The mutex is held from the repair to the last claim; claims last to the
\* release of what a round has left behind.
HostOK(h) ==
    /\ phase[h] \notin {"write", "stop", "confirm"}
    /\ phase[h] \in {"repair", "deps", "claim"} => mutex = h
    /\ claimed[h] # {} => phase[h] \in {"claim", "run", "check"}

\* A running operation has an owner, and if no command has thrown, a living
\* owner has it among its claims.
FileOK(o) ==
    /\ Plain(file[o])
    /\ file[o].status = "Running" =>
         /\ file[o].owner \in Hosts /\ proc[file[o].owner] # "new"
         /\ errors = 0 /\ proc[file[o].owner] = "up" => o \in claimed[file[o].owner]

\* What a write will find.
Finds(h, o, r) ==
    \/ /\ phase[h] = "repair" /\ r.status \in Open
       /\ file[o].status = "Running" /\ proc[file[o].owner] # "up"
    \/ /\ phase[h] = "deps" /\ r.status \in {"Queued", "Failed"}
       /\ file[o].status = "WaitingForDependency"
    \/ /\ phase[h] = "claim" /\ r.status = "Running" /\ r.owner = h /\ o \in claimed[h]
       /\ file[o].status = "Queued"
    \/ /\ phase[h] = "check" /\ r.status \in Open
       /\ Owned(h, o)
    \/ /\ phase[h] = "probe" /\ r.status \in AtGate
       /\ file[o].status \in AtGate \/ (file[o].status = "Failed" /\ errors > 0)

PendOK(h, o) ==
    pend[h][o] # Nothing =>
        /\ Plain(pend[h][o]) /\ pend[h][o].step = file[o].step
        /\ Finds(h, o, pend[h][o])

\* A job executes what its process owns, from a copy that is not stale.
JobOK(h, o) ==
    /\ job[h][o] # "cleanup"
    /\ job[h][o] \in {"new", "boundary", "step"} => Owned(h, o)
    /\ job[h][o] \in {"boundary", "step"} => mem[h][o] = file[o]
    /\ job[h][o] = "summary" => /\ file[o].status \in AtRest
                                /\ Plain(mem[h][o]) /\ mem[h][o].step = file[o].step

\* What becomes of a claim.
HeldOK(h, o) ==
    o \in claimed[h] =>
        /\ phase[h] = "claim" => pend[h][o] # Nothing \/ Owned(h, o)
        /\ phase[h] = "run" => Owned(h, o) \/ file[o].status \in AtRest
        /\ phase[h] = "check" /\ Owned(h, o) => pend[h][o] # Nothing

PairOK(h, o) == PendOK(h, o) /\ JobOK(h, o) /\ HeldOK(h, o)

\* What runs and what is just being claimed fits together.
Occupied ==
    {o \in Ops : \/ file[o].status = "Running"
                 \/ \E h \in Hosts : phase[h] = "claim" /\ pend[h][o] # Nothing}
OccupiedFits ==
    /\ \A o, p \in Occupied : o # p => Compatible(o, p)
    /\ Cardinality(Occupied) <= MaxWorkers

SchedInv ==
    /\ \A h \in Hosts : HostOK(h)
    /\ \A o \in Ops : FileOK(o)
    /\ \A h \in Hosts, o \in Ops : PairOK(h, o)
    /\ OccupiedFits

-----------------------------------------------------------------------------
(* What the invariant says of two processes and one operation.             *)

LEMMA SchedTypes ==
    ASSUME TypeInv
    PROVE  /\ TypeOK /\ file \in [Ops -> Operation] /\ proc \in [Hosts -> {"new", "up", "dead"}]
           /\ phase \in [Actors -> Phase] /\ pend \in [Actors -> Writes] /\ claimed \in [Hosts -> SUBSET Ops]
           /\ job \in [Hosts -> [Ops -> JobState]] /\ mem \in [Hosts -> [Ops -> Operation]]
           /\ errors \in Nat /\ Hosts \subseteq Actors /\ \A h \in Hosts : h # NoHost
BY QueueAssumption DEF TypeInv, TypeOK, Writes, Actors

\* Two processes have writes for the same operation only if both have probed it.
LEMMA WritesAlone ==
    ASSUME TypeInv, RoundInv, SchedInv, NEW g \in Hosts, NEW h \in Hosts, g # h, NEW o \in Ops,
           pend[g][o] # Nothing, pend[h][o] # Nothing
    PROVE  phase[g] = "probe" /\ phase[h] = "probe"
<1>1. /\ HostOK(g) /\ HostOK(h)
      /\ Finds(g, o, pend[g][o]) /\ Finds(h, o, pend[h][o])
  BY DEF SchedInv, PairOK, PendOK
<1>2. (phase[g] # "idle" => proc[g] = "up") /\ (phase[h] # "idle" => proc[h] = "up")
  BY DEF RoundInv, RoundsLive
<1> QED
  BY <1>1, <1>2 DEF HostOK, Finds, Owned, AtGate

\* Nobody executes an operation that neither runs in a round nor is at rest.
LEMMA NobodyExecutes ==
    ASSUME TypeInv, RoundInv, SchedInv, NEW o \in Ops, file[o].status \notin AtRest,
           \A g \in Hosts : Owned(g, o) => phase[g] # "run"
    PROVE  \A g \in Hosts : job[g][o] = "off" /\ (o \in claimed[g] => phase[g] # "run")
<1> SUFFICES ASSUME NEW g \in Hosts PROVE job[g][o] = "off" /\ (o \in claimed[g] => phase[g] # "run")
  OBVIOUS
<1>1. JobOK(g, o) /\ HeldOK(g, o) /\ job[g][o] \in JobState
  BY SchedTypes DEF SchedInv, PairOK
<1>2. job[g][o] # "off" => phase[g] = "run"
  BY DEF RoundInv, JobsInRound
<1> QED
  BY <1>1, <1>2 DEF JobOK, HeldOK, JobState

-----------------------------------------------------------------------------
(* What a step leaves alone.                                               *)

\* No process comes back, and errors are not forgotten.
Onward ==
    /\ errors' \in Nat /\ errors' >= errors
    /\ \A h \in Hosts : /\ proc[h] # "new" => proc'[h] # "new"
                        /\ proc[h] = "dead" => proc'[h] = "dead"

SamePair(h, o) ==
    /\ file'[o] = file[o] /\ phase'[h] = phase[h] /\ pend'[h][o] = pend[h][o]
    /\ claimed'[h] = claimed[h] /\ job'[h][o] = job[h][o] /\ mem'[h][o] = mem[h][o]

LEMMA PairKept ==
    ASSUME TypeInv, SchedInv, Onward, NEW h \in Hosts, NEW o \in Ops, SamePair(h, o)
    PROVE  PairOK(h, o)'
<1>1. PendOK(h, o) /\ JobOK(h, o) /\ HeldOK(h, o) /\ FileOK(o) /\ errors \in Nat
      /\ proc \in [Hosts -> {"new", "up", "dead"}]
  BY SchedTypes DEF SchedInv, PairOK
<1>2. PendOK(h, o)'
  BY <1>1 DEF PendOK, Finds, Owned, Plain, FileOK, SamePair, Onward
<1>3. JobOK(h, o)'
  BY <1>1 DEF JobOK, Owned, Plain, SamePair
<1>4. HeldOK(h, o)'
  BY <1>1 DEF HeldOK, Owned, SamePair
<1> QED
  BY <1>2, <1>3, <1>4 DEF PairOK

LEMMA OccupiedShrinks ==
    ASSUME SchedInv, Occupied' \subseteq Occupied PROVE OccupiedFits'
<1>1. IsFiniteSet(Occupied)
  BY QueueAssumption, FS_Subset DEF Occupied
<1>2. IsFiniteSet(Occupied') /\ Cardinality(Occupied') <= Cardinality(Occupied)
  BY <1>1, FS_Subset
<1>3. Cardinality(Occupied') \in Nat /\ Cardinality(Occupied) \in Nat /\ MaxWorkers \in Nat
  BY <1>1, <1>2, FS_CardinalityType, QueueAssumption
<1>4. Cardinality(Occupied') <= MaxWorkers
  BY <1>2, <1>3 DEF SchedInv, OccupiedFits
<1> QED
  BY <1>4 DEF SchedInv, OccupiedFits, Compatible

\* A step of one process that writes no file.
LocalStep(h) ==
    /\ UNCHANGED file /\ Onward
    /\ \A g \in Hosts \ {h} : /\ proc'[g] = proc[g] /\ phase'[g] = phase[g] /\ pend'[g] = pend[g]
                              /\ claimed'[g] = claimed[g] /\ job'[g] = job[g] /\ mem'[g] = mem[g]
    /\ mutex' = mutex \/ mutex \in {h, NoHost}

LEMMA LocalKept ==
    ASSUME TypeInv, SchedInv, NEW h \in Hosts, LocalStep(h),
           HostOK(h)', \A o \in Ops : PairOK(h, o)', OccupiedFits',
           \A o \in Ops : Owned(h, o) =>
               /\ proc'[h] # "new"
               /\ errors' = 0 /\ proc'[h] = "up" => o \in claimed'[h]
    PROVE  SchedInv'
<1>1. ASSUME NEW g \in Hosts, g # h PROVE HostOK(g)'
  <2>1. HostOK(g) /\ g # NoHost
    BY SchedTypes DEF SchedInv
  <2> QED
    BY <1>1, <2>1 DEF LocalStep, HostOK
<1>2. ASSUME NEW g \in Hosts, g # h, NEW o \in Ops PROVE PairOK(g, o)'
  BY <1>2, PairKept DEF LocalStep, SamePair
<1>3. ASSUME NEW o \in Ops PROVE FileOK(o)'
  <2>1. FileOK(o) /\ file'[o] = file[o] /\ errors \in Nat
    BY SchedTypes DEF SchedInv, LocalStep
  <2>2. CASE Owned(h, o)
    BY <2>1, <2>2 DEF FileOK, Plain, Owned
  <2>3. CASE ~Owned(h, o)
    BY <2>1, <2>3 DEF FileOK, Plain, Owned, LocalStep, Onward
  <2> QED
    BY <2>2, <2>3
<1> QED
  BY <1>1, <1>2, <1>3 DEF SchedInv

\* A step that concerns one operation.
OperationStep(o) ==
    /\ UNCHANGED <<proc, mutex, phase, claimed>> /\ Onward
    /\ \A p \in Ops \ {o} : /\ file'[p] = file[p]
                            /\ \A h \in Hosts : /\ pend'[h][p] = pend[h][p] /\ job'[h][p] = job[h][p]
                                                /\ mem'[h][p] = mem[h][p]

LEMMA OperationKept ==
    ASSUME TypeInv, SchedInv, NEW o \in Ops, OperationStep(o),
           FileOK(o)', \A h \in Hosts : PairOK(h, o)', Occupied' \subseteq Occupied
    PROVE  SchedInv'
<1>1. ASSUME NEW h \in Hosts PROVE HostOK(h)'
  BY DEF SchedInv, OperationStep, HostOK
<1>2. ASSUME NEW h \in Hosts, NEW p \in Ops, p # o PROVE PairOK(h, p)'
  BY <1>2, PairKept DEF OperationStep, SamePair
<1>3. ASSUME NEW p \in Ops, p # o PROVE FileOK(p)'
  <2>1. FileOK(p) /\ file'[p] = file[p] /\ errors \in Nat
    BY <1>3, SchedTypes DEF SchedInv, OperationStep
  <2> QED
    BY <2>1 DEF FileOK, Plain, OperationStep, Onward
<1> QED
  BY <1>1, <1>2, <1>3, OccupiedShrinks DEF SchedInv

-----------------------------------------------------------------------------
(* Steps that write no file.                                               *)

LEMMA HostFacts ==
    ASSUME TypeInv, RoundInv, SchedInv, NEW h \in Hosts
    PROVE  /\ HostOK(h) /\ h # NoHost /\ h \in Actors
           /\ \A o \in Ops : PendOK(h, o) /\ JobOK(h, o) /\ HeldOK(h, o) /\ FileOK(o)
           /\ phase[h] # "idle" => proc[h] = "up"
           /\ \A o \in Ops : job[h][o] # "off" => phase[h] = "run" /\ o \in claimed[h]
           /\ phase[h] # "run" => \A o \in Ops : job[h][o] = "off"
BY SchedTypes DEF SchedInv, PairOK, RoundInv, RoundsLive, JobsInRound

\* A process that keeps no claim, job or pending write is fine.
LEMMA EmptyHost ==
    ASSUME TypeInv, SchedInv, NEW h \in Hosts, LocalStep(h), pend'[h] = NoWrites, claimed'[h] = {},
           phase'[h] \notin {"repair", "deps", "claim", "write", "stop", "confirm"},
           \A o \in Ops : job'[h][o] = "off",
           \A o \in Ops : Owned(h, o) =>
               /\ proc'[h] # "new"
               /\ errors' = 0 => proc'[h] # "up"
    PROVE  SchedInv'
<1>1. HostOK(h)'
  BY DEF HostOK
<1>2. \A o \in Ops : PairOK(h, o)'
  BY DEF PairOK, PendOK, JobOK, HeldOK, NoWrites
<1>3. Occupied' \subseteq Occupied
  BY DEF Occupied, LocalStep
<1> QED
  BY <1>1, <1>2, <1>3, LocalKept, OccupiedShrinks

LEMMA ProcessSteps ==
    ASSUME TypeInv, RoundInv, SchedInv, NEW h \in Hosts, StartHost(h) \/ Crash(h) PROVE SchedInv'
<1>1. /\ proc \in [Hosts -> {"new", "up", "dead"}] /\ phase \in [Actors -> Phase] /\ pend \in [Actors -> Writes]
      /\ claimed \in [Hosts -> SUBSET Ops] /\ job \in [Hosts -> [Ops -> JobState]] /\ errors \in Nat
      /\ mem \in [Hosts -> [Ops -> Operation]] /\ Hosts \subseteq Actors
  BY SchedTypes
<1>2. CASE StartHost(h)
  <2>1. LocalStep(h) /\ proc'[h] = "up" /\ proc[h] = "new"
    BY <1>1, <1>2 DEF StartHost, LocalStep, Onward, bounds
  <2>2. phase[h] = "idle" /\ claimed[h] = {} /\ \A o \in Ops : ~Owned(h, o)
    BY <2>1, HostFacts DEF HostOK, FileOK, Owned
  <2>3. pend[h] = NoWrites
    <3>1. \A o \in Ops : pend[h][o] = Nothing
      BY <2>2, HostFacts DEF PendOK, Finds
    <3> QED
      BY <1>1, <3>1 DEF NoWrites, Writes
  <2> QED
    BY <1>1, <1>2, <2>1, <2>2, <2>3, HostFacts, EmptyHost DEF StartHost
<1>3. CASE Crash(h)
  <2>1. LocalStep(h) /\ proc'[h] = "dead"
    BY <1>1, <1>3 DEF Crash, LocalStep, Onward, bounds
  <2>2. /\ pend'[h] = NoWrites /\ claimed'[h] = {} /\ phase'[h] = "idle" /\ \A o \in Ops : job'[h][o] = "off"
    BY <1>1, <1>3 DEF Crash
  <2> QED
    BY <2>1, <2>2, EmptyHost
<1> QED
  BY <1>2, <1>3

LEMMA LosingSteps ==
    ASSUME TypeInv, RoundInv, SchedInv, NEW h \in Hosts, CommandFails(h) PROVE SchedInv'
<1>1. /\ phase \in [Actors -> Phase] /\ pend \in [Actors -> Writes] /\ claimed \in [Hosts -> SUBSET Ops]
      /\ errors \in Nat /\ Hosts \subseteq Actors
  BY SchedTypes
<1>2. /\ LocalStep(h) /\ errors' # 0
      /\ pend'[h] = NoWrites /\ claimed'[h] = {} /\ phase'[h] = "idle"
  BY <1>1 DEF CommandFails, LocalStep, Onward
<1>3. phase[h] # "run" /\ job' = job /\ proc' = proc
  BY DEF CommandFails
<1>4. \A o \in Ops : Owned(h, o) => proc[h] # "new"
  BY HostFacts DEF FileOK, Owned
<1> QED
  BY <1>2, <1>3, <1>4, HostFacts, EmptyHost

\* A job that ends without a result, or with it.
LEMMA EndingSteps ==
    ASSUME TypeInv, RoundInv, SchedInv, NEW h \in Hosts, NEW o \in Ops,
           JobAbort(h, o) \/ (JobSummary(h, o) /\ UNCHANGED <<proc, mutex, phase, pend, claimed, bounds>>)
    PROVE  SchedInv'
<1>1. /\ job \in [Hosts -> [Ops -> JobState]] /\ mem \in [Hosts -> [Ops -> Operation]] /\ errors \in Nat
  BY SchedTypes
<1>2. /\ UNCHANGED <<file, proc, mutex, phase, pend, claimed, errors>> /\ LocalStep(h)
      /\ job'[h][o] = "off"
      /\ \A p \in Ops : p # o => job'[h][p] = job[h][p] /\ mem'[h][p] = mem[h][p]
  BY <1>1 DEF JobAbort, JobSummary, EndJob, LocalStep, Onward, bounds
<1>3. HostOK(h)'
  BY <1>2, HostFacts DEF HostOK
<1>4. ASSUME NEW p \in Ops PROVE PairOK(h, p)'
  <2>1. CASE p = o
    <3>1. PendOK(h, o) /\ HeldOK(h, o)
      BY HostFacts
    <3>2. PendOK(h, o)'
      BY <1>2, <3>1 DEF PendOK, Finds, Owned, Plain
    <3>3. JobOK(h, o)' /\ HeldOK(h, o)'
      BY <1>2, <3>1 DEF JobOK, HeldOK, Owned
    <3> QED
      BY <2>1, <3>2, <3>3 DEF PairOK
  <2>2. CASE p # o
    BY <1>2, <2>2, PairKept DEF SamePair, LocalStep
  <2> QED
    BY <2>1, <2>2
<1>5. Occupied' \subseteq Occupied
  BY <1>2 DEF Occupied
<1>6. \A p \in Ops : Owned(h, p) => proc'[h] # "new" /\ (errors' = 0 /\ proc'[h] = "up" => p \in claimed'[h])
  BY <1>2, HostFacts DEF FileOK, Owned
<1> QED
  BY <1>2, <1>3, <1>4, <1>5, <1>6, LocalKept, OccupiedShrinks

-----------------------------------------------------------------------------
(* The round of a scheduler.                                               *)

LEMMA RequeuedPlain ==
    ASSUME TypeInv, SchedInv, NEW o \in Ops
    PROVE  /\ Plain(Requeued(o, file[o])) /\ Requeued(o, file[o]).step = file[o].step
           /\ Requeued(o, file[o]).status \in Open
<1>1. file[o] \in Operation /\ Plain(file[o])
  BY SchedTypes DEF SchedInv, FileOK
<1> QED
  BY <1>1 DEF Requeued, Operation, Plain, Open

LEMMA StatusPlain ==
    ASSUME TypeInv, SchedInv, NEW o \in Ops, NEW s \in Open \cup AtRest
    PROVE  /\ Plain([file[o] EXCEPT !.status = s]) /\ [file[o] EXCEPT !.status = s].step = file[o].step
           /\ [file[o] EXCEPT !.status = s].status = s
<1>1. file[o] \in Operation /\ Plain(file[o])
  BY SchedTypes DEF SchedInv, FileOK
<1> QED
  BY <1>1 DEF Operation, Plain, Open, AtRest, AtGate

\* A process without claims and jobs that plans writes.
LEMMA PlanningHost ==
    ASSUME TypeInv, RoundInv, SchedInv, NEW h \in Hosts, LocalStep(h),
           UNCHANGED <<proc, claimed, job, mem, errors>>, claimed[h] = {}, phase[h] # "run",
           HostOK(h)', phase'[h] # "claim", \A o \in Ops : PendOK(h, o)'
    PROVE  SchedInv'
<1>1. \A o \in Ops : PairOK(h, o)'
  BY HostFacts DEF PairOK, JobOK, HeldOK
<1>2. Occupied' \subseteq Occupied
  BY DEF Occupied, LocalStep
<1>3. \A o \in Ops : Owned(h, o) => proc'[h] # "new" /\ (errors' = 0 /\ proc'[h] = "up" => o \in claimed'[h])
  BY HostFacts DEF FileOK, Owned
<1> QED
  BY <1>1, <1>2, <1>3, LocalKept, OccupiedShrinks

LEMMA BeginSelectionKept ==
    ASSUME TypeInv, RoundInv, SchedInv, NEW h \in Hosts, BeginSelection(h) PROVE SchedInv'
<1>1. phase \in [Actors -> Phase] /\ pend \in [Actors -> Writes] /\ errors \in Nat /\ h \in Actors
      /\ claimed[h] = {}
  BY SchedTypes, HostFacts DEF BeginSelection, HostOK
<1>2. /\ LocalStep(h) /\ UNCHANGED <<file, proc, claimed, job, mem, errors>>
      /\ phase'[h] = "repair" /\ mutex' = h /\ pend'[h] = RepairWrites /\ phase[h] # "run"
  BY <1>1 DEF BeginSelection, LocalStep, Onward, bounds
<1>3. HostOK(h)'
  BY <1>1, <1>2 DEF HostOK
<1>4. ASSUME NEW o \in Ops, RepairWrites[o] # Nothing
      PROVE  /\ Plain(RepairWrites[o]) /\ RepairWrites[o].step = file[o].step
             /\ RepairWrites[o].status \in Open
             /\ file[o].status = "Running" /\ proc[file[o].owner] # "up"
  <2>1. Abandoned(o) /\ RepairWrites[o] = Requeued(o, file[o])
    BY <1>4 DEF RepairWrites
  <2>2. file[o].status = "Running" => file[o].owner # NoHost
    BY SchedTypes DEF SchedInv, FileOK
  <2> QED
    BY <2>1, <2>2, RequeuedPlain DEF Abandoned
<1>5. \A o \in Ops : PendOK(h, o)'
  BY <1>2, <1>4 DEF PendOK, Finds, Plain
<1> QED
  BY <1>1, <1>2, <1>3, <1>5, PlanningHost

LEMMA UpdateDependenciesKept ==
    ASSUME TypeInv, RoundInv, SchedInv, NEW h \in Hosts, UpdateDependencies(h) PROVE SchedInv'
<1>1. /\ phase \in [Actors -> Phase] /\ pend \in [Actors -> Writes] /\ errors \in Nat /\ h \in Actors
      /\ phase[h] = "repair" /\ claimed[h] = {} /\ mutex = h
  BY SchedTypes, HostFacts DEF UpdateDependencies, HostOK
<1>2. /\ LocalStep(h) /\ UNCHANGED <<file, proc, claimed, job, mem, errors, mutex>>
      /\ phase'[h] = "deps" /\ pend'[h] = DependencyWrites
  BY <1>1 DEF UpdateDependencies, LocalStep, Onward, bounds
<1>3. HostOK(h)'
  BY <1>1, <1>2 DEF HostOK
<1>4. ASSUME NEW o \in Ops, DependencyWrites[o] # Nothing
      PROVE  /\ Plain(DependencyWrites[o]) /\ DependencyWrites[o].step = file[o].step
             /\ DependencyWrites[o].status \in {"Queued", "Failed"}
             /\ file[o].status = "WaitingForDependency"
  <2>1. /\ file[o].status = "WaitingForDependency" /\ DependencyStatus(o) # file[o].status
        /\ DependencyWrites[o] = [file[o] EXCEPT !.status = DependencyStatus(o)]
    BY <1>4 DEF DependencyWrites
  <2>2. DependencyStatus(o) \in {"Queued", "Failed"}
    BY <2>1 DEF DependencyStatus
  <2> QED
    BY <2>1, <2>2, StatusPlain DEF Open, AtRest
<1>5. \A o \in Ops : PendOK(h, o)'
  BY <1>2, <1>4 DEF PendOK, Finds, Plain
<1> QED
  BY <1>1, <1>2, <1>3, <1>5, PlanningHost

LEMMA HostProbeKept ==
    ASSUME TypeInv, RoundInv, SchedInv, NEW h \in Hosts, HostProbe(h) PROVE SchedInv'
<1>1. /\ phase \in [Actors -> Phase] /\ pend \in [Actors -> Writes] /\ errors \in Nat /\ h \in Actors
      /\ phase[h] = "due" /\ claimed[h] = {}
  BY SchedTypes, HostFacts DEF HostProbe, HostOK
<1>2. PICK p \in Ops : /\ file[p].status \in AtGate
                       /\ \E r \in ProbeResults(p) : pend' = [pend EXCEPT ![h] = WriteOnly(p, r)]
  BY DEF HostProbe
<1>3. PICK s \in AtGate : pend' = [pend EXCEPT ![h] = WriteOnly(p, [file[p] EXCEPT !.status = s])]
  BY <1>2 DEF ProbeResults
<1>4. /\ LocalStep(h) /\ UNCHANGED <<file, proc, claimed, job, mem, errors>> /\ phase'[h] = "probe"
  BY <1>1, <1>3 DEF HostProbe, LocalStep, Onward, bounds
<1>5. HostOK(h)'
  BY <1>1, <1>4 DEF HostOK
<1>6. PICK r : /\ r = [file[p] EXCEPT !.status = s] /\ Plain(r) /\ r.step = file[p].step /\ r.status = s
  BY StatusPlain DEF AtRest
<1>7. \A o \in Ops : pend'[h][o] = IF o = p THEN r ELSE Nothing
  BY <1>1, <1>3, <1>6, WriteOnlyIs
<1>8. \A o \in Ops : PendOK(h, o)'
  BY <1>2, <1>4, <1>6, <1>7 DEF PendOK, Finds, Plain
<1> QED
  BY <1>1, <1>4, <1>5, <1>8, PlanningHost

\* At its end a round owns nothing any more.
LEMMA RoundEndKept ==
    ASSUME TypeInv, RoundInv, SchedInv, NEW h \in Hosts, EndRound(h) \/ NextRound(h) PROVE SchedInv'
<1>1. /\ phase \in [Actors -> Phase] /\ pend \in [Actors -> Writes] /\ errors \in Nat /\ h \in Actors
      /\ claimed \in [Hosts -> SUBSET Ops]
  BY SchedTypes
<1>2. /\ LocalStep(h) /\ UNCHANGED <<file, proc, pend, job, errors>> /\ pend[h] = NoWrites
      /\ phase[h] \in {"check", "due", "probe"} /\ phase'[h] \in {"due", "idle"}
      /\ claimed'[h] = {} \/ (claimed' = claimed /\ phase[h] # "check")
  <2>1. CASE EndRound(h)
    BY <1>1, <2>1 DEF EndRound, LocalStep, Onward, bounds, Idle
  <2>2. CASE NextRound(h)
    BY <1>1, <2>2 DEF NextRound, LocalStep, Onward, bounds, Idle
  <2> QED
    BY <2>1, <2>2
<1>3. claimed'[h] = {}
  BY <1>2, HostFacts DEF HostOK
<1>4. ASSUME NEW o \in Ops, Owned(h, o), errors = 0 PROVE FALSE
  <2>1. o \in claimed[h]
    BY <1>2, <1>4, HostFacts DEF FileOK, Owned
  <2> QED
    BY <1>2, <1>4, <2>1, HostFacts DEF HeldOK, HostOK, NoWrites
<1>5. \A o \in Ops : Owned(h, o) => proc[h] # "new"
  BY HostFacts DEF FileOK, Owned
<1> QED
  BY <1>2, <1>3, <1>4, <1>5, HostFacts, EmptyHost

\* The operations of a selection fit to what is occupied, and are claimed one by
\* one while the mutex is held.
LEMMA SelectKept ==
    ASSUME TypeInv, RoundInv, SchedInv, NEW h \in Hosts, Select(h) PROVE SchedInv'
<1>1. /\ TypeOK /\ phase \in [Actors -> Phase] /\ pend \in [Actors -> Writes] /\ errors \in Nat /\ h \in Actors
      /\ claimed \in [Hosts -> SUBSET Ops] /\ phase[h] = "deps" /\ claimed[h] = {} /\ mutex = h
      /\ \A o \in Ops : job[h][o] = "off"
  BY SchedTypes, HostFacts DEF Select, HostOK
<1>2. PICK S \in SUBSET Candidates :
        /\ IsSelection(S) /\ claimed' = [claimed EXCEPT ![h] = S]
        /\ pend' = [pend EXCEPT ![h] = [o \in Ops |-> IF o \in S THEN Claim(h, file[o]) ELSE Nothing]]
  BY DEF Select
<1>3. /\ LocalStep(h) /\ UNCHANGED <<file, proc, job, mem, errors, mutex>>
      /\ phase'[h] = "claim" /\ claimed'[h] = S
      /\ \A o \in Ops : pend'[h][o] = IF o \in S THEN Claim(h, file[o]) ELSE Nothing
  BY <1>1, <1>2 DEF Select, LocalStep, Onward, bounds
<1>4. HostOK(h)'
  BY <1>1, <1>3 DEF HostOK
<1>5. ASSUME NEW o \in S
      PROVE  /\ file[o].status = "Queued" /\ Claim(h, file[o]).step = file[o].step
             /\ Claim(h, file[o]).status = "Running" /\ Claim(h, file[o]).owner = h
             /\ Plain(Claim(h, file[o])) /\ Claim(h, file[o]) # Nothing
  <2>1. o \in Ops /\ file[o].status \in {"Queued", "CleanupQueued"}
    BY DEF Candidates
  <2>2. file[o] \in Operation /\ Plain(file[o])
    BY <2>1, SchedTypes, HostFacts DEF FileOK
  <2>3. file[o].status = "Queued"
    BY <2>1, <2>2 DEF Plain
  <2>4. Claim(h, file[o]) \in Operation
    BY <2>2 DEF Claim, Operation, Status
  <2> QED
    BY <2>2, <2>3, <2>4, NothingAssumption DEF Claim, Operation, Plain
<1>6. \A o \in Ops : PendOK(h, o)'
  BY <1>3, <1>5 DEF PendOK, Finds, Plain
<1>7. \A o \in Ops : JobOK(h, o)' /\ HeldOK(h, o)'
  BY <1>1, <1>3, <1>5 DEF JobOK, HeldOK
<1>8. Occupied' = Running \cup S
  <2>1. \A g \in Hosts : g # h => phase[g] # "claim" /\ phase'[g] = phase[g]
    BY <1>1, <1>3, HostFacts DEF HostOK, LocalStep
  <2>2. S \subseteq Ops
    BY DEF Candidates
  <2> QED
    BY <1>3, <1>5, <2>1, <2>2 DEF Occupied, Running
<1>9. OccupiedFits'
  <2>1. Running \subseteq Occupied /\ IsFiniteSet(Occupied)
    BY QueueAssumption, FS_Subset DEF Running, Occupied
  <2>2. Cardinality(Running) <= MaxWorkers
    <3>1. Cardinality(Running) <= Cardinality(Occupied) /\ IsFiniteSet(Running)
      BY <2>1, FS_Subset
    <3>2. Cardinality(Running) \in Nat /\ Cardinality(Occupied) \in Nat
      BY <2>1, <3>1, FS_CardinalityType
    <3> QED
      BY <3>1, <3>2, QueueAssumption DEF SchedInv, OccupiedFits
  <2>3. Cardinality(Running \cup S) <= MaxWorkers
    BY <1>1, <1>2, <2>2, SelectionSize
  <2>4. \A o \in Running, p \in S : Compatible(o, p) /\ Compatible(p, o)
    <3>1. \A o \in Running, p \in S : Compatible(o, p)
      BY <1>2 DEF IsSelection, Fits
    <3> QED
      BY <3>1, CompatibleSymmetric DEF Running, Candidates
  <2>5. \A o, p \in S : o # p => Compatible(o, p)
    BY <1>1, <1>2, SelectionCompatible
  <2>6. \A o, p \in Running : o # p => Compatible(o, p)
    BY <2>1 DEF SchedInv, OccupiedFits
  <2>7. \A o, p \in Running \cup S : o # p => Compatible(o, p)
    BY <2>4, <2>5, <2>6
  <2> QED
    BY <1>8, <2>3, <2>7 DEF OccupiedFits, Compatible
<1>10. \A o \in Ops : Owned(h, o) => proc'[h] # "new" /\ (errors' = 0 /\ proc'[h] = "up" => o \in claimed'[h])
  BY <1>1, <1>3, HostFacts DEF FileOK, Owned
<1> QED
  BY <1>3, <1>4, <1>6, <1>7, <1>9, <1>10, LocalKept DEF PairOK

LEMMA StartJobsKept ==
    ASSUME TypeInv, RoundInv, SchedInv, NEW h \in Hosts, StartJobs(h) PROVE SchedInv'
<1>1. /\ phase \in [Actors -> Phase] /\ pend \in [Actors -> Writes] /\ errors \in Nat /\ h \in Actors
      /\ job \in [Hosts -> [Ops -> JobState]] /\ phase[h] = "claim" /\ mutex = h
  BY SchedTypes, HostFacts DEF StartJobs, HostOK
<1>2. /\ LocalStep(h) /\ UNCHANGED <<file, proc, pend, claimed, mem, errors>> /\ pend[h] = NoWrites
      /\ phase'[h] = IF claimed[h] = {} THEN "due" ELSE "run"
      /\ \A o \in Ops : job'[h][o] = IF o \in claimed[h] THEN "new" ELSE "off"
  BY <1>1 DEF StartJobs, LocalStep, Onward, bounds, Idle
<1>3. HostOK(h)'
  BY <1>2 DEF HostOK
<1>4. ASSUME NEW o \in Ops PROVE PairOK(h, o)'
  <2>1. PendOK(h, o)'
    BY <1>2 DEF PendOK, NoWrites
  <2>2. o \in claimed[h] => Owned(h, o)
    BY <1>1, <1>2, HostFacts DEF HeldOK, NoWrites
  <2>3. JobOK(h, o)' /\ HeldOK(h, o)'
    BY <1>2, <2>2 DEF JobOK, HeldOK, Owned
  <2> QED
    BY <2>1, <2>3 DEF PairOK
<1>5. Occupied' \subseteq Occupied
  BY <1>2 DEF Occupied, LocalStep
<1>6. \A o \in Ops : Owned(h, o) => proc'[h] # "new" /\ (errors' = 0 /\ proc'[h] = "up" => o \in claimed'[h])
  BY <1>2, HostFacts DEF FileOK, Owned
<1> QED
  BY <1>2, <1>3, <1>4, <1>5, <1>6, LocalKept, OccupiedShrinks

LEMMA CheckJobsKept ==
    ASSUME TypeInv, RoundInv, SchedInv, NEW h \in Hosts, CheckJobs(h) PROVE SchedInv'
<1>1. /\ phase \in [Actors -> Phase] /\ pend \in [Actors -> Writes] /\ errors \in Nat /\ h \in Actors
      /\ phase[h] = "run"
  BY SchedTypes, HostFacts DEF CheckJobs
<1>2. /\ LocalStep(h) /\ UNCHANGED <<file, proc, claimed, job, mem, errors>> /\ phase'[h] = "check"
      /\ \A o \in Ops : job[h][o] = "off" /\ pend'[h][o] = IF o \in claimed[h] /\ file[o].status = "Running"
                                                           THEN Requeued(o, file[o]) ELSE Nothing
  BY <1>1 DEF CheckJobs, LocalStep, Onward, bounds
<1>3. HostOK(h)'
  BY <1>2 DEF HostOK
<1>4. ASSUME NEW o \in Ops PROVE PairOK(h, o)'
  <2>1. Requeued(o, file[o]) # Nothing
    BY SchedTypes, RequeuedType, NothingAssumption
  <2>2. o \in claimed[h] /\ file[o].status = "Running" => Owned(h, o)
    BY <1>1, HostFacts DEF HeldOK, AtRest, AtGate
  <2>3. PendOK(h, o)'
    BY <1>2, <2>2, RequeuedPlain DEF PendOK, Finds, Plain, Owned
  <2>4. JobOK(h, o)' /\ HeldOK(h, o)'
    BY <1>2, <2>1 DEF JobOK, HeldOK, Owned
  <2> QED
    BY <2>3, <2>4 DEF PairOK
<1>5. Occupied' \subseteq Occupied
  BY <1>2 DEF Occupied, LocalStep
<1>6. \A o \in Ops : Owned(h, o) => proc'[h] # "new" /\ (errors' = 0 /\ proc'[h] = "up" => o \in claimed'[h])
  BY <1>2, HostFacts DEF FileOK, Owned
<1> QED
  BY <1>2, <1>3, <1>4, <1>5, <1>6, LocalKept, OccupiedShrinks

-----------------------------------------------------------------------------
(* Files are written.                                                      *)

\* A pending write is still right when it is made.
LEMMA WriteFileKept ==
    ASSUME TypeInv, RoundInv, SchedInv, NEW h \in Hosts, NEW o \in Ops, WriteFile(h, o) PROVE SchedInv'
<1> DEFINE r == pend[h][o]
<1>1. /\ file \in [Ops -> Operation] /\ pend \in [Actors -> Writes] /\ errors \in Nat /\ h \in Actors
      /\ Hosts \subseteq Actors
  BY SchedTypes
<1>2. /\ r # Nothing /\ file'[o] = r /\ pend'[h][o] = Nothing
      /\ \A p \in Ops : p # o => file'[p] = file[p]
      /\ \A g \in Hosts, p \in Ops : g # h \/ p # o => pend'[g][p] = pend[g][p]
      /\ UNCHANGED <<proc, mutex, phase, claimed, job, mem, errors>>
  BY <1>1 DEF WriteFile, bounds, Writes
<1>3. Plain(r) /\ r.step = file[o].step /\ Finds(h, o, r) /\ proc[h] = "up" /\ HostOK(h)
  BY <1>2, HostFacts DEF PendOK, Finds
<1> HIDE DEF r
<1>4. OperationStep(o)
  BY <1>1, <1>2 DEF OperationStep, Onward
<1>5. r.status = "Running" => phase[h] = "claim" /\ r.owner = h /\ o \in claimed[h]
  BY <1>3 DEF Finds, Open, AtGate
<1>6. FileOK(o)'
  BY <1>2, <1>3, <1>5 DEF FileOK, Plain
<1>7. CASE phase[h] = "probe"
  <2>1. r.status \in AtGate /\ file[o].status \in AtRest /\ file[o].status # "Running"
    BY <1>3, <1>7 DEF Finds, AtRest, AtGate
  <2>2. ASSUME NEW g \in Hosts PROVE PairOK(g, o)'
    <3>1. PendOK(g, o) /\ JobOK(g, o) /\ HeldOK(g, o)
      BY HostFacts
    <3>2. PendOK(g, o)'
      <4>1. CASE g = h
        BY <1>2, <4>1 DEF PendOK
      <4>2. CASE g # h /\ pend[g][o] # Nothing
        <5>1. phase[g] = "probe"
          BY <1>2, <4>2, WritesAlone DEF r
        <5> QED
          BY <1>2, <1>3, <2>1, <3>1, <4>2, <5>1 DEF PendOK, Finds, Plain
      <4>3. CASE g # h /\ pend[g][o] = Nothing
        BY <1>2, <4>3 DEF PendOK
      <4> QED
        BY <4>1, <4>2, <4>3
    <3>3. JobOK(g, o)'
      BY <1>2, <1>3, <2>1, <3>1 DEF JobOK, Owned, Plain, AtRest
    <3>4. HeldOK(g, o)'
      <4>1. phase[g] # "claim" \/ o \notin claimed[g]
        BY <1>2, <1>7, <2>1, <3>1, WritesAlone DEF HeldOK, Owned, r
      <4> QED
        BY <1>2, <2>1, <4>1 DEF HeldOK, Owned, AtRest, AtGate
    <3> QED
      BY <3>2, <3>3, <3>4 DEF PairOK
  <2>3. Occupied' \subseteq Occupied
    BY <1>2, <1>5, <1>7 DEF Occupied
  <2> QED
    BY <1>4, <1>6, <2>2, <2>3, OperationKept
<1>8. CASE phase[h] # "probe"
  <2>1. /\ file[o].status \notin AtRest
        /\ \A g \in Hosts : Owned(g, o) => phase[g] # "run"
        /\ \A g \in Hosts : Owned(g, o) /\ g # h => phase[g] # "claim"
    <3>1. CASE phase[h] = "repair"
      BY <1>3, <1>8, <3>1, HostFacts DEF Finds, Owned, AtRest, AtGate
    <3>2. CASE phase[h] = "check"
      BY <1>3, <1>8, <3>2 DEF Finds, Owned, AtRest, AtGate
    <3>3. CASE phase[h] \notin {"repair", "check"}
      BY <1>3, <1>8, <3>3 DEF Finds, Owned, AtRest, AtGate
    <3> QED
      BY <3>1, <3>2, <3>3
  <2>2. \A g \in Hosts : job[g][o] = "off" /\ (o \in claimed[g] => phase[g] # "run")
    BY <2>1, NobodyExecutes
  <2>3. ASSUME NEW g \in Hosts, g # h PROVE pend[g][o] = Nothing
    BY <1>2, <1>8, <2>3, WritesAlone DEF r
  <2>4. ASSUME NEW g \in Hosts PROVE PairOK(g, o)'
    <3>1. PendOK(g, o)'
      BY <1>2, <2>3 DEF PendOK
    <3>2. JobOK(g, o)'
      BY <1>2, <2>2 DEF JobOK
    <3>3. HeldOK(g, o)'
      <4>1. CASE g = h
        <5>1. phase[h] = "claim" => Owned(h, o)'
          BY <1>2, <1>3 DEF Finds, Owned
        <5> QED
          BY <1>2, <1>5, <2>2, <4>1, <5>1 DEF HeldOK, Owned
      <4>2. CASE g # h
        <5>1. o \in claimed[g] => phase[g] # "claim"
          BY <2>1, <2>3, <4>2, HostFacts DEF HeldOK
        <5> QED
          BY <1>2, <1>5, <2>2, <4>2, <5>1 DEF HeldOK, Owned
      <4> QED
        BY <4>1, <4>2
    <3> QED
      BY <3>1, <3>2, <3>3 DEF PairOK
  <2>5. Occupied' \subseteq Occupied
    BY <1>2, <1>5 DEF Occupied, r
  <2> QED
    BY <1>4, <1>6, <2>4, <2>5, OperationKept
<1> QED
  BY <1>7, <1>8

\* Nobody else touches an operation while its owner executes it.
LEMMA OwnerAlone ==
    ASSUME TypeInv, RoundInv, SchedInv, NEW h \in Hosts, NEW o \in Ops,
           job[h][o] \in {"new", "boundary", "step"}
    PROVE  /\ phase[h] = "run" /\ proc[h] = "up" /\ o \in claimed[h] /\ Owned(h, o)
           /\ job[h][o] # "new" => mem[h][o] = file[o]
           /\ \A g \in Hosts : pend[g][o] = Nothing
           /\ \A g \in Hosts : g # h => job[g][o] = "off" /\ (o \in claimed[g] => phase[g] = "check")
<1>1. /\ phase[h] = "run" /\ proc[h] = "up" /\ o \in claimed[h] /\ Owned(h, o)
      /\ job[h][o] # "new" => mem[h][o] = file[o]
  BY HostFacts DEF JobOK
<1>2. ASSUME NEW g \in Hosts PROVE pend[g][o] = Nothing
  <2>1. PendOK(g, o)
    BY HostFacts
  <2> QED
    BY <1>1, <2>1 DEF PendOK, Finds, Owned, AtGate
<1>3. ASSUME NEW g \in Hosts, g # h PROVE job[g][o] = "off" /\ (o \in claimed[g] => phase[g] = "check")
  <2>1. JobOK(g, o) /\ HeldOK(g, o) /\ HostOK(g) /\ job[g][o] \in JobState
    BY HostFacts, SchedTypes
  <2>2. ~Owned(g, o) /\ file[o].status \notin AtRest
    BY <1>1, <1>3 DEF Owned, AtRest, AtGate
  <2>3. job[g][o] = "off"
    BY <2>1, <2>2 DEF JobOK, JobState
  <2>4. o \in claimed[g] => phase[g] = "check"
    BY <1>2, <2>1, <2>2 DEF HeldOK, HostOK
  <2> QED
    BY <2>3, <2>4
<1> QED
  BY <1>1, <1>2, <1>3

\* So it may write what it likes, as long as it keeps it, or puts it to rest.
LEMMA OwnerSaves ==
    ASSUME TypeInv, RoundInv, SchedInv, NEW h \in Hosts, NEW o \in Ops,
           job[h][o] \in {"new", "boundary", "step"}, NEW r,
           OperationStep(o), UNCHANGED pend, file'[o] = r, Plain(r),
           \A g \in Hosts \ {h} : job'[g][o] = job[g][o] /\ mem'[g][o] = mem[g][o],
           \/ /\ r.status = "Running" /\ r.owner = h
              /\ job'[h][o] \in {"boundary", "step"} /\ mem'[h][o] = r
           \/ /\ r.status \in AtRest
              /\ job'[h][o] = "off" \/ (job'[h][o] = "summary" /\ mem'[h][o] = r)
    PROVE  SchedInv'
<1>1. /\ phase[h] = "run" /\ proc[h] = "up" /\ o \in claimed[h] /\ Owned(h, o)
      /\ \A g \in Hosts : pend[g][o] = Nothing
      /\ \A g \in Hosts : g # h => job[g][o] = "off" /\ (o \in claimed[g] => phase[g] = "check")
  BY OwnerAlone
<1>2. UNCHANGED <<proc, phase, claimed>>
  BY DEF OperationStep
<1>3. "Running" \notin AtRest
  BY DEF AtRest, AtGate
<1>4. FileOK(o)'
  BY <1>1, <1>2, <1>3 DEF FileOK, Plain
<1>5. ASSUME NEW g \in Hosts PROVE PairOK(g, o)'
  <2>1. PendOK(g, o)'
    BY <1>1 DEF PendOK
  <2>2. JobOK(g, o)'
    <3>1. CASE g = h
      BY <1>3, <3>1 DEF JobOK, Owned, Plain
    <3>2. CASE g # h
      BY <1>1, <3>2 DEF JobOK
    <3> QED
      BY <3>1, <3>2
  <2>3. HeldOK(g, o)'
    BY <1>1, <1>2, <1>3 DEF HeldOK, Owned
  <2> QED
    BY <2>1, <2>2, <2>3 DEF PairOK
<1>6. Occupied' \subseteq Occupied
  BY <1>1, <1>2 DEF Occupied, OperationStep, Owned
<1> QED
  BY <1>4, <1>5, <1>6, OperationKept

\* The summary of an operation at rest fails: the failure is recorded on top.
LEMMA SummaryFails ==
    ASSUME TypeInv, RoundInv, SchedInv, NEW h \in Hosts, NEW o \in Ops,
           job[h][o] = "summary", JobFail(h, o)
    PROVE  SchedInv'
<1>1. /\ file \in [Ops -> Operation] /\ job \in [Hosts -> [Ops -> JobState]]
      /\ mem \in [Hosts -> [Ops -> Operation]] /\ errors \in Nat
  BY SchedTypes
<1>2. PICK r : r = [mem[h][o] EXCEPT !.status = "Failed", !.owner = NoHost]
  OBVIOUS
<1>3. /\ file'[o] = r /\ UNCHANGED <<proc, mutex, phase, pend, claimed>> /\ errors' = errors + 1
      /\ job'[h][o] = "off" /\ \A p \in Ops : p # o => file'[p] = file[p]
      /\ \A g \in Hosts, p \in Ops : g # h \/ p # o => job'[g][p] = job[g][p] /\ mem'[g][p] = mem[g][p]
  BY <1>1, <1>2 DEF JobFail, EndJob
<1>4. /\ r.status = "Failed" /\ Plain(r) /\ r.step = file[o].step /\ file[o].status \in AtRest
  <2>1. mem[h][o] \in Operation /\ Plain(mem[h][o]) /\ mem[h][o].step = file[o].step /\ file[o].status \in AtRest
    BY <1>1, HostFacts DEF JobOK
  <2>2. r.status = "Failed" /\ r.step = mem[h][o].step
    BY <1>2, <2>1 DEF Operation
  <2>3. r.cancel = mem[h][o].cancel /\ r.cleanup = mem[h][o].cleanup
    BY <1>2, <2>1 DEF Operation
  <2> QED
    BY <2>1, <2>2, <2>3 DEF Plain
<1>5. OperationStep(o)
  BY <1>1, <1>3 DEF OperationStep, Onward
<1>6. FileOK(o)'
  BY <1>3, <1>4 DEF FileOK, Plain
<1>7. ASSUME NEW g \in Hosts PROVE PairOK(g, o)'
  <2>1. PendOK(g, o) /\ JobOK(g, o) /\ HeldOK(g, o)
    BY HostFacts
  <2>2. PendOK(g, o)'
    BY <1>1, <1>3, <1>4, <2>1 DEF PendOK, Finds, Owned, Plain, AtRest, AtGate
  <2>3. JobOK(g, o)'
    <3>1. CASE g = h
      BY <1>3, <3>1 DEF JobOK
    <3>2. CASE g # h
      BY <1>3, <1>4, <2>1, <3>2 DEF JobOK, Owned, Plain, AtRest, AtGate
    <3> QED
      BY <3>1, <3>2
  <2>4. HeldOK(g, o)'
    <3>1. pend[g][o] # Nothing => phase[g] # "claim"
      BY <1>4, <2>1 DEF PendOK, Finds, AtRest, AtGate
    <3> QED
      BY <1>3, <1>4, <2>1, <3>1 DEF HeldOK, Owned, AtRest, AtGate
  <2> QED
    BY <2>2, <2>3, <2>4 DEF PairOK
<1>8. Occupied' \subseteq Occupied
  BY <1>3, <1>4 DEF Occupied
<1> QED
  BY <1>5, <1>6, <1>7, <1>8, OperationKept

LEMMA JobStepKept ==
    ASSUME TypeInv, RoundInv, SchedInv, NEW h \in Hosts, NEW o \in Ops, JobStep(h, o) PROVE SchedInv'
<1>1. /\ file \in [Ops -> Operation] /\ job \in [Hosts -> [Ops -> JobState]]
      /\ mem \in [Hosts -> [Ops -> Operation]] /\ errors \in Nat
      /\ file[o] \in Operation /\ mem[h][o] \in Operation
  BY SchedTypes
<1>2. /\ JobOK(h, o) /\ Plain(file[o])
  BY HostFacts DEF FileOK
<1>3. job[h][o] \in {"new", "boundary", "step"} =>
        /\ Owned(h, o) /\ (job[h][o] # "new" => mem[h][o] = file[o])
  BY OwnerAlone
\* A step of the owner puts one record into its file.
<1>4. ASSUME NEW r, NEW next, SaveAndGoOn(h, o, r, next), UNCHANGED <<proc, mutex, phase, pend, claimed, bounds>>,
             job[h][o] \in {"new", "boundary", "step"}, Plain(r),
             \/ r.status = "Running" /\ r.owner = h /\ next \in {"boundary", "step"}
             \/ r.status \in AtRest /\ next = "summary"
      PROVE  SchedInv'
  <2>1. /\ file'[o] = r /\ job'[h][o] = next /\ mem'[h][o] = r
        /\ \A p \in Ops : p # o => file'[p] = file[p]
        /\ \A g \in Hosts, p \in Ops : g # h \/ p # o => job'[g][p] = job[g][p] /\ mem'[g][p] = mem[g][p]
    BY <1>1, <1>4 DEF SaveAndGoOn
  <2>2. OperationStep(o) /\ UNCHANGED pend
    BY <1>1, <1>4, <2>1 DEF OperationStep, Onward, bounds
  <2> QED
    BY <1>4, <2>1, <2>2, OwnerSaves
<1>5. CASE JobFail(h, o)
  <2>1. CASE job[h][o] = "summary"
    BY <1>5, <2>1, SummaryFails
  <2>2. CASE job[h][o] \in {"step", "boundary"}
    <3>1. PICK r : r = [mem[h][o] EXCEPT !.status = "Failed", !.owner = NoHost]
      OBVIOUS
    <3>2. /\ file'[o] = r /\ UNCHANGED <<proc, mutex, phase, pend, claimed>> /\ errors' \in Nat /\ errors' >= errors
          /\ job'[h][o] = "off" /\ \A p \in Ops : p # o => file'[p] = file[p]
          /\ \A g \in Hosts, p \in Ops : g # h \/ p # o => job'[g][p] = job[g][p] /\ mem'[g][p] = mem[g][p]
      BY <1>1, <1>5, <3>1 DEF JobFail, EndJob
    <3>3. r.status = "Failed" /\ Plain(r)
      <4>1. mem[h][o] = file[o]
        BY <1>3, <2>2
      <4>2. r.status = "Failed" /\ r.cancel = mem[h][o].cancel /\ r.cleanup = mem[h][o].cleanup
        BY <1>1, <3>1 DEF Operation
      <4> QED
        BY <1>2, <4>1, <4>2 DEF Plain
    <3>4. OperationStep(o)
      BY <3>2 DEF OperationStep, Onward
    <3> QED
      BY <2>2, <3>2, <3>3, <3>4, OwnerSaves DEF AtRest
  <2> QED
    BY <1>2, <1>5, <2>1, <2>2 DEF JobFail, JobOK
<1>6. CASE JobStart(h, o) /\ UNCHANGED <<proc, mutex, phase, pend, claimed, bounds>>
  <2>1. job[h][o] = "new" /\ ~file[o].cleanup /\ file[o].status = "Running"
    BY <1>2, <1>3, <1>6 DEF JobStart, Plain, Owned
  <2>2. PICK r : r = Claim(h, file[o])
    OBVIOUS
  <2>3. SaveAndGoOn(h, o, r, "boundary")
    BY <1>6, <2>1, <2>2 DEF JobStart
  <2>4. r.status = "Running" /\ r.owner = h /\ Plain(r)
    BY <1>1, <1>2, <2>2 DEF Claim, Operation, Plain
  <2> QED
    BY <1>4, <1>6, <2>1, <2>3, <2>4
<1>7. CASE JobCleanup(h, o)
  BY <1>2, <1>7 DEF JobCleanup, JobOK
<1>8. CASE JobCancel(h, o)
  BY <1>2, <1>3, <1>8 DEF JobCancel, Plain
<1>9. CASE JobBeginStep(h, o) /\ UNCHANGED <<proc, mutex, phase, pend, claimed, bounds>>
  <2>1. job[h][o] = "boundary" /\ SaveAndGoOn(h, o, mem[h][o], "step")
    BY <1>9 DEF JobBeginStep
  <2>2. mem[h][o].status = "Running" /\ mem[h][o].owner = h /\ Plain(mem[h][o])
    BY <1>2, <1>3, <2>1 DEF Owned
  <2> QED
    BY <1>4, <1>9, <2>1, <2>2
<1>10. CASE JobStepDone(h, o) /\ UNCHANGED <<proc, mutex, phase, pend, claimed, bounds>>
  <2>1. PICK r : r = [mem[h][o] EXCEPT !.step = @ + 1]
    OBVIOUS
  <2>2. job[h][o] = "step" /\ SaveAndGoOn(h, o, r, "boundary") /\ mem[h][o] = file[o]
    BY <1>3, <1>10, <2>1 DEF JobStepDone
  <2>3. r.status = file[o].status /\ r.owner = file[o].owner
    BY <1>1, <2>1, <2>2 DEF Operation
  <2>4. r.cancel = file[o].cancel /\ r.cleanup = file[o].cleanup
    BY <1>1, <2>1, <2>2 DEF Operation
  <2>5. r.status = "Running" /\ r.owner = h /\ Plain(r)
    BY <1>2, <1>3, <2>2, <2>3, <2>4 DEF Owned, Plain
  <2> QED
    BY <1>4, <1>10, <2>2, <2>5
<1>11. CASE (JobUserGate(h, o) \/ JobComplete(h, o)) /\ UNCHANGED <<proc, mutex, phase, pend, claimed, bounds>>
  <2>1. PICK s, r :
          /\ r = [mem[h][o] EXCEPT !.status = s, !.owner = NoHost] /\ s \in {"WaitingForUser", "Completed"}
          /\ job[h][o] \in {"step", "boundary"} /\ SaveAndGoOn(h, o, r, "summary")
    BY <1>11 DEF JobUserGate, JobComplete, SaveAndSummarize
  <2>2. mem[h][o] = file[o]
    BY <1>3, <2>1
  <2>3. r.status = s /\ r.cancel = file[o].cancel /\ r.cleanup = file[o].cleanup
    BY <1>1, <2>1, <2>2 DEF Operation
  <2>4. Plain(r) /\ r.status \in AtRest
    BY <1>2, <2>1, <2>3 DEF Plain, AtRest, AtGate
  <2> QED
    BY <1>4, <1>11, <2>1, <2>4
<1>12. CASE JobSummary(h, o) /\ UNCHANGED <<proc, mutex, phase, pend, claimed, bounds>>
  BY <1>12, EndingSteps
<1> QED
  BY <1>5, <1>6, <1>7, <1>8, <1>9, <1>10, <1>11, <1>12 DEF JobStep

\* A step of any number of schedulers.
LEMMA SchedStep ==
    ASSUME Sessions = {}, TypeInv, RoundInv, SchedInv, [Next]_vars PROVE SchedInv'
<1>1. CASE \E h \in Hosts : StartHost(h) \/ Crash(h) \/ SchedulerStep(h)
  BY <1>1, ProcessSteps, BeginSelectionKept, SelectKept, StartJobsKept, CheckJobsKept, RoundEndKept, HostProbeKept
     DEF SchedulerStep
<1>2. CASE \E h \in Hosts, o \in Ops : JobStep(h, o) \/ JobAbort(h, o)
  BY <1>2, JobStepKept, EndingSteps
<1>3. CASE \E a \in Actors : CommandStep(a) \/ CommandFails(a)
  BY <1>3, UpdateDependenciesKept, WriteFileKept, LosingSteps DEF CommandStep, EndCommand, Actors
<1>4. CASE UNCHANGED vars
  <2>1. ASSUME NEW h \in Hosts PROVE HostOK(h)'
    BY <1>4 DEF vars, SchedInv, HostOK
  <2>2. ASSUME NEW o \in Ops PROVE FileOK(o)'
    BY <1>4 DEF vars, bounds, SchedInv, FileOK, Plain
  <2>3. ASSUME NEW h \in Hosts, NEW o \in Ops PROVE PairOK(h, o)'
    <3>1. Onward /\ SamePair(h, o)
      BY <1>4, SchedTypes DEF vars, Onward, SamePair
    <3> QED
      BY <3>1, PairKept
  <2>4. Occupied' \subseteq Occupied
    BY <1>4 DEF vars, Occupied
  <2> QED
    BY <2>1, <2>2, <2>3, <2>4, OccupiedShrinks DEF SchedInv
<1> QED
  BY <1>1, <1>2, <1>3, <1>4 DEF Next

-----------------------------------------------------------------------------
(* The theorems.                                                           *)

QueueInv ==
    /\ TypeInv /\ RoundInv
    /\ Sessions = {} => SchedInv
    /\ errors <= MaxErrors

LEMMA InitSched == Init => QueueInv
<1> SUFFICES ASSUME Init PROVE QueueInv
  OBVIOUS
<1>1. TypeInv /\ RoundInv /\ errors <= MaxErrors
  BY InitOK, QueueAssumption DEF Init, RoundInv, OneHost, RoundsLive, JobsInRound, ClaimsCompatible, Actors
<1>2. /\ \A o \in Ops : file[o] = Fresh(o)
      /\ \A h \in Hosts : phase[h] = "idle" /\ pend[h] = NoWrites /\ claimed[h] = {}
      /\ \A h \in Hosts, o \in Ops : job[h][o] = "off"
  BY DEF Init, Actors
<1>3. \A o \in Ops : Plain(file[o]) /\ file[o].status # "Running"
  <2>1. ASSUME NEW o \in Ops PROVE Plain(Fresh(o)) /\ Fresh(o).status # "Running"
    BY DEF Fresh, Plain
  <2> QED
    BY <1>2, <2>1
<1>4. \A h \in Hosts : HostOK(h)
  BY <1>2 DEF HostOK
<1>5. \A o \in Ops : FileOK(o)
  BY <1>3 DEF FileOK
<1>6. \A h \in Hosts, o \in Ops : PairOK(h, o)
  BY <1>2 DEF PairOK, PendOK, JobOK, HeldOK, NoWrites
<1>7. Occupied = {}
  BY <1>2, <1>3 DEF Occupied
<1>8. OccupiedFits
  BY <1>7, FS_EmptySet, QueueAssumption DEF OccupiedFits
<1> QED
  BY <1>1, <1>4, <1>5, <1>6, <1>8 DEF QueueInv, SchedInv

LEMMA ErrorsBounded == ASSUME TypeInv, errors <= MaxErrors, [Next]_vars PROVE errors' <= MaxErrors
<1>1. errors \in Nat /\ MaxErrors \in Nat
  BY QueueAssumption, SchedTypes
<1>2. CASE errors' = errors
  BY <1>1, <1>2
<1>3. CASE errors' = errors + 1 /\ errors < MaxErrors
  BY <1>1, <1>3
<1>4. CASE \E h \in Hosts : StartHost(h) \/ Crash(h) \/ SchedulerStep(h)
  BY <1>2, <1>4 DEF StartHost, Crash, SchedulerStep, BeginSelection, Select, StartJobs, CheckJobs, EndRound,
                    HostProbe, NextRound, bounds
<1>5. CASE \E h \in Hosts, o \in Ops : JobStep(h, o) \/ JobAbort(h, o)
  BY <1>2, <1>3, <1>5 DEF JobStep, JobFail, JobAbort, bounds
<1>6. CASE \E u \in Sessions : SessionStep(u)
  <2>1. PICK u \in Sessions : SessionStep(u)
    BY <1>6
  <2>2. \E command, next, writes : ReadFiles(u, command, next, writes)
    BY <2>1, SessionReads DEF TypeInv
  <2> QED
    BY <1>2, <2>2 DEF ReadFiles, bounds
<1>7. CASE \E a \in Actors : CommandStep(a) \/ CommandFails(a)
  BY <1>2, <1>3, <1>7 DEF CommandStep, UpdateDependencies, EndCommand, WriteFile, CommandFails, bounds
<1>8. CASE UNCHANGED vars
  BY <1>2, <1>8 DEF vars, bounds
<1> QED
  BY <1>4, <1>5, <1>6, <1>7, <1>8 DEF Next

LEMMA QueueInvStep == ASSUME QueueInv, [Next]_vars PROVE QueueInv'
BY TypeStep, RoundStep, SchedStep, ErrorsBounded DEF QueueInv

\* What is executed is owned by the process that executes it.
LEMMA ExecutedIsOwned ==
    ASSUME TypeInv, RoundInv, SchedInv, NEW x \in Executing
    PROVE  /\ x = <<x[1], x[2]>> /\ x[1] \in Hosts /\ x[2] \in Ops
           /\ Owned(x[1], x[2]) /\ x[2] \in Occupied
<1>1. /\ x = <<x[1], x[2]>> /\ x[1] \in Hosts /\ x[2] \in Ops
      /\ job[x[1]][x[2]] \notin {"off", "summary"}
  BY DEF Executing
<1>2. job[x[1]][x[2]] \in JobState /\ JobOK(x[1], x[2])
  BY <1>1, SchedTypes, HostFacts
<1>3. Owned(x[1], x[2])
  BY <1>1, <1>2 DEF JobState, JobOK
<1> QED
  BY <1>1, <1>3 DEF Owned, Occupied

\* Without operators, any number of schedulers on one store, each crashing,
\* failing in its writes and losing its jobs at any moment, executes no operation
\* twice at the same time and nothing together that is not compatible.
THEOREM SchedulersAreExclusive == Spec => [](Sessions = {} => Exclusion)
<1>1. QueueInv => (Sessions = {} => Exclusion)
  <2> SUFFICES ASSUME TypeInv, RoundInv, SchedInv, NEW x \in Executing, NEW y \in Executing, x # y
               PROVE  x[2] # y[2] /\ Compatible(x[2], y[2])
    BY DEF QueueInv, Exclusion
  <2>1. x[2] # y[2]
    BY ExecutedIsOwned DEF Owned
  <2> QED
    BY <2>1, ExecutedIsOwned DEF SchedInv, OccupiedFits
<1> QED
  BY InitSched, QueueInvStep, <1>1, PTL DEF Spec

\* ... and all schedulers together no more than MaxWorkers operations.
THEOREM SchedulersAreLimited == Spec => [](Sessions = {} => WorkerLimit)
<1>1. QueueInv => (Sessions = {} => WorkerLimit)
  <2> SUFFICES ASSUME TypeInv, RoundInv, SchedInv PROVE Cardinality(Executing) <= MaxWorkers
    BY DEF QueueInv, WorkerLimit
  <2> DEFINE f == [x \in Executing |-> x[2]]
  <2>1. f \in Injection(Executing, Occupied)
    BY ExecutedIsOwned DEF Injection, IsInjective, Owned
  <2>2. IsFiniteSet(Occupied)
    BY QueueAssumption, FS_Subset DEF Occupied
  <2>3. Cardinality(Executing) <= Cardinality(Occupied) /\ IsFiniteSet(Executing)
    BY <2>1, <2>2, FS_Injection
  <2>4. Cardinality(Executing) \in Nat /\ Cardinality(Occupied) \in Nat
    BY <2>2, <2>3, FS_CardinalityType
  <2> QED
    BY <2>3, <2>4, QueueAssumption DEF SchedInv, OccupiedFits
<1> QED
  BY InitSched, QueueInvStep, <1>1, PTL DEF Spec

\* As long as no write fails, an operation that is Running belongs to a process
\* that will write it again or whose death the repair notices: slots and locks
\* are not lost.
THEOREM SlotsAreGivenBack == Spec => [](Sessions = {} /\ MaxErrors = 0 => RunningIsOwned)
<1>1. QueueInv => (Sessions = {} /\ MaxErrors = 0 => RunningIsOwned)
  <2> SUFFICES ASSUME TypeInv, RoundInv, SchedInv, errors <= MaxErrors, MaxErrors = 0, NEW o \in Running
               PROVE  /\ file[o].owner \in Hosts
                      /\ proc[file[o].owner] = "dead"
                         \/ (phase[file[o].owner] # "idle" /\ o \in claimed[file[o].owner])
    BY DEF QueueInv, RunningIsOwned
  <2>1. errors = 0 /\ o \in Ops /\ proc \in [Hosts -> {"new", "up", "dead"}]
    BY SchedTypes DEF Running
  <2>2. FileOK(o) /\ file[o].status = "Running"
    BY <2>1, HostFacts DEF Running, SchedInv
  <2>3. file[o].owner \in Hosts /\ proc[file[o].owner] # "new"
        /\ (proc[file[o].owner] = "up" => o \in claimed[file[o].owner])
    BY <2>1, <2>2 DEF FileOK
  <2>4. HostOK(file[o].owner)
    BY <2>3, HostFacts
  <2> QED
    BY <2>1, <2>3, <2>4 DEF HostOK
<1> QED
  BY InitSched, QueueInvStep, <1>1, PTL DEF Spec

\* What a step of the schedulers makes of a file.
LEMMA FileChanges ==
    ASSUME Sessions = {}, TypeInv, RoundInv, SchedInv, [Next]_vars, NEW o \in Ops
    PROVE  /\ file'[o].step >= file[o].step
           /\ errors <= MaxErrors /\ MaxErrors = 0 /\ file[o].status \in Terminal =>
                file'[o].status = file[o].status
<1>1. /\ file \in [Ops -> Operation] /\ pend \in [Actors -> Writes] /\ mem \in [Hosts -> [Ops -> Operation]]
      /\ errors \in Nat /\ file[o] \in Operation /\ file[o].step \in Nat
  BY SchedTypes DEF Operation
<1>2. CASE file'[o] = file[o]
  BY <1>1, <1>2
<1>3. CASE \E h \in Hosts : WriteFile(h, o)
  <2>1. PICK h \in Hosts : WriteFile(h, o)
    BY <1>3
  <2>2. file'[o] = pend[h][o] /\ pend[h][o] # Nothing /\ PendOK(h, o)
    BY <1>1, <2>1, HostFacts DEF WriteFile
  <2>3. file'[o].step = file[o].step
    BY <2>2 DEF PendOK
  <2>4. file[o].status \in Terminal => errors > 0
    BY <2>2 DEF PendOK, Finds, Owned, Terminal, AtGate
  <2> QED
    BY <1>1, <2>3, <2>4
<1>4. CASE \E h \in Hosts : JobStep(h, o)
  <2>1. PICK h \in Hosts : JobStep(h, o)
    BY <1>4
  <2>2. JobOK(h, o) /\ mem[h][o] \in Operation /\ mem[h][o].step \in Nat
    BY <1>1, HostFacts DEF Operation
  <2>3. CASE job[h][o] \in {"new", "boundary", "step"}
    <3>1. /\ file[o].status = "Running" /\ Plain(file[o])
          /\ job[h][o] # "new" => mem[h][o] = file[o]
      BY <2>3, OwnerAlone, HostFacts DEF Owned, FileOK
    <3>2. file'[o].step \in {file[o].step, file[o].step + 1}
      <4>1. CASE JobFail(h, o)
        <5>1. /\ file' = [file EXCEPT ![o] = [mem[h][o] EXCEPT !.status = "Failed", !.owner = NoHost]]
              /\ mem[h][o] = file[o]
          BY <2>3, <3>1, <4>1 DEF JobFail
        <5>2. [mem[h][o] EXCEPT !.status = "Failed", !.owner = NoHost].step = mem[h][o].step
          BY <2>2 DEF Operation
        <5> QED
          BY <1>1, <5>1, <5>2
      <4>2. CASE JobStart(h, o)
        <5>1. file' = [file EXCEPT ![o] = Claim(h, file[o])]
          BY <3>1, <4>2 DEF JobStart, SaveAndGoOn, Plain
        <5>2. Claim(h, file[o]).step = file[o].step
          BY <1>1 DEF Claim, Operation
        <5> QED
          BY <1>1, <5>1, <5>2
      <4>3. CASE JobBeginStep(h, o) \/ JobSummary(h, o)
        BY <1>1, <3>1, <4>3 DEF JobBeginStep, JobSummary, SaveAndGoOn
      <4>4. CASE JobStepDone(h, o)
        <5>1. /\ file' = [file EXCEPT ![o] = [mem[h][o] EXCEPT !.step = @ + 1]]
              /\ mem[h][o] = file[o]
          BY <3>1, <4>4 DEF JobStepDone, SaveAndGoOn
        <5>2. [mem[h][o] EXCEPT !.step = @ + 1].step = mem[h][o].step + 1
          BY <2>2 DEF Operation
        <5> QED
          BY <1>1, <5>1, <5>2
      <4>5. CASE JobUserGate(h, o) \/ JobComplete(h, o)
        <5>1. PICK s : /\ file' = [file EXCEPT ![o] = [mem[h][o] EXCEPT !.status = s, !.owner = NoHost]]
                       /\ mem[h][o] = file[o]
          BY <3>1, <4>5 DEF JobUserGate, JobComplete, SaveAndGoOn, SaveAndSummarize
        <5>2. [mem[h][o] EXCEPT !.status = s, !.owner = NoHost].step = mem[h][o].step
          BY <2>2 DEF Operation
        <5> QED
          BY <1>1, <5>1, <5>2
      <4>6. CASE JobCleanup(h, o) \/ JobCancel(h, o)
        <5>1. job[h][o] = "boundary" /\ mem[h][o].cancel
          BY <2>3, <4>6 DEF JobCleanup, JobCancel
        <5>2. mem[h][o] = file[o] /\ ~file[o].cancel
          BY <3>1, <5>1 DEF Plain
        <5> QED
          BY <5>1, <5>2
      <4> QED
        BY <2>1, <4>1, <4>2, <4>3, <4>4, <4>5, <4>6 DEF JobStep
    <3> QED
      BY <1>1, <3>1, <3>2 DEF Terminal
  <2>4. CASE job[h][o] \notin {"new", "boundary", "step"}
    <3>1. job[h][o] = "summary" /\ (JobFail(h, o) \/ JobSummary(h, o))
      BY <2>1, <2>2, <2>4 DEF JobStep, JobFail, JobStart, JobCleanup, JobCancel, JobBeginStep, JobStepDone,
                              JobUserGate, JobComplete, JobSummary, JobOK
    <3>2. CASE JobSummary(h, o)
      BY <1>2, <3>2 DEF JobSummary
    <3>3. CASE JobFail(h, o)
      <4>1. errors < MaxErrors /\ mem[h][o].step = file[o].step
        BY <2>2, <3>1, <3>3 DEF JobFail, JobOK
      <4>2. file'[o].step = mem[h][o].step
        BY <1>1, <2>2, <3>3 DEF JobFail, Operation
      <4> QED
        BY <1>1, <4>1, <4>2
    <3> QED
      BY <3>1, <3>2, <3>3
  <2> QED
    BY <2>3, <2>4
<1>5. CASE \E h \in Hosts : StartHost(h) \/ Crash(h) \/ SchedulerStep(h)
  BY <1>2, <1>5 DEF StartHost, Crash, SchedulerStep, BeginSelection, Select, StartJobs, CheckJobs, EndRound,
                    HostProbe, NextRound
<1>6. CASE \E h \in Hosts, p \in Ops : JobAbort(h, p) \/ (p # o /\ JobStep(h, p))
  <2>1. PICK h \in Hosts, p \in Ops : JobAbort(h, p) \/ (p # o /\ JobStep(h, p))
    BY <1>6
  <2>2. CASE JobAbort(h, p) \/ JobSummary(h, p)
    <3>1. UNCHANGED file
      BY <2>2 DEF JobAbort, JobSummary
    <3> QED
      BY <1>2, <3>1
  <2>3. CASE p # o /\ JobFail(h, p)
    BY <1>1, <1>2, <2>3 DEF JobFail
  <2>4. CASE p # o /\ \E r, next : SaveAndGoOn(h, p, r, next)
    BY <1>1, <1>2, <2>4 DEF SaveAndGoOn
  <2> QED
    BY <2>1, <2>2, <2>3, <2>4 DEF JobStep, JobStart, JobCleanup, JobCancel, JobBeginStep, JobStepDone,
                                  JobUserGate, JobComplete, SaveAndSummarize
<1>7. CASE \E a \in Actors : \/ UpdateDependencies(a) \/ EndCommand(a) \/ CommandFails(a)
                             \/ \E p \in Ops : p # o /\ WriteFile(a, p)
  BY <1>1, <1>2, <1>7 DEF UpdateDependencies, EndCommand, CommandFails, WriteFile
<1>8. CASE UNCHANGED vars
  BY <1>2, <1>8 DEF vars
<1> QED
  BY <1>3, <1>4, <1>5, <1>6, <1>7, <1>8 DEF Next, CommandStep, Actors

\* A step that has been reached is not taken back, whatever fails or crashes.
THEOREM SchedulersKeepProgress == Spec => (Sessions = {} => ProgressKept)
<1> SUFFICES ASSUME Sessions = {} PROVE Spec => ProgressKept
  OBVIOUS
<1>1. QueueInv /\ [Next]_vars => [\A o \in Ops : file'[o].step >= file[o].step]_vars
  BY FileChanges DEF QueueInv
<1> QED
  BY InitSched, QueueInvStep, <1>1, PTL DEF Spec, ProgressKept

\* As long as no write fails, an operation that has ended stays as it has ended.
THEOREM SchedulersKeepEnds == Spec => (Sessions = {} /\ MaxErrors = 0 => TerminalKept)
<1> SUFFICES ASSUME Sessions = {}, MaxErrors = 0 PROVE Spec => TerminalKept
  OBVIOUS
<1>1. QueueInv /\ [Next]_vars
      => [\A o \in Ops : file[o].status \in Terminal => file'[o].status = file[o].status]_vars
  BY FileChanges DEF QueueInv
<1> QED
  BY InitSched, QueueInvStep, <1>1, PTL DEF Spec, TerminalKept

=============================================================================
