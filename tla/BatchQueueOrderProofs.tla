------------------------ MODULE BatchQueueOrderProofs ------------------------
(***************************************************************************)
(* The order of the queue, what a move makes of it, and how many operations *)
(* a selection takes; for any number of operations and workers.            *)
(*                                                                         *)
(* Both rest on one fact: the number of predecessors is a different one    *)
(* for every operation of a set, so that it numbers the set.               *)
(***************************************************************************)
EXTENDS BatchQueueProofs

-----------------------------------------------------------------------------
(* Before is a strict total order, and the rank in a set numbers the set.  *)

LEMMA KeysType ==
    ASSUME TypeOK, NEW o \in Ops
    PROVE  file[o].rank \in Nat /\ file[o].pos \in Nat /\ Created[o] \in Nat
<1>1. file[o] \in Operation
  BY DEF TypeOK
<1> QED
  BY <1>1, QueueAssumption DEF Operation

LEMMA BeforeOrder ==
    ASSUME TypeOK, NEW o \in Ops, NEW p \in Ops, NEW q \in Ops
    PROVE  ~Before(o, o) /\ (Before(o, p) /\ Before(p, q) => Before(o, q))
BY KeysType DEF Before

RankIn(P, p) == Cardinality({q \in P : Before(q, p)})

\* A later operation has more predecessors.
LEMMA RankGrows ==
    ASSUME TypeOK, NEW P \in SUBSET Ops, NEW p \in P, NEW q \in P, Before(p, q)
    PROVE  RankIn(P, p) < RankIn(P, q)
<1> DEFINE A == {r \in P : Before(r, p)}
           B == {r \in P : Before(r, q)}
<1>1. A \subseteq B /\ p \in B /\ p \notin A
  BY BeforeOrder
<1>2. IsFiniteSet(P)
  BY QueueAssumption, FS_Subset
<1>3. IsFiniteSet(B)
  BY <1>2, FS_Subset
<1>4. Cardinality(A) <= Cardinality(B) /\ (Cardinality(B) = Cardinality(A) => B = A) /\ IsFiniteSet(A)
  BY <1>1, <1>3, FS_Subset
<1>5. Cardinality(A) \in Nat /\ Cardinality(B) \in Nat
  BY <1>3, <1>4, FS_CardinalityType
<1>6. Cardinality(A) < Cardinality(B)
  BY <1>1, <1>4, <1>5
<1> QED
  BY <1>6 DEF RankIn

LEMMA RankType ==
    ASSUME TypeOK, NEW P \in SUBSET Ops, NEW p \in P
    PROVE  RankIn(P, p) \in Nat /\ Cardinality(P) \in Nat /\ RankIn(P, p) < Cardinality(P)
<1> DEFINE A == {r \in P : Before(r, p)}
<1>1. IsFiniteSet(P) /\ A \subseteq P /\ p \notin A
  BY QueueAssumption, FS_Subset, BeforeOrder
<1>2. Cardinality(A) <= Cardinality(P) /\ (Cardinality(P) = Cardinality(A) => P = A) /\ IsFiniteSet(A)
  BY <1>1, FS_Subset
<1>3. Cardinality(A) \in Nat /\ Cardinality(P) \in Nat
  BY <1>1, <1>2, FS_CardinalityType
<1>4. Cardinality(A) < Cardinality(P)
  BY <1>1, <1>2, <1>3
<1> QED
  BY <1>3, <1>4 DEF RankIn

\* Two operations of a set have different ranks.
LEMMA RankDiffers ==
    ASSUME TypeOK, NEW P \in SUBSET Ops, NEW p \in P, NEW q \in P, p # q
    PROVE  RankIn(P, p) # RankIn(P, q)
<1>1. Before(p, q) \/ Before(q, p)
  BY BeforeTotal
<1>2. RankIn(P, p) \in Nat /\ RankIn(P, q) \in Nat
  BY RankType
<1> QED
  BY <1>1, <1>2, RankGrows

\* Every number below the size of the set is somebody's rank.
LEMMA RankCovers ==
    ASSUME TypeOK, NEW P \in SUBSET Ops, NEW k \in 0..(Cardinality(P) - 1)
    PROVE  \E p \in P : RankIn(P, p) = k
<1> DEFINE n == Cardinality(P)
           T == 0..(n - 1)
           f == [p \in P |-> RankIn(P, p)]
<1>1. IsFiniteSet(P)
  BY QueueAssumption, FS_Subset
<1>2. n \in Nat
  BY <1>1, FS_CardinalityType
<1>3. IsFiniteSet(T) /\ Cardinality(T) = n
  BY <1>2, FS_Interval
<1>4. f \in [P -> T]
  <2>1. \A p \in P : RankIn(P, p) \in T
    BY <1>2, RankType
  <2> QED
    BY <2>1
<1>5. f \in Injection(P, T)
  <2>1. \A p, q \in P : f[p] = f[q] => p = q
    BY RankDiffers
  <2> QED
    BY <1>4, <2>1 DEF Injection, IsInjective
<1>6. f \in Surjection(P, T)
  <2> HIDE DEF f, T
  <2> QED
    BY <1>3, <1>5, FS_Injection
<1> QED
  BY <1>6 DEF Surjection
-----------------------------------------------------------------------------
(* A move.  NewPlace depends on the old place alone, and is a permutation  *)
(* of the places.                                                          *)

LEMMA PlaceIsRank ==
    ASSUME TypeOK, NEW o \in Ops
    PROVE  /\ Peers(o) \in SUBSET Ops /\ Cardinality(Peers(o)) \in Nat
           /\ \A p \in Peers(o) : /\ Place(o, p) = RankIn(Peers(o), p) + 1
                                  /\ Place(o, p) \in 1..Cardinality(Peers(o))
<1>1. Peers(o) \in SUBSET Ops
  BY DEF Peers
<1>2. IsFiniteSet(Peers(o))
  BY <1>1, QueueAssumption, FS_Subset
<1>3. Cardinality(Peers(o)) \in Nat
  BY <1>2, FS_CardinalityType
<1>4. ASSUME NEW p \in Peers(o)
      PROVE  Place(o, p) = RankIn(Peers(o), p) + 1 /\ Place(o, p) \in 1..Cardinality(Peers(o))
  <2>1. Place(o, p) = RankIn(Peers(o), p) + 1
    BY DEF Place, RankIn
  <2>2. RankIn(Peers(o), p) \in Nat /\ RankIn(Peers(o), p) < Cardinality(Peers(o))
    BY <1>1, RankType
  <2> QED
    BY <1>3, <2>1, <2>2
<1> QED
  BY <1>1, <1>3, <1>4

\* Where the operation at place k goes when the one at place a goes to t.
Shift(a, k, t) ==
    IF k = a THEN t ELSE IF t <= k /\ k < a THEN k + 1 ELSE IF a < k /\ k <= t THEN k - 1 ELSE k

LEMMA ShiftPermutes ==
    ASSUME NEW n \in Nat, NEW a \in 1..n, NEW t \in 1..n
    PROVE  /\ \A k \in 1..n : Shift(a, k, t) \in 1..n
           /\ \A m \in 1..n : \E k \in 1..n : Shift(a, k, t) = m
           /\ \A k, l \in (1..n) \ {a} : k < l => Shift(a, k, t) < Shift(a, l, t)
<1>1. \A k \in 1..n : Shift(a, k, t) \in 1..n
  BY DEF Shift
<1>2. ASSUME NEW m \in 1..n PROVE \E k \in 1..n : Shift(a, k, t) = m
  <2>1. CASE m = t
    BY <2>1 DEF Shift
  <2>2. CASE t < m /\ m <= a
    <3>1. m - 1 \in 1..n /\ Shift(a, m - 1, t) = m
      BY <2>2 DEF Shift
    <3> QED
      BY <3>1
  <2>3. CASE a <= m /\ m < t
    <3>1. m + 1 \in 1..n /\ Shift(a, m + 1, t) = m
      BY <2>3 DEF Shift
    <3> QED
      BY <3>1
  <2>4. CASE m # t /\ ~(t < m /\ m <= a) /\ ~(a <= m /\ m < t)
    <3>1. Shift(a, m, t) = m
      BY <2>4 DEF Shift
    <3> QED
      BY <3>1
  <2> QED
    BY <2>1, <2>2, <2>3, <2>4
<1>3. \A k, l \in (1..n) \ {a} : k < l => Shift(a, k, t) < Shift(a, l, t)
  BY DEF Shift
<1> QED
  BY <1>1, <1>2, <1>3

LEMMA MoveShifts ==
    ASSUME TypeOK, NEW o \in Ops, o \in Peers(o), NEW p \in Peers(o), NEW t
    PROVE  /\ NewPlace(o, p, t) = Shift(Place(o, o), Place(o, p), t)
           /\ p # o => Place(o, p) # Place(o, o)
<1>1. p # o => Place(o, p) # Place(o, o)
  <2>1. Peers(o) \in SUBSET Ops
    BY PlaceIsRank
  <2>2. p # o => RankIn(Peers(o), p) # RankIn(Peers(o), o)
    BY <2>1, RankDiffers
  <2>3. RankIn(Peers(o), p) \in Nat /\ RankIn(Peers(o), o) \in Nat
    BY <2>1, RankType
  <2> QED
    BY <2>2, <2>3, PlaceIsRank
<1> QED
  BY <1>1 DEF NewPlace, Shift

\* Whatever the order of the queue is, a move puts the operation at the wanted
\* place, gives each place to one peer and leaves the others in their order.
THEOREM MovesReorder == Spec => []MoveReorders
<1>1. ASSUME TypeOK PROVE MoveReorders
  <2> SUFFICES ASSUME NEW o \in Ops, o \in Peers(o), NEW t \in 1..Cardinality(Peers(o))
               PROVE  /\ NewPlace(o, o, t) = t
                      /\ {NewPlace(o, p, t) : p \in Peers(o)} = 1..Cardinality(Peers(o))
                      /\ \A p, q \in Peers(o) \ {o} :
                            Before(p, q) => NewPlace(o, p, t) < NewPlace(o, q, t)
    BY DEF MoveReorders
  <2> DEFINE n == Cardinality(Peers(o))
             a == Place(o, o)
  <2>1. /\ Peers(o) \in SUBSET Ops /\ n \in Nat /\ a \in 1..n
        /\ \A p \in Peers(o) : Place(o, p) = RankIn(Peers(o), p) + 1 /\ Place(o, p) \in 1..n
    BY <1>1, PlaceIsRank
  <2>2. \A p \in Peers(o) : NewPlace(o, p, t) = Shift(a, Place(o, p), t) /\ (p # o => Place(o, p) # a)
    BY <1>1, MoveShifts
  <2>3. \A k \in 1..n : \E p \in Peers(o) : Place(o, p) = k
    <3> SUFFICES ASSUME NEW k \in 1..n PROVE \E p \in Peers(o) : Place(o, p) = k
      OBVIOUS
    <3>1. k - 1 \in 0..(n - 1)
      BY <2>1
    <3>2. PICK p \in Peers(o) : RankIn(Peers(o), p) = k - 1
      BY <1>1, <2>1, <3>1, RankCovers
    <3> QED
      BY <2>1, <3>2
  <2> HIDE DEF n, a
  <2>4. /\ \A k \in 1..n : Shift(a, k, t) \in 1..n
        /\ \A m \in 1..n : \E k \in 1..n : Shift(a, k, t) = m
        /\ \A k, l \in (1..n) \ {a} : k < l => Shift(a, k, t) < Shift(a, l, t)
    BY <2>1, ShiftPermutes DEF n
  <2>5. NewPlace(o, o, t) = t
    BY DEF NewPlace
  <2>6. {NewPlace(o, p, t) : p \in Peers(o)} = 1..n
    BY <2>1, <2>2, <2>3, <2>4
  <2>7. ASSUME NEW p \in Peers(o) \ {o}, NEW q \in Peers(o) \ {o}, Before(p, q)
        PROVE  NewPlace(o, p, t) < NewPlace(o, q, t)
    <3>1. RankIn(Peers(o), p) < RankIn(Peers(o), q)
      BY <1>1, <2>1, <2>7, RankGrows
    <3>2. RankIn(Peers(o), p) \in Nat /\ RankIn(Peers(o), q) \in Nat
      BY <1>1, <2>1, RankType
    <3>3. Place(o, p) < Place(o, q)
      BY <2>1, <3>1, <3>2
    <3> QED
      BY <2>1, <2>2, <2>4, <3>3
  <2> QED
    BY <2>5, <2>6, <2>7 DEF n
<1> QED
  BY <1>1, TypeCorrect, PTL

-----------------------------------------------------------------------------
(* A selection never takes more than the workers.                          *)

\* With what runs, a selection fills the workers at most; if more runs already,
\* it takes nothing.
LEMMA SelectionSize ==
    ASSUME TypeOK, NEW S \in SUBSET Candidates, IsSelection(S)
    PROVE  /\ IsFiniteSet(S) /\ IsFiniteSet(Running \cup S) /\ Cardinality(S) <= MaxWorkers
           /\ Cardinality(Running) <= MaxWorkers => Cardinality(Running \cup S) <= MaxWorkers
<1> DEFINE r == Cardinality(Running)
           n == Cardinality(S)
<1>1. S \in SUBSET Ops /\ Running \in SUBSET Ops /\ Running \cap S = {}
  BY DEF Candidates, Running
<1>2. IsFiniteSet(S) /\ IsFiniteSet(Running) /\ IsFiniteSet(Running \cup S)
  BY <1>1, QueueAssumption, FS_Subset
<1>3. r \in Nat /\ n \in Nat /\ MaxWorkers \in Nat
  BY <1>2, FS_CardinalityType, QueueAssumption
<1>4. Cardinality(Running \cup S) = r + n
  <2>1. Cardinality(Running \cup S) = r + n - Cardinality(Running \cap S)
    BY <1>2, FS_Union
  <2>2. Cardinality(Running \cap S) = 0
    BY <1>1, FS_EmptySet
  <2> HIDE DEF r, n
  <2> QED
    BY <1>3, <2>1, <2>2 DEF r, n
<1>5. ASSUME n # 0 PROVE r + n <= MaxWorkers
  <2>1. n - 1 \in 0..(n - 1)
    BY <1>3, <1>5
  <2>2. PICK p \in S : RankIn(S, p) = n - 1
    BY <1>1, <2>1, RankCovers
  <2> DEFINE A == {s \in S : Before(s, p)}
  <2>3. Cardinality(Running \cup A) < MaxWorkers
    BY DEF IsSelection, Fits
  <2>4. A \subseteq S /\ IsFiniteSet(A) /\ Cardinality(A) = n - 1
    BY <1>2, <2>2, FS_Subset DEF RankIn
  <2>5. Cardinality(Running \cup A) = r + Cardinality(A) - Cardinality(Running \cap A)
    BY <1>2, <2>4, FS_Union
  <2>6. Cardinality(Running \cap A) = 0
    <3>1. Running \cap A = {}
      BY <1>1, <2>4
    <3> QED
      BY <3>1, FS_EmptySet
  <2> HIDE DEF A, r, n
  <2> QED
    BY <1>3, <2>3, <2>4, <2>5, <2>6
<1> HIDE DEF r, n
<1>6. n <= MaxWorkers
  BY <1>3, <1>5
<1>7. r <= MaxWorkers => r + n <= MaxWorkers
  BY <1>3, <1>5
<1> QED
  BY <1>2, <1>4, <1>6, <1>7 DEF r, n

ClaimsLimited ==
    \A h \in Hosts : IsFiniteSet(claimed[h]) /\ Cardinality(claimed[h]) <= MaxWorkers

\* A process claims operations by a selection only.
LEMMA ClaimsOnlySelected ==
    ASSUME TypeOK, [Next]_vars, \A h \in Hosts : ~Select(h)
    PROVE  \A h \in Hosts : claimed'[h] \in {claimed[h], {}}
<1>1. claimed \in [Hosts -> SUBSET Ops]
  BY DEF TypeOK
<1>2. ASSUME NEW h \in Hosts, StartHost(h) \/ Crash(h) \/ SchedulerStep(h)
      PROVE  \A g \in Hosts : claimed'[g] \in {claimed[g], {}}
  BY <1>1, <1>2
  DEF StartHost, Crash, SchedulerStep, BeginSelection, StartJobs, CheckJobs, EndRound, HostProbe, NextRound
<1>3. ASSUME NEW h \in Hosts, NEW o \in Ops, JobStep(h, o) \/ JobAbort(h, o) PROVE UNCHANGED claimed
  BY <1>3 DEF JobStep, JobFail, JobAbort
<1>4. ASSUME NEW u \in Sessions, SessionStep(u) PROVE UNCHANGED claimed
  BY <1>4, SessionReads DEF ReadFiles
<1>5. ASSUME NEW a \in Actors, CommandStep(a) PROVE UNCHANGED claimed
  BY <1>5 DEF CommandStep, UpdateDependencies, EndCommand, WriteFile
<1>6. ASSUME NEW a \in Actors, CommandFails(a) PROVE \A g \in Hosts : claimed'[g] \in {claimed[g], {}}
  BY <1>1, <1>6 DEF CommandFails
<1>7. CASE UNCHANGED vars
  BY <1>7 DEF vars
<1> QED
  BY <1>2, <1>3, <1>4, <1>5, <1>6, <1>7 DEF Next

LEMMA ClaimsStayLimited == ASSUME TypeInv, ClaimsLimited, [Next]_vars PROVE ClaimsLimited'
<1>1. TypeOK /\ claimed \in [Hosts -> SUBSET Ops]
  BY DEF TypeInv, TypeOK
<1>2. ASSUME NEW h \in Hosts, Select(h) PROVE ClaimsLimited'
  BY <1>1, <1>2, SelectionSize DEF Select, ClaimsLimited
<1>3. CASE \A h \in Hosts : claimed'[h] \in {claimed[h], {}}
  <2>1. IsFiniteSet({}) /\ Cardinality({}) <= MaxWorkers
    BY FS_EmptySet, QueueAssumption
  <2> QED
    BY <1>3, <2>1 DEF ClaimsLimited
<1> QED
  BY <1>1, <1>2, <1>3, ClaimsOnlySelected

\* With the lease of the scheduler host, no more than MaxWorkers operations are
\* executed at the same time, whatever sessions write in between: they are
\* those of one selection.
THEOREM WorkersAreLimited == Spec => [](SingleHost => WorkerLimit)
<1>1. Init => RoundInv /\ ClaimsLimited
  BY FS_EmptySet, QueueAssumption
  DEF Init, RoundInv, OneHost, RoundsLive, JobsInRound, ClaimsCompatible, Actors, ClaimsLimited
<1>2. TypeInv /\ RoundInv /\ ClaimsLimited /\ [Next]_vars => (TypeInv /\ RoundInv /\ ClaimsLimited)'
  BY TypeStep, RoundStep, ClaimsStayLimited
<1>3. RoundInv /\ ClaimsLimited => (SingleHost => WorkerLimit)
  <2> SUFFICES ASSUME RoundInv, ClaimsLimited, SingleHost PROVE Cardinality(Executing) <= MaxWorkers
    BY DEF WorkerLimit
  <2>1. \A x \in Executing : /\ x = <<x[1], x[2]>> /\ x[1] \in Hosts /\ x[2] \in claimed[x[1]]
                             /\ proc[x[1]] = "up"
    BY DEF Executing, RoundInv, RoundsLive, JobsInRound
  <2>2. CASE Executing = {}
    BY <2>2, FS_EmptySet, QueueAssumption
  <2>3. CASE Executing # {}
    <3>1. PICK h \in Hosts : \A x \in Executing : x = <<h, x[2]>> /\ x[2] \in claimed[h]
      BY <2>1, <2>3 DEF RoundInv, OneHost
    <3> DEFINE f == [x \in Executing |-> x[2]]
    <3>2. f \in Injection(Executing, claimed[h])
      BY <3>1 DEF Injection, IsInjective
    <3>3. Cardinality(Executing) <= Cardinality(claimed[h]) /\ IsFiniteSet(Executing)
      BY <3>2, FS_Injection DEF ClaimsLimited
    <3>4. Cardinality(Executing) \in Nat /\ Cardinality(claimed[h]) \in Nat
      BY <3>3, FS_CardinalityType DEF ClaimsLimited
    <3> QED
      BY <3>3, <3>4, QueueAssumption DEF ClaimsLimited
  <2> QED
    BY <2>2, <2>3
<1> QED
  BY InitOK, <1>1, <1>2, <1>3, PTL DEF Spec
-----------------------------------------------------------------------------
(* Dependencies.  Every record that may be selected, runs, is at a gate or *)
(* completed, on disk or on its way there, belongs to an operation whose   *)
(* dependencies have been completed: a stale copy can bring back an older  *)
(* status, but never one that the operation has not earned.                *)
(*                                                                         *)
(* Stop -Cleanup makes a waiting operation a candidate, and is therefore   *)
(* excluded: a stale write of another session may turn the operation it    *)
(* has queued for cleanup into one that is executed.                       *)

DepsDone(o) == Deps[o] \subseteq finished
NeedsDeps == {"Queued", "CleanupQueued", "Running", "Completed"} \cup AtGate

Grounded(o, r) ==
    /\ r.status \in NeedsDeps \/ r.cleanup => DepsDone(o)
    /\ r.status = "Completed" => o \in finished

FilesGrounded == \A o \in Ops : Grounded(o, file[o])
ClaimsGrounded == \A h \in Hosts : \A o \in claimed[h] : DepsDone(o)
PendingGrounded ==
    \A a \in Actors, o \in Ops : pend[a][o] # Nothing =>
        IF phase[a] = "confirm" THEN DepsDone(o) ELSE Grounded(o, pend[a][o])
DepInv == FilesGrounded /\ ClaimsGrounded /\ PendingGrounded

GroundedWrites(w) == \A o \in Ops : w[o] # Nothing => Grounded(o, w[o])
ConfirmGrounded(w) == \A o \in Ops : w[o] # Nothing => DepsDone(o)

\* Records that keep what makes them grounded.
LEMMA SameGround ==
    ASSUME TypeOK, FilesGrounded, NEW o \in Ops, NEW r, r.cleanup = file[o].cleanup,
           \/ r.status = file[o].status
           \/ r.status \notin NeedsDeps
           \/ DepsDone(o) /\ r.status # "Completed"
    PROVE  Grounded(o, r)
BY DEF FilesGrounded, Grounded, NeedsDeps

LEMMA StatusGround ==
    ASSUME TypeOK, FilesGrounded, NEW o \in Ops, NEW s,
           s \notin NeedsDeps \/ (DepsDone(o) /\ s # "Completed")
    PROVE  Grounded(o, [file[o] EXCEPT !.status = s])
<1> DEFINE r == [file[o] EXCEPT !.status = s]
<1>1. r.cleanup = file[o].cleanup /\ r.status = s
  BY DEF TypeOK, Operation
<1> HIDE DEF r
<1>2. Grounded(o, r)
  BY <1>1, SameGround
<1> QED
  BY <1>2 DEF r

LEMMA RequeuedGround ==
    ASSUME TypeOK, FilesGrounded, NEW o \in Ops PROVE Grounded(o, Requeued(o, file[o]))
<1>1. file[o] \in Operation
  BY DEF TypeOK
<1>2. /\ Requeued(o, file[o]).cleanup = file[o].cleanup
      /\ Requeued(o, file[o]).status = IF file[o].cleanup THEN "CleanupQueued"
                                       ELSE IF Deps[o] # {} THEN "WaitingForDependency" ELSE "Queued"
  BY <1>1 DEF Requeued, Operation
<1> QED
  BY <1>2 DEF FilesGrounded, Grounded, NeedsDeps, AtGate, DepsDone

LEMMA SchedulerGrounded ==
    ASSUME TypeOK, FilesGrounded
    PROVE  GroundedWrites(NoWrites) /\ GroundedWrites(RepairWrites) /\ GroundedWrites(DependencyWrites)
<1>1. GroundedWrites(NoWrites)
  BY DEF NoWrites, GroundedWrites
<1>2. GroundedWrites(RepairWrites)
  BY RequeuedGround DEF RepairWrites, GroundedWrites
<1>3. ASSUME NEW o \in Ops PROVE Grounded(o, [file[o] EXCEPT !.status = DependencyStatus(o)])
  <2>1. /\ DependencyStatus(o) \in {"Failed", "Queued", "WaitingForDependency"}
        /\ DependencyStatus(o) = "Queued" => \A d \in Deps[o] : file[d].status = "Completed"
    BY DEF DependencyStatus
  <2>2. DependencyStatus(o) = "Queued" => DepsDone(o)
    BY <2>1, QueueAssumption DEF FilesGrounded, Grounded, DepsDone
  <2> QED
    BY <2>1, <2>2, StatusGround DEF NeedsDeps, AtGate
<1>4. GroundedWrites(DependencyWrites)
  BY <1>3 DEF DependencyWrites, GroundedWrites
<1> QED
  BY <1>1, <1>2, <1>4

\* Every command of a session but Stop -Cleanup ends in grounded writes, or in
\* those of a confirmation.
LEMMA SessionGrounded ==
    ASSUME TypeOK, FilesGrounded, "StopCleanup" \notin Commands, NEW u \in Sessions, SessionStep(u)
    PROVE  \E command, next, writes :
             /\ ReadFiles(u, command, next, writes)
             /\ \/ next \in {"write", "stop", "repair"} /\ GroundedWrites(writes)
                \/ next = "confirm" /\ ConfirmGrounded(writes)
<1>1. \A o \in Ops : file[o] \in Operation
  BY DEF TypeOK
<1>2. GroundedWrites(NoWrites) /\ GroundedWrites(RepairWrites)
  BY SchedulerGrounded
<1>3. \A o \in Ops : \A r : Grounded(o, r) => GroundedWrites(WriteOnly(o, r))
  BY WriteOnlyIs DEF GroundedWrites
<1>4. \A o \in Ops : Grounded(o, file[o])
  BY DEF FilesGrounded
<1>5. CASE GetQueue(u)
  BY <1>2, <1>5 DEF GetQueue
<1>6. CASE SetBatchPriority(u)
  <2>1. PICK rank \in 0..2 : ReadFiles(u, "BatchPriority", "write", BatchPriorityWrite(rank))
    BY <1>6 DEF SetBatchPriority
  <2>2. \A o \in Ops : Grounded(o, [file[o] EXCEPT !.rank = rank])
    <3>1. \A o \in Ops : LET r == [file[o] EXCEPT !.rank = rank]
                         IN  r.cleanup = file[o].cleanup /\ r.status = file[o].status
      BY <1>1 DEF Operation
    <3> QED
      BY <3>1, SameGround
  <2> QED
    BY <2>1, <2>2 DEF BatchPriorityWrite, GroundedWrites
<1>7. ASSUME NEW o \in Ops, Suspend(u, o) PROVE GroundedWrites(SuspendWrite(o))
  <2>1. Grounded(o, [file[o] EXCEPT !.status = "Paused"])
    BY StatusGround DEF NeedsDeps, AtGate
  <2> QED
    BY <1>2, <1>3, <2>1 DEF SuspendWrite
<1>8. ASSUME NEW o \in Ops PROVE GroundedWrites(ResumeWrite(o))
  <2> DEFINE s == IF \A d \in Deps[o] : file[d].status = "Completed"
                  THEN "Queued" ELSE "WaitingForDependency"
  <2>1. (\A d \in Deps[o] : file[d].status = "Completed") => DepsDone(o)
    BY QueueAssumption DEF FilesGrounded, Grounded, DepsDone
  <2>2. ResumeWrite(o) \in {WriteOnly(o, [file[o] EXCEPT !.status = s]), NoWrites}
    BY DEF ResumeWrite
  <2>4. s = "WaitingForDependency" \/ (s = "Queued" /\ DepsDone(o))
    BY <2>1
  <2> HIDE DEF s
  <2>3. Grounded(o, [file[o] EXCEPT !.status = s])
    BY <2>4, StatusGround DEF NeedsDeps, AtGate
  <2> QED
    BY <1>2, <1>3, <2>2, <2>3
<1>9. ASSUME NEW o \in Ops PROVE GroundedWrites(StopWrite(o, FALSE))
  <2> DEFINE r1 == [file[o] EXCEPT !.cancel = TRUE, !.cleanup = FALSE]
             r2 == [file[o] EXCEPT !.cancel = TRUE, !.status = "Cancelled"]
  <2>1. r1.cleanup = FALSE /\ r1.status = file[o].status
    BY <1>1 DEF Operation
  <2>2. Grounded(o, r1)
    BY <2>1 DEF FilesGrounded, Grounded
  <2>3. r2.cleanup = file[o].cleanup /\ r2.status = "Cancelled"
    BY <1>1 DEF Operation
  <2>4. Grounded(o, r2)
    BY <2>3, SameGround DEF NeedsDeps, AtGate
  <2> QED
    BY <1>2, <1>3, <2>2, <2>4 DEF StopWrite
<1>10. ASSUME NEW o \in Ops, SetPriority(u, o)
       PROVE  \E w : GroundedWrites(w) /\ ReadFiles(u, "Priority", "write", w)
  <2>1. PICK rank \in 0..2 : ReadFiles(u, "Priority", "write", PriorityWrite(o, rank))
    BY <1>10 DEF SetPriority
  <2> DEFINE r == [file[o] EXCEPT !.rank = rank, !.overridden = TRUE]
  <2>2. r.cleanup = file[o].cleanup /\ r.status = file[o].status
    BY <1>1 DEF Operation
  <2>3. Grounded(o, r) /\ Grounded(o, file[o])
    BY <2>2, SameGround
  <2> QED
    BY <1>3, <2>1, <2>3 DEF PriorityWrite
<1>11. ASSUME NEW o \in Ops, Move(u, o)
       PROVE  \E w : GroundedWrites(w) /\ ReadFiles(u, "Move", "write", w)
  <2>1. PICK target \in 1..Cardinality(Peers(o)) : ReadFiles(u, "Move", "write", MoveWrite(o, target))
    BY <1>11 DEF Move
  <2>2. ASSUME NEW p \in Ops, NEW k PROVE Grounded(p, [file[p] EXCEPT !.pos = k])
    <3>1. LET r == [file[p] EXCEPT !.pos = k]
          IN  r.cleanup = file[p].cleanup /\ r.status = file[p].status
      BY <1>1 DEF Operation
    <3> QED
      BY <3>1, SameGround
  <2> QED
    BY <1>2, <2>1, <2>2 DEF MoveWrite, GroundedWrites
<1>12. ASSUME NEW o \in Ops, file[o].status \in AtGate, NEW s \in AtGate
       PROVE  GroundedWrites(WriteOnly(o, [file[o] EXCEPT !.status = s])) /\ DepsDone(o)
  <2>1. DepsDone(o)
    BY <1>12 DEF FilesGrounded, Grounded, NeedsDeps
  <2>2. Grounded(o, [file[o] EXCEPT !.status = s])
    BY <1>12, <2>1, StatusGround DEF AtGate
  <2> QED
    BY <1>3, <2>1, <2>2
<1>13. ASSUME NEW o \in Ops, Confirm(u, o)
       PROVE  \E next, w : /\ ReadFiles(u, "Confirm", next, w)
                           /\ \/ next = "write" /\ GroundedWrites(w)
                              \/ next = "confirm" /\ ConfirmGrounded(w)
  <2>1. file[o].status \in AtGate /\ "WaitingForUser" \in AtGate
    BY <1>13 DEF Confirm, AtGate
  <2>2. \A r : ConfirmGrounded(WriteOnly(o, r))
    BY <1>12, <2>1, WriteOnlyIs DEF ConfirmGrounded
  <2> QED
    BY <1>12, <1>13, <2>1, <2>2 DEF Confirm
<1>14. ASSUME NEW o \in Ops PROVE GroundedWrites(WriteOnly(o, file[o]))
  BY <1>3, <1>4
<1>15. SUFFICES ASSUME NEW o \in Ops,
                       \/ Suspend(u, o) \/ Resume(u, o) \/ Stop(u, o) \/ SetPriority(u, o) \/ Move(u, o)
                       \/ SetAttention(u, o) \/ Probe(u, o) \/ Confirm(u, o)
                PROVE  \E command, next, writes :
                         /\ ReadFiles(u, command, next, writes)
                         /\ \/ next \in {"write", "stop", "repair"} /\ GroundedWrites(writes)
                            \/ next = "confirm" /\ ConfirmGrounded(writes)
  <2>1. \A o \in Ops : ~StopCleanup(u, o)
    BY DEF StopCleanup, ReadFiles
  <2> QED
    BY <1>5, <1>6, <2>1 DEF SessionStep
<1>16. CASE Suspend(u, o)
  BY <1>7, <1>16 DEF Suspend
<1>17. CASE Resume(u, o)
  BY <1>8, <1>17 DEF Resume
<1>18. CASE Stop(u, o)
  BY <1>9, <1>18 DEF Stop
<1>19. CASE SetAttention(u, o)
  BY <1>14, <1>19 DEF SetAttention
<1>20. CASE Probe(u, o)
  BY <1>12, <1>20 DEF Probe, ProbeResults
<1> QED
  BY <1>10, <1>11, <1>13, <1>15, <1>16, <1>17, <1>18, <1>19, <1>20

\* Completing operations spoils no record.
LEMMA GroundKept ==
    ASSUME finished \subseteq finished'
    PROVE  \A o \in Ops : /\ DepsDone(o) => DepsDone(o)'
                          /\ \A r : Grounded(o, r) => (Grounded(o, r))'
BY DEF DepsDone, Grounded

LEMMA FinishedGrows == ASSUME [Next]_vars PROVE finished \subseteq finished'
<1>1. ASSUME NEW h \in Hosts, StartHost(h) \/ Crash(h) \/ SchedulerStep(h) PROVE UNCHANGED finished
  BY <1>1
  DEF StartHost, Crash, SchedulerStep, BeginSelection, Select, StartJobs, CheckJobs, EndRound, HostProbe,
      NextRound, history
<1>2. ASSUME NEW h \in Hosts, NEW o \in Ops, JobStep(h, o) \/ JobAbort(h, o)
      PROVE  finished \subseteq finished'
  BY <1>2
  DEF JobStep, JobStart, JobCleanup, JobCancel, JobBeginStep, JobStepDone, JobUserGate, JobFail,
      JobComplete, JobSummary, JobAbort, history
<1>3. ASSUME NEW u \in Sessions, SessionStep(u) PROVE UNCHANGED finished
  BY <1>3
  DEF SessionStep, GetQueue, SetBatchPriority, Suspend, Resume, Stop, StopCleanup, SetPriority, Move,
      SetAttention, Probe, Confirm, ReadFiles, history
<1>4. ASSUME NEW a \in Actors, CommandStep(a) \/ CommandFails(a) PROVE finished \subseteq finished'
  BY <1>4 DEF CommandStep, UpdateDependencies, EndCommand, WriteFile, CommandFails, history
<1>5. CASE UNCHANGED vars
  BY <1>5 DEF vars
<1> QED
  BY <1>1, <1>2, <1>3, <1>4, <1>5 DEF Next

\* Every file is kept, or replaced by a grounded record.
LEMMA FilesStayGrounded ==
    ASSUME FilesGrounded, finished \subseteq finished',
           \A o \in Ops : file'[o] = file[o] \/ Grounded(o, file[o])'
    PROVE  FilesGrounded'
<1>1. \A o \in Ops : \A r : Grounded(o, r) => (Grounded(o, r))'
  BY GroundKept
<1>2. \A o \in Ops : Grounded(o, file[o])
  BY DEF FilesGrounded
<1>3. \A o \in Ops : Grounded(o, file[o])'
  BY <1>1, <1>2 DEF Grounded, DepsDone
<1> QED
  BY <1>3 DEF FilesGrounded

\* Pending writes are kept, are done or lost, or are the grounded ones of one
\* actor.
PlansGrounded(a) ==
    \E writes :
       /\ pend' = [pend EXCEPT ![a] = writes]
       /\ \/ GroundedWrites(writes) /\ phase'[a] # "confirm"
          \/ ConfirmGrounded(writes) /\ phase'[a] = "confirm"
       /\ \A b \in Actors : b # a => phase'[b] = phase[b]

LEMMA PendingStaysGrounded ==
    ASSUME TypeOK, PendingGrounded, finished \subseteq finished',
           \/ \A a \in Actors, o \in Ops : \/ pend'[a][o] = Nothing
                                           \/ pend'[a][o] = pend[a][o] /\ phase'[a] = phase[a]
           \/ \E a \in Actors : PlansGrounded(a)
    PROVE  PendingGrounded'
<1>1. \A o \in Ops : /\ DepsDone(o) => DepsDone(o)'
                     /\ \A r : Grounded(o, r) => (Grounded(o, r))'
  BY GroundKept
<1>2. CASE \A a \in Actors, o \in Ops : \/ pend'[a][o] = Nothing
                                        \/ pend'[a][o] = pend[a][o] /\ phase'[a] = phase[a]
  BY <1>1, <1>2 DEF PendingGrounded
<1>3. ASSUME NEW a \in Actors, PlansGrounded(a) PROVE PendingGrounded'
  <2>1. PICK writes : /\ pend' = [pend EXCEPT ![a] = writes]
                      /\ \/ GroundedWrites(writes) /\ phase'[a] # "confirm"
                         \/ ConfirmGrounded(writes) /\ phase'[a] = "confirm"
                      /\ \A b \in Actors : b # a => phase'[b] = phase[b]
    BY <1>3 DEF PlansGrounded
  <2>2. pend'[a] = writes /\ \A b \in Actors : b # a => pend'[b] = pend[b]
    BY <2>1 DEF TypeOK
  <2>3. ASSUME NEW b \in Actors, NEW o \in Ops, pend'[b][o] # Nothing
        PROVE  IF phase'[b] = "confirm" THEN DepsDone(o) ELSE Grounded(o, pend'[b][o])
    <3>1. CASE b = a
      BY <2>1, <2>2, <2>3, <3>1 DEF GroundedWrites, ConfirmGrounded
    <3>2. CASE b # a
      BY <2>1, <2>2, <2>3, <3>2 DEF PendingGrounded
    <3> QED
      BY <3>1, <3>2
  <2> QED
    BY <1>1, <2>3 DEF PendingGrounded
<1> QED
  BY <1>2, <1>3

LEMMA ClaimsStayGrounded ==
    ASSUME TypeInv, DepInv, [Next]_vars, finished \subseteq finished' PROVE ClaimsGrounded'
<1>1. TypeOK /\ claimed \in [Hosts -> SUBSET Ops] /\ \A o \in Ops : DepsDone(o) => DepsDone(o)'
  BY GroundKept DEF TypeInv, TypeOK
<1>2. ASSUME NEW h \in Hosts, Select(h) PROVE ClaimsGrounded'
  <2>1. PICK S \in SUBSET Candidates : claimed' = [claimed EXCEPT ![h] = S]
    BY <1>2 DEF Select
  <2>2. \A o \in S : o \in Ops /\ DepsDone(o)
    BY <1>1 DEF Candidates, DepInv, FilesGrounded, Grounded, NeedsDeps
  <2> QED
    BY <1>1, <2>1, <2>2 DEF DepInv, ClaimsGrounded
<1>3. CASE \A h \in Hosts : claimed'[h] \in {claimed[h], {}}
  BY <1>1, <1>3 DEF DepInv, ClaimsGrounded
<1> QED
  BY <1>1, <1>2, <1>3, ClaimsOnlySelected

\* A job writes for an operation its process has claimed.
LEMMA JobGrounded ==
    ASSUME TypeInv, StepInv, RoundInv, DepInv, finished \subseteq finished',
           NEW h \in Hosts, NEW o \in Ops, JobStep(h, o)
    PROVE  FilesGrounded'
<1>1. TypeOK /\ file[o] \in Operation /\ mem[h][o] \in Operation
  BY DEF TypeInv, TypeOK
<1>2. job[h][o] # "off"
  BY DEF JobStep, JobStart, JobCleanup, JobCancel, JobBeginStep, JobStepDone, JobUserGate, JobFail,
         JobComplete, JobSummary
<1>3. DepsDone(o) /\ DepsDone(o)'
  BY <1>2, GroundKept DEF RoundInv, JobsInRound, DepInv, ClaimsGrounded
<1>4. job[h][o] \in {"boundary", "step"} => mem[h][o].status = "Running"
  BY DEF StepInv, JobsOK
<1>5. /\ \A p \in Ops : p # o => file'[p] = file[p]
      /\ file'[o] = file[o] \/ (file'[o].status = "Completed" => o \in finished')
  <2>1. \A s : /\ [mem[h][o] EXCEPT !.status = s].status = s
              /\ [mem[h][o] EXCEPT !.status = s, !.owner = NoHost].status = s
              /\ [mem[h][o] EXCEPT !.status = s, !.cleanup = TRUE].status = s
    BY <1>1 DEF Operation
  <2>2. CASE JobStart(h, o)
    <3>1. [file[o] EXCEPT !.status = "Running"].status = "Running" /\ Claim(h, file[o]).status = "Running"
      BY <1>1 DEF Claim, Operation
    <3> QED
      BY <1>1, <2>2, <3>1 DEF JobStart, SaveAndGoOn, TypeOK
  <2>3. CASE JobCleanup(h, o)
    BY <1>1, <2>1, <2>3 DEF JobCleanup, SaveAndSummarize, SaveAndGoOn, TypeOK
  <2>4. CASE JobCancel(h, o)
    BY <1>1, <2>1, <2>4 DEF JobCancel, SaveAndSummarize, SaveAndGoOn, TypeOK
  <2>5. CASE JobBeginStep(h, o)
    BY <1>1, <1>4, <2>5 DEF JobBeginStep, SaveAndGoOn, TypeOK
  <2>6. CASE JobStepDone(h, o)
    <3>1. [mem[h][o] EXCEPT !.step = @ + 1].status = mem[h][o].status
      BY <1>1 DEF Operation
    <3>2. job[h][o] = "step"
      BY <2>6 DEF JobStepDone
    <3> QED
      BY <1>1, <1>4, <2>6, <3>1, <3>2 DEF JobStepDone, SaveAndGoOn, TypeOK
  <2>7. CASE JobUserGate(h, o)
    BY <1>1, <2>1, <2>7 DEF JobUserGate, SaveAndSummarize, SaveAndGoOn, TypeOK
  <2>8. CASE JobFail(h, o)
    BY <1>1, <2>1, <2>8 DEF JobFail, TypeOK
  <2>9. CASE JobComplete(h, o)
    BY <1>1, <2>9 DEF JobComplete, SaveAndSummarize, SaveAndGoOn, TypeOK
  <2>10. CASE JobSummary(h, o)
    BY <2>10 DEF JobSummary
  <2> QED
    BY <2>2, <2>3, <2>4, <2>5, <2>6, <2>7, <2>8, <2>9, <2>10 DEF JobStep
<1>6. file'[o] = file[o] \/ Grounded(o, file[o])'
  BY <1>3, <1>5 DEF Grounded
<1> QED
  BY <1>5, <1>6, FilesStayGrounded DEF DepInv

LEMMA WriteGrounded ==
    ASSUME TypeInv, DepInv, finished \subseteq finished', NEW a \in Actors, NEW o \in Ops, WriteFile(a, o)
    PROVE  FilesGrounded' /\ PendingGrounded'
<1>1. TypeOK /\ pend[a][o] # Nothing
  BY DEF TypeInv, WriteFile
<1>2. PICK r : r = pend[a][o] /\ file' = [file EXCEPT ![o] = r]
  BY DEF WriteFile
<1>3. (Grounded(o, r))'
  <2>1. CASE phase[a] = "confirm"
    <3>1. DepsDone(o)'
      BY <1>1, <2>1, GroundKept DEF DepInv, PendingGrounded
    <3>2. r.status = "Completed" => o \in finished'
      BY <1>2, <2>1 DEF WriteFile
    <3> QED
      BY <3>1, <3>2 DEF Grounded
  <2>2. CASE phase[a] # "confirm"
    <3>1. Grounded(o, r)
      BY <1>1, <1>2, <2>2 DEF DepInv, PendingGrounded
    <3> QED
      BY <3>1, GroundKept
  <2> QED
    BY <2>1, <2>2
<1>4. FilesGrounded'
  <2>1. file'[o] = r /\ \A p \in Ops : p # o => file'[p] = file[p]
    BY <1>1, <1>2 DEF TypeOK
  <2>2. Grounded(o, file[o])'
    BY <1>3, <2>1 DEF Grounded
  <2> QED
    BY <2>1, <2>2, FilesStayGrounded DEF DepInv
<1>5. phase' = phase /\ \A b \in Actors, p \in Ops : pend'[b][p] \in {pend[b][p], Nothing}
  BY <1>1 DEF WriteFile, TypeOK
<1> QED
  BY <1>1, <1>4, <1>5, PendingStaysGrounded DEF DepInv

\* What a scheduler plans is grounded: it selects what may be selected, and
\* releases or probes what it finds.
LEMMA SchedulerPlansGrounded ==
    ASSUME TypeInv, FilesGrounded, NEW h \in Hosts, SchedulerStep(h)
    PROVE  PlansGrounded(h) \/ Advances(h)
<1>1. TypeOK /\ phase \in [Actors -> Phase] /\ h \in Actors /\ \A o \in Ops : file[o] \in Operation
  BY DEF TypeInv, TypeOK, Actors
<1>2. CASE BeginSelection(h)
  BY <1>1, <1>2, SchedulerGrounded DEF BeginSelection, PlansGrounded
<1>3. CASE Select(h)
  <2>1. PICK S \in SUBSET Candidates :
          pend' = [pend EXCEPT ![h] = [o \in Ops |-> IF o \in S THEN Claim(h, file[o]) ELSE Nothing]]
    BY <1>3 DEF Select
  <2>2. ASSUME NEW o \in S PROVE Grounded(o, Claim(h, file[o]))
    <3>1. o \in Ops /\ DepsDone(o)
      BY DEF Candidates, FilesGrounded, Grounded, NeedsDeps
    <3>2. Claim(h, file[o]).status = "Running"
      BY <1>1, <3>1 DEF Claim, Operation
    <3> QED
      BY <3>1, <3>2 DEF Grounded
  <2> DEFINE w == [o \in Ops |-> IF o \in S THEN Claim(h, file[o]) ELSE Nothing]
  <2>3. GroundedWrites(w)
    BY <2>2 DEF GroundedWrites
  <2>4. phase' = [phase EXCEPT ![h] = "claim"]
    BY <1>3 DEF Select
  <2> QED
    BY <1>1, <2>1, <2>3, <2>4 DEF PlansGrounded
<1>4. CASE CheckJobs(h)
  <2> DEFINE w == [o \in Ops |-> IF o \in claimed[h] /\ file[o].status = "Running"
                                 THEN Requeued(o, file[o]) ELSE Nothing]
  <2>1. GroundedWrites(w)
    BY <1>1, RequeuedGround DEF GroundedWrites
  <2> QED
    BY <1>1, <1>4, <2>1 DEF CheckJobs, PlansGrounded
<1>5. CASE HostProbe(h)
  <2>1. PICK o \in Ops : /\ file[o].status \in AtGate
                         /\ \E r \in ProbeResults(o) : pend' = [pend EXCEPT ![h] = WriteOnly(o, r)]
    BY <1>5 DEF HostProbe
  <2>2. PICK s \in AtGate : pend' = [pend EXCEPT ![h] = WriteOnly(o, [file[o] EXCEPT !.status = s])]
    BY <2>1 DEF ProbeResults
  <2>3. DepsDone(o)
    BY <2>1 DEF FilesGrounded, Grounded, NeedsDeps
  <2>4. Grounded(o, [file[o] EXCEPT !.status = s])
    BY <1>1, <2>3, StatusGround DEF AtGate
  <2>5. GroundedWrites(WriteOnly(o, [file[o] EXCEPT !.status = s]))
    BY <2>4, WriteOnlyIs DEF GroundedWrites
  <2>6. phase' = [phase EXCEPT ![h] = "probe"]
    BY <1>5 DEF HostProbe
  <2> QED
    BY <1>1, <2>2, <2>5, <2>6 DEF PlansGrounded
<1>6. CASE StartJobs(h) \/ EndRound(h) \/ NextRound(h)
  BY <1>6 DEF StartJobs, EndRound, NextRound, Advances, Phase
<1> QED
  BY <1>2, <1>3, <1>4, <1>5, <1>6 DEF SchedulerStep

LEMMA DepStep ==
    ASSUME TypeInv, StepInv, RoundInv, DepInv, "StopCleanup" \notin Commands, [Next]_vars PROVE DepInv'
<1>1. /\ TypeOK /\ FilesGrounded /\ PendingGrounded /\ phase \in [Actors -> Phase]
      /\ finished \subseteq finished'
  BY FinishedGrows DEF TypeInv, TypeOK, DepInv
<1>2. ClaimsGrounded'
  BY <1>1, ClaimsStayGrounded
<1>3. CASE UNCHANGED file /\ \E a \in Actors : PlansGrounded(a) \/ Advances(a)
  <2>1. FilesGrounded'
    BY <1>1, <1>3, FilesStayGrounded
  <2>2. ASSUME NEW a \in Actors, Advances(a) PROVE PendingGrounded'
    <3>1. pend' = pend /\ (\A o \in Ops : pend[a][o] = Nothing) /\ \A b \in Actors : b # a => phase'[b] = phase[b]
      BY <1>1, <2>2 DEF Advances, Idle, NoWrites
    <3> QED
      BY <1>1, <3>1, PendingStaysGrounded
  <2> QED
    BY <1>1, <1>2, <1>3, <2>1, <2>2, PendingStaysGrounded DEF DepInv
<1>4. CASE UNCHANGED file /\ \A a \in Actors, o \in Ops : \/ pend'[a][o] = Nothing
                                                          \/ pend'[a][o] = pend[a][o] /\ phase'[a] = phase[a]
  BY <1>1, <1>2, <1>4, FilesStayGrounded, PendingStaysGrounded DEF DepInv
<1>5. ASSUME NEW h \in Hosts, StartHost(h) \/ Crash(h) PROVE DepInv'
  BY <1>1, <1>4, <1>5 DEF StartHost, Crash, TypeOK, NoWrites
<1>6. ASSUME NEW h \in Hosts, SchedulerStep(h) PROVE DepInv'
  <2>1. UNCHANGED file
    BY <1>6 DEF SchedulerStep, BeginSelection, Select, StartJobs, CheckJobs, EndRound, HostProbe, NextRound
  <2> QED
    BY <1>1, <1>3, <1>6, <2>1, SchedulerPlansGrounded DEF Actors
<1>7. ASSUME NEW h \in Hosts, NEW o \in Ops, JobStep(h, o) PROVE DepInv'
  <2>1. UNCHANGED <<pend, phase>>
    BY <1>7 DEF JobStep, JobFail
  <2>2. PendingGrounded'
    BY <1>1, <2>1, PendingStaysGrounded
  <2> QED
    BY <1>1, <1>2, <1>7, <2>2, JobGrounded DEF DepInv
<1>8. ASSUME NEW h \in Hosts, NEW o \in Ops, JobAbort(h, o) PROVE DepInv'
  BY <1>4, <1>8 DEF JobAbort
<1>9. ASSUME NEW u \in Sessions, SessionStep(u) PROVE DepInv'
  <2>1. PICK command, next, writes :
          /\ ReadFiles(u, command, next, writes)
          /\ \/ next \in {"write", "stop", "repair"} /\ GroundedWrites(writes)
             \/ next = "confirm" /\ ConfirmGrounded(writes)
    BY <1>1, <1>9, SessionGrounded
  <2>2. u \in Actors /\ UNCHANGED file /\ PlansGrounded(u)
    BY <1>1, <2>1 DEF ReadFiles, PlansGrounded, Actors
  <2> QED
    BY <1>3, <2>2
<1>10. ASSUME NEW a \in Actors, UpdateDependencies(a) \/ EndCommand(a) PROVE DepInv'
  <2>1. CASE UpdateDependencies(a)
    <3>1. UNCHANGED file /\ PlansGrounded(a)
      BY <1>1, <2>1, SchedulerGrounded DEF UpdateDependencies, PlansGrounded
    <3> QED
      BY <1>3, <3>1
  <2>2. CASE EndCommand(a)
    BY <1>3, <2>2 DEF EndCommand, Advances, Phase
  <2> QED
    BY <1>10, <2>1, <2>2
<1>11. ASSUME NEW a \in Actors, NEW o \in Ops, WriteFile(a, o) PROVE DepInv'
  BY <1>1, <1>2, <1>11, WriteGrounded DEF DepInv
<1>12. ASSUME NEW a \in Actors, CommandFails(a) PROVE DepInv'
  BY <1>1, <1>4, <1>12 DEF CommandFails, TypeOK, NoWrites
<1>13. CASE UNCHANGED vars
  BY <1>4, <1>13 DEF vars
<1> QED
  BY <1>5, <1>6, <1>7, <1>8, <1>9, <1>10, <1>11, <1>12, <1>13 DEF Next, CommandStep

\* No step of an operation is executed before its dependencies have been
\* completed, whatever is paused, resumed, moved, confirmed, stopped or written
\* from a stale copy in between, as long as nobody asks for a cleanup of an
\* operation that still waits.
THEOREM DependenciesComeFirst == Spec => []("StopCleanup" \notin Commands => DependenciesFirst)
<1>1. Init => RoundInv /\ DepInv
  BY DEF Init, RoundInv, OneHost, RoundsLive, JobsInRound, ClaimsCompatible, Actors,
         DepInv, FilesGrounded, ClaimsGrounded, PendingGrounded, NoWrites, Fresh, Grounded, NeedsDeps, AtGate,
         DepsDone
<1>2. /\ TypeInv /\ StepInv /\ RoundInv /\ ("StopCleanup" \notin Commands => DepInv) /\ [Next]_vars
      => (TypeInv /\ StepInv /\ RoundInv)' /\ ("StopCleanup" \notin Commands => DepInv)'
  BY TypeStep, StepInvStep, RoundStep, DepStep
<1>3. RoundInv /\ ("StopCleanup" \notin Commands => DepInv)
      => ("StopCleanup" \notin Commands => DependenciesFirst)
  BY DEF RoundInv, JobsInRound, DepInv, ClaimsGrounded, DepsDone, DependenciesFirst
<1> QED
  BY InitOK, <1>1, <1>2, <1>3, PTL DEF Spec

=============================================================================
