------------------------- MODULE EnvironmentGroups -------------------------
(***************************************************************************)
(* Environment groups: named sets of lab runs that are started and stopped *)
(* together (src/Public/EnvironmentGroups.ps1).  A run may belong to many  *)
(* groups, so a group does not own its runs: it claims them while it is    *)
(* not stopped, and a stop leaves alone what another group claims.         *)
(*                                                                         *)
(* Several PowerShell processes work on one state root.  They share the    *)
(* registry file with the groups, the state files of the runs and the      *)
(* providers, and three kinds of mutex: one for the registry, held for one *)
(* read and write (a restart holds it throughout), one per run, never      *)
(* waited for, and one per group, held for a whole start or stop.  A step  *)
(* of the model is what a process does between two of them.                *)
(***************************************************************************)
EXTENDS Integers, FiniteSets

CONSTANTS
    Groups,        \* the groups
    Runs,          \* the runs, numbers: a group handles its members in the order of their ids
    Procs,         \* the PowerShell processes
    NoProc,        \* no process
    NoGroup,       \* no group
    Memberships,   \* the members the groups may have at the start
    Commands,      \* the commands the processes issue
    MaxChanges     \* how many faults and changes of memberships may happen

AllCommands == {"Start", "Stop", "StartRun", "StopRun", "Remove", "Restart",
                "AddMember", "RemoveMember", "NewGroup", "RemoveGroup"}

ASSUME ConstantsAssumption ==
    /\ Runs \subseteq Nat /\ IsFiniteSet(Runs)
    /\ NoProc \notin Procs /\ NoGroup \notin Groups
    /\ Memberships \subseteq [Groups -> SUBSET Runs]
    /\ Commands \subseteq AllCommands
    /\ MaxChanges \in Nat

VARIABLES
    group,        \* the registry: lifecycle state, members and last operation of each group
    run,          \* of each run: its state file, its instances, and who last started or stopped them
    protected,    \* the runs that have become test or pool runs
    registryLock, \* the process that keeps the registry mutex, or NoProc
    runLock,      \* the process that holds the mutex of each run, or NoProc
    proc,         \* what each process is doing
    changes       \* how many faults and changes of memberships have happened

vars == <<group, run, protected, registryLock, runLock, proc, changes>>
locks == <<registryLock, runLock>>

-----------------------------------------------------------------------------
(***************************************************************************)
(* The registry                                                            *)
(***************************************************************************)
Lifecycles == {"ABSENT", "STOPPED", "STARTING", "ACTIVE", "STOPPING", "RECOVERY_REQUIRED"}
Statuses   == {"PENDING", "IN_PROGRESS", "STARTED", "UNCHANGED", "STOPPED", "RETAINED_SHARED"}
NoId       == 0
NoOperation == [id |-> NoId, action |-> "none", state |-> "none",
                status |-> [r \in {} |-> "PENDING"]]

\* Error seeded in FreshId: the number is taken for a counter.
FreshIdCounting(id) == id + 1

(***************************************************************************)
(* A fresh operation id.  Two are enough: nobody holds an older one than   *)
(* the process that replaces it, which has the group's lifecycle mutex.    *)
(***************************************************************************)
FreshId(id) == IF id = 1 THEN 2 ELSE 1

\* Error seeded in ClaimingStates: a group claims its runs only when all are up.
ClaimingStatesActive == {"ACTIVE"}

ClaimingStates == {"STARTING", "ACTIVE", "STOPPING", "RECOVERY_REQUIRED"}

(***************************************************************************)
(* The groups that claim a run.  A stopping group that has left the run to *)
(* others no longer counts.                                                *)
(***************************************************************************)
Claims(r) ==
    {g \in Groups :
        /\ group[g].lifecycle \in ClaimingStates
        /\ r \in group[g].members
        /\ ~ (group[g].lifecycle = "STOPPING" /\ group[g].op.status[r] = "RETAINED_SHARED")}

References(r) == {g \in Groups : r \in group[g].members}

RegistryFree == registryLock = NoProc
RunFree(r)   == runLock[r] = NoProc

-----------------------------------------------------------------------------
(***************************************************************************)
(* The runs.  "UNSETTLED" stands for the states between PROVISION_FAILED   *)
(* and RECOVERY_REQUIRED, which the code walks through in one go.          *)
(***************************************************************************)
RunStates     == {"RUNNING", "STOPPED", "UNSETTLED", "REMOVED"}
RuntimeStates == {"RUNNING", "STOPPED", "PARTIAL"}
Origins       == {"group", "direct", "outside"}

(***************************************************************************)
(* The state file brought in line with the instances: by a group's stop a  *)
(* run counts as running while any instance runs, a single-run command     *)
(* only believes instances that agree.                                     *)
(***************************************************************************)
Synced(x) ==
    [x EXCEPT !.state = IF x.runtime = "STOPPED" THEN "STOPPED" ELSE "RUNNING"]

SyncedWhole(x) ==
    IF x.runtime # "PARTIAL" /\ x.state \in {"RUNNING", "STOPPED"} THEN Synced(x) ELSE x

(***************************************************************************)
(* How starting or stopping a run may end: as asked for, or, as a fault,   *)
(* with only some instances started or stopped, a rollback that did not    *)
(* succeed, a database that does not answer, or an exception on the way.   *)
(***************************************************************************)
Started(x, who) == [x EXCEPT !.state = "RUNNING", !.runtime = "RUNNING",
                             !.origin = IF x.runtime = "RUNNING" THEN @ ELSE who]
Stopped(x) == [x EXCEPT !.state = "STOPPED", !.runtime = "STOPPED", !.origin = "direct"]

StartFailures(x, who) ==
    LET Left(s, t) == [state |-> s, runtime |-> t, origin |-> IF t = "RUNNING" THEN who ELSE x.origin]
    IN  {Left("STOPPED", "STOPPED"), Left("STOPPED", "PARTIAL"), Left("STOPPED", "RUNNING"),
         Left("UNSETTLED", "PARTIAL"), Left("UNSETTLED", "RUNNING"), Left("RUNNING", "RUNNING")}
StopFailures(x) ==
    {[state |-> x.state, runtime |-> t, origin |-> IF t = x.runtime THEN x.origin ELSE "direct"] :
        t \in {"STOPPED", "PARTIAL", x.runtime}}

-----------------------------------------------------------------------------
(***************************************************************************)
(* The processes                                                           *)
(***************************************************************************)
NoRun == -1
Idle == [pc |-> "idle", action |-> "none", group |-> NoGroup, seen |-> <<>>, id |-> NoId,
         todo |-> {}, run |-> NoRun, mark |-> "none"]

GroupSteps == {"check", "commit", "member", "mark", "effect", "confirm", "failing"}
Operating  == {"member", "mark", "effect", "confirm", "failing"}
RunSteps   == {"run", "restartStop", "restartStart"}

\* Error seeded in LifecycleFree: the mutex is not taken.
LifecycleFreeAlways(g) == TRUE

(***************************************************************************)
(* The lifecycle mutex of a group: held through a whole start or stop.     *)
(***************************************************************************)
LifecycleFree(g) == \A q \in Procs : proc[q].group # g

IsNext(p, r) == r \in proc[p].todo /\ \A s \in proc[p].todo : r <= s

(***************************************************************************)
(* The operation a process works on is still the group's current one.      *)
(***************************************************************************)
Current(p) ==
    LET op == group[proc[p].group].op IN op.id = proc[p].id /\ op.state = "IN_PROGRESS"

GoTo(p, pc) == proc' = [proc EXCEPT ![p].pc = pc]
GoIdle(p)   == proc' = [proc EXCEPT ![p] = Idle]
NextOne(p)  == proc' = [proc EXCEPT ![p].pc = "member", ![p].run = NoRun, ![p].mark = "none",
                                    ![p].todo = @ \ {proc[p].run}]
Failing(p)  == proc' = [proc EXCEPT ![p].pc = "failing", ![p].run = NoRun, ![p].mark = "none",
                                    ![p].todo = {}]

LockRun(p, r) == runLock' = [runLock EXCEPT ![r] = p]
Unlock(p) == runLock' = [r \in Runs |-> IF runLock[r] = p THEN NoProc ELSE runLock[r]]

Change == changes < MaxChanges /\ changes' = changes + 1
NoChange == UNCHANGED changes

-----------------------------------------------------------------------------
MemberStatuses == UNION {[members -> Statuses] : members \in SUBSET Runs}
Operation == [id : 0..2, action : {"none", "Start", "Stop"},
              state : {"none", "IN_PROGRESS", "COMPLETED", "RECOVERY_REQUIRED"},
              status : MemberStatuses]
Entry     == [lifecycle : Lifecycles, members : SUBSET Runs, op : Operation]
RunRecord == [state : RunStates, runtime : RuntimeStates, origin : Origins]
Process   == [pc : GroupSteps \cup RunSteps \cup {"idle"},
              action : AllCommands \cup {"none"}, group : Groups \cup {NoGroup},
              seen : {<<>>} \cup (Lifecycles \X (0..2) \X SUBSET Runs), id : 0..2,
              todo : SUBSET Runs, run : Runs \cup {NoRun}, mark : Statuses \cup {"none"}]

TypeOK ==
    /\ group \in [Groups -> Entry]
    /\ run \in [Runs -> RunRecord]
    /\ protected \in SUBSET Runs
    /\ registryLock \in Procs \cup {NoProc}
    /\ runLock \in [Runs -> Procs \cup {NoProc}]
    /\ proc \in [Procs -> Process]
    /\ changes \in 0..MaxChanges

Init ==
    /\ \E m \in Memberships :
        group = [g \in Groups |-> [lifecycle |-> "STOPPED", members |-> m[g], op |-> NoOperation]]
    /\ run = [r \in Runs |-> [state |-> "STOPPED", runtime |-> "STOPPED", origin |-> "direct"]]
    /\ protected = {}
    /\ registryLock = NoProc
    /\ runLock = [r \in Runs |-> NoProc]
    /\ proc = [p \in Procs |-> Idle]
    /\ changes = 0

-----------------------------------------------------------------------------
(***************************************************************************)
(* Starting and stopping a group (Invoke-LabEnvironmentGroupLifecycle)     *)
(***************************************************************************)

\* Error seeded in Bound: a stop, too, wants settled runs (no AllowRecoveryState).
BoundSettled(r, action) == run[r].state \in {"RUNNING", "STOPPED"}

(***************************************************************************)
(* A member can be handled at all: its run is there, and a start wants it  *)
(* settled and not protected.                                              *)
(***************************************************************************)
Bound(r, action) ==
    IF action = "Start" THEN run[r].state \in {"RUNNING", "STOPPED"} ELSE run[r].state # "REMOVED"
Startable(r) == Bound(r, "Start") /\ r \notin protected

(***************************************************************************)
(* What a command compares before it enters its operation.                 *)
(***************************************************************************)
Seen(g) == <<group[g].lifecycle, group[g].op.id, group[g].members>>

(***************************************************************************)
(* The group is read and what the command needs is looked at, under the    *)
(* lifecycle mutex but without the registry mutex from here on.  A command *)
(* that is refused here has no effect.                                     *)
(***************************************************************************)
ReadGroup(p, g, action) ==
    /\ proc[p] = Idle
    /\ action \in Commands
    /\ LifecycleFree(g)
    /\ RegistryFree
    /\ group[g].members # {}
    /\ \A r \in group[g].members : Bound(r, action)
    /\ \/ /\ action = "Start"
          /\ group[g].lifecycle \in {"STOPPED", "ACTIVE"}
          /\ group[g].lifecycle = "STOPPED" => \A r \in group[g].members : Startable(r)
       \/ /\ action = "Stop"
          /\ group[g].lifecycle \in ClaimingStates
    /\ proc' = [proc EXCEPT ![p] =
            [pc |-> IF group[g].lifecycle = "ACTIVE" /\ action = "Start" THEN "check" ELSE "commit",
             action |-> action, group |-> g, seen |-> Seen(g), id |-> NoId,
             todo |-> group[g].members, run |-> NoRun, mark |-> "none"]]
    /\ UNCHANGED <<group, run, protected, locks, changes>>

(***************************************************************************)
(* Starting an active group looks at each member under its mutex and gives *)
(* up at the first that is busy, protected or not running.                 *)
(***************************************************************************)
CheckMember(p) ==
    /\ proc[p].pc = "check"
    /\ IF proc[p].todo = {} THEN GoIdle(p) /\ UNCHANGED run
       ELSE \E r \in Runs :
            /\ IsNext(p, r)
            /\ IF Startable(r) /\ RunFree(r) /\ run[r].runtime # "PARTIAL"
               THEN /\ run' = [run EXCEPT ![r] = Synced(@)]
                    /\ IF run[r].runtime = "RUNNING"
                       THEN proc' = [proc EXCEPT ![p].todo = @ \ {r}]
                       ELSE GoIdle(p)
               ELSE GoIdle(p) /\ UNCHANGED run
    /\ UNCHANGED <<group, protected, locks, changes>>

(***************************************************************************)
(* The operation is entered into the registry, and with it the claim on    *)
(* all members, if the group is still the one that was read.               *)
(***************************************************************************)
Begun(g, action) ==
    [group[g] EXCEPT
        !.lifecycle = IF action = "Start" THEN "STARTING" ELSE "STOPPING",
        !.op = [id |-> FreshId(group[g].op.id), action |-> action, state |-> "IN_PROGRESS",
                status |-> [r \in group[g].members |-> "PENDING"]]]

Commit(p) ==
    LET g == proc[p].group IN
    /\ proc[p].pc = "commit"
    /\ RegistryFree
    /\ IF Seen(g) = proc[p].seen
       THEN /\ group' = [group EXCEPT ![g] = Begun(g, proc[p].action)]
            /\ proc' = [proc EXCEPT ![p].pc = "member", ![p].seen = <<>>,
                                    ![p].id = FreshId(group[g].op.id)]
       ELSE GoIdle(p) /\ UNCHANGED group
    /\ UNCHANGED <<run, protected, locks, changes>>

(***************************************************************************)
(* What a group's command does with a member whose mutex it holds and      *)
(* whose state file it has synchronized: the entry it makes for it, where  *)
(* "IN_PROGRESS" means that the run is started or stopped next, and "none" *)
(* that the command fails.                                                 *)
(***************************************************************************)
StartMark(r) ==
    CASE run[r].runtime = "RUNNING" -> "UNCHANGED"
      [] run[r].runtime = "STOPPED" -> "IN_PROGRESS"
      [] OTHER                      -> "none"

StopMark(g, r) ==
    IF Claims(r) \ {g} # {}
    THEN IF run[r].runtime = "RUNNING" THEN "RETAINED_SHARED" ELSE "none"
    ELSE IF run[r].runtime = "STOPPED" THEN "STOPPED" ELSE "IN_PROGRESS"

MemberMark(p, r) ==
    IF proc[p].action = "Start" THEN StartMark(r) ELSE StopMark(proc[p].group, r)

(***************************************************************************)
(* The next member: a protected one is left alone by a stop; for any other *)
(* the mutex must be free.  Of a run with some instances running, a start  *)
(* does not even synchronize the state file.                               *)
(***************************************************************************)
TakeMember(p) ==
    /\ proc[p].pc = "member"
    /\ \E r \in Runs :
        /\ IsNext(p, r)
        /\ \/ /\ r \in protected
              /\ IF proc[p].action = "Stop"
                 THEN proc' = [proc EXCEPT ![p].pc = "mark", ![p].run = r, ![p].mark = "RETAINED_SHARED"]
                 ELSE Failing(p)
              /\ UNCHANGED <<run, runLock>>
           \/ /\ r \notin protected
              /\ ~ (RunFree(r) /\ Bound(r, proc[p].action))
              /\ Failing(p) /\ UNCHANGED <<run, runLock>>
           \/ /\ r \notin protected
              /\ RunFree(r) /\ Bound(r, proc[p].action)
              /\ IF proc[p].action = "Start" /\ run[r].runtime = "PARTIAL" THEN UNCHANGED run
                 ELSE run' = [run EXCEPT ![r] = Synced(@)]
              /\ IF MemberMark(p, r) = "none" THEN Failing(p) /\ UNCHANGED runLock
                 ELSE /\ LockRun(p, r)
                      /\ proc' = [proc EXCEPT ![p].pc = "mark", ![p].run = r,
                                              ![p].mark = MemberMark(p, r)]
    /\ UNCHANGED <<group, protected, registryLock, changes>>

(***************************************************************************)
(* An entry of the member in the registry, refused if the operation is no  *)
(* longer the group's current one.                                         *)
(***************************************************************************)
Entered(p, status) ==
    [group EXCEPT ![proc[p].group].op.status[proc[p].run] = status]

MarkMember(p) ==
    /\ proc[p].pc = "mark"
    /\ RegistryFree
    /\ IF ~ Current(p) THEN Failing(p) /\ Unlock(p) /\ UNCHANGED group
       ELSE /\ group' = Entered(p, proc[p].mark)
            /\ IF proc[p].mark = "IN_PROGRESS" THEN GoTo(p, "effect") /\ UNCHANGED runLock
               ELSE NextOne(p) /\ Unlock(p)
    /\ UNCHANGED <<run, protected, registryLock, changes>>

(***************************************************************************)
(* The run is started or stopped by the single-run command, which allows   *)
(* it because the operation says so (Assert-LabEnvironmentGroupOperation-  *)
(* Context).  A stop that finds the run stopped already counts as failed.  *)
(***************************************************************************)
Permitted(p) == Current(p) /\ group[proc[p].group].op.status[proc[p].run] = "IN_PROGRESS"

RunMember(p) ==
    LET r == proc[p].run
        x == SyncedWhole(run[r])
        starts == proc[p].action = "Start"
        acts == x.state = IF starts THEN "STOPPED" ELSE "RUNNING"
    IN
    /\ proc[p].pc = "effect"
    /\ RegistryFree
    /\ \/ /\ ~ Permitted(p) \/ r \in protected
          /\ Failing(p) /\ Unlock(p) /\ UNCHANGED <<run, changes>>
       \/ /\ Permitted(p) /\ r \notin protected
          /\ \/ /\ acts
                /\ run' = [run EXCEPT ![r] = IF starts THEN Started(x, "group") ELSE Stopped(x)]
                /\ GoTo(p, "confirm") /\ UNCHANGED runLock /\ NoChange
             \/ /\ acts
                /\ \E y \in IF starts THEN StartFailures(x, "group") ELSE StopFailures(x) :
                        run' = [run EXCEPT ![r] = y]
                /\ Failing(p) /\ Unlock(p) /\ Change
             \/ /\ ~ acts
                /\ run' = [run EXCEPT ![r] = x]
                /\ IF starts THEN GoTo(p, "confirm") /\ UNCHANGED runLock
                             ELSE Failing(p) /\ Unlock(p)
                /\ NoChange
    /\ UNCHANGED <<group, protected, registryLock>>

(***************************************************************************)
(* Afterwards the state file and the instances must both say so.           *)
(***************************************************************************)
ConfirmMember(p) ==
    LET x == run[proc[p].run]
        goal == IF proc[p].action = "Start" THEN "RUNNING" ELSE "STOPPED"
    IN
    /\ proc[p].pc = "confirm"
    /\ RegistryFree
    /\ IF x.state = goal /\ x.runtime = goal /\ Current(p)
       THEN group' = Entered(p, IF goal = "RUNNING" THEN "STARTED" ELSE "STOPPED") /\ NextOne(p)
       ELSE Failing(p) /\ UNCHANGED group
    /\ Unlock(p)
    /\ UNCHANGED <<run, protected, registryLock, changes>>

Ended(p, lifecycle, state) ==
    [group EXCEPT ![proc[p].group].lifecycle = lifecycle, ![proc[p].group].op.state = state]

Finish(p) ==
    /\ proc[p].pc = "member"
    /\ proc[p].todo = {}
    /\ RegistryFree
    /\ IF Current(p)
       THEN /\ group' = Ended(p, IF proc[p].action = "Start" THEN "ACTIVE" ELSE "STOPPED", "COMPLETED")
            /\ GoIdle(p)
       ELSE Failing(p) /\ UNCHANGED group
    /\ UNCHANGED <<run, protected, locks, changes>>

(***************************************************************************)
(* After an exception, when the mutex of the run has been given back, the  *)
(* group is left for recovery.                                             *)
(***************************************************************************)
GiveUp(p) ==
    /\ proc[p].pc = "failing"
    /\ RegistryFree
    /\ IF Current(p) THEN group' = Ended(p, "RECOVERY_REQUIRED", "RECOVERY_REQUIRED")
                     ELSE UNCHANGED group
    /\ GoIdle(p)
    /\ UNCHANGED <<run, protected, locks, changes>>

(***************************************************************************)
(* The registry mutex is waited for at most ten seconds, less than a       *)
(* restart may take.  The exception leads to a second attempt to get it,   *)
(* for the recovery entry; if that fails too the group keeps its state.    *)
(***************************************************************************)
TimesOut(p) ==
    /\ ~ RegistryFree
    /\ \/ proc[p].pc \in {"mark", "effect", "confirm"} /\ Failing(p) /\ Unlock(p)
       \/ proc[p].pc = "member" /\ proc[p].todo = {} /\ Failing(p) /\ UNCHANGED runLock
       \/ proc[p].pc \in {"commit", "failing"} /\ GoIdle(p) /\ UNCHANGED runLock
    /\ UNCHANGED <<group, run, protected, registryLock, changes>>

(***************************************************************************)
(* Any other exception while a member is handled: instances that cannot be *)
(* read, an unfinished journal, a changed binding, a registry write.       *)
(***************************************************************************)
Throws(p) ==
    /\ proc[p].pc \in {"member", "mark", "effect", "confirm"}
    /\ Change
    /\ Failing(p) /\ Unlock(p)
    /\ UNCHANGED <<group, run, protected, registryLock>>

-----------------------------------------------------------------------------
(***************************************************************************)
(* Single-run commands                                                     *)
(***************************************************************************)

(***************************************************************************)
(* Start, Stop and Remove of one run: refused while a group claims it,     *)
(* Remove while a group lists it.  The mutex of the run is taken before    *)
(* the registry mutex is given back.                                       *)
(***************************************************************************)
Allowed(r, command) ==
    /\ Claims(r) = {}
    /\ command = "Remove" => References(r) = {}

BeginRun(p, r, command) ==
    /\ proc[p] = Idle
    /\ command \in Commands \cap {"StartRun", "StopRun", "Remove"}
    /\ RegistryFree
    /\ Allowed(r, command)
    /\ RunFree(r)
    /\ r \notin protected /\ run[r].state # "REMOVED"
    /\ LockRun(p, r)
    /\ proc' = [proc EXCEPT ![p] = [Idle EXCEPT !.pc = "run", !.action = command, !.run = r]]
    /\ UNCHANGED <<group, run, protected, registryLock, changes>>

(***************************************************************************)
(* The effect of starting, stopping or removing a run on its own.          *)
(***************************************************************************)
StartsRun(r) ==
    LET x == SyncedWhole(run[r]) IN
    IF x.state # "STOPPED" THEN run' = [run EXCEPT ![r] = x] /\ NoChange
    ELSE \/ run' = [run EXCEPT ![r] = Started(x, "direct")] /\ NoChange
         \/ \E y \in StartFailures(x, "direct") : run' = [run EXCEPT ![r] = y] /\ Change

StopsRun(r) ==
    LET x == SyncedWhole(run[r]) IN
    IF x.state # "RUNNING" THEN run' = [run EXCEPT ![r] = x] /\ NoChange
    ELSE \/ run' = [run EXCEPT ![r] = Stopped(x)] /\ NoChange
         \/ \E y \in StopFailures(x) : run' = [run EXCEPT ![r] = y] /\ Change

RemovesRun(r) ==
    \/ /\ run' = [run EXCEPT ![r] = [state |-> "REMOVED", runtime |-> "STOPPED", origin |-> "direct"]]
       /\ NoChange
    \/ /\ \E t \in RuntimeStates :
            run' = [run EXCEPT ![r] = [state |-> "UNSETTLED", runtime |-> t, origin |-> "direct"]]
       /\ Change

EffectRun(p) ==
    LET r == proc[p].run IN
    /\ proc[p].pc = "run"
    /\ \/ proc[p].action = "StartRun" /\ StartsRun(r)
       \/ proc[p].action = "StopRun"  /\ StopsRun(r)
       \/ proc[p].action = "Remove"   /\ RemovesRun(r)
    /\ Unlock(p) /\ GoIdle(p)
    /\ UNCHANGED <<group, protected, registryLock>>

(***************************************************************************)
(* A restart keeps the registry mutex until it is done.  A stop that did   *)
(* not stop everything is followed by the start all the same, unless by an *)
(* exception.                                                              *)
(***************************************************************************)
BeginRestart(p, r) ==
    /\ proc[p] = Idle
    /\ "Restart" \in Commands
    /\ RegistryFree
    /\ Allowed(r, "Restart")
    /\ RunFree(r)
    /\ r \notin protected /\ run[r].state \in {"RUNNING", "STOPPED"}
    /\ registryLock' = p
    /\ LockRun(p, r)
    /\ proc' = [proc EXCEPT ![p] = [Idle EXCEPT !.pc = "restartStop", !.action = "Restart", !.run = r]]
    /\ UNCHANGED <<group, run, protected, changes>>

RestartStops(p) ==
    /\ proc[p].pc = "restartStop"
    /\ StopsRun(proc[p].run)
    /\ \/ GoTo(p, "restartStart") /\ UNCHANGED locks
       \/ changes' # changes /\ registryLock' = NoProc /\ Unlock(p) /\ GoIdle(p)
    /\ UNCHANGED <<group, protected>>

RestartStarts(p) ==
    /\ proc[p].pc = "restartStart"
    /\ StartsRun(proc[p].run)
    /\ registryLock' = NoProc
    /\ Unlock(p) /\ GoIdle(p)
    /\ UNCHANGED <<group, protected>>

-----------------------------------------------------------------------------
(***************************************************************************)
(* Membership.  Each command is one critical section of the registry; it   *)
(* also needs the mutex of the run, and forgets the last operation.        *)
(***************************************************************************)
\* Error seeded in WithMembers: the last operation is kept.
WithMembersKeepingOp(g, members) == [group EXCEPT ![g].members = members]

WithMembers(g, members) ==
    [group EXCEPT ![g].members = members, ![g].op = NoOperation]

AddMember(g, r) ==
    /\ "AddMember" \in Commands
    /\ Change
    /\ RegistryFree /\ RunFree(r)
    /\ group[g].lifecycle = "STOPPED"
    /\ r \notin group[g].members
    /\ Startable(r)
    /\ group' = WithMembers(g, group[g].members \cup {r})
    /\ UNCHANGED <<run, protected, locks, proc>>

RemoveMember(g, r) ==
    /\ "RemoveMember" \in Commands
    /\ Change
    /\ RegistryFree /\ RunFree(r)
    /\ group[g].lifecycle = "STOPPED"
    /\ r \in group[g].members
    /\ group' = WithMembers(g, group[g].members \ {r})
    /\ UNCHANGED <<run, protected, locks, proc>>

RemoveGroup(g) ==
    /\ "RemoveGroup" \in Commands
    /\ Change
    /\ RegistryFree
    /\ group[g].lifecycle = "STOPPED"
    /\ group' = [group EXCEPT ![g] = [lifecycle |-> "ABSENT", members |-> {}, op |-> NoOperation]]
    /\ UNCHANGED <<run, protected, locks, proc>>

(***************************************************************************)
(* A new group has a new id: a name of the model is given to another group *)
(* only when no command refers to the old one.                             *)
(***************************************************************************)
NewGroup(g) ==
    /\ "NewGroup" \in Commands
    /\ RegistryFree
    /\ group[g].lifecycle = "ABSENT"
    /\ LifecycleFree(g)
    /\ group' = [group EXCEPT ![g].lifecycle = "STOPPED"]
    /\ UNCHANGED <<run, protected, locks, proc, changes>>

-----------------------------------------------------------------------------
(***************************************************************************)
(* The surroundings: a process dies and its mutexes are abandoned; the     *)
(* instances of a run are started or stopped by the provider's own tools   *)
(* or by a reboot; a run becomes a protected test or pool run.             *)
(***************************************************************************)
Crash(p) ==
    /\ proc[p] # Idle
    /\ Change
    /\ GoIdle(p) /\ Unlock(p)
    /\ registryLock' = IF registryLock = p THEN NoProc ELSE registryLock
    /\ UNCHANGED <<group, run, protected>>

Outside(r) ==
    /\ run[r].state # "REMOVED"
    /\ Change
    /\ \E t \in RuntimeStates \ {run[r].runtime} :
        run' = [run EXCEPT ![r].runtime = t, ![r].origin = "outside"]
    /\ UNCHANGED <<group, protected, locks, proc>>

Protect(r) ==
    /\ r \notin protected /\ run[r].state # "REMOVED"
    /\ Change
    /\ protected' = protected \cup {r}
    /\ UNCHANGED <<group, run, locks, proc>>

-----------------------------------------------------------------------------
(***************************************************************************)
(* What a process does on its own once a command has been given.           *)
(***************************************************************************)
Works(p) ==
    \/ CheckMember(p) \/ Commit(p) \/ TakeMember(p) \/ MarkMember(p) \/ RunMember(p)
    \/ ConfirmMember(p) \/ Finish(p) \/ GiveUp(p) \/ TimesOut(p)
    \/ EffectRun(p) \/ RestartStops(p) \/ RestartStarts(p)

Begins(p) ==
    \/ \E g \in Groups, action \in {"Start", "Stop"} : ReadGroup(p, g, action)
    \/ \E r \in Runs :
        \/ BeginRestart(p, r)
        \/ \E command \in {"StartRun", "StopRun", "Remove"} : BeginRun(p, r, command)

Edits ==
    \E g \in Groups :
        \/ RemoveGroup(g) \/ NewGroup(g)
        \/ \E r \in Runs : AddMember(g, r) \/ RemoveMember(g, r)

Next ==
    \/ \E p \in Procs : Works(p) \/ Begins(p) \/ Throws(p) \/ Crash(p)
    \/ \E r \in Runs : Outside(r) \/ Protect(r)
    \/ Edits

Spec == Init /\ [][Next]_vars

(***************************************************************************)
(* Fairness: a process that is alive goes on, and an operator who finds a  *)
(* group in need of it asks for a stop again.                              *)
(***************************************************************************)
AsksForStop(g) == \E p \in Procs : ReadGroup(p, g, "Stop")

FairSpec ==
    /\ Spec
    /\ \A p \in Procs : WF_vars(Works(p))
    /\ \A g \in Groups : SF_vars(AsksForStop(g))

-----------------------------------------------------------------------------
(***************************************************************************)
(* Properties                                                              *)
(***************************************************************************)

(***************************************************************************)
(* The registry always passes the checks of Get-LabEnvironmentGroups-      *)
(* Registry; otherwise no command that reads it would work any more.  The  *)
(* entries of an operation belong to its action and to the lifecycle       *)
(* state, and there is one for each member.                                *)
(***************************************************************************)
ExpectedState(lifecycle) ==
    CASE lifecycle \in {"STARTING", "STOPPING"} -> "IN_PROGRESS"
      [] lifecycle = "RECOVERY_REQUIRED"        -> "RECOVERY_REQUIRED"
      [] OTHER                                  -> "COMPLETED"

ValidOperation(x) ==
    /\ x.op.state = ExpectedState(x.lifecycle)
    /\ x.lifecycle \in {"STARTING", "ACTIVE"} => x.op.action = "Start"
    /\ x.lifecycle \in {"STOPPING", "STOPPED"} => x.op.action = "Stop"
    /\ DOMAIN x.op.status = x.members
    /\ \A r \in x.members :
        /\ x.op.status[r] = "RETAINED_SHARED" => x.op.action = "Stop"
        /\ x.lifecycle = "ACTIVE"  => x.op.status[r] \in {"STARTED", "UNCHANGED"}
        /\ x.lifecycle = "STOPPED" => x.op.status[r] \in {"STOPPED", "RETAINED_SHARED"}

RegistryValid ==
    \A g \in Groups :
        IF group[g].op = NoOperation THEN group[g].lifecycle \in {"STOPPED", "ABSENT"}
        ELSE ValidOperation(group[g])

(***************************************************************************)
(* While a process works on the members of a group, its operation is the   *)
(* current one of the group: OPERATION_SUPERSEDED is never thrown once the *)
(* operation has been entered, and no entry of one operation is made into  *)
(* another one.                                                            *)
(***************************************************************************)
OneOperation == \A p \in Procs : proc[p].pc \in Operating => Current(p)

(***************************************************************************)
(* The demand of a group is honoured: a run that a starting or active      *)
(* group has found or brought up stays up, whatever other groups and       *)
(* single-run commands do.  Only the provider's own tools or a reboot      *)
(* excuse it.                                                              *)
(***************************************************************************)
Brought(g, r) ==
    /\ group[g].lifecycle \in {"STARTING", "ACTIVE"}
    /\ r \in group[g].members
    /\ group[g].op.status[r] \in {"STARTED", "UNCHANGED"}

DemandHonoured ==
    \A g \in Groups : \A r \in Runs :
        Brought(g, r) => run[r].runtime = "RUNNING" \/ run[r].origin = "outside"

(***************************************************************************)
(* A run that a group has brought up is stopped with the last claim on it: *)
(* of groups that stop, one after the other or at once, the last must not  *)
(* retain it ("instead of both groups retaining the run").                 *)
(***************************************************************************)
LastStopStops ==
    \A r \in Runs : run[r].runtime = "RUNNING" /\ run[r].origin = "group" => Claims(r) # {}

(***************************************************************************)
(* A group that waits for recovery gets stopped by stop commands, once     *)
(* only stop commands are given, unless a run that another group claims as *)
(* well is not up: then each stop refuses because of the other's claim.    *)
(***************************************************************************)
Quiet == \A p \in Procs : proc[p].action \in {"none", "Stop"}

Blocked(g) ==
    \E r \in group[g].members \ protected :
        run[r].runtime # "RUNNING" /\ Claims(r) \ {g} # {}

RecoversUnlessBlocked ==
    <>[]Quiet =>
        \A g \in Groups :
            group[g].lifecycle = "RECOVERY_REQUIRED" ~>
                group[g].lifecycle = "STOPPED" \/ Blocked(g)

=============================================================================
