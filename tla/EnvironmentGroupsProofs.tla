---------------------- MODULE EnvironmentGroupsProofs ----------------------
(***************************************************************************)
(* Theorems about EnvironmentGroups: its types, the order of operations of *)
(* a group and the registry, and the demand of a group for its runs.       *)
(***************************************************************************)
EXTENDS EnvironmentGroups, TLAPS

-----------------------------------------------------------------------------
(***************************************************************************)
(* Types                                                                   *)
(***************************************************************************)

LEMMA StatusesOf ==
    ASSUME NEW members \in SUBSET Runs, NEW f \in [members -> Statuses] PROVE f \in MemberStatuses
BY DEF MemberStatuses

LEMMA StatusEntered ==
    ASSUME NEW f \in MemberStatuses, NEW r, NEW s \in Statuses
    PROVE  [f EXCEPT ![r] = s] \in MemberStatuses
BY DEF MemberStatuses

LEMMA NoOperationType == NoOperation \in Operation
<1>1. [r \in {} |-> "PENDING"] \in [{} -> Statuses]
  OBVIOUS
<1>2. [r \in {} |-> "PENDING"] \in MemberStatuses
  BY <1>1, StatusesOf
<1> QED BY <1>2 DEF NoOperation, Operation, NoId

LEMMA SyncedType ==
    ASSUME NEW x \in RunRecord PROVE Synced(x) \in RunRecord /\ SyncedWhole(x) \in RunRecord
BY DEF RunRecord, RunStates, Synced, SyncedWhole

LEMMA EffectTypes ==
    ASSUME NEW x \in RunRecord, NEW who \in {"group", "direct"}
    PROVE  Started(x, who) \in RunRecord /\ Stopped(x) \in RunRecord
BY DEF RunRecord, RunStates, RuntimeStates, Origins, Started, Stopped

LEMMA FailureTypes ==
    ASSUME NEW x \in RunRecord, NEW who \in {"group", "direct"}
    PROVE  StartFailures(x, who) \subseteq RunRecord /\ StopFailures(x) \subseteq RunRecord
<1>1. StartFailures(x, who) \subseteq RunRecord
  BY DEF RunRecord, RunStates, RuntimeStates, Origins, StartFailures
<1>2. StopFailures(x) \subseteq RunRecord
  BY DEF RunRecord, RunStates, RuntimeStates, Origins, StopFailures
<1> QED BY <1>1, <1>2

LEMMA IdleType == Idle \in Process
BY DEF Idle, Process, NoRun, NoId

LEMMA BegunType ==
    ASSUME NEW g \in Groups, group[g] \in Entry, NEW action \in {"Start", "Stop"}
    PROVE  Begun(g, action) \in Entry
<1>1. [r \in group[g].members |-> "PENDING"] \in MemberStatuses
  BY StatusesOf DEF Statuses, Entry
<1>2. FreshId(group[g].op.id) \in 0..2
  BY DEF FreshId
<1> QED BY <1>1, <1>2 DEF Begun, Entry, Operation, Lifecycles

LEMMA OutcomeType ==
    ASSUME NEW e \in Entry, NEW r, NEW s \in Statuses
    PROVE  [e EXCEPT !.op.status[r] = s] \in Entry
<1> DEFINE f == [e.op.status EXCEPT ![r] = s]
<1>1. f \in MemberStatuses
  BY StatusEntered DEF Entry, Operation
<1>2. [e.op EXCEPT !.status = f] \in Operation
  BY <1>1 DEF Entry, Operation
<1>3. [e EXCEPT !.op.status[r] = s] = [e EXCEPT !.op = [e.op EXCEPT !.status = f]]
  BY DEF Entry, Operation
<1> HIDE DEF f
<1> QED BY <1>2, <1>3 DEF Entry

-----------------------------------------------------------------------------
(***************************************************************************)
(* A process and the registry entry of its group.                          *)
(***************************************************************************)

Running == {"mark", "effect", "confirm"}

\* What holds of the record of every process by itself.
Sound(x) ==
    /\ x.pc \in GroupSteps <=> x.group \in Groups
    /\ x.pc \in GroupSteps => x.action \in {"Start", "Stop"}
    /\ x.pc \in RunSteps => x.action # "Start"
    /\ x.pc \in Running \cup RunSteps => x.run \in Runs
    /\ x.pc = "commit" => x.todo = x.seen[3]

\* The entries an operation may have made for members it is done with.
Done(action) == IF action = "Start" THEN {"STARTED", "UNCHANGED"} ELSE {"STOPPED", "RETAINED_SHARED"}

\* What holds of a process x that works on a group with the entry e.
Work(x, e) ==
    /\ x.pc \in Operating => e.op.id = x.id /\ e.op.state = "IN_PROGRESS"
    /\ x.pc \in Running \cup {"member"} =>
        /\ e.op.action = x.action
        /\ x.todo \subseteq e.members
        /\ \A r \in e.members \ x.todo : e.op.status[r] \in Done(x.action)
    /\ x.pc \in Running => x.run \in x.todo
    /\ x.pc = "mark" => x.mark \in Done(x.action) \cup {"IN_PROGRESS"}

\* What holds of every entry of the registry.
OpOK(e) ==
    /\ IF e.op = NoOperation THEN e.lifecycle \in {"STOPPED", "ABSENT"} ELSE ValidOperation(e)
    /\ e.lifecycle = "ABSENT" => e.op = NoOperation

\* The lifecycle mutex of a group has one holder.
Exclusive == \A p, q \in Procs : proc[p].group \in Groups /\ proc[p].group = proc[q].group => p = q

GroupInv ==
    /\ group \in [Groups -> Entry]
    /\ proc \in [Procs -> Process]
    /\ \A p \in Procs : Sound(proc[p])
    /\ Exclusive
    /\ \A g \in Groups : OpOK(group[g])
    /\ \A p \in Procs : proc[p].group \in Groups => Work(proc[p], group[proc[p].group])

(***************************************************************************)
(* The three kinds of steps: of a process that holds the lifecycle mutex   *)
(* of the group whose entry it may change, of a process without a group,   *)
(* and of a command that changes an entry in one critical section.         *)
(***************************************************************************)
LEMMA GroupStep ==
    ASSUME GroupInv, NEW p \in Procs, NEW g \in Groups,
           \A q \in Procs : proc[q].group = g => q = p,
           NEW x \in Process, Sound(x), proc' = [proc EXCEPT ![p] = x],
           NEW e \in Entry, OpOK(e), group' = [group EXCEPT ![g] = e],
           x.group = g => Work(x, e), x.group \in {g, NoGroup}
    PROVE  GroupInv'
<1>1. group' \in [Groups -> Entry] /\ proc' \in [Procs -> Process]
  BY DEF GroupInv
<1>2. \A q \in Procs : proc'[q] = IF q = p THEN x ELSE proc[q]
  BY DEF GroupInv
<1>3. \A h \in Groups : group'[h] = IF h = g THEN e ELSE group[h]
  BY DEF GroupInv
<1>4. \A q \in Procs : Sound(proc'[q])
  BY <1>2 DEF GroupInv
<1>5. \A h \in Groups : OpOK(group'[h])
  BY <1>3 DEF GroupInv
<1>6. Exclusive'
  BY <1>2, ConstantsAssumption DEF GroupInv, Exclusive
<1>7. ASSUME NEW q \in Procs, proc'[q].group \in Groups
      PROVE  Work(proc'[q], group'[proc'[q].group])
  <2>1. CASE q = p
    BY <1>2, <1>3, <1>7, <2>1, ConstantsAssumption
  <2>2. CASE q # p
    <3>1. proc'[q] = proc[q] /\ proc[q].group # g
      BY <1>2, <2>2
    <3> QED BY <1>3, <1>7, <3>1 DEF GroupInv
  <2> QED BY <2>1, <2>2
<1>8. (\A q \in Procs : Sound(proc[q]))' /\ (\A h \in Groups : OpOK(group[h]))'
  BY <1>4, <1>5 DEF Sound, OpOK, ValidOperation
<1>9. (\A q \in Procs : proc[q].group \in Groups => Work(proc[q], group[proc[q].group]))'
  BY <1>7 DEF Work
<1> QED BY <1>1, <1>6, <1>8, <1>9 DEF GroupInv

LEMMA RunStep ==
    ASSUME GroupInv, NEW p \in Procs, NEW x \in Process, Sound(x), x.group = NoGroup,
           proc' = [proc EXCEPT ![p] = x], UNCHANGED group
    PROVE  GroupInv'
<1>1. proc' \in [Procs -> Process]
  BY DEF GroupInv
<1>2. \A q \in Procs : proc'[q] = IF q = p THEN x ELSE proc[q]
  BY DEF GroupInv
<1>3. Exclusive'
  BY <1>2, ConstantsAssumption DEF GroupInv, Exclusive
<1>4. (\A q \in Procs : Sound(proc[q]))' /\ (\A h \in Groups : OpOK(group[h]))'
  BY <1>2 DEF GroupInv, Sound, OpOK, ValidOperation
<1>5. (\A q \in Procs : proc[q].group \in Groups => Work(proc[q], group[proc[q].group]))'
  BY <1>2, ConstantsAssumption DEF GroupInv, Work
<1> QED BY <1>1, <1>3, <1>4, <1>5 DEF GroupInv

LEMMA EditStep ==
    ASSUME GroupInv, NEW g \in Groups, group[g].op.state # "IN_PROGRESS",
           NEW e \in Entry, OpOK(e), group' = [group EXCEPT ![g] = e], UNCHANGED proc
    PROVE  GroupInv'
<1>1. group' \in [Groups -> Entry]
  BY DEF GroupInv
<1>2. \A h \in Groups : group'[h] = IF h = g THEN e ELSE group[h]
  BY DEF GroupInv
<1>3. (\A q \in Procs : Sound(proc[q]))' /\ Exclusive'
  BY DEF GroupInv, Sound, Exclusive
<1>4. (\A h \in Groups : OpOK(group[h]))'
  BY <1>2 DEF GroupInv, OpOK, ValidOperation
<1>5. ASSUME NEW q \in Procs, proc[q].group = g PROVE Work(proc[q], e)
  BY <1>5 DEF GroupInv, Work, Operating, Running
<1>6. (\A q \in Procs : proc[q].group \in Groups => Work(proc[q], group[proc[q].group]))'
  BY <1>2, <1>5 DEF GroupInv, Work
<1> QED BY <1>1, <1>3, <1>4, <1>6 DEF GroupInv

-----------------------------------------------------------------------------
(***************************************************************************)
(* Steps of a start or stop                                                *)
(***************************************************************************)

LEMMA Holder ==
    ASSUME GroupInv, NEW p \in Procs, proc[p].pc \in GroupSteps
    PROVE  /\ proc[p] \in Process /\ proc[p].action \in {"Start", "Stop"}
           /\ proc[p].group \in Groups
           /\ group[proc[p].group] \in Entry /\ OpOK(group[proc[p].group])
           /\ Work(proc[p], group[proc[p].group])
           /\ \A q \in Procs : proc[q].group = proc[p].group => q = p
BY DEF GroupInv, Sound, Exclusive

\* The process goes on and leaves the registry alone.
LEMMA KeepStep ==
    ASSUME GroupInv, NEW p \in Procs, proc[p].pc \in GroupSteps,
           NEW x \in Process, Sound(x), proc' = [proc EXCEPT ![p] = x],
           x.group = proc[p].group, Work(x, group[proc[p].group]), UNCHANGED group
    PROVE  GroupInv'
<1> DEFINE g == proc[p].group
<1>1. group' = [group EXCEPT ![g] = group[g]]
  BY DEF GroupInv
<1>2. /\ g \in Groups /\ group[g] \in Entry /\ OpOK(group[g])
      /\ \A q \in Procs : proc[q].group = g => q = p
      /\ x.group = g /\ Work(x, group[g])
  BY Holder
<1> HIDE DEF g
<1> QED BY <1>1, <1>2, GroupStep

LEMMA IdleSound == Sound(Idle)
BY ConstantsAssumption DEF Sound, Idle, GroupSteps, Running, RunSteps

LEMMA GoIdleStep ==
    ASSUME GroupInv, NEW p \in Procs, GoIdle(p), UNCHANGED group PROVE GroupInv'
<1>1. Idle.group = NoGroup
  BY DEF Idle
<1> QED BY <1>1, IdleType, IdleSound, RunStep DEF GoIdle

\* The record of a process after an exception.
FailingRecord(x) == [x EXCEPT !.pc = "failing", !.run = NoRun, !.mark = "none", !.todo = {}]

LEMMA FailingOK ==
    ASSUME GroupInv, NEW p \in Procs, proc[p].pc \in Operating, Failing(p)
    PROVE  LET x == FailingRecord(proc[p]) IN
           /\ x \in Process /\ Sound(x) /\ proc' = [proc EXCEPT ![p] = x]
           /\ x.group = proc[p].group /\ x.id = proc[p].id /\ x.pc = "failing"
<1> DEFINE x == FailingRecord(proc[p])
<1>1. proc[p].pc \in GroupSteps
  BY DEF Operating, GroupSteps
<1>2. proc[p] \in Process /\ Sound(proc[p])
  BY DEF GroupInv
<1>3. {} \in SUBSET Runs /\ NoRun \in Runs \cup {NoRun}
  OBVIOUS
<1>4. x \in Process
  BY <1>2, <1>3 DEF FailingRecord, Process, GroupSteps
<1>5. x.group = proc[p].group /\ x.id = proc[p].id /\ x.pc = "failing" /\ x.action = proc[p].action
  BY <1>2 DEF FailingRecord, Process
<1>6. Sound(x)
  BY <1>1, <1>2, <1>5 DEF Sound, GroupSteps, Running, RunSteps
<1>7. proc' = [proc EXCEPT ![p] = x]
  BY DEF GroupInv, Failing, FailingRecord
<1> QED BY <1>4, <1>5, <1>6, <1>7

LEMMA FailingStep ==
    ASSUME GroupInv, NEW p \in Procs, proc[p].pc \in Operating, Failing(p), UNCHANGED group
    PROVE  GroupInv'
<1>1. proc[p].pc \in GroupSteps
  BY DEF Operating, GroupSteps
<1>2. Work(FailingRecord(proc[p]), group[proc[p].group])
  BY <1>1, FailingOK, Holder DEF Work, Operating, Running
<1> QED BY <1>1, <1>2, FailingOK, KeepStep

\* An entry for a member of the operation under way.
LEMMA OutcomeOK ==
    ASSUME NEW e \in Entry, OpOK(e), e.op.state = "IN_PROGRESS", NEW r \in e.members,
           NEW s \in Done(e.op.action) \cup {"IN_PROGRESS"}
    PROVE  LET f == [e EXCEPT !.op.status[r] = s] IN
           /\ f \in Entry /\ OpOK(f)
           /\ f.members = e.members /\ f.lifecycle = e.lifecycle
           /\ f.op.id = e.op.id /\ f.op.state = e.op.state /\ f.op.action = e.op.action
           /\ \A m \in e.members : f.op.status[m] = IF m = r THEN s ELSE e.op.status[m]
<1> DEFINE f == [e EXCEPT !.op.status[r] = s]
<1>1. e.op # NoOperation
  BY DEF NoOperation
<1>2. ValidOperation(e)
  BY <1>1 DEF OpOK
<1>3. e.lifecycle \in {"STARTING", "STOPPING"} /\ e.op.action \in {"Start", "Stop"}
  BY <1>2 DEF ValidOperation, ExpectedState, Entry, Lifecycles
<1>4. s \in Statuses
  BY DEF Done, Statuses
<1>5. f \in Entry
  BY <1>4, OutcomeType
<1>6. /\ f.members = e.members /\ f.lifecycle = e.lifecycle
      /\ f.op.id = e.op.id /\ f.op.state = e.op.state /\ f.op.action = e.op.action
      /\ f.op.status = [e.op.status EXCEPT ![r] = s]
  BY DEF Entry, Operation
<1>7. DOMAIN e.op.status = e.members
  BY <1>2 DEF ValidOperation
<1>8. e.op.status \in MemberStatuses
  BY DEF Entry, Operation
<1>9. e.op.status = [m \in e.members |-> e.op.status[m]]
  BY <1>7, <1>8 DEF MemberStatuses
<1>10. \A m \in e.members : f.op.status[m] = IF m = r THEN s ELSE e.op.status[m]
  BY <1>6, <1>9
<1>11. DOMAIN f.op.status = e.members
  BY <1>6, <1>7
<1>12. s = "RETAINED_SHARED" => e.op.action = "Stop"
  BY <1>3 DEF Done
<1>13. ValidOperation(f)
  <2> HIDE DEF f
  <2> QED BY <1>2, <1>3, <1>6, <1>10, <1>11, <1>12 DEF ValidOperation, ExpectedState
<1>14. f.op # NoOperation
  BY <1>6 DEF NoOperation
<1>15. OpOK(f)
  BY <1>3, <1>6, <1>13, <1>14 DEF OpOK
<1> QED BY <1>5, <1>6, <1>10, <1>15

LEMMA ReadGroupStep ==
    ASSUME GroupInv, NEW p \in Procs, NEW g \in Groups, NEW action \in {"Start", "Stop"},
           ReadGroup(p, g, action)
    PROVE  GroupInv'
<1> DEFINE step == IF group[g].lifecycle = "ACTIVE" /\ action = "Start" THEN "check" ELSE "commit"
           x == [pc |-> step, action |-> action, group |-> g, seen |-> Seen(g), id |-> NoId,
                 todo |-> group[g].members, run |-> NoRun, mark |-> "none"]
<1>1. group[g] \in Entry /\ OpOK(group[g])
  BY DEF GroupInv
<1>2. Seen(g) \in Lifecycles \X (0..2) \X SUBSET Runs
  BY <1>1 DEF Seen, Entry, Operation
<1>3. /\ x.pc \in {"check", "commit"} /\ x.action = action /\ x.group = g
      /\ x.pc = "commit" => x.todo = x.seen[3]
  BY DEF Seen
<1>4. x \in Process
  <2>1. group[g].members \in SUBSET Runs /\ step \in {"check", "commit"}
    BY <1>1 DEF Entry
  <2> HIDE DEF step
  <2> QED BY <1>2, <2>1 DEF Process, GroupSteps, AllCommands, NoId
<1>5. proc' = [proc EXCEPT ![p] = x] /\ group' = [group EXCEPT ![g] = group[g]]
  <2>1. group' = [group EXCEPT ![g] = group[g]]
    BY DEF ReadGroup, GroupInv
  <2>2. proc' = [proc EXCEPT ![p] = x]
    BY Zenon DEF ReadGroup
  <2> HIDE DEF x
  <2> QED BY <2>1, <2>2
<1>6. \A q \in Procs : proc[q].group = g => q = p
  BY DEF ReadGroup, LifecycleFree
<1> HIDE DEF x
<1>7. Sound(x) /\ Work(x, group[g])
  BY <1>3 DEF Sound, Work, GroupSteps, RunSteps, Running, Operating
<1> QED BY <1>1, <1>3, <1>4, <1>5, <1>6, <1>7, GroupStep

LEMMA CheckMemberStep ==
    ASSUME GroupInv, NEW p \in Procs, CheckMember(p) PROVE GroupInv'
<1>1. UNCHANGED group /\ proc[p].pc = "check"
  BY DEF CheckMember
<1>2. CASE GoIdle(p)
  BY <1>1, <1>2, GoIdleStep
<1>3. ASSUME NEW r \in Runs, proc' = [proc EXCEPT ![p].todo = @ \ {r}] PROVE GroupInv'
  <2> DEFINE x == [proc[p] EXCEPT !.todo = @ \ {r}]
  <2>1. proc[p].pc \in GroupSteps /\ proc[p] \in Process /\ Sound(proc[p])
    BY <1>1 DEF GroupSteps, GroupInv
  <2>2. x \in Process
    BY <2>1 DEF Process
  <2>3. /\ x.group = proc[p].group /\ x.pc = "check" /\ x.action = proc[p].action
    BY <1>1, <2>1 DEF Process
  <2>4. proc' = [proc EXCEPT ![p] = x]
    BY <1>3 DEF GroupInv
  <2> HIDE DEF x
  <2>5. Sound(x) /\ Work(x, group[proc[p].group])
    BY <1>1, <2>1, <2>3 DEF Sound, Work, GroupSteps, RunSteps, Running, Operating
  <2> QED BY <1>1, <2>1, <2>2, <2>3, <2>4, <2>5, KeepStep
<1> QED BY <1>2, <1>3 DEF CheckMember

LEMMA CommitStep ==
    ASSUME GroupInv, NEW p \in Procs, Commit(p) PROVE GroupInv'
<1> DEFINE g == proc[p].group
           e == Begun(g, proc[p].action)
           x == [proc[p] EXCEPT !.pc = "member", !.seen = <<>>, !.id = FreshId(group[g].op.id)]
<1>1. proc[p].pc = "commit" /\ proc[p].pc \in GroupSteps
  BY DEF Commit, GroupSteps
<1>2. CASE Seen(g) # proc[p].seen
  BY <1>2, GoIdleStep DEF Commit
<1>3. CASE Seen(g) = proc[p].seen
  <2>1. /\ group' = [group EXCEPT ![g] = e]
        /\ proc' = [proc EXCEPT ![p] = x]
    BY <1>3 DEF Commit, GroupInv
  <2>2. /\ g \in Groups /\ group[g] \in Entry /\ proc[p] \in Process /\ Sound(proc[p])
        /\ proc[p].action \in {"Start", "Stop"}
        /\ \A q \in Procs : proc[q].group = g => q = p
    BY <1>1, Holder DEF GroupInv
  <2>3. e \in Entry
    BY <2>2, BegunType
  <2>4. FreshId(group[g].op.id) \in 0..2
    BY DEF FreshId
  <2>5. x \in Process
    BY <2>2, <2>4 DEF Process, GroupSteps
  <2>6. /\ e.lifecycle = IF proc[p].action = "Start" THEN "STARTING" ELSE "STOPPING"
        /\ e.members = group[g].members
        /\ e.op = [id |-> FreshId(group[g].op.id), action |-> proc[p].action, state |-> "IN_PROGRESS",
                   status |-> [r \in group[g].members |-> "PENDING"]]
    BY <2>2 DEF Begun, Entry
  <2>7. /\ x.pc = "member" /\ x.group = g /\ x.action = proc[p].action
        /\ x.id = FreshId(group[g].op.id) /\ x.todo = proc[p].todo
    BY <2>2 DEF Process
  <2>8. OpOK(e)
    <3>1. e.op # NoOperation
      BY <2>6 DEF NoOperation
    <3>2. ValidOperation(e)
      BY <2>2, <2>6 DEF ValidOperation, ExpectedState
    <3> QED BY <2>6, <3>1, <3>2 DEF OpOK
  <2>9. Sound(x)
    BY <1>1, <2>2, <2>7 DEF Sound, GroupSteps, RunSteps, Running
  <2>10. Work(x, e)
    <3>1. x.todo = e.members
      BY <1>1, <1>3, <2>2, <2>6, <2>7 DEF Seen, Sound
    <3> HIDE DEF x, e
    <3> QED BY <2>6, <2>7, <3>1 DEF Work, Running, Operating
  <2> HIDE DEF x, e, g
  <2> QED BY <2>1, <2>2, <2>3, <2>5, <2>7, <2>8, <2>9, <2>10, GroupStep
<1> QED BY <1>2, <1>3

\* A member that is taken: only the record of the process changes.
LEMMA TakeMemberStep ==
    ASSUME GroupInv, NEW p \in Procs, TakeMember(p) PROVE GroupInv'
<1>1. /\ UNCHANGED group /\ proc[p].pc = "member" /\ proc[p].pc \in GroupSteps
      /\ proc[p].pc \in Operating
  BY DEF TakeMember, GroupSteps, Operating
<1>2. CASE Failing(p)
  BY <1>1, <1>2, FailingStep
<1>3. ASSUME NEW r \in Runs, IsNext(p, r), NEW m \in Done(proc[p].action) \cup {"IN_PROGRESS"},
             proc' = [proc EXCEPT ![p].pc = "mark", ![p].run = r, ![p].mark = m]
      PROVE  GroupInv'
  <2> DEFINE x == [proc[p] EXCEPT !.pc = "mark", !.run = r, !.mark = m]
  <2>1. proc[p] \in Process /\ Sound(proc[p]) /\ Work(proc[p], group[proc[p].group])
    BY <1>1, Holder DEF GroupInv
  <2>2. m \in Statuses
    BY DEF Done, Statuses
  <2>3. x \in Process
    BY <2>1, <2>2 DEF Process, GroupSteps
  <2>4. proc' = [proc EXCEPT ![p] = x]
    BY <1>3 DEF GroupInv
  <2>5. /\ x.pc = "mark" /\ x.run = r /\ x.mark = m /\ x.group = proc[p].group
        /\ x.action = proc[p].action /\ x.todo = proc[p].todo /\ x.id = proc[p].id
    BY <2>1 DEF Process
  <2> HIDE DEF x
  <2>6. Sound(x)
    BY <1>1, <2>1, <2>5 DEF Sound, GroupSteps, RunSteps
  <2>7. Work(x, group[proc[p].group])
    BY <1>1, <1>3, <2>1, <2>5 DEF Work, Running, Operating, IsNext
  <2> QED BY <1>1, <2>3, <2>4, <2>5, <2>6, <2>7, KeepStep
<1>4. proc[p].action \in {"Start", "Stop"}
  BY <1>1, Holder
<1>5. ASSUME NEW r \in Runs PROVE MemberMark(p, r) \in Done(proc[p].action) \cup {"IN_PROGRESS", "none"}
  BY <1>4 DEF MemberMark, StartMark, StopMark, Done
<1>6. "Stop" = proc[p].action => "RETAINED_SHARED" \in Done(proc[p].action)
  BY DEF Done
<1> QED BY <1>2, <1>3, <1>5, <1>6 DEF TakeMember

\* The operation of a process that has not failed, and its entry.
LEMMA OperationUnderWay ==
    ASSUME GroupInv, NEW p \in Procs, proc[p].pc \in Operating
    PROVE  Current(p)
<1>1. proc[p].pc \in GroupSteps
  BY DEF GroupSteps, Operating
<1> QED BY <1>1, Holder DEF Work, Current

\* The entry a process makes for the member at hand.
LEMMA EnteredOK ==
    ASSUME GroupInv, NEW p \in Procs, proc[p].pc \in Running,
           NEW s \in Done(proc[p].action) \cup {"IN_PROGRESS"}
    PROVE  LET g == proc[p].group
               e == [group[g] EXCEPT !.op.status[proc[p].run] = s]
           IN  /\ e \in Entry /\ OpOK(e) /\ Entered(p, s) = [group EXCEPT ![g] = e]
               /\ e.members = group[g].members /\ e.op.id = proc[p].id
               /\ e.op.state = "IN_PROGRESS" /\ e.op.action = proc[p].action
               /\ \A m \in group[g].members :
                     e.op.status[m] = IF m = proc[p].run THEN s ELSE group[g].op.status[m]
<1> DEFINE g == proc[p].group
           e == [group[g] EXCEPT !.op.status[proc[p].run] = s]
<1>1. proc[p].pc \in GroupSteps /\ proc[p].pc \in Operating
  BY DEF GroupSteps, Operating, Running
<1>2. /\ g \in Groups /\ group[g] \in Entry /\ OpOK(group[g]) /\ Work(proc[p], group[g])
  BY <1>1, Holder
<1>3. /\ proc[p].run \in group[g].members /\ group[g].op.id = proc[p].id
      /\ group[g].op.state = "IN_PROGRESS" /\ group[g].op.action = proc[p].action
  BY <1>1, <1>2 DEF Work
<1>4. s \in Done(group[g].op.action) \cup {"IN_PROGRESS"}
  BY <1>3
<1>5. Entered(p, s) = [group EXCEPT ![g] = e]
  BY <1>2 DEF Entered, GroupInv
<1>6. /\ e \in Entry /\ OpOK(e)
      /\ e.members = group[g].members
      /\ e.op.id = group[g].op.id /\ e.op.state = group[g].op.state
      /\ e.op.action = group[g].op.action
      /\ \A m \in group[g].members :
            e.op.status[m] = IF m = proc[p].run THEN s ELSE group[g].op.status[m]
  <2> HIDE DEF g
  <2> QED BY <1>2, <1>3, <1>4, OutcomeOK
<1> QED
  <2> HIDE DEF e
  <2> QED BY <1>3, <1>5, <1>6 DEF e

\* A member that is done with.
LEMMA NextOneStep ==
    ASSUME GroupInv, NEW p \in Procs, proc[p].pc \in Running, NEW s \in Done(proc[p].action),
           group' = Entered(p, s), NextOne(p)
    PROVE  GroupInv'
<1> DEFINE g == proc[p].group
           e == [group[g] EXCEPT !.op.status[proc[p].run] = s]
           x == [proc[p] EXCEPT !.pc = "member", !.run = NoRun, !.mark = "none",
                                !.todo = @ \ {proc[p].run}]
<1>1. proc[p].pc \in GroupSteps
  BY DEF GroupSteps, Running
<1>2. /\ g \in Groups /\ Work(proc[p], group[g]) /\ proc[p] \in Process /\ Sound(proc[p])
      /\ \A q \in Procs : proc[q].group = g => q = p
  BY <1>1, Holder DEF GroupInv
<1>3. /\ e \in Entry /\ OpOK(e) /\ group' = [group EXCEPT ![g] = e]
      /\ e.members = group[g].members /\ e.op.id = proc[p].id
      /\ e.op.state = "IN_PROGRESS" /\ e.op.action = proc[p].action
      /\ \A m \in group[g].members :
            e.op.status[m] = IF m = proc[p].run THEN s ELSE group[g].op.status[m]
  BY EnteredOK
<1>4. proc[p].todo \ {proc[p].run} \in SUBSET Runs /\ NoRun \in Runs \cup {NoRun}
  BY <1>2 DEF Process
<1>5. x \in Process
  BY <1>2, <1>4 DEF Process, GroupSteps
<1>6. proc' = [proc EXCEPT ![p] = x]
  BY DEF NextOne, GroupInv
<1>7. /\ x.pc = "member" /\ x.group = g /\ x.id = proc[p].id
      /\ x.action = proc[p].action /\ x.todo = proc[p].todo \ {proc[p].run}
  BY <1>2 DEF Process
<1> HIDE DEF x, e
<1>8. Sound(x)
  BY <1>1, <1>2, <1>7 DEF Sound, GroupSteps, RunSteps, Running
<1>9. Work(x, e)
  BY <1>2, <1>3, <1>7 DEF Work, Running, Operating
<1> HIDE DEF g
<1> QED BY <1>2, <1>3, <1>5, <1>6, <1>7, <1>8, <1>9, GroupStep

LEMMA MarkMemberStep ==
    ASSUME GroupInv, NEW p \in Procs, MarkMember(p) PROVE GroupInv'
<1> DEFINE g == proc[p].group
           m == proc[p].mark
           e == [group[g] EXCEPT !.op.status[proc[p].run] = m]
<1>1. /\ proc[p].pc = "mark" /\ proc[p].pc \in GroupSteps /\ proc[p].pc \in Operating
      /\ proc[p].pc \in Running
  BY DEF MarkMember, GroupSteps, Operating, Running
<1>2. Current(p)
  BY <1>1, OperationUnderWay
<1>3. /\ g \in Groups /\ Work(proc[p], group[g]) /\ proc[p] \in Process /\ Sound(proc[p])
      /\ \A q \in Procs : proc[q].group = g => q = p
  BY <1>1, Holder DEF GroupInv
<1>4. m \in Done(proc[p].action) \cup {"IN_PROGRESS"} /\ group' = Entered(p, m)
  BY <1>1, <1>2, <1>3 DEF Work, MarkMember
<1>5. CASE m = "IN_PROGRESS"
  <2> DEFINE x == [proc[p] EXCEPT !.pc = "effect"]
  <2>1. x \in Process /\ proc' = [proc EXCEPT ![p] = x]
    BY <1>2, <1>3, <1>5 DEF MarkMember, GoTo, GroupInv, Process, GroupSteps
  <2>2. /\ x.pc = "effect" /\ x.run = proc[p].run /\ x.group = g
        /\ x.action = proc[p].action /\ x.todo = proc[p].todo /\ x.id = proc[p].id
    BY <1>3 DEF Process
  <2>3. Sound(x)
    <3> HIDE DEF x
    <3> QED BY <1>1, <1>3, <2>2 DEF Sound, GroupSteps, RunSteps, Running
  <2>4. /\ e \in Entry /\ OpOK(e) /\ group' = [group EXCEPT ![g] = e]
        /\ e.members = group[g].members /\ e.op.id = proc[p].id
        /\ e.op.state = "IN_PROGRESS" /\ e.op.action = proc[p].action
        /\ \A r \in group[g].members :
              e.op.status[r] = IF r = proc[p].run THEN m ELSE group[g].op.status[r]
    BY <1>1, <1>4, EnteredOK
  <2> HIDE DEF x, e
  <2>5. Work(x, e)
    BY <1>1, <1>3, <2>2, <2>4 DEF Work, Running, Operating
  <2> HIDE DEF g
  <2> QED BY <1>3, <2>1, <2>2, <2>3, <2>4, <2>5, GroupStep
<1>6. CASE m # "IN_PROGRESS"
  BY <1>1, <1>2, <1>4, <1>6, NextOneStep DEF MarkMember
<1> QED BY <1>5, <1>6

LEMMA RunMemberStep ==
    ASSUME GroupInv, NEW p \in Procs, RunMember(p) PROVE GroupInv'
<1>1. /\ proc[p].pc = "effect" /\ UNCHANGED group /\ proc[p].pc \in GroupSteps
      /\ proc[p].pc \in Operating /\ proc[p].pc \in Running
  BY DEF RunMember, GroupSteps, Operating, Running
<1>2. CASE Failing(p)
  BY <1>1, <1>2, FailingStep
<1>3. CASE GoTo(p, "confirm")
  <2> DEFINE x == [proc[p] EXCEPT !.pc = "confirm"]
  <2>1. proc[p] \in Process /\ Sound(proc[p]) /\ Work(proc[p], group[proc[p].group])
    BY <1>1, Holder DEF GroupInv
  <2>2. x \in Process /\ proc' = [proc EXCEPT ![p] = x]
    BY <1>3, <2>1 DEF GoTo, GroupInv, Process, GroupSteps
  <2>3. /\ x.pc = "confirm" /\ x.run = proc[p].run /\ x.group = proc[p].group
        /\ x.action = proc[p].action /\ x.todo = proc[p].todo /\ x.id = proc[p].id
    BY <2>1 DEF Process
  <2> HIDE DEF x
  <2>4. Sound(x)
    BY <1>1, <2>1, <2>3 DEF Sound, GroupSteps, RunSteps, Running
  <2>5. Work(x, group[proc[p].group])
    BY <1>1, <2>1, <2>3 DEF Work, Running, Operating
  <2> QED BY <1>1, <2>2, <2>3, <2>4, <2>5, KeepStep
<1> QED BY <1>2, <1>3 DEF RunMember

LEMMA ConfirmMemberStep ==
    ASSUME GroupInv, NEW p \in Procs, ConfirmMember(p) PROVE GroupInv'
<1>1. /\ proc[p].pc = "confirm" /\ proc[p].pc \in GroupSteps /\ proc[p].pc \in Operating
      /\ proc[p].pc \in Running
  BY DEF ConfirmMember, GroupSteps, Operating, Running
<1>2. CASE Failing(p) /\ UNCHANGED group
  BY <1>1, <1>2, FailingStep
<1>3. ASSUME NEW s \in Done(proc[p].action), group' = Entered(p, s), NextOne(p) PROVE GroupInv'
  BY <1>1, <1>3, NextOneStep
<1>4. proc[p].action \in {"Start", "Stop"}
  BY <1>1, Holder
<1> QED BY <1>2, <1>3, <1>4 DEF ConfirmMember, Done

\* The end of an operation, in whatever way: the process gives the group back.
LEMMA EndStep ==
    ASSUME GroupInv, NEW p \in Procs, proc[p].pc \in GroupSteps, GoIdle(p),
           NEW l \in Lifecycles, NEW t \in {"COMPLETED", "RECOVERY_REQUIRED"}, group' = Ended(p, l, t),
           l # "ABSENT",
           ValidOperation([group[proc[p].group] EXCEPT !.lifecycle = l, !.op.state = t])
    PROVE  GroupInv'
<1> DEFINE g == proc[p].group
           e == [group[g] EXCEPT !.lifecycle = l, !.op.state = t]
<1>1. /\ g \in Groups /\ group[g] \in Entry
      /\ \A q \in Procs : proc[q].group = g => q = p
  BY Holder
<1>2. e \in Entry
  <2>1. [group[g].op EXCEPT !.state = t] \in Operation
    BY <1>1 DEF Entry, Operation
  <2> QED BY <1>1, <2>1 DEF Entry
<1>3. e.lifecycle = l /\ e.op.state = t
  BY <1>1 DEF Entry, Operation
<1>4. OpOK(e)
  <2>1. e.op # NoOperation
    BY <1>3 DEF NoOperation
  <2> QED BY <1>3, <2>1 DEF OpOK
<1>5. group' = [group EXCEPT ![g] = e]
  BY <1>1 DEF Ended, GroupInv
<1>6. Idle.group = NoGroup
  BY DEF Idle
<1>7. proc' = [proc EXCEPT ![p] = Idle]
  BY DEF GoIdle
<1> HIDE DEF e, g
<1> QED BY <1>1, <1>2, <1>4, <1>5, <1>6, <1>7, IdleType, IdleSound, GroupStep, ConstantsAssumption

\* An entry that belongs to an operation under way.
LEMMA EntryUnderWay ==
    ASSUME NEW e \in Entry, OpOK(e), e.op.state = "IN_PROGRESS"
    PROVE  /\ ValidOperation(e) /\ e.op.action \in {"Start", "Stop"}
           /\ e.lifecycle = IF e.op.action = "Start" THEN "STARTING" ELSE "STOPPING"
<1>1. e.op # NoOperation
  BY DEF NoOperation
<1> QED BY <1>1 DEF OpOK, ValidOperation, ExpectedState, Entry, Lifecycles

LEMMA FinishStep ==
    ASSUME GroupInv, NEW p \in Procs, Finish(p) PROVE GroupInv'
<1> DEFINE g == proc[p].group
           l == IF proc[p].action = "Start" THEN "ACTIVE" ELSE "STOPPED"
           e == [group[g] EXCEPT !.lifecycle = l, !.op.state = "COMPLETED"]
<1>1. /\ proc[p].pc = "member" /\ proc[p].pc \in GroupSteps /\ proc[p].pc \in Operating
      /\ proc[p].todo = {}
  BY DEF Finish, GroupSteps, Operating
<1>2. Current(p)
  BY <1>1, OperationUnderWay
<1>3. group' = Ended(p, l, "COMPLETED") /\ GoIdle(p)
  BY <1>2 DEF Finish
<1>4. /\ g \in Groups /\ group[g] \in Entry /\ OpOK(group[g]) /\ Work(proc[p], group[g])
      /\ proc[p].action \in {"Start", "Stop"}
  BY <1>1, Holder
<1>5. /\ group[g].op.state = "IN_PROGRESS" /\ group[g].op.action = proc[p].action
      /\ \A r \in group[g].members : group[g].op.status[r] \in Done(proc[p].action)
  BY <1>1, <1>4 DEF Work, Operating
<1>6. ValidOperation(group[g])
  BY <1>4, <1>5, EntryUnderWay
<1>7. /\ e.lifecycle = l /\ e.op.state = "COMPLETED" /\ e.members = group[g].members
      /\ e.op.action = proc[p].action /\ e.op.status = group[g].op.status
  BY <1>4, <1>5 DEF Entry, Operation
<1>8. ValidOperation(e)
  <2> HIDE DEF e
  <2> QED BY <1>4, <1>5, <1>6, <1>7 DEF ValidOperation, ExpectedState, Done
<1> QED BY <1>1, <1>3, <1>8, EndStep DEF Lifecycles

LEMMA GiveUpStep ==
    ASSUME GroupInv, NEW p \in Procs, GiveUp(p) PROVE GroupInv'
<1> DEFINE g == proc[p].group
           e == [group[g] EXCEPT !.lifecycle = "RECOVERY_REQUIRED", !.op.state = "RECOVERY_REQUIRED"]
<1>1. proc[p].pc = "failing" /\ proc[p].pc \in GroupSteps /\ proc[p].pc \in Operating
  BY DEF GiveUp, GroupSteps, Operating
<1>2. Current(p)
  BY <1>1, OperationUnderWay
<1>3. group' = Ended(p, "RECOVERY_REQUIRED", "RECOVERY_REQUIRED") /\ GoIdle(p)
  BY <1>2 DEF GiveUp
<1>4. g \in Groups /\ group[g] \in Entry /\ OpOK(group[g]) /\ group[g].op.state = "IN_PROGRESS"
  BY <1>1, <1>2, Holder DEF Current
<1>5. ValidOperation(group[g])
  BY <1>4, EntryUnderWay
<1>6. /\ e.lifecycle = "RECOVERY_REQUIRED" /\ e.op.state = "RECOVERY_REQUIRED"
      /\ e.members = group[g].members /\ e.op.action = group[g].op.action
      /\ e.op.status = group[g].op.status
  BY <1>4 DEF Entry, Operation
<1>7. ValidOperation(e)
  <2> HIDE DEF e
  <2> QED BY <1>5, <1>6 DEF ValidOperation, ExpectedState
<1> QED BY <1>1, <1>3, <1>7, EndStep DEF Lifecycles

LEMMA TimesOutStep ==
    ASSUME GroupInv, NEW p \in Procs, TimesOut(p) PROVE GroupInv'
<1>1. CASE proc[p].pc \in Operating /\ Failing(p)
  BY <1>1, FailingStep DEF TimesOut
<1>2. CASE GoIdle(p)
  BY <1>2, GoIdleStep DEF TimesOut
<1> QED BY <1>1, <1>2 DEF TimesOut, Operating

LEMMA ThrowsStep ==
    ASSUME GroupInv, NEW p \in Procs, Throws(p) PROVE GroupInv'
BY FailingStep DEF Throws, Operating

LEMMA CrashStep ==
    ASSUME GroupInv, NEW p \in Procs, Crash(p) PROVE GroupInv'
BY GoIdleStep DEF Crash

-----------------------------------------------------------------------------
(***************************************************************************)
(* Single-run commands and changes of memberships                          *)
(***************************************************************************)

LEMMA BeginRunStep ==
    ASSUME GroupInv, NEW p \in Procs, NEW r \in Runs,
           BeginRestart(p, r) \/ \E command \in {"StartRun", "StopRun", "Remove"} : BeginRun(p, r, command)
    PROVE  GroupInv'
<1>1. ASSUME NEW pc \in RunSteps, NEW action \in AllCommands \ {"Start"},
             proc' = [proc EXCEPT ![p] = [Idle EXCEPT !.pc = pc, !.action = action, !.run = r]],
             UNCHANGED group
      PROVE  GroupInv'
  <2> DEFINE x == [Idle EXCEPT !.pc = pc, !.action = action, !.run = r]
  <2>1. x.pc = pc /\ x.run = r /\ x.group = NoGroup /\ x.action = action
    BY DEF Idle
  <2>2. x \in Process
    BY IdleType DEF Process
  <2> HIDE DEF x
  <2>3. Sound(x)
    BY <2>1, ConstantsAssumption DEF Sound, GroupSteps, RunSteps
  <2> QED BY <1>1, <2>1, <2>2, <2>3, RunStep DEF x
<1> QED BY <1>1 DEF BeginRun, BeginRestart, RunSteps, AllCommands

LEMMA EndRunStep ==
    ASSUME GroupInv, NEW p \in Procs, EffectRun(p) \/ RestartStarts(p) \/ RestartStops(p)
    PROVE  GroupInv'
<1>1. UNCHANGED group
  BY DEF EffectRun, RestartStarts, RestartStops
<1>2. CASE GoIdle(p)
  BY <1>1, <1>2, GoIdleStep
<1>3. CASE proc[p].pc = "restartStop" /\ GoTo(p, "restartStart")
  <2> DEFINE x == [proc[p] EXCEPT !.pc = "restartStart"]
  <2>1. proc[p] \in Process /\ Sound(proc[p])
    BY DEF GroupInv
  <2>2. x \in Process /\ proc' = [proc EXCEPT ![p] = x]
    BY <1>3, <2>1 DEF GoTo, GroupInv, Process, RunSteps
  <2>3. /\ x.pc = "restartStart" /\ x.run = proc[p].run /\ x.group = proc[p].group
        /\ x.action = proc[p].action
    BY <2>1 DEF Process
  <2>4. proc[p].group = NoGroup
    BY <1>3, <2>1 DEF Sound, GroupSteps, Process
  <2> HIDE DEF x
  <2>5. Sound(x)
    BY <1>3, <2>1, <2>3, <2>4, ConstantsAssumption DEF Sound, GroupSteps, RunSteps
  <2> QED BY <1>1, <2>2, <2>3, <2>4, <2>5, RunStep
<1> QED BY <1>2, <1>3 DEF EffectRun, RestartStarts, RestartStops

LEMMA EditsStep == ASSUME GroupInv, Edits PROVE GroupInv'
<1> SUFFICES ASSUME NEW g \in Groups,
                    \/ RemoveGroup(g) \/ NewGroup(g)
                    \/ \E r \in Runs : AddMember(g, r) \/ RemoveMember(g, r)
             PROVE  GroupInv'
  BY DEF Edits
<1>1. group[g] \in Entry /\ OpOK(group[g])
  BY DEF GroupInv
<1>2. group[g].lifecycle \in {"STOPPED", "ABSENT"}
  BY DEF RemoveGroup, NewGroup, AddMember, RemoveMember
<1>3. group[g].op.state # "IN_PROGRESS"
  BY <1>1, <1>2, EntryUnderWay
<1>4. UNCHANGED proc
  BY DEF RemoveGroup, NewGroup, AddMember, RemoveMember
<1>5. CASE RemoveGroup(g)
  <2> DEFINE e == [lifecycle |-> "ABSENT", members |-> {}, op |-> NoOperation]
  <2>1. e \in Entry
    <3>1. {} \in SUBSET Runs
      OBVIOUS
    <3> QED BY <3>1, NoOperationType DEF Entry, Lifecycles
  <2>2. OpOK(e)
    BY DEF OpOK
  <2>3. group' = [group EXCEPT ![g] = e]
    BY <1>5 DEF RemoveGroup
  <2> HIDE DEF e
  <2> QED BY <1>3, <1>4, <2>1, <2>2, <2>3, EditStep
<1>6. CASE NewGroup(g)
  <2> DEFINE e == [group[g] EXCEPT !.lifecycle = "STOPPED"]
  <2>1. e \in Entry /\ e.lifecycle = "STOPPED" /\ e.op = NoOperation
    BY <1>1, <1>6 DEF NewGroup, OpOK, Entry, Lifecycles
  <2>2. group' = [group EXCEPT ![g] = e]
    BY <1>6 DEF NewGroup, GroupInv
  <2> HIDE DEF e
  <2>3. OpOK(e)
    BY <2>1 DEF OpOK
  <2> QED BY <1>3, <1>4, <2>1, <2>2, <2>3, EditStep
<1>7. ASSUME NEW members \in SUBSET Runs, group[g].lifecycle = "STOPPED", group' = WithMembers(g, members)
      PROVE  GroupInv'
  <2> DEFINE e == [group[g] EXCEPT !.members = members, !.op = NoOperation]
  <2>1. e \in Entry /\ e.lifecycle = "STOPPED" /\ e.op = NoOperation
    BY <1>1, <1>7, NoOperationType DEF Entry
  <2>2. group' = [group EXCEPT ![g] = e]
    BY <1>7 DEF WithMembers, GroupInv
  <2> HIDE DEF e
  <2>3. OpOK(e)
    BY <2>1 DEF OpOK
  <2> QED BY <1>3, <1>4, <2>1, <2>2, <2>3, EditStep
<1>8. \A r \in Runs : group[g].members \cup {r} \in SUBSET Runs /\ group[g].members \ {r} \in SUBSET Runs
  BY <1>1 DEF Entry
<1> QED BY <1>5, <1>6, <1>7, <1>8 DEF AddMember, RemoveMember

LEMMA GroupInvStep == ASSUME GroupInv, [Next]_vars PROVE GroupInv'
<1>1. CASE UNCHANGED <<group, proc>>
  BY <1>1 DEF GroupInv, Sound, Exclusive, OpOK, ValidOperation, Work
<1>2. CASE Edits
  BY <1>2, EditsStep
<1>3. ASSUME NEW p \in Procs, Works(p) \/ Begins(p) \/ Throws(p) \/ Crash(p) PROVE GroupInv'
  <2>1. CASE Works(p)
    BY <2>1, CheckMemberStep, CommitStep, TakeMemberStep, MarkMemberStep, RunMemberStep,
       ConfirmMemberStep, FinishStep, GiveUpStep, TimesOutStep, EndRunStep DEF Works
  <2>2. CASE Begins(p)
    BY <2>2, ReadGroupStep, BeginRunStep DEF Begins
  <2> QED BY <1>3, <2>1, <2>2, ThrowsStep, CrashStep
<1>4. ASSUME NEW r \in Runs, Outside(r) \/ Protect(r) PROVE GroupInv'
  BY <1>1, <1>4 DEF Outside, Protect
<1> QED BY <1>1, <1>2, <1>3, <1>4 DEF Next, vars

LEMMA GroupInvInit == Init => GroupInv
<1> SUFFICES ASSUME Init PROVE GroupInv
  OBVIOUS
<1>1. PICK m \in Memberships :
        group = [g \in Groups |-> [lifecycle |-> "STOPPED", members |-> m[g], op |-> NoOperation]]
  BY DEF Init
<1>2. \A g \in Groups : group[g] \in Entry /\ OpOK(group[g])
  BY <1>1, NoOperationType, ConstantsAssumption DEF Entry, Lifecycles, OpOK
<1>3. proc = [p \in Procs |-> Idle]
  BY DEF Init
<1>4. \A p \in Procs : proc[p].group \notin Groups
  BY <1>3, ConstantsAssumption DEF Idle
<1>5. group \in [Groups -> Entry]
  BY <1>1, <1>2
<1> QED BY <1>2, <1>3, <1>4, <1>5, IdleType, IdleSound DEF GroupInv, Exclusive

(***************************************************************************)
(* Once a process has entered its operation, the operation stays the       *)
(* current one of its group until the process has ended it                 *)
(* (OPERATION_SUPERSEDED is never thrown), whatever other processes,       *)
(* crashes and changes of memberships do.                                  *)
(***************************************************************************)
THEOREM OperationsStayCurrent == Spec => []OneOperation
<1>1. GroupInv => OneOperation
  BY OperationUnderWay DEF OneOperation
<1> QED BY <1>1, GroupInvInit, GroupInvStep, PTL DEF Spec

(***************************************************************************)
(* No sequence of commands, failures and crashes leaves an entry the       *)
(* registry is rejected for.                                               *)
(***************************************************************************)
THEOREM RegistryStaysValid == Spec => []RegistryValid
<1>1. GroupInv => RegistryValid
  BY DEF GroupInv, OpOK, RegistryValid
<1> QED BY <1>1, GroupInvInit, GroupInvStep, PTL DEF Spec

-----------------------------------------------------------------------------
(***************************************************************************)
(* Types of the other variables                                            *)
(***************************************************************************)

OtherTypes ==
    /\ run \in [Runs -> RunRecord]
    /\ protected \in SUBSET Runs
    /\ registryLock \in Procs \cup {NoProc}
    /\ runLock \in [Runs -> Procs \cup {NoProc}]
    /\ changes \in 0..MaxChanges

LEMMA StartsRunType ==
    ASSUME OtherTypes, NEW r \in Runs, StartsRun(r)
    PROVE  run' \in [Runs -> RunRecord] /\ changes' \in 0..MaxChanges
<1>1. SyncedWhole(run[r]) \in RunRecord
  BY SyncedType DEF OtherTypes
<1>2. Started(SyncedWhole(run[r]), "direct") \in RunRecord
  BY <1>1, EffectTypes
<1>3. StartFailures(SyncedWhole(run[r]), "direct") \subseteq RunRecord
  BY <1>1, FailureTypes
<1>4. PICK y \in RunRecord : run' = [run EXCEPT ![r] = y]
  BY <1>1, <1>2, <1>3 DEF StartsRun
<1>5. changes' \in 0..MaxChanges
  BY ConstantsAssumption DEF StartsRun, Change, NoChange, OtherTypes
<1> QED BY <1>4, <1>5 DEF OtherTypes

LEMMA StopsRunType ==
    ASSUME OtherTypes, NEW r \in Runs, StopsRun(r)
    PROVE  run' \in [Runs -> RunRecord] /\ changes' \in 0..MaxChanges
<1>1. SyncedWhole(run[r]) \in RunRecord
  BY SyncedType DEF OtherTypes
<1>2. Stopped(SyncedWhole(run[r])) \in RunRecord
  BY <1>1, EffectTypes
<1>3. StopFailures(SyncedWhole(run[r])) \subseteq RunRecord
  BY <1>1, FailureTypes
<1>4. PICK y \in RunRecord : run' = [run EXCEPT ![r] = y]
  BY <1>1, <1>2, <1>3 DEF StopsRun
<1>5. changes' \in 0..MaxChanges
  BY ConstantsAssumption DEF StopsRun, Change, NoChange, OtherTypes
<1> QED BY <1>4, <1>5 DEF OtherTypes

LEMMA RemovesRunType ==
    ASSUME OtherTypes, NEW r \in Runs, RemovesRun(r)
    PROVE  run' \in [Runs -> RunRecord] /\ changes' \in 0..MaxChanges
<1>1. PICK y \in RunRecord : run' = [run EXCEPT ![r] = y]
  BY DEF RemovesRun, RunRecord, RunStates, RuntimeStates, Origins
<1>2. changes' \in 0..MaxChanges
  BY ConstantsAssumption DEF RemovesRun, Change, NoChange, OtherTypes
<1> QED BY <1>1, <1>2 DEF OtherTypes

LEMMA MemberEffectType ==
    ASSUME OtherTypes, NEW p \in Procs, proc[p].run \in Runs, RunMember(p)
    PROVE  run' \in [Runs -> RunRecord] /\ changes' \in 0..MaxChanges
<1> DEFINE r == proc[p].run
           x == SyncedWhole(run[r])
<1>1. x \in RunRecord
  BY SyncedType DEF OtherTypes
<1>2. Started(x, "group") \in RunRecord /\ Stopped(x) \in RunRecord
  BY <1>1, EffectTypes
<1>3. StartFailures(x, "group") \subseteq RunRecord /\ StopFailures(x) \subseteq RunRecord
  BY <1>1, FailureTypes
<1>4. UNCHANGED run \/ \E y \in RunRecord : run' = [run EXCEPT ![r] = y]
  <2> HIDE DEF x
  <2> QED BY <1>1, <1>2, <1>3 DEF RunMember, x
<1>5. changes' \in 0..MaxChanges
  BY ConstantsAssumption DEF RunMember, Change, NoChange, OtherTypes
<1> QED BY <1>4, <1>5 DEF OtherTypes

LEMMA OtherTypesStep == ASSUME GroupInv, OtherTypes, [Next]_vars PROVE OtherTypes'
<1> USE DEF OtherTypes
<1>1. CASE UNCHANGED vars
  BY <1>1 DEF vars
<1>2. CASE Edits
  <2>1. UNCHANGED <<run, protected, registryLock, runLock>>
    BY <1>2 DEF Edits, RemoveGroup, NewGroup, AddMember, RemoveMember, locks
  <2>2. Change \/ UNCHANGED changes
    BY <1>2 DEF Edits, RemoveGroup, NewGroup, AddMember, RemoveMember
  <2> QED BY <2>1, <2>2, ConstantsAssumption DEF Change
<1>3. ASSUME NEW r \in Runs, Outside(r) \/ Protect(r) PROVE OtherTypes'
  <2>1. CASE Outside(r)
    <3>1. PICK t \in RuntimeStates : run' = [run EXCEPT ![r].runtime = t, ![r].origin = "outside"]
      BY <2>1 DEF Outside
    <3>2. run' \in [Runs -> RunRecord]
      BY <3>1 DEF RunRecord, Origins
    <3> QED BY <2>1, <3>2, ConstantsAssumption DEF Outside, Change, locks
  <2>2. CASE Protect(r)
    BY <2>2, ConstantsAssumption DEF Protect, Change, locks
  <2> QED BY <1>3, <2>1, <2>2
<1>4. ASSUME NEW p \in Procs, Works(p) \/ Begins(p) \/ Throws(p) \/ Crash(p) PROVE OtherTypes'
  <2>1. \A r \in Runs : /\ [run EXCEPT ![r] = Synced(@)] \in [Runs -> RunRecord]
                       /\ [runLock EXCEPT ![r] = p] \in [Runs -> Procs \cup {NoProc}]
    BY SyncedType
  <2>2. Unlock(p) => runLock' \in [Runs -> Procs \cup {NoProc}]
    BY DEF Unlock
  <2>3. CASE CheckMember(p)
    BY <2>1, <2>3 DEF CheckMember, locks
  <2>4. CASE Commit(p) \/ Finish(p) \/ GiveUp(p)
    BY <2>4 DEF Commit, Finish, GiveUp, locks
  <2>5. CASE TakeMember(p)
    BY <2>1, <2>5 DEF TakeMember, LockRun
  <2>6. CASE MarkMember(p)
    BY <2>2, <2>6 DEF MarkMember
  <2>7. CASE RunMember(p)
    <3>1. proc[p].run \in Runs
      BY <2>7 DEF RunMember, GroupInv, Sound, Running
    <3> QED BY <2>2, <2>7, <3>1, MemberEffectType DEF RunMember
  <2>8. CASE ConfirmMember(p)
    BY <2>2, <2>8 DEF ConfirmMember
  <2>9. CASE TimesOut(p) \/ Throws(p) \/ Crash(p)
    <3>1. UNCHANGED <<run, protected>> /\ registryLock' \in {registryLock, NoProc}
      BY <2>9 DEF TimesOut, Throws, Crash
    <3>2. Unlock(p) \/ UNCHANGED runLock
      BY <2>9 DEF TimesOut, Throws, Crash
    <3>3. Change \/ UNCHANGED changes
      BY <2>9 DEF TimesOut, Throws, Crash
    <3> QED BY <2>2, <3>1, <3>2, <3>3, ConstantsAssumption DEF Change
  <2>10. CASE EffectRun(p) \/ RestartStops(p) \/ RestartStarts(p)
    <3>1. proc[p].run \in Runs
      BY <2>10 DEF EffectRun, RestartStops, RestartStarts, GroupInv, Sound, RunSteps
    <3> QED BY <2>2, <2>10, <3>1, StartsRunType, StopsRunType, RemovesRunType
            DEF EffectRun, RestartStops, RestartStarts, locks
  <2>11. CASE Begins(p)
    BY <2>1, <2>11 DEF Begins, ReadGroup, BeginRun, BeginRestart, LockRun, locks
  <2> QED BY <1>4, <2>3, <2>4, <2>5, <2>6, <2>7, <2>8, <2>9, <2>10, <2>11 DEF Works
<1> QED BY <1>1, <1>2, <1>3, <1>4 DEF Next

LEMMA OtherTypesInit == Init => OtherTypes
BY ConstantsAssumption DEF Init, OtherTypes, RunRecord, RunStates, RuntimeStates, Origins

(***************************************************************************)
(* Every variable keeps its type.                                          *)
(***************************************************************************)
THEOREM GroupsTypeCorrect == Spec => []TypeOK
<1>1. GroupInv /\ OtherTypes => TypeOK
  BY DEF GroupInv, OtherTypes, TypeOK
<1> QED BY <1>1, GroupInvInit, GroupInvStep, OtherTypesInit, OtherTypesStep, PTL DEF Spec

-----------------------------------------------------------------------------
(***************************************************************************)
(* The demand of a group for its runs                                      *)
(***************************************************************************)

\* A process with the record x holds the mutex of its run.
Holds(x) == x.pc \in {"effect", "confirm"} \cup RunSteps \/ (x.pc = "mark" /\ x.mark # "RETAINED_SHARED")

\* The entries that say that a run is up.
Found == {"STARTED", "UNCHANGED"}

Up(x) == x.runtime = "RUNNING" \/ x.origin = "outside"

(***************************************************************************)
(* Who stops a run or starts it on its own holds its mutex, and since he   *)
(* took it no group has brought the run up: that takes the mutex as well.  *)
(* A run that was found up, under its mutex, is up when the entry is made. *)
(***************************************************************************)
DemandInv ==
    /\ \A p \in Procs : Holds(proc[p]) => runLock[proc[p].run] = p
    /\ \A p \in Procs : Holds(proc[p]) /\ proc[p].action # "Start" =>
            \A g \in Groups : ~ Brought(g, proc[p].run)
    /\ \A p \in Procs : proc[p].pc = "mark" /\ proc[p].action = "Start" /\ proc[p].mark \in Found =>
            Up(run[proc[p].run])
    /\ \A g \in Groups, r \in Runs : Brought(g, r) => Up(run[r])

(***************************************************************************)
(* What a step of a process may do to the runs and the entries: the locks  *)
(* of others are kept, only a start that holds the run brings it up, and   *)
(* only somebody else who holds it takes it down.                          *)
(***************************************************************************)
Lifts(p) ==
    \A g \in Groups, r \in Runs : Brought(g, r)' =>
        \/ Brought(g, r)
        \/ Holds(proc[p]) /\ proc[p].action = "Start" /\ proc[p].run = r /\ Up(run'[r])

Lowers(p) ==
    \A r \in Runs : Up(run[r]) =>
        Up(run'[r]) \/ (Holds(proc[p]) /\ proc[p].action # "Start" /\ proc[p].run = r)

Takes(p, x) ==
    /\ Holds(x) => runLock'[x.run] = p
    /\ Holds(x) /\ x.action # "Start" =>
        \/ Holds(proc[p]) /\ proc[p].run = x.run /\ proc[p].action # "Start"
        \/ ~ Holds(proc[p]) /\ \A g \in Groups : ~ Brought(g, x.run)
    /\ x.pc = "mark" /\ x.action = "Start" /\ x.mark \in Found => Up(run'[x.run])

LockedElse(p) == \A q \in Procs \ {p}, r \in Runs : runLock[r] = q => runLock'[r] = q

LEMMA DemandStep ==
    ASSUME GroupInv, DemandInv, NEW p \in Procs, NEW x, proc' = [proc EXCEPT ![p] = x],
           x.run \in Runs \/ ~ Holds(x),
           LockedElse(p), Takes(p, x), Lifts(p), Lowers(p)
    PROVE  DemandInv'
<1>1. \A q \in Procs : proc'[q] = IF q = p THEN x ELSE proc[q]
  BY DEF GroupInv
<1>2. \A q \in Procs : Holds(proc[q]) \/ proc[q].pc = "mark" => proc[q].run \in Runs
  BY DEF GroupInv, Sound, Holds, Running, RunSteps
<1>3. \A q \in Procs : Holds(proc'[q]) => runLock'[proc'[q].run] = q
  BY <1>1, <1>2 DEF DemandInv, LockedElse, Takes
<1>4. \A q \in Procs \ {p} : Holds(proc[q]) /\ Holds(proc[p]) => proc[q].run # proc[p].run
  BY DEF DemandInv
<1>5. ASSUME NEW q \in Procs, Holds(proc'[q]), proc'[q].action # "Start", NEW g \in Groups,
             NEW r \in Runs, r = proc'[q].run
      PROVE  ~ Brought(g, r)'
  <2>1. CASE q = p
    BY <1>1, <1>5, <2>1 DEF DemandInv, Takes, Lifts
  <2>2. CASE q # p
    <3>1. Holds(proc[q]) /\ proc[q].run = r /\ ~ Brought(g, r)
      BY <1>1, <1>5, <2>2 DEF DemandInv
    <3>2. ~ (Holds(proc[p]) /\ proc[p].run = r)
      BY <1>4, <2>2, <3>1
    <3> QED BY <3>1, <3>2 DEF Lifts
  <2> QED BY <2>1, <2>2
<1>6. ASSUME NEW q \in Procs, proc'[q].pc = "mark", proc'[q].action = "Start", proc'[q].mark \in Found
      PROVE  Up(run'[proc'[q].run])
  <2>1. CASE q = p
    BY <1>1, <1>6, <2>1 DEF Takes
  <2>2. CASE q # p
    <3>1. Holds(proc[q]) /\ proc[q].run \in Runs /\ Up(run[proc[q].run])
      BY <1>1, <1>2, <1>6, <2>2 DEF DemandInv, Holds, Found
    <3>2. proc'[q] = proc[q]
      BY <1>1, <2>2
    <3> QED BY <1>4, <2>2, <3>1, <3>2 DEF Lowers
  <2> QED BY <2>1, <2>2
<1>7. ASSUME NEW g \in Groups, NEW r \in Runs, Brought(g, r)' PROVE Up(run'[r])
  BY <1>7 DEF DemandInv, Lifts, Lowers
<1>8. (\A q \in Procs : Holds(proc[q]) => runLock[proc[q].run] = q)'
  BY <1>3 DEF Holds
<1>9. (\A q \in Procs : Holds(proc[q]) /\ proc[q].action # "Start" =>
          \A g \in Groups : ~ Brought(g, proc[q].run))'
  <2>1. \A q \in Procs : Holds(proc'[q]) => proc'[q].run \in Runs
    BY <1>1, <1>2
  <2> QED BY <1>5, <2>1 DEF Holds, Brought
<1>10. (\A q \in Procs : proc[q].pc = "mark" /\ proc[q].action = "Start" /\ proc[q].mark \in Found =>
          Up(run[proc[q].run]))'
  BY <1>6 DEF Up
<1>11. (\A g \in Groups, r \in Runs : Brought(g, r) => Up(run[r]))'
  BY <1>7 DEF Up
<1> QED BY <1>8, <1>9, <1>10, <1>11 DEF DemandInv

\* Steps of nobody in particular: the processes and their mutexes stay as they are.
LEMMA DemandKept ==
    ASSUME DemandInv, GroupInv, UNCHANGED <<proc, runLock>>,
           \A g \in Groups, r \in Runs : Brought(g, r)' => Brought(g, r),
           \A r \in Runs : Up(run[r]) => Up(run'[r])
    PROVE  DemandInv'
<1>1. \A q \in Procs : Holds(proc[q]) \/ proc[q].pc = "mark" => proc[q].run \in Runs
  BY DEF GroupInv, Sound, Holds, Running, RunSteps
<1>2. (\A q \in Procs : Holds(proc[q]) => runLock[proc[q].run] = q)'
  BY DEF Holds, DemandInv
<1>3. (\A q \in Procs : Holds(proc[q]) /\ proc[q].action # "Start" =>
          \A g \in Groups : ~ Brought(g, proc[q].run))'
  <2>1. ASSUME NEW q \in Procs, Holds(proc[q]), proc[q].action # "Start", NEW g \in Groups,
               NEW r \in Runs, r = proc[q].run
        PROVE  ~ Brought(g, r)'
    BY <2>1 DEF DemandInv
  <2> QED BY <1>1, <2>1 DEF Holds, Brought
<1>4. (\A q \in Procs : proc[q].pc = "mark" /\ proc[q].action = "Start" /\ proc[q].mark \in Found =>
          Up(run[proc[q].run]))'
  BY <1>1 DEF DemandInv, Up
<1>5. (\A g \in Groups, r \in Runs : Brought(g, r) => Up(run[r]))'
  BY DEF DemandInv, Up
<1> QED BY <1>2, <1>3, <1>4, <1>5 DEF DemandInv

\* What the steps do to the entries, the runs and the mutexes.
LEMMA EntryLifts ==
    ASSUME NEW p \in Procs, group \in [Groups -> Entry], NEW g \in Groups, NEW e,
           group' = [group EXCEPT ![g] = e],
           \A r \in Runs :
               /\ e.lifecycle \in {"STARTING", "ACTIVE"} /\ r \in e.members /\ e.op.status[r] \in Found
               => \/ Brought(g, r)
                  \/ Holds(proc[p]) /\ proc[p].action = "Start" /\ proc[p].run = r /\ Up(run'[r])
    PROVE  Lifts(p)
<1>1. \A h \in Groups : group'[h] = IF h = g THEN e ELSE group[h]
  OBVIOUS
<1> QED BY <1>1 DEF Lifts, Brought, Found

LEMMA GroupLifts == ASSUME NEW p \in Procs, UNCHANGED group PROVE Lifts(p)
BY DEF Lifts, Brought

LEMMA RunLowers == ASSUME NEW p \in Procs, UNCHANGED run PROVE Lowers(p)
BY DEF Lowers, Up

LEMMA SyncedLowers ==
    ASSUME NEW p \in Procs, OtherTypes, NEW r \in Runs, run' = [run EXCEPT ![r] = Synced(@)]
    PROVE  Lowers(p)
<1>1. \A x \in RunRecord : Synced(x).runtime = x.runtime /\ Synced(x).origin = x.origin
  BY DEF RunRecord, Synced
<1>2. \A s \in Runs : run[s] \in RunRecord /\ run'[s] = IF s = r THEN Synced(run[s]) ELSE run[s]
  BY DEF OtherTypes
<1> QED BY <1>1, <1>2 DEF Lowers, Up

\* The holder of a run may do anything to it, if he is not starting it for a group.
LEMMA HolderLowers ==
    ASSUME NEW p \in Procs, OtherTypes, Holds(proc[p]), proc[p].action # "Start",
           NEW y, run' = [run EXCEPT ![proc[p].run] = y]
    PROVE  Lowers(p)
BY DEF Lowers, OtherTypes

LEMMA StartUp ==
    ASSUME NEW x \in RunRecord, Up(x)
    PROVE  /\ Up(SyncedWhole(x))
           /\ SyncedWhole(x).state = "STOPPED" =>
                /\ Up(Started(SyncedWhole(x), "group"))
                /\ \A y \in StartFailures(SyncedWhole(x), "group") : Up(y)
<1>1. Up(SyncedWhole(x))
  BY DEF RunRecord, Synced, SyncedWhole, Up
<1>2. SyncedWhole(x).state = "STOPPED" => SyncedWhole(x).origin = "outside"
  BY DEF RunRecord, RuntimeStates, Synced, SyncedWhole, Up
<1>3. SyncedWhole(x) \in RunRecord
  BY SyncedType
<1> DEFINE z == SyncedWhole(x)
<1> HIDE DEF z
<1>4. Up(Started(z, "group"))
  BY <1>3 DEF z, Started, Up, RunRecord
<1>5. z.origin = "outside" => \A y \in StartFailures(z, "group") : Up(y)
  BY DEF StartFailures, Up
<1> QED BY <1>1, <1>2, <1>4, <1>5 DEF z

\* A process that holds no run after the step.
LEMMA LetsGo ==
    ASSUME GroupInv, DemandInv, OtherTypes, NEW p \in Procs, NEW x, proc' = [proc EXCEPT ![p] = x],
           x.pc \in {"idle", "check", "commit", "member", "failing"},
           Unlock(p) \/ UNCHANGED runLock, Lifts(p), Lowers(p)
    PROVE  DemandInv'
<1>1. ~ Holds(x) /\ x.pc # "mark"
  BY DEF Holds, RunSteps
<1>2. Takes(p, x)
  BY <1>1 DEF Takes
<1>3. LockedElse(p)
  BY DEF LockedElse, Unlock
<1> QED BY <1>1, <1>2, <1>3, DemandStep

\* A process that goes on with its run.
LEMMA GoesOn ==
    ASSUME GroupInv, DemandInv, OtherTypes, NEW p \in Procs, Holds(proc[p]),
           NEW pc \in {"effect", "confirm", "restartStart"}, GoTo(p, pc),
           UNCHANGED runLock, Lifts(p), Lowers(p)
    PROVE  DemandInv'
<1> DEFINE x == [proc[p] EXCEPT !.pc = pc]
<1>1. proc[p] \in Process /\ proc' = [proc EXCEPT ![p] = x]
  BY DEF GroupInv, GoTo
<1>2. x.pc # "mark" /\ x.run = proc[p].run /\ x.action = proc[p].action
  BY <1>1 DEF Process
<1>3. x.run \in Runs
  BY <1>2 DEF GroupInv, Sound, Holds, Running
<1> HIDE DEF x
<1>4. Takes(p, x)
  BY <1>2 DEF Takes, DemandInv
<1>5. LockedElse(p)
  BY DEF LockedElse
<1> QED BY <1>1, <1>3, <1>4, <1>5, DemandStep

\* A process that lets go, by the helper that says so.
LEMMA FreeSteps ==
    ASSUME GroupInv, DemandInv, OtherTypes, NEW p \in Procs, GoIdle(p) \/ Failing(p) \/ NextOne(p),
           Unlock(p) \/ UNCHANGED runLock, Lifts(p), Lowers(p)
    PROVE  DemandInv'
<1>1. proc[p] \in Process
  BY DEF GroupInv
<1>2. CASE GoIdle(p)
  <2>1. Idle.pc = "idle"
    BY DEF Idle
  <2> QED BY <1>2, <2>1, LetsGo DEF GoIdle
<1>3. CASE Failing(p)
  <2>1. FailingRecord(proc[p]).pc = "failing"
    BY <1>1 DEF FailingRecord, Process
  <2>2. proc' = [proc EXCEPT ![p] = FailingRecord(proc[p])]
    BY <1>3 DEF GroupInv, Failing, FailingRecord
  <2> QED BY <2>1, <2>2, LetsGo
<1>4. CASE NextOne(p)
  <2> DEFINE x == [proc[p] EXCEPT !.pc = "member", !.run = NoRun, !.mark = "none",
                                  !.todo = @ \ {proc[p].run}]
  <2>1. x.pc = "member"
    BY <1>1 DEF Process
  <2>2. proc' = [proc EXCEPT ![p] = x]
    BY <1>4 DEF NextOne, GroupInv
  <2> HIDE DEF x
  <2> QED BY <2>1, <2>2, LetsGo
<1> QED BY <1>2, <1>3, <1>4

LEMMA ReadGroupDemand ==
    ASSUME GroupInv, DemandInv, OtherTypes, NEW p \in Procs, NEW g \in Groups,
           NEW action \in {"Start", "Stop"}, ReadGroup(p, g, action)
    PROVE  DemandInv'
<1>1. PICK x : proc' = [proc EXCEPT ![p] = x] /\ x.pc \in {"check", "commit"}
  <2> DEFINE x == [pc |-> IF group[g].lifecycle = "ACTIVE" /\ action = "Start" THEN "check" ELSE "commit",
                   action |-> action, group |-> g, seen |-> Seen(g), id |-> NoId,
                   todo |-> group[g].members, run |-> NoRun, mark |-> "none"]
  <2>1. x.pc \in {"check", "commit"}
    OBVIOUS
  <2>2. proc' = [proc EXCEPT ![p] = x]
    BY Zenon DEF ReadGroup
  <2> HIDE DEF x
  <2> QED BY <2>1, <2>2
<1>2. UNCHANGED group /\ UNCHANGED run /\ UNCHANGED runLock
  BY DEF ReadGroup, locks
<1> QED BY <1>1, <1>2, GroupLifts, RunLowers, LetsGo

LEMMA CheckMemberDemand ==
    ASSUME GroupInv, DemandInv, OtherTypes, NEW p \in Procs, CheckMember(p) PROVE DemandInv'
<1>1. UNCHANGED group /\ UNCHANGED runLock
  BY DEF CheckMember, locks
<1>2. Lowers(p)
  BY RunLowers, SyncedLowers DEF CheckMember
<1>3. CASE GoIdle(p)
  BY <1>1, <1>2, <1>3, GroupLifts, FreeSteps
<1>4. ASSUME NEW r \in Runs, proc' = [proc EXCEPT ![p].todo = @ \ {r}] PROVE DemandInv'
  <2> DEFINE x == [proc[p] EXCEPT !.todo = @ \ {r}]
  <2>1. x.pc = "check"
    BY DEF CheckMember, GroupInv, Process
  <2>2. proc' = [proc EXCEPT ![p] = x]
    BY <1>4 DEF GroupInv
  <2> HIDE DEF x
  <2> QED BY <1>1, <1>2, <2>1, <2>2, GroupLifts, LetsGo
<1> QED BY <1>3, <1>4 DEF CheckMember

LEMMA CommitDemand ==
    ASSUME GroupInv, DemandInv, OtherTypes, NEW p \in Procs, Commit(p) PROVE DemandInv'
<1> DEFINE g == proc[p].group
           x == [proc[p] EXCEPT !.pc = "member", !.seen = <<>>, !.id = FreshId(group[g].op.id)]
<1>1. UNCHANGED run /\ UNCHANGED runLock
  BY DEF Commit, locks
<1>2. CASE Seen(g) # proc[p].seen
  BY <1>1, <1>2, GroupLifts, RunLowers, FreeSteps DEF Commit
<1>3. CASE Seen(g) = proc[p].seen
  <2>1. group' = [group EXCEPT ![g] = Begun(g, proc[p].action)] /\ proc' = [proc EXCEPT ![p] = x]
    BY <1>3 DEF Commit, GroupInv
  <2>2. x.pc = "member"
    BY DEF GroupInv, Process
  <2>3. g \in Groups /\ group[g] \in Entry /\ group \in [Groups -> Entry]
    BY Holder DEF Commit, GroupSteps, GroupInv
  <2>4. \A r \in Begun(g, proc[p].action).members :
            Begun(g, proc[p].action).op.status[r] = "PENDING"
    BY <2>3 DEF Begun, Entry
  <2>5. Lifts(p)
    <3> HIDE DEF g
    <3> QED BY <2>1, <2>3, <2>4, EntryLifts DEF Found
  <2> HIDE DEF x
  <2> QED BY <1>1, <2>1, <2>2, <2>5, RunLowers, LetsGo
<1> QED BY <1>2, <1>3

\* A stop that may touch a run found no other group that claims it.
LEMMA TakenUnclaimed ==
    ASSUME GroupInv, NEW p \in Procs, proc[p].pc = "member", proc[p].action = "Stop",
           NEW r \in Runs, StopMark(proc[p].group, r) \notin {"RETAINED_SHARED", "none"},
           NEW h \in Groups
    PROVE  ~ Brought(h, r)
<1> DEFINE g == proc[p].group
<1>1. proc[p].pc \in GroupSteps
  BY DEF GroupSteps
<1>2. group[g].lifecycle = "STOPPING"
  BY <1>1, Holder, EntryUnderWay DEF Work, Operating
<1>3. Claims(r) \subseteq {g}
  BY DEF StopMark
<1>4. CASE h = g
  BY <1>2, <1>4 DEF Brought
<1>5. CASE h # g
  BY <1>3, <1>5 DEF Brought, Claims, ClaimingStates
<1> QED BY <1>4, <1>5

LEMMA TakeMemberDemand ==
    ASSUME GroupInv, DemandInv, OtherTypes, NEW p \in Procs, TakeMember(p) PROVE DemandInv'
<1>1. /\ UNCHANGED group /\ proc[p].pc = "member" /\ proc[p].pc \in GroupSteps
      /\ proc[p] \in Process /\ proc[p].action \in {"Start", "Stop"} /\ ~ Holds(proc[p])
  BY Holder DEF TakeMember, GroupSteps, Holds, RunSteps
<1>2. Lifts(p)
  BY <1>1, GroupLifts
<1>3. Lowers(p)
  BY RunLowers, SyncedLowers DEF TakeMember
<1>4. CASE Failing(p) /\ UNCHANGED runLock
  BY <1>2, <1>3, <1>4, FreeSteps
<1>5. ASSUME NEW r \in Runs, NEW m,
             \/ proc[p].action = "Stop" /\ m = "RETAINED_SHARED" /\ UNCHANGED runLock
             \/ /\ m = MemberMark(p, r) /\ m # "none" /\ RunFree(r) /\ LockRun(p, r)
                /\ UNCHANGED run \/ run' = [run EXCEPT ![r] = Synced(@)],
             proc' = [proc EXCEPT ![p].pc = "mark", ![p].run = r, ![p].mark = m]
      PROVE  DemandInv'
  <2> DEFINE x == [proc[p] EXCEPT !.pc = "mark", !.run = r, !.mark = m]
  <2>1. proc' = [proc EXCEPT ![p] = x]
    BY <1>5 DEF GroupInv
  <2>2. x.pc = "mark" /\ x.run = r /\ x.mark = m /\ x.action = proc[p].action
    BY <1>1 DEF Process
  <2> HIDE DEF x
  <2>3. LockedElse(p)
    BY <1>5, ConstantsAssumption DEF LockedElse, LockRun, RunFree, OtherTypes
  <2>4. Holds(x) => runLock'[r] = p
    BY <1>5, <2>2 DEF Holds, LockRun, OtherTypes, RunSteps
  <2>5. Holds(x) /\ x.action # "Start" => \A g \in Groups : ~ Brought(g, r)
    BY <1>1, <1>5, <2>2, TakenUnclaimed DEF Holds, MemberMark, RunSteps
  <2>6. x.action = "Start" /\ x.mark \in Found => Up(run'[r])
    <3>1. \A y \in RunRecord : Synced(y).runtime = y.runtime
      BY DEF RunRecord, Synced
    <3>2. x.action = "Start" /\ x.mark \in Found => run[r].runtime = "RUNNING"
      BY <1>5, <2>2 DEF MemberMark, StartMark, Found
    <3> QED BY <1>5, <2>2, <3>1, <3>2 DEF Up, OtherTypes
  <2>7. Takes(p, x)
    BY <1>1, <2>2, <2>4, <2>5, <2>6 DEF Takes
  <2> QED BY <1>2, <1>3, <2>1, <2>2, <2>3, <2>7, DemandStep
<1> QED BY <1>1, <1>4, <1>5 DEF TakeMember

\* The entry a process makes: only a member that a start has found up counts.
LEMMA EnteredLifts ==
    ASSUME GroupInv, DemandInv, NEW p \in Procs, proc[p].pc \in Running,
           NEW s \in Done(proc[p].action) \cup {"IN_PROGRESS"}, group' = Entered(p, s), UNCHANGED run,
           s \in Found => Holds(proc[p]) /\ Up(run[proc[p].run])
    PROVE  Lifts(p)
<1> DEFINE g == proc[p].group
           e == [group[g] EXCEPT !.op.status[proc[p].run] = s]
<1>1. proc[p].pc \in GroupSteps
  BY DEF GroupSteps, Running
<1>2. /\ g \in Groups /\ group[g] \in Entry /\ proc[p].action \in {"Start", "Stop"}
      /\ group \in [Groups -> Entry]
  BY <1>1, Holder DEF GroupInv
<1>3. /\ group' = [group EXCEPT ![g] = e]
      /\ e.members = group[g].members
      /\ \A m \in group[g].members :
            e.op.status[m] = IF m = proc[p].run THEN s ELSE group[g].op.status[m]
  BY EnteredOK
<1>4. e.lifecycle = group[g].lifecycle
  BY <1>2 DEF Entry
<1>5. s \in Found => proc[p].action = "Start"
  BY <1>2 DEF Found, Done
<1> HIDE DEF e
<1>6. ASSUME NEW r \in Runs, e.lifecycle \in {"STARTING", "ACTIVE"}, r \in e.members,
             e.op.status[r] \in Found
      PROVE  \/ Brought(g, r)
             \/ Holds(proc[p]) /\ proc[p].action = "Start" /\ proc[p].run = r /\ Up(run'[r])
  BY <1>3, <1>4, <1>5, <1>6 DEF Brought, Found
<1> HIDE DEF g
<1> QED BY <1>2, <1>3, <1>6, EntryLifts

LEMMA MarkMemberDemand ==
    ASSUME GroupInv, DemandInv, OtherTypes, NEW p \in Procs, MarkMember(p) PROVE DemandInv'
<1> DEFINE m == proc[p].mark
<1>1. /\ proc[p].pc = "mark" /\ proc[p].pc \in GroupSteps /\ proc[p].pc \in Operating
      /\ proc[p].pc \in Running
  BY DEF MarkMember, GroupSteps, Operating, Running
<1>2. Current(p)
  BY <1>1, OperationUnderWay
<1>3. proc[p].action \in {"Start", "Stop"} /\ m \in Done(proc[p].action) \cup {"IN_PROGRESS"}
  BY <1>1, Holder DEF Work
<1>4. group' = Entered(p, m) /\ UNCHANGED run
  BY <1>2 DEF MarkMember
<1>5. m \in Found => Holds(proc[p]) /\ Up(run[proc[p].run])
  BY <1>1, <1>3 DEF DemandInv, Found, Done, Holds
<1>6. Lifts(p) /\ Lowers(p)
  BY <1>1, <1>3, <1>4, <1>5, EnteredLifts, RunLowers
<1>7. CASE m = "IN_PROGRESS"
  <2>1. Holds(proc[p])
    BY <1>1, <1>7 DEF Holds
  <2> QED BY <1>2, <1>6, <1>7, <2>1, GoesOn DEF MarkMember
<1>8. CASE m # "IN_PROGRESS"
  BY <1>2, <1>6, <1>8, FreeSteps DEF MarkMember
<1> QED BY <1>7, <1>8

LEMMA RunMemberDemand ==
    ASSUME GroupInv, DemandInv, OtherTypes, NEW p \in Procs, RunMember(p) PROVE DemandInv'
<1> DEFINE r == proc[p].run
           x == SyncedWhole(run[r])
<1>1. proc[p].pc = "effect" /\ Holds(proc[p]) /\ UNCHANGED group
  BY DEF RunMember, Holds
<1>2. r \in Runs
  BY <1>1 DEF GroupInv, Sound, Running
<1>3. Lowers(p)
  <2>1. CASE UNCHANGED run
    BY <2>1, RunLowers
  <2>2. CASE proc[p].action # "Start"
    <3>1. UNCHANGED run \/ \E y : run' = [run EXCEPT ![proc[p].run] = y]
      BY DEF RunMember
    <3> QED BY <1>1, <2>2, <3>1, RunLowers, HolderLowers
  <2>3. CASE proc[p].action = "Start" /\ ~ UNCHANGED run
    <3>1. PICK y : /\ run' = [run EXCEPT ![r] = y]
                   /\ \/ y = x
                      \/ /\ x.state = "STOPPED"
                         /\ y = Started(x, "group") \/ y \in StartFailures(x, "group")
      <4> HIDE DEF x
      <4> QED BY <2>3 DEF RunMember, x
    <3>2. run[r] \in RunRecord
      BY <1>2 DEF OtherTypes
    <3>3. Up(run[r]) => Up(y)
      BY <3>1, <3>2, StartUp
    <3> QED BY <1>2, <3>1, <3>3 DEF Lowers, OtherTypes
  <2> QED BY <2>1, <2>2, <2>3
<1>4. (GoTo(p, "confirm") /\ UNCHANGED runLock) \/ (Failing(p) /\ Unlock(p))
  BY DEF RunMember
<1> QED BY <1>1, <1>3, <1>4, GroupLifts, FreeSteps, GoesOn

LEMMA ConfirmMemberDemand ==
    ASSUME GroupInv, DemandInv, OtherTypes, NEW p \in Procs, ConfirmMember(p) PROVE DemandInv'
<1>1. /\ proc[p].pc \in Running /\ proc[p].pc \in GroupSteps /\ Holds(proc[p])
      /\ UNCHANGED run /\ Unlock(p)
  BY DEF ConfirmMember, Running, GroupSteps, Holds
<1>2. proc[p].action \in {"Start", "Stop"}
  BY <1>1, Holder
<1>3. CASE Failing(p) /\ UNCHANGED group
  BY <1>1, <1>3, GroupLifts, RunLowers, FreeSteps
<1>4. CASE /\ NextOne(p)
           /\ \/ /\ proc[p].action = "Start" /\ run[proc[p].run].runtime = "RUNNING"
                 /\ group' = Entered(p, "STARTED")
              \/ proc[p].action = "Stop" /\ group' = Entered(p, "STOPPED")
  <2>1. Lifts(p)
    BY <1>1, <1>4, EnteredLifts DEF Done, Found, Up
  <2> QED BY <1>1, <1>4, <2>1, RunLowers, FreeSteps
<1> QED BY <1>2, <1>3, <1>4 DEF ConfirmMember

LEMMA FinishDemand ==
    ASSUME GroupInv, DemandInv, OtherTypes, NEW p \in Procs, Finish(p) \/ GiveUp(p) PROVE DemandInv'
<1> DEFINE g == proc[p].group
<1>1. /\ proc[p].pc \in Operating /\ proc[p].pc \in GroupSteps /\ UNCHANGED run /\ UNCHANGED runLock
      /\ proc[p].pc = "member" \/ GiveUp(p)
  BY DEF Finish, GiveUp, Operating, GroupSteps, locks
<1>2. Current(p)
  BY <1>1, OperationUnderWay
<1>3. /\ g \in Groups /\ group[g] \in Entry /\ OpOK(group[g]) /\ Work(proc[p], group[g])
      /\ group \in [Groups -> Entry]
  BY <1>1, Holder DEF GroupInv
<1>4. PICK l \in Lifecycles, t \in {"COMPLETED", "RECOVERY_REQUIRED"} :
        /\ group' = Ended(p, l, t)
        /\ l = "ACTIVE" => Finish(p) /\ proc[p].action = "Start"
        /\ l # "STARTING"
  BY <1>2 DEF Finish, GiveUp, Lifecycles
<1> DEFINE e == [group[g] EXCEPT !.lifecycle = l, !.op.state = t]
<1>5. /\ group' = [group EXCEPT ![g] = e] /\ e.lifecycle = l /\ e.members = group[g].members
      /\ e.op.status = group[g].op.status
  BY <1>3, <1>4 DEF Ended, Entry, Operation
<1>6. l = "ACTIVE" => group[g].lifecycle = "STARTING"
  <2>1. l = "ACTIVE" => proc[p].pc = "member"
    BY <1>4 DEF Finish
  <2> QED BY <1>1, <1>3, <1>4, <2>1, EntryUnderWay DEF Work
<1> HIDE DEF e
<1>7. Lifts(p)
  <2>1. \A r \in Runs :
          e.lifecycle \in {"STARTING", "ACTIVE"} /\ r \in e.members /\ e.op.status[r] \in Found
          => Brought(g, r)
    BY <1>4, <1>5, <1>6 DEF Brought, Found
  <2> HIDE DEF g
  <2> QED BY <1>3, <1>5, <2>1, EntryLifts
<1>8. GoIdle(p) \/ Failing(p)
  BY DEF Finish, GiveUp
<1> QED BY <1>1, <1>7, <1>8, RunLowers, FreeSteps

LEMMA BreakDemand ==
    ASSUME GroupInv, DemandInv, OtherTypes, NEW p \in Procs, TimesOut(p) \/ Throws(p) \/ Crash(p)
    PROVE  DemandInv'
<1>1. UNCHANGED group /\ UNCHANGED run
  BY DEF TimesOut, Throws, Crash
<1>2. (GoIdle(p) \/ Failing(p)) /\ (Unlock(p) \/ UNCHANGED runLock)
  BY DEF TimesOut, Throws, Crash
<1> QED BY <1>1, <1>2, GroupLifts, RunLowers, FreeSteps

LEMMA BeginRunDemand ==
    ASSUME GroupInv, DemandInv, OtherTypes, NEW p \in Procs, NEW r \in Runs,
           BeginRestart(p, r) \/ \E command \in {"StartRun", "StopRun", "Remove"} : BeginRun(p, r, command)
    PROVE  DemandInv'
<1>1. PICK pc \in RunSteps, action \in AllCommands :
        proc' = [proc EXCEPT ![p] = [Idle EXCEPT !.pc = pc, !.action = action, !.run = r]]
  BY DEF BeginRun, BeginRestart, RunSteps, AllCommands
<1> DEFINE x == [Idle EXCEPT !.pc = pc, !.action = action, !.run = r]
<1>2. x.pc = pc /\ x.run = r
  BY DEF Idle
<1>3. /\ UNCHANGED group /\ UNCHANGED run /\ proc[p] = Idle /\ Claims(r) = {}
      /\ RunFree(r) /\ LockRun(p, r)
  BY DEF BeginRun, BeginRestart, Allowed
<1>4. ~ Holds(proc[p])
  BY <1>3 DEF Holds, Idle, RunSteps
<1>5. \A g \in Groups : ~ Brought(g, r)
  BY <1>3 DEF Brought, Claims, ClaimingStates
<1> HIDE DEF x
<1>6. LockedElse(p)
  BY <1>3, ConstantsAssumption DEF LockedElse, LockRun, RunFree, OtherTypes
<1>7. Takes(p, x)
  BY <1>2, <1>3, <1>4, <1>5 DEF Takes, LockRun, OtherTypes, RunSteps
<1> QED BY <1>1, <1>2, <1>3, <1>6, <1>7, GroupLifts, RunLowers, DemandStep DEF x

LEMMA EndRunDemand ==
    ASSUME GroupInv, DemandInv, OtherTypes, NEW p \in Procs,
           EffectRun(p) \/ RestartStops(p) \/ RestartStarts(p)
    PROVE  DemandInv'
<1>1. UNCHANGED group /\ Holds(proc[p]) /\ proc[p].pc \in RunSteps
  BY DEF EffectRun, RestartStops, RestartStarts, Holds, RunSteps
<1>2. proc[p].action # "Start"
  BY <1>1 DEF GroupInv, Sound
<1>3. \E y : run' = [run EXCEPT ![proc[p].run] = y]
  BY DEF EffectRun, RestartStops, RestartStarts, StartsRun, StopsRun, RemovesRun
<1>4. Lowers(p)
  BY <1>1, <1>2, <1>3, HolderLowers
<1>5. (GoTo(p, "restartStart") /\ UNCHANGED runLock) \/ (Unlock(p) /\ GoIdle(p))
  BY DEF EffectRun, RestartStops, RestartStarts, locks
<1> QED BY <1>1, <1>4, <1>5, GroupLifts, FreeSteps, GoesOn

\* Memberships only change while the group is stopped.
LEMMA EditsDemand == ASSUME GroupInv, DemandInv, OtherTypes, Edits PROVE DemandInv'
<1>1. UNCHANGED <<run, runLock, proc>>
  BY DEF Edits, RemoveGroup, NewGroup, AddMember, RemoveMember, locks
<1>2. PICK g \in Groups : \E e :
        /\ group[g].lifecycle \in {"STOPPED", "ABSENT"} /\ group' = [group EXCEPT ![g] = e]
        /\ e.lifecycle \in {"STOPPED", "ABSENT"}
  <2>1. PICK g \in Groups :
            RemoveGroup(g) \/ NewGroup(g) \/ \E r \in Runs : AddMember(g, r) \/ RemoveMember(g, r)
    BY DEF Edits
  <2>2. group \in [Groups -> Entry] /\ group[g] \in Entry
    BY DEF GroupInv
  <2>3. CASE RemoveGroup(g)
    <3>1. [lifecycle |-> "ABSENT", members |-> {}, op |-> NoOperation].lifecycle = "ABSENT"
      OBVIOUS
    <3> QED BY Zenon, <2>3, <3>1 DEF RemoveGroup
  <2>4. CASE NewGroup(g)
    <3>1. /\ group' = [group EXCEPT ![g] = [group[g] EXCEPT !.lifecycle = "STOPPED"]]
          /\ [group[g] EXCEPT !.lifecycle = "STOPPED"].lifecycle = "STOPPED"
      BY <2>2, <2>4 DEF NewGroup, Entry
    <3>2. group[g].lifecycle = "ABSENT"
      BY <2>4 DEF NewGroup
    <3> QED BY Zenon, <3>1, <3>2
  <2>5. ASSUME NEW members, group[g].lifecycle = "STOPPED", group' = WithMembers(g, members)
        PROVE  /\ group' = [group EXCEPT ![g] = [group[g] EXCEPT !.members = members, !.op = NoOperation]]
               /\ [group[g] EXCEPT !.members = members, !.op = NoOperation].lifecycle = "STOPPED"
    BY <2>2, <2>5 DEF WithMembers, Entry
  <2> QED BY <2>1, <2>3, <2>4, <2>5 DEF AddMember, RemoveMember, RemoveGroup, NewGroup
<1>3. /\ group'[g].lifecycle \in {"STOPPED", "ABSENT"}
      /\ \A h \in Groups \ {g} : group'[h] = group[h]
  BY <1>2 DEF GroupInv
<1>4. \A h \in Groups, r \in Runs : Brought(h, r)' => Brought(h, r)
  BY <1>2, <1>3 DEF Brought
<1> QED BY <1>1, <1>4, DemandKept

LEMMA DemandInvStep == ASSUME GroupInv, OtherTypes, DemandInv, [Next]_vars PROVE DemandInv'
<1>1. CASE UNCHANGED <<group, run, runLock, proc>>
  <2>1. \A g \in Groups, r \in Runs : Brought(g, r)' => Brought(g, r)
    BY <1>1 DEF Brought
  <2> QED BY <1>1, <2>1, DemandKept
<1>2. CASE Edits
  BY <1>2, EditsDemand
<1>3. ASSUME NEW p \in Procs, Works(p) \/ Begins(p) \/ Throws(p) \/ Crash(p) PROVE DemandInv'
  <2>1. CASE Works(p)
    BY <2>1, CheckMemberDemand, CommitDemand, TakeMemberDemand, MarkMemberDemand, RunMemberDemand,
       ConfirmMemberDemand, FinishDemand, BreakDemand, EndRunDemand DEF Works
  <2>2. CASE Begins(p)
    BY <2>2, ReadGroupDemand, BeginRunDemand DEF Begins
  <2> QED BY <1>3, <2>1, <2>2, BreakDemand
<1>4. ASSUME NEW r \in Runs, Outside(r) \/ Protect(r) PROVE DemandInv'
  <2>1. CASE Protect(r)
    BY <1>1, <2>1 DEF Protect, locks
  <2>2. CASE Outside(r)
    <3>1. UNCHANGED <<group, proc, runLock>>
      BY <2>2 DEF Outside, locks
    <3>2. \A s \in Runs : Up(run[s]) => Up(run'[s])
      <4>1. PICK t : run' = [run EXCEPT ![r].runtime = t, ![r].origin = "outside"]
        BY <2>2 DEF Outside
      <4> QED BY <4>1 DEF OtherTypes, RunRecord, Up
    <3>3. \A g \in Groups, s \in Runs : Brought(g, s)' => Brought(g, s)
      BY <3>1 DEF Brought
    <3> QED BY <3>1, <3>2, <3>3, DemandKept
  <2> QED BY <1>4, <2>1, <2>2
<1> QED BY <1>1, <1>2, <1>3, <1>4 DEF Next, vars

LEMMA DemandInvInit == Init => DemandInv
<1> SUFFICES ASSUME Init PROVE DemandInv
  OBVIOUS
<1>1. \A p \in Procs : ~ Holds(proc[p]) /\ proc[p].pc # "mark"
  BY DEF Init, Idle, Holds, RunSteps
<1>2. \A g \in Groups : group[g].lifecycle = "STOPPED"
  BY DEF Init
<1> QED BY <1>1, <1>2 DEF DemandInv, Brought

(***************************************************************************)
(* A run that a starting or active group has found or brought up stays up, *)
(* unless the provider's own tools or a reboot touched it: no command of   *)
(* another group or of a single run, no failure of one, and no crash takes *)
(* it down.                                                                *)
(***************************************************************************)
THEOREM DemandIsHonoured == Spec => []DemandHonoured
<1>1. DemandInv => DemandHonoured
  BY DEF DemandInv, DemandHonoured, Up
<1> QED BY <1>1, GroupInvInit, GroupInvStep, OtherTypesInit, OtherTypesStep,
           DemandInvInit, DemandInvStep, PTL DEF Spec
=============================================================================
