# TLA+ models of SQL Server Lab

SQL Server Lab is a PowerShell module, with a console and a browser interface,
that creates local SQL Server test environments with Docker, Podman and Hyper-V.
Most of the code calls external programs; what makes it hard to get right is
the rest: files that several processes read and replace, mutexes that protect
some of these accesses and not others, long work that is interrupted half-way,
and a browser page that must not start anything twice. This directory models
that part in TLA+, checks it with TLC, and proves the central results with TLAPS
for every value of the constants.

Contents

1. Inventory of the system
2. The models and the code they follow
3. What the runs check, their bounds and the fairness they assume
4. What is proved
5. Where code and documentation disagree
6. What is not modelled
7. Plan
8. How to run it

Paths are relative to the repository (`src/` in `PROJECT.json`).

## 1. Inventory of the system

Every component below is also listed in `PROJECT.json` with its files and status.

| Component | State it keeps | Operations |
|---|---|---|
| Batch queue (`Private/BatchWorkflow.ps1`, `Public/BatchWorkflow.ps1`) | one JSON file per operation: status, current step, cancel and cleanup flags, worker, priority, position | host: repair, dependency update, selection, claim, execution by thread jobs, gate probe; sessions: suspend, resume, stop, stop and clean up, priority, move, attention, probe, confirm, queue view |
| Operation host (`Tools/Start-SqlServerLabOperationHost.ps1`) | lease file | acquire and renew the lease, call the scheduler in a loop |
| Batch file and submission (`Public/Submit-SqlServerLabBatch.ps1`) | batch file: status, summary, position of the batch | create, submit, update the summary |
| Batch console (`Public/BatchConsole.ps1`) | none | calls the session commands, and the scheduler itself |
| Browser server: command acceptance (`Tools/Start-SqlServerLabUi.ps1`, `Tools/WorkflowUiCommandGrants.ps1`) | store of single-use grants with receipts, table of jobs | issue, query, cancel, use a grant; start, report and stop jobs |
| Browser page: submission (`Ui/app.js`, `Ui/operator-transport.js`) | cards, keys of submissions, observed jobs | submit, follow, time out, reload |
| Browser page: dialogs (`Ui/app.js`, `Ui/*.js`) | list, selection, preview, tick, revision, busy flag | open, close, read, preview, change, tick, apply, answers |
| Creation of an authenticated TLS lab (`Tools/WorkflowUiTlsCreation.ps1`, `Ui/tls-authenticated-creation.js`) | ticket, one exclusive job | preview, create, follow |
| Environment groups (`Public/EnvironmentGroups.ps1`) | registry file: lifecycle state, members, last operation | new, remove, add and remove member, start, stop |
| Single-run lifecycle (`Public/{Start,Stop,Restart,Remove,Clear}-SqlServerLab.ps1`) | state file of each run, the provider's instances | start, stop, restart, remove, clear |
| Run state machine (`Private/StateMachine.ps1`) | state file with history and sub-runs | transitions, synchronization with the runtime |
| Run creation (`Public/New-SqlServerLab.ps1`) | run state, cleanup plan, connection file | create, roll back |
| Cleanup engine (`Private/CleanupEngine.ps1`) | cleanup plan and its results | plan, execute, repeat |
| Windows pool claims, port allocation | claim and reservation files | reserve, claim, release |
| Persistent storage, container stores, run artifacts | catalogs with revisions, leases, journals | plan, apply, recover |
| Reconcile, authenticated TLS, llama.cpp, AI, SSIS, SMTP | one journal each | plan, apply, recover |
| Manifests, catalogs, providers, watch, console UI | none, or read-only | validation, external programs, output |

How they interact:

- The queue's **sessions and scheduler processes share files and one mutex**. Only
  repair, dependency update, selection and claim of the scheduler, and the
  summary of a batch, run under the mutex. Every other command reads a file,
  thinks, and replaces the whole file; a worker keeps its own copy for as long
  as the operation runs and replaces the file at every step.
- **Groups and single-run commands share runs**. A group claims its members while
  it is not stopped; single-run commands are refused for claimed runs; the stop
  of one group leaves alone what another group claims. Three kinds of mutex
  protect this: the registry (short), a run (never waited for), the lifecycle of
  a group (held throughout).
- **Browser page and server exchange messages** over connections that time out or
  break. A command is accepted with a grant of its own, once; the page then
  polls the server for the job.
- **A dialog of the page and the operator race with the answers**: while a list or a
  preview is under way, the selection changes and the dialog is closed and opened
  again. Some previews are also held by the server until the page gives them back.
- A step of the queue may start, stop, create or remove a run, and the browser
  starts both kinds of jobs: the components meet in the state file of a run.

What is hard, and what makes each part correct, is listed line by line under
"hazards" in `PROJECT.json`. In short:

- *Queue*: no step left out, none executed before the operation's dependencies, no
  two exclusive operations at once, everything released after a crash, nobody
  waits for ever.
- *Acceptance and page*: a command is executed at most once, and what page and
  receipts say about it is true.
- *Dialogs*: what is offered belongs to what is chosen now, a preview is confirmed
  after it was seen, an unanswered change is not repeated, nothing stays locked.
- *Groups*: what a group has brought up stays up while the group is active,
  what nobody claims any more is stopped, the registry stays readable, and a
  failed group can be recovered.
- *Later components*: what was created is recorded before it is created; a claim
  has one holder.

## 2. The models and the code they follow

`PROJECT.json` maps every definition to the lines it stands for. Operators that
end in the name of an error (`DependencyStatusCandidate`, `MayUseTwice`, ...)
are plausible programming errors: `PROJECT.json`, "mutants", names the definition
each of them replaces and the property that notices.

| Module | Content |
|---|---|
| `BatchQueue` | operation files, schedulers, workers, sessions |
| `StepLog` | abstract specification: the steps of an operation are completed in order |
| `BatchQueueProofs` | theorems about `BatchQueue`: types, steps in order, refinement, exclusion in the host with the lease |
| `BatchQueueOrderProofs` | theorems about its order, its limits and its dependencies |
| `BatchQueueSchedulerProofs` | theorems about any number of schedulers on one store |
| `MCBatchQueue` | instances: a template, a slot that depends on it, a container |
| `CommandGrants` | the server's acceptance of commands |
| `AcceptOnce` | abstract specification: a grant is handed out, spent and run at most once each |
| `CommandGrantsProofs` | theorems about `CommandGrants` |
| `CommandSubmission` | the page, the network and the server of `CommandGrants` |
| `MCCommandSubmission` | instances: key of each body |
| `CommandSubmissionProofs` | theorems about `CommandSubmission` |
| `EnvironmentGroups` | groups, runs, mutexes, single-run commands |
| `MCEnvironmentGroups` | instances: two groups that share a run |
| `EnvironmentGroupsProofs` | theorems about `EnvironmentGroups` |
| `PageDialogs` | one dialog of the page: the devices all dialogs are built from |
| `DialogProfiles` | the 27 dialogs and panels, each as the combination of devices it has |
| `OfferedPlan` | abstract specification: only what is chosen and previewed is applied |
| `MCPageDialogs` | instance: the dialogs of the page, and that each is `Disciplined` |
| `PageDialogsProofs` | theorems about `PageDialogs` |

`CommandSubmission` extends `CommandGrants`: each request handler of the composed
system is an action of the server together with what it does to the messages.
`BatchQueue` implements `StepLog`, `CommandGrants` implements `AcceptOnce` and every
`Disciplined` dialog of `PageDialogs` implements `OfferedPlan`; all three are checked as
properties and proved.

### BatchQueue

State: `file[o]` is an operation file, reduced to the fields the queue decides by;
`pend[a]` holds what a process has read and changed but not yet written;
`mem[h][o]` is the copy a worker keeps; `claimed`, `job` and `phase` say where each
process is; `mutex` is the workflow mutex. `done`, `finished` and `stopped` only
record history for the properties.

- A command reads when it starts (`ReadFiles`) and writes in steps of its own
  (`WriteFile`), one per file, in any order, with anything in between: exactly the
  lost updates the code admits. The scheduler's critical section is
  `BeginSelection`, `UpdateDependencies`, `Select` and `StartJobs` with the writes
  between them.
- A worker is `JobStart` to `JobSummary`. It decides by `mem`, never by the file.
- `Crash` takes a process with its workers; its mutex becomes free. `JobAbort` is a
  worker that ends without recording a result, `CommandFails` a command that
  throws half-way, `JobFail` an exception inside a step or around it.
- `SingleHost` says whether every scheduler runs in the host that holds the lease.
  The console also calls the scheduler in its own process
  (`Public/BatchConsole.ps1:633`), which `SingleHost = FALSE` allows.

Abstractions: one batch after its submission; a command on several ids is several
commands; an empty selection makes the host probe gates itself (`due`); the second,
identical write of a move is left out; equal `createdAt` is excluded by
assumption; owners on other machines and their time limit, and the contents of
steps, are left out. `Update-LabBatchSummary` appears as the state `summary` of a
worker, which needs the mutex and may throw.

### CommandGrants and CommandSubmission

The request loop handles one request at a time, but the process may be
interrupted between any two statements. The handler of a command is therefore
split where its effects are: `Consume`, `StartJob` or `StartFails`, `RecordJob`.
`Close` ends the server at any point; a job that has not reached the table of jobs
may go on or end. In `CommandGrants` the clients are arbitrary: any grant may be
sent with any body, any number of times. The two looks at the expiry of a grant
are one guard with `Age` interleaved. A receipt keeps the body it was issued for,
which the code represents by a MAC; receipts are kept by random token, and a token
is never reused. Validation of bodies, the catalog of commands and the capability
of the session are left out.

`CommandSubmission` adds one page at a time: cards, keys, polls. A request is a
record in `requests` until it is answered, an answer a record in `answers` until it
is received. A timeout or a broken connection is one action that may happen at any
moment; the request may still be served afterwards. A reload forgets everything
and follows the start link of the server that runs. `Unusable` covers an answer
whose grant the page cannot use and cancels. A second tab, the older route
`/api/actions` and persistent batch jobs are left out.

### EnvironmentGroups

State: `group[g]` is the registry entry, `run[r]` the state file of a run, its
instances and who last started or stopped them, `protected` the runs that groups must not
touch, `registryLock` and `runLock` the mutexes, `proc[p]` what each process does. A
lifecycle mutex is held exactly by the process whose `proc[p].group` is the group.

- A start or stop of a group is `ReadGroup` (the preflight, without the registry
  mutex from then on), `Commit` (which re-checks what was read), and per member
  `TakeMember`, `MarkMember`, `RunMember`, `ConfirmMember`, then `Finish`; `GiveUp`
  records `RECOVERY_REQUIRED` after an exception.
- `TakeMember` merges the mutex of the run, the check of its binding, the
  synchronization of its state file and the read of the claims, none of which
  happens under the registry mutex.
- Single-run commands are a check (`BeginRun`) and an effect (`EffectRun`); a restart
  keeps the registry mutex throughout and makes others wait until they give up
  (`TimesOut`), since they wait at most ten seconds.
- `Throws` is any other exception, `Crash` the death of a process, `Outside` the
  provider's own tools or a reboot, `Protect` a run that becomes a test or pool run.

Abstractions: `UNSETTLED` stands for the states between `PROVISION_FAILED` and
`RECOVERY_REQUIRED` of a run; starting and stopping one run is one step with its
partial failures as outcomes; two operation ids are enough because a process that
replaces an id holds the lifecycle mutex (`OneOperation` would notice otherwise);
journals, bindings and `Clear-SqlServerLab` are left out.

### PageDialogs and DialogProfiles

The dialogs of the page are written one by one, with the same few devices combined by
hand: a revision (`resourceRequest`, `initialSetupRevision`, `llamaInstallerRequest`, ...)
that is raised to make outstanding answers worthless, a busy flag that forbids a second
request, fields that are locked while it is set, a check box that is unticked, a list that is
emptied. `PageDialogs` has each device once. Which events of a dialog use which of them
is its **profile**, a record of `DialogProfiles` that is read off the dialog's listeners and its
request function; the comment above `Kinds` explains each field. For example,
`bumps |-> {"Open", "Close", "Read", "Plan", "Apply"}` says that the revision is raised
by opening, closing and every request, but not by a changed field, and
`frozen |-> TRUE` that the fields are disabled meanwhile, which is why that is enough.

- State: `open`, `busy`, `list`, `input` (what is chosen), `plan` (the preview shown),
  `confirmed` (the tick), `picked`, `attempted`; `flights[s]` is a request under way with
  what it was asked for, and `valid` while the revision is the one it was sent with.
  `reserved` counts the previews the server holds, `applied` and the field `old` record
  history. `dlg` is the dialog of a behaviour.
- Every event goes through `React`: stale answers, lost preview, tick and list, the busy
  flag, and the request that is then sent (by opening, by a change that previews at
  once, by a list that goes on to a preview).
- `Used` is the comparison every answer is put to; `AnswerList`, `AnswerPlan` and
  `AnswerApply` use it, `AnswerIgnored` drops it, `Lost` is the `catch`. An answer the page
  rejects as invalid is a `Lost`. `Freed` is the `finally`.
- `Escape` closes the topmost dialog and is not held by what holds `CloseButton`.

The map names for each device one place of the page where it stands (mostly the dialog of the
llama.cpp sessions, which has nearly all of them), and for each profile the whole dialog,
the checks of its answers and its rendering included, which it abstracts. The listeners
of `ResourceChange` stand apart from the rest of it (`Ui/app.js:2966-2979`).

The two halves of the setup dialog (configuration, write probe) and of the slot dialog
(policy, member) have a profile each. A request of the same dialog that only reads
something beside the list (capacity, providers, upstream metadata) is left out: it uses
the same devices and fills no preview. Left out as well: the resumption of a pending
deletion in the panel of retained stores, expiry timers, fields that forbid a request when
they are empty or malformed, and a failed request to give a preview back (the server
then lets it expire).

`Disciplined(p)` states when the devices of a profile are enough; the theorems assume it of
every dialog, and `MCPageDialogs` has TLC evaluate it for the 26 dialogs of the run.
It is the checklist for a new dialog: raise the revision on every event on which the
answer would be wrong, or lock the field; free the busy flag only where the revision is
raised too; drop the preview with the list, with the choice and with every further read.

## 3. What the runs check, their bounds and the fairness they assume

| Run | Instance | Shows |
|---|---|---|
| `BatchQueueHost` | one host, one session that issues one of ten commands, one call that throws, three operations, two workers | `Exclusion`, `DependenciesFirst`, `MoveReorders`, `TypeOK` |
| `BatchQueueSchedulers` | three scheduler processes without the lease, no sessions, a lost worker, crashes | `Exclusion`, `RunningIsOwned`, `ProgressKept`, `TerminalKept` |
| `BatchQueueRest` | template and slot with a gate each, one worker slot, a crash, a lost worker, one session that issues two probes, confirmations, queue views, suspensions or resumptions | `ComesToRest`, `StepsInOrder`, `ImplementsStepLog`, `WorkerLimit`, `DependenciesFirst` |
| `BatchQueueStop` | one stop command | violated: `StopHonoured` (section 5) |
| `BatchQueueStaleRunning` | one change of the attention flag | violated: `ComesToRest` (section 5) |
| `CommandGrants` | three grants, two bodies, three jobs, room for two receipts | `OneJobPerGrant`, `ReceiptIsTrue`, `QuotaKept`, `ImplementsAcceptOnce`, `GrantTypeOK` |
| `SubmissionSafety` | two submissions for one key, two grants and jobs, two overlapping polls, one reload, one end of the server | `OneLiveJobPerKey`, `OneJobPerSubmission`, `AnswersAreTrue`, `ShownEndIsTrue`, `ShownEndStays`, `TypeOK` |
| `SubmissionFollow` | one grant in a store for one, two submissions | `EndIsLearnt`, `AnswersAreTrue` |
| `GroupsShared` | two groups with members {1, 2} and {1}, two processes, all ten commands, one fault or change of a membership | `DemandHonoured`, `OneOperation`, `RegistryValid`, `TypeOK` |
| `GroupsRecovery` | the same groups, starts and stops, one fault | `RecoversUnlessBlocked` |
| `GroupsLastStop` | the same groups, starts and stops, no fault | violated: `LastStopStops` (section 5) |
| `Dialogs` | 26 dialogs, two inputs, three requests under way | `OfferIsCurrent`, `OneApplyAtATime`, `NoForgottenPreview`, `TickedAfterPreview`, `ImplementsOffer`, `BusyEnds`, `TypeOK` |

**Why the bounds are enough for the cases that matter.** The instance of the queue
has every relation selection can tell apart: a dependency, two operations that
share a lock, two that share a resource class, one that is compatible with the
first; a plan with every kind of step. A stale write needs one command and one
worker, a lost gate result a command and a probe of one gate, and a crash one more host.
Two grants suffice to confuse receipts, the third fills a store of two. Two
submissions for one key, two tickets and one reload are the smallest instance in
which answers overtake each other and a key is taken twice. Two groups that share
one run, one of them with a second member before and after it in the order of ids,
are the smallest instance with claims in conflict; a second member keeps a group in
the middle of its operation while the other acts. In a dialog two inputs tell the chosen
one from the one asked for; three requests let a stale answer, a second stale answer
and a current one be under way together, which closing and opening twice takes.

**Named bounds.** `MaxCommands`, `MaxAborts`, `MaxErrors` (commands, lost workers,
errors), the number of `Hosts` (crashes), `MaxPages`, `MaxCloses` (openings of
the page, ends of the server), `Grants`, `Jobs`, `Cards`, `Tickets` (identities),
`MaxChanges` (faults and changes of memberships together), `Slots` (requests of a
dialog under way: a further one waits until one is answered). They limit how much goes
wrong in one behaviour, never the order. `MaxChanges = 1` means that a fault
combined with a change of memberships, or two faults, are not explored.

**Deadlock** is checked where the system cannot stop. `GroupsShared` and
`GroupsRecovery` switch it off: when a run has been removed or become a test run, or
no group is left, no command is accepted any more.

**Fairness.**

- *Queue*: a scheduler round, a command that has been given and a worker go on, since
  each is ordinary sequential code; steps return, because the code waits for them
  without a limit of its own and a step that hangs is an environment failure; a
  host is started again, since submitting a batch, the console
  (`Public/BatchConsole.ps1:425`) and the server (`Tools/WorkflowUiJobStatus.ps1:91`)
  do so. Nobody has to issue a command, to crash or to fail.
- *Page*: the timers fire (`AskStatus`, `StatusFails`), the request loop goes on, and a
  status request that is repeated for ever is now and then served and answered
  in time (strong fairness of `ServeStatus`, `ReceiveStatus`). Without the last,
  a network that loses everything would refute the property.
- *Dialogs*: every request is answered or fails (weak fairness of `Answer \/ Lost` for
  each): the server answers on the loopback interface, and a broken connection is an
  error of the request. Nobody has to click, close or open.
- *Groups*: a process that is alive goes on, and the operator repeats the stop of a
  group that needs it (strong fairness of `AsksForStop`; another command may hold
  the lifecycle mutex again and again). `RecoversUnlessBlocked` speaks of behaviours
  in which from some moment on only stops are given.

## 4. What is proved

TLAPS proves the following for every value of the constants that satisfies the
assumptions of the modules (`QueueAssumption`, `NothingAssumption`,
`GrantsAssumption`, `NobodyAssumption`, `SubmissionAssumption`, `NoCardAssumption`,
`ConstantsAssumption`, `DialogsAssumption`; TLC evaluates them on every run).
Where a property is false without a further condition, the condition is a hypothesis of the
theorem: `SingleHost`, `Sessions = {}`, `MaxErrors = 0` or `"StopCleanup" \notin Commands`.
Section 5 says for each what happens without it.

`BatchQueueProofs`

- `TypeCorrect`: `TypeInv` = `TypeOK` and `ConfirmsAStep` (a confirmation that is
  about to be written has advanced its record by a step). The second part is
  needed to type the history.
- `StepsAreInOrder`: `StepsInOrder` is not inductive, because a stale copy may be
  written at any time. The strengthening `StepInv` = `FilesOK`, `JobsOK`,
  `PendingOK` says of every copy of an operation, in a file, with a worker or about
  to be written, that all steps before its current one are completed, and that it
  stands on an existing step while it waits at a gate. Copies may be behind,
  never ahead, and completing a step spoils none (`RecordsKept`). Each action is
  then shown to derive its copies from such copies.
- `QueueImplementsStepLog`: from `StepInv`, every step of the queue is a step of the
  step log or changes nothing the log sees.
- `ExecutionIsExclusive`: `SingleHost => Exclusion`. `RoundInv` says that one host is
  up, that only its round is alive, that its jobs are among the operations it has
  claimed in this round, and that these are compatible. What the sessions write
  does not matter: the jobs of a round come from one selection, and the next round
  starts only when they have ended.

`BatchQueueOrderProofs`

- `MovesReorder`: `MoveReorders` says of every state that a move gives each place to one
  peer. The rank of an operation in a set, the number of those before it, is
  different for each and covers `0..n-1` (`RankDiffers`, `RankCovers`); `NewPlace` depends
  on the old place alone, and `Shift` is a permutation of the places that keeps
  the order of the others (`ShiftPermutes`). Ties of position are broken by `Created`.
- `WorkersAreLimited`: `SingleHost => WorkerLimit`. `SelectionSize` shows that a selection,
  together with what runs, has at most `MaxWorkers` members: the last one of it in the
  order had room for itself after all others. What is executed belongs to one selection.
- `DependenciesComeFirst`: `DependenciesFirst` without Stop -Cleanup, for any number of
  sessions and schedulers. `DepInv` says of every record, on disk or on its way there
  (`FilesGrounded`, `PendingGrounded`), that if it may be selected, runs, is at a gate, is
  completed or is marked for cleanup, the dependencies of its operation have been
  completed once (`ClaimsGrounded` for what is claimed). A stale write brings back an
  older record, but never one its operation has not earned. Stop -Cleanup queues an
  operation that has not earned it, which is harmless by itself and not with a stale
  write of another session after it (section 5).

`BatchQueueSchedulerProofs`: `Sessions = {}`, any number of schedulers without the lease,
with crashes, lost jobs and writes that fail.

- `SchedulersAreExclusive`, `SchedulersAreLimited`, `SlotsAreGivenBack`, `SchedulersKeepProgress` and
  `SchedulersKeepEnds` from `SchedInv`. None of the properties is inductive: they say nothing
  of records that have been read and not yet written, and the releases after a round
  and the results of probes are written without the mutex. `SchedInv` says that each of
  these is still right when it is made: `PendOK` ties every pending write to a
  status its file must still have, one that nobody else may change (`Finds`); `JobOK`
  says that a worker executes only what its process owns, from a copy that equals
  the file; `HeldOK` what becomes of a claim in each phase of the round; `FileOK` that
  a running operation has an owner that has it among its claims or is dead, as long
  as no write has failed; `HostOK` who holds the mutex. `OccupiedFits` is the
  exclusion itself, extended to claims that have been decided and not yet
  written. `WritesAlone` and `OwnerAlone` are the arguments about two processes: two of them
  have writes for one file only if both have probed it, and nobody else
  touches an operation while its owner executes it. There are two kinds of steps:
  those that write no file (`LocalKept`) and those about one operation (`OperationKept`).
- `SlotsAreGivenBack` and `SchedulersKeepEnds` assume `MaxErrors = 0`, as their runs do.

`CommandGrantsProofs`

- `GrantsTypeCorrect`, `GrantsAreSingleUse`, `ReceiptsTellTheTruth`, `QuotaIsKept` from
  `IInv` = `GrantTypeOK`, `HandOK` (the command in hand has a consumed receipt, and its
  job, once started, is its own), `UsedOK` (jobs and receipts belong to tokens that
  were handed out), `DownOK` (a server that is down has nothing in hand),
  `OneJobPerGrant` and `ReceiptIsTrue`. The last two need each other: that a job is
  the only one of its grant follows from the receipt that was `CONSUMED` for it, and
  a receipt stays true because no second job appears.
- `GrantsImplementAcceptOnce`: each action moves the fate of at most one grant along
  new, open, spent, run, or makes a set of them void.

`CommandSubmissionProofs`: any number of submissions, polls, pages and servers (`MaxPages` and
`MaxCloses` bound only what TLC explores).

- Every step of the composition is a step of `CommandGrants` or leaves its variables alone,
  so `IInv` carries over; `SubmissionsAcceptOnce` follows for the composition.
- `SubmissionTypeCorrect`, `SubmissionsAreSingle`, `AnswersAreTrueAlways`, `KeysAreExclusive`,
  `ShownEndsAreTrue` and the action property `ShownEndsStay` from `SubInv`, which adds to
  `IInv`: `NetInv`, what requests and answers under way are about (a request for a
  grant is the only one of its submission; a command carries the grant of its
  submission; an answer that rejects is about a submission that can get no grant any
  more); `PollInv`, what the page may be told of jobs (one status request at a time, and
  none of its answers older than an end that is shown); `KeysOK`, that a key is
  taken by one submission, and that one which has given it back has a job that has ended. Page steps
  (`PageGoesOn`) and server steps (`ServerGoesOn`) are treated apart: the page changes
  the card and the messages of one submission (`OwnChange`), the server only answers.

`EnvironmentGroupsProofs`: any number of groups, runs, processes, faults and changes of
memberships (`MaxChanges` bounds only what TLC explores).

- `OperationsStayCurrent` and `RegistryStaysValid` from `GroupInv`: the types of the
  registry and the processes; `Exclusive` (a group's lifecycle mutex has one holder);
  `OpOK` (every entry passes the registry's checks); and `Work`, which ties a process to
  the entry of its group: same operation, members it is done with are entered as
  its action allows, the member at hand is still to do. `Work` is what makes
  `RegistryValid` inductive, since `Finish` may only write `ACTIVE` or `STOPPED` when
  every member is entered. There are three kinds of steps (`GroupStep`: the
  holder of a group changes its entry; `RunStep`: a process without a group; `EditStep`:
  a membership command, whose group has no operation under way), and each
  action is shown to be one of them.
- `GroupsTypeCorrect`: `GroupInv` with the types of the other variables.
- `DemandIsHonoured`: `DemandHonoured` is not inductive, because the claims are checked
  when the mutex of the run is taken and the run is stopped later. `DemandInv` adds
  that whoever is about to act on a run holds its mutex, and that no group has
  brought the run up since, unless he is starting it: a group brings a run up only
  under the same mutex. `DemandStep` reduces this to four facts about a step of
  one process (`LockedElse`, `Takes`, `Lifts`, `Lowers`), shown for each action.

`PageDialogsProofs`: any dialogs, inputs and number of requests under way. The one further
assumption is `DisciplinedDialogs`, that every profile is `Disciplined`; each theorem names
it, and `ProfilesAreDisciplined` of `MCPageDialogs` is that fact for the page's dialogs.

- `DialogsTypeCorrect`, `OffersAreCurrent`, `PreviewsAreGivenBack` and `DialogsImplementOffer`
  from `Inv`. `OfferIsCurrent` is not inductive: it says nothing of the answers under way,
  which become offers later. `OneValid` adds that at most one of them is still worth
  something, that it was asked for what is chosen now and that no preview stands
  beside it; `Fresh`, that one from before the dialog was closed is worth nothing or
  keeps it closed; `OneFlight`, that a dialog in which every answer clears the busy
  flag has one request at most; `Known` and `PlanIsCurrent`, what requests and
  previews are for. `ReactKeeps` shows once that the common reaction keeps
  all parts, provided the event is `Harmless`; each action is then an instance.
- `TicksFollowPreviews`: `TickInv` says that a tick made without a preview is beside
  one only while the second selection, which the preview has emptied, is empty.
- `AppliesAreSingle`: `ApplyInv` says that where opening is barred by an Apply under way,
  that Apply has kept its dialog busy since it was opened, or the dialog is closed.

Only model-checked: liveness (`ComesToRest`, `EndIsLearnt`, `RecoversUnlessBlocked`, `BusyEnds`),
which TLAPS cannot handle under fairness. Every other property of the passing runs is
proved, the ones of the queue under the hypotheses named above: with
`StopCleanup` among the commands, `DependenciesFirst` is model-checked for one session
(`BatchQueueHost`).

## 5. Where code and documentation disagree

Runs that are expected to find a violation:

- `BatchQueueStop`: a stop for a running operation is written into its file, but the
  worker decides by its own copy and replaces the file with its next step. Further
  steps begin and the request is lost, although `Public/BatchWorkflow.ps1:567` says
  that no new mutation step is begun.
- `BatchQueueStaleRunning`: a command that has read a running operation writes it
  back after the worker has ended it. The file says `Running` with the worker of a
  live host; the repair does not touch it, and its slot and locks stay taken,
  although `Public/BatchWorkflow.ps1:796` promises that abandoned operations go on.
- `GroupsLastStop`: a stopping group goes on claiming a run it has stopped until its
  other members are done. Another group can start that run meanwhile, and its own
  stop then leaves the run to the first group, which never looks at it again: both
  groups are `STOPPED` and the run goes on, although
  `Public/EnvironmentGroups.ps1:295` and
  `Documentation/Architecture/LAB_ENVIRONMENT_GROUPS.md:102` say otherwise.

Seen while modelling, without a run of their own:

- Stop -Cleanup makes an operation that waits for a dependency a candidate of the
  scheduler. A priority that another session has read before and writes between
  the claim and the start of its worker erases the mark
  (`Public/BatchWorkflow.ps1:436`), and the worker executes the steps instead of the
  cleanup (`Private/BatchWorkflow.ps1:1388`), although the dependency is not completed or
  has failed; a queue view with an outdated failure of the dependencies can do the same. The
  plan (`PROVIDER_NEUTRAL_BATCH_QUEUE_RESUME_WORKFLOW_2026-08-13.md:156`) says that all
  slots wait for the template they share. TLC finds it in seconds with
  `BatchQueueHost.cfg` changed to two sessions, `Commands = {"StopCleanup", "Priority"}`,
  `MaxCommands = 2` and `MaxWorkers = 1`.
- A stop that writes `Cancelled` after the scheduler has claimed the operation is
  taken back by the worker's next write, so `Cancelled` is not final
  (`Public/BatchWorkflow.ps1:565`).
- A scheduler of the console beside the host, together with a stale write of a
  session, can execute an operation twice; `ExecutionIsExclusive` therefore assumes
  `SingleHost`, and `BatchQueueSchedulers` and `BatchQueueSchedulerProofs` have no sessions.
  Stale writes of sessions also take back steps and ends that are on disk.
- If one of several claims cannot be written, operations already claimed stay
  `Running` under a live process that executes none of them
  (`Public/BatchWorkflow.ps1:823`); `BatchQueueRest` and `SlotsAreGivenBack` have
  `MaxErrors = 0`.
- An exception in the summary after the last write turns a finished operation into a
  failed one (`Private/BatchWorkflow.ps1:1471`); `TerminalKept` is checked and proved without.
- Two groups that claim a run that is down block each other: each stop refuses
  because of the other's claim, a start refuses `RECOVERY_REQUIRED`, the run cannot
  be started on its own, memberships cannot be changed. `RecoversUnlessBlocked` states
  recovery with exactly this exception; `LAB_ENVIRONMENT_GROUPS.md:43` has none.
- The Escape handler of the page (`Ui/app.js:2907`) closes the topmost dialog with
  `close()`. It prevents the event that the dialogs' `cancel` listeners would refuse while a
  stop, an installation or a probe is unanswered (`Ui/app.js:2255`, `2753`, `3436`), and
  does not look at the disabled close buttons, although the text at `Ui/app.js:3396`
  says that the dialog is closed only after the result. `OneApplyAtATime` holds
  nevertheless for the installation and the probe, because opening is refused too.
- The answer to a retention plan (`Ui/app.js:2594`) is used whatever has been changed
  since it was asked for: the plan of an earlier selection, or of another run's
  dialog, becomes executable beside the present one. `RetentionRemoval` is the one
  profile that is not `Disciplined`; added to `Dialogs` of `Dialogs.cfg` it violates
  `OfferIsCurrent` (and `ProfilesAreDisciplined`). The server checks the selection
  again before it changes anything.
- The receipt shown on an unconfirmed submission is replaced by a general text at
  the next status answer (`Ui/app.js:1099`), although the documentation
  (`WORKFLOW_UI.md:654`) promises it.

## 6. What is not modelled

Rendering, wording and logging; forms of the page without a preview (media sources,
creation of a lab, container operations, the shared gateway and its secret), the
confirmation dialog that follows some of the previews, the clipboard; the contents of steps, providers, SQL Server and
downloads; time, except as "may happen at any moment"; owners of operations on
other machines; abandoned-mutex exceptions, except as commands that throw; the
state `Draft` and `Validated` of a batch; several pages at once; journals and
bindings of runs. Components without a module are listed in `PROJECT.json` with the
reason. Within the modelled components the abstractions of section 2 apply.

## 7. Plan

In this order:

1. `TlsCreation`: ticket, exclusive job, page that follows it.
2. The batch file: creation, submission and summary, and the lease of the host with
   its time limit, composed with `BatchQueue`; the browser route `/api/actions` with
   persistent job snapshots on top.
3. `RunLifecycle`: the transition table of a run, sub-runs, creation with its cleanup
   plan, cleanup and its repetition after a crash.
4. Claims on the Windows pool and on ports; the persistent storage catalog with its
   compare-and-swap and leases.

## 8. How to run it

    tlc -workers 2 -config GroupsShared.cfg MCEnvironmentGroups.tla
    tlapm BatchQueueProofs.tla
    tlapm BatchQueueSchedulerProofs.tla
    tlapm CommandSubmissionProofs.tla
    tlc -workers 2 -config Dialogs.cfg MCPageDialogs.tla
    tlapm PageDialogsProofs.tla

`PROJECT.json`, "runs", names the module of each configuration. No run takes more than
four minutes on two cores.
