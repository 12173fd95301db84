---------------------------- MODULE CommandGrants ----------------------------
(***************************************************************************)
(* The browser server's acceptance of commands: the store of single-use    *)
(* grants, the request loop that issues and uses them, and the thread jobs *)
(* it starts.  A client asks for a grant with the body of the command it   *)
(* is going to send, and sends the command with the grant afterwards.      *)
(*                                                                         *)
(* The loop handles one request at a time, but it may be interrupted       *)
(* (Ctrl+C, the end of the process) between any two statements, so the     *)
(* handler of /api/commands is split where its effects are.  The clients   *)
(* are arbitrary: any of them may send any grant that was ever handed out, *)
(* with any body, any number of times.                                     *)
(***************************************************************************)
EXTENDS Naturals, FiniteSets

CONSTANTS
    Grants,    \* the random tokens; a token and its receipt id are one value
    Bodies,    \* request bodies
    Jobs,      \* job ids
    NoGrant,
    NoJob,
    Nobody,    \* no request is being handled
    Quota      \* receipts a store can hold

ASSUME GrantsAssumption ==
    /\ IsFiniteSet(Grants)
    /\ NoGrant \notin Grants
    /\ NoJob \notin Jobs
    /\ Quota \in 1..256

ReceiptState == {"ISSUED", "CONSUMED", "ACCEPTED", "UNCONFIRMED", "EXPIRED", "CANCELLED"}
Receipt == [state : ReceiptState, body : Bodies, job : Jobs \cup {NoJob}]
Ended == {"Completed", "Failed", "Stopped"}
JobRecord == [grant : Grants, body : Bodies, state : {"Running"} \cup Ended]
Request == [grant : Grants, body : Bodies, job : Jobs \cup {NoJob}]

ASSUME NobodyAssumption == Nobody \notin Request

VARIABLES
    up,        \* the listener runs and its store is active
    receipts,  \* the store: a function on the grants it has receipts for
    aged,      \* grants whose time to live is over
    used,      \* grants handed out by this or an earlier server
    serving,   \* the command request whose grant has been consumed
    jobs,      \* the thread jobs ever started: a function on their ids
    listed     \* the jobs in the server's table

grantVars == <<up, receipts, aged, used, serving, jobs, listed>>

Empty == [x \in {} |-> x]

\* f with g mapped to x.
With(f, g, x) == [h \in DOMAIN f \cup {g} |-> IF h = g THEN x ELSE f[h]]

SetState(g, s) == receipts' = [receipts EXCEPT ![g].state = s]

Idle == up /\ serving = Nobody
IsIssued(g) == g \in DOMAIN receipts /\ receipts[g].state = "ISSUED"

GrantInit ==
    /\ up = FALSE
    /\ receipts = Empty
    /\ aged = {}
    /\ used = {}
    /\ serving = Nobody
    /\ jobs = Empty
    /\ listed = {}

-----------------------------------------------------------------------------
(* The server process.                                                     *)

Open ==
    /\ ~up
    /\ up' = TRUE
    /\ receipts' = Empty
    /\ listed' = {}
    /\ UNCHANGED <<aged, used, serving, jobs>>

\* Between two requests or in the middle of one: the jobs in the table are
\* stopped, and the store is closed.  A job that has not reached the table ends
\* with the process, or goes on when the PowerShell session outlives the script.
\* Error seeded in StoppedJob: the state a queue operation would get.
StoppedJobCancelled(r) == [r EXCEPT !.state = IF @ = "Running" THEN "Cancelled" ELSE @]

StoppedJob(r) == [r EXCEPT !.state = IF @ = "Running" THEN "Stopped" ELSE @]

Close ==
    /\ up
    /\ up' = FALSE
    /\ receipts' = Empty
    /\ listed' = {}
    /\ serving' = Nobody
    /\ \E S \in SUBSET (DOMAIN jobs \ listed) :
          jobs' = [j \in DOMAIN jobs |-> IF j \in S THEN jobs[j] ELSE StoppedJob(jobs[j])]
    /\ UNCHANGED <<aged, used>>

-----------------------------------------------------------------------------
(* POST /api/command-grants                                                *)

\* Error seeded in HasRoom: receipts that can no longer be used are not counted.
HasRoomForOpen ==
    Cardinality({g \in DOMAIN receipts : receipts[g].state = "ISSUED"}) < Quota

HasRoom == Cardinality(DOMAIN receipts) < Quota

Issue(g, b) ==
    /\ Idle
    /\ HasRoom
    /\ g \notin used
    /\ receipts' = With(receipts, g, [state |-> "ISSUED", body |-> b, job |-> NoJob])
    /\ used' = used \cup {g}
    /\ UNCHANGED <<up, aged, serving, jobs, listed>>

-----------------------------------------------------------------------------
(* GET /api/command-grants/<receipt> and POST .../cancel                   *)

\* Every handler that looks at a receipt: the query, the cancellation, the use.
Expire(g) ==
    /\ Idle
    /\ IsIssued(g) /\ g \in aged
    /\ SetState(g, "EXPIRED")
    /\ UNCHANGED <<up, aged, used, serving, jobs, listed>>

MayCancel(g) == IsIssued(g) /\ g \notin aged

Cancel(g) ==
    /\ Idle
    /\ MayCancel(g)
    /\ SetState(g, "CANCELLED")
    /\ UNCHANGED <<up, aged, used, serving, jobs, listed>>

-----------------------------------------------------------------------------
(* POST /api/commands                                                      *)

\* Errors seeded in MayUse: whatever has not been consumed yet is accepted,
\* or the receipt's state is not looked at.
MayUseUnspent(g, b) ==
    g \in DOMAIN receipts /\ receipts[g].state \notin {"CONSUMED", "ACCEPTED", "UNCONFIRMED"}
MayUseTwice(g, b) == g \in DOMAIN receipts /\ g \notin aged /\ receipts[g].body = b

MayUse(g, b) == IsIssued(g) /\ g \notin aged /\ receipts[g].body = b

Consume(g, b) ==
    /\ Idle
    /\ MayUse(g, b)
    /\ SetState(g, "CONSUMED")
    /\ serving' = [grant |-> g, body |-> b, job |-> NoJob]
    /\ UNCHANGED <<up, aged, used, jobs, listed>>

StartJob(j) ==
    /\ up /\ serving # Nobody
    /\ serving.job = NoJob
    /\ j \notin DOMAIN jobs
    /\ jobs' = With(jobs, j, [grant |-> serving.grant, body |-> serving.body, state |-> "Running"])
    /\ serving' = [serving EXCEPT !.job = j]
    /\ UNCHANGED <<up, receipts, aged, used, listed>>

StartFails ==
    /\ up /\ serving # Nobody
    /\ serving.job = NoJob
    /\ SetState(serving.grant, "UNCONFIRMED")
    /\ serving' = Nobody
    /\ UNCHANGED <<up, aged, used, jobs, listed>>

\* Error seeded in Outcome: the receipt names no job.
OutcomeNoJob(r, j) == [r EXCEPT !.state = "ACCEPTED"]

Outcome(r, j) == [r EXCEPT !.state = "ACCEPTED", !.job = j]

RecordJob ==
    /\ up /\ serving # Nobody
    /\ serving.job # NoJob
    /\ listed' = listed \cup {serving.job}
    /\ receipts' = [receipts EXCEPT ![serving.grant] = Outcome(@, serving.job)]
    /\ serving' = Nobody
    /\ UNCHANGED <<up, aged, used, jobs>>

-----------------------------------------------------------------------------
(* Time and the thread jobs.                                               *)

Age(g) ==
    /\ g \in used \ aged
    /\ aged' = aged \cup {g}
    /\ UNCHANGED <<up, receipts, used, serving, jobs, listed>>

JobEnds(j, s) ==
    /\ j \in DOMAIN jobs /\ jobs[j].state = "Running"
    /\ jobs' = [jobs EXCEPT ![j].state = s]
    /\ UNCHANGED <<up, receipts, aged, used, serving, listed>>

GrantNext ==
    \/ Open \/ Close
    \/ \E g \in Grants, b \in Bodies : Issue(g, b) \/ Consume(g, b)
    \/ \E g \in Grants : Expire(g) \/ Cancel(g) \/ Age(g)
    \/ \E j \in Jobs : StartJob(j)
    \/ StartFails \/ RecordJob
    \/ \E j \in Jobs, s \in {"Completed", "Failed"} : JobEnds(j, s)

GrantSpec == GrantInit /\ [][GrantNext]_grantVars

-----------------------------------------------------------------------------

\* Every variable keeps its type, the tables name only things that exist, and
\* what is being served has been consumed and has not been answered.
GrantTypeOK ==
    /\ up \in BOOLEAN
    /\ used \subseteq Grants
    /\ aged \subseteq used
    /\ DOMAIN receipts \subseteq used
    /\ \A g \in DOMAIN receipts : receipts[g] \in Receipt
    /\ DOMAIN jobs \subseteq Jobs
    /\ \A j \in DOMAIN jobs : jobs[j] \in JobRecord
    /\ listed \subseteq DOMAIN jobs
    /\ serving \in Request \cup {Nobody}

HasJob(g) == \E j \in DOMAIN jobs : jobs[j].grant = g
InHand(g) == serving # Nobody /\ serving.grant = g

\* "Dieser Vertrag verhindert Wiederannahme desselben Grants": whatever clients
\* repeat, whenever the server is interrupted or replaced, a grant starts at
\* most one job.
OneJobPerGrant == \A i, j \in DOMAIN jobs : jobs[i].grant = jobs[j].grant => i = j

\* What a client that has lost the answer can read in the receipt is true: an
\* accepted command has the job the receipt names, running the body the grant
\* was issued for; without acceptance there is no job, unless the command is
\* being handled right now.
ReceiptIsTrue ==
    \A g \in DOMAIN receipts :
        LET r == receipts[g]
        IN  /\ r.state = "ACCEPTED" => /\ r.job \in listed
                                       /\ jobs[r.job].grant = g
                                       /\ jobs[r.job].body = r.body
            /\ r.state # "ACCEPTED" /\ HasJob(g) => InHand(g)
            /\ r.state = "CONSUMED" <=> InHand(g)

\* Used, expired and cancelled receipts keep their place until the server ends,
\* so a session never hands out more than Quota grants.
QuotaKept == Cardinality(DOMAIN receipts) <= Quota

-----------------------------------------------------------------------------
(* The acceptance of commands implements AcceptOnce.                       *)

Fate(g) ==
    IF g \notin used THEN "new"
    ELSE IF HasJob(g) THEN "run"
    ELSE IF g \notin DOMAIN receipts THEN "void"
    ELSE IF receipts[g].state = "ISSUED" THEN "open"
    ELSE IF receipts[g].state = "CONSUMED" THEN "spent"
    ELSE "void"

Contract == INSTANCE AcceptOnce WITH
    fate <- [g \in Grants |-> Fate(g)],
    startedBy <- [j \in Jobs |-> IF j \in DOMAIN jobs THEN jobs[j].grant ELSE NoGrant]

\* A grant that was spent, cancelled, expired or lost with its server never
\* starts a job afterwards, and none starts a job before it is spent.
ImplementsAcceptOnce == Contract!Spec
=============================================================================
