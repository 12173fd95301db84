-------------------------- MODULE CommandSubmission --------------------------
(***************************************************************************)
(* A browser page that submits commands to the server of CommandGrants and *)
(* follows their jobs.  Requests and answers are messages in flight: they  *)
(* arrive in any order, answers get lost with their connection, a request  *)
(* the page has given up may still be served.  A page is reloaded with the *)
(* private start link; the new page knows nothing of the old one.          *)
(*                                                                         *)
(* The page shows one card per submission until the server reports the     *)
(* job, and remembers submissions by a key made of the command and its     *)
(* logical target, to refuse a second one.                                 *)
(***************************************************************************)
EXTENDS CommandGrants, Functions

CONSTANTS
    Cards,      \* submissions of all pages of one behaviour
    Tickets,    \* identities of the status requests in flight
    NoCard,
    KeyOf,      \* [Bodies -> key]: nonSecretSubmissionIdentity
    Unusable,   \* TRUE: the issuer's answer may carry a grant the page cannot use
    MaxPages,   \* bound: openings of the page, the first and the reloads
    MaxCloses   \* bound: ends of the server

ASSUME SubmissionAssumption ==
    /\ NoCard \notin Cards
    /\ DOMAIN KeyOf = Bodies
    /\ Unusable \in BOOLEAN
    /\ MaxPages \in Nat /\ MaxCloses \in Nat

Shown == {"Submitting", "Accepted", "Unknown", "Rejected", "ConnectionLost"}
Observed == {"None", "Running", "Unknown", "ConnectionLost"} \cup Ended
Await == {"grant", "cancel", "command", "nothing"}
Card == [body : Bodies, state : Shown, id : Jobs \cup {NoJob}, await : Await,
         receipt : Grants \cup {NoGrant}]

ASSUME NoCardAssumption == NoCard \notin Card

Message == [kind : {"grant", "cancel", "command"}, card : Cards,
            grant : Grants \cup {NoGrant}, body : Bodies]
Answer == [kind : {"issued", "full", "refused", "accepted"}, card : Cards,
           grant : Grants \cup {NoGrant}, job : Jobs \cup {NoJob}]

VARIABLES
    card,      \* card[c]: the submission c, NoCard before it exists
    gone,      \* cards of pages that have been reloaded
    held,      \* actionSubmissions: the cards whose key is taken
    optimistic,\* optimisticJobs: the cards the page shows beside the jobs
    observed,  \* observed[j]: the state the page shows for job j
    trusted,   \* the page has the capability of the server that runs
    requests,  \* requests of the submissions, until they are answered
    answers,   \* answers under way to a page that still waits for them
    asking,    \* status requests the page waits for
    snapshots, \* snapshots[t]: the answer to status request t, under way
    handedTo,  \* history: handedTo[g], the card grant g was issued for
    pages, closes

pageVars == <<card, gone, held, optimistic, observed, asking, snapshots, trusted>>
netVars == <<requests, answers>>
vars == <<grantVars, pageVars, netVars, handedTo, pages, closes>>

Init ==
    /\ GrantInit
    /\ card = [c \in Cards |-> NoCard]
    /\ gone = {} /\ held = {} /\ optimistic = {}
    /\ observed = [j \in Jobs |-> "None"]
    /\ trusted = FALSE
    /\ requests = {} /\ answers = {}
    /\ asking = {} /\ snapshots = Empty
    /\ handedTo = [g \in Grants |-> NoCard]
    /\ pages = 0 /\ closes = 0

-----------------------------------------------------------------------------
(* The page.                                                               *)

Current == {c \in Cards : card[c] # NoCard} \ gone
Key(c) == KeyOf[card[c].body]

\* renderJobs gives the keys of ended jobs back.
\* Errors seeded in Released: a job that is not heard of counts as ended, or a
\* job that has failed does not.
ReleasedUnheard(cards, seen) ==
    {c \in held : cards[c].id # NoJob /\ seen[cards[c].id] \in Ended \cup {"ConnectionLost"}}

ReleasedCompleted(cards, seen) ==
    {c \in held : cards[c].id # NoJob /\ seen[cards[c].id] = "Completed"}

Released(cards, seen) == {c \in held : cards[c].id # NoJob /\ seen[cards[c].id] \in Ended}

Ask(msgs) == IF trusted /\ up THEN requests \cup msgs ELSE requests

\* A click; a key that is taken is refused without any effect.
KeyIsFree(b) == \A c \in held : Key(c) # KeyOf[b]

Submit(c, b) ==
    /\ pages > 0
    /\ card[c] = NoCard
    /\ KeyIsFree(b)
    /\ card' = [card EXCEPT ![c] = [body |-> b, state |-> "Submitting", id |-> NoJob,
                                    await |-> "grant", receipt |-> NoGrant]]
    /\ held' = held \cup {c}
    /\ optimistic' = optimistic \cup {c}
    /\ requests' = Ask({[kind |-> "grant", card |-> c, grant |-> NoGrant, body |-> b]})
    /\ UNCHANGED <<grantVars, gone, observed, asking, snapshots, trusted, answers, handedTo,
                   pages, closes>>

AnswersTo(c) == {m \in answers : m.card = c}

\* The submission ends without a confirmed acceptance and nothing is sent again.
\* What is left of its connection is dropped; the request itself may already be
\* with the server.
\* Errors seeded in Failed: it starts over; it counts as rejected.
FailedAgain(c) ==
    [card |-> [card[c] EXCEPT !.await = "grant"],
     send |-> {[kind |-> "grant", card |-> c, grant |-> NoGrant, body |-> card[c].body]}]
FailedRejected(c) ==
    [card |-> [card[c] EXCEPT !.state = "Rejected", !.await = "nothing"], send |-> {}]

Failed(c) ==
    [card |-> [card[c] EXCEPT !.state = "Unknown", !.await = "nothing"], send |-> {}]

\* The timeout of 15 s, a broken connection, or an answer that is an error.
Unconfirmed(c) ==
    /\ c \in Current /\ card[c].await # "nothing"
    /\ card' = [card EXCEPT ![c] = Failed(c).card]
    /\ requests' = Ask(Failed(c).send)
    /\ answers' = answers \ AnswersTo(c)
    /\ UNCHANGED <<grantVars, gone, held, optimistic, observed, asking, snapshots, trusted,
                   handedTo, pages, closes>>

Rejected(c) ==
    /\ c \in Current /\ card[c].await = "grant"
    /\ \E m \in AnswersTo(c) : m.kind = "full"
    /\ card' = [card EXCEPT ![c].state = "Rejected", ![c].await = "nothing"]
    /\ answers' = answers \ AnswersTo(c)
    /\ UNCHANGED <<grantVars, gone, held, optimistic, observed, asking, snapshots, trusted,
                   requests, handedTo, pages, closes>>

\* The grant has arrived: the command is sent with it, or, when the grant in
\* the answer is not usable, its receipt is cancelled.
SendWith(c, m, kind) ==
    /\ card' = [card EXCEPT ![c].await = kind, ![c].receipt = m.grant]
    /\ answers' = answers \ {m}
    /\ requests' = Ask({[kind |-> kind, card |-> c, grant |-> m.grant, body |-> card[c].body]})
    /\ UNCHANGED <<grantVars, gone, held, optimistic, observed, asking, snapshots, trusted,
                   handedTo, pages, closes>>

ReceiveGrant(c) ==
    /\ c \in Current /\ card[c].await = "grant"
    /\ \E m \in AnswersTo(c) :
          /\ m.kind = "issued"
          /\ \/ SendWith(c, m, "command")
             \/ Unusable /\ SendWith(c, m, "cancel")

-----------------------------------------------------------------------------
(* Following the jobs.                                                     *)

\* Error seeded in MayAsk: status requests overlap.
MayAskAlways == TRUE

MayAsk == asking = {}

NextTicket == CHOOSE t \in Tickets : t \notin asking

AskStatus ==
    /\ pages > 0
    /\ MayAsk /\ asking # Tickets
    /\ asking' = asking \cup {NextTicket}
    /\ UNCHANGED <<grantVars, card, gone, held, optimistic, observed, snapshots, trusted,
                   netVars, handedTo, pages, closes>>

\* The job is accepted; refreshJobs follows at once.
ReceiveAccepted(c) ==
    /\ c \in Current /\ card[c].await = "command"
    /\ \E m \in AnswersTo(c) :
          /\ m.kind = "accepted" /\ m.grant = card[c].receipt
          /\ card' = [card EXCEPT ![c].state = "Accepted", ![c].await = "nothing", ![c].id = m.job]
          /\ answers' = answers \ {m}
    /\ held' = held \ Released(card', observed)
    /\ asking' = IF MayAsk /\ asking # Tickets THEN asking \cup {NextTicket} ELSE asking
    /\ UNCHANGED <<grantVars, gone, optimistic, observed, snapshots, trusted, requests,
                   handedTo, pages, closes>>

\* The cards beside the jobs of which nothing has been heard get state s.
Doubted(C, s) ==
    [c \in Cards |-> IF c \in C /\ card[c].state # "Submitting"
                     THEN [card[c] EXCEPT !.state = s]
                     ELSE card[c]]

StatusOf(snapshot, j) ==
    IF j \in DOMAIN snapshot THEN snapshot[j]
    ELSE IF observed[j] \in Ended \cup {"None"} THEN observed[j] ELSE "Unknown"

ReceiveStatus(t) ==
    /\ t \in asking /\ t \in DOMAIN snapshots
    /\ LET snapshot == snapshots[t]
           missing == {c \in optimistic : card[c].id \notin DOMAIN snapshot}
       IN  /\ observed' = [j \in Jobs |-> StatusOf(snapshot, j)]
           /\ card' = Doubted(missing, "Unknown")
           /\ optimistic' = missing
    /\ held' = held \ Released(card', observed')
    /\ asking' = asking \ {t}
    /\ snapshots' = Restrict(snapshots, DOMAIN snapshots \ {t})
    /\ UNCHANGED <<grantVars, gone, trusted, netVars, handedTo, pages, closes>>

\* Error seeded in Disconnected: an unreachable job counts as failed.
DisconnectedFailed(j) == IF observed[j] \in Ended \cup {"None"} THEN observed[j] ELSE "Failed"

Disconnected(j) ==
    IF observed[j] \in Ended \cup {"None"} THEN observed[j] ELSE "ConnectionLost"

\* The timeout of 5 s, a broken connection, or an answer that is an error; an
\* answer that comes later is not looked at.
StatusFails(t) ==
    /\ t \in asking
    /\ observed' = [j \in Jobs |-> Disconnected(j)]
    /\ card' = Doubted(optimistic, "ConnectionLost")
    /\ held' = held \ Released(card', observed')
    /\ asking' = asking \ {t}
    /\ snapshots' = Restrict(snapshots, DOMAIN snapshots \ {t})
    /\ UNCHANGED <<grantVars, gone, optimistic, trusted, netVars, handedTo, pages, closes>>

\* The page is opened again with the start link of the server that runs.
OpenPage ==
    /\ up /\ pages < MaxPages
    /\ pages' = pages + 1
    /\ gone' = gone \cup Current
    /\ held' = {} /\ optimistic' = {}
    /\ observed' = [j \in Jobs |-> "None"]
    /\ asking' = {} /\ snapshots' = Empty
    /\ answers' = {}
    /\ trusted' = TRUE
    /\ UNCHANGED <<grantVars, card, requests, handedTo, closes>>

-----------------------------------------------------------------------------
(* The server, request by request.                                         *)

Awaited(m) == m.card \in Current /\ card[m.card].await = m.kind

Answered(m, answer) ==
    /\ requests' = requests \ {m}
    /\ answers' = IF Awaited(m) THEN answers \cup {answer} ELSE answers
    /\ UNCHANGED <<pageVars, pages, closes>>

Reply(kind, m, g, j) == [kind |-> kind, card |-> m.card, grant |-> g, job |-> j]

ServeGrant(m) ==
    /\ m.kind = "grant"
    /\ \E g \in Grants :
          /\ Issue(g, m.body)
          /\ handedTo' = [handedTo EXCEPT ![g] = m.card]
          /\ Answered(m, Reply("issued", m, g, NoJob))

ServeGrantFull(m) ==
    /\ m.kind = "grant"
    /\ Idle /\ ~HasRoom
    /\ Answered(m, Reply("full", m, NoGrant, NoJob))
    /\ UNCHANGED <<grantVars, handedTo>>

\* The command's grant is consumed; the answer waits for the job.
ServeCommand(m) ==
    /\ m.kind = "command"
    /\ Consume(m.grant, m.body)
    /\ UNCHANGED <<pageVars, netVars, handedTo, pages, closes>>

\* A request that changes at most the receipt, and whose answer the page treats
\* as it treats no answer.
ServeWithout(m) ==
    /\ \/ m.kind = "command" /\ Expire(m.grant)
       \/ m.kind = "command" /\ Idle /\ ~IsIssued(m.grant) /\ UNCHANGED grantVars
       \/ m.kind = "cancel" /\ (Cancel(m.grant) \/ Expire(m.grant))
       \/ m.kind = "cancel" /\ Idle /\ ~IsIssued(m.grant) /\ UNCHANGED grantVars
    /\ requests' = requests \ {m}
    /\ UNCHANGED <<pageVars, answers, handedTo, pages, closes>>

Waiting == {m \in requests : m.kind = "command" /\ m.grant = serving.grant}

ServeJob ==
    /\ \E j \in Jobs : StartJob(j)
    /\ UNCHANGED <<pageVars, netVars, handedTo, pages, closes>>

ServeNoJob ==
    /\ StartFails
    /\ requests' = requests \ Waiting
    /\ UNCHANGED <<pageVars, answers, handedTo, pages, closes>>

ServeAccepted ==
    /\ RecordJob
    /\ requests' = requests \ Waiting
    /\ answers' = answers \cup {Reply("accepted", m, m.grant, serving.job) :
                                   m \in {m \in Waiting : Awaited(m)}}
    /\ UNCHANGED <<pageVars, handedTo, pages, closes>>

ServeStatus(t) ==
    /\ Idle /\ trusted
    /\ t \in asking \ DOMAIN snapshots
    /\ snapshots' = With(snapshots, t, [j \in listed |-> jobs[j].state])
    /\ UNCHANGED <<grantVars, card, gone, held, optimistic, observed, asking, trusted, netVars,
                   handedTo, pages, closes>>

\* The connection of a request the page has given up is gone before it is read.
Drop(m) ==
    /\ ~Awaited(m)
    /\ requests' = requests \ {m}
    /\ UNCHANGED <<grantVars, pageVars, answers, handedTo, pages, closes>>

OpenServer ==
    /\ Open
    /\ UNCHANGED <<pageVars, netVars, handedTo, pages, closes>>

\* Requests are lost; answers that have been sent may still arrive.
CloseServer ==
    /\ closes < MaxCloses
    /\ Close
    /\ closes' = closes + 1
    /\ trusted' = FALSE
    /\ requests' = {}
    /\ UNCHANGED <<card, gone, held, optimistic, observed, asking, snapshots, answers, handedTo,
                   pages>>

Passing ==
    /\ \/ \E g \in Grants : Age(g)
       \/ \E j \in Jobs, s \in {"Completed", "Failed"} : JobEnds(j, s)
    /\ UNCHANGED <<pageVars, netVars, handedTo, pages, closes>>

-----------------------------------------------------------------------------

PageNext ==
    \/ \E c \in Cards, b \in Bodies : Submit(c, b)
    \/ \E c \in Cards : Unconfirmed(c) \/ Rejected(c) \/ ReceiveGrant(c) \/ ReceiveAccepted(c)
    \/ AskStatus
    \/ \E t \in Tickets : ReceiveStatus(t) \/ StatusFails(t)
    \/ OpenPage

ServerNext ==
    \/ \E m \in requests : \/ ServeGrant(m) \/ ServeGrantFull(m) \/ ServeCommand(m)
                          \/ ServeWithout(m) \/ Drop(m)
    \/ ServeJob \/ ServeNoJob \/ ServeAccepted
    \/ \E t \in Tickets : ServeStatus(t)
    \/ OpenServer \/ CloseServer \/ Passing

Next == PageNext \/ ServerNext

\* The page's timers run, and a status request that is repeated for ever is
\* now and then served and answered in time; the request loop goes on.
Fairness ==
    /\ WF_vars(AskStatus)
    /\ WF_vars(\E t \in Tickets : StatusFails(t))
    /\ SF_vars(\E t \in Tickets : ServeStatus(t))
    /\ SF_vars(\E t \in Tickets : ReceiveStatus(t))
    /\ WF_vars(ServeJob \/ ServeNoJob \/ ServeAccepted)

Spec == Init /\ [][Next]_vars
FairSpec == Spec /\ Fairness

-----------------------------------------------------------------------------

TypeOK ==
    /\ GrantTypeOK
    /\ card \in [Cards -> Card \cup {NoCard}]
    /\ held \subseteq Current /\ optimistic \subseteq Current
    /\ gone \subseteq {c \in Cards : card[c] # NoCard}
    /\ observed \in [Jobs -> Observed]
    /\ trusted \in BOOLEAN /\ (trusted => up)
    /\ requests \subseteq Message /\ answers \subseteq Answer
    /\ asking \subseteq Tickets /\ DOMAIN snapshots \subseteq asking
    /\ handedTo \in [Grants -> Cards \cup {NoCard}]

CardOf(j) == handedTo[jobs[j].grant]
Live(j) == jobs[j].state = "Running"

\* "Exactly one submission despite double click", "Unknown acceptance prevents
\* duplicate submission": while a job of this page for a key runs, no second one
\* runs, whatever was lost or timed out on the way.
OneLiveJobPerKey ==
    \A i, j \in DOMAIN jobs :
        Live(i) /\ Live(j) /\ {CardOf(i), CardOf(j)} \subseteq Current
            /\ Key(CardOf(i)) = Key(CardOf(j)) => i = j

\* A submission starts at most one job: neither the page nor the server
\* repeats a command whose answer was lost.
OneJobPerSubmission == \A i, j \in DOMAIN jobs : CardOf(i) = CardOf(j) => i = j

\* A card says Accepted only of a job the server has started for it, and
\* Rejected only of a command that never started one.
AnswersAreTrue ==
    \A c \in Current :
        /\ card[c].id # NoJob => /\ card[c].id \in DOMAIN jobs
                                /\ CardOf(card[c].id) = c
                                /\ jobs[card[c].id].body = card[c].body
        /\ card[c].state = "Accepted" => card[c].id # NoJob
        /\ card[c].state = "Rejected" => \A j \in DOMAIN jobs : CardOf(j) # c

\* A final state the page shows is the job's final state.
ShownEndIsTrue == \A j \in Jobs : observed[j] \in Ended => observed[j] = jobs[j].state

\* "Late timed out response cannot regress newer terminal status": as long as
\* the page is open, a final state that was shown stays.
ShownEndStays ==
    [][\A j \in Jobs : observed[j] \in Ended /\ pages' = pages => observed'[j] = observed[j]]_vars

\* A page that stays connected learns how a listed job has ended and gives
\* the key of its submission back.
EndIsLearnt ==
    \A j \in Jobs :
        (trusted /\ j \in listed /\ jobs[j].state \in Ended)
            ~> (~trusted \/ (observed[j] \in Ended /\ \A c \in held : card[c].id # j))
=============================================================================
