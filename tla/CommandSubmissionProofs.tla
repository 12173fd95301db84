----------------------- MODULE CommandSubmissionProofs -----------------------
(***************************************************************************)
(* Theorems about the page and the server together, for any number of      *)
(* submissions, grants, jobs, pages and servers, and for every order and   *)
(* loss of messages.                                                       *)
(*                                                                         *)
(* Every step of the two is a step of the server's acceptance of commands  *)
(* or leaves it alone, so that the theorems of CommandGrantsProofs hold    *)
(* here too.  NetInv says what requests and answers under way are about,   *)
(* PollInv what the page knows of jobs, KeysOK which keys are taken.       *)
(***************************************************************************)
EXTENDS CommandSubmission, CommandGrantsProofs

\* A grant that was handed out belongs to one submission, and a submission has
\* one grant at most.
HandedOK ==
    /\ \A g \in used : handedTo[g] \in Cards /\ card[handedTo[g]] # NoCard
    /\ \A g, h \in used : handedTo[g] = handedTo[h] => g = h

\* A request for a grant is the only one of its submission, which has no grant
\* yet; a command and a cancellation carry the grant of their submission.
RequestsOK ==
    \A m \in requests :
        /\ card[m.card] # NoCard /\ m.body = card[m.card].body
        /\ m.kind = "grant" => m.grant = NoGrant /\ \A g \in used : handedTo[g] # m.card
        /\ m.kind # "grant" => m.grant \in used /\ handedTo[m.grant] = m.card

\* Submission c has no grant and cannot get one any more.
Unserved(c) ==
    /\ \A g \in used : handedTo[g] # c
    /\ \A m \in requests : m.kind = "grant" => m.card # c

AnswersOK ==
    \A m \in answers :
        /\ card[m.card] # NoCard
        /\ m.kind = "issued" => m.grant \in used /\ handedTo[m.grant] = m.card
        /\ m.kind = "full" => Unserved(m.card)
        /\ m.kind = "accepted" => m.job \in DOMAIN jobs /\ CardOf(m.job) = m.card

\* What is run is what was submitted.
BodiesOK ==
    /\ serving # Nobody => serving.body = card[handedTo[serving.grant]].body
    /\ \A j \in DOMAIN jobs : jobs[j].body = card[CardOf(j)].body

CardsOK ==
    \A c \in Cards : card[c] # NoCard =>
        /\ card[c].id # NoJob => /\ card[c].id \in DOMAIN jobs /\ CardOf(card[c].id) = c
                                 /\ card[c].await = "nothing"
        /\ card[c].state = "Accepted" => card[c].id # NoJob
        /\ card[c].state = "Rejected" => Unserved(c)

NetInv == HandedOK /\ RequestsOK /\ AnswersOK /\ BodiesOK /\ CardsOK

\* One status request at a time; an answer under way is not older than a final
\* state the page shows.
OnePoll == \A t, u \in asking : t = u

SnapshotsOK ==
    \A t \in DOMAIN snapshots :
        /\ DOMAIN snapshots[t] \subseteq DOMAIN jobs
        /\ \A j \in DOMAIN snapshots[t] :
              /\ snapshots[t][j] \in {"Running"} \cup Ended
              /\ snapshots[t][j] \in Ended => jobs[j].state = snapshots[t][j]
              /\ observed[j] \in Ended => snapshots[t][j] = observed[j]

ShownOK ==
    \A j \in Jobs : observed[j] \in Ended => j \in DOMAIN jobs /\ jobs[j].state = observed[j]

PollInv == OnePoll /\ SnapshotsOK /\ ShownOK

\* A key is taken by one submission; a submission of this page that has given
\* its key back has a job that has ended.
KeysOK ==
    /\ \A c, d \in held : Key(c) = Key(d) => c = d
    /\ \A c \in Current \ held : card[c].id # NoJob /\ jobs[card[c].id].state \in Ended

PagesOK == pages \in Nat

SubInv == TypeOK /\ IInv /\ NetInv /\ PollInv /\ KeysOK /\ PagesOK
-----------------------------------------------------------------------------
(* The page and the server, seen from the server's acceptance of commands. *)

\* What the page does is nothing to the server's acceptance of commands.
LEMMA PageKeepsGrants == PageNext => UNCHANGED grantVars
BY DEF PageNext, Submit, Unconfirmed, Rejected, ReceiveGrant, SendWith, ReceiveAccepted, AskStatus,
       ReceiveStatus, StatusFails, OpenPage

LEMMA MessageType ==
    ASSUME TypeOK, NEW m \in requests
    PROVE  /\ m.kind \in {"grant", "cancel", "command"} /\ m.card \in Cards
           /\ m.grant \in Grants \cup {NoGrant} /\ m.body \in Bodies
BY DEF TypeOK, Message

LEMMA ServerActsOnGrants == ASSUME TypeOK, ServerNext PROVE [GrantNext]_grantVars
<1>1. ASSUME NEW m \in requests,
             ServeGrant(m) \/ ServeGrantFull(m) \/ ServeCommand(m) \/ ServeWithout(m) \/ Drop(m)
      PROVE  [GrantNext]_grantVars
  <2>1. m.body \in Bodies
    BY MessageType
  <2>2. ASSUME IsIssued(m.grant) PROVE m.grant \in Grants
    BY <2>2 DEF IsIssued, TypeOK, GrantTypeOK
  <2>3. CASE ServeGrant(m)
    BY <2>1, <2>3 DEF ServeGrant, GrantNext
  <2>4. CASE ServeCommand(m)
    <3>1. Consume(m.grant, m.body) /\ IsIssued(m.grant)
      BY <2>4 DEF ServeCommand, Consume, MayUse
    <3> QED
      BY <2>1, <2>2, <3>1 DEF GrantNext
  <2>5. CASE ServeWithout(m)
    <3>1. \/ (Expire(m.grant) \/ Cancel(m.grant)) /\ IsIssued(m.grant)
          \/ UNCHANGED grantVars
      BY <2>5 DEF ServeWithout, Expire, Cancel, MayCancel
    <3> QED
      BY <2>2, <3>1 DEF GrantNext
  <2>6. CASE ServeGrantFull(m) \/ Drop(m)
    BY <2>6 DEF ServeGrantFull, Drop
  <2> QED
    BY <1>1, <2>3, <2>4, <2>5, <2>6
<1>2. CASE ServeJob \/ ServeNoJob \/ ServeAccepted
  BY <1>2 DEF ServeJob, ServeNoJob, ServeAccepted, GrantNext
<1>3. ASSUME NEW t \in Tickets, ServeStatus(t) PROVE UNCHANGED grantVars
  BY <1>3 DEF ServeStatus
<1>4. CASE OpenServer \/ CloseServer \/ Passing
  BY <1>4 DEF OpenServer, CloseServer, Passing, GrantNext
<1> QED
  BY <1>1, <1>2, <1>3, <1>4 DEF ServerNext

LEMMA GrantStep == ASSUME TypeOK, [Next]_vars PROVE [GrantNext]_grantVars
BY PageKeepsGrants, ServerActsOnGrants DEF Next, vars, grantVars

\* Grants stay handed out; jobs keep their grant and body, and an end is final.
LEMMA GrantsGrow ==
    ASSUME GrantTypeOK, [GrantNext]_grantVars
    PROVE  /\ used \subseteq used' /\ DOMAIN jobs \subseteq DOMAIN jobs'
           /\ \A j \in DOMAIN jobs : /\ jobs'[j].grant = jobs[j].grant /\ jobs'[j].body = jobs[j].body
                                     /\ jobs[j].state \in Ended => jobs'[j].state = jobs[j].state
<1>1. \A j \in DOMAIN jobs : jobs[j] \in JobRecord
  BY DEF GrantTypeOK
<1>2. CASE Close
  BY <1>1, <1>2 DEF Close, StoppedJob, JobRecord, Ended
<1>3. ASSUME NEW j \in Jobs, StartJob(j)
      PROVE  used' = used /\ DOMAIN jobs' = DOMAIN jobs \cup {j} /\ \A i \in DOMAIN jobs : jobs'[i] = jobs[i]
  BY <1>3 DEF StartJob, With
<1>4. ASSUME NEW j \in Jobs, NEW s \in {"Completed", "Failed"}, JobEnds(j, s)
      PROVE  /\ used' = used /\ DOMAIN jobs' = DOMAIN jobs
             /\ \A i \in DOMAIN jobs : /\ jobs'[i].grant = jobs[i].grant /\ jobs'[i].body = jobs[i].body
                                       /\ jobs[i].state \in Ended => jobs'[i].state = jobs[i].state
  BY <1>1, <1>4 DEF JobEnds, JobRecord, Ended
<1>5. CASE \/ Open
           \/ \E g \in Grants, b \in Bodies : Issue(g, b) \/ Consume(g, b)
           \/ \E g \in Grants : Expire(g) \/ Cancel(g) \/ Age(g)
           \/ StartFails \/ RecordJob \/ UNCHANGED grantVars
  <2>1. jobs' = jobs /\ used \subseteq used'
    BY <1>5 DEF Open, Issue, Consume, Expire, Cancel, Age, StartFails, RecordJob, grantVars
  <2> QED
    BY <2>1
<1> QED
  BY <1>2, <1>3, <1>4, <1>5 DEF GrantNext

-----------------------------------------------------------------------------
(* Types.                                                                  *)

\* What TypeOK says of the page, and of the messages.
PageTypes ==
    /\ card \in [Cards -> Card \cup {NoCard}]
    /\ held \subseteq Current /\ optimistic \subseteq Current
    /\ gone \subseteq {c \in Cards : card[c] # NoCard}
    /\ observed \in [Jobs -> Observed]
    /\ asking \subseteq Tickets /\ DOMAIN snapshots \subseteq asking

NetTypes ==
    /\ trusted \in BOOLEAN /\ (trusted => up)
    /\ requests \subseteq Message /\ answers \subseteq Answer
    /\ handedTo \in [Grants -> Cards \cup {NoCard}]

LEMMA TypeParts == TypeOK <=> GrantTypeOK /\ PageTypes /\ NetTypes
BY DEF TypeOK, PageTypes, NetTypes

\* A submission that changes keeps its place and its body.
LEMMA CardType ==
    ASSUME TypeOK, NEW c \in Cards, card[c] # NoCard
    PROVE  /\ card[c] \in Card /\ card[c].body \in Bodies
           /\ \A s \in Shown : [card[c] EXCEPT !.state = s] \in Card
           /\ \A s \in Shown, w \in Await : [card[c] EXCEPT !.state = s, !.await = w] \in Card
           /\ \A w \in Await, g \in Grants \cup {NoGrant} :
                 [card[c] EXCEPT !.await = w, !.receipt = g] \in Card
           /\ \A s \in Shown, w \in Await, j \in Jobs \cup {NoJob} :
                 [card[c] EXCEPT !.state = s, !.await = w, !.id = j] \in Card
<1>1. card[c] \in Card
  BY DEF TypeOK
<1>2. ASSUME NEW s \in Shown PROVE [card[c] EXCEPT !.state = s] \in Card
  BY <1>1 DEF Card
<1>3. ASSUME NEW s \in Shown, NEW w \in Await PROVE [card[c] EXCEPT !.state = s, !.await = w] \in Card
  BY <1>1 DEF Card
<1>4. ASSUME NEW w \in Await, NEW g \in Grants \cup {NoGrant}
      PROVE  [card[c] EXCEPT !.await = w, !.receipt = g] \in Card
  BY <1>1 DEF Card
<1>5. ASSUME NEW s \in Shown, NEW w \in Await, NEW j \in Jobs \cup {NoJob}
      PROVE  [card[c] EXCEPT !.state = s, !.await = w, !.id = j] \in Card
  BY <1>1 DEF Card
<1>6. card[c].body \in Bodies
  BY <1>1 DEF Card
<1> QED
  BY <1>1, <1>2, <1>3, <1>4, <1>5, <1>6

\* One submission changes; the sets the page keeps stay sets of submissions.
LEMMA OneCardTypes ==
    ASSUME PageTypes, NEW c \in Cards, NEW r \in Card, card' = [card EXCEPT ![c] = r],
           UNCHANGED <<gone, optimistic>>, held' \subseteq held, UNCHANGED <<observed, snapshots>>,
           asking \subseteq asking', asking' \subseteq Tickets
    PROVE  PageTypes'
<1>1. \A d \in Cards : card[d] # NoCard => card'[d] # NoCard
  BY NoCardAssumption DEF PageTypes
<1> QED
  BY <1>1 DEF PageTypes, Current

\* Doubt changes the state a card shows and nothing else.
LEMMA DoubtedType ==
    ASSUME TypeOK, NEW C \in SUBSET Current, NEW s \in Shown
    PROVE  /\ Doubted(C, s) \in [Cards -> Card \cup {NoCard}]
           /\ \A c \in Cards :
                IF card[c] = NoCard THEN Doubted(C, s)[c] = NoCard
                ELSE /\ Doubted(C, s)[c] \in Card
                     /\ Doubted(C, s)[c].body = card[c].body /\ Doubted(C, s)[c].id = card[c].id
                     /\ Doubted(C, s)[c].await = card[c].await
                     /\ Doubted(C, s)[c].state \in {card[c].state, s}
<1>1. ASSUME NEW c \in Cards, card[c] = NoCard PROVE Doubted(C, s)[c] = NoCard
  BY <1>1 DEF Doubted, Current
<1>2. ASSUME NEW c \in Cards, card[c] # NoCard
      PROVE  /\ Doubted(C, s)[c] \in Card /\ Doubted(C, s)[c] # NoCard
             /\ Doubted(C, s)[c].body = card[c].body /\ Doubted(C, s)[c].id = card[c].id
             /\ Doubted(C, s)[c].await = card[c].await
             /\ Doubted(C, s)[c].state \in {card[c].state, s}
  <2> DEFINE r == [card[c] EXCEPT !.state = s]
  <2>1. card[c] \in Card /\ r \in Card
    BY <1>2, CardType
  <2>2. r.body = card[c].body /\ r.id = card[c].id /\ r.await = card[c].await /\ r.state = s
    BY <2>1 DEF Card
  <2>3. Doubted(C, s)[c] \in {card[c], r}
    BY DEF Doubted
  <2> HIDE DEF r
  <2> QED
    BY <2>1, <2>2, <2>3, NoCardAssumption
<1>3. Doubted(C, s) = [c \in Cards |-> Doubted(C, s)[c]]
  BY DEF Doubted
<1>4. \A c \in Cards : Doubted(C, s)[c] \in Card \cup {NoCard}
  BY <1>1, <1>2
<1>5. Doubted(C, s) \in [Cards -> Card \cup {NoCard}]
  BY <1>3, <1>4
<1> QED
  BY <1>1, <1>2, <1>5

-----------------------------------------------------------------------------
(* What a step of the page does to submissions and messages.               *)

\* Every new request is of a new submission, or carries the grant of its own.
AsksForItself ==
    \A m \in requests' \ requests :
        /\ m \in Message /\ card'[m.card] # NoCard /\ m.body = card'[m.card].body
        /\ m.kind = "grant" => card[m.card] = NoCard /\ m.grant = NoGrant
        /\ m.kind # "grant" => m.grant \in used /\ handedTo[m.grant] = m.card

\* A new submission has no job; an old one keeps its body, keeps its job or gets
\* its own, and is rejected only if it has no grant.
CardsMove ==
    \A c \in Cards :
        IF card[c] = NoCard
        THEN card'[c] # NoCard => card'[c].id = NoJob /\ card'[c].state = "Submitting"
        ELSE /\ card'[c] # NoCard /\ card'[c].body = card[c].body
             /\ \/ /\ card'[c].id = card[c].id
                   /\ card'[c].id = NoJob \/ card'[c].await \in {card[c].await, "nothing"}
                   /\ card'[c].state = "Accepted" => card[c].state = "Accepted"
                \/ /\ card'[c].id \in DOMAIN jobs /\ CardOf(card'[c].id) = c
                   /\ card'[c].await = "nothing" /\ card'[c].id # NoJob
             /\ card'[c].state = "Rejected" => card[c].state = "Rejected" \/ Unserved(c)

PageMoves ==
    /\ UNCHANGED <<grantVars, handedTo>> /\ AsksForItself /\ CardsMove /\ answers' \subseteq answers

LEMMA JobsHaveGrants ==
    ASSUME IInv
    PROVE  /\ \A j \in DOMAIN jobs : j \in Jobs /\ jobs[j].grant \in used
           /\ serving # Nobody => serving.grant \in used
           /\ used \subseteq Grants
BY DEF IInv, UsedOK, HandOK, GrantTypeOK

LEMMA PageMovesOK == ASSUME TypeOK, IInv, NetInv, PageMoves PROVE NetInv'
<1>1. /\ UNCHANGED <<used, jobs, serving, handedTo>>
      /\ \A c \in Cards : card[c] # NoCard => card'[c] # NoCard /\ card'[c].body = card[c].body
  BY DEF PageMoves, CardsMove, grantVars
<1>2. \A j : CardOf(j)' = CardOf(j)
  BY <1>1 DEF CardOf
<1>3. ASSUME NEW c \in Cards, card[c] # NoCard, Unserved(c) PROVE Unserved(c)'
  BY <1>1, <1>3 DEF Unserved, PageMoves, AsksForItself
<1>4. HandedOK'
  BY <1>1 DEF NetInv, HandedOK
<1>5. BodiesOK'
  BY <1>1, <1>2, JobsHaveGrants DEF NetInv, HandedOK, BodiesOK, CardOf
<1>6. RequestsOK'
  <2> SUFFICES ASSUME NEW m \in requests'
               PROVE  /\ card'[m.card] # NoCard /\ m.body = card'[m.card].body
                      /\ m.kind = "grant" => m.grant = NoGrant /\ \A g \in used : handedTo[g] # m.card
                      /\ m.kind # "grant" => m.grant \in used /\ handedTo[m.grant] = m.card
    BY <1>1 DEF RequestsOK
  <2>1. CASE m \in requests
    BY <1>1, <2>1, MessageType DEF NetInv, RequestsOK
  <2>2. CASE m \notin requests
    BY <1>1, <2>2 DEF PageMoves, AsksForItself, NetInv, HandedOK
  <2> QED
    BY <2>1, <2>2
<1>7. AnswersOK'
  <2> SUFFICES ASSUME NEW m \in answers
               PROVE  /\ card'[m.card] # NoCard
                      /\ m.kind = "issued" => m.grant \in used /\ handedTo[m.grant] = m.card
                      /\ m.kind = "full" => Unserved(m.card)'
                      /\ m.kind = "accepted" => m.job \in DOMAIN jobs /\ CardOf(m.job) = m.card
    BY <1>1, <1>2 DEF AnswersOK, PageMoves
  <2>1. m.card \in Cards
    BY DEF TypeOK, Answer
  <2> QED
    BY <1>1, <1>3, <2>1 DEF NetInv, AnswersOK
<1>8. CardsOK'
  <2> SUFFICES ASSUME NEW c \in Cards, card'[c] # NoCard
               PROVE  /\ card'[c].id # NoJob => /\ card'[c].id \in DOMAIN jobs /\ CardOf(card'[c].id) = c
                                                /\ card'[c].await = "nothing"
                      /\ card'[c].state = "Accepted" => card'[c].id # NoJob
                      /\ card'[c].state = "Rejected" => Unserved(c)'
    BY <1>1, <1>2 DEF CardsOK
  <2>1. CASE card[c] = NoCard
    BY <2>1 DEF PageMoves, CardsMove
  <2>2. CASE card[c] # NoCard
    BY <1>3, <2>2 DEF PageMoves, CardsMove, NetInv, CardsOK
  <2> QED
    BY <2>1, <2>2
<1> QED
  BY <1>4, <1>5, <1>6, <1>7, <1>8 DEF NetInv

\* What PageNext promises of messages and of who is trusted.
PageNet ==
    /\ requests' \subseteq Message /\ answers' \subseteq answers /\ UNCHANGED <<handedTo, up>>
    /\ trusted' \in {trusted, up}

PageGoesOn == PageMoves /\ PageTypes' /\ PageNet

LEMMA SubmitGoesOn ==
    ASSUME TypeOK, IInv, NetInv, NEW c \in Cards, NEW b \in Bodies, Submit(c, b)
    PROVE  PageGoesOn
<1> DEFINE r == [body |-> b, state |-> "Submitting", id |-> NoJob, await |-> "grant", receipt |-> NoGrant]
           m == [kind |-> "grant", card |-> c, grant |-> NoGrant, body |-> b]
<1>1. /\ r \in Card /\ r # NoCard /\ r.body = b /\ r.id = NoJob /\ r.state = "Submitting"
      /\ m \in Message /\ m.kind = "grant" /\ m.card = c /\ m.grant = NoGrant /\ m.body = b
  BY NoCardAssumption DEF Card, Shown, Await, Message
<1>2. /\ card[c] = NoCard /\ card' = [card EXCEPT ![c] = r] /\ requests' = Ask({m})
      /\ held' = held \cup {c} /\ optimistic' = optimistic \cup {c}
      /\ UNCHANGED <<grantVars, gone, observed, asking, snapshots, trusted, answers, handedTo>>
  BY DEF Submit
<1> HIDE DEF r, m
<1>3. card \in [Cards -> Card \cup {NoCard}] /\ PageTypes /\ requests \subseteq Message
  BY TypeParts DEF TypeOK
<1>4. card'[c] = r /\ \A d \in Cards : d # c => card'[d] = card[d]
  BY <1>2, <1>3
<1>5. requests' \subseteq requests \cup {m}
  BY <1>2 DEF Ask
<1>6. AsksForItself
  BY <1>1, <1>2, <1>4, <1>5 DEF AsksForItself
<1>7. CardsMove
  BY <1>1, <1>2, <1>4 DEF CardsMove
<1>8. PageTypes'
  BY <1>1, <1>2, <1>3, <1>4 DEF PageTypes, Current
<1>9. PageNet
  BY <1>1, <1>2, <1>3, <1>5 DEF PageNet, grantVars
<1> QED
  BY <1>2, <1>6, <1>7, <1>8, <1>9 DEF PageGoesOn, PageMoves

OwnMessages(c, r, msgs) ==
    \A m \in msgs : /\ m \in Message /\ m.card = c /\ m.body = r.body /\ m.kind # "grant"
                    /\ m.grant \in used /\ handedTo[m.grant] = c

\* A change of one submission that CardsMove allows.
OwnChange(c, r) ==
    /\ r \in Card /\ r.body = card[c].body
    /\ \/ /\ r.id = card[c].id /\ (r.id = NoJob \/ r.await \in {card[c].await, "nothing"})
          /\ r.state = "Accepted" => card[c].state = "Accepted"
       \/ r.id \in DOMAIN jobs /\ CardOf(r.id) = c /\ r.await = "nothing" /\ r.id # NoJob
    /\ r.state = "Rejected" => card[c].state = "Rejected" \/ Unserved(c)

\* One submission of this page changes, and asks for nothing or for itself.
LEMMA OneCardGoesOn ==
    ASSUME TypeOK, IInv, NetInv, NEW c \in Current, NEW r, NEW msgs,
           OwnChange(c, r), OwnMessages(c, r, msgs),
           card' = [card EXCEPT ![c] = r], requests' = Ask(msgs), answers' \subseteq answers,
           UNCHANGED <<grantVars, gone, optimistic, observed, snapshots, trusted, handedTo>>,
           held' \subseteq held, asking \subseteq asking', asking' \subseteq Tickets
    PROVE  PageGoesOn
<1>0. /\ r \in Card /\ r.body = card[c].body
      /\ \/ /\ r.id = card[c].id /\ (r.id = NoJob \/ r.await \in {card[c].await, "nothing"})
            /\ r.state = "Accepted" => card[c].state = "Accepted"
         \/ r.id \in DOMAIN jobs /\ CardOf(r.id) = c /\ r.await = "nothing" /\ r.id # NoJob
      /\ r.state = "Rejected" => card[c].state = "Rejected" \/ Unserved(c)
  BY DEF OwnChange
<1>1. c \in Cards /\ card[c] # NoCard /\ r # NoCard
  BY <1>0, NoCardAssumption DEF Current
<1>2. card \in [Cards -> Card \cup {NoCard}] /\ PageTypes /\ requests \subseteq Message
  BY TypeParts DEF TypeOK
<1>3. card'[c] = r /\ \A d \in Cards : d # c => card'[d] = card[d]
  BY <1>1, <1>2
<1>4. requests' \subseteq requests \cup msgs
  BY DEF Ask
<1>5. AsksForItself
  BY <1>1, <1>3, <1>4 DEF AsksForItself, OwnMessages
<1>6. CardsMove
  <2> SUFFICES ASSUME NEW d \in Cards
               PROVE  IF card[d] = NoCard
                      THEN card'[d] # NoCard => card'[d].id = NoJob /\ card'[d].state = "Submitting"
                      ELSE /\ card'[d] # NoCard /\ card'[d].body = card[d].body
                           /\ \/ /\ card'[d].id = card[d].id
                                 /\ card'[d].id = NoJob \/ card'[d].await \in {card[d].await, "nothing"}
                                 /\ card'[d].state = "Accepted" => card[d].state = "Accepted"
                              \/ /\ card'[d].id \in DOMAIN jobs /\ CardOf(card'[d].id) = d
                                 /\ card'[d].await = "nothing" /\ card'[d].id # NoJob
                           /\ card'[d].state = "Rejected" => card[d].state = "Rejected" \/ Unserved(d)
    BY DEF CardsMove
  <2>1. CASE d = c
    BY <1>0, <1>1, <1>3, <2>1
  <2>2. CASE d # c
    BY <1>3, <2>2
  <2> QED
    BY <2>1, <2>2
<1>7. PageTypes'
  BY <1>0, <1>1, <1>2, OneCardTypes
<1>8. PageNet
  BY <1>2, <1>4 DEF OwnMessages, PageNet, grantVars
<1> QED
  BY <1>5, <1>6, <1>7, <1>8 DEF PageGoesOn, PageMoves

LEMMA UnconfirmedGoesOn ==
    ASSUME TypeOK, IInv, NetInv, NEW c \in Cards, Unconfirmed(c) PROVE PageGoesOn
<1> DEFINE r == [card[c] EXCEPT !.state = "Unknown", !.await = "nothing"]
<1>1. c \in Current /\ card[c] # NoCard /\ card[c] \in Card
  BY CardType DEF Unconfirmed, Current
<1>2. /\ r \in Card /\ r.body = card[c].body /\ r.id = card[c].id /\ r.state = "Unknown"
      /\ r.await = "nothing"
  BY <1>1 DEF Card, Shown, Await
<1>3. card' = [card EXCEPT ![c] = r] /\ requests' = Ask({})
  BY DEF Unconfirmed, Failed
<1>4. /\ answers' \subseteq answers
      /\ UNCHANGED <<grantVars, gone, held, optimistic, observed, asking, snapshots, trusted, handedTo>>
  BY DEF Unconfirmed
<1>5. asking' \subseteq Tickets
  BY <1>4 DEF TypeOK
<1> HIDE DEF r
<1>6. OwnChange(c, r) /\ OwnMessages(c, r, {})
  BY <1>1, <1>2 DEF OwnChange, OwnMessages
<1> QED
  BY <1>1, <1>3, <1>4, <1>5, <1>6, OneCardGoesOn

LEMMA RejectedGoesOn ==
    ASSUME TypeOK, IInv, NetInv, NEW c \in Cards, Rejected(c) PROVE PageGoesOn
<1> DEFINE r == [card[c] EXCEPT !.state = "Rejected", !.await = "nothing"]
<1>1. c \in Current /\ card[c] # NoCard /\ card[c] \in Card
  BY CardType DEF Rejected, Current
<1>2. /\ r \in Card /\ r.body = card[c].body /\ r.id = card[c].id /\ r.state = "Rejected"
      /\ r.await = "nothing"
  BY <1>1 DEF Card, Shown, Await
<1>3. card' = [card EXCEPT ![c] = r]
  BY <1>1 DEF Rejected, TypeOK
<1>4. /\ answers' \subseteq answers /\ requests' = requests
      /\ UNCHANGED <<grantVars, gone, held, optimistic, observed, asking, snapshots, trusted, handedTo>>
  BY DEF Rejected
<1>5. asking' \subseteq Tickets /\ requests' = Ask({})
  BY <1>4 DEF TypeOK, Ask
<1>6. Unserved(c)
  BY DEF Rejected, AnswersTo, NetInv, AnswersOK
<1> HIDE DEF r
<1>7. OwnChange(c, r) /\ OwnMessages(c, r, {})
  BY <1>1, <1>2, <1>6 DEF OwnChange, OwnMessages
<1> QED
  BY <1>1, <1>3, <1>4, <1>5, <1>7, OneCardGoesOn

LEMMA ReceiveGrantGoesOn ==
    ASSUME TypeOK, IInv, NetInv, NEW c \in Cards, ReceiveGrant(c) PROVE PageGoesOn
<1>1. c \in Current /\ card[c] # NoCard /\ card[c] \in Card /\ card[c].await = "grant"
  BY CardType DEF ReceiveGrant, Current
<1>2. PICK m \in AnswersTo(c), kind \in {"command", "cancel"} :
         m.kind = "issued" /\ SendWith(c, m, kind)
  BY DEF ReceiveGrant
<1>3. /\ m \in answers /\ m.card = c /\ m.grant \in used /\ handedTo[m.grant] = c
      /\ m.grant \in Grants /\ card[c].body \in Bodies
  BY <1>1, <1>2, CardType DEF AnswersTo, NetInv, AnswersOK, TypeOK, GrantTypeOK
<1> DEFINE r == [card[c] EXCEPT !.await = kind, !.receipt = m.grant]
           msg == [kind |-> kind, card |-> c, grant |-> m.grant, body |-> card[c].body]
<1>4. /\ r \in Card /\ r.body = card[c].body /\ r.id = card[c].id /\ r.state = card[c].state
      /\ r.await = kind
  BY <1>1, <1>2, <1>3 DEF Card, Await
<1>5. /\ msg \in Message /\ msg.card = c /\ msg.kind # "grant" /\ msg.grant = m.grant
      /\ msg.body = card[c].body
  BY <1>2, <1>3 DEF Message
<1>6. card' = [card EXCEPT ![c] = r] /\ requests' = Ask({msg}) /\ answers' \subseteq answers
  BY <1>1, <1>2 DEF SendWith, TypeOK
<1>7. UNCHANGED <<grantVars, gone, held, optimistic, observed, asking, snapshots, trusted, handedTo>>
  BY <1>2 DEF SendWith
<1>8. card[c].id = NoJob
  BY <1>1 DEF NetInv, CardsOK
<1>9. asking' \subseteq Tickets /\ (r.state = "Rejected" => Unserved(c))
  BY <1>1, <1>4, <1>7 DEF TypeOK, NetInv, CardsOK
<1> HIDE DEF r, msg
<1>10. OwnChange(c, r)
  BY <1>4, <1>8, <1>9 DEF OwnChange
<1>11. OwnMessages(c, r, {msg})
  BY <1>3, <1>4, <1>5 DEF OwnMessages
<1> QED
  BY <1>1, <1>6, <1>7, <1>9, <1>10, <1>11, OneCardGoesOn

LEMMA TicketType ==
    ASSUME TypeOK, asking # Tickets PROVE NextTicket \in Tickets /\ NextTicket \notin asking
BY DEF TypeOK, NextTicket

LEMMA ReceiveAcceptedGoesOn ==
    ASSUME TypeOK, IInv, NetInv, NEW c \in Cards, ReceiveAccepted(c) PROVE PageGoesOn
<1>1. c \in Current /\ card[c] # NoCard /\ card[c] \in Card
  BY CardType DEF ReceiveAccepted, Current
<1>2. PICK m \in AnswersTo(c) :
         /\ m.kind = "accepted"
         /\ card' = [card EXCEPT ![c].state = "Accepted", ![c].await = "nothing", ![c].id = m.job]
         /\ answers' = answers \ {m}
  BY DEF ReceiveAccepted
<1>3. m.job \in DOMAIN jobs /\ CardOf(m.job) = c /\ m.job \in Jobs /\ m.job # NoJob
  BY <1>2, JobsHaveGrants, GrantsAssumption DEF AnswersTo, NetInv, AnswersOK
<1> DEFINE r == [card[c] EXCEPT !.state = "Accepted", !.await = "nothing", !.id = m.job]
<1>4. r \in Card /\ r.body = card[c].body /\ r.id = m.job /\ r.state = "Accepted" /\ r.await = "nothing"
  BY <1>1, <1>3 DEF Card, Await, Shown
<1>5. card' = [card EXCEPT ![c] = r]
  BY <1>1, <1>2 DEF TypeOK
<1>6. UNCHANGED <<grantVars, gone, optimistic, observed, snapshots, trusted, requests, handedTo>>
  BY DEF ReceiveAccepted
<1>7. requests' = Ask({}) /\ held' \subseteq held /\ asking \subseteq asking' /\ asking' \subseteq Tickets
  BY <1>6, TicketType DEF ReceiveAccepted, Ask, TypeOK
<1> HIDE DEF r
<1>8. OwnChange(c, r) /\ OwnMessages(c, r, {})
  BY <1>3, <1>4 DEF OwnChange, OwnMessages
<1> QED
  BY <1>1, <1>2, <1>5, <1>6, <1>7, <1>8, OneCardGoesOn

\* A step that leaves what submissions say of jobs and grants alone.
LEMMA QuietGoesOn ==
    ASSUME TypeOK, NetInv, UNCHANGED <<grantVars, handedTo, requests>>, answers' \subseteq answers,
           \A c \in Cards : IF card[c] = NoCard THEN card'[c] = NoCard
                            ELSE /\ card'[c] # NoCard /\ card'[c].body = card[c].body
                                 /\ card'[c].id = card[c].id /\ card'[c].await = card[c].await
                                 /\ card'[c].state \in {card[c].state, "Unknown", "ConnectionLost"}
    PROVE  PageMoves
BY DEF PageMoves, AsksForItself, CardsMove

LEMMA AskStatusGoesOn == ASSUME TypeOK, IInv, NetInv, AskStatus PROVE PageGoesOn
<1>1. PageMoves
  BY QuietGoesOn DEF AskStatus, netVars
<1>2. PageTypes'
  BY TypeParts, TicketType DEF AskStatus, PageTypes, Current
<1>3. PageNet
  BY DEF AskStatus, netVars, PageNet, grantVars, TypeOK
<1> QED
  BY <1>1, <1>2, <1>3 DEF PageGoesOn

LEMMA OpenPageGoesOn == ASSUME TypeOK, IInv, NetInv, OpenPage PROVE PageGoesOn
<1>1. PageMoves
  BY QuietGoesOn DEF OpenPage
<1>2. PageTypes'
  <2>1. \A j \in Jobs : observed'[j] = "None"
    BY DEF OpenPage
  <2> QED
    BY <2>1, TypeParts, EmptyDomain DEF OpenPage, PageTypes, Current, Observed
<1>3. PageNet
  BY DEF OpenPage, PageNet, grantVars, TypeOK
<1> QED
  BY <1>1, <1>2, <1>3 DEF PageGoesOn

\* The page has heard, or failed to hear, of its jobs.
LEMMA HearingGoesOn ==
    ASSUME TypeOK, IInv, NetInv, NEW t \in asking, NEW C \in SUBSET optimistic,
           NEW s \in {"Unknown", "ConnectionLost"},
           card' = Doubted(C, s), optimistic' \subseteq optimistic, held' \subseteq held,
           observed' \in [Jobs -> Observed], asking' = asking \ {t},
           snapshots' = Restrict(snapshots, DOMAIN snapshots \ {t}),
           UNCHANGED <<grantVars, gone, trusted, netVars, handedTo>>
    PROVE  PageGoesOn
<1>1. C \in SUBSET Current /\ s \in Shown
  BY DEF TypeOK, Shown
<1>2. /\ card' \in [Cards -> Card \cup {NoCard}]
      /\ \A c \in Cards : IF card[c] = NoCard THEN card'[c] = NoCard
                          ELSE /\ card'[c] # NoCard /\ card'[c].body = card[c].body
                               /\ card'[c].id = card[c].id /\ card'[c].await = card[c].await
                               /\ card'[c].state \in {card[c].state, "Unknown", "ConnectionLost"}
  BY <1>1, DoubtedType, NoCardAssumption
<1>3. PageMoves
  BY <1>2, QuietGoesOn DEF netVars
<1>4. DOMAIN snapshots' = DOMAIN snapshots \ {t}
  BY DEF Restrict
<1>5. PageTypes'
  BY <1>2, <1>4, TypeParts DEF PageTypes, Current
<1>6. PageNet
  BY DEF PageNet, netVars, grantVars, TypeOK
<1> QED
  BY <1>3, <1>5, <1>6 DEF PageGoesOn

LEMMA StatusFailsGoesOn ==
    ASSUME TypeOK, IInv, NetInv, NEW t \in Tickets, StatusFails(t) PROVE PageGoesOn
<1>1. observed' \in [Jobs -> Observed]
  BY DEF StatusFails, Disconnected, TypeOK, Observed
<1> QED
  BY <1>1, HearingGoesOn DEF StatusFails

LEMMA ReceiveStatusGoesOn ==
    ASSUME TypeOK, IInv, NetInv, PollInv, NEW t \in Tickets, ReceiveStatus(t) PROVE PageGoesOn
<1>1. \A j \in Jobs : StatusOf(snapshots[t], j) \in Observed
  BY DEF ReceiveStatus, StatusOf, PollInv, SnapshotsOK, TypeOK, Observed
<1>2. observed' \in [Jobs -> Observed]
  BY <1>1 DEF ReceiveStatus
<1> DEFINE C == {c \in optimistic : card[c].id \notin DOMAIN snapshots[t]}
<1>3. /\ card' = Doubted(C, "Unknown") /\ optimistic' = C /\ held' \subseteq held
      /\ t \in asking /\ asking' = asking \ {t}
      /\ snapshots' = Restrict(snapshots, DOMAIN snapshots \ {t})
      /\ UNCHANGED <<grantVars, gone, trusted, netVars, handedTo>>
  BY DEF ReceiveStatus
<1> QED
  BY <1>2, <1>3, HearingGoesOn

LEMMA PageStepGoesOn == ASSUME TypeOK, IInv, NetInv, PollInv, PageNext PROVE PageGoesOn
BY SubmitGoesOn, UnconfirmedGoesOn, RejectedGoesOn, ReceiveGrantGoesOn, ReceiveAcceptedGoesOn,
   AskStatusGoesOn, ReceiveStatusGoesOn, StatusFailsGoesOn, OpenPageGoesOn DEF PageNext

\* The page keeps the types and NetInv.
LEMMA PageKeeps == ASSUME TypeOK, IInv, NetInv, PollInv, PageNext PROVE TypeOK' /\ NetInv'
<1>1. PageGoesOn
  BY PageStepGoesOn
<1>2. NetInv'
  BY <1>1, PageMovesOK DEF PageGoesOn
<1>3. GrantTypeOK'
  BY PageKeepsGrants DEF TypeOK, GrantTypeOK, grantVars
<1>4. NetTypes'
  BY <1>1 DEF PageGoesOn, PageNet, TypeOK, GrantTypeOK, NetTypes
<1>5. TypeOK'
  BY <1>1, <1>3, <1>4 DEF PageGoesOn, TypeOK, PageTypes, NetTypes
<1> QED
  BY <1>2, <1>5

-----------------------------------------------------------------------------
(* What a step of the server does to messages.                             *)

\* No submission has two requests for a grant.
LEMMA OneGrantRequest ==
    ASSUME TypeOK, NetInv, NEW m \in requests, NEW n \in requests,
           m.kind = "grant", n.kind = "grant", m.card = n.card
    PROVE  m = n
<1>1. m \in Message /\ n \in Message
  BY DEF TypeOK
<1>2. m.grant = n.grant /\ m.body = n.body
  BY DEF NetInv, RequestsOK
<1> QED
  BY <1>1, <1>2 DEF Message

\* What is in hand stays or is put down, and no job is new.
LEMMA SameBodies ==
    ASSUME TypeOK, IInv, NetInv, [GrantNext]_grantVars, UNCHANGED <<card, handedTo>>,
           serving' \in {serving, Nobody}, DOMAIN jobs' = DOMAIN jobs
    PROVE  BodiesOK'
<1>1. \A j \in DOMAIN jobs : jobs'[j].grant = jobs[j].grant /\ jobs'[j].body = jobs[j].body
  BY GrantsGrow DEF TypeOK
<1> QED
  BY <1>1 DEF NetInv, BodiesOK, CardOf

\* A step of the server that hands out no grant, and whose answers are true.
TrueAnswer(m) ==
    /\ m \in Answer /\ card[m.card] # NoCard
    /\ \/ m.kind = "full" /\ Unserved(m.card)'
       \/ m.kind = "accepted" /\ m.job \in DOMAIN jobs /\ CardOf(m.job) = m.card

LEMMA ServerMovesOK ==
    ASSUME TypeOK, IInv, NetInv, [GrantNext]_grantVars, UNCHANGED <<card, used, handedTo>>,
           requests' \subseteq requests, \A m \in answers' \ answers : TrueAnswer(m), BodiesOK'
    PROVE  NetInv'
<1>1. /\ DOMAIN jobs \subseteq DOMAIN jobs'
      /\ \A j \in DOMAIN jobs : CardOf(j)' = CardOf(j)
  BY GrantsGrow DEF TypeOK, CardOf
<1>2. ASSUME NEW c, Unserved(c) PROVE Unserved(c)'
  BY <1>2 DEF Unserved
<1>3. HandedOK' /\ RequestsOK'
  BY DEF NetInv, HandedOK, RequestsOK
<1>4. AnswersOK'
  <2> SUFFICES ASSUME NEW m \in answers'
               PROVE  /\ card[m.card] # NoCard
                      /\ m.kind = "issued" => m.grant \in used /\ handedTo[m.grant] = m.card
                      /\ m.kind = "full" => Unserved(m.card)'
                      /\ m.kind = "accepted" => m.job \in DOMAIN jobs' /\ CardOf(m.job)' = m.card
    BY DEF AnswersOK
  <2>1. CASE m \in answers
    BY <1>1, <1>2, <2>1 DEF NetInv, AnswersOK
  <2>2. CASE m \notin answers
    BY <1>1, <2>2 DEF TrueAnswer
  <2> QED
    BY <2>1, <2>2
<1>5. CardsOK'
  BY <1>1, <1>2 DEF NetInv, CardsOK
<1> QED
  BY <1>3, <1>4, <1>5 DEF NetInv

\* What ServerNext promises of messages and grants.
ServerGoesOn == NetInv' /\ NetTypes'

\* A request that ends without a new grant, with or without an answer.
LEMMA AnswerGoesOn ==
    ASSUME TypeOK, IInv, NetInv, [GrantNext]_grantVars, NEW R,
           UNCHANGED <<card, trusted, handedTo, up, used>>, DOMAIN jobs' = DOMAIN jobs,
           serving' \in {serving, Nobody}, requests' = requests \ R,
           \A m \in answers' \ answers : TrueAnswer(m)
    PROVE  ServerGoesOn
<1>1. BodiesOK'
  BY SameBodies
<1>2. NetInv'
  BY <1>1, ServerMovesOK
<1>3. NetTypes'
  BY DEF TypeOK, NetTypes, TrueAnswer
<1> QED
  BY <1>2, <1>3 DEF ServerGoesOn

LEMMA ServeGrantGoesOn ==
    ASSUME TypeOK, IInv, NetInv, [GrantNext]_grantVars, NEW m \in requests, ServeGrant(m)
    PROVE  ServerGoesOn
<1>1. PICK g \in Grants :
         /\ Issue(g, m.body)
         /\ handedTo' = [handedTo EXCEPT ![g] = m.card]
         /\ Answered(m, Reply("issued", m, g, NoJob))
  BY DEF ServeGrant
<1>2. /\ g \notin used /\ used' = used \cup {g} /\ UNCHANGED <<up, jobs, serving>>
      /\ UNCHANGED <<card, trusted>> /\ requests' = requests \ {m}
  BY <1>1 DEF Issue, Answered, pageVars
<1> DEFINE a == Reply("issued", m, g, NoJob)
<1>3. /\ m.kind = "grant" /\ m.card \in Cards /\ card[m.card] # NoCard /\ m \in Message
      /\ \A h \in used : handedTo[h] # m.card
  BY MessageType DEF ServeGrant, NetInv, RequestsOK, TypeOK
<1>4. a \in Answer /\ a.card = m.card /\ a.grant = g /\ a.kind = "issued"
  BY <1>3 DEF Reply, Answer
<1>5. answers' \subseteq answers \cup {a}
  BY <1>1 DEF Answered
<1> HIDE DEF a
<1>6. /\ handedTo \in [Grants -> Cards \cup {NoCard}] /\ used \subseteq Grants
      /\ requests \subseteq Message /\ answers \subseteq Answer
  BY DEF TypeOK, GrantTypeOK
<1>7. handedTo'[g] = m.card /\ \A h \in used : handedTo'[h] = handedTo[h]
  BY <1>1, <1>2, <1>6
<1>8. handedTo' \in [Grants -> Cards \cup {NoCard}]
  BY <1>1, <1>3, <1>6
<1>9. NetTypes'
  BY <1>2, <1>4, <1>5, <1>6, <1>8 DEF TypeOK, NetTypes
<1>10. HandedOK'
  BY <1>2, <1>3, <1>7 DEF NetInv, HandedOK
<1>11. \A n \in requests' : n.kind = "grant" => n.card # m.card
  BY <1>2, <1>3, OneGrantRequest
<1>12. RequestsOK'
  BY <1>2, <1>7, <1>11 DEF NetInv, RequestsOK
<1>13. ASSUME NEW c, Unserved(c) PROVE Unserved(c)'
  BY <1>2, <1>3, <1>7, <1>13 DEF Unserved
<1>14. \A j \in DOMAIN jobs : CardOf(j)' = CardOf(j)
  BY <1>2, <1>7, JobsHaveGrants DEF CardOf
<1>15. AnswersOK'
  BY <1>2, <1>3, <1>4, <1>5, <1>7, <1>13, <1>14 DEF NetInv, AnswersOK
<1>16. BodiesOK'
  BY <1>2, <1>7, <1>14, JobsHaveGrants DEF NetInv, BodiesOK
<1>17. CardsOK'
  BY <1>2, <1>13, <1>14 DEF NetInv, CardsOK
<1> QED
  BY <1>9, <1>10, <1>12, <1>15, <1>16, <1>17 DEF NetInv, ServerGoesOn

LEMMA ServeGrantFullGoesOn ==
    ASSUME TypeOK, IInv, NetInv, [GrantNext]_grantVars, NEW m \in requests, ServeGrantFull(m)
    PROVE  ServerGoesOn
<1>1. /\ UNCHANGED <<grantVars, handedTo, card, trusted>> /\ requests' = requests \ {m}
      /\ answers' \subseteq answers \cup {Reply("full", m, NoGrant, NoJob)}
  BY DEF ServeGrantFull, Answered, pageVars
<1>2. /\ m.kind = "grant" /\ m.card \in Cards /\ card[m.card] # NoCard
      /\ \A g \in used : handedTo[g] # m.card
  BY MessageType DEF ServeGrantFull, NetInv, RequestsOK
<1>3. Unserved(m.card)'
  BY <1>1, <1>2, OneGrantRequest DEF Unserved, grantVars
<1>4. \A a \in answers' \ answers : TrueAnswer(a)
  BY <1>1, <1>2, <1>3 DEF TrueAnswer, Reply, Answer
<1>5. UNCHANGED <<up, used, jobs, serving>>
  BY <1>1 DEF grantVars
<1> QED
  BY <1>1, <1>4, <1>5, AnswerGoesOn

LEMMA ServeCommandGoesOn ==
    ASSUME TypeOK, IInv, NetInv, [GrantNext]_grantVars, NEW m \in requests, ServeCommand(m)
    PROVE  ServerGoesOn
<1>1. /\ UNCHANGED <<card, trusted, handedTo, up, used, jobs, requests, answers>>
      /\ serving' = [grant |-> m.grant, body |-> m.body, job |-> NoJob]
  BY DEF ServeCommand, Consume, pageVars, netVars
<1>2. m.body = card[m.card].body /\ handedTo[m.grant] = m.card
  BY DEF ServeCommand, NetInv, RequestsOK
<1>3. BodiesOK'
  BY <1>1, <1>2 DEF NetInv, BodiesOK, CardOf
<1>4. NetInv'
  BY <1>1, <1>3, ServerMovesOK
<1>5. NetTypes'
  BY <1>1 DEF TypeOK, NetTypes
<1> QED
  BY <1>4, <1>5 DEF ServerGoesOn

LEMMA ServeJobGoesOn ==
    ASSUME TypeOK, IInv, NetInv, [GrantNext]_grantVars, ServeJob PROVE ServerGoesOn
<1>1. PICK j \in Jobs : StartJob(j)
  BY DEF ServeJob
<1>2. /\ UNCHANGED <<card, trusted, handedTo, up, used, requests, answers>>
      /\ DOMAIN jobs' = DOMAIN jobs \cup {j} /\ \A i \in DOMAIN jobs : jobs'[i] = jobs[i]
      /\ j \notin DOMAIN jobs /\ serving # Nobody
      /\ jobs'[j] = [grant |-> serving.grant, body |-> serving.body, state |-> "Running"]
      /\ serving' = [serving EXCEPT !.job = j] /\ serving \in Request
  BY <1>1 DEF ServeJob, StartJob, With, pageVars, netVars, TypeOK, GrantTypeOK
<1>3. serving'.grant = serving.grant /\ serving'.body = serving.body
  BY <1>2 DEF Request
<1>4. BodiesOK'
  BY <1>2, <1>3 DEF NetInv, BodiesOK, CardOf
<1>5. NetInv'
  BY <1>2, <1>4, ServerMovesOK
<1>6. NetTypes'
  BY <1>2 DEF TypeOK, NetTypes
<1> QED
  BY <1>5, <1>6 DEF ServerGoesOn

LEMMA ServeAcceptedGoesOn ==
    ASSUME TypeOK, IInv, NetInv, [GrantNext]_grantVars, ServeAccepted PROVE ServerGoesOn
<1>1. /\ UNCHANGED <<card, trusted, handedTo, up, used, jobs>> /\ serving' = Nobody
      /\ requests' = requests \ Waiting /\ serving # Nobody /\ serving.job # NoJob
      /\ answers' \subseteq answers \cup {Reply("accepted", m, m.grant, serving.job) : m \in Waiting}
  BY DEF ServeAccepted, RecordJob, pageVars
<1>2. /\ serving.job \in DOMAIN jobs /\ serving.job \in Jobs
      /\ jobs[serving.job].grant = serving.grant
  BY <1>1, JobsHaveGrants DEF IInv, HandOK
<1>3. ASSUME NEW a \in answers' \ answers PROVE TrueAnswer(a)
  <2>1. PICK m \in Waiting : a = Reply("accepted", m, m.grant, serving.job)
    BY <1>1, <1>3
  <2>2. /\ m \in requests /\ m.kind = "command" /\ m.grant = serving.grant /\ m.card \in Cards
        /\ m.grant \in Grants \cup {NoGrant} /\ card[m.card] # NoCard /\ handedTo[m.grant] = m.card
    BY MessageType DEF Waiting, NetInv, RequestsOK
  <2> QED
    BY <1>2, <2>1, <2>2 DEF TrueAnswer, Reply, Answer, CardOf
<1> QED
  BY <1>1, <1>3, AnswerGoesOn
LEMMA OtherRequestsGoOn ==
    ASSUME TypeOK, IInv, NetInv, [GrantNext]_grantVars,
           \/ \E m \in requests : ServeWithout(m) \/ Drop(m)
           \/ ServeNoJob
           \/ \E t \in Tickets : ServeStatus(t)
    PROVE  ServerGoesOn
<1>1. ASSUME NEW m \in requests, ServeWithout(m) \/ Drop(m) PROVE ServerGoesOn
  <2>1. UNCHANGED <<up, used, jobs, serving>>
    BY <1>1 DEF ServeWithout, Drop, Expire, Cancel, grantVars
  <2>2. UNCHANGED <<card, trusted, handedTo, answers>> /\ requests' = requests \ {m}
    BY <1>1 DEF ServeWithout, Drop, pageVars
  <2> QED
    BY <2>1, <2>2, AnswerGoesOn
<1>2. CASE ServeNoJob
  BY <1>2, AnswerGoesOn DEF ServeNoJob, StartFails, pageVars
<1>3. ASSUME NEW t \in Tickets, ServeStatus(t) PROVE ServerGoesOn
  <2>1. /\ UNCHANGED <<card, trusted, handedTo, answers, up, used, jobs, serving>>
        /\ requests' = requests \ {}
    BY <1>3 DEF ServeStatus, netVars, grantVars
  <2> QED
    BY <2>1, AnswerGoesOn
<1> QED
  BY <1>1, <1>2, <1>3

LEMMA OtherEventsGoOn ==
    ASSUME TypeOK, IInv, NetInv, [GrantNext]_grantVars, OpenServer \/ CloseServer \/ Passing
    PROVE  ServerGoesOn
<1>1. CASE OpenServer
  <2>1. UNCHANGED <<card, trusted, handedTo, requests, answers, used, jobs, serving>> /\ up' = TRUE
    BY <1>1 DEF OpenServer, Open, pageVars, netVars
  <2>2. NetInv'
    BY <2>1, SameBodies, ServerMovesOK
  <2>3. NetTypes'
    BY <2>1 DEF TypeOK, NetTypes
  <2> QED
    BY <2>2, <2>3 DEF ServerGoesOn
<1>2. CASE CloseServer
  <2>1. /\ UNCHANGED <<card, handedTo, answers, used>> /\ serving' = Nobody /\ requests' = {}
        /\ trusted' = FALSE /\ DOMAIN jobs' = DOMAIN jobs
    BY <1>2 DEF CloseServer, Close
  <2>2. NetInv'
    BY <2>1, SameBodies, ServerMovesOK
  <2>3. NetTypes'
    BY <2>1 DEF TypeOK, NetTypes
  <2> QED
    BY <2>2, <2>3 DEF ServerGoesOn
<1>3. CASE Passing
  <2>1. /\ UNCHANGED <<card, trusted, handedTo, answers, up, used, serving>>
        /\ requests' = requests \ {} /\ DOMAIN jobs' = DOMAIN jobs
    BY <1>3 DEF Passing, Age, JobEnds, pageVars, netVars
  <2> QED
    BY <2>1, AnswerGoesOn
<1> QED
  BY <1>1, <1>2, <1>3

\* The server changes nothing of the page but whom it trusts and the status
\* answers under way.
LEMMA ServerLeavesPage ==
    ASSUME TypeOK, ServerNext
    PROVE  /\ UNCHANGED <<card, gone, held, optimistic, observed, asking, pages>>
           /\ \/ UNCHANGED snapshots
              \/ \E t \in Tickets : ServeStatus(t)
<1>1. ASSUME NEW m \in requests,
             ServeGrant(m) \/ ServeGrantFull(m) \/ ServeCommand(m) \/ ServeWithout(m) \/ Drop(m)
      PROVE  UNCHANGED <<pageVars, pages>>
  BY <1>1 DEF ServeGrant, ServeGrantFull, ServeCommand, ServeWithout, Drop, Answered
<1>2. CASE ServeJob \/ ServeNoJob \/ ServeAccepted \/ OpenServer \/ Passing
  BY <1>2 DEF ServeJob, ServeNoJob, ServeAccepted, OpenServer, Passing, pageVars
<1>3. CASE CloseServer
  BY <1>3 DEF CloseServer
<1>4. ASSUME NEW t \in Tickets, ServeStatus(t)
      PROVE  UNCHANGED <<card, gone, held, optimistic, observed, asking, pages>>
  BY <1>4 DEF ServeStatus
<1> QED
  BY <1>1, <1>2, <1>3, <1>4 DEF ServerNext, pageVars

\* The server keeps the types and NetInv.
LEMMA ServerKeeps == ASSUME TypeOK, IInv, NetInv, ServerNext PROVE TypeOK' /\ NetInv'
<1>1. [GrantNext]_grantVars
  BY ServerActsOnGrants
<1>2. GrantTypeOK'
  BY <1>1, StepHolds DEF IInv
<1>3. ServerGoesOn
  BY <1>1, ServeGrantGoesOn, ServeGrantFullGoesOn, ServeCommandGoesOn, ServeJobGoesOn,
     ServeAcceptedGoesOn, OtherRequestsGoOn, OtherEventsGoOn DEF ServerNext
<1>4. PageTypes'
  <2>1. /\ UNCHANGED <<card, gone, held, optimistic, observed, asking>>
        /\ DOMAIN snapshots' \subseteq asking
    <3>1. ASSUME NEW t \in Tickets, ServeStatus(t) PROVE DOMAIN snapshots' \subseteq asking
      BY <3>1 DEF ServeStatus, With, TypeOK
    <3> QED
      BY <3>1, ServerLeavesPage DEF TypeOK
  <2> QED
    BY <2>1, TypeParts DEF PageTypes, Current
<1>5. TypeOK'
  BY <1>2, <1>3, <1>4 DEF TypeOK, PageTypes, NetTypes, ServerGoesOn
<1> QED
  BY <1>3, <1>5 DEF ServerGoesOn

-----------------------------------------------------------------------------
(* What the page knows of jobs.                                            *)

\* The server keeps PollInv: jobs that have ended stay as they are.
LEMMA ServerKeepsPoll == ASSUME TypeOK, PollInv, ServerNext PROVE PollInv'
<1>1. /\ UNCHANGED <<observed, asking>> /\ DOMAIN jobs \subseteq DOMAIN jobs'
      /\ \A j \in DOMAIN jobs : jobs[j].state \in Ended => jobs'[j].state = jobs[j].state
  BY ServerLeavesPage, ServerActsOnGrants, GrantsGrow DEF TypeOK
<1>2. OnePoll' /\ ShownOK'
  BY <1>1 DEF PollInv, OnePoll, ShownOK
<1>3. CASE UNCHANGED snapshots
  BY <1>1, <1>2, <1>3 DEF PollInv, SnapshotsOK
<1>4. ASSUME NEW t \in Tickets, ServeStatus(t) PROVE SnapshotsOK'
  <2>1. /\ UNCHANGED <<jobs, observed>> /\ listed \subseteq DOMAIN jobs
        /\ \A j \in DOMAIN jobs : j \in Jobs /\ jobs[j].state \in {"Running"} \cup Ended
    BY <1>4 DEF ServeStatus, grantVars, TypeOK, GrantTypeOK, JobRecord
  <2>2. PICK s :
           /\ snapshots' = With(snapshots, t, s) /\ DOMAIN s = listed
           /\ \A j \in listed : s[j] = jobs[j].state
    BY <1>4 DEF ServeStatus
  <2>3. /\ DOMAIN snapshots' = DOMAIN snapshots \cup {t}
        /\ \A u \in DOMAIN snapshots' : snapshots'[u] = IF u = t THEN s ELSE snapshots[u]
    BY <2>2 DEF With
  <2> SUFFICES ASSUME NEW u \in DOMAIN snapshots'
               PROVE  /\ DOMAIN snapshots'[u] \subseteq DOMAIN jobs
                      /\ \A j \in DOMAIN snapshots'[u] :
                            /\ snapshots'[u][j] \in {"Running"} \cup Ended
                            /\ snapshots'[u][j] \in Ended => jobs[j].state = snapshots'[u][j]
                            /\ observed[j] \in Ended => snapshots'[u][j] = observed[j]
    BY <2>1 DEF SnapshotsOK
  <2>4. CASE u = t
    <3>1. snapshots'[u] = s
      BY <2>3, <2>4
    <3> QED
      BY <2>1, <2>2, <3>1 DEF PollInv, ShownOK
  <2>5. CASE u # t
    <3>1. u \in DOMAIN snapshots /\ snapshots'[u] = snapshots[u]
      BY <2>3, <2>5
    <3> QED
      BY <3>1 DEF PollInv, SnapshotsOK
  <2> QED
    BY <2>4, <2>5
<1> QED
  BY <1>2, <1>3, <1>4, ServerLeavesPage DEF PollInv
\* The page keeps what it knows of ends; with one status request at a time, no
\* older answer is under way when it learns one.
LEMMA PageKeepsPoll ==
    ASSUME TypeOK, TypeOK', PollInv, PageNext
    PROVE  /\ PollInv'
           /\ \A j \in Jobs : observed[j] \in Ended /\ ~OpenPage => observed'[j] = observed[j]
<1> UNCHANGED jobs
  BY PageKeepsGrants DEF grantVars
<1>1. CASE UNCHANGED <<observed, asking, snapshots>>
  BY <1>1 DEF PollInv, OnePoll, SnapshotsOK, ShownOK
<1>2. CASE /\ UNCHANGED <<observed, snapshots>> /\ MayAsk /\ asking' = asking \cup {NextTicket}
  BY <1>2 DEF MayAsk, PollInv, OnePoll, SnapshotsOK, ShownOK
<1>3. ASSUME NEW t \in Tickets, ReceiveStatus(t) \/ StatusFails(t),
             \A j \in Jobs : observed[j] \in Ended => observed'[j] = observed[j],
             \A j \in Jobs : observed'[j] \in Ended => j \in DOMAIN jobs /\ jobs[j].state = observed'[j]
      PROVE  PollInv' /\ \A j \in Jobs : observed[j] \in Ended => observed'[j] = observed[j]
  <2>1. asking' = asking \ {t} /\ t \in asking
    BY <1>3 DEF ReceiveStatus, StatusFails
  <2>2. asking' = {} /\ DOMAIN snapshots' = {}
    BY <2>1 DEF PollInv, OnePoll, TypeOK
  <2> QED
    BY <1>3, <2>2 DEF PollInv, OnePoll, SnapshotsOK, ShownOK
<1>4. ASSUME NEW t \in Tickets, ReceiveStatus(t)
      PROVE  /\ \A j \in Jobs : observed[j] \in Ended => observed'[j] = observed[j]
             /\ \A j \in Jobs : observed'[j] \in Ended => j \in DOMAIN jobs /\ jobs[j].state = observed'[j]
  BY <1>4 DEF ReceiveStatus, StatusOf, PollInv, SnapshotsOK, ShownOK, Ended
<1>5. ASSUME NEW t \in Tickets, StatusFails(t)
      PROVE  /\ \A j \in Jobs : observed[j] \in Ended => observed'[j] = observed[j]
             /\ \A j \in Jobs : observed'[j] \in Ended => j \in DOMAIN jobs /\ jobs[j].state = observed'[j]
  BY <1>5 DEF StatusFails, Disconnected, PollInv, ShownOK, Ended
<1>6. CASE OpenPage
  BY <1>6, EmptyDomain DEF OpenPage, PollInv, OnePoll, SnapshotsOK, ShownOK, Ended
<1>7. ASSUME NEW c \in Cards, NEW b \in Bodies,
             Submit(c, b) \/ Unconfirmed(c) \/ Rejected(c) \/ ReceiveGrant(c)
      PROVE  UNCHANGED <<observed, asking, snapshots>>
  BY <1>7 DEF Submit, Unconfirmed, Rejected, ReceiveGrant, SendWith
<1>8. ASSUME NEW c \in Cards, ReceiveAccepted(c)
      PROVE  \/ UNCHANGED <<observed, asking, snapshots>>
             \/ UNCHANGED <<observed, snapshots>> /\ MayAsk /\ asking' = asking \cup {NextTicket}
  BY <1>8 DEF ReceiveAccepted
<1>9. CASE AskStatus
  BY <1>2, <1>9 DEF AskStatus
<1>10. ASSUME NEW c \in Cards, Unconfirmed(c) \/ Rejected(c) \/ ReceiveGrant(c)
       PROVE  UNCHANGED <<observed, asking, snapshots>>
  BY <1>10 DEF Unconfirmed, Rejected, ReceiveGrant, SendWith
<1> QED
  BY <1>1, <1>2, <1>3, <1>4, <1>5, <1>6, <1>7, <1>8, <1>9, <1>10 DEF PageNext

-----------------------------------------------------------------------------
(* Which keys are taken.                                                   *)

LEMMA ServerKeepsKeys == ASSUME TypeOK, NetInv, KeysOK, ServerNext PROVE KeysOK'
<1>1. /\ UNCHANGED <<card, gone, held>>
      /\ \A j \in DOMAIN jobs : jobs[j].state \in Ended => jobs'[j].state = jobs[j].state
  BY ServerLeavesPage, ServerActsOnGrants, GrantsGrow DEF TypeOK
<1> QED
  BY <1>1 DEF KeysOK, Key, Current, NetInv, CardsOK

\* No submission is new, and a key is given back only when its job has ended.
LEMMA KeysGoOn ==
    ASSUME TypeOK, KeysOK, UNCHANGED <<gone, jobs>>,
           \A c \in Cards : IF card[c] = NoCard THEN card'[c] = NoCard
                            ELSE /\ card'[c] # NoCard /\ card'[c].body = card[c].body
                                 /\ c \notin held => card'[c].id = card[c].id,
           held' \subseteq held,
           \A c \in held \ held' : card'[c].id # NoJob /\ jobs[card'[c].id].state \in Ended
    PROVE  KeysOK'
<1>1. Current' = Current
  BY DEF Current
<1>2. \A c \in held : Key(c)' = Key(c)
  BY DEF Key, TypeOK, Current
<1>3. \A c \in Current \ held : card'[c].id # NoJob /\ jobs[card'[c].id].state \in Ended
  BY DEF KeysOK, Current
<1> QED
  BY <1>1, <1>2, <1>3 DEF KeysOK

\* What is released has ended: the page shows no end that is not one.
LEMMA ReleasedEnded ==
    ASSUME TypeOK, TypeOK', ShownOK', UNCHANGED jobs, NEW c \in Released(card', observed'),
           \A d \in Cards : card[d] # NoCard => card'[d] # NoCard
    PROVE  card'[c].id # NoJob /\ jobs[card'[c].id].state \in Ended
<1>1. c \in Cards /\ card'[c] \in Card /\ card'[c].id # NoJob /\ observed'[card'[c].id] \in Ended
  BY DEF Released, TypeOK, Current
<1>2. card'[c].id \in Jobs
  BY <1>1 DEF Card
<1> QED
  BY <1>1, <1>2 DEF ShownOK
LEMMA SubmitKeepsKeys ==
    ASSUME TypeOK, KeysOK, NEW c \in Cards, NEW b \in Bodies, Submit(c, b) PROVE KeysOK'
<1> DEFINE r == [body |-> b, state |-> "Submitting", id |-> NoJob, await |-> "grant", receipt |-> NoGrant]
<1>1. /\ card[c] = NoCard /\ card' = [card EXCEPT ![c] = r] /\ held' = held \cup {c} /\ r.body = b
      /\ UNCHANGED <<gone, jobs>> /\ KeyIsFree(b)
  BY DEF Submit, grantVars
<1> HIDE DEF r
<1>2. card \in [Cards -> Card \cup {NoCard}] /\ c \notin held /\ held \subseteq Cards
  BY <1>1 DEF TypeOK, Current
<1>3. card'[c] = r /\ \A d \in Cards : d # c => card'[d] = card[d]
  BY <1>1, <1>2
<1>4. Key(c)' = KeyOf[b] /\ \A d \in held : Key(d)' = Key(d) /\ Key(d) # KeyOf[b]
  BY <1>1, <1>2, <1>3 DEF Key, KeyIsFree
<1>5. \A d \in Current' \ held' : d \in Current \ held /\ card'[d] = card[d]
  BY <1>1, <1>3 DEF Current
<1> QED
  BY <1>1, <1>4, <1>5 DEF KeysOK

\* Only a submission whose key is held waits for a job.
LEMMA WaitersHoldKeys ==
    ASSUME NetInv, KeysOK, NEW c \in Current, card[c].await # "nothing" PROVE c \in held
BY DEF KeysOK, NetInv, CardsOK, Current

LEMMA PageKeepsKeys ==
    ASSUME TypeOK, TypeOK', IInv, NetInv, PollInv, PollInv', KeysOK, PageNext PROVE KeysOK'
<1> UNCHANGED jobs
  BY PageKeepsGrants DEF grantVars
<1>1. ASSUME NEW c \in Cards, Unconfirmed(c) \/ Rejected(c) \/ ReceiveGrant(c) PROVE KeysOK'
  <2>1. PICK r : /\ card' = [card EXCEPT ![c] = r] /\ r \in Card /\ r.body = card[c].body
                 /\ r.id = card[c].id
    <3>1. c \in Current /\ card[c] # NoCard /\ card[c] \in Card
      BY <1>1, CardType DEF Unconfirmed, Rejected, ReceiveGrant, Current
    <3>2. CASE Unconfirmed(c)
      <4> DEFINE r == [card[c] EXCEPT !.state = "Unknown", !.await = "nothing"]
      <4>1. card' = [card EXCEPT ![c] = r]
        BY <3>2 DEF Unconfirmed, Failed
      <4>2. r \in Card /\ r.body = card[c].body /\ r.id = card[c].id
        BY <3>1 DEF Card, Shown, Await
      <4> QED
        BY <4>1, <4>2
    <3>3. CASE Rejected(c)
      <4> DEFINE r == [card[c] EXCEPT !.state = "Rejected", !.await = "nothing"]
      <4>1. card' = [card EXCEPT ![c] = r]
        BY <3>1, <3>3 DEF Rejected, TypeOK
      <4>2. r \in Card /\ r.body = card[c].body /\ r.id = card[c].id
        BY <3>1 DEF Card, Shown, Await
      <4> QED
        BY <4>1, <4>2
    <3>4. CASE ReceiveGrant(c)
      <4>1. PICK m \in AnswersTo(c), kind \in {"command", "cancel"} : SendWith(c, m, kind)
        BY <3>4 DEF ReceiveGrant
      <4> DEFINE r == [card[c] EXCEPT !.await = kind, !.receipt = m.grant]
      <4>2. card' = [card EXCEPT ![c] = r]
        BY <3>1, <4>1 DEF SendWith, TypeOK
      <4>3. m.grant \in Grants \cup {NoGrant}
        BY <4>1 DEF AnswersTo, TypeOK, Answer
      <4>4. r \in Card /\ r.body = card[c].body /\ r.id = card[c].id
        BY <3>1, <4>3 DEF Card, Await
      <4> QED
        BY <4>2, <4>4
    <3> QED
      BY <1>1, <3>2, <3>3, <3>4
  <2>2. UNCHANGED <<held, gone>> /\ c \in Current
    BY <1>1 DEF Unconfirmed, Rejected, ReceiveGrant, SendWith
  <2>3. \A d \in Cards : card'[d] = IF d = c THEN r ELSE card[d]
    BY <2>1 DEF TypeOK
  <2> QED
    BY <2>1, <2>2, <2>3, KeysGoOn, NoCardAssumption DEF Current
<1>2. ASSUME NEW c \in Cards, ReceiveAccepted(c) PROVE KeysOK'
  <2>1. c \in Current /\ c \in held /\ card[c] \in Card
    BY <1>2, WaitersHoldKeys, CardType DEF ReceiveAccepted, Current
  <2>2. PICK m \in AnswersTo(c) :
           card' = [card EXCEPT ![c].state = "Accepted", ![c].await = "nothing", ![c].id = m.job]
    BY <1>2 DEF ReceiveAccepted
  <2> DEFINE r == [card[c] EXCEPT !.state = "Accepted", !.await = "nothing", !.id = m.job]
  <2>3. card' = [card EXCEPT ![c] = r] /\ r.body = card[c].body
    BY <2>1, <2>2 DEF TypeOK, Card
  <2>4. m.job \in Jobs \cup {NoJob}
    BY DEF AnswersTo, TypeOK, Answer
  <2>5. r \in Card
    BY <2>1, <2>4 DEF Card, Shown, Await
  <2> HIDE DEF r
  <2>6. \A d \in Cards : card'[d] = IF d = c THEN r ELSE card[d]
    BY <2>3 DEF TypeOK
  <2>7. \A d \in Cards : IF card[d] = NoCard THEN card'[d] = NoCard
                         ELSE /\ card'[d] # NoCard /\ card'[d].body = card[d].body
                              /\ d \notin held => card'[d].id = card[d].id
    BY <2>1, <2>3, <2>5, <2>6, NoCardAssumption DEF Current
  <2>8. held' = held \ Released(card', observed') /\ UNCHANGED gone
    BY <1>2 DEF ReceiveAccepted
  <2>9. \A d \in held \ held' : card'[d].id # NoJob /\ jobs[card'[d].id].state \in Ended
    BY <2>7, <2>8, ReleasedEnded DEF PollInv
  <2> QED
    BY <2>7, <2>8, <2>9, KeysGoOn
<1>3. ASSUME NEW C \in SUBSET optimistic, NEW s \in Shown, card' = Doubted(C, s),
             held' = held \ Released(card', observed'), UNCHANGED gone
      PROVE  KeysOK'
  <2>1. \A c \in Cards : IF card[c] = NoCard THEN card'[c] = NoCard
                         ELSE /\ card'[c] # NoCard /\ card'[c].body = card[c].body
                              /\ card'[c].id = card[c].id
    BY <1>3, DoubtedType, NoCardAssumption DEF TypeOK
  <2>2. \A d \in held \ held' : card'[d].id # NoJob /\ jobs[card'[d].id].state \in Ended
    BY <1>3, <2>1, ReleasedEnded DEF PollInv
  <2> QED
    BY <1>3, <2>1, <2>2, KeysGoOn
<1>4. ASSUME NEW t \in Tickets, ReceiveStatus(t) PROVE KeysOK'
  <2> DEFINE C == {c \in optimistic : card[c].id \notin DOMAIN snapshots[t]}
  <2>1. card' = Doubted(C, "Unknown") /\ held' = held \ Released(card', observed') /\ UNCHANGED gone
    BY <1>4 DEF ReceiveStatus
  <2> QED
    BY <1>3, <2>1 DEF Shown
<1>5. ASSUME NEW t \in Tickets, StatusFails(t) PROVE KeysOK'
  BY <1>3, <1>5 DEF StatusFails, Shown
<1>6. CASE AskStatus
  BY <1>6 DEF AskStatus, KeysOK, Key, Current
<1>7. CASE OpenPage
  BY <1>7 DEF OpenPage, KeysOK, Current
<1> QED
  BY <1>1, <1>2, <1>4, <1>5, <1>6, <1>7, SubmitKeepsKeys DEF PageNext

-----------------------------------------------------------------------------
(* The invariant, and the theorems.                                        *)

LEMMA SubInit == Init => SubInv
<1> SUFFICES ASSUME Init PROVE SubInv
  OBVIOUS
<1>1. IInv
  BY InitHolds DEF Init
<1>2. used = {} /\ DOMAIN jobs = {} /\ serving = Nobody /\ DOMAIN snapshots = {}
  BY EmptyDomain DEF Init, GrantInit
<1>3. \A c \in Cards : card[c] = NoCard
  BY DEF Init
<1>4. Current = {}
  BY <1>3 DEF Current
<1>5. TypeOK
  BY <1>1, <1>2 DEF Init, TypeOK, IInv, Observed
<1>6. NetInv
  BY <1>2, <1>3 DEF Init, NetInv, HandedOK, RequestsOK, AnswersOK, BodiesOK, CardsOK
<1>7. PollInv /\ KeysOK /\ PagesOK
  BY <1>2, <1>4 DEF Init, PollInv, OnePoll, SnapshotsOK, ShownOK, KeysOK, Ended, PagesOK
<1> QED
  BY <1>1, <1>5, <1>6, <1>7 DEF SubInv

LEMMA SubStep == SubInv /\ [Next]_vars => SubInv'
<1> SUFFICES ASSUME SubInv, [Next]_vars PROVE SubInv'
  OBVIOUS
<1> USE DEF SubInv
<1>1. IInv'
  BY GrantStep, StepHolds
<1>2. CASE PageNext
  <2>1. TypeOK' /\ NetInv'
    BY <1>2, PageKeeps
  <2>2. PollInv'
    BY <1>2, <2>1, PageKeepsPoll
  <2>3. KeysOK'
    BY <1>2, <2>1, <2>2, PageKeepsKeys
  <2>4. pages' \in {pages, pages + 1}
    BY <1>2 DEF PageNext, Submit, Unconfirmed, Rejected, ReceiveGrant, SendWith, ReceiveAccepted,
                AskStatus, ReceiveStatus, StatusFails, OpenPage
  <2> QED
    BY <1>1, <2>1, <2>2, <2>3, <2>4 DEF PagesOK
<1>3. CASE ServerNext
  BY <1>1, <1>3, ServerKeeps, ServerKeepsPoll, ServerKeepsKeys, ServerLeavesPage DEF PagesOK
<1>4. CASE UNCHANGED vars
  <2>1. TypeOK'
    BY <1>4 DEF TypeOK, GrantTypeOK, Current, vars, grantVars, pageVars, netVars
  <2>2. NetInv'
    BY <1>4 DEF NetInv, HandedOK, RequestsOK, AnswersOK, BodiesOK, CardsOK, Unserved, CardOf, vars,
                grantVars, pageVars, netVars
  <2>3. PollInv' /\ KeysOK' /\ PagesOK'
    BY <1>4 DEF PollInv, OnePoll, SnapshotsOK, ShownOK, KeysOK, Key, Current, PagesOK, vars, grantVars,
                pageVars
  <2> QED
    BY <1>1, <2>1, <2>2, <2>3
<1> QED
  BY <1>2, <1>3, <1>4 DEF Next

LEMMA SubInvariance == Spec => []SubInv
BY SubInit, SubStep, PTL DEF Spec
\* Page, server, messages and jobs keep their types; every card, key and
\* answer is of a submission that exists.
THEOREM SubmissionTypeCorrect == Spec => []TypeOK
<1>1. SubInv => TypeOK
  BY DEF SubInv
<1> QED
  BY <1>1, SubInvariance, PTL

\* A submission starts at most one job, however often its answer is lost: it
\* has one grant at most, and a grant starts one job.
THEOREM SubmissionsAreSingle == Spec => []OneJobPerSubmission
<1>1. SubInv => OneJobPerSubmission
  BY DEF SubInv, IInv, OneJobPerGrant, UsedOK, NetInv, HandedOK, OneJobPerSubmission, CardOf
<1> QED
  BY <1>1, SubInvariance, PTL

\* A card says Accepted only of a job the server has started for it and with
\* its body, and Rejected only of a command that never started one.
THEOREM AnswersAreTrueAlways == Spec => []AnswersAreTrue
<1>1. SubInv => AnswersAreTrue
  BY DEF SubInv, IInv, UsedOK, NetInv, CardsOK, BodiesOK, Unserved, Current, AnswersAreTrue, CardOf
<1> QED
  BY <1>1, SubInvariance, PTL

\* No two jobs of this page run for one key: a key is given back only after
\* the page has learnt of the end of its job, and what it learns is true.
THEOREM KeysAreExclusive == Spec => []OneLiveJobPerKey
<1>1. ASSUME SubInv PROVE OneLiveJobPerKey
  <2>1. ASSUME NEW i \in DOMAIN jobs, Live(i), CardOf(i) \in Current PROVE CardOf(i) \in held
    <3>1. /\ card[CardOf(i)].id # NoJob => /\ card[CardOf(i)].id \in DOMAIN jobs
                                            /\ CardOf(card[CardOf(i)].id) = CardOf(i)
      BY <1>1, <2>1 DEF SubInv, NetInv, CardsOK, Current
    <3>2. card[CardOf(i)].id # NoJob => card[CardOf(i)].id = i
      BY <1>1, <2>1, <3>1 DEF SubInv, IInv, OneJobPerGrant, UsedOK, NetInv, HandedOK, CardOf
    <3> QED
      BY <1>1, <2>1, <3>2 DEF SubInv, KeysOK, Live, Ended
  <2> QED
    BY <1>1, <2>1 DEF SubInv, IInv, OneJobPerGrant, UsedOK, NetInv, HandedOK, KeysOK, OneLiveJobPerKey,
                      CardOf
<1> QED
  BY <1>1, SubInvariance, PTL

\* A final state the page shows is the job's final state.
THEOREM ShownEndsAreTrue == Spec => []ShownEndIsTrue
<1>1. SubInv => ShownEndIsTrue
  BY DEF SubInv, PollInv, ShownOK, ShownEndIsTrue
<1> QED
  BY <1>1, SubInvariance, PTL

\* As long as the page stays open, no late status answer takes a final state
\* back that it shows.
THEOREM ShownEndsStay == Spec => ShownEndStays
<1> DEFINE Stay == \A j \in Jobs : observed[j] \in Ended /\ pages' = pages => observed'[j] = observed[j]
<1>1. ASSUME SubInv, SubInv', [Next]_vars PROVE [Stay]_vars
  <2>1. CASE PageNext
    <3>1. OpenPage => pages' # pages
      BY <1>1 DEF OpenPage, SubInv, PagesOK
    <3> QED
      BY <1>1, <2>1, <3>1, PageKeepsPoll DEF SubInv
  <2>2. CASE ServerNext
    BY <1>1, <2>2, ServerLeavesPage DEF SubInv
  <2>3. CASE UNCHANGED vars
    BY <2>3
  <2> QED
    BY <1>1, <2>1, <2>2, <2>3 DEF Next
<1> QED
  BY <1>1, SubInvariance, PTL DEF Spec, ShownEndStays

\* Page and server together accept every grant once, as AcceptOnce says.
THEOREM SubmissionsAcceptOnce == Spec => ImplementsAcceptOnce
<1>1. Init => GrantInit
  BY DEF Init
<1>2. SubInv /\ [Next]_vars => [GrantNext]_grantVars
  BY GrantStep DEF SubInv
<1>3. Spec => GrantSpec
  BY <1>1, <1>2, SubInvariance, PTL DEF Spec, GrantSpec
<1> QED
  BY <1>3, GrantsImplementAcceptOnce
=============================================================================
