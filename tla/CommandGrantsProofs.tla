-------------------------- MODULE CommandGrantsProofs --------------------------
(***************************************************************************)
(* Proofs about CommandGrants, for any number of grants, bodies and jobs   *)
(* and any quota.                                                          *)
(*                                                                         *)
(* None of the properties is inductive alone: that a grant starts one job  *)
(* rests on what is in hand between the use of a grant and the record of   *)
(* its job, and on the fact that a server that has ended leaves nothing in *)
(* hand.  HandOK says that, UsedOK that a job's grant is never new again.  *)
(***************************************************************************)
EXTENDS CommandGrants, FiniteSetTheorems, TLAPS

\* The command in hand has a consumed receipt; its job, if it has been started,
\* runs its body.
HandOK ==
    serving # Nobody =>
        /\ up
        /\ serving.grant \in DOMAIN receipts
        /\ receipts[serving.grant].state = "CONSUMED"
        /\ receipts[serving.grant].body = serving.body
        /\ serving.job = NoJob => ~HasJob(serving.grant)
        /\ serving.job # NoJob => /\ serving.job \in DOMAIN jobs
                                  /\ jobs[serving.job].grant = serving.grant
                                  /\ jobs[serving.job].body = serving.body

UsedOK == \A j \in DOMAIN jobs : jobs[j].grant \in used
DownOK == ~up => receipts = Empty /\ serving = Nobody

IInv == GrantTypeOK /\ HandOK /\ UsedOK /\ DownOK /\ OneJobPerGrant /\ ReceiptIsTrue

-----------------------------------------------------------------------------

LEMMA EmptyDomain == DOMAIN Empty = {}
BY DEF Empty

LEMMA WithDomain == ASSUME NEW f, NEW g, NEW x PROVE DOMAIN With(f, g, x) = DOMAIN f \cup {g}
BY DEF With

LEMMA WithValue ==
    ASSUME NEW f, NEW g, NEW x, NEW h \in DOMAIN f \cup {g}
    PROVE  With(f, g, x)[h] = IF h = g THEN x ELSE f[h]
BY DEF With

LEMMA InitHolds == GrantInit => IInv
<1>1. DOMAIN Empty = {}
  BY EmptyDomain
<1> QED
  BY <1>1 DEF GrantInit, IInv, GrantTypeOK, HandOK, UsedOK, DownOK, OneJobPerGrant, ReceiptIsTrue

\* A step that changes the state of one receipt that is not in hand before nor
\* after, and is neither accepted nor consumed then, keeps the invariant.
LEMMA ReceiptStep ==
    ASSUME IInv, NEW g \in DOMAIN receipts, Idle, IsIssued(g),
           NEW s \in {"EXPIRED", "CANCELLED"}, SetState(g, s),
           UNCHANGED <<up, aged, used, serving, jobs, listed>>
    PROVE  IInv'
<1> USE DEF IInv, Idle, SetState, IsIssued, ReceiptState, Receipt
<1>1. DOMAIN receipts' = DOMAIN receipts
  OBVIOUS
<1>2. \A h \in DOMAIN receipts : receipts'[h] = IF h = g THEN [receipts[g] EXCEPT !.state = s]
                                               ELSE receipts[h]
  OBVIOUS
<1>3. receipts'[g] \in Receipt /\ receipts'[g].state = s
  BY <1>2 DEF GrantTypeOK
<1>4. GrantTypeOK'
  BY <1>1, <1>2, <1>3 DEF GrantTypeOK
<1>5. HandOK' /\ UsedOK' /\ OneJobPerGrant'
  BY DEF HandOK, UsedOK, OneJobPerGrant
<1>6. DownOK'
  BY DEF DownOK
<1>7. ReceiptIsTrue'
  BY <1>1, <1>2, <1>3 DEF ReceiptIsTrue, HasJob, InHand
<1> QED
  BY <1>4, <1>5, <1>6, <1>7

\* The steps that neither start nor end a job and leave the receipts alone.
LEMMA TimeStep == ASSUME IInv, NEW g \in Grants, Age(g) PROVE IInv'
<1>1. GrantTypeOK'
  BY DEF IInv, GrantTypeOK, Age
<1>2. HandOK' /\ UsedOK' /\ DownOK' /\ OneJobPerGrant' /\ ReceiptIsTrue'
  BY DEF IInv, HandOK, UsedOK, DownOK, OneJobPerGrant, ReceiptIsTrue, HasJob, InHand, Age
<1> QED
  BY <1>1, <1>2 DEF IInv

LEMMA OpenStep == ASSUME IInv, Open PROVE IInv'
<1>1. DOMAIN receipts' = {}
  BY EmptyDomain DEF Open
<1>2. serving' = Nobody /\ jobs' = jobs
  BY DEF Open, IInv, DownOK
<1>3. GrantTypeOK'
  BY <1>1, <1>2 DEF Open, IInv, GrantTypeOK
<1>4. HandOK' /\ UsedOK' /\ DownOK' /\ OneJobPerGrant' /\ ReceiptIsTrue'
  BY <1>1, <1>2 DEF Open, IInv, HandOK, UsedOK, DownOK, OneJobPerGrant, ReceiptIsTrue
<1> QED
  BY <1>3, <1>4 DEF IInv

\* Ending the server stops its jobs, but every job keeps its grant.
LEMMA CloseStep == ASSUME IInv, Close PROVE IInv'
<1>1. DOMAIN receipts' = {} /\ receipts' = Empty /\ serving' = Nobody
  BY EmptyDomain DEF Close
<1>2. DOMAIN jobs' = DOMAIN jobs
  BY DEF Close
<1>3. \A j \in DOMAIN jobs : jobs'[j] \in JobRecord /\ jobs'[j].grant = jobs[j].grant
  BY DEF Close, StoppedJob, IInv, GrantTypeOK, JobRecord, Ended
<1>4. GrantTypeOK'
  BY <1>1, <1>2, <1>3 DEF Close, IInv, GrantTypeOK
<1>5. HandOK' /\ UsedOK' /\ DownOK' /\ OneJobPerGrant' /\ ReceiptIsTrue'
  BY <1>1, <1>2, <1>3 DEF Close, IInv, HandOK, UsedOK, DownOK, OneJobPerGrant, ReceiptIsTrue
<1> QED
  BY <1>4, <1>5 DEF IInv

\* A grant handed out is new, so no job was ever started with it.
LEMMA IssueStep == ASSUME IInv, NEW g \in Grants, NEW b \in Bodies, Issue(g, b) PROVE IInv'
<1> DEFINE r == [state |-> "ISSUED", body |-> b, job |-> NoJob]
<1>1. receipts' = With(receipts, g, r) /\ used' = used \cup {g} /\ serving = Nobody
  BY DEF Issue, Idle
<1>2. DOMAIN receipts' = DOMAIN receipts \cup {g}
  BY <1>1, WithDomain
<1>3. \A h \in DOMAIN receipts' : receipts'[h] = IF h = g THEN r ELSE receipts[h]
  BY <1>1, <1>2, WithValue
<1>4. r \in Receipt /\ r.state = "ISSUED"
  BY DEF Receipt, ReceiptState
<1>5. ~HasJob(g)
  BY DEF HasJob, Issue, IInv, UsedOK
<1> HIDE DEF r
<1>6. GrantTypeOK'
  <2>1. \A h \in DOMAIN receipts' : receipts'[h] \in Receipt
    BY <1>2, <1>3, <1>4 DEF IInv, GrantTypeOK
  <2> QED
    BY <1>1, <1>2, <2>1 DEF Issue, IInv, GrantTypeOK
<1>7. HandOK' /\ UsedOK' /\ OneJobPerGrant' /\ DownOK'
  BY <1>1 DEF Issue, Idle, IInv, HandOK, UsedOK, OneJobPerGrant, DownOK
<1>8. ReceiptIsTrue'
  <2> SUFFICES ASSUME NEW h \in DOMAIN receipts'
               PROVE  LET q == receipts'[h]
                      IN  /\ q.state = "ACCEPTED" => /\ q.job \in listed'
                                                     /\ jobs'[q.job].grant = h
                                                     /\ jobs'[q.job].body = q.body
                          /\ q.state # "ACCEPTED" /\ HasJob(h)' => InHand(h)'
                          /\ q.state = "CONSUMED" <=> InHand(h)'
    BY DEF ReceiptIsTrue
  <2>0. UNCHANGED <<jobs, listed, serving>>
    BY DEF Issue
  <2>1. CASE h = g
    BY <2>1, <2>0, <1>1, <1>3, <1>4, <1>5 DEF HasJob, InHand
  <2>2. CASE h # g
    BY <2>2, <2>0, <1>1, <1>2, <1>3 DEF IInv, ReceiptIsTrue, HasJob, InHand
  <2> QED
    BY <2>1, <2>2
<1> QED
  BY <1>6, <1>7, <1>8 DEF IInv

LEMMA ConsumeStep == ASSUME IInv, NEW g \in Grants, NEW b \in Bodies, Consume(g, b) PROVE IInv'
<1>1. /\ g \in DOMAIN receipts /\ receipts[g].state = "ISSUED" /\ receipts[g].body = b
      /\ up /\ serving = Nobody
  BY DEF Consume, Idle, MayUse, IsIssued
<1>2. receipts' = [receipts EXCEPT ![g].state = "CONSUMED"]
  BY DEF Consume, SetState
<1>3. DOMAIN receipts' = DOMAIN receipts
  BY <1>2
<1>4. receipts[g] \in Receipt
  BY <1>1 DEF IInv, GrantTypeOK
<1>5. /\ receipts'[g] \in Receipt /\ receipts'[g].state = "CONSUMED"
      /\ receipts'[g].body = b
      /\ \A h \in DOMAIN receipts : h # g => receipts'[h] = receipts[h]
  BY <1>1, <1>2, <1>4 DEF Receipt, ReceiptState
<1>6. serving' = [grant |-> g, body |-> b, job |-> NoJob]
  BY DEF Consume
<1>7. serving' \in Request /\ serving'.grant = g /\ serving'.body = b /\ serving'.job = NoJob
      /\ serving' # Nobody
  BY <1>6, NobodyAssumption DEF Request
<1>8. UNCHANGED <<up, aged, used, jobs, listed>>
  BY DEF Consume
<1>9. ~HasJob(g)
  BY <1>1 DEF IInv, ReceiptIsTrue, InHand
<1>10. GrantTypeOK'
  BY <1>3, <1>5, <1>7, <1>8 DEF IInv, GrantTypeOK
<1>11. HandOK'
  BY <1>1, <1>3, <1>5, <1>7, <1>8, <1>9 DEF HandOK, HasJob
<1>12. UsedOK' /\ OneJobPerGrant' /\ DownOK'
  BY <1>1, <1>8 DEF IInv, UsedOK, OneJobPerGrant, DownOK
<1>13. ReceiptIsTrue'
  BY <1>1, <1>3, <1>5, <1>7, <1>8, <1>9 DEF IInv, ReceiptIsTrue, HasJob, InHand
<1> QED
  BY <1>10, <1>11, <1>12, <1>13 DEF IInv

LEMMA StartStep == ASSUME IInv, NEW j \in Jobs, StartJob(j) PROVE IInv'
<1> DEFINE r == [grant |-> serving.grant, body |-> serving.body, state |-> "Running"]
<1>1. /\ up /\ serving # Nobody /\ serving.job = NoJob /\ j \notin DOMAIN jobs
      /\ jobs' = With(jobs, j, r)
      /\ serving' = [serving EXCEPT !.job = j]
      /\ UNCHANGED <<up, receipts, aged, used, listed>>
  BY DEF StartJob
<1>2. DOMAIN jobs' = DOMAIN jobs \cup {j}
  BY <1>1, WithDomain
<1>3. \A i \in DOMAIN jobs' : jobs'[i] = IF i = j THEN r ELSE jobs[i]
  BY <1>1, <1>2, WithValue
<1>4. serving \in Request
  BY <1>1 DEF IInv, GrantTypeOK
<1>5. r \in JobRecord /\ r.grant = serving.grant /\ r.body = serving.body
  BY <1>4 DEF JobRecord, Request
<1>6. /\ serving' \in Request /\ serving'.grant = serving.grant /\ serving'.body = serving.body
      /\ serving'.job = j /\ serving' # Nobody
  BY <1>1, <1>4, NobodyAssumption DEF Request
<1>7. /\ serving.grant \in DOMAIN receipts /\ receipts[serving.grant].state = "CONSUMED"
      /\ receipts[serving.grant].body = serving.body /\ ~HasJob(serving.grant)
  BY <1>1 DEF IInv, HandOK
<1> HIDE DEF r
<1>8. GrantTypeOK'
  <2>1. \A i \in DOMAIN jobs' : jobs'[i] \in JobRecord
    BY <1>2, <1>3, <1>5 DEF IInv, GrantTypeOK
  <2> QED
    BY <1>1, <1>2, <1>6, <2>1 DEF IInv, GrantTypeOK
<1>9. HandOK'
  BY <1>1, <1>2, <1>3, <1>5, <1>6, <1>7, GrantsAssumption DEF HandOK
<1>10. UsedOK'
  BY <1>1, <1>2, <1>3, <1>5, <1>7 DEF IInv, UsedOK, GrantTypeOK
<1>11. OneJobPerGrant'
  BY <1>2, <1>3, <1>5, <1>7 DEF IInv, OneJobPerGrant, HasJob
<1>12. DownOK'
  BY <1>1 DEF DownOK
<1>13. ReceiptIsTrue'
  <2>1. \A h : InHand(h)' <=> InHand(h)
    BY <1>1, <1>6 DEF InHand
  <2>2. \A h : h # serving.grant => (HasJob(h)' <=> HasJob(h))
    BY <1>2, <1>3, <1>5, <1>1 DEF HasJob
  <2>3. \A i \in listed : i \in DOMAIN jobs /\ jobs'[i] = jobs[i]
    BY <1>1, <1>2, <1>3 DEF IInv, GrantTypeOK
  <2> QED
    BY <1>1, <1>7, <2>1, <2>2, <2>3 DEF IInv, ReceiptIsTrue, InHand
<1> QED
  BY <1>8, <1>9, <1>10, <1>11, <1>12, <1>13 DEF IInv

\* A command whose job could not be started has no job.
LEMMA StartFailsStep == ASSUME IInv, StartFails PROVE IInv'
<1> DEFINE g == serving.grant
<1>1. /\ up /\ serving # Nobody /\ serving.job = NoJob /\ serving' = Nobody
      /\ receipts' = [receipts EXCEPT ![g].state = "UNCONFIRMED"]
      /\ UNCHANGED <<up, aged, used, jobs, listed>>
  BY DEF StartFails, SetState
<1>2. g \in DOMAIN receipts /\ ~HasJob(g)
  BY <1>1 DEF IInv, HandOK
<1>3. DOMAIN receipts' = DOMAIN receipts
  BY <1>1
<1>4. receipts[g] \in Receipt
  BY <1>2 DEF IInv, GrantTypeOK
<1>5. /\ receipts'[g] \in Receipt /\ receipts'[g].state = "UNCONFIRMED"
      /\ \A h \in DOMAIN receipts : h # g => receipts'[h] = receipts[h]
  BY <1>1, <1>2, <1>4 DEF Receipt, ReceiptState
<1>6. \A h : h # g => ~InHand(h)
  BY DEF InHand
<1>7. \A h : ~InHand(h)' /\ (HasJob(h)' <=> HasJob(h))
  BY <1>1 DEF InHand, HasJob
<1> HIDE DEF g
<1>8. GrantTypeOK'
  BY <1>1, <1>3, <1>5 DEF IInv, GrantTypeOK
<1>9. HandOK' /\ UsedOK' /\ DownOK' /\ OneJobPerGrant'
  BY <1>1 DEF IInv, HandOK, UsedOK, DownOK, OneJobPerGrant
<1>10. ReceiptIsTrue'
  BY <1>1, <1>2, <1>3, <1>5, <1>6, <1>7 DEF IInv, ReceiptIsTrue
<1> QED
  BY <1>8, <1>9, <1>10 DEF IInv

LEMMA RecordStep == ASSUME IInv, RecordJob PROVE IInv'
<1> DEFINE g == serving.grant
           j == serving.job
<1>1. /\ up /\ serving # Nobody /\ j # NoJob /\ serving' = Nobody
      /\ listed' = listed \cup {j}
      /\ receipts' = [receipts EXCEPT ![g] = Outcome(receipts[g], j)]
      /\ UNCHANGED <<up, aged, used, jobs>>
  BY DEF RecordJob
<1>2. /\ g \in DOMAIN receipts /\ receipts[g].body = serving.body
      /\ j \in DOMAIN jobs /\ jobs[j].grant = g /\ jobs[j].body = serving.body
  BY <1>1 DEF IInv, HandOK
<1>3. DOMAIN receipts' = DOMAIN receipts
  BY <1>1
<1>4. receipts[g] \in Receipt /\ j \in Jobs
  BY <1>2 DEF IInv, GrantTypeOK
<1>5. /\ receipts'[g] \in Receipt /\ receipts'[g].state = "ACCEPTED" /\ receipts'[g].job = j
      /\ receipts'[g].body = serving.body
      /\ \A h \in DOMAIN receipts : h # g => receipts'[h] = receipts[h]
  BY <1>1, <1>2, <1>4 DEF Outcome, Receipt, ReceiptState
<1>6. \A h : h # g => ~InHand(h)
  BY DEF InHand
<1>7. \A h : ~InHand(h)' /\ (HasJob(h)' <=> HasJob(h))
  BY <1>1 DEF InHand, HasJob
<1> HIDE DEF g, j
<1>8. GrantTypeOK'
  BY <1>1, <1>2, <1>3, <1>5 DEF IInv, GrantTypeOK
<1>9. HandOK' /\ UsedOK' /\ DownOK' /\ OneJobPerGrant'
  BY <1>1 DEF IInv, HandOK, UsedOK, DownOK, OneJobPerGrant
<1>10. ReceiptIsTrue'
  BY <1>1, <1>2, <1>3, <1>5, <1>6, <1>7 DEF IInv, ReceiptIsTrue
<1> QED
  BY <1>8, <1>9, <1>10 DEF IInv

LEMMA JobEndsStep ==
    ASSUME IInv, NEW j \in Jobs, NEW s \in {"Completed", "Failed"}, JobEnds(j, s) PROVE IInv'
<1>1. /\ j \in DOMAIN jobs
      /\ jobs' = [jobs EXCEPT ![j].state = s]
      /\ UNCHANGED <<up, receipts, aged, used, serving, listed>>
  BY DEF JobEnds
<1>2. DOMAIN jobs' = DOMAIN jobs
  BY <1>1
<1>3. \A i \in DOMAIN jobs : /\ jobs'[i] \in JobRecord
                             /\ jobs'[i].grant = jobs[i].grant /\ jobs'[i].body = jobs[i].body
  <2>1. \A i \in DOMAIN jobs : jobs[i] \in JobRecord
    BY DEF IInv, GrantTypeOK
  <2> QED
    BY <1>1, <2>1 DEF JobRecord, Ended
<1>4. GrantTypeOK'
  BY <1>1, <1>2, <1>3 DEF IInv, GrantTypeOK
<1>5. \A h : (HasJob(h)' <=> HasJob(h)) /\ (InHand(h)' <=> InHand(h))
  BY <1>1, <1>2, <1>3 DEF HasJob, InHand
<1>6. HandOK'
  BY <1>1, <1>2, <1>3, <1>5 DEF IInv, HandOK
<1>7. UsedOK' /\ DownOK' /\ OneJobPerGrant'
  BY <1>1, <1>2, <1>3 DEF IInv, UsedOK, DownOK, OneJobPerGrant
<1>8. ReceiptIsTrue'
  BY <1>1, <1>2, <1>3, <1>5 DEF IInv, ReceiptIsTrue, GrantTypeOK
<1> QED
  BY <1>4, <1>6, <1>7, <1>8 DEF IInv

LEMMA StepHolds == IInv /\ [GrantNext]_grantVars => IInv'
<1> SUFFICES ASSUME IInv, [GrantNext]_grantVars PROVE IInv'
  OBVIOUS
<1>1. CASE UNCHANGED grantVars
  BY <1>1 DEF grantVars, IInv, GrantTypeOK, HandOK, UsedOK, DownOK, OneJobPerGrant, ReceiptIsTrue,
             HasJob, InHand
<1>2. ASSUME NEW g \in Grants, Expire(g) PROVE IInv'
  BY <1>2, ReceiptStep DEF Expire, IsIssued
<1>3. ASSUME NEW g \in Grants, Cancel(g) PROVE IInv'
  BY <1>3, ReceiptStep DEF Cancel, MayCancel, IsIssued
<1> QED
  BY <1>1, <1>2, <1>3, OpenStep, CloseStep, IssueStep, ConsumeStep, TimeStep, StartStep,
     StartFailsStep, RecordStep, JobEndsStep DEF GrantNext

LEMMA Invariance == GrantSpec => []IInv
BY InitHolds, StepHolds, PTL DEF GrantSpec

-----------------------------------------------------------------------------

\* Every variable keeps its type, whatever the clients send.
THEOREM GrantsTypeCorrect == GrantSpec => []GrantTypeOK
BY Invariance, PTL DEF IInv

\* A grant starts at most one job, for any number of servers, clients,
\* repetitions and interruptions.
THEOREM GrantsAreSingleUse == GrantSpec => []OneJobPerGrant
BY Invariance, PTL DEF IInv

\* What a receipt says of acceptance, job and body is true at any moment.
THEOREM ReceiptsTellTheTruth == GrantSpec => []ReceiptIsTrue
BY Invariance, PTL DEF IInv

-----------------------------------------------------------------------------
(* The quota.                                                              *)

\* A store never holds more receipts than its quota.
THEOREM QuotaIsKept == GrantSpec => []QuotaKept
<1>1. GrantInit => QuotaKept
  BY EmptyDomain, FS_EmptySet, GrantsAssumption DEF GrantInit, QuotaKept
<1>2. IInv /\ QuotaKept /\ [GrantNext]_grantVars => QuotaKept'
  <2> SUFFICES ASSUME IInv, QuotaKept, [GrantNext]_grantVars PROVE QuotaKept'
    OBVIOUS
  <2>1. CASE DOMAIN receipts' = DOMAIN receipts
    BY <2>1 DEF QuotaKept
  <2>2. CASE DOMAIN receipts' = {}
    BY <2>2, FS_EmptySet, GrantsAssumption DEF QuotaKept
  <2>3. ASSUME NEW g \in Grants, NEW b \in Bodies, Issue(g, b) PROVE QuotaKept'
    <3>1. DOMAIN receipts' = DOMAIN receipts \cup {g}
      BY <2>3, WithDomain DEF Issue
    <3>2. IsFiniteSet(DOMAIN receipts)
      BY GrantsAssumption, FS_Subset DEF IInv, GrantTypeOK
    <3>3. g \notin DOMAIN receipts
      BY <2>3 DEF Issue, IInv, GrantTypeOK
    <3>4. Cardinality(DOMAIN receipts \cup {g}) = Cardinality(DOMAIN receipts) + 1
      BY <3>2, <3>3, FS_AddElement
    <3>5. Cardinality(DOMAIN receipts) \in Nat /\ Cardinality(DOMAIN receipts) < Quota
      BY <2>3, <3>2, FS_CardinalityType DEF Issue, HasRoom
    <3> QED
      BY <3>1, <3>4, <3>5, GrantsAssumption DEF QuotaKept
  <2>4. CASE Open \/ Close
    BY <2>2, <2>4, EmptyDomain DEF Open, Close
  <2>5. CASE UNCHANGED grantVars
    BY <2>1, <2>5 DEF grantVars
  <2>6. CASE \/ \E g \in Grants, b \in Bodies : Consume(g, b)
             \/ \E g \in Grants : Expire(g) \/ Cancel(g) \/ Age(g)
             \/ \E j \in Jobs : StartJob(j)
             \/ StartFails \/ RecordJob
             \/ \E j \in Jobs, s \in {"Completed", "Failed"} : JobEnds(j, s)
    BY <2>1, <2>6 DEF Consume, Expire, Cancel, Age, StartJob, StartFails, RecordJob, JobEnds, SetState
  <2> QED
    BY <2>3, <2>4, <2>5, <2>6 DEF GrantNext
<1> QED
  BY <1>1, <1>2, Invariance, PTL DEF GrantSpec

-----------------------------------------------------------------------------
(* The refinement.                                                         *)

FateMap == [g \in Grants |-> Fate(g)]
StartedBy == [j \in Jobs |-> IF j \in DOMAIN jobs THEN jobs[j].grant ELSE NoGrant]

LEMMA InitRefines == GrantInit => Contract!Init
BY EmptyDomain DEF GrantInit, Contract!Init, Fate

\* A step in which nothing changes that the contract speaks of.
LEMMA SameFates ==
    ASSUME \A g \in Grants : Fate(g)' = Fate(g),
           DOMAIN jobs' = DOMAIN jobs,
           \A j \in DOMAIN jobs : jobs'[j].grant = jobs[j].grant
    PROVE  UNCHANGED Contract!vars
<1>1. FateMap' = FateMap
  BY DEF FateMap
<1>2. StartedBy' = StartedBy
  BY DEF StartedBy
<1> QED
  BY <1>1, <1>2 DEF FateMap, StartedBy, Contract!vars

\* A step after which some open or spent grants are void.
LEMMA SomeVoided ==
    ASSUME \A g \in Grants : \/ Fate(g)' = Fate(g)
                             \/ Fate(g) \in {"open", "spent"} /\ Fate(g)' = "void",
           DOMAIN jobs' = DOMAIN jobs,
           \A j \in DOMAIN jobs : jobs'[j].grant = jobs[j].grant
    PROVE  Contract!Void
<1> DEFINE G == {g \in Grants : Fate(g)' # Fate(g)}
<1>1. G \in SUBSET {g \in Grants : FateMap[g] \in {"open", "spent"}}
  BY DEF FateMap
<1>2. FateMap' = [g \in Grants |-> IF g \in G THEN "void" ELSE FateMap[g]]
  BY DEF FateMap
<1>3. StartedBy' = StartedBy
  BY DEF StartedBy
<1> HIDE DEF G
<1> QED
  BY <1>1, <1>2, <1>3 DEF FateMap, StartedBy, Contract!Void

LEMMA StepRefines == IInv /\ IInv' /\ [GrantNext]_grantVars => [Contract!Next]_(Contract!vars)
<1> SUFFICES ASSUME IInv, IInv', [GrantNext]_grantVars PROVE Contract!Next \/ UNCHANGED Contract!vars
  OBVIOUS
<1>1. CASE UNCHANGED grantVars
  BY <1>1, SameFates DEF grantVars, Fate, HasJob
<1>2. CASE Open
  <2>1. receipts = Empty /\ receipts' = Empty
    BY <1>2 DEF Open, IInv, DownOK
  <2> QED
    BY <1>2, <2>1, SameFates DEF Open, Fate, HasJob
<1>3. CASE Close
  <2>1. DOMAIN receipts' = {} /\ DOMAIN jobs' = DOMAIN jobs /\ used' = used
    BY <1>3, EmptyDomain DEF Close
  <2>2. \A j \in DOMAIN jobs : jobs'[j].grant = jobs[j].grant
    BY <1>3 DEF Close, StoppedJob, IInv, GrantTypeOK, JobRecord
  <2>3. \A g : HasJob(g)' <=> HasJob(g)
    BY <2>1, <2>2 DEF HasJob
  <2>4. \A g \in Grants : \/ Fate(g)' = Fate(g)
                          \/ Fate(g) \in {"open", "spent"} /\ Fate(g)' = "void"
    BY <2>1, <2>3 DEF Fate
  <2> QED
    BY <2>1, <2>2, <2>4, SomeVoided DEF Contract!Next
<1>4. ASSUME NEW g \in Grants, NEW b \in Bodies, Issue(g, b) PROVE Contract!Next
  <2>1. /\ DOMAIN receipts' = DOMAIN receipts \cup {g} /\ receipts'[g].state = "ISSUED"
        /\ \A h \in DOMAIN receipts : h # g => receipts'[h] = receipts[h]
        /\ g \notin used /\ used' = used \cup {g} /\ jobs' = jobs
    <3> DEFINE r == [state |-> "ISSUED", body |-> b, job |-> NoJob]
    <3>1. receipts' = With(receipts, g, r) /\ r.state = "ISSUED"
      BY <1>4 DEF Issue
    <3> HIDE DEF r
    <3>2. /\ DOMAIN receipts' = DOMAIN receipts \cup {g} /\ receipts'[g] = r
          /\ \A h \in DOMAIN receipts : h # g => receipts'[h] = receipts[h]
      BY <3>1 DEF With
    <3> QED
      BY <1>4, <3>1, <3>2 DEF Issue
  <2>2. \A h : HasJob(h)' <=> HasJob(h)
    BY <2>1 DEF HasJob
  <2>3. ~HasJob(g)
    BY <2>1 DEF HasJob, IInv, UsedOK
  <2>4. Fate(g) = "new" /\ Fate(g)' = "open"
    BY <2>1, <2>2, <2>3 DEF Fate
  <2>5. \A h \in Grants : h # g => Fate(h)' = Fate(h)
    BY <2>1, <2>2 DEF Fate
  <2>6. FateMap' = [FateMap EXCEPT ![g] = "open"] /\ FateMap[g] = "new"
    BY <2>4, <2>5 DEF FateMap
  <2>7. StartedBy' = StartedBy
    BY <2>1 DEF StartedBy
  <2> QED
    BY <2>6, <2>7 DEF FateMap, StartedBy, Contract!Next, Contract!HandOut
<1>5. ASSUME NEW g \in Grants, NEW b \in Bodies, Consume(g, b) PROVE Contract!Next
  <2>1. /\ g \in DOMAIN receipts /\ receipts[g].state = "ISSUED" /\ receipts'[g].state = "CONSUMED"
        /\ DOMAIN receipts' = DOMAIN receipts
        /\ \A h \in DOMAIN receipts : h # g => receipts'[h] = receipts[h]
        /\ used' = used /\ jobs' = jobs /\ serving = Nobody
    BY <1>5 DEF Consume, MayUse, IsIssued, SetState, Idle, IInv, GrantTypeOK, Receipt
  <2>2. \A h : HasJob(h)' <=> HasJob(h)
    BY <2>1 DEF HasJob
  <2>3. ~HasJob(g) /\ g \in used
    BY <2>1 DEF IInv, ReceiptIsTrue, InHand, GrantTypeOK
  <2>4. Fate(g) = "open" /\ Fate(g)' = "spent"
    BY <2>1, <2>2, <2>3 DEF Fate
  <2>5. \A h \in Grants : h # g => Fate(h)' = Fate(h)
    BY <2>1, <2>2 DEF Fate
  <2>6. FateMap' = [FateMap EXCEPT ![g] = "spent"] /\ FateMap[g] = "open"
    BY <2>4, <2>5 DEF FateMap
  <2>7. StartedBy' = StartedBy
    BY <2>1 DEF StartedBy
  <2> QED
    BY <2>6, <2>7 DEF FateMap, StartedBy, Contract!Next, Contract!Spend
<1>6. ASSUME NEW g \in Grants, Expire(g) \/ Cancel(g) PROVE Contract!Next
  <2>1. PICK s \in {"EXPIRED", "CANCELLED"} : SetState(g, s)
    BY <1>6 DEF Expire, Cancel
  <2>2. /\ g \in DOMAIN receipts /\ receipts[g].state = "ISSUED"
        /\ used' = used /\ jobs' = jobs
    BY <1>6 DEF Expire, Cancel, MayCancel, IsIssued
  <2>3. receipts'[g].state = s
    BY <2>1, <2>2 DEF SetState, IInv, GrantTypeOK, Receipt
  <2>4. /\ DOMAIN receipts' = DOMAIN receipts
        /\ \A h \in DOMAIN receipts : h # g => receipts'[h] = receipts[h]
    BY <2>1 DEF SetState
  <2>5. \A h : HasJob(h)' <=> HasJob(h)
    BY <2>2 DEF HasJob
  <2>6. \A h \in Grants : \/ Fate(h)' = Fate(h)
                          \/ Fate(h) \in {"open", "spent"} /\ Fate(h)' = "void"
    BY <2>2, <2>3, <2>4, <2>5 DEF Fate
  <2> QED
    BY <2>2, <2>6, SomeVoided DEF Contract!Next
<1>7. ASSUME NEW g \in Grants, Age(g) PROVE UNCHANGED Contract!vars
  BY <1>7, SameFates DEF Age, Fate, HasJob
<1>8. ASSUME NEW j \in Jobs, StartJob(j) PROVE Contract!Next
  <2>0. PICK g : g = serving.grant
    OBVIOUS
  <2>1. /\ serving # Nobody /\ serving.job = NoJob /\ j \notin DOMAIN jobs
        /\ DOMAIN jobs' = DOMAIN jobs \cup {j} /\ jobs'[j].grant = g
        /\ \A i \in DOMAIN jobs : jobs'[i] = jobs[i]
        /\ receipts' = receipts /\ used' = used
    <3> DEFINE r == [grant |-> g, body |-> serving.body, state |-> "Running"]
    <3>1. jobs' = With(jobs, j, r) /\ r.grant = g
      BY <1>8, <2>0 DEF StartJob
    <3> HIDE DEF r
    <3>2. /\ DOMAIN jobs' = DOMAIN jobs \cup {j} /\ jobs'[j] = r
          /\ \A i \in DOMAIN jobs : i # j => jobs'[i] = jobs[i]
      BY <3>1 DEF With
    <3> QED
      BY <1>8, <3>1, <3>2 DEF StartJob
  <2>2. /\ g \in DOMAIN receipts /\ receipts[g].state = "CONSUMED" /\ ~HasJob(g)
    BY <2>0, <2>1 DEF IInv, HandOK
  <2>3. g \in used /\ g \in Grants
    BY <2>2 DEF IInv, GrantTypeOK
  <2>4. HasJob(g)' /\ \A h : h # g => (HasJob(h)' <=> HasJob(h))
    BY <2>1 DEF HasJob
  <2>5. Fate(g) = "spent" /\ Fate(g)' = "run" /\ \A h \in Grants : h # g => Fate(h)' = Fate(h)
    BY <2>1, <2>2, <2>3, <2>4 DEF Fate
  <2>6. FateMap' = [FateMap EXCEPT ![g] = "run"] /\ FateMap[g] = "spent"
    BY <2>3, <2>5 DEF FateMap
  <2>7. StartedBy' = [StartedBy EXCEPT ![j] = g] /\ StartedBy[j] = NoGrant
    BY <2>1 DEF StartedBy
  <2> QED
    BY <2>3, <2>6, <2>7 DEF FateMap, StartedBy, Contract!Next, Contract!Run
<1>9. CASE StartFails
  <2> DEFINE g == serving.grant
  <2>1. /\ serving # Nobody /\ serving.job = NoJob /\ SetState(g, "UNCONFIRMED")
        /\ used' = used /\ jobs' = jobs
    BY <1>9 DEF StartFails
  <2>2. /\ g \in DOMAIN receipts /\ receipts[g].state = "CONSUMED" /\ ~HasJob(g)
    BY <2>1 DEF IInv, HandOK
  <2> HIDE DEF g
  <2>3. /\ DOMAIN receipts' = DOMAIN receipts /\ receipts'[g].state = "UNCONFIRMED"
        /\ \A h \in DOMAIN receipts : h # g => receipts'[h] = receipts[h]
    BY <2>1, <2>2 DEF SetState, IInv, GrantTypeOK, Receipt
  <2>4. \A h : HasJob(h)' <=> HasJob(h)
    BY <2>1 DEF HasJob
  <2>5. \A h \in Grants : \/ Fate(h)' = Fate(h)
                          \/ Fate(h) \in {"open", "spent"} /\ Fate(h)' = "void"
    BY <2>1, <2>2, <2>3, <2>4 DEF Fate
  <2> QED
    BY <2>1, <2>5, SomeVoided DEF Contract!Next
<1>10. CASE RecordJob
  <2> DEFINE g == serving.grant
  <2>1. /\ serving # Nobody /\ serving.job # NoJob
        /\ receipts' = [receipts EXCEPT ![g] = Outcome(receipts[g], serving.job)]
        /\ used' = used /\ jobs' = jobs
    BY <1>10 DEF RecordJob
  <2>2. HasJob(g) /\ g \in DOMAIN receipts
    BY <2>1 DEF IInv, HandOK, HasJob
  <2> HIDE DEF g
  <2>3. /\ DOMAIN receipts' = DOMAIN receipts
        /\ \A h \in DOMAIN receipts : h # g => receipts'[h] = receipts[h]
    BY <2>1
  <2>4. \A h : HasJob(h)' <=> HasJob(h)
    BY <2>1 DEF HasJob
  <2> QED
    BY <2>1, <2>2, <2>3, <2>4, SameFates DEF Fate
<1>11. ASSUME NEW j \in Jobs, NEW s \in {"Completed", "Failed"}, JobEnds(j, s)
       PROVE  UNCHANGED Contract!vars
  <2>1. /\ DOMAIN jobs' = DOMAIN jobs /\ receipts' = receipts /\ used' = used
        /\ \A i \in DOMAIN jobs : jobs'[i].grant = jobs[i].grant
    BY <1>11 DEF JobEnds, IInv, GrantTypeOK, JobRecord
  <2>2. \A h : HasJob(h)' <=> HasJob(h)
    BY <2>1 DEF HasJob
  <2> QED
    BY <2>1, <2>2, SameFates DEF Fate
<1> QED
  BY <1>1, <1>2, <1>3, <1>4, <1>5, <1>6, <1>7, <1>8, <1>9, <1>10, <1>11 DEF GrantNext

\* The acceptance of commands implements the abstract contract: a grant is
\* handed out once, spent at most once, and starts a job only after that.
THEOREM GrantsImplementAcceptOnce == GrantSpec => ImplementsAcceptOnce
BY InitRefines, StepRefines, Invariance, PTL DEF GrantSpec, ImplementsAcceptOnce, Contract!Spec
=============================================================================
