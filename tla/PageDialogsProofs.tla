-------------------------- MODULE PageDialogsProofs --------------------------
(***************************************************************************)
(* Proofs about PageDialogs, for any profiles, choices and numbers of      *)
(* requests under way.  What a dialog offers is current because at most    *)
(* one of the answers under way is worth anything (OneValid), and while    *)
(* there is one there is no preview and the choice it was asked for stands.*)
(* Disciplined says which devices a dialog needs for that.                 *)
(***************************************************************************)
EXTENDS PageDialogs, FiniteSetTheorems, TLAPS

DisciplinedDialogs == \A d \in Dialogs : Disciplined(Profile[d])

Sending(s) == flights[s] # NoFlight

\* Every request is one of the dialog's, and a preview is asked for something.
Known ==
    \A s \in Slots : Sending(s) => /\ flights[s].kind \in P.kinds
                                   /\ flights[s].kind = "Plan" => flights[s].input \in Inputs

PlanIsCurrent ==
    plan # None => /\ "Plan" \in P.kinds
                   /\ plan.input = input /\ input \in Inputs
                   /\ open => ~plan.late

\* What was asked for before the dialog was closed is worth nothing after it.
Fresh ==
    /\ list # "late"
    /\ P.panel => open
    /\ \A s \in Slots : Sending(s) /\ flights[s].old =>
           /\ ~P.panel
           /\ "Close" \in P.bumps => ~flights[s].valid
           /\ P.kinds \subseteq P.bars => ~open

OneValid ==
    P.late = "revision" =>
        \A s \in Slots : Sending(s) /\ flights[s].valid =>
            /\ plan = None
            /\ flights[s].kind = "Plan" => flights[s].input = input
            /\ P.guarded => busy
            /\ \A t \in Slots : Sending(t) /\ flights[t].valid => t = s

\* Where every answer clears the busy flag, there is one request at a time.
OneFlight ==
    P.freesAll /\ P.guarded /\ P.late = "revision" =>
        \A s, t \in Slots : Sending(s) /\ Sending(t) => s = t /\ busy

Returnable == NoForgottenPreview

Inv == TypeOK /\ Known /\ PlanIsCurrent /\ Fresh /\ OneValid /\ OneFlight /\ Returnable

-----------------------------------------------------------------------------
LEMMA NoFlightIsNone == NoFlight \notin Flight
BY DialogsAssumption DEF DialogsAssumption, Flight, Kinds

\* What React does to the requests under way: they grow stale, and at most one
\* is added.
LEMMA ReactFlights ==
    ASSUME NEW fs \in [Slots -> Flight \cup {NoFlight}], NEW b, NEW E,
           NEW k \in Kinds \cup {"none"}, NEW i,
           React(fs, b, E, k, i), input' \in Inputs \cup {None}
    PROVE  /\ flights' \in [Slots -> Flight \cup {NoFlight}]
           /\ \E n \in Slots : \A s \in Slots : flights'[s] # NoFlight =>
                 \/ fs[s] # NoFlight /\ flights'[s] = Stale(fs[s], E)
                 \/ /\ k # "none" /\ s = n /\ fs[s] = NoFlight
                    /\ flights'[s] = [kind |-> k, input |-> input', valid |-> TRUE, old |-> FALSE]
<1> DEFINE stale == [s \in Slots |-> IF fs[s] = NoFlight THEN NoFlight ELSE Stale(fs[s], E)]
<1>1. stale \in [Slots -> Flight \cup {NoFlight}]
  BY DEF Stale, Flight
<1>2. \A s \in Slots : stale[s] = NoFlight <=> fs[s] = NoFlight
  BY NoFlightIsNone DEF Stale, Flight
<1>3. CASE k = "none"
  <2>1. flights' = stale
    BY <1>3 DEF React
  <2> QED
    BY <1>1, <1>2, <2>1, DialogsAssumption DEF DialogsAssumption
<1>4. CASE k # "none"
  <2> DEFINE n == CHOOSE t \in Slots : stale[t] = NoFlight
  <2>1. flights' = [stale EXCEPT ![n] = [kind |-> k, input |-> input', valid |-> TRUE, old |-> FALSE]]
    BY <1>4 DEF React, Sent
  <2>2. \E t \in Slots : stale[t] = NoFlight
    BY <1>2, <1>4 DEF React
  <2>3. n \in Slots /\ stale[n] = NoFlight
    BY <2>2
  <2>4. [kind |-> k, input |-> input', valid |-> TRUE, old |-> FALSE] \in Flight
    BY <1>4 DEF Flight
  <2> HIDE DEF stale, n
  <2>5. flights' \in [Slots -> Flight \cup {NoFlight}]
    BY <1>1, <2>1, <2>3, <2>4
  <2>6. \A s \in Slots : flights'[s] # NoFlight =>
                 \/ fs[s] # NoFlight /\ flights'[s] = stale[s]
                 \/ /\ s = n /\ fs[s] = NoFlight
                    /\ flights'[s] = [kind |-> k, input |-> input', valid |-> TRUE, old |-> FALSE]
    BY <1>1, <1>2, <2>1, <2>3
  <2>7. \A s \in Slots : fs[s] # NoFlight => stale[s] = Stale(fs[s], E)
    BY DEF stale
  <2> QED
    BY <1>4, <2>3, <2>5, <2>6, <2>7
<1> QED
  BY <1>3, <1>4

\* An event that goes through React keeps the invariant if the answers that
\* stay worth something concern the same choice and no request is added to
\* them, and if a new choice, or a new opening, finds no preview.
Harmless(fs, b, E, k) ==
    /\ fs \in [Slots -> Flight \cup {NoFlight}] /\ b \in BOOLEAN
    /\ \A s \in Slots : fs[s] # NoFlight => fs[s] = flights[s]
    /\ k \in P.kinds \cup {"none"} /\ (k = "Plan" => input' # None)
    /\ UNCHANGED dlg
    /\ open' \in BOOLEAN /\ list' \in {"none", "now"}
    /\ picked' \in BOOLEAN /\ attempted' \in BOOLEAN /\ applied' \in Inputs \cup {None}
    /\ P.panel => open' /\ "Close" \notin E
    /\ "Close" \in E => ~open'
    /\ open' /\ ~open /\ P.kinds \subseteq P.bars => \A s \in Slots : fs[s] = NoFlight
    /\ input' # input \/ (open' /\ ~open) => plan' = None
    /\ P.late = "revision" /\ k # "none" => plan' = None
    /\ P.late = "revision" =>
          \A s \in Slots : fs[s] # NoFlight /\ fs[s].valid /\ E \cap P.bumps = {} =>
             /\ k = "none" /\ (P.guarded => b)
             /\ fs[s].kind = "Plan" => input' = input
    /\ P.late = "revision" /\ P.freesAll /\ P.guarded =>
          \A s \in Slots : fs[s] # NoFlight => k = "none" /\ b

LEMMA ReactKeeps ==
    ASSUME Inv, Disciplined(P), NEW fs, NEW b, NEW E, NEW k, NEW i \in Inputs \cup {None},
           React(fs, b, E, k, i), Harmless(fs, b, E, k)
    PROVE  Inv'
<1> USE DEF Harmless
<1> USE DEF Sending
<1>0. P' = P /\ k \in Kinds \cup {"none"} /\ WellFormed(P)
  BY DEF P, Disciplined, WellFormed
<1>1. input' \in Inputs \cup {None} /\ plan' \in {plan, None}
  BY DEF React
<1>2. /\ flights' \in [Slots -> Flight \cup {NoFlight}]
      /\ \E n \in Slots : \A s \in Slots : flights'[s] # NoFlight =>
            \/ fs[s] # NoFlight /\ flights'[s] = Stale(fs[s], E)
            \/ /\ k # "none" /\ s = n /\ fs[s] = NoFlight
               /\ flights'[s] = [kind |-> k, input |-> input', valid |-> TRUE, old |-> FALSE]
  BY <1>0, <1>1, ReactFlights
<1>3. PICK n \in Slots : \A s \in Slots : flights'[s] # NoFlight =>
            \/ fs[s] # NoFlight /\ flights'[s] = Stale(fs[s], E)
            \/ /\ k # "none" /\ s = n /\ fs[s] = NoFlight
               /\ flights'[s] = [kind |-> k, input |-> input', valid |-> TRUE, old |-> FALSE]
  BY <1>2
<1>4. \A s \in Slots : fs[s] # NoFlight =>
            /\ fs[s] \in Flight /\ Sending(s) /\ fs[s] = flights[s]
            /\ Stale(fs[s], E).kind = fs[s].kind /\ Stale(fs[s], E).input = fs[s].input
            /\ Stale(fs[s], E).valid = (fs[s].valid /\ E \cap P.bumps = {})
            /\ Stale(fs[s], E).old = (fs[s].old \/ "Close" \in E)
  BY DEF Stale, Flight
<1>5. Known'
  BY <1>0, <1>1, <1>3, <1>4 DEF Known, Inv
<1>6. PlanIsCurrent'
  BY <1>0, <1>1 DEF PlanIsCurrent, Inv, TypeOK
<1>7. Fresh'
  <2>1. \A s \in Slots : (Sending(s) /\ flights[s].old)' =>
           /\ ~P.panel
           /\ "Close" \in P.bumps => ~flights'[s].valid
           /\ P.kinds \subseteq P.bars => ~open'
    <3> SUFFICES ASSUME NEW s \in Slots, (Sending(s) /\ flights[s].old)'
                 PROVE  /\ ~P.panel
                        /\ "Close" \in P.bumps => ~flights'[s].valid
                        /\ P.kinds \subseteq P.bars => ~open'
      OBVIOUS
    <3>1. /\ fs[s] # NoFlight /\ Sending(s) /\ fs[s] = flights[s]
          /\ flights'[s].valid = (flights[s].valid /\ E \cap P.bumps = {})
          /\ flights[s].old \/ "Close" \in E
      <4>1. flights'[s] # NoFlight /\ flights'[s].old
        OBVIOUS
      <4>2. fs[s] # NoFlight /\ flights'[s] = Stale(fs[s], E)
        BY <1>3, <4>1
      <4> QED
        BY <1>4, <4>1, <4>2
    <3>2. CASE "Close" \in E
      BY <3>1, <3>2
    <3>3. CASE flights[s].old
      BY <3>1, <3>3 DEF Fresh, Inv, TypeOK
    <3> QED
      BY <3>1, <3>2, <3>3
  <2> QED
    BY <1>0, <2>1 DEF Fresh
<1>8. OneValid'
  <2> SUFFICES ASSUME P.late = "revision"
               PROVE  OneValid'
    BY <1>0 DEF OneValid
  <2>1. ASSUME NEW s \in Slots, flights'[s] # NoFlight, flights'[s].valid, fs[s] # NoFlight
        PROVE  /\ E \cap P.bumps = {} /\ fs[s].valid /\ k = "none" /\ plan' = None
               /\ flights'[s].kind = "Plan" => flights'[s].input = input'
               /\ P.guarded => busy'
    <3>1. E \cap P.bumps = {} /\ fs[s].valid /\ k = "none" /\ (P.guarded => b)
      BY <1>3, <1>4, <2>1
    <3>2. busy' = b
      BY <3>1 DEF React
    <3>3. plan' = None
      BY <1>1, <1>4, <2>1, <3>1 DEF OneValid, Inv
    <3>4. flights'[s].kind = "Plan" => flights'[s].input = input'
      BY <1>3, <1>4, <2>1, <3>1 DEF OneValid, Inv
    <3> QED
      BY <3>1, <3>2, <3>3, <3>4
  <2>2. ASSUME NEW s \in Slots, flights'[s] # NoFlight, fs[s] = NoFlight
        PROVE  /\ k # "none" /\ s = n /\ flights'[s].input = input' /\ plan' = None
               /\ P.guarded => busy'
    <3>1. k # "none" /\ s = n /\ flights'[s].input = input' /\ plan' = None
      BY <1>3, <2>2
    <3>2. busy' = P.guarded
      BY <3>1 DEF React
    <3> QED
      BY <3>1, <3>2
  <2>3. ASSUME NEW s \in Slots, NEW t \in Slots,
               flights'[s] # NoFlight, flights'[s].valid, flights'[t] # NoFlight, flights'[t].valid
        PROVE  t = s
    <3>1. CASE fs[s] # NoFlight /\ fs[t] # NoFlight
      BY <1>4, <2>1, <2>3, <3>1 DEF OneValid, Inv
    <3>2. CASE fs[s] = NoFlight /\ fs[t] = NoFlight
      BY <2>2, <2>3, <3>2
    <3>3. CASE (fs[s] = NoFlight /\ fs[t] # NoFlight) \/ (fs[s] # NoFlight /\ fs[t] = NoFlight)
      BY <2>1, <2>2, <2>3, <3>3
    <3> QED
      BY <3>1, <3>2, <3>3
  <2> QED
    BY <1>0, <2>1, <2>2, <2>3 DEF OneValid
<1>9. OneFlight'
  <2> SUFFICES ASSUME P.freesAll, P.guarded, P.late = "revision",
                      NEW s \in Slots, NEW t \in Slots,
                      flights'[s] # NoFlight, flights'[t] # NoFlight
               PROVE  s = t /\ busy'
    BY <1>0 DEF OneFlight
  <2>1. CASE k # "none"
    BY <1>3, <2>1 DEF React
  <2>2. CASE k = "none"
    BY <1>3, <1>4, <2>2 DEF React, OneFlight, Inv
  <2> QED
    BY <2>1, <2>2
<1>10. Returnable'
  BY <1>0, <1>1 DEF Returnable, NoForgottenPreview, Returned, React, Inv, TypeOK
<1>11. TypeOK'
  <2>1. busy' \in BOOLEAN
    BY <1>0 DEF React, WellFormed
  <2>2. confirmed' \in {"no", "early", "seen"}
    BY DEF React, Inv, TypeOK
  <2>3. reserved' \in Nat
    BY <1>10 DEF Returnable, NoForgottenPreview
  <2> QED
    BY <1>1, <1>2, <2>1, <2>2, <2>3 DEF Inv, TypeOK
<1> QED
  BY <1>5, <1>6, <1>7, <1>8, <1>9, <1>10, <1>11 DEF Inv

-----------------------------------------------------------------------------
(* The invariant, action by action.                                        *)

LEMMA ChoicesAreInputs ==
    ASSUME input \in Inputs \cup {None}, NEW how \in {"none", "some", "any", "keep"}
    PROVE  Choices(how) \subseteq Inputs \cup {None}
BY DEF Choices

\* The choices of a disciplined dialog, and what it drops without a preview.
LEMMA Basics ==
    ASSUME Inv, Disciplined(P)
    PROVE  /\ P.kinds \subseteq Kinds /\ P.guarded \in BOOLEAN /\ P.panel \in BOOLEAN
           /\ Choices(P.openInput) \subseteq Inputs \cup {None}
           /\ Choices(P.picks) \subseteq Inputs \cup {None}
           /\ P.late \in {"revision", "input"}
           /\ "Plan" \notin P.kinds => plan = None
           /\ list \in {"none", "now"}
<1>1. WellFormed(P)
  BY DEF Disciplined
<1>2. P.openInput \in {"none", "some", "any", "keep"} /\ P.picks \in {"none", "some", "any", "keep"}
  BY <1>1 DEF WellFormed
<1>3. input \in Inputs \cup {None}
  BY DEF Inv, TypeOK
<1> QED
  BY <1>1, <1>2, <1>3, ChoicesAreInputs
     DEF WellFormed, Disciplined, Inv, TypeOK, PlanIsCurrent, Fresh

LEMMA OpenKeeps ==
    ASSUME Inv, Disciplined(P), Open
    PROVE  Inv'
<1> USE DEF Sending
<1>1. PICK i \in Choices(P.openInput), r \in P.onOpen :
        LET sent == IF r # "none" /\ MayAsk({"Open"}) /\ (r = "Plan" => i # None)
                    THEN r ELSE "none"
        IN  /\ React(flights, BusyAfter({"Open"}), {"Open", sent}, sent, i)
            /\ list' = ListAfter({"Open", sent})
  BY DEF Open
<1> DEFINE k == IF r # "none" /\ MayAsk({"Open"}) /\ (r = "Plan" => i # None)
                THEN r ELSE "none"
<1>2. /\ React(flights, BusyAfter({"Open"}), {"Open", k}, k, i)
      /\ list' = ListAfter({"Open", k})
  BY <1>1
<1>3. /\ k \in P.kinds \cup {"none"}
      /\ k # "none" => k \in P.onOpen /\ MayAsk({"Open"}) /\ (k = "Plan" => i # None)
  BY <1>1 DEF Disciplined, WellFormed
<1> HIDE DEF k
<1>4. /\ i \in Inputs \cup {None}
      /\ flights \in [Slots -> Flight \cup {NoFlight}]
      /\ BusyAfter({"Open"}) \in BOOLEAN /\ list' \in {"none", "now"}
      /\ "Close" \notin {"Open", k}
  BY <1>1, <1>2, <1>3, Basics DEF Inv, TypeOK, BusyAfter, ListAfter, Kinds
<1>5. plan' = None
  BY <1>2, <1>3, Basics DEF React, Disciplined, PreviewGoes
<1>6. k = "Plan" => input' # None
  BY <1>2, <1>3 DEF React, Disciplined, PreviewGoes
<1>7. P.kinds \subseteq P.bars => \A s \in Slots : flights[s] = NoFlight
  BY DEF Open, Pending, Inv, Known
<1>8. ASSUME P.late = "revision", NEW s \in Slots, flights[s] # NoFlight, flights[s].valid,
             {"Open", k} \cap P.bumps = {}
      PROVE  /\ k = "none" /\ (P.guarded => BusyAfter({"Open"}))
             /\ flights[s].kind = "Plan" => input' = input
  <2>1. OneWorthwhile(P) /\ Outdated(P)
    BY <1>8 DEF Disciplined
  <2>2. k = "none" /\ (P.guarded => BusyAfter({"Open"}))
    <3>1. CASE P.guarded
      <4>1. busy /\ {"Open"} \cap P.frees = {}
        BY <1>8, <2>1, <3>1 DEF Inv, OneValid, OneWorthwhile
      <4> QED
        BY <1>3, <3>1, <4>1 DEF MayAsk, BusyAfter
    <3>2. CASE ~P.guarded
      BY <1>3, <1>8, <2>1, <3>2 DEF OneWorthwhile
    <3> QED
      BY <3>1, <3>2
  <2>3. flights[s].kind # "Plan"
    BY <1>7, <1>8, <2>1 DEF Outdated, Inv, Known
  <2> QED
    BY <2>2, <2>3
<1>9. ASSUME P.late = "revision", P.freesAll, P.guarded, NEW s \in Slots, flights[s] # NoFlight
      PROVE  k = "none" /\ BusyAfter({"Open"})
  <2>1. busy /\ P.frees = {}
    BY <1>9 DEF Inv, OneFlight, Disciplined, OneWorthwhile
  <2> QED
    BY <1>3, <1>9, <2>1 DEF MayAsk, BusyAfter
<1>10. Harmless(flights, BusyAfter({"Open"}), {"Open", k}, k)
  BY <1>3, <1>4, <1>5, <1>6, <1>7, <1>8, <1>9 DEF Harmless, Open, Inv, TypeOK
<1> QED
  BY <1>2, <1>4, <1>10, ReactKeeps

LEMMA AskKeeps ==
    ASSUME Inv, Disciplined(P), NEW k \in {"Read", "Plan"}, Ask(k)
    PROVE  Inv'
<1> USE DEF Sending
<1>1. k \in P.kinds /\ MayAsk({}) /\ React(flights, busy, {k}, k, input)
  BY DEF Ask
<1>2. list' \in {"none", "now"} /\ input \in Inputs \cup {None}
  BY Basics DEF Ask, ListAfter, Inv, TypeOK
<1>3. plan' = None
  BY <1>1, Basics DEF React, Disciplined, PreviewGoes
<1>4. k = "Plan" => input' # None
  BY <1>1 DEF Ask, React, Disciplined, PreviewGoes
<1>5. ASSUME P.late = "revision", NEW s \in Slots, flights[s] # NoFlight, flights[s].valid
      PROVE  {k} \cap P.bumps # {}
  <2>1. OneWorthwhile(P)
    BY <1>5 DEF Disciplined
  <2>2. ~P.guarded
    BY <1>1, <1>5 DEF MayAsk, Inv, OneValid
  <2> QED
    BY <1>1, <2>1, <2>2 DEF OneWorthwhile
<1>6. ASSUME P.late = "revision", P.freesAll, P.guarded, NEW s \in Slots, flights[s] # NoFlight
      PROVE  FALSE
  BY <1>1, <1>6 DEF MayAsk, Inv, OneFlight
<1>7. Harmless(flights, busy, {k}, k)
  BY <1>1, <1>2, <1>3, <1>4, <1>5, <1>6 DEF Harmless, Ask, Inv, TypeOK, Fresh
<1> QED
  BY <1>1, <1>2, <1>7, ReactKeeps

LEMMA ChangeKeeps ==
    ASSUME Inv, Disciplined(P), NEW c \in {"plain", "asks", "scope"}, Change(c)
    PROVE  Inv'
<1> USE DEF Sending
<1>1. PICK i \in (Inputs \cup {None}) \ {input} :
        LET sent == IF c = "asks" /\ i # None /\ MayAsk({"Change"}) THEN "Plan" ELSE "none"
            E == {"Change", sent} \cup (IF c = "scope" THEN {"Scope"} ELSE {})
        IN  React(flights, BusyAfter(E), E, sent, i) /\ list' = ListAfter(E)
  BY DEF Change
<1> DEFINE k == IF c = "asks" /\ i # None /\ MayAsk({"Change"}) THEN "Plan" ELSE "none"
           E == {"Change", k} \cup (IF c = "scope" THEN {"Scope"} ELSE {})
<1>2. React(flights, BusyAfter(E), E, k, i) /\ list' = ListAfter(E)
  BY <1>1
<1>3. /\ k \in {"Plan", "none"} /\ k \in P.kinds \cup {"none"}
      /\ k # "none" => c = "asks" /\ "asks" \in P.change /\ i # None /\ MayAsk({"Change"})
  BY DEF Change, Disciplined, WellFormed
<1>4. "Change" \in E /\ k \in E /\ "Close" \notin E /\ (k # "none" => E = {"Change", "Plan"})
  BY <1>3
<1> HIDE DEF k, E
<1>5. /\ i \in Inputs \cup {None} /\ BusyAfter(E) \in BOOLEAN /\ list' \in {"none", "now"}
  BY <1>1, <1>2, Basics DEF Inv, TypeOK, BusyAfter, ListAfter
<1>6. plan' = None
  BY <1>2, <1>4, Basics DEF React, Disciplined, PreviewGoes
<1>7. k = "Plan" => input' # None
  BY <1>2, <1>3, <1>4 DEF React, Disciplined, PreviewGoes
<1>8. ASSUME P.late = "revision", NEW s \in Slots, flights[s] # NoFlight, flights[s].valid,
             E \cap P.bumps = {}
      PROVE  /\ k = "none" /\ (P.guarded => BusyAfter(E))
             /\ flights[s].kind = "Plan" => input' = input
  <2>1. OneWorthwhile(P) /\ Outdated(P)
    BY <1>8 DEF Disciplined
  <2>2. "Plan" \notin P.kinds
    <3>1. P.guarded => busy
      BY <1>8 DEF Inv, OneValid
    <3>2. ~(P.guarded /\ P.frozen) /\ P.change # {}
      BY <3>1 DEF Change, Locked
    <3> QED
      BY <1>4, <1>8, <2>1, <3>2 DEF Outdated
  <2>3. k = "none" /\ flights[s].kind # "Plan"
    BY <1>3, <1>8, <2>2 DEF Inv, Known
  <2>4. P.guarded => BusyAfter(E)
    BY <1>8, <2>1 DEF Inv, OneValid, OneWorthwhile, BusyAfter
  <2> QED
    BY <2>3, <2>4
<1>9. ASSUME P.late = "revision", P.freesAll, P.guarded, NEW s \in Slots, flights[s] # NoFlight
      PROVE  k = "none" /\ BusyAfter(E)
  <2>1. busy /\ P.frees = {}
    BY <1>9 DEF Inv, OneFlight, Disciplined, OneWorthwhile
  <2> QED
    BY <1>3, <1>9, <2>1 DEF MayAsk, BusyAfter
<1>10. Harmless(flights, BusyAfter(E), E, k)
  BY <1>3, <1>4, <1>5, <1>6, <1>7, <1>8, <1>9 DEF Harmless, Change, Inv, TypeOK, Fresh
<1> QED
  BY <1>2, <1>5, <1>10, ReactKeeps

LEMMA ApplyKeeps ==
    ASSUME Inv, Disciplined(P), Apply
    PROVE  Inv'
<1> USE DEF Sending
<1> DEFINE k == IF P.applies = "request" THEN "Apply" ELSE "none"
           E == {"Apply"} \cup (IF P.applies = "request" \/ P.panel THEN {} ELSE {"Close"})
<1>1. /\ React(flights, BusyAfter(E), E, k, input) /\ list' = ListAfter(E)
      /\ open' = (P.applies = "request" \/ P.panel) /\ CanApply
  BY DEF Apply
<1>2. /\ k \in P.kinds \cup {"none"} /\ k # "Plan" /\ "Apply" \in E
      /\ k # "none" => k = "Apply" /\ MayAsk({})
      /\ "Close" \in E => ~open' /\ ~P.panel
      /\ "Open" \notin E /\ (P.panel => open')
  BY <1>1 DEF CanApply
<1> HIDE DEF k, E
<1>3. /\ input \in Inputs \cup {None} /\ BusyAfter(E) \in BOOLEAN /\ list' \in {"none", "now"}
      /\ open' \in BOOLEAN
  BY <1>1, Basics DEF Inv, TypeOK, BusyAfter, ListAfter
<1>4. input' # input => plan' = None
  BY <1>1, Basics DEF React, Disciplined, PreviewGoes
<1>5. P.late = "revision" /\ k # "none" => plan' = None
  BY <1>1, <1>2, Basics DEF React, Disciplined
<1>6. ASSUME P.late = "revision", NEW s \in Slots, flights[s] # NoFlight, flights[s].valid,
             E \cap P.bumps = {}
      PROVE  k = "none" /\ (P.guarded => BusyAfter(E)) /\ input' = input
  <2>1. OneWorthwhile(P) /\ Outdated(P)
    BY <1>6 DEF Disciplined
  <2>2. P.guarded => busy
    BY <1>6 DEF Inv, OneValid
  <2>3. k = "none"
    BY <1>1, <1>2, <1>6, <2>1, <2>2 DEF MayAsk, OneWorthwhile
  <2>4. P.guarded => BusyAfter(E)
    BY <1>6, <2>1, <2>2 DEF OneWorthwhile, BusyAfter
  <2>5. E \cap P.dropList = {}
    <3>1. P.dropList \subseteq P.bumps \cup {"Open"}
      BY <2>1 DEF Outdated
    <3> QED
      BY <1>2, <1>6, <3>1
  <2> QED
    BY <1>1, <2>3, <2>4, <2>5 DEF React
<1>7. ASSUME P.late = "revision", P.freesAll, P.guarded, NEW s \in Slots, flights[s] # NoFlight
      PROVE  k = "none" /\ BusyAfter(E)
  <2>1. busy /\ P.frees = {}
    BY <1>7 DEF Inv, OneFlight, Disciplined, OneWorthwhile
  <2> QED
    BY <1>2, <1>7, <2>1 DEF MayAsk, BusyAfter
<1>8. applied' \in Inputs \cup {None}
  BY DEF Apply, Inv, TypeOK, Preview
<1>9. Harmless(flights, BusyAfter(E), E, k)
  BY <1>1, <1>2, <1>3, <1>4, <1>5, <1>6, <1>7, <1>8 DEF Harmless, Apply, CanApply, Inv, TypeOK
<1> QED
  BY <1>1, <1>3, <1>9, ReactKeeps

LEMMA ShutKeeps ==
    ASSUME Inv, Disciplined(P), Shut
    PROVE  Inv'
<1> USE DEF Sending
<1> DEFINE E == {"Close"}
<1>1. /\ React(flights, BusyAfter(E), E, "none", input) /\ list' = ListAfter(E)
      /\ open /\ ~P.panel /\ open' = FALSE
  BY DEF Shut
<1>2. /\ input \in Inputs \cup {None} /\ BusyAfter(E) \in BOOLEAN /\ list' \in {"none", "now"}
  BY <1>1, Basics DEF Inv, TypeOK, BusyAfter, ListAfter
<1>3. input' # input => plan' = None
  BY <1>1, Basics DEF React, Disciplined, PreviewGoes
<1>4. ASSUME P.late = "revision", NEW s \in Slots, flights[s] # NoFlight, flights[s].valid,
             E \cap P.bumps = {}
      PROVE  (P.guarded => BusyAfter(E)) /\ input' = input
  <2>1. OneWorthwhile(P) /\ Outdated(P)
    BY <1>4 DEF Disciplined
  <2>2. P.guarded => BusyAfter(E)
    BY <1>4, <2>1 DEF OneWorthwhile, BusyAfter, Inv, OneValid
  <2>3. E \cap P.dropList = {}
    BY <1>4, <2>1 DEF Outdated
  <2> QED
    BY <1>1, <2>2, <2>3 DEF React
<1>5. ASSUME P.late = "revision", P.freesAll, P.guarded, NEW s \in Slots, flights[s] # NoFlight
      PROVE  BusyAfter(E)
  BY <1>5 DEF Inv, OneFlight, Disciplined, OneWorthwhile, BusyAfter
<1> HIDE DEF E
<1>6. Harmless(flights, BusyAfter(E), E, "none")
  BY <1>1, <1>2, <1>3, <1>4, <1>5 DEF Harmless, Shut, Inv, TypeOK
<1> QED
  BY <1>1, <1>2, <1>6, ReactKeeps

LEMMA AnswerListKeeps ==
    ASSUME Inv, Disciplined(P), NEW s \in Slots, Sending(s), AnswerList(s)
    PROVE  Inv'
<1> USE DEF Sending
<1>1. P.late = "revision"
  BY DEF AnswerList, Disciplined, Inv, Known
<1>2. /\ flights[s].valid /\ open /\ plan = None
      /\ OneWorthwhile(P) /\ Outdated(P)
  BY <1>1 DEF AnswerList, Used, Inv, OneValid, Disciplined
<1>3. list' = "now"
  BY <1>2 DEF AnswerList, Outdated, Inv, Fresh
<1>4. PICK i \in Choices(P.picks) :
        LET sent == IF P.chains /\ i # None THEN "Plan" ELSE "none"
        IN  React(Without(s), Freed(flights[s]), {sent}, sent, i)
  BY DEF AnswerList
<1> DEFINE k == IF P.chains /\ i # None THEN "Plan" ELSE "none"
<1>5. React(Without(s), Freed(flights[s]), {k}, k, i)
  BY <1>4
<1>6. /\ k \in {"Plan", "none"} /\ k \in P.kinds \cup {"none"} /\ (k = "Plan" => i # None)
      /\ i \in Inputs \cup {None}
  BY <1>4, Basics DEF Disciplined, WellFormed
<1> HIDE DEF k
<1>7. plan' = None
  BY <1>2, <1>5 DEF React
<1>8. k = "Plan" => input' # None
  BY <1>5, <1>6 DEF React, Disciplined, PreviewGoes
<1>9. Without(s) \in [Slots -> Flight \cup {NoFlight}]
  BY DEF Without, Inv, TypeOK
<1>10. \A t \in Slots : Without(s)[t] # NoFlight => t # s /\ Without(s)[t] = flights[t]
  BY DEF Without, Inv, TypeOK
<1>11. \A t \in Slots : Without(s)[t] # NoFlight => ~Without(s)[t].valid
  BY <1>1, <1>2, <1>10 DEF Inv, OneValid
<1>12. P.freesAll /\ P.guarded => \A t \in Slots : Without(s)[t] = NoFlight
  BY <1>1, <1>10 DEF Inv, OneFlight
<1>13. Freed(flights[s]) \in BOOLEAN
  BY DEF Freed, Inv, TypeOK
<1>14. Harmless(Without(s), Freed(flights[s]), {k}, k)
  BY <1>1, <1>2, <1>3, <1>6, <1>7, <1>8, <1>9, <1>10, <1>11, <1>12, <1>13
     DEF Harmless, AnswerList, Inv, TypeOK
<1> QED
  BY <1>5, <1>6, <1>14, ReactKeeps

\* What is left when an answer has arrived.
LEMMA WithoutKeeps ==
    ASSUME Inv, Disciplined(P), NEW s \in Slots, Sending(s),
           UNCHANGED <<dlg, open>>, flights' = Without(s), busy' = Freed(flights[s]),
           P.late = "revision" => UNCHANGED <<plan, input>> \/ flights[s].valid
    PROVE  /\ Known' /\ OneValid' /\ OneFlight' /\ busy' \in BOOLEAN
           /\ flights' \in [Slots -> Flight \cup {NoFlight}]
           /\ list' # "late" => Fresh'
<1> USE DEF Sending
<1>1. P' = P
  BY DEF P
<1>2. /\ flights' \in [Slots -> Flight \cup {NoFlight}]
      /\ \A t \in Slots : flights'[t] # NoFlight => t # s /\ flights'[t] = flights[t]
  BY DEF Without, Inv, TypeOK
<1>3. busy' \in BOOLEAN
  BY DEF Freed, Inv, TypeOK
<1>4. Known'
  BY <1>1, <1>2 DEF Known, Inv
<1>5. list' # "late" => Fresh'
  BY <1>1, <1>2 DEF Fresh, Inv
<1>6. OneFlight'
  BY <1>1, <1>2 DEF OneFlight, Inv
<1>7. OneValid'
  <2> SUFFICES ASSUME P.late = "revision", NEW t \in Slots, flights'[t] # NoFlight, flights'[t].valid
               PROVE  /\ plan' = None
                      /\ flights'[t].kind = "Plan" => flights'[t].input = input'
                      /\ P.guarded => busy'
                      /\ \A u \in Slots : flights'[u] # NoFlight /\ flights'[u].valid => u = t
    BY <1>1 DEF OneValid
  <2>1. ~flights[s].valid /\ UNCHANGED <<plan, input>>
    BY <1>2 DEF OneValid, Inv
  <2>2. P.guarded => ~P.freesAll
    BY <1>2 DEF OneFlight, Inv
  <2>3. P.guarded => busy'
    BY <1>2, <2>1, <2>2 DEF OneValid, Inv, Freed
  <2> QED
    BY <1>2, <2>1, <2>3 DEF OneValid, Inv
<1> QED
  BY <1>2, <1>3, <1>4, <1>5, <1>6, <1>7

LEMMA AnswerPlanKeeps ==
    ASSUME Inv, Disciplined(P), NEW s \in Slots, Sending(s), AnswerPlan(s)
    PROVE  Inv'
<1> USE DEF Sending
<1>1. P' = P /\ flights[s].kind = "Plan" /\ "Plan" \in P.kinds /\ flights[s] \in Flight
  BY DEF P, AnswerPlan, Inv, Known, TypeOK
<1>2. plan' = [input |-> flights[s].input, late |-> flights[s].old] /\ plan' \in Preview
  BY <1>1 DEF AnswerPlan, Preview, Flight
<1>3. flights[s].input = input /\ (open => ~flights[s].old)
  <2>1. CASE P.late = "revision"
    BY <1>1, <2>1 DEF AnswerPlan, Used, Inv, OneValid, Fresh, Disciplined, Outdated
  <2>2. CASE P.late # "revision"
    BY <1>1, <2>2 DEF AnswerPlan, Used, Inv, Fresh, Disciplined
  <2> QED
    BY <2>1, <2>2
<1>4. /\ Known' /\ OneFlight' /\ OneValid' /\ Fresh' /\ busy' \in BOOLEAN
      /\ flights' \in [Slots -> Flight \cup {NoFlight}]
  <2>1. P.late = "revision" => flights[s].valid
    BY DEF AnswerPlan, Used
  <2>2. list' # "late"
    BY DEF AnswerPlan, Inv, Fresh
  <2> QED
    BY <2>1, <2>2, WithoutKeeps DEF AnswerPlan
<1>5. PlanIsCurrent'
  BY <1>1, <1>2, <1>3 DEF PlanIsCurrent, AnswerPlan, Inv, Known
<1>6. Returnable'
  <2>1. plan' # None
    BY <1>2, DialogsAssumption DEF DialogsAssumption, Preview
  <2>2. P.reserves => plan = None
    BY DEF AnswerPlan, Used, Disciplined, Inv, OneValid
  <2> QED
    BY <1>1, <2>1, <2>2 DEF AnswerPlan, Returnable, NoForgottenPreview, Inv
<1>7. TypeOK'
  <2>1. reserved' \in Nat
    BY <1>6 DEF Returnable, NoForgottenPreview
  <2> QED
    BY <1>2, <1>4, <2>1 DEF AnswerPlan, Inv, TypeOK
<1> QED
  BY <1>4, <1>5, <1>6, <1>7 DEF Inv

\* The other ends of a request.
LEMMA EndKeeps ==
    ASSUME Inv, Disciplined(P), NEW s \in Slots, Sending(s), NEW empty,
           End(s, empty, reserved), empty => P.late = "revision" /\ flights[s].valid
    PROVE  Inv'
<1> USE DEF Sending
<1>1. P' = P /\ UNCHANGED <<dlg, open, plan, reserved>> /\ input' \in {input, None}
  BY DEF P, End
<1>2. list' # "late" /\ list' \in {"none", "now"}
  BY Basics DEF End
<1>3. /\ Known' /\ OneFlight' /\ OneValid' /\ Fresh' /\ busy' \in BOOLEAN
      /\ flights' \in [Slots -> Flight \cup {NoFlight}]
  <2>1. UNCHANGED <<plan, input>> \/ flights[s].valid
    BY <1>1 DEF End
  <2> QED
    BY <1>1, <1>2, <2>1, WithoutKeeps DEF End
<1>4. PlanIsCurrent'
  <2>1. plan # None => UNCHANGED input
    BY DEF End, Inv, OneValid
  <2> QED
    BY <1>1, <2>1 DEF PlanIsCurrent, Inv
<1>5. Returnable'
  BY <1>1 DEF Returnable, NoForgottenPreview, Inv
<1>6. TypeOK'
  BY <1>1, <1>2, <1>3 DEF End, Inv, TypeOK
<1> QED
  BY <1>3, <1>4, <1>5, <1>6 DEF Inv

LEMMA AnswerKeeps ==
    ASSUME Inv, Disciplined(P), NEW s \in Slots, Answer(s) \/ Lost(s)
    PROVE  Inv'
<1>1. Sending(s)
  BY DEF Answer, Lost, Pending, Sending
<1>2. CASE AnswerList(s)
  BY <1>1, <1>2, AnswerListKeeps
<1>3. CASE AnswerPlan(s)
  BY <1>1, <1>3, AnswerPlanKeeps
<1>4. CASE AnswerApply(s)
  <2>1. P.afterApply = "dropList" => P.late = "revision" /\ flights[s].valid
    BY <1>4 DEF AnswerApply, Used, Disciplined
  <2> DEFINE empty == P.afterApply = "dropList"
  <2>2. End(s, empty, reserved)
    BY <1>4 DEF AnswerApply
  <2> HIDE DEF empty
  <2> QED
    BY <1>1, <2>1, <2>2, EndKeeps DEF empty
<1>5. CASE AnswerIgnored(s)
  <2>1. End(s, FALSE, reserved)
    BY <1>5 DEF AnswerIgnored, LeftOver
  <2> QED
    BY <1>1, <2>1, EndKeeps
<1>6. CASE Lost(s)
  <2> DEFINE empty == Used(flights[s]) /\ flights[s].kind \in P.failList
  <2>1. End(s, empty, reserved)
    BY <1>6 DEF Lost, Fail
  <2>2. empty => P.late = "revision" /\ flights[s].valid
    BY DEF Used, Disciplined
  <2> HIDE DEF empty
  <2> QED
    BY <1>1, <2>1, <2>2, EndKeeps
<1> QED
  BY <1>2, <1>3, <1>4, <1>5, <1>6 DEF Answer

LEMMA StutterKeeps ==
    ASSUME Inv, UNCHANGED vars
    PROVE  Inv'
BY DEF vars, shown, Inv, TypeOK, Known, PlanIsCurrent, Fresh, OneValid, OneFlight, Returnable,
       NoForgottenPreview, P, Sending

\* The tick, the second selection and the button that gives a preview back.
LEMMA MarkKeeps ==
    ASSUME Inv, Tick \/ PickGroup \/ Discard
    PROVE  Inv'
<1>1. P' = P /\ UNCHANGED <<dlg, open, busy, list, input, flights>>
  BY DEF P, Tick, PickGroup, Discard
<1>2. Known' /\ Fresh' /\ OneFlight'
  BY <1>1 DEF Known, Fresh, OneFlight, Sending, Inv
<1>3. plan' \in {plan, None} /\ PlanIsCurrent' /\ OneValid'
  BY <1>1 DEF Tick, PickGroup, Discard, PlanIsCurrent, OneValid, Sending, Inv
<1>4. Returnable'
  BY <1>1 DEF Tick, PickGroup, Discard, Returnable, NoForgottenPreview, Inv
<1>5. TypeOK'
  <2>1. confirmed' \in {"no", "early", "seen"} /\ picked' \in BOOLEAN
        /\ UNCHANGED <<attempted, applied>>
    BY DEF Tick, PickGroup, Discard, TickAfterPick, Inv, TypeOK
  <2>2. reserved' \in Nat
    BY <1>4 DEF Returnable, NoForgottenPreview
  <2> QED
    BY <1>1, <1>3, <2>1, <2>2 DEF Inv, TypeOK
<1> QED
  BY <1>2, <1>3, <1>4, <1>5 DEF Inv

LEMMA InitInv ==
    ASSUME DisciplinedDialogs, Init
    PROVE  Inv
<1>1. Disciplined(P) /\ P.panel \in BOOLEAN
  BY DEF Init, P, DisciplinedDialogs, Disciplined, WellFormed
<1>2. TypeOK
  BY <1>1 DEF Init, TypeOK
<1>3. Known /\ PlanIsCurrent /\ Fresh /\ OneValid /\ OneFlight
  BY DEF Init, Known, PlanIsCurrent, Fresh, OneValid, OneFlight, Sending
<1>4. Returnable
  BY DEF Init, Returnable, NoForgottenPreview
<1> QED
  BY <1>2, <1>3, <1>4 DEF Inv

LEMMA NextKeeps ==
    ASSUME DisciplinedDialogs, Inv, [Next]_vars
    PROVE  Inv'
<1>1. Disciplined(P)
  BY DEF P, DisciplinedDialogs, Inv, TypeOK
<1>2. CASE Open
  BY <1>1, <1>2, OpenKeeps
<1>3. CASE Tick \/ PickGroup \/ Discard
  BY <1>3, MarkKeeps
<1>4. CASE Apply
  BY <1>1, <1>4, ApplyKeeps
<1>5. CASE CloseButton \/ Escape
  BY <1>1, <1>5, ShutKeeps DEF CloseButton, Escape
<1>6. ASSUME NEW k \in {"Read", "Plan"}, Ask(k)
      PROVE  Inv'
  BY <1>1, <1>6, AskKeeps
<1>7. ASSUME NEW c \in {"plain", "asks", "scope"}, Change(c)
      PROVE  Inv'
  BY <1>1, <1>7, ChangeKeeps
<1>8. ASSUME NEW s \in Slots, Answer(s) \/ Lost(s)
      PROVE  Inv'
  BY <1>1, <1>8, AnswerKeeps
<1>9. CASE UNCHANGED vars
  BY <1>9, StutterKeeps
<1> QED
  BY <1>2, <1>3, <1>4, <1>5, <1>6, <1>7, <1>8, <1>9 DEF Next

\* The invariant holds of every page whose dialogs are disciplined.
LEMMA SpecInv ==
    ASSUME DisciplinedDialogs
    PROVE  Spec => []Inv
<1>1. Init => Inv
  BY InitInv
<1>2. Inv /\ [Next]_vars => Inv'
  BY NextKeeps
<1> QED
  BY <1>1, <1>2, PTL DEF Spec

-----------------------------------------------------------------------------
\* Every variable keeps its type, whatever the profiles, as long as they are
\* disciplined.
THEOREM DialogsTypeCorrect ==
    ASSUME DisciplinedDialogs
    PROVE  Spec => []TypeOK
<1>1. Inv => TypeOK
  BY DEF Inv
<1> QED
  BY <1>1, SpecInv, PTL

\* Whatever is changed, closed, opened again or answered late: what an open
\* dialog offers was previewed for what is chosen in it, in this opening.
THEOREM OffersAreCurrent ==
    ASSUME DisciplinedDialogs
    PROVE  Spec => []OfferIsCurrent
<1>1. Inv => OfferIsCurrent
  BY DEF Inv, PlanIsCurrent, Fresh, OfferIsCurrent
<1> QED
  BY <1>1, SpecInv, PTL

\* No order of answers, changes and closings leaves a preview with the server
\* that the page has forgotten.
THEOREM PreviewsAreGivenBack ==
    ASSUME DisciplinedDialogs
    PROVE  Spec => []NoForgottenPreview
<1>1. Inv => NoForgottenPreview
  BY DEF Inv, Returnable
<1> QED
  BY <1>1, SpecInv, PTL

-----------------------------------------------------------------------------
(* The dialogs implement OfferedPlan.                                      *)

Shows == IF open /\ plan # None THEN plan.input ELSE None

\* An event that takes the preview away.
LEMMA Taken ==
    ASSUME Inv, Disciplined(P), NEW fs, NEW b, NEW E, NEW k, NEW i, React(fs, b, E, k, i),
           E \cap ({"Open", "Change"} \cup (P.kinds \ {"Apply"})) # {}
    PROVE  plan' = None
BY Basics DEF React, Disciplined, PreviewGoes

LEMMA OfferedStep ==
    ASSUME DisciplinedDialogs, Inv, Inv', [Next]_vars
    PROVE  [Offered!Next]_Offered!vars
<1> USE DEF Sending
<1>1. Disciplined(P) /\ input' \in Inputs \cup {None}
  BY DEF P, DisciplinedDialogs, Inv, TypeOK
<1>2. Shows' = None /\ UNCHANGED applied => Offered!Choose
  BY <1>1 DEF Offered!Choose, Shows
<1>3. UNCHANGED <<open, plan, input, applied>> => UNCHANGED Offered!vars
  BY DEF Offered!vars
<1>4. CASE Open
  <2>1. plan' = None
    BY <1>1, <1>4, Taken DEF Open
  <2> QED
    BY <1>2, <1>4, <2>1 DEF Open, Shows, Offered!Next
<1>5. ASSUME NEW k \in {"Read", "Plan"}, Ask(k)
      PROVE  Offered!Next
  <2>1. plan' = None
    BY <1>1, <1>5, Taken DEF Ask
  <2> QED
    BY <1>2, <1>5, <2>1 DEF Ask, Shows, Offered!Next
<1>6. ASSUME NEW c \in {"plain", "asks", "scope"}, Change(c)
      PROVE  Offered!Next
  <2>1. plan' = None
    BY <1>1, <1>6, Taken DEF Change
  <2> QED
    BY <1>2, <1>6, <2>1 DEF Change, Shows, Offered!Next
<1>7. CASE Tick \/ PickGroup
  BY <1>3, <1>7 DEF Tick, PickGroup
<1>8. CASE Discard
  BY <1>2, <1>8 DEF Discard, Shows, Offered!Next
<1>9. CASE Apply
  <2>1. CASE plan = None
    BY <1>2, <1>9, <2>1 DEF Apply, React, Shows, Offered!Next
  <2>2. CASE plan # None
    <3>1. open /\ Shows = plan.input /\ plan.input = input /\ input # None /\ applied' = Shows
      BY <1>9, <2>2, DialogsAssumption
         DEF Apply, CanApply, Shows, Inv, PlanIsCurrent, DialogsAssumption
    <3>2. plan' \in {plan, None} /\ input' \in {input, None} /\ (plan' = plan => input' = input)
      BY <1>1, <1>9, <2>2 DEF Apply, React, Inv, PlanIsCurrent, Disciplined, PreviewGoes
    <3>3. \/ UNCHANGED <<input, Shows>>
          \/ Shows' = None
      BY <3>1, <3>2 DEF Shows
    <3> QED
      BY <3>1, <3>2, <3>3 DEF Shows, Offered!Apply, Offered!Next
  <2> QED
    BY <2>1, <2>2
<1>10. CASE CloseButton \/ Escape
  BY <1>2, <1>10 DEF CloseButton, Escape, Shut, Shows, Offered!Next
<1>11. ASSUME NEW s \in Slots, Answer(s) \/ Lost(s)
       PROVE  [Offered!Next]_Offered!vars
  <2>1. s \in Slots /\ Sending(s)
    BY <1>11 DEF Answer, Lost, Pending
  <2>2. P.late = "revision" /\ flights[s].valid => plan = None
    BY <2>1 DEF Inv, OneValid
  <2>3. CASE AnswerList(s)
    <3>1. plan = None
      BY <1>1, <2>1, <2>2, <2>3 DEF AnswerList, Used, Disciplined, Inv, Known
    <3> QED
      BY <1>2, <2>3, <3>1 DEF AnswerList, React, Shows, Offered!Next
  <2>4. CASE AnswerPlan(s)
    <3>1. UNCHANGED <<open, input, applied>>
      BY <2>4 DEF AnswerPlan
    <3>2. plan' # None => plan'.input = input /\ input \in Inputs
      BY <3>1 DEF Inv, PlanIsCurrent
    <3>3. CASE Shows' = None
      BY <1>2, <3>1, <3>3 DEF Offered!Next
    <3>4. CASE Shows' # None
      <4>1. Shows' = input /\ input # None
        BY <3>2, <3>4, DialogsAssumption DEF Shows, DialogsAssumption
      <4> QED
        BY <3>1, <4>1 DEF Offered!Offer, Offered!Next, Shows
    <3> QED
      BY <3>3, <3>4
  <2>5. CASE AnswerApply(s)
    BY <1>1, <1>2, <1>3, <2>2, <2>5 DEF AnswerApply, Used, End, Disciplined, Shows, Offered!Next
  <2>6. CASE AnswerIgnored(s)
    BY <1>3, <2>6 DEF AnswerIgnored, End
  <2>7. CASE Lost(s)
    BY <1>1, <1>2, <1>3, <2>2, <2>7 DEF Lost, Fail, Used, End, Disciplined, Shows, Offered!Next
  <2> QED
    BY <1>11, <2>3, <2>4, <2>5, <2>6, <2>7 DEF Answer
<1>12. CASE UNCHANGED vars
  BY <1>3, <1>12 DEF vars, shown
<1> QED
  BY <1>4, <1>5, <1>6, <1>7, <1>8, <1>9, <1>10, <1>11, <1>12 DEF Next

\* Every dialog is an OfferedPlan: whatever the operator does while requests are
\* under way and in whatever order they are answered, only what is chosen and
\* previewed at that moment is ever applied.
THEOREM DialogsImplementOffer ==
    ASSUME DisciplinedDialogs
    PROVE  Spec => ImplementsOffer
<1>1. Init => Offered!Init
  BY DEF Init, Offered!Init
<1>2. Inv /\ Inv' /\ [Next]_vars => [Offered!Next]_Offered!vars
  BY OfferedStep
<1> QED
  BY <1>1, <1>2, SpecInv, PTL DEF Spec, ImplementsOffer, Offered!Spec

-----------------------------------------------------------------------------
(* The tick.                                                               *)

\* A tick made without a preview is worth nothing: the selection it has to
\* stand beside takes it away.
TickInv ==
    /\ confirmed # "no" /\ P.confirms # "early" => confirmed = "seen"
    /\ plan # None /\ confirmed = "early" => ~picked

LEMMA TickStep ==
    ASSUME DisciplinedDialogs, Inv, TickInv, [Next]_vars
    PROVE  TickInv'
<1>1. P' = P
  BY DEF P, Next, Open, Ask, Change, Tick, PickGroup, Discard, Apply, CloseButton, Escape, Shut,
         Answer, Lost, Fail, AnswerList, AnswerPlan, AnswerApply, AnswerIgnored, End, vars
<1>2. ASSUME NEW fs, NEW b, NEW E, NEW k, NEW i, React(fs, b, E, k, i), UNCHANGED picked
      PROVE  TickInv'
  BY <1>1, <1>2 DEF React, TickInv
<1>3. CASE Tick
  BY <1>1, <1>3 DEF Tick, TickInv, Inv, TypeOK
<1>4. ASSUME NEW s \in Slots, AnswerPlan(s)
      PROVE  TickInv'
  BY <1>1, <1>4 DEF AnswerPlan, TickInv
<1>5. ASSUME NEW s, NEW e, NEW l, End(s, e, l)
      PROVE  TickInv'
  BY <1>1, <1>5 DEF End, TickInv
<1>6. ASSUME NEW s \in Slots, Answer(s) \/ Lost(s)
      PROVE  TickInv'
  BY <1>2, <1>4, <1>5, <1>6
     DEF Answer, Lost, Fail, AnswerList, AnswerApply, AnswerIgnored
<1>7. CASE PickGroup \/ Discard \/ UNCHANGED vars
  BY <1>1, <1>7 DEF PickGroup, Discard, TickAfterPick, TickInv, vars, shown
<1>8. CASE Open \/ Apply \/ CloseButton \/ Escape
  BY <1>2, <1>8 DEF Open, Apply, CloseButton, Escape, Shut
<1>9. ASSUME NEW k \in {"Read", "Plan"}, Ask(k)
      PROVE  TickInv'
  BY <1>2, <1>9 DEF Ask
<1>10. ASSUME NEW c \in {"plain", "asks", "scope"}, Change(c)
       PROVE  TickInv'
  BY <1>2, <1>10 DEF Change
<1> QED
  BY <1>3, <1>6, <1>7, <1>8, <1>9, <1>10 DEF Next

\* No preview is carried out on the strength of a tick made before it was shown.
THEOREM TicksFollowPreviews ==
    ASSUME DisciplinedDialogs
    PROVE  Spec => []TickedAfterPreview
<1>1. Init => TickInv
  BY DEF Init, TickInv
<1>2. Inv /\ TickInv /\ [Next]_vars => TickInv'
  BY TickStep
<1>3. Inv /\ TickInv => TickedAfterPreview
  <2>1. Inv => Disciplined(P)
    BY DEF P, DisciplinedDialogs, Inv, TypeOK
  <2> QED
    BY <2>1 DEF TickedAfterPreview, CanApply, TickInv, Inv, TypeOK, PlanIsCurrent, Disciplined,
                PreviewGoes
<1> QED
  BY <1>1, <1>2, <1>3, SpecInv, PTL DEF Spec

-----------------------------------------------------------------------------
(* One Apply at a time.                                                    *)

\* Where the dialog cannot be opened meanwhile, the Apply of an open dialog
\* keeps it busy.
ApplyInv ==
    P.oneApply \/ "Apply" \in P.bars =>
        /\ \A s, t \in Applying : s = t
        /\ ~P.oneApply /\ open => \A s \in Applying : flights[s].valid /\ busy

\* No Apply is under way after an event but those from before and the one sent.
LEMMA ApplyingAfter ==
    ASSUME Inv, NEW fs \in [Slots -> Flight \cup {NoFlight}], NEW b, NEW E,
           NEW k \in Kinds \cup {"none"}, NEW i, React(fs, b, E, k, i),
           input' \in Inputs \cup {None},
           \A s \in Slots : fs[s] # NoFlight => fs[s] = flights[s]
    PROVE  /\ k # "Apply" => \A s \in Applying' : s \in Applying /\ fs[s] # NoFlight
           /\ Applying = {} => /\ \A s, t \in Applying' : s = t
                               /\ \A s \in Applying' : k = "Apply" /\ flights'[s].valid
<1>1. PICK n \in Slots : \A s \in Slots : flights'[s] # NoFlight =>
            \/ fs[s] # NoFlight /\ flights'[s] = Stale(fs[s], E)
            \/ /\ k # "none" /\ s = n /\ fs[s] = NoFlight
               /\ flights'[s] = [kind |-> k, input |-> input', valid |-> TRUE, old |-> FALSE]
  BY ReactFlights
<1>2. \A s \in Slots : fs[s] # NoFlight =>
            /\ flights[s] # NoFlight /\ fs[s] = flights[s] /\ fs[s] \in Flight
            /\ Stale(fs[s], E).kind = flights[s].kind
  BY DEF Stale, Flight
<1>3. ASSUME NEW s \in Applying'
      PROVE  /\ s \in Slots
             /\ \/ s \in Applying /\ fs[s] # NoFlight
                \/ s = n /\ k = "Apply" /\ flights'[s].valid
  <2>1. s \in Slots /\ flights'[s] # NoFlight /\ flights'[s].kind = "Apply"
    BY DEF Applying, Pending
  <2>2. CASE fs[s] # NoFlight /\ flights'[s] = Stale(fs[s], E)
    BY <1>2, <2>1, <2>2 DEF Applying, Pending
  <2>3. CASE s = n /\ flights'[s] = [kind |-> k, input |-> input', valid |-> TRUE, old |-> FALSE]
    BY <2>1, <2>3
  <2> QED
    BY <1>1, <2>1, <2>2, <2>3
<1> QED
  BY <1>3

LEMMA ApplyStep ==
    ASSUME DisciplinedDialogs, Inv, Inv', ApplyInv, [Next]_vars
    PROVE  ApplyInv'
<1> USE DEF Sending
<1>1. Disciplined(P) /\ Barred(P) /\ WellFormed(P) /\ input' \in Inputs \cup {None}
  BY DEF P, DisciplinedDialogs, Inv, TypeOK, Disciplined
<1>2. P' = P
  BY DEF P, Next, Open, Ask, Change, Tick, PickGroup, Discard, Apply, CloseButton, Escape, Shut,
         Answer, Lost, Fail, AnswerList, AnswerPlan, AnswerApply, AnswerIgnored, End, vars
<1> SUFFICES ASSUME P.oneApply \/ "Apply" \in P.bars
             PROVE  /\ \A s, t \in Applying' : s = t
                    /\ ~P.oneApply /\ open' => \A s \in Applying' : flights'[s].valid /\ busy'
  BY <1>2 DEF ApplyInv
<1>3. /\ \A s, t \in Applying : s = t
      /\ ~P.oneApply /\ open => \A s \in Applying : flights[s].valid /\ busy
      /\ ~P.oneApply => /\ P.guarded /\ P.frozen /\ ~P.panel
                        /\ P.frees \subseteq {"Open", "Close"} /\ P.applies = "request"
  BY <1>1 DEF ApplyInv, Barred
<1>4. flights \in [Slots -> Flight \cup {NoFlight}]
  BY DEF Inv, TypeOK
\* An event that may send an Apply sends it when none is under way.
<1>5. ASSUME NEW b, NEW E, NEW k \in Kinds \cup {"none"}, NEW i, React(flights, b, E, k, i),
             Applying = {}
      PROVE  /\ \A s, t \in Applying' : s = t
             /\ ~P.oneApply /\ open' => \A s \in Applying' : flights'[s].valid /\ busy'
  <2>1. /\ \A s, t \in Applying' : s = t
        /\ \A s \in Applying' : k = "Apply" /\ flights'[s].valid
    BY <1>1, <1>4, <1>5, ApplyingAfter
  <2>2. k # "none" => busy' = P.guarded
    BY <1>5 DEF React
  <2> QED
    BY <1>3, <2>1, <2>2
\* Any other event leaves those that are under way.
<1>6. ASSUME NEW b, NEW E, NEW k \in (Kinds \cup {"none"}) \ {"Apply"}, NEW i,
             React(flights, b, E, k, i), P.oneApply \/ ~open'
      PROVE  /\ \A s, t \in Applying' : s = t
             /\ ~P.oneApply /\ open' => \A s \in Applying' : flights'[s].valid /\ busy'
  <2>1. \A s \in Applying' : s \in Applying
    BY <1>1, <1>4, <1>6, ApplyingAfter
  <2> QED
    BY <1>3, <1>6, <2>1
<1>7. CASE Open
  <2>1. PICK i \in Choices(P.openInput), r \in P.onOpen :
          LET sent == IF r # "none" /\ MayAsk({"Open"}) /\ (r = "Plan" => i # None)
                      THEN r ELSE "none"
          IN  React(flights, BusyAfter({"Open"}), {"Open", sent}, sent, i)
    BY <1>7 DEF Open
  <2> DEFINE k == IF r # "none" /\ MayAsk({"Open"}) /\ (r = "Plan" => i # None)
                  THEN r ELSE "none"
  <2>2. React(flights, BusyAfter({"Open"}), {"Open", k}, k, i)
    BY <2>1
  <2>3. k \in Kinds \cup {"none"} /\ (k # "none" => MayAsk({"Open"}))
    BY <1>1, <2>1 DEF WellFormed
  <2> HIDE DEF k
  <2>4. CASE Applying = {}
    BY <1>5, <2>2, <2>3, <2>4
  <2>5. CASE Applying # {}
    <3>1. P.oneApply
      BY <1>7, <2>5 DEF Open, Applying
    <3>2. k = "none"
      BY <2>3, <2>5, <3>1 DEF MayAsk
    <3> QED
      BY <1>6, <2>2, <3>1, <3>2
  <2> QED
    BY <2>4, <2>5
<1>8. ASSUME NEW k \in {"Read", "Plan"}, Ask(k)
      PROVE  /\ \A s, t \in Applying' : s = t
             /\ ~P.oneApply /\ open' => \A s \in Applying' : flights'[s].valid /\ busy'
  <2>1. MayAsk({}) /\ open /\ React(flights, busy, {k}, k, input) /\ k \in Kinds \cup {"none"}
    BY <1>8 DEF Ask, Kinds
  <2>2. Applying = {}
    BY <1>3, <2>1 DEF MayAsk
  <2> QED
    BY <1>5, <2>1, <2>2
<1>9. ASSUME NEW c \in {"plain", "asks", "scope"}, Change(c)
      PROVE  /\ \A s, t \in Applying' : s = t
             /\ ~P.oneApply /\ open' => \A s \in Applying' : flights'[s].valid /\ busy'
  <2>1. ~Locked /\ open
    BY <1>9 DEF Change
  <2>2. Applying = {}
    BY <1>3, <2>1 DEF Locked
  <2>3. \E i, b, E, k : k \in {"Plan", "none"} /\ React(flights, b, E, k, i)
    <3>1. PICK i \in (Inputs \cup {None}) \ {input} :
            LET sent == IF c = "asks" /\ i # None /\ MayAsk({"Change"}) THEN "Plan" ELSE "none"
                E == {"Change", sent} \cup (IF c = "scope" THEN {"Scope"} ELSE {})
            IN  React(flights, BusyAfter(E), E, sent, i)
      BY <1>9 DEF Change
    <3> DEFINE k == IF c = "asks" /\ i # None /\ MayAsk({"Change"}) THEN "Plan" ELSE "none"
               E == {"Change", k} \cup (IF c = "scope" THEN {"Scope"} ELSE {})
    <3>2. React(flights, BusyAfter(E), E, k, i) /\ k \in {"Plan", "none"}
      BY <3>1
    <3> HIDE DEF k, E
    <3> QED
      BY <3>2
  <2>4. {"Plan", "none"} \subseteq Kinds \cup {"none"}
    BY DEF Kinds
  <2> QED
    BY <1>5, <2>2, <2>3, <2>4
<1>10. CASE Apply
  <2> DEFINE k == IF P.applies = "request" THEN "Apply" ELSE "none"
             E == {"Apply"} \cup (IF P.applies = "request" \/ P.panel THEN {} ELSE {"Close"})
  <2>1. /\ React(flights, BusyAfter(E), E, k, input)
        /\ k \in {"Apply", "none"} /\ (k = "Apply" <=> P.applies = "request")
    BY <1>10 DEF Apply
  <2> HIDE DEF k, E
  <2>2. open /\ (k = "Apply" => MayAsk({}))
    BY <1>10, <2>1 DEF Apply, CanApply
  <2>3. k \in Kinds \cup {"none"}
    BY <2>1 DEF Kinds
  <2>4. CASE k = "Apply"
    <3>1. Applying = {}
      BY <1>3, <2>2, <2>4 DEF MayAsk
    <3> QED
      BY <1>5, <2>1, <2>3, <3>1
  <2>5. CASE k = "none"
    <3>1. P.oneApply
      BY <1>3, <2>1, <2>5
    <3> QED
      BY <1>6, <2>1, <2>3, <2>5, <3>1
  <2> QED
    BY <2>1, <2>4, <2>5
<1>11. CASE CloseButton \/ Escape
  BY <1>6, <1>11 DEF CloseButton, Escape, Shut
<1>12. ASSUME NEW s \in Slots, Answer(s) \/ Lost(s)
       PROVE  /\ \A t, u \in Applying' : t = u
              /\ ~P.oneApply /\ open' => \A t \in Applying' : flights'[t].valid /\ busy'
  <2>1. Sending(s)
    BY <1>12 DEF Answer, Lost, Pending
  <2>2. CASE AnswerList(s)
    <3>1. PICK i \in Choices(P.picks), k \in {"Plan", "none"} :
            React(Without(s), Freed(flights[s]), {k}, k, i)
      BY <2>2 DEF AnswerList
    <3>2. /\ Without(s) \in [Slots -> Flight \cup {NoFlight}]
          /\ \A t \in Slots : Without(s)[t] # NoFlight => t # s /\ Without(s)[t] = flights[t]
      BY <1>4 DEF Without
    <3>3. k \in Kinds \cup {"none"} /\ k # "Apply"
      BY DEF Kinds
    <3>4. \A t \in Applying' : t \in Applying /\ Without(s)[t] # NoFlight
      BY <1>1, <3>1, <3>2, <3>3, ApplyingAfter
    <3>5. P.late = "revision" => flights[s].valid /\ open
      BY <2>2 DEF AnswerList, Used
    <3>6. P.late = "revision"
      BY <1>1, <2>1, <2>2 DEF AnswerList, Disciplined, Inv, Known
    <3>7. ~P.oneApply => Applying' = {}
      BY <1>3, <2>1, <3>2, <3>4, <3>5, <3>6 DEF Inv, OneValid, Applying, Pending
    <3> QED
      BY <1>3, <3>4, <3>7
  <2>3. CASE ~AnswerList(s)
    <3>1. flights' = Without(s) /\ busy' = Freed(flights[s]) /\ open' = open
      BY <1>12, <2>3
         DEF Answer, Lost, Fail, AnswerPlan, AnswerApply, AnswerIgnored, End
    <3>2. \A t \in Applying' : t # s /\ t \in Applying /\ flights'[t] = flights[t]
      BY <1>4, <3>1 DEF Without, Applying, Pending
    <3>3. ASSUME ~P.oneApply, open, NEW t \in Applying'
          PROVE  busy'
      <4>1. flights[t].valid /\ busy /\ P.guarded /\ t # s /\ t \in Slots /\ Sending(t)
            /\ P.late = "revision"
        BY <1>1, <1>3, <3>2, <3>3 DEF Applying, Pending, Disciplined
      <4>2. ~flights[s].valid /\ ~P.freesAll
        BY <2>1, <4>1 DEF Inv, OneValid, OneFlight
      <4> QED
        BY <3>1, <4>1, <4>2 DEF Freed
    <3> QED
      BY <1>3, <3>1, <3>2, <3>3
  <2> QED
    BY <2>2, <2>3
<1>13. CASE Tick \/ PickGroup \/ Discard \/ UNCHANGED vars
  <2>1. UNCHANGED <<flights, busy, open>>
    BY <1>13 DEF Tick, PickGroup, Discard, vars, shown
  <2> QED
    BY <1>3, <2>1 DEF Applying, Pending
<1> QED
  BY <1>7, <1>8, <1>9, <1>10, <1>11, <1>12, <1>13 DEF Next

\* Where a dialog forbids a second Apply, no closing, opening and changing in
\* between gets one past the first.
THEOREM AppliesAreSingle ==
    ASSUME DisciplinedDialogs
    PROVE  Spec => []OneApplyAtATime
<1>1. Init => ApplyInv
  BY DEF Init, ApplyInv, Applying, Pending
<1>2. Inv /\ Inv' /\ ApplyInv /\ [Next]_vars => ApplyInv'
  BY ApplyStep
<1>3. ApplyInv => OneApplyAtATime
  <2> SUFFICES ASSUME ApplyInv, P.oneApply \/ "Apply" \in P.bars
               PROVE  Cardinality(Applying) <= 1
    BY DEF OneApplyAtATime, Applying
  <2>1. \A s, t \in Applying : s = t
    BY DEF ApplyInv
  <2>2. CASE Applying = {}
    BY <2>2, FS_EmptySet
  <2>3. CASE Applying # {}
    <3>1. PICK s : Applying = {s}
      BY <2>1, <2>3
    <3> QED
      BY <3>1, FS_Singleton
  <2> QED
    BY <2>2, <2>3
<1> QED
  BY <1>1, <1>2, <1>3, SpecInv, PTL DEF Spec
=============================================================================
