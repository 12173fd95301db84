----------------------------- MODULE PageDialogs -----------------------------
(***************************************************************************)
(* The dialogs of the Workflow UI page that read a list, preview a change  *)
(* and apply it.  Every dialog sends requests and goes on reacting to the  *)
(* operator until the answers arrive: the selection can be changed, and    *)
(* the dialog closed and opened again, while an answer is under way.       *)
(*                                                                         *)
(* The dialogs are written one by one, with the same few devices combined  *)
(* differently: a revision that makes outstanding answers worthless, a     *)
(* flag that forbids a second request, fields that are locked while it is  *)
(* set, a check box that is unticked.  This module has the devices once;   *)
(* which events of a dialog use which of them is its profile, a record of  *)
(* the constant Profile.  DialogProfiles holds the profiles of the page.   *)
(***************************************************************************)
EXTENDS Naturals, FiniteSets

CONSTANTS
    Dialogs,
    Profile,    \* [Dialogs -> the fields listed below]
    Inputs,     \* what can be chosen in a dialog
    Slots,      \* bound: requests under way at the same time
    None,
    NoFlight

ASSUME DialogsAssumption ==
    /\ None \notin Inputs
    /\ None \notin [input : Inputs \cup {None}, late : BOOLEAN]
    /\ NoFlight \notin [kind : {"Read", "Plan", "Apply"}, input : Inputs \cup {None},
                        valid : BOOLEAN, old : BOOLEAN]
    /\ Slots # {}

(***************************************************************************)
(* Requests: Read fills the list, Plan previews, Apply carries out.  The   *)
(* requests are events of the page as well; Scope is the change of a field *)
(* the list depends on.  The fields of a profile:                          *)
(*   kinds      the requests the dialog has                                *)
(*   panel      it is part of the page and always open                     *)
(*   onOpen     the request sent by opening it ("none": no request)        *)
(*   openInput  what is chosen when it opens                               *)
(*   picks      what is chosen when the list has arrived                   *)
(*   bumps      events that raise the revision                             *)
(*   frees      events that clear the busy flag                            *)
(*   dropPlan   events that take the preview and the tick away             *)
(*   dropList   events that empty the list, and with it the choice         *)
(*   guarded    no request while the busy flag is set                      *)
(*   frozen     the fields are locked while the busy flag is set           *)
(*   late       what an answer is compared with: the revision, the choice, *)
(*              or nothing                                                 *)
(*   freesAll   every answer clears the busy flag, not only the current    *)
(*   change     the kinds of fields: "plain", "asks" (previews at once),   *)
(*              "scope"                                                    *)
(*   confirms   the check box: "never", "seen" (only beside a preview),    *)
(*              "early" (at any time)                                      *)
(*   rechecks   Apply compares the preview with the fields                 *)
(*   applies    Apply sends a "request" or queues a "job" and closes       *)
(*   afterApply the answer to Apply leaves the list, empties it, or        *)
(*              brings a new one                                           *)
(*   failList   requests whose failure empties the list                    *)
(*   holds      the close button is refused while one of these is answered *)
(*   bars       it cannot be opened while one of these is under way        *)
(*   oneApply   no request and no change while an Apply is under way       *)
(*   once       no second preview beside the first                         *)
(*   latch      one Apply per opening                                      *)
(*   picksGroup a second selection that is part of Apply and unticks       *)
(*   chains     the answer to Read sends Plan                              *)
(*   reserves   a preview is held by the server until it is applied or     *)
(*              given back                                                 *)
(***************************************************************************)
Kinds == {"Read", "Plan", "Apply"}
Events == {"Open", "Close", "Change", "Scope"} \cup Kinds

Flight == [kind : Kinds, input : Inputs \cup {None}, valid : BOOLEAN, old : BOOLEAN]
Preview == [input : Inputs \cup {None}, late : BOOLEAN]

VARIABLES
    dlg,        \* the dialog of this behaviour
    open,
    busy,
    list,       \* "now": filled, "late": by an answer to an earlier opening
    input,      \* what is chosen
    plan,       \* the preview shown, None without one
    confirmed,  \* the tick: "early" without a preview, "seen" beside one
    picked,     \* the second selection of a dialog with picksGroup
    attempted,
    flights,    \* flights[s]: a request under way; valid: the revision has not
                \* been raised since; old (history): the dialog was closed since
    reserved,   \* history: previews received, neither applied nor given back
    applied     \* history: what has been applied last

shown == <<open, busy, list, input, plan, confirmed, picked, attempted>>
vars == <<dlg, shown, flights, reserved, applied>>

P == Profile[dlg]

Pending == {s \in Slots : flights[s] # NoFlight}

\* Error seeded in Applying: raising the revision forgets the Apply that runs.
ApplyingCurrent == {s \in Pending : flights[s].kind = "Apply" /\ flights[s].valid}

Applying == {s \in Pending : flights[s].kind = "Apply"}

Init ==
    /\ dlg \in Dialogs
    /\ open = P.panel
    /\ busy = FALSE
    /\ list = "none" /\ input = None
    /\ plan = None /\ confirmed = "no" /\ picked = FALSE
    /\ attempted = FALSE
    /\ flights = [s \in Slots |-> NoFlight]
    /\ reserved = 0
    /\ applied = None

-----------------------------------------------------------------------------
(* What the page does on the events E, and the request it then sends.      *)

Choices(how) ==
    CASE how = "none" -> {None}
      [] how = "some" -> Inputs
      [] how = "any"  -> Inputs \cup {None}
      [] how = "keep" -> {input, None}

\* The revision is raised.
\* Error seeded in Stale: closing the dialog does not raise it.
StaleUnlessClosed(f, E) ==
    [f EXCEPT !.valid = @ /\ (E \ {"Close"}) \cap P.bumps = {}, !.old = @ \/ "Close" \in E]

Stale(f, E) == [f EXCEPT !.valid = @ /\ E \cap P.bumps = {}, !.old = @ \/ "Close" \in E]

\* A request may be sent.
MayAsk(E) ==
    /\ P.guarded => ~busy \/ E \cap P.frees # {}
    /\ P.oneApply => Applying = {}

Sent(fs, k, i) ==
    LET s == CHOOSE t \in Slots : fs[t] = NoFlight
    IN  [fs EXCEPT ![s] = [kind |-> k, input |-> i, valid |-> TRUE, old |-> FALSE]]

\* The preview that is dropped is given back.
\* Error seeded in Returned: one is given back although there is none.
ReturnedAlways == P.reserves

Returned == P.reserves /\ plan # None

\* fs and b are the flights and the busy flag without the request that is sent.
React(fs, b, E, k, i) ==
    LET stale == [s \in Slots |-> IF fs[s] = NoFlight THEN NoFlight ELSE Stale(fs[s], E)]
        drop  == E \cap P.dropPlan # {}
        empty == E \cap P.dropList # {}
    IN  /\ k # "none" => \E s \in Slots : fs[s] = NoFlight
        /\ input' = IF empty THEN None ELSE i
        /\ flights' = IF k = "none" THEN stale ELSE Sent(stale, k, input')
        /\ plan' = IF drop THEN None ELSE plan
        /\ confirmed' = IF drop THEN "no" ELSE confirmed
        /\ reserved' = IF drop /\ Returned THEN reserved - 1 ELSE reserved
        /\ busy' = IF k # "none" THEN P.guarded ELSE b

BusyAfter(E) == busy /\ E \cap P.frees = {}
ListAfter(E) == IF E \cap P.dropList # {} THEN "none" ELSE list

-----------------------------------------------------------------------------
(* The operator.                                                           *)

\* A click that opens the dialog; a panel is rendered anew.
Open ==
    /\ ~open \/ P.panel
    /\ \A s \in Pending : flights[s].kind \notin P.bars
    /\ open' = TRUE
    /\ \E i \in Choices(P.openInput), k \in P.onOpen :
          LET sent == IF k # "none" /\ MayAsk({"Open"}) /\ (k = "Plan" => i # None)
                      THEN k ELSE "none"
          IN  /\ React(flights, BusyAfter({"Open"}), {"Open", sent}, sent, i)
              /\ list' = ListAfter({"Open", sent})
    /\ attempted' = FALSE
    /\ UNCHANGED <<dlg, picked, applied>>

\* The buttons for reading and for previewing.
Ask(k) ==
    /\ open
    /\ k \in P.kinds
    /\ MayAsk({})
    /\ k = "Plan" => /\ input # None
                     /\ "Read" \in P.kinds => list # "none"
                     /\ P.once => plan = None
    /\ React(flights, busy, {k}, k, input)
    /\ list' = ListAfter({k})
    /\ UNCHANGED <<dlg, open, picked, attempted, applied>>

\* A field is changed, or the selection of the list.
\* Error seeded in Locked: the fields are not locked while a request runs.
LockedNever == P.oneApply /\ Applying # {}

Locked == (P.frozen /\ busy) \/ (P.oneApply /\ Applying # {})

Change(c) ==
    /\ open
    /\ c \in P.change
    /\ ~Locked
    /\ "Read" \in P.kinds /\ c # "scope" => list # "none"
    /\ \E i \in (Inputs \cup {None}) \ {input} :
          LET sent == IF c = "asks" /\ i # None /\ MayAsk({"Change"}) THEN "Plan" ELSE "none"
              E == {"Change", sent} \cup (IF c = "scope" THEN {"Scope"} ELSE {})
          IN  React(flights, BusyAfter(E), E, sent, i) /\ list' = ListAfter(E)
    /\ UNCHANGED <<dlg, open, picked, attempted, applied>>

Tick ==
    /\ open
    /\ P.confirms = "early" \/ (P.confirms = "seen" /\ plan # None)
    /\ ~busy
    /\ P.oneApply => Applying = {}
    /\ confirmed' = IF confirmed # "no" THEN "no"
                    ELSE IF plan = None THEN "early" ELSE "seen"
    /\ UNCHANGED <<dlg, open, busy, list, input, plan, picked, attempted, flights,
                   reserved, applied>>

\* The second selection, which the preview has filled; it unticks.
\* Error seeded in TickAfterPick: the tick stays.
TickAfterPickStays == confirmed

TickAfterPick == "no"

PickGroup ==
    /\ open /\ P.picksGroup /\ plan # None
    /\ picked' = ~picked
    /\ confirmed' = TickAfterPick
    /\ UNCHANGED <<dlg, open, busy, list, input, plan, attempted, flights, reserved, applied>>

\* The button that gives a preview back.
Discard ==
    /\ open /\ P.reserves /\ plan # None /\ ~busy
    /\ plan' = None
    /\ reserved' = reserved - 1
    /\ UNCHANGED <<dlg, open, busy, list, input, confirmed, picked, attempted, flights, applied>>

CanApply ==
    /\ open
    /\ "Apply" \in P.kinds
    /\ P.applies = "request" => MayAsk({})
    /\ IF "Plan" \in P.kinds THEN plan # None
       ELSE IF "Read" \in P.kinds THEN list # "none" ELSE input # None
    /\ P.rechecks => plan.input = input
    /\ P.confirms # "never" => confirmed # "no"
    /\ P.latch => ~attempted
    /\ P.picksGroup => picked

Apply ==
    /\ CanApply
    /\ LET request == P.applies = "request"
           E == {"Apply"} \cup (IF request \/ P.panel THEN {} ELSE {"Close"})
       IN  /\ React(flights, BusyAfter(E), E, IF request THEN "Apply" ELSE "none", input)
           /\ list' = ListAfter(E)
           /\ open' = (request \/ P.panel)
    /\ attempted' = TRUE
    /\ applied' = IF plan = None THEN applied ELSE plan.input
    /\ UNCHANGED <<dlg, picked>>

Shut ==
    /\ open /\ ~P.panel
    /\ open' = FALSE
    /\ React(flights, BusyAfter({"Close"}), {"Close"}, "none", input)
    /\ list' = ListAfter({"Close"})
    /\ UNCHANGED <<dlg, picked, attempted, applied>>

\* Requests the close button waits for.
Held == {s \in Pending : flights[s].valid /\ flights[s].kind \in P.holds}

CloseButton == Held = {} /\ Shut

\* The Escape key, for the topmost open dialog.
Escape == Shut

-----------------------------------------------------------------------------
(* The answers, in any order.                                              *)

\* The answer is used.
\* Error seeded in Used: the answer is used by a dialog that is open, whatever it
\* was asked for.
UsedWhenOpen(f) == open

Used(f) ==
    /\ P.late = "revision" => f.valid /\ open
    /\ P.late = "input" => f.input = input

Freed(f) == IF P.freesAll \/ f.valid THEN FALSE ELSE busy

Without(s) == [flights EXCEPT ![s] = NoFlight]

\* The list, after Read or after an Apply that reads it again; it may go on to
\* ask for a preview.
AnswerList(s) ==
    LET f == flights[s]
    IN  /\ Used(f)
        /\ f.kind = "Read" \/ (f.kind = "Apply" /\ P.afterApply = "reread")
        /\ list' = IF f.old THEN "late" ELSE "now"
        /\ \E i \in Choices(P.picks) :
              LET sent == IF P.chains /\ i # None THEN "Plan" ELSE "none"
              IN  React(Without(s), Freed(f), {sent}, sent, i)
        /\ UNCHANGED <<dlg, open, picked, attempted, applied>>

\* The preview.
AnswerPlan(s) ==
    LET f == flights[s]
    IN  /\ Used(f)
        /\ f.kind = "Plan"
        /\ plan' = [input |-> f.input, late |-> f.old]
        /\ picked' = FALSE
        /\ reserved' = IF P.reserves THEN reserved + 1 ELSE reserved
        /\ busy' = Freed(f)
        /\ flights' = Without(s)
        /\ UNCHANGED <<dlg, open, list, input, confirmed, attempted, applied>>

\* What an answer that is not used leaves reserved.
\* Error seeded in LeftOver: a preview that comes too late is not given back.
LeftOverKept(f) == IF P.reserves /\ f.kind = "Plan" THEN reserved + 1 ELSE reserved

LeftOver(f) == reserved

\* The result of Apply, an answer that is not used, or a failure.
End(s, empty, left) ==
    LET f == flights[s]
    IN  /\ list' = IF empty THEN "none" ELSE list
        /\ input' = IF empty THEN None ELSE input
        /\ reserved' = left
        /\ busy' = Freed(f)
        /\ flights' = Without(s)
        /\ UNCHANGED <<dlg, open, plan, confirmed, picked, attempted, applied>>

AnswerApply(s) ==
    /\ Used(flights[s])
    /\ flights[s].kind = "Apply" /\ P.afterApply # "reread"
    /\ End(s, P.afterApply = "dropList", reserved)

AnswerIgnored(s) ==
    /\ ~Used(flights[s])
    /\ End(s, FALSE, LeftOver(flights[s]))

Fail(s) ==
    End(s, Used(flights[s]) /\ flights[s].kind \in P.failList, reserved)

Answer(s) ==
    /\ s \in Pending
    /\ AnswerList(s) \/ AnswerPlan(s) \/ AnswerApply(s) \/ AnswerIgnored(s)

Lost(s) == s \in Pending /\ Fail(s)

-----------------------------------------------------------------------------
Next ==
    \/ Open \/ Tick \/ PickGroup \/ Discard \/ Apply \/ CloseButton \/ Escape
    \/ \E k \in {"Read", "Plan"} : Ask(k)
    \/ \E c \in {"plain", "asks", "scope"} : Change(c)
    \/ \E s \in Slots : Answer(s) \/ Lost(s)

Spec == Init /\ [][Next]_vars

\* Every request is answered or fails: the server answers on the loopback
\* interface, and a connection that breaks is an error of the request.
FairSpec == Spec /\ \A s \in Slots : WF_vars(Answer(s) \/ Lost(s))

-----------------------------------------------------------------------------
(* When the devices of a profile are enough.                               *)

WellFormed(p) ==
    /\ p.kinds \subseteq Kinds /\ p.onOpen \subseteq p.kinds \cup {"none"}
    /\ "asks" \in p.change \/ p.chains => "Plan" \in p.kinds
    /\ {p.openInput, p.picks} \subseteq {"none", "some", "any", "keep"}
    /\ p.panel \in BOOLEAN /\ p.guarded \in BOOLEAN

\* At most one answer is worth something at a time.
OneWorthwhile(p) ==
    \/ p.guarded /\ p.frees \subseteq p.bumps /\ (p.freesAll => p.frees = {})
    \/ ~p.guarded /\ p.kinds \subseteq p.bumps

\* An answer outlives neither the opening nor the choice it was asked for.
Outdated(p) ==
    /\ "Close" \in p.bumps \/ p.kinds \subseteq p.bars \/ p.panel
    /\ p.dropList \subseteq p.bumps \cup (IF p.kinds \subseteq p.bars THEN {"Open"} ELSE {})
    /\ "Plan" \in p.kinds => /\ "Open" \in p.bumps \/ p.kinds \subseteq p.bars
                             /\ "Change" \in p.bumps \/ (p.guarded /\ p.frozen) \/ p.change = {}

\* The preview goes when a request or a new choice makes it out of date, and a
\* choice stays while it is previewed.
PreviewGoes(p) ==
    /\ p.dropList \subseteq p.dropPlan
    /\ {"Open", "Change"} \cup (p.kinds \ {"Apply"}) \subseteq p.dropPlan
    /\ "Plan" \notin p.dropList
    /\ "Plan" \in p.onOpen => "Open" \notin p.dropList
    /\ "asks" \in p.change => "Change" \notin p.dropList
    /\ p.confirms = "early" => p.picksGroup

\* A dialog that cannot be opened while an Apply is under way does not free
\* the busy flag before it is answered or the dialog is closed.
Barred(p) ==
    "Apply" \in p.bars /\ ~p.oneApply =>
        /\ p.guarded /\ p.frozen /\ ~p.panel
        /\ p.frees \subseteq {"Open", "Close"} /\ p.applies = "request"

Disciplined(p) ==
    /\ WellFormed(p) /\ Barred(p)
    /\ "Plan" \in p.kinds => PreviewGoes(p)
    /\ \/ /\ p.late = "revision"
          /\ OneWorthwhile(p) /\ Outdated(p)
          /\ "Plan" \in p.kinds => "Apply" \in p.dropPlan
       \/ /\ p.late = "input" /\ p.panel
          /\ "Read" \notin p.kinds /\ p.afterApply = "keep" /\ p.failList = {}
          /\ ~p.reserves

-----------------------------------------------------------------------------
TypeOK ==
    /\ dlg \in Dialogs
    /\ open \in BOOLEAN /\ busy \in BOOLEAN
    /\ list \in {"none", "now", "late"}
    /\ input \in Inputs \cup {None}
    /\ plan \in Preview \cup {None}
    /\ confirmed \in {"no", "early", "seen"}
    /\ picked \in BOOLEAN /\ attempted \in BOOLEAN
    /\ flights \in [Slots -> Flight \cup {NoFlight}]
    /\ reserved \in Nat
    /\ applied \in Inputs \cup {None}

(***************************************************************************)
(* What an open dialog offers belongs to what is chosen in it, and nothing *)
(* it shows was asked for in an earlier opening (app.js:1501, and the same *)
(* comparison in every other dialog).                                      *)
(***************************************************************************)
OfferIsCurrent ==
    open => /\ plan # None => plan.input = input /\ ~plan.late
            /\ list # "late"

(***************************************************************************)
(* Where a dialog forbids a second Apply while the first is unanswered, it *)
(* does so across closing and opening (run-artifact-removal.js:49 and 88,  *)
(* app.js:2241 and 2745).                                                  *)
(***************************************************************************)
OneApplyAtATime ==
    P.oneApply \/ "Apply" \in P.bars =>
        Cardinality({s \in Pending : flights[s].kind = "Apply"}) <= 1

(***************************************************************************)
(* A preview the server holds for the page is on the screen, or it has     *)
(* been applied or given back: no order of answers leaves one behind       *)
(* (app.js:3106 and 3163-3167).                                            *)
(***************************************************************************)
NoForgottenPreview == reserved = (IF P.reserves /\ plan # None THEN 1 ELSE 0)

(***************************************************************************)
(* A preview is never carried out on the strength of a tick that was made  *)
(* before it was shown, not even where the box can be ticked at any time   *)
(* (app.js:3245 unticks with the selection that every preview empties).    *)
(***************************************************************************)
TickedAfterPreview ==
    CanApply /\ plan # None /\ P.confirms # "never" => confirmed = "seen"

(***************************************************************************)
(* The dialog is an OfferedPlan: it applies only what is chosen and        *)
(* previewed at that moment.                                               *)
(***************************************************************************)
Offered == INSTANCE OfferedPlan WITH
    choice <- input,
    offer <- IF open /\ plan # None THEN plan.input ELSE None

ImplementsOffer == Offered!Spec

(***************************************************************************)
(* No event leaves an open dialog locked for ever: whatever is done while  *)
(* a request is under way, the fields and buttons come back                *)
(* (run-artifact-removal.js:83-87 and the finally of the other dialogs).   *)
(***************************************************************************)
BusyEnds == open /\ busy ~> ~open \/ ~busy
=============================================================================
