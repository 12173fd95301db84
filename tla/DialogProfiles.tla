--------------------------- MODULE DialogProfiles ---------------------------
(***************************************************************************)
(* The dialogs of the Workflow UI page, each as its profile for            *)
(* PageDialogs: which of its events raise the revision, free the busy      *)
(* flag, drop the preview or the list, and what its answers are compared   *)
(* with.                                                                   *)
(***************************************************************************)
LOCAL Always == {"Open", "Close", "Change", "Scope", "Read", "Plan", "Apply"}
LOCAL Requests == {"Read", "Plan", "Apply"}
LOCAL Shown == {"Open", "Close"}

\* A dialog that reads its list when it opens, compares every answer with a
\* revision raised by every event, and does nothing of the rest.
Base ==
    [kinds |-> Requests, panel |-> FALSE,
     onOpen |-> {"Read"}, openInput |-> "none", picks |-> "none",
     bumps |-> Always, frees |-> {}, dropPlan |-> Always, dropList |-> {"Open"},
     guarded |-> TRUE, frozen |-> FALSE, late |-> "revision", freesAll |-> FALSE,
     change |-> {"plain"}, confirms |-> "never", rechecks |-> FALSE,
     applies |-> "request", afterApply |-> "keep", failList |-> Requests,
     holds |-> {}, bars |-> {}, oneApply |-> FALSE, once |-> FALSE, latch |-> FALSE,
     picksGroup |-> FALSE, chains |-> FALSE, reserves |-> FALSE]

-----------------------------------------------------------------------------
(* Dialogs that queue a job.                                               *)

\* Resources of an instance: the list of instances goes on to a preview of the
\* first, another instance is previewed at once.
ResourceChange ==
    [Base EXCEPT !.guarded = FALSE, !.dropList = {"Open", "Read"}, !.picks = "any",
                 !.chains = TRUE, !.change = {"plain", "asks"}, !.rechecks = TRUE, !.applies = "job",
                 !.failList = {}]

\* Backup and retention: the answer is used whatever has happened since; the
\* button for the preview is locked until it arrives.
RetentionRemoval ==
    [Base EXCEPT !.kinds = {"Plan", "Apply"}, !.onOpen = {"none"}, !.openInput = "some",
                 !.bumps = {}, !.dropPlan = {"Open", "Change", "Plan"}, !.dropList = {},
                 !.late = "none", !.freesAll = TRUE, !.applies = "job", !.failList = {}]

\* Deletion of a retained store, a panel that every refresh renders anew.
RetainedStore ==
    [Base EXCEPT !.kinds = {"Plan", "Apply"}, !.panel = TRUE, !.onOpen = {"none"},
                 !.openInput = "keep", !.bumps = {}, !.dropPlan = {"Open", "Change", "Plan"},
                 !.dropList = {}, !.guarded = FALSE, !.late = "input", !.rechecks = TRUE,
                 !.applies = "job", !.failList = {}]

\* Power of the test group: the preview brings the groups to select, and both
\* the tick and the selection are asked for.
TestGroup ==
    [Base EXCEPT !.kinds = {"Plan", "Apply"}, !.onOpen = {"Plan"}, !.openInput = "some",
                 !.dropList = {}, !.guarded = FALSE, !.change = {"asks"},
                 !.confirms = "early", !.picksGroup = TRUE, !.rechecks = TRUE,
                 !.applies = "job", !.failList = {}]

\* The environment groups: a list whose commands leave the dialog.
GroupList ==
    [Base EXCEPT !.kinds = {"Read", "Apply"}, !.onOpen = {"none"}, !.bumps = {"Close", "Read"},
                 !.dropPlan = {}, !.dropList = {}, !.freesAll = TRUE, !.change = {},
                 !.applies = "job", !.failList = {"Read"}]

-----------------------------------------------------------------------------
(* Dialogs that carry out a change themselves.                             *)

\* The basic configuration; opening it is refused while a write probe runs.
InitialSetup ==
    [Base EXCEPT !.picks = "any", !.bumps = Shown \cup Requests, !.frees = Shown,
                 !.frozen = TRUE, !.afterApply = "reread", !.failList = {}]

\* The write probe of a location in the same dialog.
SetupWriteability ==
    [InitialSetup EXCEPT !.picks = "none", !.confirms = "seen", !.rechecks = TRUE,
                         !.afterApply = "keep", !.holds = {"Apply"}, !.bars = {"Apply"}]

\* Installation of the llama.cpp runtime.
LlamaInstaller ==
    [Base EXCEPT !.bumps = Requests, !.dropList = {"Open", "Read"}, !.frozen = TRUE,
                 !.confirms = "seen", !.failList = {}, !.holds = Requests, !.bars = Requests]

\* Repair of the artifact catalogue.
Maintenance ==
    [Base EXCEPT !.onOpen = {"none"}, !.frees = Shown, !.dropList = Shown, !.frozen = TRUE,
                 !.confirms = "seen", !.afterApply = "dropList"]

\* The policy for free slots.
SlotReserve ==
    [Base EXCEPT !.picks = "any", !.bumps = Shown \cup Requests, !.frees = Shown,
                 !.frozen = TRUE, !.afterApply = "reread"]

\* A member of the slot pool, in the same dialog: the server holds the preview.
SlotMember == [SlotReserve EXCEPT !.picks = "none", !.reserves = TRUE]

\* Another address for a medium.
MediaOverride ==
    [Base EXCEPT !.picks = "any", !.bumps = Shown, !.frees = Shown, !.frozen = TRUE,
                 !.afterApply = "reread"]

\* Stop of an own llama.cpp session.
LlamaSession ==
    [Base EXCEPT !.frees = Shown, !.dropList = Shown, !.frozen = TRUE, !.confirms = "seen",
                 !.afterApply = "dropList", !.holds = {"Apply"}]

\* Start of an own llama.cpp session, without a preview and once per opening.
LlamaStart ==
    [Base EXCEPT !.kinds = {"Apply"}, !.onOpen = {"none"}, !.openInput = "any",
                 !.frees = Shown \cup {"Change"}, !.dropPlan = Shown \cup {"Apply"},
                 !.dropList = {"Close", "Apply"}, !.frozen = TRUE, !.confirms = "early", !.latch = TRUE,
                 !.failList = {}]

\* Removal of the metadata of a removed run.
RunArtifactRemoval ==
    [Base EXCEPT !.frees = Shown \cup {"Change"}, !.dropList = Shown \cup {"Read"},
                 !.confirms = "seen", !.rechecks = TRUE, !.oneApply = TRUE, !.failList = {}]

-----------------------------------------------------------------------------
(* Dialogs that only show something.                                       *)

EvaluationWatch ==
    [Base EXCEPT !.kinds = {"Read"}, !.onOpen = {"none"}, !.bumps = Shown \cup {"Read"},
                 !.frees = {"Open"}, !.dropList = Shown \cup {"Read"}, !.failList = {"Read"}]

ResourceWatch ==
    [Base EXCEPT !.kinds = {"Read"}, !.bumps = Shown, !.frees = Shown, !.change = {},
                 !.failList = {"Read"}]

\* Check of the central management server: one check per reading.
CmsInspection ==
    [Base EXCEPT !.kinds = {"Read", "Plan"}, !.picks = "any", !.bumps = Shown,
                 !.frees = Shown, !.dropList = Shown, !.change = {}, !.once = TRUE]

LlamaStartPlan ==
    [Base EXCEPT !.kinds = {"Plan"}, !.onOpen = {"none"}, !.openInput = "any",
                 !.frees = Shown \cup {"Change"}, !.dropList = {"Close"}, !.frozen = TRUE,
                 !.failList = {}]

PortPreview ==
    [Base EXCEPT !.kinds = {"Read", "Plan"}, !.picks = "any", !.frees = Shown \cup {"Change"},
                 !.dropList = Shown, !.failList = {"Read"}]

AutostartPreview == PortPreview

ComponentRelations ==
    [Base EXCEPT !.kinds = {"Read", "Plan"}, !.onOpen = {"none"}, !.picks = "any",
                 !.bumps = Always \ {"Plan", "Apply"}, !.frees = Shown \cup {"Change"},
                 !.dropList = Shown \cup {"Read", "Scope"}, !.frozen = TRUE,
                 !.change = {"plain", "scope"}]

EvaluationRefresh == ComponentRelations

CollationSearch ==
    [Base EXCEPT !.kinds = {"Plan"}, !.onOpen = {"none"}, !.openInput = "some",
                 !.frees = Shown \cup {"Change"}, !.dropList = {}, !.failList = {}]

\* The matrix of host capabilities: a request keeps its turn until its answer.
HostMatrix ==
    [Base EXCEPT !.kinds = {"Read", "Plan"}, !.frozen = TRUE, !.freesAll = TRUE,
                 !.failList = {"Read"}]

\* Runtime variants; the matrix opens it with a variant and reads at once.
ExternalRuntime ==
    [Base EXCEPT !.kinds = {"Read", "Plan"}, !.onOpen = {"none", "Read"}, !.picks = "any",
                 !.frees = Shown \cup {"Scope"}, !.dropList = Shown \cup {"Scope"},
                 !.frozen = TRUE, !.change = {"plain", "scope"}]

\* The live check of a target's TLS, a panel that every refresh renders anew;
\* any click takes the result away, and a click on a target checks it.
TlsLiveQualification ==
    [Base EXCEPT !.kinds = {"Plan"}, !.panel = TRUE, !.onOpen = {"none"}, !.freesAll = TRUE,
                 !.change = {"asks"}, !.failList = {}]

-----------------------------------------------------------------------------
DialogProfile ==
    [ResourceChange |-> ResourceChange, RetentionRemoval |-> RetentionRemoval,
     RetainedStore |-> RetainedStore, TestGroup |-> TestGroup, GroupList |-> GroupList,
     InitialSetup |-> InitialSetup, SetupWriteability |-> SetupWriteability,
     LlamaInstaller |-> LlamaInstaller, Maintenance |-> Maintenance,
     SlotReserve |-> SlotReserve, SlotMember |-> SlotMember, MediaOverride |-> MediaOverride,
     LlamaSession |-> LlamaSession, LlamaStart |-> LlamaStart,
     RunArtifactRemoval |-> RunArtifactRemoval, EvaluationWatch |-> EvaluationWatch,
     ResourceWatch |-> ResourceWatch, CmsInspection |-> CmsInspection,
     LlamaStartPlan |-> LlamaStartPlan, PortPreview |-> PortPreview,
     AutostartPreview |-> AutostartPreview, ComponentRelations |-> ComponentRelations,
     EvaluationRefresh |-> EvaluationRefresh, CollationSearch |-> CollationSearch,
     HostMatrix |-> HostMatrix, ExternalRuntime |-> ExternalRuntime,
     TlsLiveQualification |-> TlsLiveQualification]
=============================================================================
