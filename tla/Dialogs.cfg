SPECIFICATION FairSpec
CONSTANTS
    Dialogs = {"ResourceChange", "RetainedStore", "TestGroup", "GroupList", "InitialSetup", "SetupWriteability", "LlamaInstaller", "Maintenance", "SlotReserve", "SlotMember", "MediaOverride", "LlamaSession", "LlamaStart", "RunArtifactRemoval", "EvaluationWatch", "ResourceWatch", "CmsInspection", "LlamaStartPlan", "PortPreview", "AutostartPreview", "ComponentRelations", "EvaluationRefresh", "CollationSearch", "HostMatrix", "ExternalRuntime", "TlsLiveQualification"}
    Profile <- DialogProfile
    Inputs = {"first", "second"}
    Slots = {1, 2, 3}
    None = None
    NoFlight = NoFlight
INVARIANT TypeOK
INVARIANT OfferIsCurrent
INVARIANT OneApplyAtATime
INVARIANT NoForgottenPreview
INVARIANT TickedAfterPreview
PROPERTY ImplementsOffer
PROPERTY BusyEnds
