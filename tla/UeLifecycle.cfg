SPECIFICATION Spec
CONSTANTS
    NofSlots = 8
    MaxHarqRetxs = 1
    MaxAckWait = 2
    PdschRvSequence <- MCRv
    PuschRvSequence <- MCRv
    Cells = {c1}
    UEs = {u1}
    NofRbs = 3
    TddPattern <- MCTddPattern
    SsIds <- MCSsIds
    SearchSpace <- MCSearchSpace
    RaSearchSpaceId = 1
    UeCfgs <- MCUeCfgs
    CsiPeriod = 4
    CsiOffset = 3
    CsiRsSlots <- MCCsiRsSlots
    MaxMcs = 1
    MaxFeasibleMcs <- MCMaxFeasibleMcs
    RingSize = 4
    NofCces = 2
    MaxDlPdcchs = 2
    MaxUeGrants = 2
    MaxPuschs = 2
    MaxPucchHarqBits = 2
    MaxPuschHarqBits = 3
    NofDlHarqs = 1
    NofUlHarqs = 1
    MaxBytes = 2
    MaxKos = 1
    InitialCqi = 1
    MAX_NOF_DU_UES = MAX_NOF_DU_UES
    MaxPendingEvents = 2
    MaxFeedbackDelay = 0
    DlGrantShapes <- MCFewDlShapes
    UlGrantShapes <- MCNone
    ReportedAcks <- MCReportedAcks
    ReportedCrcs <- MCReportedCrcs
    CsiPayloads <- MCNoCsi
    ReconfCfgs <- MCUeCfgs
    LeavingUes = {u1}
    BsrValues <- MCNone
    DlBufferStates = {2}
    Lcids <- MCLcids
    CeUes = {u1}
    SrUes <- MCNone
INVARIANTS
    NoRequestLost
    GrantMatchesHarq
