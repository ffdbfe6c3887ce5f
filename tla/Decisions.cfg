SPECIFICATION DecisionsSpec
CONSTANTS
    Changes <- SmallChanges
    Playbooks <- SmallBooks
    Matrix <- SmallMatrix
    PlaybookOf <- SmallPlaybookOf
    ImportedBy <- SmallImportedBy
    Readers <- SmallReaders
    MoleculeDirs <- Scenarios
    LeftOut = {"llm_router", "test_keys", "test_agents", "test_rag_pipeline"}
    MaxShards = 3
    MaxName = 1
    Trials <- SmallTrials
    MaxDepth = 4
    MaxInfos = 4
    MinimumBits = 3
    MaxMetadata = 8
    LastDay = 9
    Requests <- SmallRequests
    Deployments = {"d1", "d2"}
    MaxHops = 2
    MaxPieces = 6
    CIKeyAliases = {"github-actions"}
    ThinkingOffModels = {"medium"}
    ManyModels = {"m,medium"}
    Lanes = {"medium"}
INVARIANTS DecisionsTypeOK NothingUntested JobsAreSound TrialIsSound
           ServableRequest ClearedOnly KeyDecides
PROPERTIES DecisionsEnd
CHECK_DEADLOCK FALSE
