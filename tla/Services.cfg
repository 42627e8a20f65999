SPECIFICATION FairServicesSpec
CONSTANTS
    Focus = {"batch", "harness", "knowledge", "stream", "vector"}
    t1 = t1
    t2 = t2
    t3 = t3
    t4 = t4
    t5 = t5
    Threads = {t1, t2, t3, t4, t5}
    Tokens = {t2}
    Batch <- MCBatch
    MaxWorkers = 2
    QueueCapacity = 2
    Conns = {c1, c2}
    Owners = {c1}
    Habits <- MCHabits
    HThreads = {t1}
    MaxEvents = 4
    ControlReserve = 3
    MaxLoaded = 1
    MaxTurns = 2
    MaxItems = 1
    MaxSeq = 3
    MaxSeqLoad = 1
    KDocs <- MCKDocs
    KTexts <- MCKTexts
    KMinTarget = 5
    KDefaultTarget = 8
    KTree <- MCKTree
    KFiles <- MCKFiles
    Formats = {"responses", "chat", "anthropic"}
    MaxFrames = 10
    MaxBlocks = 3
    VDocs <- MCVDocs
    VTexts <- MCVTexts
    VModels = {"plane", "uneven", "down"}
    VEmbed <- MCVEmbed
    VVectors <- MCVVectors
    VChunkSize = 5
    VOverlap = 4
    VTree <- MCVTree
    VFiles <- MCVFiles
    VMaxOrder = 3
INVARIANTS NoLostWakeUp BatchSound HarnessSound StreamsRead
PROPERTIES BatchesReturn  KnowledgeSound VectorSound
CHECK_DEADLOCK FALSE
