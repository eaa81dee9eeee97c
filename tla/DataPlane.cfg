CONSTANTS
    MeetingId = {m1, m2}
    Token = {t1, t2}
    Searcher = {s1}
    MaxIndexings = 3
    Exporter = {e1}
    Analyst = {d1}
    MaxMeeting = 3
    Directory = {1, 3}
    BatchSizes = {1, 2}
    ExportCap = 1
    MaxWrites = 2
    Customer = {"acme", "bolt", ""}
    Owner = {"ann", "Unassigned"}
    Product = {"Detect", "Comply"}
    PurposeRules <- MCPurposeRules
    Content <- MCContent
    Tuned <- MCTuned
    Labeler = {l1, l2}
    Topic <- MCTopic
    Confident = {"i3"}
    Budget = 2
    MaxFaults = 1
    Proc = {p1, p2}
    Default = {k1, k2}
    Password = pw
    MaxStops = 1
    MaxDowngrades = 1
SPECIFICATION DataSpec
INVARIANTS
    PostingsHaveDocuments
    DriftIsBounded
    
    
    EachLifeIsAccountedFor
    LedgerHolds
PROPERTIES
    SearchConverges
    SeedsNeverOverwrite
    EveryProcessServes
CHECK_DEADLOCK FALSE
