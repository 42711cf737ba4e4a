SPECIFICATION LifeSpec
CONSTANTS
    Venues <- PoolTypes
    MaxDiscoveries = 2
    Threshold = 1
    MaxCrashes = 1
INVARIANTS
    RatesKnown
PROPERTIES
    KnowledgeKept
    TradedPoolsComeBack
