CONSTANTS
    LEVELS = 2
    TLB_ENTRIES = 2
    ICACHE_ENTRIES = 2
    Memory <- Pages
    Systems <- AllSystems
    Clint = 6
    INTERLEAVE = 3
    Counts = 4
SPECIFICATION FairSpec
INVARIANTS SimTypeOK HitsMatchWalk FetchesMatchMemory ScIsAtomic InstretExact
PROPERTIES InterruptTaken
