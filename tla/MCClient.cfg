SPECIFICATION CSpec
CONSTANTS
    None = None
    Workers = {1, 2}
    Files = {"s", "l"}
    Large = {"l"}
    Chunks = 2
    Attempts = 2
    ChunkAttempts = 2
    RateRetries = 1
    BudgetWaits = 1
    ScanWaits = 1
    MaxTrouble = 2
    Root = "r"
    Listing <- MCListing
    DlAttempts = 2
    Uploads = {1, 2}
    Downloads = {"d"}
    Offers <- MCOffers
    OldPins <- MCOldPins
    RetiredLimit = 1
    MaxEvents = 2
    Accounts = {"a", "b"}
    Hosts = {"h", "g"}
    DefaultHost = "h"
    Agents = {1, 2}
    MaxCommands = 4
    MaxMishaps = 1
    Relogin = FALSE
    SlowSpawn = FALSE
    Procs = {1, 2}
    Peers = {"p", "q"}
    Bundles <- MCBundles
    Own = "o"
    History <- MCHistory
    Signatures <- MCSignatures
    OwnMax = 2
    MaxOps = 2
    MaxChanges = 1
INVARIANTS
    ClientTypeOK
    FinaliseComplete
    DownloadSound
    SealedToPinned
    CacheFollowsPin
    SignersKept
    WaitersHaveProber
    
    LockHolds
    
    
    SealedWasPinned
    
PROPERTIES
    DeliveryRefined
    
    AgentsWiped
CHECK_DEADLOCK FALSE
