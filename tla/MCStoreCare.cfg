SPECIFICATION MCSpec
CONSTANTS
    b1 = b1
    b2 = b2
    b3 = b3
    timer = timer
    hand = hand
    byTimer = byTimer
    byHand = byHand
    Runs <- MCRuns
    Resources = {roster}
    Bodies <- MCBodies
    NoBody = NoBody
    NoManifest = NoManifest
    Nobody = Nobody
    Rebuilder = Rebuilder
    TTL = 1
    MaxTime = 2
    Backups = {byTimer, byHand}
    Sweeps = {timer, hand}
    Timer = timer
    Scopes = {"", "source"}
    ScopeOf <- MCScopeOf
    Budget <- MCBudget
    Rank <- MCRank
    Size <- MCSize
    MaxKills = 1
    Patience = 3
INVARIANTS
    IndexBacked
    ClosedRunsIndexed
    RestoreIsWhole
    DamageReported
PROPERTIES
    IndexNeverRegresses
    TamperNeverLaunders
    OkMeansShipped
    ManifestReachesIndex
CHECK_DEADLOCK FALSE
