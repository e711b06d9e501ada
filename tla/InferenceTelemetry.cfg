SPECIFICATION FairSpec
CONSTANTS
    None = None
    Absent = Absent
    Malformed = Malformed
    MaxCount = 6
    Router = r
    Endpoints = {r, s}
    CanStop = {r}
    Denied = {}
    m1 = m1
    Models = {m1, m2}
    Preloaded <- MCPreloaded
    Occupied = {}
    TellsPort = {m1, m2}
    Streams <- MCStreams
    Probes = {p1, p2}
    RetryAttempts = 2
    MaxClicks = 2
    MaxIncidents = 2
INVARIANTS
    LiveCardsAreOfAttached
    LiveRequestIsUnbroken
    EvidenceIsAttributed
PROPERTIES
    ProbeEnds
CHECK_DEADLOCK FALSE
