SPECIFICATION ServiceSpec
CONSTANTS
    Callers = {c1, c2}
    Access = {a1, a2, a3}
    Refresh = {r1, r2, r3}
    None = None
    Codes = {code}
    Lives = {1, 3}
    Faults = TRUE
    MaxTime = 2
    MaxCalls = 5
    Native = TRUE
    Schedulers = {"none", "executor"}
    Delays = {0, 1, 2}
    TaskCalls = 1
    TaskTime = 2
    Deliveries = {d1, d2}
    StoringHandler = TRUE
    Async = FALSE
    HookFaults = FALSE
    MaxRecords = 2
    MaxRepeats = 1
    TokenScenes <- TokensOf
    KeyScenes <- KeysOf
    Tasks = {o1, o2}
    IdOf <- SameId
    Quota <- OneEach
    Parsed = {o1, o2}
    Threads = {u1}
    Workers = 2
    Restarts = FALSE
    Overruns = TRUE
    MaxRuns = 3
    c1 = c1
    c2 = c2
    a1 = a1
    r1 = r1
    o1 = o1
    o2 = o2
    job = job
    u1 = u1
    u2 = u2
    client = client
    p = p
    q = q
    other = other
    listed = listed
    Unlisted = Unlisted
    d1 = d1
    d2 = d2
    code = code
CHECK_DEADLOCK FALSE
INVARIANTS ServiceTypes    RevokedStays  GrantsEnd AccountsHold LinksEnd
