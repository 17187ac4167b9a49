\* Two concurrent requests of the control plane with one credential to issue,
\* or two of a person whose membership comes and goes.
SPECIFICATION MCSpec
CONSTANTS
    Req = {r1, r2}
    Project = {p}
    Env = {e}
    Service = {s}
    Cred = {c}
    None = None
    HomeProject = p
    HomeEnv = e
    MaxFailures = 2
    HumanReq = {h1, h2}
    CacheUnits = 2
    DelayUnits = 1
    TokenUnits = 3
    MaxFaults = 1
SYMMETRY Requests
VIEW View
INVARIANTS
    ChangesAreAudited
    AnswerMatchesTrail
    RevokedIsRefused
    RemovedMemberRefused
    ServedMeansProvisioned
