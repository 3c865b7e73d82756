\* One permit and two pool threads: the second job waits, is rejected, or is
\* cancelled in the queue of the pool.
SPECIFICATION Spec
CONSTANTS
    Docs = {d1, d2}
    Templates = {IEEE, APA}
    DefaultTemplate = IEEE
    NoTemplate = NoTemplate
    MaxConcurrent = 1
    PoolSize = 2
    CeleryActive = TRUE
    MaxExecs = 2
    MaxCrashes = 1
    MaxFaults = 1
SYMMETRY Symmetry
INVARIANTS TypeOK PermitsConserved NoOrphan CompletedIsComplete
PROPERTIES CompletedIsKept
