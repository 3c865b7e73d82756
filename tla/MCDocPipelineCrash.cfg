\* One background task, no crash and no failing write.
SPECIFICATION Spec
CONSTANTS
    Docs = {d1, d2}
    Templates = {IEEE, APA}
    DefaultTemplate = IEEE
    NoTemplate = NoTemplate
    MaxConcurrent = 1
    PoolSize = 2
    CeleryActive = FALSE
    MaxExecs = 1
    MaxCrashes = 0
    MaxFaults = 0
INVARIANT CrashedRunFails
