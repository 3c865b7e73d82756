\* Background and Celery executions, one template, no failing write: small
\* enough for the temporal properties under fairness.
SPECIFICATION FairSpec
CONSTANTS
    Docs = {d1, d2}
    Templates = {IEEE}
    DefaultTemplate = IEEE
    NoTemplate = NoTemplate
    MaxConcurrent = 1
    PoolSize = 2
    CeleryActive = TRUE
    MaxExecs = 2
    MaxCrashes = 1
    MaxFaults = 0
PROPERTIES EventualVerdict ImplementsSlots
