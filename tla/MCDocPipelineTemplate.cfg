\* One document, dispatched to Celery.
SPECIFICATION Spec
CONSTANTS
    Docs = {d1, d2}
    Templates = {IEEE, APA}
    DefaultTemplate = IEEE
    NoTemplate = NoTemplate
    MaxConcurrent = 1
    PoolSize = 2
    CeleryActive = TRUE
    MaxExecs = 1
    MaxCrashes = 0
    MaxFaults = 0
INVARIANT OutputHasSelectedTemplate
