\* The executions as Celery tasks, each with a cache of its own, and as background
\* tasks, which share the cache of the web process with two polls: one approval
\* and one rewrite, one stop, one exception or crash of a worker.
SPECIFICATION Spec
CONSTANTS
    Run = run
    Resumes = {resume1}
    Rewrites = {rewrite1}
    Web = web
    NSections = 1
    QueueModes = {TRUE, FALSE}
    MaxLive = 2
    MaxStops = 1
    MaxPolls <- TwoPolls
    MaxFaults = 1
INVARIANTS TypeOK NoStuckSession CompletedIsRendered VersionsDistinct
