\* The agent alone, stopped once.
SPECIFICATION Spec
CONSTANTS
    Run = run
    Resumes = {resume1}
    Rewrites = {}
    Web = web
    NSections = 1
    QueueModes = {FALSE}
    MaxLive = 2
    MaxStops = 1
    MaxPolls <- OnePoll
    MaxFaults = 0
INVARIANT StopSticks
