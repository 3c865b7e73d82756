\* Two tabs, a run of two reports, entries fresh for two
\* ticks; a deletion, a failing call or a cancellation.
SPECIFICATION Spec
CONSTANTS
    Tabs = {uploader, second}
    Uploader = uploader
    Reports = 2
    Ttl = 2
    MaxTroubles = 1
INVARIANTS TypeOK PayloadConsistent
PROPERTIES AloneNeverGoesBack VerdictShown  
