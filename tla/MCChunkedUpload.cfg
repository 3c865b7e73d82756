\* Three chunks, sent in any order and one of them perhaps twice, or by the
\* browser in two attempts; one crash, lost answer or failing insert.
SPECIFICATION Spec
CONSTANTS
    Clients = {"browser", "api"}
    Total = 3
    MaxRepeats = 1
    MaxAttempts = 2
    MaxFaults = 1
INVARIANTS TypeOK DocumentsWhole OneReassembly NothingLeft
PROPERTIES UploadSettles
