\* The browser alone, without any fault.
SPECIFICATION Spec
CONSTANTS
    Clients = {"browser"}
    Total = 3
    MaxRepeats = 0
    MaxAttempts = 3
    MaxFaults = 0
INVARIANT BrowserIsServed
