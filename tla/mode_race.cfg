\* Two debug requests that may each switch the bundling mode, against the
\* ticker goroutines: a test driver whose HTTP call gives up while Stop
\* still waits on the done channel, then calls again.
CONSTANTS
    Clients = {c1, c2}
    ModeClients = {c1, c2}
    MaxCalls = 3
SPECIFICATION Spec
INVARIANT ModeHonoured
