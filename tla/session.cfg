\* One device, two presses of Connect, two sessions granted per nonce.  The
\* code's three opens and bursts of three are two here: one retry of each.
SPECIFICATION Spec
CONSTANTS
    Devices = {d1}
    MaxNonce = 2
    MaxSessions = 2
    OpenAttempts = 2
    BurstCount = 2
    NoSession = NoSession
INVARIANTS
    LinkSound
    SessionWasGranted
PROPERTIES
    SessionStable
