\* Two presses of Connect: what follows the last must not need another one.
SPECIFICATION LiveSpec
CONSTANTS
    Devices = {d1}
    MaxNonce = 2
    MaxSessions = 1
    OpenAttempts = 2
    BurstCount = 2
    NoSession = NoSession
PROPERTIES
    AttemptEnds
    
    GrantedEventuallyConnected
