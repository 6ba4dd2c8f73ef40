SPECIFICATION TlsSpec
CONSTANTS
    Sources = {http, grpc}
    Parts = 2
    MaxVersion = 1
    MaxSignals = 2
    \* A service polls or listens for SIGHUP.
    Triggers = {{"poll"}, {"sighup"}}
    Reloaders = {reloader}
    Users = {user}
    MaxRotations = 1
    Peers = {silent, prompt1, prompt2}
    Silent = {silent}
    Capacity = 1
\* A service that refused to start stops.
CHECK_DEADLOCK FALSE
INVARIANTS
    ServesPair
    ReloadAllOrNothing
PROPERTIES
    PollConverges
    SighupTakesEffect
    HandshakesSettle
