\* Clients that may disconnect before they send: responses.
SPECIFICATION SafetySpec
CONSTANTS
    Workers = {w1, w2}
    MaxConns = 2
    MaxFd = 2
    BufLen = 2
    Chunks = 2
    Impolite <- Disconnects
INVARIANTS
    ResponseComplete
