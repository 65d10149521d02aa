\* One worker, two requests of different lengths.
SPECIFICATION SafetySpec
CONSTANTS
    Workers = {w1}
    MaxConns = 2
    MaxFd = 1
    BufLen = 3
    Chunks = 1
    Impolite <- NoImpolite
INVARIANTS
    RequestIsOwn
