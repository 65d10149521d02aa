\* Clients that send a request and wait: descriptors and responses.
SPECIFICATION Spec
CONSTANTS
    Workers = {w1, w2}
    MaxConns = 3
    MaxFd = 2
    BufLen = 2
    Chunks = 2
    Impolite <- NoImpolite
INVARIANTS
    DescriptorOwned
    ResponseComplete
PROPERTIES
    Answered
