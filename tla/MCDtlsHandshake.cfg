CONSTANTS
    c1 = c1
    c2 = c2
    right = right
    wrong = wrong
    Server = srv
    Clients = {c1, c2}
    Psk = {right, wrong}
    ServerPsk = right
    ClientPsks <- MCClientPsks
    MaxConnects = 2
    MaxAccepts = 2
    MaxFaults = 2
SPECIFICATION FairSpec
INVARIANTS ClientSessionAgrees ServerSessionAgrees CommitsAfterCookie
PROPERTIES HandshakeEnds CleanHandshakeCompletes
CHECK_DEADLOCK FALSE
