CONSTANTS
    DevEUIs = {d1, d2}
    DevAddrs = {a1, a2}
    Clients = {tool, ns}
    TTL = 2
    None = None
SPECIFICATION Spec
SYMMETRY Symmetry
INVARIANTS
    TypeOK
    IndexCoversSessions
    IndexInv
