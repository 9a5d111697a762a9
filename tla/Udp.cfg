SPECIFICATION Spec
CONSTANTS
    r1 = r1
    r2 = r2
    r3 = r3
    Remote = {r1, r2, r3}
    None = None
    ListenPorts = {0, 2}
    FirstPort = 1
    Ports = 3
    MaxSockets = 4
SYMMETRY Symmetry
INVARIANTS
    OnePartner
    OneSocket
