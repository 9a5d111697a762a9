SPECIFICATION Spec
CONSTANTS
    near = near
    absent = absent
    far = far
    Us = Us
    Gateway = Gateway
    Ip <- MCIp
    Local <- MCLocal
    Alive <- MCAlive
    Mac <- MCMac
    Broadcast = Broadcast
    None = None
    CacheSize = 3
INVARIANTS
    NetInv
    HungOnlyIfUnheard
PROPERTY
    ResolveReturns
