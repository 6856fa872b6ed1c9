\* Two sockets in succession or side by side, accepted by an XHTTP inbound or
\* by another on the same port, or outgoing; two inodes, one fault.
CONSTANTS
    Sockets = {1, 2}
    Inbounds <- MCInbounds
    Tuples <- MCTuples
    Inodes = {i1, i2}
    Configs <- MCConfigs
    Idle = 2
    Recheck = 1
    MaxFaults = 1
    Nil = Nil
SPECIFICATION FairSpec
INVARIANTS TypeOK
PROPERTIES OnlyCoreSockets OnlyIdleSockets AcceptedAreProtected LeaksAreClosed
