\* An XHTTP inbound on 0.0.0.0 and one connection of an IPv4 client.
CONSTANTS
    Sockets = {1}
    Inbounds <- WildcardInbounds
    Tuples <- WildcardTuples
    Inodes = {i1}
    Configs <- MCConfigs
    Idle = 2
    Recheck = 1
    MaxFaults = 0
    Nil = Nil
SPECIFICATION FairSpec
PROPERTIES DualStackLeaksAreClosed
