\* The VLAN ids a flush accepts.
SPECIFICATION MCSpec
CONSTANTS
    Ports = {0, 1}
    PORTIDMAX = 1
    VIDMAX = 1
    CallVids = {0, 1}
    UcKeys = {"u1", "u2"}
    McKeys = {"m1"}
    IpKeys = {"g1"}
    KeyVid <- McVid
    Ways <- McWays
    LutMax = 2
    Masks = {{0}}
    Groups = {"224.0.1.1", "239.1.1.1"}
    Unused = "224.0.0.0"
    ExcMax = 2
    MayTimeOut = TRUE
PROPERTIES FlushesEveryVid
