\* A C2S rule moved to another SVLAN takes the other ports of its entry along.
SPECIFICATION MCSpec
CONSTANTS
    p1 = p1
    p2 = p2
    Ports = {p1, p2}
    SVIDXMAX = 1
    C2SIDXMAX = 2
    MC2SIDXMAX = 0
    SP2CMAX = 0
    VIDMAX = 2
    CallSvids = {1, 2}
    CallCvids = {1}
    Masks <- BothMasks
    Addrs = {}
    Multicast = {}
    NoAddr = "none"
    RawCfgs = {}
    AnyRaw = FALSE
SYMMETRY SwapPorts
PROPERTIES C2sOthersKept
