\* A PVID call replaces the slot of another port's protocol rule.
SPECIFICATION MCSpec
CONSTANTS
    p1 = p1
    p2 = p2
    Ports = {p1, p2}
    CVIDXMAX = 1
    GIDXMAX = 1
    VIDMAX = 5
    CallVids = {2, 3, 4}
    Masks = {}
    Prios = {0}
    VbpPrios = {}
    TagModes = {"ori"}
    ORI = "ori"
    Protos = {"ip"}
    NoProto = NoProto
    NoVbp = NoVbp
    RawCfgs = {}
    AnyRaw = FALSE
SYMMETRY SwapPorts
PROPERTIES ReplacesUnusedOnly
