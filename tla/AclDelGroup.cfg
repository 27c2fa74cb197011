\* A two-rule filter added and deleted.
SPECIFICATION AclSpec
CONSTANTS
    p1 = p1
    Ports = {p1}
    CVIDXMAX = 1
    GIDXMAX = 0
    VIDMAX = 3
    CallVids = {2, 3}
    Masks <- OneMask
    Prios = {0}
    VbpPrios = {}
    TagModes = {"ori"}
    ORI = "ori"
    Protos = {}
    NoProto = NoProto
    NoVbp = NoVbp
    RawCfgs = {}
    AnyRaw = FALSE
    ACLRULEMAX = 1
    TEMPLATEMAX = 2
    TagTemplates = {0, 2}
    OtherActs = {"fwd"}
    Requests <- FewRequests
    NoVid = NoVid
    NoIdx = NoIdx
    NoLate = NoLate
PROPERTY DeletesGroup
