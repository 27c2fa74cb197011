\* Slots shared, filled and replaced among PVIDs, protocol rules and the guest
\* VLAN: VLAN 4 is beyond the table, VLAN 3 is one the protocol calls refuse,
\* and there is one protocol more than groups.
SPECIFICATION MCSpec
CONSTANTS
    p1 = p1
    p2 = p2
    Ports = {p1, p2}
    CVIDXMAX = 1
    GIDXMAX = 1
    VIDMAX = 3
    CallVids = {2, 3, 4}
    Masks = {{}}
    Prios = {0}
    VbpPrios = {0}
    TagModes = {"ori"}
    ORI = "ori"
    Protos = {"ip", "arp", "ipx"}
    NoProto = NoProto
    NoVbp = NoVbp
    RawCfgs <- SomeRawCfgs
    AnyRaw = FALSE
SYMMETRY SwapPorts
INVARIANTS SlotInv GroupsConsistent
PROPERTIES PvidStable RefsStable GroupsOwned KeepsPromise
