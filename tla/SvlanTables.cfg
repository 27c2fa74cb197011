\* Slots filled, freed and reused under the tables that point into them, among
\* them slots freed by index that keep members and so count as full; VLAN 3 is
\* beyond the last.
SPECIFICATION MCSpec
CONSTANTS
    p1 = p1
    p2 = p2
    Ports = {p1, p2}
    SVIDXMAX = 1
    C2SIDXMAX = 1
    MC2SIDXMAX = 1
    SP2CMAX = 1
    VIDMAX = 2
    CallSvids = {1, 2, 3}
    CallCvids = {1, 2, 3}
    Masks <- BothMasks
    Addrs = {"224.1.1.1", "10.0.0.1"}
    Multicast = {"224.1.1.1"}
    NoAddr = "none"
    RawCfgs <- SomeRawCfgs
    AnyRaw = FALSE
SYMMETRY SwapPorts
INVARIANTS SlotInv EntriesAgree
PROPERTIES RefsStable Sp2cHonoured
