\* Two plain keys and a ranged one that shares its stem, any malloc failing; and
\* dictionaries of five keys written, edited by hand and read back.
SPECIFICATION MCSpec
CONSTANTS
    Keys <- DashKeys
    Ranged = {"s.a-1"}
    Begins <- DashBegins
    Hash <- McHash
    KeyLen <- McKeyLen
    Section <- McSection
    SectionLen <- McSectionLen
    NoSection = "none"
    Hooked = {"s.ab"}
    Values = {"x"}
    ValLen <- McValLen
    NoVal = NoVal
    FirstSize = 2
    MallocFails = TRUE
    MaxKeyLen = 31
    MaxValLen = 22
    TextKeys <- McKeys
    TopLevel = "none"
    SortedKeys <- McSorted
    Heads <- McHeads
    TextValues = {"1", "1;R", ";W"}
    Cut <- McCut
    Blank = ""
    Undef = Undef
    Absent = Absent
    EditLines <- McEdits
CHECK_DEADLOCK FALSE
INVARIANTS TableInv SizesFit RoundTrip
PROPERTIES ImplementsMap PlainStable
