\* The settings of the switch: every call over bits of registers, from three chips.
CONSTANTS
  c1 = c1
  c2 = c2
  Port <- MCPort
  Priority <- MCPriority
  Queue <- MCQueue
  Dscp <- MCDscp
  Meter <- MCMeter
  Phy <- MCPhy
  IpmcGroup <- MCIpmcGroup
  Hash <- MCHash
  Counter <- MCCounter
  Interrupt <- MCInterrupt
  RmaOctet <- MCRmaOctet
  PpbItem <- MCPpbItem
  Msti <- MCMsti
  Range <- MCRange
  Template <- MCTemplate
  Rule <- MCRule
  Call <- MCCall
  Caller <- MCCaller
  Idle = Idle
  Round <- MCRound
  CallsOf <- MCCallsOf
  FillOf <- MCFillOf
  MostOf <- MCMostOf
SPECIFICATION Spec
INVARIANTS TypeOK NeverMixed AccessesKeepMap AsksFit
PROPERTIES ImplementsSettings
CHECK_DEADLOCK FALSE
