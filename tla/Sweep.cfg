SPECIFICATION SweepSpec
CONSTANTS
  SourceLists <- MCLists
  Modes = {"connect", "syn", "sample"}
  Ports <- MCPorts
  Servers <- MCServers
  Strangers <- MCStrangers
  Concurrency = 2
  WindowIps = 2
  Retransmits = 1
  PortSpace = 5
  MaxWire = 1
  SamplePer = 2
  Machines <- MCMachines
INVARIANTS
  FoundListens
  SweptOnce
  RoutesPinned
