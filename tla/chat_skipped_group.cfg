CONSTANTS
  Procs <- ThreeProcs
  Names <- SevenNames
  NameOf <- EachOwn
  MAX_CLIENTS = 6
  GroupNames <- FourGroups
  MemberLists <- Pairings
  Commands = {"create_group"}
  MayCrash = {}
  MaxRequests = 4

CHECK_DEADLOCK FALSE
SPECIFICATION Spec
VIEW DownAlike
CONSTRAINT OneCreates
PROPERTIES
  ExitLeavesAllGroups
