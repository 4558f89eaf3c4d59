CONSTANTS
  Procs <- TwoProcs
  Names <- ThreeNames
  NameOf <- OwnNames
  MAX_CLIENTS = 5
  GroupNames = {3}
  MemberLists = {{1, 2}}
  Commands = {"create_group", "send", "who"}
  MayCrash = {2}
  MaxRequests = 3

CHECK_DEADLOCK FALSE
SPECIFICATION Spec
PROPERTIES
  AnswerBelongsToRequest
