CONSTANTS
  Procs <- ThreeProcs
  Names <- ThreeNames
  NameOf <- EachOwn
  MAX_CLIENTS = 6
  GroupNames = {3}
  MemberLists = {{1, 2}}
  Commands = {"create_group", "send"}
  MayCrash = {2}
  MaxRequests = 2

CHECK_DEADLOCK FALSE
SPECIFICATION Spec
VIEW DownAlike
INVARIANTS
  TypeOK
  NamesUnique
  RegistryAgrees
  SocketsAgree
  RequestNotForgotten
PROPERTIES
  ImplementsRegistry
