\* Two remote branches that join, and a ban; one crash at any point.
SPECIFICATION Spec
CONSTANTS
  Initial <- MCInitial
  Remote = {"jb", "pb", "mb", "nb"}
  Local = {"ban"}
  Keys <- MCKeys
  NoKey = "-"
  Users <- MCUsers
  LocalUsers <- MCLocalUsers
  KeyOf <- MCKeyOf
  Membership <- MCMembership
  RemotePrev <- MCRemotePrev
  RemoteState <- MCRemoteState
  Fallible = {}
  Allowed <- MCAllowed
  Resolve <- MCResolve
  MaxPrev = 20
  MaxCrashes = 1
  NoHash = "none"
  MaxParents = 1
INVARIANTS
  StateEventsExist
  SoftFailedOut
  
  StatesLoad
PROPERTY
  NoLostUpdate
CHECK_DEADLOCK FALSE
