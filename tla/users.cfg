CONSTANTS
  title = title
  debug = debug
  Users = {title, debug}
  Destinations = {"unicast", "alternate", "broadcast"}
  Mask <- MCMask
  Contexts = {rx, control}
  Rx = rx
  RecvPackets = {p1, p2}
  NoPacket = NoPacket
  MaxNotifyUsers = 2
  MaxLinkChanges = 2
  MaxAttaches = 3
SPECIFICATION FairSpec
INVARIANTS
  CallbacksExclusive
  NoCallbackAfterDetach
  FilterIsUnion
PROPERTIES
  LinkStateDelivered
  DetachReturns
CHECK_DEADLOCK FALSE
