\* More events than the channels hold.
CONSTANTS
  ann = ann  bob = bob  k1 = k1  k2 = k2  e1 = e1  e2 = e2
  Everyone = Everyone
  Conns = {k1, k2}
  Events = {e1, e2}
  User <- Owner
  To <- For
  QueueCap = 1
  SendCap = 2
SPECIFICATION FairSpec
INVARIANT HubInv
PROPERTY HubLive
CHECK_DEADLOCK FALSE
