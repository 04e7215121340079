SPECIFICATION Spec
CONSTANTS
  u1 = u1
  u2 = u2
  s1 = s1
  s2 = s2
  r1 = r1
  r2 = r2
  r3 = r3
  NoOne = NoOne
  Users <- MCUsers
  Servers <- MCServers
  Requests <- MCRequests
  ServerOf <- MCServerOf
  PrefixOf <- MCPrefixOf
  MaxKeys = 3
  WebhookMax = 1
  MaxFaults = 1
INVARIANTS
  AtMostOneActiveKey
  WithdrawnRefused
  ActsForOwner
  WebhookLimit
PROPERTIES
  KeysChangedByOwner
SYMMETRY Alike
CHECK_DEADLOCK FALSE
