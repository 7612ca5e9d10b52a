\* Two accounts, three keys and two polls under way at once.
CONSTANTS
  a1 = a1
  a2 = a2
  k1 = k1
  k2 = k2
  k3 = k3
  p1 = p1
  p2 = p2
  Account <- MCAccount
  Key <- MCKey
  Poll <- MCPoll
  None = None
SPECIFICATION Spec
INVARIANTS
  SavedLoginReadable
  LogoutForgets
PROPERTIES
  ApprovalCounts
