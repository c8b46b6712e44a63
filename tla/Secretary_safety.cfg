SPECIFICATION SecretarySpec
SYMMETRY CommandSymmetry
CONSTANTS
  None = None
  p = p old = old r1 = r1 r2 = r2 r3 = r3 a1 = a1 own = own hidden = hidden gone = gone
  Peers = {p}
  LegacyIds = {old}
  LegacyKey <- MCLegacyKey
  Commands = {k1, k2}
  Sessions = {1, 2}
  Budgets <- MCBudgets
  Requests = {r1, r2, r3}
  Replies = {a1}
  Sender <- MCSender
  Target <- MCTarget
  Named = {own, hidden, gone}
  Agents = {own, hidden}
  Visible = {}
  DefaultAgent = own
  Recent = 3
  ThreadIds = {1, 2, 3}
INVARIANTS
  ContactsSound
  StatusIsOfSession
  RepliesSound
  WaitsForResponder
CHECK_DEADLOCK FALSE
