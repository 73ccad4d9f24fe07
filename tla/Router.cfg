\* Every table of at most three routes, requests one after another.
CONSTANTS
  page = page
  asset = asset
  h1 = h1
  h2 = h2
  v1 = v1
  v2 = v2
  u = u
  MaxRoutes = 3
  Paths <- MCPaths
  PhpPaths = {page}
  Headers <- MCHeaders
  Values <- MCValues
  Unreadable <- MCUnreadable
  Statuses <- MCStatuses
  Default <- MCDefault
  Replies <- MCReplies
  Tables <- MCTables
SPECIFICATION Spec
INVARIANTS
  TypeOK
  ServedDirectly
  LastRouteDecides
  AppendKeepsReply
  PanicHasCause
