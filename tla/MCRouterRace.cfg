CONSTANTS
  Methods = {"GET", "PUT"}
  Patterns <- OneRow
  Names = {":x"}
  Contexts = {c1, c2}
  Paths <- MCPaths
  MaxRoutes = 2
  NoRoute = NoRoute
SPECIFICATION Spec
INVARIANTS RunsMatching
