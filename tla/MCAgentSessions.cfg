SPECIFICATION AgentSpec
SYMMETRY Symmetry
CONSTANTS
  Nil = Nil
  Indicators = {"inflation"}
  Jobs = {j1, j2}
  Provider = "fred"
  Stores = {"memory", "supabase"}
  Published = {2}
  MaxRuns = 3
  MaxDrops = 1
  MaxTime = 1
  Calls = {c1, c2}
  Sessions = {s1}
  Countries = {US, KR}
  MaxTurns = 1
INVARIANTS
  LatestIsNewest
  DropCostsOneSave
  SessionsAreIsolated
  HintIsOfTheLatest
CHECK_DEADLOCK FALSE
