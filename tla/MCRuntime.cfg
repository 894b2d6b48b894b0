SPECIFICATION MCSpec
CONSTANTS
  dflt = dflt
  watch = watch
  past = past
  mk = mk
  free1 = free1
  free2 = free2
  Registers = {dflt, watch, past, mk, free1, free2}
  DefaultKey = dflt
  ObserverKey = watch
  History = {past}
  Marks = {mk}
  Lenses = {l1}
  Phases = {1, 2}
  NoPhase = NoPhase
  MaxLiminality = 1
  WriteOptions <- MCWriteOptions
  Budgets <- MCBudgets
  MaxFacets = 2
  s1 = s1
  s2 = s2
  block = block
  line = line
  Sources = {s1, s2}
  Dialects = {block, line}
  Prepared <- MCPrepared
  Remembers <- MCRemembers
  Tier <- MCTier
  Volatility <- MCVolatility
  CacheKeys <- MCKeys
  CacheValues <- MCValues
  Ttl <- MCTtl
  MaxEntries = 2
  Groups <- MCGroups
  ForgetBeats = 5
  MaxTick = 2
  MaxBeats = 2
  Parts = {"bank", "cache", "session"}
  MaxMoves <- MCMoves
SYMMETRY Symmetry
INVARIANT RuntimeTypeOK
INVARIANT SideTablesAreExact
PROPERTY ProtectedStay
PROPERTY EnforcementMeetsTheCap
INVARIANT HeldIsFresh
INVARIANT SetIsReadable
INVARIANT HitIsOfAnAlikeText
INVARIANT HandlesKeepTheirText
CHECK_DEADLOCK FALSE
