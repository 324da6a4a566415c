SPECIFICATION RulesSpec
CONSTANTS
  direct = direct  p = p  q = q
  h1 = h1  h2 = h2
  W = 2
  Route = {direct, p, q}
  Direct = direct
  Hostname = {h1, h2}
  LocalAddress <- LoopbackAndZero
  MaxRules = 3
  NoAction = NoAction
INVARIANTS RoutesAsWritten
CHECK_DEADLOCK FALSE
