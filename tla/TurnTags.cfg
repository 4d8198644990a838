CONSTANTS
  p1 = p1
  p2 = p2
  t1 = t1
  Plugins <- MCPlugins
  Priority <- MCPriority
  Hooks <- MCHooks
  OwnHooks <- MCOwnHooks
  Turns <- MCTurns
  MaxActions = 1
  MaxCalls = 0
  MaxHandlers = 3
SPECIFICATION TurnSpec
INVARIANT TagsHidden
CHECK_DEADLOCK FALSE
