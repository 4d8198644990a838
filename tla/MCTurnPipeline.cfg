CONSTANTS
  p1 = p1
  p2 = p2
  t1 = t1
  Plugins <- MCPlugins
  Priority <- MCPriority
  Hooks <- MCHooks
  OwnHooks <- MCOwnHooks
  Turns <- MCTurns
  MaxActions = 1
  MaxCalls = 2
  MaxHandlers = 3
SPECIFICATION TurnSpec
INVARIANTS
  HandlersFollowPlugins
  RefusalsHold
  CutLeavesNoTrace
CHECK_DEADLOCK FALSE
