SPECIFICATION FairSpec
CONSTANTS
  main = main
  worker = worker
  sMain = sMain
  sOne = sOne
  sTwo = sTwo
  NoAgent = NoAgent
  NoSession = NoSession
  Agents <- MCAgents
  Sessions <- MCSessions
  AgentOf <- MCAgentOf
  Children <- MCChildren
  Hooks <- MCHooks
  WorkingWindow = 0
  SleepingWindow = 1
  IdleWindow = 1
  Slots = {1, 2}
  MaxHooks = 3
INVARIANT ToldWhatHolds
INVARIANT IdleIsIdle
PROPERTY ActivitySettles
CHECK_DEADLOCK FALSE
