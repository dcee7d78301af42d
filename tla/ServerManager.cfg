SPECIFICATION FairSpec
CONSTANTS
  s1 = s1
  s2 = s2
  c1 = c1
  c2 = c2
  Servers <- MCServers
  Callers <- TwoCallers
  Placeholder = Placeholder
  Nil = Nil
  MaxBoots = 2
INVARIANTS
  TypeOK
  OneServerAtATime
  PowerActionHoldsGate
  FnWhileProcessGone
  CurrentIsLastStarted
  RestartNotRefusedByItself
PROPERTIES
  AwaitedBootIsGone
  InstancesKeepContract
  EveryCallReturns
