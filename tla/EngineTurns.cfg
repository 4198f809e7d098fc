SPECIFICATION FairSpec
CONSTANTS
  c1 = c1
  c2 = c2
  s1 = s1
  s2 = s2
  Campaigns <- MCCampaigns
  Settings = {s1}
  NoCampaign = NoCampaign
  NoSetting = NoSetting
  NoJob = NoJob
  MaxIterations = 2
INVARIANTS TypeOK OneJob CheckedFlagHolds AgentCurrent NoStrayCancel
PROPERTIES WorkerOwnsGame CheckSuppression ImplementsGate ShutdownCompletes WaitReturns ImplementsFairGate
