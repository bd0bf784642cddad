SPECIFICATION Spec
CONSTANTS
  h1 = h1
  h2 = h2
  s1 = s1
  auto = auto
  human = human
  c1 = c1
  c2 = c2
  Handoff <- MCHandoff
  Stage <- MCStage
  StageOf <- MCStageOf
  Worker <- MCWorker
  Chat <- MCChat
  AutoWorker = auto
  NoWorker = NoWorker
  NoChat = NoChat
  NoCall = NoCall
  Prod = Prod
  Loop = Loop
  Runner = Runner
  MaxCalls = 4
SYMMETRY MCSymmetry
VIEW MCView
INVARIANTS
  ReportsTrue
  AcceptedKept
  ClaimedOnce
  OneKickoff
