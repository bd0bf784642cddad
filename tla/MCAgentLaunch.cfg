SPECIFICATION FairSpec
CONSTANTS
  l1 = l1
  l2 = l2
  q1 = q1
  q2 = q2
  t1 = t1
  t2 = t2
  Kickoff = Kickoff
  Nobody = Nobody
  NoJob = NoJob
  Launch <- MCLaunch
  Request <- MCRequest
  Turn <- MCTurn
INVARIANTS
  KickoffOnce
  UnsentIsUnsent
  ReceiptTrue
PROPERTIES
  ReceiptStands
  Answered
