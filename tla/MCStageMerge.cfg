SPECIFICATION Spec
CONSTANTS
  s1 = s1
  s2 = s2
  m1 = m1
  m2 = m2
  Stage <- MCStage
  Run = {r1}
  RunOf <- MCRunOf
  Merge <- MCMerge
  MergeOf <- MCMergeOf
  NoRun = NoRun
  NoMerge = NoMerge
  MaxCommits = 3
INVARIANTS
  MergedLanded
  OneApplying
  GatedOnly
  RunTold
PROPERTIES
  MainGrows
