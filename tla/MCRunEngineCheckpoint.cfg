SPECIFICATION Spec
CONSTANTS
  w1 = w1
  w2 = w2
  o1 = o1
  o2 = o2
  h = h
  p = p
  Workers = {w1, w2}
  RunItem = RunItem
  Ids = {RunItem}
  NoOne = NoOne
  Absent = Absent
  Turns = {1, 2, 3, 4}
  Stages = {"associate_draft", "oc_attack", "rubric_gate"}
  StageOf <- MCStageOfTwo
  Before <- MCBeforeTwo
  Raises <- MCRaisesTwo
  RubricTurns = {}
  CheckpointStages = {"oc_attack"}
  Boundaries = {"oc_attack", "policy_decisions"}
  Gates = {h, p}
  HardHuman = {h}
  Gated = TRUE
  Outputs = {o1}
  NoBody = NoBody
  Invalid = Invalid
  NoTurn = NoTurn
  NoCall = NoCall
  MaxPlausible = 2
  HardCap = 9
  Costs = {1}
  Caps = {9}
  Grants = {1}
  MaxTurnAttempts = 1
  MaxExecutions = 2
  MaxFaults = 0
  MaxOps = 0
INVARIANTS CheckpointHonoured
CHECK_DEADLOCK FALSE
