CONSTANTS
  PIPELINE_DEPTH = 2
  MAX_BATCH_MESSAGES = 3
  MAX_ACTIVE_ORDERS = 2
  MaxUserRefNum = 3
  MaxTargets = 2
SPECIFICATION Spec
INVARIANTS ResumesWhereItLeftOff NoSlotLeaks UserRefNumsIncrease LoginFirst OneBatchAtATime
