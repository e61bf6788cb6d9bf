SPECIFICATION Spec
CHECK_DEADLOCK FALSE
CONSTANTS
  PGSIZE = 12
  WORD = 2
  NPages = 4
  Images <- MCImages
  Argvs <- MCArgvs
  MmapMax = 4
  Earlier = {0, 2}
INVARIANTS TypeOK ImageExact ArgsPassed HandedOver
