CONSTANTS
  UEs = {u1, u2}
  Preambles = {1}
  MaxRnti = 2
  NB_RA_PROC_MAX = 2
  NUMBER_OF_UE_MAX = 1
  maxHARQ_Msg3Tx = 2
  Mlimit = 2
  MaxRach = 2
  MaxT300 = 0
  RntiCollisions = FALSE
SPECIFICATION RaSpec
CHECK_DEADLOCK FALSE
PROPERTIES
  RaResponseEnds
  NothingLeaks
