CONSTANTS
  UEs = {u1, u2}
  Preambles = {1}
  MaxRnti = 2
  NB_RA_PROC_MAX = 2
  NUMBER_OF_UE_MAX = 2
  maxHARQ_Msg3Tx = 2
  Mlimit = 2
  MaxRach = 2
  MaxT300 = 1
  RntiCollisions = FALSE
INIT RaInit
NEXT RaNext
INVARIANTS
  RaTypeOK
  ContentionResolved
  OneSlotPerRnti
  MacUesInPhy
CHECK_DEADLOCK FALSE
