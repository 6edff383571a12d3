\* Three validators, two powers, up to three batches of two updates per block.
CONSTANTS
  Validators = {v1, v2, v3}
  Powers = {0, 1}
  MaxBatchLen = 2
  MaxIngests = 3
SPECIFICATION Spec
INVARIANTS
  TypeOK
  LastWriteWinsInFirstOrder
