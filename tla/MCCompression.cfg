SPECIFICATION Spec
CONSTANTS
  MAX_MATCH = 8
  DICT_SIZE = 16
  HASH_BITS = 3
  LZ_CODE_BUF_SIZE = 32
  OUT_BUF_SIZE = 40
  STATIC_LIMIT = 12
  FAR = 14
  LONG_MATCH = 6
  LONG_ENOUGH = 4
  PROBES = 4
  FEW_PROBES = 2
  BLOCK_BYTES = 20
  FAST_LOOKUP_BITS = 4
  WINDOW = 16
  Inputs <- MCInputs
  Pieces = {2, 6, 50}
  InSizes = {1, 6}
  Rooms = {1, 4}
  MaxFail = 2
  Weights <- MCWeights
  Limits = {4, 7, 15}
INVARIANTS
    DecodesThePrefix
    PiecesDoNotMatter
    ClosedIsUnbroken
    RoomForBlock
    EveryCallAdvances
    CodesRight
CHECK_DEADLOCK FALSE
