SPECIFICATION Spec
CONSTANTS
  key1 = key1
  key2 = key2
  key3 = key3
  key5 = key5
  first1 = first1
  first2 = first2
  first3 = first3
  val_a = val_a
  val_c = val_c
  val_n = val_n
  val_z = val_z
  val_y = val_y
  NullKey = NullKey
  Null = Null
  Workers = {w1, w2}
  Threads = {"owner", "other"}
  Layouts = {"earlier", "staged", "concurrent", "early"}
  FirstInputs <- MCFirstInputs
  SecondVals <- MCSecondVals
  InDomain <- MCInDomain
  Store <- MCStore
  KeyOf <- MCKeyOf
  HashOf <- MCHashOf
  MIN_SECOND_ROWS = 1
  FIRST_PER_SECOND = 1
  SAMPLE_ROWS = 2
  MIN_SKIP_PERCENT = 50
  SEEN_BATCH = 2
  MAX_FIRST_ROWS = 2
  MaxRows = 4
INVARIANTS TypeOK JoiningRowKept DecisionsAgree CountsExact OutcomeTruthful FilledOnceAtThreshold StaleAtMostABatch
PROPERTIES OffStaysOff
SYMMETRY WorkerSymmetry
