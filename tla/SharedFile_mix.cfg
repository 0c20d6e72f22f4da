SPECIFICATION Spec
CONSTANTS
  s1 = s1
  s2 = s2
  k1 = k1
  k2 = k2
  a1 = a1
  Writers = {w1, w2}
  Downloads = {w1}
  Readers = {r1}
  Seals = {s1, s2}
  KeyOf <- MCKeyOf
  AadOf <- MCAadOf
  SizeOf <- MCTwoSizes
  Keys = {k1, k2}
  Aads = {a1}
  Notes <- MCNotes
  KeyTexts <- MCKeyTexts
  KEY_BYTES = 1
  NONCE_BYTES = 1
  TAG_BYTES = 1
CHECK_DEADLOCK FALSE
INVARIANTS
  TypeOK
  RecoveredIsWhole
  WholeIsRecovered
  UndisturbedIsKept
