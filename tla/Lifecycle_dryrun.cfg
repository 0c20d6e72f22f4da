SPECIFICATION Spec
CONSTANTS
  SizeOf <- MCSizeOf
  ZeroBytes32 = ZeroBytes32
  NotBytes32 = NotBytes32
  Empty = Empty
  Garbled = Garbled
  MixedBytes32 = MixedBytes32
  NoJob = NoJob
  Uploads = {u1,u2}
  Verifies = {v1}
  Downloads = {}
  Decrypts = {}
  Files = {f1,f2}
  Plaintexts = {p1}
  Aads = {a1}
  LibraryEnvelopes <- MCNoEnvelopes
  StorageModes = {"dry_run", "live"}
  VerifierModes = {"local_mock", "evm"}
SYMMETRY Symmetry
CHECK_DEADLOCK FALSE
INVARIANTS
  RegisteredIsAnchored
