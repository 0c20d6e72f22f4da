SPECIFICATION Spec
CONSTANTS
  SizeOf <- MCSizeOf
  ZeroBytes32 = ZeroBytes32
  NotBytes32 = NotBytes32
  NoSubmission = NoSubmission
  NoTransaction = NoTransaction
  GasPrices = {g1}
  g1 = g1
  g2 = g2
  v1 = v1
  v2 = v2
  v3 = v3
  k1 = k1
  k2 = k2
  Sessions = {v1, v2}
  Signers = {k1, k2}
  SignerOf <- MCSignerOf
  Submissions <- MCSubmissions
  MaxNonce = 1
  ContractDeployed = FALSE
CHECK_DEADLOCK FALSE
INVARIANTS
  AcceptedIsRegistered
