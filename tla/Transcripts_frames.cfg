SPECIFICATION Spec
CONSTANTS
  Hashers = {h1, h2}
  BASE = 2
  LENGTH_BYTES = 2
  Contexts <- MCContexts
  Envelopes <- MCEnvelopes
  Payloads <- MCPayloads
  Statements <- MCStatements
  PAYLOAD_ENVELOPE_VERSION = 1
  OPEN = 0
  DEFAULT_COMMITMENT_DOMAIN <- MCCommitmentDomain
  MOCK_PROOF_DOMAIN <- MCProofDomain
  DRY_RUN_CONTEXT <- MCDryRunContext
CHECK_DEADLOCK FALSE
INVARIANTS
  TypeOK
  Unambiguous
  PrefixFree
