------------------------------ MODULE Protocol ------------------------------
(***************************************************************************)
(* The data of the protocol and the pure functions over it: the crypto     *)
(* crate, the payload and submission types, the checks made before a       *)
(* commitment is submitted, and the parsing of what a command reads.       *)
(*                                                                         *)
(* Cryptography is symbolic.  A sealed envelope is the record of what went *)
(* into it, and opens only under the same key and associated data; a hash  *)
(* is the record of its preimage, so that distinct transcripts have        *)
(* distinct digests.  Byte strings are values of small sets.               *)
(***************************************************************************)
EXTENDS Naturals

CONSTANTS
  SizeOf,        \* length in bytes of each message
  ZeroBytes32,   \* the 32-byte value whose bytes are all zero
  NotBytes32     \* what a string that is not 32 hex-encoded bytes decodes to

-----------------------------------------------------------------------------
(* Authenticated encryption: crypto/src/encryption.rs. *)

PAYLOAD_ENVELOPE_VERSION == 1
TAG_BYTES == 16

\* The nonce is left out: the callers here seal one message per fresh key.
Encrypt(key, msg, aad) ==
  [version |-> PAYLOAD_ENVELOPE_VERSION, key |-> key, aad |-> aad, msg |-> msg]

CiphertextLen(envelope) == SizeOf[envelope.msg] + TAG_BYTES

\* Mistake: the associated data is not authenticated.
OpensAnyAad(envelope, key, aad) ==
  envelope.version = PAYLOAD_ENVELOPE_VERSION /\ envelope.key = key

\* The key and the associated data under which the envelope authenticates.
Opens(envelope, key, aad) ==
  /\ envelope.version = PAYLOAD_ENVELOPE_VERSION
  /\ envelope.key = key
  /\ envelope.aad = aad

-----------------------------------------------------------------------------
(* Commitments and mock proofs: crypto/src/commitment.rs, zk.rs. *)

Commit(message, context) ==
  [domain |-> "pqsp:v1:state-commitment", context |-> context, message |-> message]

MockProofBytes(statement) ==
  [domain |-> "pqsp:v1:mock-proof", statement |-> statement]

Prove(statement) ==
  [system        |-> "mock-zk",
   proof_bytes   |-> MockProofBytes(statement),
   public_inputs |-> statement.public_inputs]

ZkVerify(statement, proof) ==
  /\ proof.system = "mock-zk"
  /\ proof.proof_bytes = MockProofBytes(statement)
  /\ proof.public_inputs = statement.public_inputs

-----------------------------------------------------------------------------
(* What prepare_upload derives from an envelope: storage_client/src.  The  *)
(* proof travels in the payload too, but nothing reads it from there.      *)

Statement(envelope) ==
  LET c == Commit(envelope, envelope.aad)
  IN  [state_commitment |-> c,
       context          |-> envelope.aad,
       public_inputs    |-> <<c, CiphertextLen(envelope)>>]

UploadPayload(envelope) ==
  [fmt              |-> "payload",
   encrypted_blob   |-> envelope,
   state_commitment |-> Statement(envelope).state_commitment]

\* Mistake: roots are written without their prefix.
HexUnprefixed(digest) == [prefixed |-> FALSE, digest |-> digest]

\* Roots are kept as text: hex of a digest, with or without the 0x prefix.
Hex(digest) == [prefixed |-> TRUE, digest |-> digest]

\* zg-storage-client's File::merkle_root over the staged payload bytes.
MerkleRoot(payload) == [tree |-> payload]

\* The root named by the receipt of an upload, which depends on its mode.
ReceiptRoot(envelope, mode) ==
  LET payload == UploadPayload(envelope)
  IN  Hex(IF mode = "dry_run"
          THEN Commit(payload, "pqsp:v1:dry-run-storage-root")
          ELSE MerkleRoot(payload))

\* VerificationArtifact, its fields in the order of its text.
ArtifactOf(mode, root, commitment, statement, proof, inputRoot) ==
  [fmt     |-> "artifact",
   version |-> 1,
   storage_mode   |-> mode,
   upload_receipt |-> [merkle_root |-> root, state_commitment |-> commitment],
   verifier_input |-> [proof_statement |-> statement,
                       proof           |-> proof,
                       merkle_root     |-> inputRoot]]

\* The verification artifact that run_upload saves.
Artifact(envelope, mode) ==
  LET statement == Statement(envelope)
      root      == ReceiptRoot(envelope, mode)
  IN  ArtifactOf(mode, root, statement.state_commitment,
                 statement, Prove(statement), root)

-----------------------------------------------------------------------------
(* Checks before a submission: validate_artifact in main.rs, the two       *)
(* adapters in core/src/verifier.rs.                                       *)

ValidateArtifact(artifact) ==
  /\ artifact.version = 1
  /\ artifact.upload_receipt.state_commitment
       = artifact.verifier_input.proof_statement.state_commitment

\* Mistake: the zero root passes.
ParsesAsAnyBytes32(root) == root.digest # NotBytes32

ParsesAsBytes32(root) == root.digest \notin {ZeroBytes32, NotBytes32}

MockValidate(input) ==
  /\ input.merkle_root.prefixed
  /\ ZkVerify(input.proof_statement, input.proof)

EvmValidate(input) ==
  /\ input.proof_statement.state_commitment # ZeroBytes32
  /\ ParsesAsBytes32(input.merkle_root)
  /\ ZkVerify(input.proof_statement, input.proof)

-----------------------------------------------------------------------------
(* File contents as the commands parse them: "absent", an upload payload   *)
(* in JSON, a raw envelope, a saved artifact, or bytes that are none of    *)
(* these (a plaintext, an empty file, a text that a write left unusable).  *)

Absent == [fmt |-> "absent"]
Bytes(msg) == [fmt |-> "bytes", msg |-> msg]
RawEnvelope(envelope) == [fmt |-> "raw", encrypted_blob |-> envelope]

\* parse_encrypted_payload: upload-payload JSON first, else a raw envelope.
\* A JSON text is never taken for an envelope, whose first byte is the version
\* 1; other bytes may parse as an envelope, but one that opens under no key.
HoldsEnvelope(content) == content.fmt \in {"payload", "raw"}
=============================================================================
