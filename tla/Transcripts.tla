---------------------------- MODULE Transcripts -----------------------------
(***************************************************************************)
(* What SHAKE256 absorbs for each digest of the protocol: the state        *)
(* commitment over an envelope, the root of a dry run over the payload,    *)
(* and the mock proof over a statement.  Every field is absorbed after its *)
(* length, as a number of LENGTH_BYTES bytes, the lowest first.            *)
(*                                                                         *)
(* A digest stands for the bytes absorbed before it: that no two of them   *)
(* are ever found to hash alike is the promise of SHAKE256.                *)
(***************************************************************************)
EXTENDS Naturals, Sequences

CONSTANTS
  Hashers,       \* computations of a digest
  BASE,          \* the number of bytes
  LENGTH_BYTES,  \* the width of a length
  Contexts,      \* associated data, as the user chooses it
  Envelopes, Payloads, Statements,  \* as they are serialized
  PAYLOAD_ENVELOPE_VERSION, OPEN,   \* how an envelope starts, and a JSON text
  DEFAULT_COMMITMENT_DOMAIN, MOCK_PROOF_DOMAIN, DRY_RUN_CONTEXT

Bytes   == 0..(BASE - 1)
Lengths == 0..(BASE ^ LENGTH_BYTES - 1)
Field   == {f \in Seq(Bytes) : Len(f) \in Lengths}

\* Mistake: the bytes of a length are not cut to their width.
ToLeBytesUncut(n) == [i \in 1..LENGTH_BYTES |-> n \div BASE ^ (i - 1)]

\* u64::to_le_bytes
ToLeBytes(n) == [i \in 1..LENGTH_BYTES |-> (n \div BASE ^ (i - 1)) % BASE]

ASSUME BytesAssumption ==
  /\ BASE \in Nat \ {0} /\ LENGTH_BYTES \in Nat
  \* What powers are, for provers that do not know.
  /\ BASE ^ 0 = 1
  /\ \A i \in 0..LENGTH_BYTES : BASE ^ (i + 1) = BASE * BASE ^ i

ASSUME FieldAssumption ==
  /\ DEFAULT_COMMITMENT_DOMAIN \in Field /\ MOCK_PROOF_DOMAIN \in Field
  /\ DEFAULT_COMMITMENT_DOMAIN # MOCK_PROOF_DOMAIN
  /\ DRY_RUN_CONTEXT \in Field
  /\ \A f \in Contexts \cup Envelopes \cup Payloads \cup Statements :
       f \in Seq(Bytes) /\ Len(f) \in Lengths
  /\ \A f \in Envelopes : f # <<>> /\ f[1] = PAYLOAD_ENVELOPE_VERSION
  /\ \A f \in Payloads : f # <<>> /\ f[1] = OPEN
  /\ OPEN # PAYLOAD_ENVELOPE_VERSION

-----------------------------------------------------------------------------
(* What is hashed *)

Calls == [of : {"commitment"}, message : Envelopes, context : Contexts]
         \cup [of : {"root"}, message : Payloads]
         \cup [of : {"proof"}, message : Statements]

CommitFields(context, message) == <<DEFAULT_COMMITMENT_DOMAIN, context, message>>

\* Mistake: the proof is hashed under the domain of the commitments.
ProofFieldsOneDomain(statement) == <<DEFAULT_COMMITMENT_DOMAIN, statement>>

ProofFields(statement) == <<MOCK_PROOF_DOMAIN, statement>>

\* What each caller hashes; a dry run commits to the payload.
Fields(call) ==
  CASE call.of = "commitment" -> CommitFields(call.context, call.message)
    [] call.of = "root"       -> CommitFields(DRY_RUN_CONTEXT, call.message)
    [] call.of = "proof"      -> ProofFields(call.message)

\* Mistake: a length loses all but its lowest byte.
FrameShort(field) == [i \in 1..LENGTH_BYTES |-> IF i = 1 THEN Len(field) % BASE ELSE 0] \o field

Frame(field) == ToLeBytes(Len(field)) \o field

-----------------------------------------------------------------------------

VARIABLES
  call,     \* what each hasher computes
  fields,   \* how many fields it has absorbed
  absorbed, \* the bytes of them
  digest    \* {} before it is read, then {the bytes it stands for}

vars == <<call, fields, absorbed, digest>>

\* A hasher absorbs: update, for the length of a field and the field.
Update(h) ==
  /\ fields[h] < Len(Fields(call[h]))
  /\ absorbed' = [absorbed EXCEPT ![h] = @ \o Frame(Fields(call[h])[fields[h] + 1])]
  /\ fields' = [fields EXCEPT ![h] = @ + 1]
  /\ UNCHANGED <<call, digest>>

\* finalize_xof and read.
Read(h) ==
  /\ digest[h] = {} /\ fields[h] = Len(Fields(call[h]))
  /\ digest' = [digest EXCEPT ![h] = {absorbed[h]}]
  /\ UNCHANGED <<call, fields, absorbed>>

Init ==
  /\ call \in [Hashers -> Calls]
  /\ fields = [h \in Hashers |-> 0]
  /\ absorbed = [h \in Hashers |-> <<>>]
  /\ digest = [h \in Hashers |-> {}]

Next == \E h \in Hashers : Update(h) \/ Read(h)

Spec == Init /\ [][Next]_vars

-----------------------------------------------------------------------------
(* Properties *)

TypeOK ==
  /\ call \in [Hashers -> Calls]
  /\ fields \in [Hashers -> 0..3] /\ \A h \in Hashers : fields[h] <= Len(Fields(call[h]))
  /\ absorbed \in [Hashers -> Seq(Bytes)]
  /\ digest \in [Hashers -> SUBSET Seq(Bytes)]

\* Equal digests are digests of the same thing: no message and context pass
\* for others whose bytes they share, no dry-run root for the commitment of
\* an envelope (the user may give the context of the dry run as associated
\* data), and no proof for either.
Unambiguous ==
  \A g, h \in Hashers : digest[g] # {} /\ digest[g] = digest[h] => call[g] = call[h]

StartsWith(t, s) == Len(s) <= Len(t) /\ \A i \in 1..Len(s) : s[i] = t[i]

\* Nothing that is hashed whole is the beginning of something else that is:
\* who has absorbed one thing cannot go on to another.
PrefixFree ==
  \A g, h \in Hashers : \A s \in digest[g], t \in digest[h] :
    StartsWith(t, s) => call[g] = call[h]
=============================================================================
