---------------------------- MODULE MCTranscripts ----------------------------
(* Values of the constants of Transcripts for TLC: two bytes, which are also *)
(* the bytes of every length and the first bytes of envelopes and JSON, so   *)
(* that any field can look like a length or like another field.             *)
EXTENDS Transcripts

Texts(lengths) == UNION {[1..n -> Bytes] : n \in lengths}

MCContexts   == Texts(0..2)
MCEnvelopes  == {f \in Texts(1..3) : f[1] = 1}
MCPayloads   == {f \in Texts(1..3) : f[1] = 0}
MCStatements == {f \in Texts(1..3) : f[1] = 0}
MCCommitmentDomain == <<0, 1>>
MCProofDomain      == <<1, 0>>
MCDryRunContext    == <<0>>
=============================================================================
