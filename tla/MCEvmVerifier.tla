--------------------------- MODULE MCEvmVerifier ----------------------------
(* Values of the constants of EvmVerifier for TLC. *)
EXTENDS EvmVerifier, TLC

CONSTANTS v1, v2, v3, k1, k2, g1, g2

\* Two sessions of one signer, and one of another.
MCSignerOf == [v \in Sessions |-> IF v = v3 THEN k2 ELSE k1]

\* The sessions of one signer, and the gas prices, may be exchanged.
MCSymmetry == Permutations({v1, v2}) \cup Permutations({g1, g2})

MCSizeOf == [m \in {"m"} |-> 7]

\* The verifier inputs of two uploads of the same message.
InputOf(key) ==
  Artifact(Encrypt(key, "m", "aad"), "live").verifier_input

\* Edited artifacts: a zero root, a malformed root, a zero commitment, and a
\* proof of another statement.
MCValid == {InputOf("k1"), InputOf("k2")}
MCEdited ==
  {[InputOf("k1") EXCEPT !.merkle_root.digest = ZeroBytes32],
   [InputOf("k1") EXCEPT !.merkle_root.digest = NotBytes32],
   [InputOf("k1") EXCEPT !.proof_statement.state_commitment = ZeroBytes32],
   [InputOf("k1") EXCEPT !.proof = Prove(InputOf("k2").proof_statement)]}
MCSubmissions == MCValid \cup MCEdited
=============================================================================
