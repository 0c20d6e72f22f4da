---------------------------- MODULE MCLifecycle -----------------------------
(* Values of the constants of Lifecycle for TLC, and the symmetry between  *)
(* the paths and between the uploads, which no definition tells apart.     *)
EXTENDS Lifecycle, TLC

MCSizeOf == [m \in Messages |-> IF m = Empty THEN 0 ELSE 7]

\* One envelope, or none, that a user of the crypto crate has sealed.
MCNoEnvelopes == {}
MCOneEnvelope ==
  {Encrypt("k1", CHOOSE m \in Plaintexts : TRUE, CHOOSE a \in Aads : TRUE)}

FileSymmetry == Permutations(Files)
Symmetry == Permutations(Files) \cup Permutations(Uploads)
=============================================================================
