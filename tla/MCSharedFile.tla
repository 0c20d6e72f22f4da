---------------------------- MODULE MCSharedFile ----------------------------
(* Values of the constants of SharedFile for TLC. *)
EXTENDS SharedFile, TLC

CONSTANTS s1, s2, k1, k2, a1

\* A short message and a longer one, whose tail may be left behind.
MCKeyOf == (s1 :> k1) @@ (s2 :> k2)
MCAadOf == [s \in Seals |-> a1]
MCTwoSizes == [s \in Seals |-> IF s = s1 THEN 0 ELSE 1]

\* A key as it was printed, one with a prefix, and one that has lost its end.
MCKeyTexts ==
  {ToHex(k1), [ToHex(k2) EXCEPT !.prefixed = TRUE], [ToHex(k1) EXCEPT !.bytes = 0]}

\* An artifact: JSON, but with other fields.
MCNotes == {<<Open, [json |-> "field"], Close>>}
=============================================================================
