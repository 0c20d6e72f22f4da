-------------------------- MODULE MCStorageUpload ---------------------------
(* Values of the constants of StorageUpload for TLC. *)
EXTENDS StorageUpload, TLC

CONSTANTS p1, n1, n2

\* Every call after the first retries its payload.
MCRetry == [c \in Calls |-> p1]

\* The preset with an indexer; a configuration without a target; and two nodes
\* with each level of finality that a user of the library may ask for.
MCConfigs ==
  {LiveWithIndexer, LiveWithNodes(<<>>)}
  \cup {[LiveWithNodes(<<n1, n2>>) EXCEPT !.finality = level] :
          level \in {"FileFinalized", "TransactionPacked", "WaitNothing"}}
=============================================================================
