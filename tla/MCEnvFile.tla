------------------------------ MODULE MCEnvFile -----------------------------
(* Files and environments for TLC. *)
EXTENDS EnvFile, SequencesExt

CONSTANTS url, url2

Piece(u)  == [url |-> u, padded |-> FALSE]
Padded(u) == [url |-> u, padded |-> TRUE]
blank == <<Piece(Blank)>>
one   == <<Piece(url)>>
Assigns(name, value) == [kind |-> "entry", name |-> name, value |-> value]

\* All files of up to three of these lines: an indexer URL or a blank one; the
\* node lists "url, url2 ", ",url2" and ","; the verifier's address.
MCLines ==
  {[kind |-> "comment"], [kind |-> "malformed"],
   Assigns("0G_STORAGE_INDEXER_URL", blank),
   Assigns("0G_STORAGE_INDEXER_URL", <<Padded(url)>>),
   Assigns("0G_STORAGE_NODE_URL", <<Piece(url), Padded(url2)>>),
   Assigns("0G_STORAGE_NODE_URL", <<Piece(Blank), Piece(url2)>>),
   Assigns("0G_STORAGE_NODE_URL", <<Piece(Blank), Piece(Blank)>>),
   Assigns("PQSP_VERIFIER_CONTRACT_ADDRESS", one)}
MCFiles == SeqOf(MCLines, 3)

\* The chain URL and the key are there or not; the others are missing, blank or
\* there.
MCEnvironments ==
  {e \in [Names -> {Unset, blank, one}] :
     /\ e["0G_CHAIN_RPC_URL"] # blank
     /\ e["0G_PRIVATE_KEY"] = e["0G_CHAIN_RPC_URL"]}

\* .env.example, every line filled in as the README asks, and an empty file.
MCTemplate ==
  {<<>>,
   <<[kind |-> "comment"],
     Assigns("0G_CHAIN_RPC_URL", one), [kind |-> "comment"],
     Assigns("0G_PRIVATE_KEY", one), [kind |-> "comment"],
     Assigns("0G_STORAGE_NODE_URL", one), [kind |-> "comment"],
     Assigns("PQSP_VERIFIER_CONTRACT_ADDRESS", one)>>}
=============================================================================
