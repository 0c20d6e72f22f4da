--------------------------- MODULE StorageUpload ----------------------------
(***************************************************************************)
(* Live uploads, step by step: calls of upload_prepared that run           *)
(* upload_live_bytes (storage_client/src/client.rs) against the 0G chain   *)
(* and storage nodes.  A call stages the payload in a temporary file,      *)
(* connects to everything it was configured with, and hands the file to    *)
(* the SDK, which pays for its root on the chain and sends its segments.   *)
(*                                                                         *)
(* Calls run concurrently.  As upload_prepared only borrows what it        *)
(* uploads, a caller may retry a payload while or after it was tried.  Any *)
(* step can fail, and a call can be killed at any step.                    *)
(***************************************************************************)
EXTENDS Naturals, Sequences, FiniteSets

CONSTANTS
  Calls,
  PayloadOf,  \* the payload of each call
  Segments,   \* the segments of a payload
  Nodes,      \* storage nodes
  Configs     \* configurations that calls may be given

\* UploadFinality
Finalities == {"FileFinalized", "TransactionPacked", "WaitNothing"}

ASSUME UploadAssumption ==
  /\ \A c \in Calls : c \in DOMAIN PayloadOf
  /\ IsFiniteSet(Segments) /\ Segments # {}
  /\ \A config \in Configs : config.node_urls \in Seq(Nodes) /\ config.finality \in Finalities

Payloads == {PayloadOf[c] : c \in Calls}

-----------------------------------------------------------------------------
(* Configurations: the fields that upload_live_bytes looks at. *)

LiveWithIndexer ==
  [credentials |-> TRUE, indexer |-> TRUE, node_urls |-> <<>>,
   skip_tx |-> TRUE, finality |-> "TransactionPacked"]

LiveWithNodes(node_urls) ==
  [LiveWithIndexer EXCEPT !.indexer = FALSE, !.node_urls = node_urls]

\* Mistake: the two waiting levels are exchanged.
IntoSdkExchanged(finality) ==
  CASE finality = "FileFinalized"     -> "TransactionPacked"
    [] finality = "TransactionPacked" -> "FileFinalized"
    [] OTHER                          -> "WaitNothing"

\* UploadFinality::into_sdk
IntoSdk(finality) == finality

VARIABLES
  config,    \* the configuration of each call
  pc,        \* where each call is
  temp,      \* its staging file: "none", "partial" or "whole"
  clients,   \* how many connections it has opened
  mempool,   \* calls whose storage transaction awaits inclusion
  paid,      \* calls whose storage transaction is packed
  segments,  \* the segments that nodes hold: <<node, payload, segment>>
  final      \* payloads that the nodes have finalized

vars == <<config, pc, temp, clients, mempool, paid, segments, final>>
outside == <<mempool, paid, segments, final>>

Goto(c, label) == pc' = [pc EXCEPT ![c] = label]

Packed == {PayloadOf[c] : c \in paid}
Held   == {p \in Payloads : \A s \in Segments : \E n \in Nodes : <<n, p, s>> \in segments}

\* The chain client, then the indexer or every node of the list.
Connections(c) == 1 + IF config[c].indexer THEN 1 ELSE Len(config[c].node_urls)

\* The nodes a call may send to: those the indexer selects, or the list.
Reachable(c) ==
  IF config[c].indexer THEN Nodes
  ELSE {config[c].node_urls[i] : i \in DOMAIN config[c].node_urls}

-----------------------------------------------------------------------------
(* upload_live_bytes *)

HasTarget(c) == config[c].indexer \/ config[c].node_urls # <<>>

\* Mistake: a list without a node is taken for a target.
BeginWithoutTarget(c) ==
  /\ pc[c] = "idle"
  /\ Goto(c, IF config[c].credentials THEN "staging" ELSE "failed")
  /\ UNCHANGED <<config, temp, clients, outside>>

\* MissingChainCredentials and MissingUploadTarget are found before anything
\* is done.
Begin(c) ==
  /\ pc[c] = "idle"
  /\ Goto(c, IF config[c].credentials /\ HasTarget(c) THEN "staging" ELSE "failed")
  /\ UNCHANGED <<config, temp, clients, outside>>

CreateTemp(c) ==
  /\ pc[c] = "staging" /\ temp[c] = "none"
  /\ temp' = [temp EXCEPT ![c] = "partial"]
  /\ UNCHANGED <<config, pc, clients, outside>>

\* write_all and flush; then the root is computed and the file opened.
WriteTemp(c) ==
  /\ pc[c] = "staging" /\ temp[c] = "partial"
  /\ temp' = [temp EXCEPT ![c] = "whole"]
  /\ Goto(c, "connecting")
  /\ UNCHANGED <<config, clients, outside>>

\* Mistake: a node that cannot be reached is left out.
ConnectLeniently(c) ==
  /\ pc[c] = "connecting"
  /\ \E more \in {0, 1} :
       /\ clients' = [clients EXCEPT ![c] = @ + more]
       /\ Goto(c, IF clients[c] + 1 >= Connections(c) \/ more = 0 THEN "sdk" ELSE "connecting")
  /\ UNCHANGED <<config, temp, outside>>

\* Mistake: the count of connections is compared before it is advanced.
ConnectOncePastTheEnd(c) ==
  /\ pc[c] = "connecting"
  /\ clients' = [clients EXCEPT ![c] = @ + 1]
  /\ Goto(c, IF clients[c] = Connections(c) THEN "sdk" ELSE "connecting")
  /\ UNCHANGED <<config, temp, outside>>

\* The chain client, the indexer, the nodes of the list one after the other.
Connect(c) ==
  /\ pc[c] = "connecting"
  /\ clients' = [clients EXCEPT ![c] = @ + 1]
  /\ Goto(c, IF clients[c] + 1 = Connections(c) THEN "sdk" ELSE "connecting")
  /\ UNCHANGED <<config, temp, outside>>

\* The SDK finds that the file is known and does not pay for it again.
SkipTx(c) ==
  /\ pc[c] = "sdk" /\ config[c].skip_tx
  /\ PayloadOf[c] \in Packed
  /\ Goto(c, "sending")
  /\ UNCHANGED <<config, temp, clients, outside>>

Dispatch(c) ==
  /\ pc[c] = "sdk"
  /\ mempool' = mempool \cup {c}
  /\ Goto(c, "paying")
  /\ UNCHANGED <<config, temp, clients, paid, segments, final>>

SeePacked(c) ==
  /\ pc[c] = "paying" /\ c \in paid
  /\ Goto(c, "sending")
  /\ UNCHANGED <<config, temp, clients, outside>>

SendSegment(c, s, n) ==
  /\ pc[c] = "sending" /\ n \in Reachable(c)
  /\ <<n, PayloadOf[c], s>> \notin segments
  /\ segments' = segments \cup {<<n, PayloadOf[c], s>>}
  /\ UNCHANGED <<config, pc, temp, clients, mempool, paid, final>>

\* With expected_replica = 1 every segment has to be on one node.
Sent(c) ==
  /\ pc[c] = "sending" /\ PayloadOf[c] \in Held
  /\ Goto(c, "waiting")
  /\ UNCHANGED <<config, temp, clients, outside>>

\* Whether a call may return that asks for this level.
Satisfies(finality, isHeld, isFinal) ==
  \/ finality = "WaitNothing"
  \/ finality = "TransactionPacked" /\ isHeld
  \/ finality = "FileFinalized" /\ isFinal

\* Mistake: for a packed transaction, the segments are not waited for.
ReturnWhenPaid(c) ==
  /\ pc[c] \in {"paying", "sending", "waiting"}
  /\ LET required == IntoSdk(config[c].finality)
     IN  /\ required # "WaitNothing" => pc[c] \in {"sending", "waiting"}
         /\ Satisfies(required, PayloadOf[c] \in Packed, PayloadOf[c] \in final)
  /\ Goto(c, "returned")
  /\ temp' = [temp EXCEPT ![c] = "none"]
  /\ UNCHANGED <<config, clients, outside>>

\* The receipt is returned, and the staging file dropped.
Return(c) ==
  /\ pc[c] \in {"paying", "sending", "waiting"}
  /\ LET required == IntoSdk(config[c].finality)
     IN  /\ required # "WaitNothing" => pc[c] = "waiting"
         /\ Satisfies(required, PayloadOf[c] \in Held, PayloadOf[c] \in final)
  /\ Goto(c, "returned")
  /\ temp' = [temp EXCEPT ![c] = "none"]
  /\ UNCHANGED <<config, clients, outside>>

Running == {"staging", "connecting", "sdk", "paying", "sending", "waiting"}

\* Mistake: an error after the file was handed to the SDK leaves it behind.
FailKeepingTemp(c) ==
  /\ pc[c] \in Running
  /\ Goto(c, "failed")
  /\ temp' = [temp EXCEPT ![c] = IF pc[c] \in {"paying", "sending"} THEN @ ELSE "none"]
  /\ UNCHANGED <<config, clients, outside>>

\* Any error is returned; the staging file is dropped, nothing else undone.
Fail(c) ==
  /\ pc[c] \in Running
  /\ Goto(c, "failed")
  /\ temp' = [temp EXCEPT ![c] = "none"]
  /\ UNCHANGED <<config, clients, outside>>

Kill(c) ==
  /\ pc[c] \in Running
  /\ Goto(c, "killed")
  /\ UNCHANGED <<config, temp, clients, outside>>

-----------------------------------------------------------------------------
(* The chain and the nodes *)

Include(c) ==
  /\ c \in mempool
  /\ mempool' = mempool \ {c} /\ paid' = paid \cup {c}
  /\ UNCHANGED <<config, pc, temp, clients, segments, final>>

Drop(c) ==
  /\ c \in mempool
  /\ mempool' = mempool \ {c}
  /\ UNCHANGED <<config, pc, temp, clients, paid, segments, final>>

FinalizeFile(p) ==
  /\ p \in Held \ final
  /\ final' = final \cup {p}
  /\ UNCHANGED <<config, pc, temp, clients, mempool, paid, segments>>

-----------------------------------------------------------------------------

Init ==
  /\ config \in [Calls -> Configs]
  /\ pc = [c \in Calls |-> "idle"]
  /\ temp = [c \in Calls |-> "none"]
  /\ clients = [c \in Calls |-> 0]
  /\ mempool = {} /\ paid = {} /\ segments = {} /\ final = {}

Next ==
  \/ \E c \in Calls :
       \/ Begin(c) \/ CreateTemp(c) \/ WriteTemp(c) \/ Connect(c)
       \/ SkipTx(c) \/ Dispatch(c) \/ SeePacked(c) \/ Sent(c)
       \/ \E s \in Segments, n \in Nodes : SendSegment(c, s, n)
       \/ Return(c) \/ Fail(c) \/ Kill(c)
       \/ Include(c) \/ Drop(c)
  \/ \E p \in Payloads : FinalizeFile(p)

Spec == Init /\ [][Next]_vars

\* A call goes on while its connections do, its transaction is packed or lost
\* (which the SDK reports), and the nodes take segments and finalize files.
Fairness ==
  /\ \A c \in Calls :
       /\ WF_vars(Begin(c) \/ CreateTemp(c) \/ WriteTemp(c) \/ Connect(c)
                    \/ SkipTx(c) \/ Dispatch(c) \/ SeePacked(c) \/ Sent(c)
                    \/ Return(c) \/ (c \notin mempool \cup paid /\ pc[c] = "paying" /\ Fail(c)))
       /\ \A s \in Segments : WF_vars(\E n \in Nodes : SendSegment(c, s, n))
       /\ WF_vars(Include(c) \/ Drop(c))
  /\ \A p \in Payloads : WF_vars(FinalizeFile(p))

FairSpec == Spec /\ Fairness

-----------------------------------------------------------------------------
(* Properties *)

Ended == {"returned", "failed", "killed"}

TypeOK ==
  /\ config \in [Calls -> Configs]
  /\ pc \in [Calls -> {"idle"} \cup Running \cup Ended]
  /\ temp \in [Calls -> {"none", "partial", "whole"}]
  /\ clients \in [Calls -> Nat] /\ \A c \in Calls : clients[c] <= Connections(c)
  /\ mempool \subseteq Calls /\ paid \subseteq Calls
  /\ segments \subseteq Nodes \X Payloads \X Segments
  /\ final \subseteq Payloads

\* No call is paid for before everything it was configured with has answered:
\* one node of the list that cannot be reached costs no transaction.
PaidAfterConnecting ==
  \A c \in mempool \cup paid : clients[c] = Connections(c)

\* The staging file is whole as long as the SDK may read it, and outlives its
\* call only if the process is killed.
StagedWhileNeeded ==
  \A c \in Calls :
    /\ pc[c] \in {"connecting", "sdk", "paying", "sending", "waiting"} => temp[c] = "whole"
    /\ pc[c] \in {"idle", "returned", "failed"} => temp[c] = "none"

Answers == [c \in Calls |-> CASE pc[c] = "returned" -> "stored"
                              [] pc[c] \in {"failed", "killed"} -> "failed"
                              [] OTHER -> "none"]

Service ==
  INSTANCE StorageService
    WITH Levels <- Finalities, NoRequest <- <<>>,
         request <- [c \in Calls |-> [payload |-> PayloadOf[c], level |-> config[c].finality]],
         packed <- Packed, held <- Held, answer <- Answers

\* The calls together keep the promise of the storage service, retries of the
\* same payload and half-sent files included.
ImplementsService == Service!ServiceSpec

\* Every call ends.
EveryCallEnds == \A c \in Calls : <>(pc[c] \in Ended)

\* What a call returned becomes downloadable, although it did not wait for the
\* nodes to finalize the file: unless it asked not to wait at all.
ReturnedBecomesDownloadable ==
  \A c \in Calls :
    (pc[c] = "returned" /\ IntoSdk(config[c].finality) # "WaitNothing")
      ~> PayloadOf[c] \in final
=============================================================================
