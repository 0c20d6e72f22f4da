---------------------------- MODULE EvmVerifier -----------------------------
(***************************************************************************)
(* `verify` in EVM mode: sessions of EvmOnChainVerifier (core/src/         *)
(* verifier.rs) that talk to one chain through an RPC node, and the        *)
(* PqspVerifier contract (contracts/src/PqspVerifier.sol) on that chain.   *)
(*                                                                         *)
(* Sessions run concurrently and may sign with the same key; each reads    *)
(* its nonce from the latest block, so two of them can sign the same one.  *)
(* The key also pays for uploads, whose transactions take nonces as well.  *)
(* The mempool may drop or replace a transaction, the node may not know a  *)
(* pending or just mined one, and any reply may be lost.  A retry is       *)
(* another session with the same submission.                               *)
(*                                                                         *)
(* A transaction is what is signed, not who signed it: signatures are      *)
(* deterministic, so two sessions of one key with the same nonce, gas      *)
(* price and call send the same bytes, with one hash and one receipt.      *)
(***************************************************************************)
EXTENDS Protocol, Sequences, FiniteSets

CONSTANTS
  Sessions,          \* verify commands that find an EVM configuration
  Signers,
  SignerOf,          \* the key each session is configured with
  Submissions,       \* verifier inputs that artifact files may contain
  NoSubmission,
  GasPrices,         \* what the node may propose to pay
  NoTransaction,
  ContractDeployed,  \* whether the configured address holds PqspVerifier
  MaxNonce           \* bound: other transactions take a nonce up to this one

ASSUME EvmAssumption ==
  /\ IsFiniteSet(Sessions)
  /\ SignerOf \in [Sessions -> Signers]
  /\ NoSubmission \notin Submissions
  /\ ContractDeployed \in BOOLEAN
  /\ MaxNonce \in Nat

VARIABLES
  pc,             \* where each session is
  input,          \* the verifier input of each session, or NoSubmission
  tx,             \* the transaction each session has signed, or NoTransaction
  accountNonce,   \* per signer, the number of its transactions in blocks
  mempool,        \* transactions that await inclusion
  receipts,       \* mined transactions and their status
  verifiedState,  \* the contract's mapping: commitments set to true
  log             \* the CommitmentVerified events, in order

vars == <<pc, input, tx, accountNonce, mempool, receipts, verifiedState, log>>
chain == <<accountNonce, mempool, receipts, verifiedState, log>>

Mined == {r.tx : r \in receipts}
Goto(v, label) == pc' = [pc EXCEPT ![v] = label]

-----------------------------------------------------------------------------
(* The contract *)

VerifyMockProof(call) == TRUE

\* The requires of submitCommitment.
Reverts(call) ==
  \/ call.stateCommitment = ZeroBytes32
  \/ call.storageMerkleRoot = ZeroBytes32
  \/ ~VerifyMockProof(call)

\* encode_submission: the arguments of the call.
CallOf(s) ==
  [stateCommitment   |-> s.proof_statement.state_commitment,
   storageMerkleRoot |-> s.merkle_root.digest,
   proofContext      |-> s.proof.proof_bytes]

\* CommitmentVerified, as transaction t emits it.
EventOf(t) ==
  [stateCommitment |-> t.call.stateCommitment, submitter |-> t.signer]

\* Mistake: the event is emitted but the mapping not set.
SubmitCommitmentEventOnly(t) ==
  UNCHANGED verifiedState /\ log' = Append(log, EventOf(t))

\* A successful submitCommitment by t; a plain transfer of no value when there
\* is no code at the address.
SubmitCommitment(t) ==
  IF ContractDeployed
  THEN /\ verifiedState' = verifiedState \cup {t.call.stateCommitment}
       /\ log' = Append(log, EventOf(t))
  ELSE UNCHANGED <<verifiedState, log>>

-----------------------------------------------------------------------------
(* A session *)

\* EvmOnChainVerifier::new: the chain id is fetched, the key and the address
\* parsed.
Connect(v) ==
  /\ pc[v] = "idle"
  /\ Goto(v, "connected")
  /\ UNCHANGED <<input, tx, chain>>

\* submit up to the first request: validate and encode_submission, which make
\* the same checks of the root and the commitment.
Validate(v) ==
  /\ pc[v] = "connected"
  /\ \E s \in Submissions :
       /\ input' = [input EXCEPT ![v] = s]
       /\ Goto(v, IF EvmValidate(s) THEN "validated" ELSE "refused")
  /\ UNCHANGED <<tx, chain>>

\* What session v signs at a nonce and gas price.
Signed(v, nonce, gas) ==
  [signer |-> SignerOf[v], nonce |-> nonce, gas |-> gas, call |-> CallOf(input[v])]

\* Mistake: the nonce is taken for the number of the last transaction.
FillOffByOne(v) ==
  /\ pc[v] = "validated"
  /\ \E gas \in GasPrices :
       tx' = [tx EXCEPT ![v] = Signed(v, accountNonce[SignerOf[v]] - 1, gas)]
  /\ Goto(v, "signed")
  /\ UNCHANGED <<input, chain>>

\* call.send(), first requests: the account's transaction count at the latest
\* block, a gas price, and a gas estimate, which runs the call.
Fill(v) ==
  /\ pc[v] = "validated"
  /\ ContractDeployed => ~Reverts(CallOf(input[v]))
  /\ \E gas \in GasPrices :
       tx' = [tx EXCEPT ![v] = Signed(v, accountNonce[SignerOf[v]], gas)]
  /\ Goto(v, "signed")
  /\ UNCHANGED <<input, chain>>

\* The pending transactions that t competes with.
Rivals(t) ==
  {u \in mempool : u # t /\ u.signer = t.signer /\ u.nonce = t.nonce}

\* call.send(), last request: the node takes the transaction, in place of a
\* rival or beside one it has not heard of, or has it already; one whose nonce
\* has been used is taken by a node that is behind, and goes nowhere.  The node
\* replies, or refuses, or is not heard.
Send(v) ==
  /\ pc[v] = "signed"
  /\ IF tx[v].nonce >= accountNonce[SignerOf[v]]
     THEN \E replaced \in {{}, Rivals(tx[v])} :
            mempool' = (mempool \ replaced) \cup {tx[v]}
     ELSE UNCHANGED mempool
  /\ \E reply \in {"pending", "failed"} : Goto(v, reply)
  /\ UNCHANGED <<input, tx, accountNonce, receipts, verifiedState, log>>

\* Mistake: any receipt counts as accepted.
ReceiveAnyStatus(v) ==
  /\ pc[v] = "pending" /\ tx[v] \in Mined
  /\ Goto(v, "accepted")
  /\ UNCHANGED <<input, tx, chain>>

\* Mistake: the receipt is looked up by signer and nonce, not by hash.
ReceiveByNonce(v) ==
  /\ pc[v] = "pending"
  /\ \E r \in receipts :
       /\ r.tx.signer = SignerOf[v] /\ r.tx.nonce = tx[v].nonce
       /\ Goto(v, IF r.status = 1 THEN "accepted" ELSE "rejected")
  /\ UNCHANGED <<input, tx, chain>>

\* Mistake: only a successful receipt ends the wait.
ReceiveSuccessOnly(v) ==
  /\ pc[v] = "pending" /\ [tx |-> tx[v], status |-> 1] \in receipts
  /\ Goto(v, "accepted")
  /\ UNCHANGED <<input, tx, chain>>

\* The pending transaction resolves to the receipt of its hash.
Receive(v) ==
  /\ pc[v] = "pending"
  /\ \E r \in receipts :
       /\ r.tx = tx[v]
       /\ Goto(v, IF r.status = 1 THEN "accepted" ELSE "rejected")
  /\ UNCHANGED <<input, tx, chain>>

\* Mistake: a dropped transaction is answered as an unsuccessful one.
ReportDroppedAsRejected(v) ==
  /\ pc[v] = "pending"
  /\ Goto(v, "rejected")
  /\ UNCHANGED <<input, tx, chain>>

\* ... or to none, after the node has repeatedly not known the transaction:
\* TransactionDropped.
ReportDropped(v) ==
  /\ pc[v] = "pending"
  /\ Goto(v, "dropped")
  /\ UNCHANGED <<input, tx, chain>>

\* A transport error before the transaction is taken, or the process is killed.
Fail(v) ==
  /\ pc[v] \in {"idle", "connected", "validated", "signed", "pending"}
  /\ Goto(v, "failed")
  /\ UNCHANGED <<input, tx, chain>>

-----------------------------------------------------------------------------
(* The chain *)

\* A pending transaction whose nonce is next is included, and its rivals become
\* invalid.  The call may still fail for reasons of its own, out of gas say.
Mine(t) ==
  /\ t \in mempool
  /\ t.nonce = accountNonce[t.signer]
  /\ accountNonce' = [accountNonce EXCEPT ![t.signer] = @ + 1]
  /\ mempool' = mempool \ ({t} \cup Rivals(t))
  /\ \E status \in {0, 1} :
       /\ receipts' = receipts \cup {[tx |-> t, status |-> status]}
       /\ IF status = 1
          THEN (ContractDeployed => ~Reverts(t.call)) /\ SubmitCommitment(t)
          ELSE UNCHANGED <<verifiedState, log>>
  /\ UNCHANGED <<pc, input, tx>>

\* A transaction of the same key that is not a session's, such as an upload's
\* storage submission, is included first.
MineOther(k) ==
  /\ accountNonce[k] < MaxNonce
  /\ accountNonce' = [accountNonce EXCEPT ![k] = @ + 1]
  /\ mempool' = {t \in mempool : t.signer # k \/ t.nonce # accountNonce[k]}
  /\ UNCHANGED <<pc, input, tx, receipts, verifiedState, log>>

Evict(t) ==
  /\ t \in mempool
  /\ mempool' = mempool \ {t}
  /\ UNCHANGED <<pc, input, tx, accountNonce, receipts, verifiedState, log>>

-----------------------------------------------------------------------------

Init ==
  /\ pc = [v \in Sessions |-> "idle"]
  /\ input = [v \in Sessions |-> NoSubmission]
  /\ tx = [v \in Sessions |-> NoTransaction]
  /\ accountNonce = [k \in Signers |-> 0]
  /\ mempool = {} /\ receipts = {}
  /\ verifiedState = {} /\ log = <<>>

Next ==
  \/ \E v \in Sessions :
       \/ Connect(v) \/ Validate(v) \/ Fill(v) \/ Send(v)
       \/ Receive(v) \/ ReportDropped(v) \/ Fail(v)
  \/ \E t \in mempool : Mine(t) \/ Evict(t)
  \/ \E k \in Signers : MineOther(k)

Spec == Init /\ [][Next]_vars

\* A session runs on (it may also be killed), a transaction does not stay in
\* the mempool for ever, and the node keeps answering its polls: with the
\* receipt of a mined transaction, with nothing for one that is gone.
Fairness ==
  \A v \in Sessions :
    /\ WF_vars(Connect(v) \/ Validate(v) \/ Fill(v) \/ Send(v))
    /\ WF_vars(Receive(v) \/ (tx[v] \notin mempool \cup Mined /\ ReportDropped(v)))
    /\ WF_vars(tx[v] \in mempool /\ (Mine(tx[v]) \/ Evict(tx[v])))

FairSpec == Spec /\ Fairness

-----------------------------------------------------------------------------
(* Types *)

Ended == {"refused", "accepted", "rejected", "dropped", "failed"}
Labels == {"idle", "connected", "validated", "signed", "pending"} \cup Ended

Calls == {CallOf(s) : s \in Submissions}
Transactions == [signer : Signers, nonce : Nat, gas : GasPrices, call : Calls]
ASSUME TransactionAssumption == NoTransaction \notin Transactions

Events == [stateCommitment : {c.stateCommitment : c \in Calls}, submitter : Signers]

\* The variables have the types of the data they stand for.
TypeOK ==
  /\ pc \in [Sessions -> Labels]
  /\ input \in [Sessions -> Submissions \cup {NoSubmission}]
  /\ tx \in [Sessions -> Transactions \cup {NoTransaction}]
  /\ accountNonce \in [Signers -> Nat]
  /\ mempool \subseteq Transactions
  /\ receipts \subseteq [tx : Transactions, status : {0, 1}]
  /\ log \in Seq(Events)

-----------------------------------------------------------------------------
(* Safety *)

\* A session that tells its user `accepted` has its commitment in the registry,
\* although transactions of other sessions may carry the same nonce, replace
\* its own, or be mined in its place.
AcceptedIsRegistered ==
  \A v \in Sessions :
    pc[v] = "accepted" => CallOf(input[v]).stateCommitment \in verifiedState

\* Where an event stands in the log.
Emitted(event) == {n \in DOMAIN log : log[n] = event}

\* What the sessions that answered `accepted` have sent, with the given event.
Reported(event) ==
  {t \in {tx[v] : v \in {w \in Sessions : pc[w] = "accepted"}} : EventOf(t) = event}

\* Every transaction reported as accepted has an event of its own: a session
\* reports another's only if the two signed the very same bytes.
AcceptedHasItsEvent ==
  \A v \in Sessions :
    pc[v] = "accepted" =>
      Cardinality(Reported(EventOf(tx[v]))) <= Cardinality(Emitted(EventOf(tx[v])))

\* What the contract is promised of a call: a nonzero commitment, a 32-byte
\* nonzero root and a proof of a statement about that commitment.
IsSound(call) ==
  /\ call.stateCommitment # ZeroBytes32
  /\ call.storageMerkleRoot \notin {ZeroBytes32, NotBytes32}
  /\ \E s \in Submissions :
       /\ s.proof_statement.state_commitment = call.stateCommitment
       /\ call.proofContext = MockProofBytes(s.proof_statement)

\* No call that lacks any of this is priced, signed, pending or mined, and the
\* registry holds nothing else.  The contract itself accepts every proof.
RegisteredIsValidated ==
  /\ \A v \in Sessions :
       pc[v] \in {"validated", "signed", "pending"} => IsSound(CallOf(input[v]))
  /\ \A t \in mempool \cup Mined : IsSound(t.call)
  /\ verifiedState \subseteq {t.call.stateCommitment : t \in Mined}

\* The events are the registry: a commitment is verified exactly if some event
\* says so, and its submitter is a key that signed for it.
EventsMatchRegistry ==
  /\ verifiedState = {log[n].stateCommitment : n \in DOMAIN log}
  /\ \A n \in DOMAIN log :
       \E r \in receipts : r.status = 1 /\ EventOf(r.tx) = log[n]

-----------------------------------------------------------------------------
(* The inductive invariant behind the safety properties, in parts. *)

\* A session has a submission from Validate on; what goes further has passed the
\* checks, and is what is signed, at a nonce that was the next one.
InputIsKept ==
  \A v \in Sessions :
    /\ pc[v] \in {"idle", "connected"} => input[v] = NoSubmission
    /\ pc[v] \in {"validated", "signed", "pending", "accepted", "rejected"} =>
         input[v] \in Submissions /\ EvmValidate(input[v])
    /\ pc[v] \in {"idle", "connected", "validated", "refused"} => tx[v] = NoTransaction
    /\ pc[v] \in {"signed", "pending", "accepted", "rejected"} => tx[v] # NoTransaction
    /\ tx[v] # NoTransaction =>
         /\ input[v] \in Submissions /\ EvmValidate(input[v])
         /\ tx[v].signer = SignerOf[v] /\ tx[v].call = CallOf(input[v])
         /\ tx[v].nonce <= accountNonce[SignerOf[v]]

\* What is on the chain some session has signed.  A nonce is pending or spent,
\* by one transaction, which has one receipt.
SentOnce ==
  /\ \A t \in mempool \cup Mined : \E v \in Sessions : tx[v] = t
  /\ \A t \in mempool : t.nonce = accountNonce[t.signer]
  /\ \A t \in Mined : t.nonce < accountNonce[t.signer]
  /\ \A t, u \in Mined : t.signer = u.signer /\ t.nonce = u.nonce => t = u
  /\ \A r, q \in receipts : r.tx = q.tx => r = q

\* What a session says of its transaction is what its receipt says.
AnswersHaveReceipts ==
  \A v \in Sessions :
    /\ pc[v] = "accepted" => [tx |-> tx[v], status |-> 1] \in receipts
    /\ pc[v] = "rejected" => [tx |-> tx[v], status |-> 0] \in receipts

\* The registry is what successful transactions have put there.
RegistryIsReceipts ==
  /\ ContractDeployed =>
       \A r \in receipts : r.status = 1 => r.tx.call.stateCommitment \in verifiedState
  /\ \A c \in verifiedState :
       \E r \in receipts : r.status = 1 /\ r.tx.call.stateCommitment = c

\* The transactions that succeeded with the given event.
Winners(event) ==
  {t \in Mined : [tx |-> t, status |-> 1] \in receipts /\ EventOf(t) = event}

\* An event is in the log as often as transactions have succeeded with it.
EventsAreCounted ==
  /\ IsFiniteSet(Mined)
  /\ ContractDeployed =>
       \A event \in Events : Cardinality(Winners(event)) = Cardinality(Emitted(event))

IInv ==
  /\ TypeOK /\ InputIsKept /\ SentOnce /\ AnswersHaveReceipts
  /\ RegistryIsReceipts /\ EventsMatchRegistry /\ EventsAreCounted

-----------------------------------------------------------------------------
(* Refinement *)

OutcomeOf(label) ==
  CASE label \in {"refused", "accepted", "rejected"} -> label
    [] label \in {"dropped", "failed"}               -> "unknown"
    [] OTHER                                         -> "none"

Submits(s) == CallOf(s).stateCommitment

Abstract ==
  INSTANCE CommitmentRegistry
    WITH Valid        <- EvmValidate,
         CommitmentOf <- Submits,
         request  <- input,
         outcome  <- [v \in Sessions |-> OutcomeOf(pc[v])],
         applied  <- {v \in Sessions : [tx |-> tx[v], status |-> 1] \in receipts},
         registry <- verifiedState

\* The sessions, the mempool and the contract together keep the promise of the
\* registry, where the contract is deployed: refused calls are never applied,
\* the registry grows by calls that are applied, each at most once, and
\* `accepted` is answered for a call that is in it, never early.
ImplementsRegistry == Abstract!RegistrySpec

-----------------------------------------------------------------------------
(* Liveness *)

\* Every verify ends, replaced, evicted and unanswered transactions included.
EveryVerifyEnds == \A v \in Sessions : <>(pc[v] \in Ended)
=============================================================================
