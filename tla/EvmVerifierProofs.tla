-------------------------- MODULE EvmVerifierProofs -------------------------
(* Proofs about EvmVerifier, for any number of sessions and signers, any    *)
(* assignment of keys to sessions, any gas prices and any submissions.      *)
EXTENDS EvmVerifier, FiniteSetTheorems, TLAPS

-----------------------------------------------------------------------------
(* The inductive invariant *)

\* The first state, with no session connected and an empty chain, satisfies IInv.
LEMMA InvInit == Init => IInv
<1> SUFFICES ASSUME Init PROVE IInv
  OBVIOUS
<1>1. log = <<>> /\ DOMAIN log = {} /\ Mined = {}
  BY DEF Init, Mined
<1>2. TypeOK
  BY <1>1, EvmAssumption DEF Init, TypeOK, Labels
<1>3. EventsAreCounted
  BY <1>1, FS_EmptySet DEF Init, EventsAreCounted, Winners, Emitted
<1> QED BY <1>1, <1>2, <1>3
        DEF Init, IInv, InputIsKept, SentOnce, AnswersHaveReceipts,
            RegistryIsReceipts, EventsMatchRegistry

\* A transaction that succeeds, and its event, are each counted once.
LEMMA CountsGrow ==
  ASSUME TypeOK, EventsAreCounted, NEW t \in Transactions, t \notin Mined,
         receipts' = receipts \cup {[tx |-> t, status |-> 1]},
         Mined' = Mined \cup {t},
         log' = Append(log, EventOf(t))
  PROVE  EventsAreCounted'
<1>0. IsFiniteSet(Mined')
  BY FS_AddElement DEF EventsAreCounted
<1> SUFFICES ASSUME ContractDeployed, NEW event \in Events
             PROVE  Cardinality(Winners(event)') = Cardinality(Emitted(event)')
  BY <1>0 DEF EventsAreCounted
<1>1. [tx |-> t, status |-> 1] \notin receipts
  <2> DEFINE receipt == [tx |-> t, status |-> 1]
  <2>1. receipt.tx = t
    OBVIOUS
  <2> HIDE DEF receipt
  <2>2. receipt \notin receipts
    BY <2>1 DEF Mined
  <2> QED BY <2>2 DEF receipt
<1>2. \A u : [tx |-> u, status |-> 1] \in receipts' <=>
               u = t \/ [tx |-> u, status |-> 1] \in receipts
  OBVIOUS
<1>3. EventOf(t) \in Events
  BY DEF Events, EventOf, Transactions
<1>4. /\ log \in Seq(Events) /\ Len(log) \in Nat
      /\ log' \in Seq(Events) /\ Len(log') = Len(log) + 1
      /\ log'[Len(log) + 1] = EventOf(t)
      /\ \A n \in DOMAIN log : log'[n] = log[n]
      /\ DOMAIN log = 1..Len(log) /\ DOMAIN log' = 1..(Len(log) + 1)
  BY <1>3 DEF TypeOK
<1>5. IsFiniteSet(Winners(event)) /\ IsFiniteSet(Emitted(event))
  <2>1. IsFiniteSet(Winners(event))
    BY FS_Subset DEF EventsAreCounted, Winners
  <2>2. IsFiniteSet(1..Len(log))
    BY <1>4, FS_Interval
  <2> QED BY <1>4, <2>1, <2>2, FS_Subset DEF Emitted
<1>6. Cardinality(Winners(event)) = Cardinality(Emitted(event))
  BY DEF EventsAreCounted
<1>7. CASE EventOf(t) = event
  <2>1. Winners(event)' = Winners(event) \cup {t}
    BY <1>2, <1>7 DEF Winners
  <2>2. t \notin Winners(event)
    BY <1>1 DEF Winners
  <2>3. Emitted(event)' = Emitted(event) \cup {Len(log) + 1}
    BY <1>4, <1>7 DEF Emitted
  <2>4. Len(log) + 1 \notin Emitted(event)
    BY <1>4 DEF Emitted
  <2>5. Cardinality(Winners(event)') = Cardinality(Winners(event)) + 1
    BY <1>5, <2>1, <2>2, FS_AddElement
  <2>6. Cardinality(Emitted(event)') = Cardinality(Emitted(event)) + 1
    BY <1>5, <2>3, <2>4, FS_AddElement
  <2> QED BY <1>6, <2>5, <2>6
<1>8. CASE EventOf(t) # event
  <2>1. Winners(event)' = Winners(event)
    BY <1>2, <1>8 DEF Winners
  <2>2. Emitted(event)' = Emitted(event)
    BY <1>4, <1>8 DEF Emitted
  <2> QED BY <1>6, <2>1, <2>2
<1> QED BY <1>7, <1>8

\* Steps that move a session on, and change neither what it sends nor the chain.
LEMMA SessionStep ==
  ASSUME IInv, NEW v \in Sessions, NEW label \in Labels,
         Goto(v, label), UNCHANGED <<input, tx, chain>>,
         label \in {"idle", "connected"} => pc[v] \in {"idle", "connected"},
         label \notin {"validated", "refused", "signed"},
         label \in {"pending", "accepted", "rejected"} => tx[v] # NoTransaction,
         label = "accepted" => [tx |-> tx[v], status |-> 1] \in receipts,
         label = "rejected" => [tx |-> tx[v], status |-> 0] \in receipts
  PROVE  IInv'
<1> USE DEF IInv, chain
<1>1. \A w \in Sessions : pc'[w] = IF w = v THEN label ELSE pc[w]
  BY DEF Goto, TypeOK
<1>2. Mined' = Mined
  BY DEF Mined
<1>3. TypeOK'
  BY <1>2 DEF TypeOK, Goto
<1>4. InputIsKept'
  <2> SUFFICES ASSUME NEW w \in Sessions
               PROVE  /\ pc'[w] \in {"idle", "connected"} => input[w] = NoSubmission
                      /\ pc'[w] \in {"validated", "signed", "pending", "accepted", "rejected"} =>
                           input[w] \in Submissions /\ EvmValidate(input[w])
                      /\ pc'[w] \in {"idle", "connected", "validated", "refused"} => tx[w] = NoTransaction
                      /\ pc'[w] \in {"signed", "pending", "accepted", "rejected"} => tx[w] # NoTransaction
    BY DEF InputIsKept
  <2>1. CASE w = v
    BY <1>1, <2>1 DEF InputIsKept
  <2>2. CASE w # v
    BY <1>1, <2>2 DEF InputIsKept
  <2> QED BY <2>1, <2>2
<1>5. SentOnce'
  BY <1>2 DEF SentOnce
<1>6. AnswersHaveReceipts'
  BY <1>1 DEF AnswersHaveReceipts
<1>7. RegistryIsReceipts' /\ EventsMatchRegistry' /\ EventsAreCounted'
  BY <1>2 DEF RegistryIsReceipts, EventsMatchRegistry, EventsAreCounted, Winners, Emitted
<1> QED BY <1>3, <1>4, <1>5, <1>6, <1>7

\* A step that leaves receipts, registry and log alone keeps what is said of them.
LEMMA RegistryStays ==
  ASSUME IInv, UNCHANGED <<receipts, verifiedState, log>>
  PROVE  Mined' = Mined /\ RegistryIsReceipts' /\ EventsMatchRegistry' /\ EventsAreCounted'
<1>1. Mined' = Mined
  BY DEF Mined
<1> QED
  BY <1>1 DEF IInv, RegistryIsReceipts, EventsMatchRegistry, EventsAreCounted, Winners, Emitted

\* Every step of a session preserves IInv.
LEMMA SessionSteps ==
  ASSUME IInv, NEW v \in Sessions,
         \/ Connect(v) \/ Validate(v) \/ Fill(v) \/ Send(v)
         \/ Receive(v) \/ ReportDropped(v) \/ Fail(v)
  PROVE  IInv'
<1> USE DEF chain
<1>0. TypeOK /\ Mined \subseteq Transactions
  BY DEF IInv, TypeOK, Mined
<1>1. CASE Connect(v)
  BY <1>0, <1>1, SessionStep DEF Connect, Labels, TypeOK
<1>2. CASE Validate(v)
  <2>1. PICK s \in Submissions :
          /\ input' = [input EXCEPT ![v] = s]
          /\ Goto(v, IF EvmValidate(s) THEN "validated" ELSE "refused")
    BY <1>2 DEF Validate
  <2>2. pc[v] = "connected" /\ UNCHANGED <<tx, chain>>
    BY <1>2 DEF Validate
  <2>3. tx[v] = NoTransaction
    BY <2>2 DEF IInv, InputIsKept
  <2>4. \A w \in Sessions \ {v} : input'[w] = input[w] /\ pc'[w] = pc[w]
    BY <1>0, <2>1 DEF Goto, TypeOK
  <2>5. input'[v] = s /\ pc'[v] = IF EvmValidate(s) THEN "validated" ELSE "refused"
    BY <1>0, <2>1 DEF Goto, TypeOK
  <2>6. TypeOK'
    <3>1. input' \in [Sessions -> Submissions \cup {NoSubmission}]
      BY <1>0, <2>1 DEF TypeOK
    <3>2. pc' \in [Sessions -> Labels]
      BY <1>0, <2>1 DEF TypeOK, Goto, Labels, Ended
    <3> QED BY <1>0, <2>2, <3>1, <3>2 DEF TypeOK
  <2>7. InputIsKept'
    <3> SUFFICES ASSUME NEW w \in Sessions PROVE InputIsKept!(w)'
      BY DEF InputIsKept
    <3>1. CASE w = v
      BY <2>2, <2>3, <2>5, <3>1
    <3>2. CASE w # v
      BY <2>2, <2>4, <3>2 DEF IInv, InputIsKept
    <3> QED BY <3>1, <3>2
  <2>8. RegistryIsReceipts' /\ EventsMatchRegistry' /\ EventsAreCounted' /\ Mined' = Mined
    BY <2>2, RegistryStays
  <2>9. SentOnce'
    BY <2>2, <2>8 DEF IInv, SentOnce
  <2>10. AnswersHaveReceipts'
    BY <2>2, <2>4, <2>5 DEF IInv, AnswersHaveReceipts
  <2> QED BY <2>6, <2>7, <2>8, <2>9, <2>10 DEF IInv
<1>3. CASE Fill(v)
  <2>1. PICK gas \in GasPrices :
          tx' = [tx EXCEPT ![v] = Signed(v, accountNonce[SignerOf[v]], gas)]
    BY <1>3 DEF Fill
  <2> DEFINE t == Signed(v, accountNonce[SignerOf[v]], gas)
  <2>2. pc[v] = "validated" /\ Goto(v, "signed") /\ UNCHANGED <<input, chain>>
    BY <1>3 DEF Fill
  <2>3. tx[v] = NoTransaction /\ input[v] \in Submissions /\ EvmValidate(input[v])
    BY <2>2 DEF IInv, InputIsKept
  <2>4. /\ t \in Transactions /\ t # NoTransaction
        /\ t.signer = SignerOf[v] /\ t.call = CallOf(input[v])
        /\ t.nonce = accountNonce[SignerOf[v]] /\ t.nonce \in Nat
    BY <1>0, <2>3, EvmAssumption, TransactionAssumption DEF TypeOK, Transactions, Calls, Signed
  <2>5. tx'[v] = t /\ \A w \in Sessions \ {v} : tx'[w] = tx[w] /\ pc'[w] = pc[w]
    BY <1>0, <2>1, <2>2 DEF TypeOK, Goto
  <2>6. pc'[v] = "signed"
    BY <1>0, <2>2 DEF TypeOK, Goto
  <2>7. TypeOK'
    <3>1. tx' \in [Sessions -> Transactions \cup {NoTransaction}]
      BY <1>0, <2>1, <2>4 DEF TypeOK
    <3>2. pc' \in [Sessions -> Labels]
      BY <1>0, <2>2 DEF TypeOK, Goto, Labels
    <3> QED BY <1>0, <2>2, <3>1, <3>2 DEF TypeOK
  <2> HIDE DEF t
  <2>8. InputIsKept'
    <3> SUFFICES ASSUME NEW w \in Sessions PROVE InputIsKept!(w)'
      BY DEF InputIsKept
    <3>1. CASE w = v
      BY <2>2, <2>3, <2>4, <2>5, <2>6, <3>1
    <3>2. CASE w # v
      BY <2>2, <2>5, <3>2 DEF IInv, InputIsKept
    <3> QED BY <3>1, <3>2
  <2>9. RegistryIsReceipts' /\ EventsMatchRegistry' /\ EventsAreCounted' /\ Mined' = Mined
    BY <2>2, RegistryStays
  <2>10. SentOnce'
    <3>1. ASSUME NEW u \in mempool \cup Mined PROVE \E w \in Sessions : tx'[w] = u
      <4>1. PICK w \in Sessions : tx[w] = u
        BY DEF IInv, SentOnce
      <4>2. u \in Transactions
        BY <1>0 DEF TypeOK
      <4>3. w # v
        BY <2>3, <4>1, <4>2, TransactionAssumption
      <4> QED BY <2>5, <4>1, <4>3
    <3> QED BY <2>2, <2>9, <3>1 DEF IInv, SentOnce
  <2>11. AnswersHaveReceipts'
    BY <2>2, <2>5, <2>6 DEF IInv, AnswersHaveReceipts
  <2> QED BY <2>7, <2>8, <2>9, <2>10, <2>11 DEF IInv
<1>4. CASE Send(v)
  <2>1. /\ pc[v] = "signed"
        /\ mempool' \subseteq mempool \cup {tx[v]}
        /\ tx[v] \in mempool' => tx[v] \in mempool \/ tx[v].nonce >= accountNonce[SignerOf[v]]
        /\ UNCHANGED <<input, tx, accountNonce, receipts, verifiedState, log>>
    BY <1>4 DEF Send
  <2>2. PICK reply \in {"pending", "failed"} : Goto(v, reply)
    BY <1>4 DEF Send
  <2>3. \A w \in Sessions : pc'[w] = IF w = v THEN reply ELSE pc[w]
    BY <1>0, <2>2 DEF Goto, TypeOK
  <2>4. /\ tx[v] \in Transactions /\ tx[v].signer = SignerOf[v]
        /\ tx[v].nonce <= accountNonce[SignerOf[v]]
        /\ input[v] \in Submissions /\ EvmValidate(input[v]) /\ tx[v] # NoTransaction
    BY <1>0, <2>1 DEF IInv, InputIsKept, TypeOK
  <2>5. TypeOK'
    <3>1. pc' \in [Sessions -> Labels]
      BY <1>0, <2>2 DEF TypeOK, Goto, Labels, Ended
    <3>2. mempool' \subseteq Transactions
      BY <1>0, <2>1, <2>4 DEF TypeOK
    <3> QED BY <1>0, <2>1, <3>1, <3>2 DEF TypeOK
  <2>6. InputIsKept'
    <3> SUFFICES ASSUME NEW w \in Sessions PROVE InputIsKept!(w)'
      BY DEF InputIsKept
    <3>1. CASE w = v
      BY <2>1, <2>3, <2>4, <3>1 DEF IInv, InputIsKept
    <3>2. CASE w # v
      BY <2>1, <2>3, <3>2 DEF IInv, InputIsKept
    <3> QED BY <3>1, <3>2
  <2>7. RegistryIsReceipts' /\ EventsMatchRegistry' /\ EventsAreCounted' /\ Mined' = Mined
    BY <2>1, RegistryStays
  <2>8. SentOnce'
    <3>1. tx[v].nonce \in Nat /\ accountNonce[SignerOf[v]] \in Nat
      BY <1>0, <2>4, EvmAssumption DEF TypeOK, Transactions
    <3>2. tx[v] \in mempool' => tx[v].nonce = accountNonce[tx[v].signer]
      BY <2>1, <2>4, <3>1 DEF IInv, SentOnce
    <3> QED BY <2>1, <2>7, <3>2 DEF IInv, SentOnce
  <2>9. AnswersHaveReceipts'
    BY <2>1, <2>3 DEF IInv, AnswersHaveReceipts
  <2> QED BY <2>5, <2>6, <2>7, <2>8, <2>9 DEF IInv
<1>5. CASE Receive(v)
  <2>1. PICK r \in receipts :
          /\ r.tx = tx[v]
          /\ Goto(v, IF r.status = 1 THEN "accepted" ELSE "rejected")
    BY <1>5 DEF Receive
  <2>2. r = [tx |-> tx[v], status |-> r.status] /\ r.status \in {0, 1}
    BY <2>1, <1>0 DEF TypeOK
  <2>3. UNCHANGED <<input, tx, chain>> /\ tx[v] # NoTransaction
    BY <1>5 DEF Receive, IInv, InputIsKept
  <2>4. {"accepted", "rejected"} \subseteq Labels
    BY DEF Labels, Ended
  <2>5. CASE r.status = 1
    BY <2>1, <2>2, <2>3, <2>4, <2>5, SessionStep
  <2>6. CASE r.status = 0
    BY <2>1, <2>2, <2>3, <2>4, <2>6, SessionStep
  <2> QED BY <2>2, <2>5, <2>6
<1>6. CASE ReportDropped(v) \/ Fail(v)
  <2>1. UNCHANGED <<input, tx, chain>>
    BY <1>6 DEF ReportDropped, Fail
  <2>2. {"dropped", "failed"} \subseteq Labels
    BY DEF Labels, Ended
  <2>3. CASE ReportDropped(v)
    BY <2>1, <2>2, <2>3, SessionStep DEF ReportDropped
  <2>4. CASE Fail(v)
    BY <2>1, <2>2, <2>4, SessionStep DEF Fail
  <2> QED BY <1>6, <2>3, <2>4
<1> QED BY <1>1, <1>2, <1>3, <1>4, <1>5, <1>6

\* Inclusion of a pending transaction preserves IInv.
LEMMA MineStep ==
  ASSUME IInv, NEW t \in mempool, Mine(t)
  PROVE  IInv'
<1>0. TypeOK /\ Mined \subseteq Transactions /\ t \in Transactions
  BY DEF IInv, TypeOK, Mined
<1>1. PICK status \in {0, 1} :
        /\ receipts' = receipts \cup {[tx |-> t, status |-> status]}
        /\ IF status = 1 THEN SubmitCommitment(t) ELSE UNCHANGED <<verifiedState, log>>
  BY DEF Mine
<1>2. /\ t.nonce = accountNonce[t.signer]
      /\ mempool' = mempool \ ({t} \cup Rivals(t))
      /\ UNCHANGED <<pc, input, tx>>
      /\ accountNonce' = [accountNonce EXCEPT ![t.signer] = @ + 1]
  BY DEF Mine
<1> DEFINE new == [tx |-> t, status |-> status]
<1>3. new.tx = t /\ new.status = status /\ receipts' = receipts \cup {new}
  BY <1>1
<1>4. \A u : \A s : [tx |-> u, status |-> s] \in receipts' <=>
                      (u = t /\ s = status) \/ [tx |-> u, status |-> s] \in receipts
  BY <1>1
<1> HIDE DEF new
<1>5. /\ \A u \in Transactions : u.signer \in Signers /\ u.nonce \in Nat
      /\ \A k \in Signers : /\ accountNonce[k] \in Nat
                            /\ accountNonce'[k] = IF k = t.signer THEN accountNonce[k] + 1 ELSE accountNonce[k]
  BY <1>0, <1>2 DEF TypeOK, Transactions
<1>6. Mined' = Mined \cup {t}
  BY <1>3 DEF Mined
<1>7. t \notin Mined
  <2>1. t \in Mined => t.nonce < accountNonce[t.signer]
    BY DEF IInv, SentOnce
  <2> QED BY <1>0, <1>2, <1>5, <2>1
<1>8. EventOf(t) \in Events
  BY <1>0 DEF Events, EventOf, Transactions
<1>9. TypeOK' /\ EventsMatchRegistry' /\ RegistryIsReceipts'
  <2>1. accountNonce' \in [Signers -> Nat]
    BY <1>0, <1>2, <1>5 DEF TypeOK
  <2>2. receipts' \subseteq [tx : Transactions, status : {0, 1}]
    BY <1>0, <1>1 DEF TypeOK
  <2>3. mempool' \subseteq Transactions
    BY <1>0, <1>2 DEF TypeOK
  <2>4. CASE status = 1 /\ ContractDeployed
    <3>1. /\ verifiedState' = verifiedState \cup {t.call.stateCommitment}
          /\ log' = Append(log, EventOf(t))
      BY <1>1, <2>4 DEF SubmitCommitment
    <3>2. /\ log' \in Seq(Events) /\ Len(log') \in DOMAIN log' /\ log'[Len(log')] = EventOf(t)
          /\ \A n \in DOMAIN log : n \in DOMAIN log' /\ log'[n] = log[n]
          /\ \A n \in DOMAIN log' : n \in DOMAIN log \/ n = Len(log')
      BY <3>1, <1>8, <1>0 DEF TypeOK
    <3>3. EventOf(t).stateCommitment = t.call.stateCommitment
      BY DEF EventOf
    <3>4. EventsMatchRegistry'
      <4>1. \A c \in verifiedState' : \E n \in DOMAIN log' : c = log'[n].stateCommitment
        BY <3>1, <3>2, <3>3 DEF IInv, EventsMatchRegistry
      <4>2. \A n \in DOMAIN log' : log'[n].stateCommitment \in verifiedState'
        BY <3>1, <3>2, <3>3 DEF IInv, EventsMatchRegistry
      <4>3. verifiedState' = {log'[n].stateCommitment : n \in DOMAIN log'}
        BY <4>1, <4>2
      <4>4. \A n \in DOMAIN log' : \E r \in receipts' : r.status = 1 /\ EventOf(r.tx) = log'[n]
        BY <1>3, <2>4, <3>2 DEF IInv, EventsMatchRegistry
      <4> QED BY <4>3, <4>4 DEF EventsMatchRegistry, EventOf
    <3>5. RegistryIsReceipts'
      BY <1>3, <2>4, <3>1 DEF IInv, RegistryIsReceipts
    <3> QED BY <1>0, <1>2, <2>1, <2>2, <2>3, <3>2, <3>4, <3>5 DEF TypeOK
  <2>5. CASE ~(status = 1 /\ ContractDeployed)
    <3>1. UNCHANGED <<verifiedState, log>>
      BY <1>1, <2>5 DEF SubmitCommitment
    <3>2. EventsMatchRegistry'
      BY <3>1, <1>3 DEF IInv, EventsMatchRegistry, EventOf
    <3>3. RegistryIsReceipts'
      BY <3>1, <1>3, <2>5 DEF IInv, RegistryIsReceipts
    <3> QED BY <1>0, <1>2, <2>1, <2>2, <2>3, <3>1, <3>2, <3>3 DEF TypeOK
  <2> QED BY <2>4, <2>5
<1>10. InputIsKept'
  <2> SUFFICES ASSUME NEW v \in Sessions, tx[v] # NoTransaction
               PROVE  tx[v].nonce <= accountNonce'[SignerOf[v]]
    BY <1>2 DEF IInv, InputIsKept
  <2>1. tx[v].nonce <= accountNonce[SignerOf[v]] /\ tx[v] \in Transactions
    BY <1>0 DEF IInv, InputIsKept, TypeOK
  <2> QED BY <1>5, <2>1, EvmAssumption
<1>11. SentOnce'
  <2>1. \A u \in mempool' \cup Mined' : \E v \in Sessions : tx'[v] = u
    BY <1>2, <1>6 DEF IInv, SentOnce
  <2>2. ASSUME NEW u \in mempool' PROVE u.nonce = accountNonce'[u.signer]
    <3>1. u \in mempool /\ u # t /\ u \notin Rivals(t) /\ u.nonce = accountNonce[u.signer]
      BY <1>2, <2>2 DEF IInv, SentOnce
    <3>2. u.signer # t.signer
      BY <1>2, <3>1 DEF Rivals
    <3> QED BY <1>0, <1>5, <3>1, <3>2 DEF TypeOK
  <2>3. ASSUME NEW u \in Mined' PROVE u.nonce < accountNonce'[u.signer]
    <3>1. u \in Transactions
      BY <1>0, <1>6, <2>3
    <3>2. CASE u = t
      BY <1>0, <1>2, <1>5, <3>2
    <3>3. CASE u \in Mined
      BY <1>5, <3>1, <3>3 DEF IInv, SentOnce
    <3> QED BY <1>6, <2>3, <3>2, <3>3
  <2>4. ASSUME NEW u \in Mined, u.signer = t.signer PROVE u.nonce # t.nonce
    <3>1. u.nonce < accountNonce[t.signer] /\ u \in Transactions
      BY <1>0, <2>4 DEF IInv, SentOnce
    <3> QED BY <1>0, <1>2, <1>5, <3>1
  <2>5. \A u, w \in Mined' : u.signer = w.signer /\ u.nonce = w.nonce => u = w
    BY <1>6, <2>4 DEF IInv, SentOnce
  <2>6. \A r, q \in receipts' : r.tx = q.tx => r = q
    <3>1. \A r \in receipts : r.tx \in Mined
      BY DEF Mined
    <3> QED BY <1>3, <1>7, <3>1 DEF IInv, SentOnce
  <2> QED BY <2>1, <2>2, <2>3, <2>5, <2>6 DEF SentOnce
<1>12. AnswersHaveReceipts'
  BY <1>1, <1>2 DEF IInv, AnswersHaveReceipts
<1>13. EventsAreCounted'
  <2>1. CASE status = 1 /\ ContractDeployed
    <3>1. log' = Append(log, EventOf(t))
      BY <1>1, <2>1 DEF SubmitCommitment
    <3> QED BY <1>0, <1>1, <1>6, <1>7, <2>1, <3>1, CountsGrow DEF IInv
  <2>2. CASE ~(status = 1 /\ ContractDeployed)
    <3>1. UNCHANGED log /\ IsFiniteSet(Mined')
      BY <1>1, <1>6, <2>2, FS_AddElement DEF SubmitCommitment, IInv, EventsAreCounted
    <3>2. ASSUME ContractDeployed, NEW event \in Events PROVE Winners(event)' = Winners(event)
      BY <1>4, <1>6, <1>7, <2>2, <3>2 DEF Winners, Mined
    <3> QED BY <3>1, <3>2 DEF IInv, EventsAreCounted, Emitted
  <2> QED BY <2>1, <2>2
<1> QED BY <1>9, <1>10, <1>11, <1>12, <1>13 DEF IInv

\* Every step of a session and of the chain preserves IInv.
LEMMA InvStep == IInv /\ [Next]_vars => IInv'
<1> SUFFICES ASSUME IInv, [Next]_vars PROVE IInv'
  OBVIOUS
<1>0. TypeOK /\ Mined \subseteq Transactions
  BY DEF IInv, TypeOK, Mined
<1>1. ASSUME NEW t \in mempool, Evict(t) PROVE IInv'
  <2>1. /\ mempool' \subseteq mempool
        /\ UNCHANGED <<pc, input, tx, accountNonce, receipts, verifiedState, log>>
    BY <1>1 DEF Evict
  <2>2. RegistryIsReceipts' /\ EventsMatchRegistry' /\ EventsAreCounted' /\ Mined' = Mined
    BY <2>1, RegistryStays
  <2> QED BY <1>0, <2>1, <2>2 DEF IInv, TypeOK, InputIsKept, SentOnce, AnswersHaveReceipts
<1>2. ASSUME NEW k \in Signers, MineOther(k) PROVE IInv'
  <2>1. /\ mempool' = {t \in mempool : t.signer # k \/ t.nonce # accountNonce[k]}
        /\ accountNonce' = [accountNonce EXCEPT ![k] = @ + 1]
        /\ UNCHANGED <<pc, input, tx, receipts, verifiedState, log>>
    BY <1>2 DEF MineOther
  <2>2. RegistryIsReceipts' /\ EventsMatchRegistry' /\ EventsAreCounted' /\ Mined' = Mined
    BY <2>1, RegistryStays
  <2>3. /\ \A u \in Transactions : u.signer \in Signers /\ u.nonce \in Nat
        /\ \A j \in Signers : /\ accountNonce[j] \in Nat
                              /\ accountNonce'[j] = IF j = k THEN accountNonce[j] + 1 ELSE accountNonce[j]
    BY <1>0, <2>1 DEF TypeOK, Transactions
  <2>4. TypeOK'
    <3>1. accountNonce' \in [Signers -> Nat]
      BY <1>0, <2>1, <2>3 DEF TypeOK
    <3> QED BY <1>0, <2>1, <3>1 DEF TypeOK
  <2>5. InputIsKept'
    <3> SUFFICES ASSUME NEW v \in Sessions, tx[v] # NoTransaction
                 PROVE  tx[v].nonce <= accountNonce'[SignerOf[v]]
      BY <2>1 DEF IInv, InputIsKept
    <3>1. tx[v].nonce <= accountNonce[SignerOf[v]] /\ tx[v] \in Transactions
      BY <1>0 DEF IInv, InputIsKept, TypeOK
    <3> QED BY <2>3, <3>1, EvmAssumption
  <2>6. SentOnce'
    <3>1. ASSUME NEW u \in mempool' PROVE u.nonce = accountNonce'[u.signer]
      <4>1. u \in Transactions /\ u.nonce = accountNonce[u.signer] /\ (u.signer # k \/ u.nonce # accountNonce[k])
        BY <1>0, <2>1 DEF IInv, SentOnce, TypeOK
      <4> QED BY <2>3, <4>1
    <3>2. ASSUME NEW u \in Mined PROVE u.nonce < accountNonce'[u.signer]
      <4>1. u \in Transactions /\ u.nonce < accountNonce[u.signer]
        BY <1>0 DEF IInv, SentOnce
      <4> QED BY <2>3, <4>1
    <3> QED BY <2>1, <2>2, <3>1, <3>2 DEF IInv, SentOnce
  <2> QED BY <2>1, <2>2, <2>4, <2>5, <2>6 DEF IInv, AnswersHaveReceipts
<1>3. CASE UNCHANGED vars
  <2>1. RegistryIsReceipts' /\ EventsMatchRegistry' /\ EventsAreCounted' /\ Mined' = Mined
    BY <1>3, RegistryStays DEF vars
  <2> QED BY <1>3, <2>1 DEF vars, IInv, TypeOK, InputIsKept, SentOnce, AnswersHaveReceipts
<1> QED BY <1>1, <1>2, <1>3, SessionSteps, MineStep DEF Next

\* The inductive invariant holds in every reachable state, however sessions
\* with the same key interleave.
THEOREM Invariant == Spec => []IInv
BY InvInit, InvStep, PTL DEF Spec

-----------------------------------------------------------------------------
(* Safety *)

\* The variables keep their types.
THEOREM TypeCorrect == Spec => []TypeOK
BY Invariant, PTL DEF IInv

\* With PqspVerifier at the configured address, a verify that answers
\* `accepted` has its commitment in the registry.
THEOREM AcceptedRegistered ==
  ASSUME ContractDeployed
  PROVE  Spec => []AcceptedIsRegistered
<1>1. IInv => AcceptedIsRegistered
  <2> SUFFICES ASSUME IInv, NEW v \in Sessions, pc[v] = "accepted"
               PROVE  CallOf(input[v]).stateCommitment \in verifiedState
    BY DEF AcceptedIsRegistered
  <2> DEFINE receipt == [tx |-> tx[v], status |-> 1]
  <2>1. receipt \in receipts /\ tx[v].call = CallOf(input[v])
    BY DEF IInv, AnswersHaveReceipts, InputIsKept
  <2>2. receipt.tx = tx[v] /\ receipt.status = 1
    OBVIOUS
  <2> HIDE DEF receipt
  <2> QED BY <2>1, <2>2 DEF IInv, RegistryIsReceipts
<1> QED BY <1>1, Invariant, PTL

\* Nothing is priced, sent or registered that lacks a nonzero commitment, a
\* nonzero 32-byte root or a proof of a statement about the commitment.
THEOREM RegisteredValidated == Spec => []RegisteredIsValidated
<1>1. ASSUME NEW s \in Submissions, EvmValidate(s) PROVE IsSound(CallOf(s))
  <2>1. /\ CallOf(s).stateCommitment = s.proof_statement.state_commitment
        /\ CallOf(s).storageMerkleRoot = s.merkle_root.digest
        /\ CallOf(s).proofContext = s.proof.proof_bytes
    BY DEF CallOf
  <2> QED BY <1>1, <2>1 DEF EvmValidate, ParsesAsBytes32, ZkVerify, IsSound
<1>2. IInv => RegisteredIsValidated
  <2> SUFFICES ASSUME IInv PROVE RegisteredIsValidated
    OBVIOUS
  <2>1. ASSUME NEW v \in Sessions, pc[v] \in {"validated", "signed", "pending"}
        PROVE  IsSound(CallOf(input[v]))
    BY <1>1, <2>1 DEF IInv, InputIsKept
  <2>2. ASSUME NEW t \in mempool \cup Mined PROVE IsSound(t.call)
    <3>1. PICK v \in Sessions : tx[v] = t
      BY DEF IInv, SentOnce
    <3>2. t # NoTransaction
      BY TransactionAssumption DEF IInv, TypeOK, Mined
    <3> QED BY <1>1, <3>1, <3>2 DEF IInv, InputIsKept
  <2>3. verifiedState \subseteq {t.call.stateCommitment : t \in Mined}
    BY DEF IInv, RegistryIsReceipts, Mined
  <2> QED BY <2>1, <2>2, <2>3 DEF RegisteredIsValidated
<1> QED BY <1>2, Invariant, PTL

\* The events and the registry agree, and each event has its signer's
\* transaction behind it.
THEOREM EventsAgree == Spec => []EventsMatchRegistry
BY Invariant, PTL DEF IInv

\* With PqspVerifier at the configured address, the transactions reported as
\* accepted have as many events as there are of them: those that share one are
\* the same bytes.
THEOREM AcceptedHasEvent ==
  ASSUME ContractDeployed
  PROVE  Spec => []AcceptedHasItsEvent
<1>1. IInv => AcceptedHasItsEvent
  <2> SUFFICES ASSUME IInv, NEW v \in Sessions, pc[v] = "accepted"
      PROVE  Cardinality(Reported(EventOf(tx[v]))) <= Cardinality(Emitted(EventOf(tx[v])))
    BY DEF AcceptedHasItsEvent
  <2> DEFINE event == EventOf(tx[v])
  <2>1. \A w \in Sessions : pc[w] = "accepted" =>
          tx[w] \in Mined /\ [tx |-> tx[w], status |-> 1] \in receipts
    <3> SUFFICES ASSUME NEW w \in Sessions, pc[w] = "accepted"
                 PROVE  tx[w] \in Mined /\ [tx |-> tx[w], status |-> 1] \in receipts
      OBVIOUS
    <3> DEFINE receipt == [tx |-> tx[w], status |-> 1]
    <3>1. receipt \in receipts /\ receipt.tx = tx[w]
      BY DEF IInv, AnswersHaveReceipts
    <3> HIDE DEF receipt
    <3>2. tx[w] \in Mined
      BY <3>1 DEF Mined
    <3> QED BY <3>1, <3>2 DEF receipt
  <2>2. Reported(event) \subseteq Winners(event)
    BY <2>1 DEF Reported, Winners
  <2>3. IsFiniteSet(Winners(event))
    BY FS_Subset DEF IInv, EventsAreCounted, Winners
  <2>4. Cardinality(Reported(event)) <= Cardinality(Winners(event))
    BY <2>2, <2>3, FS_Subset
  <2>5. event \in Events
    BY <2>1 DEF IInv, TypeOK, Mined, Events, EventOf, Transactions
  <2>6. Cardinality(Winners(event)) = Cardinality(Emitted(event))
    BY <2>5 DEF IInv, EventsAreCounted
  <2> QED BY <2>4, <2>6
<1> QED BY <1>1, Invariant, PTL

\* What a session has told its user is so, and stays so: `accepted` has its one
\* receipt, a successful one, whose event and entry are there if the contract
\* is; `rejected` has its one receipt, and never a successful one; `refused` has
\* signed nothing.
AnswersStayTrue ==
  \A v \in Sessions :
    /\ pc[v] = "accepted" =>
         /\ {r \in receipts : r.tx = tx[v]} = {[tx |-> tx[v], status |-> 1]}
         /\ ContractDeployed =>
              /\ CallOf(input[v]).stateCommitment \in verifiedState
              /\ \E n \in DOMAIN log :
                   log[n].stateCommitment = CallOf(input[v]).stateCommitment
    /\ pc[v] = "rejected" => {r \in receipts : r.tx = tx[v]} = {[tx |-> tx[v], status |-> 0]}
    /\ pc[v] = "refused" => tx[v] = NoTransaction

\* No later transaction, and no transaction of another session, makes an answer
\* of verify untrue.
THEOREM AnswersAreTrue == Spec => []AnswersStayTrue
<1>1. IInv => AnswersStayTrue
  <2> SUFFICES ASSUME IInv, NEW v \in Sessions PROVE AnswersStayTrue!(v)
    BY DEF AnswersStayTrue
  <2>1. ASSUME NEW s \in {0, 1}, [tx |-> tx[v], status |-> s] \in receipts
        PROVE  {r \in receipts : r.tx = tx[v]} = {[tx |-> tx[v], status |-> s]}
    <3> DEFINE receipt == [tx |-> tx[v], status |-> s]
    <3>1. receipt.tx = tx[v] /\ receipt \in receipts
      BY <2>1
    <3> HIDE DEF receipt
    <3>2. {r \in receipts : r.tx = tx[v]} = {receipt}
      BY <3>1 DEF IInv, SentOnce
    <3> QED BY <3>2 DEF receipt
  <2>2. ASSUME pc[v] = "accepted", ContractDeployed
        PROVE  /\ CallOf(input[v]).stateCommitment \in verifiedState
               /\ \E n \in DOMAIN log : log[n].stateCommitment = CallOf(input[v]).stateCommitment
    <3> DEFINE receipt == [tx |-> tx[v], status |-> 1]
    <3>1. receipt \in receipts /\ receipt.tx = tx[v] /\ receipt.status = 1
      BY <2>2 DEF IInv, AnswersHaveReceipts
    <3> HIDE DEF receipt
    <3>2. tx[v].call = CallOf(input[v])
      BY <2>2 DEF IInv, InputIsKept
    <3>3. CallOf(input[v]).stateCommitment \in verifiedState
      BY <2>2, <3>1, <3>2 DEF IInv, RegistryIsReceipts
    <3> QED BY <3>3 DEF IInv, EventsMatchRegistry
  <2>3. pc[v] = "refused" => tx[v] = NoTransaction
    BY DEF IInv, InputIsKept
  <2>4. /\ pc[v] = "accepted" => [tx |-> tx[v], status |-> 1] \in receipts
        /\ pc[v] = "rejected" => [tx |-> tx[v], status |-> 0] \in receipts
    BY DEF IInv, AnswersHaveReceipts
  <2> QED BY <2>1, <2>2, <2>3, <2>4
<1> QED BY <1>1, Invariant, PTL

\* Of all the transactions that sessions have signed with one key at one nonce,
\* one at most is ever mined; the next nonce is beyond all that were; and two
\* sessions that were answered at one nonce had signed the same bytes.
NonceIsSpentOnce ==
  /\ \A t \in Mined : t.nonce < accountNonce[t.signer]
  /\ \A t, u \in Mined : t.signer = u.signer /\ t.nonce = u.nonce => t = u
  /\ \A v, w \in Sessions :
       /\ pc[v] \in {"accepted", "rejected"} /\ pc[w] \in {"accepted", "rejected"}
       /\ SignerOf[v] = SignerOf[w] /\ tx[v].nonce = tx[w].nonce
       => tx[v] = tx[w] /\ pc[v] = pc[w]

\* However many sessions sign with one key at the same time, each nonce is spent
\* by one transaction, and answered alike to all that sent it.
THEOREM NoncesAreSpentOnce == Spec => []NonceIsSpentOnce
<1>1. IInv => NonceIsSpentOnce
  <2> SUFFICES ASSUME IInv PROVE NonceIsSpentOnce
    OBVIOUS
  <2>1. ASSUME NEW v \in Sessions, pc[v] \in {"accepted", "rejected"}
        PROVE  \E r \in receipts : /\ r.tx = tx[v] /\ tx[v].signer = SignerOf[v]
                                   /\ pc[v] = "accepted" <=> r.status = 1
    <3> DEFINE receipt(s) == [tx |-> tx[v], status |-> s]
    <3>1. \A s : receipt(s).tx = tx[v] /\ receipt(s).status = s
      OBVIOUS
    <3>2. receipt(IF pc[v] = "accepted" THEN 1 ELSE 0) \in receipts
      BY <2>1 DEF IInv, AnswersHaveReceipts
    <3>3. tx[v].signer = SignerOf[v]
      BY <2>1 DEF IInv, InputIsKept
    <3> HIDE DEF receipt
    <3> QED BY <3>1, <3>2, <3>3
  <2>2. ASSUME NEW v \in Sessions, NEW w \in Sessions,
               pc[v] \in {"accepted", "rejected"}, pc[w] \in {"accepted", "rejected"},
               SignerOf[v] = SignerOf[w], tx[v].nonce = tx[w].nonce
        PROVE  tx[v] = tx[w] /\ pc[v] = pc[w]
    <3>1. PICK r \in receipts : /\ r.tx = tx[v] /\ tx[v].signer = SignerOf[v]
                                /\ pc[v] = "accepted" <=> r.status = 1
      BY <2>1, <2>2
    <3>2. PICK q \in receipts : /\ q.tx = tx[w] /\ tx[w].signer = SignerOf[w]
                                /\ pc[w] = "accepted" <=> q.status = 1
      BY <2>1, <2>2
    <3>3. tx[v] = tx[w]
      BY <2>2, <3>1, <3>2 DEF IInv, SentOnce, Mined
    <3>4. r = q
      BY <3>1, <3>2, <3>3 DEF IInv, SentOnce
    <3> QED BY <2>2, <3>1, <3>2, <3>3, <3>4
  <2> QED BY <2>2 DEF IInv, SentOnce, NonceIsSpentOnce
<1> QED BY <1>1, Invariant, PTL

-----------------------------------------------------------------------------
(* Refinement *)

\* The abstract state: what has been answered, and the sessions whose call
\* succeeded.
Outcome == [v \in Sessions |-> OutcomeOf(pc[v])]
Applied == {v \in Sessions : [tx |-> tx[v], status |-> 1] \in receipts}

\* What each place in submit() tells the user.
LEMMA Outcomes ==
  /\ \A l \in {"idle", "connected", "validated", "signed", "pending"} :
       OutcomeOf(l) = "none"
  /\ \A l \in {"refused", "accepted", "rejected"} : OutcomeOf(l) = l
  /\ \A l \in {"dropped", "failed"} : OutcomeOf(l) = "unknown"
<1>1. \A l \in {"idle", "connected", "validated", "signed", "pending"} :
        l \notin {"refused", "accepted", "rejected"} /\ l \notin {"dropped", "failed"}
  OBVIOUS
<1>2. \A l \in {"refused", "accepted", "rejected"} : l \notin {"dropped", "failed"}
  OBVIOUS
<1> QED BY <1>1, <1>2 DEF OutcomeOf

\* What is in Applied has a receipt, and is of a mined transaction.
LEMMA AppliedIsMined ==
  \A t : \A s : [tx |-> t, status |-> s] \in receipts => t \in Mined
<1> SUFFICES ASSUME NEW t, NEW s, [tx |-> t, status |-> s] \in receipts
             PROVE  t \in Mined
  OBVIOUS
<1> DEFINE receipt == [tx |-> t, status |-> s]
<1>1. receipt \in receipts /\ receipt.tx = t
  OBVIOUS
<1> HIDE DEF receipt
<1> QED BY <1>1 DEF Mined

\* The first state is one of the registry.
LEMMA RefinesInit == Init => Abstract!RegistryInit
<1> SUFFICES ASSUME Init PROVE Abstract!RegistryInit
  OBVIOUS
<1>1. [v \in Sessions |-> OutcomeOf(pc[v])] = [v \in Sessions |-> "none"]
  BY Outcomes DEF Init
<1> QED BY <1>1 DEF Init, Abstract!RegistryInit

\* Inclusion of a transaction that succeeds applies the call for all the
\* sessions that have signed it; of one that does not, changes nothing.
LEMMA RefinesMine ==
  ASSUME ContractDeployed, IInv, NEW t \in mempool, Mine(t)
  PROVE  Abstract!RegistryNext \/ UNCHANGED <<input, Outcome, Applied, verifiedState>>
<1>1. PICK status \in {0, 1} :
        /\ receipts' = receipts \cup {[tx |-> t, status |-> status]}
        /\ IF status = 1 THEN SubmitCommitment(t) ELSE UNCHANGED <<verifiedState, log>>
  BY DEF Mine
<1>2. UNCHANGED <<pc, input, tx>> /\ t.nonce = accountNonce[t.signer] /\ t \in Transactions
  BY DEF Mine, IInv, TypeOK
<1>3. \A u : [tx |-> u, status |-> 1] \in receipts' <=>
               (u = t /\ status = 1) \/ [tx |-> u, status |-> 1] \in receipts
  BY <1>1
<1>4. t \notin Mined
  <2>1. t \in Mined => t.nonce < accountNonce[t.signer]
    BY DEF IInv, SentOnce
  <2>2. accountNonce[t.signer] \in Nat
    BY <1>2 DEF IInv, TypeOK, Transactions
  <2> QED BY <1>2, <2>1, <2>2
<1>5. Outcome' = Outcome
  BY <1>2 DEF Outcome
<1>6. CASE status = 0
  <2>1. Applied' = Applied
    BY <1>2, <1>3, <1>6 DEF Applied
  <2> QED BY <1>1, <1>2, <1>5, <1>6, <2>1
<1>7. CASE status = 1
  <2> DEFINE S == {v \in Sessions : tx[v] = t}
             c == t.call.stateCommitment
  <2>1. Applied' = Applied \cup S
    BY <1>2, <1>3, <1>7 DEF Applied
  <2>2. verifiedState' = verifiedState \cup {c}
    BY <1>1, <1>7 DEF SubmitCommitment
  <2>3. PICK w \in Sessions : tx[w] = t
    BY DEF IInv, SentOnce
  <2>4. t # NoTransaction
    BY <1>2, TransactionAssumption
  <2>5. ASSUME NEW v \in S
        PROVE  /\ input[v] \in Submissions /\ EvmValidate(input[v])
               /\ Submits(input[v]) = c
               /\ v \notin Applied
               /\ Outcome[v] \in {"none", "unknown"}
    <3>1. input[v] \in Submissions /\ EvmValidate(input[v]) /\ t.call = CallOf(input[v])
      BY <2>4 DEF IInv, InputIsKept
    <3>2. [tx |-> tx[v], status |-> 1] \notin receipts
          /\ [tx |-> tx[v], status |-> 0] \notin receipts
      BY <1>4, AppliedIsMined
    <3>3. pc[v] \in Labels /\ pc[v] \notin {"accepted", "rejected", "refused"}
      BY <2>4, <3>2 DEF IInv, TypeOK, InputIsKept, AnswersHaveReceipts
    <3>4. pc[v] \in {"idle", "connected", "validated", "signed", "pending"}
          \/ pc[v] \in {"dropped", "failed"}
      BY <3>3 DEF Labels, Ended
    <3>5. Outcome[v] \in {"none", "unknown"}
      BY <3>4, Outcomes DEF Outcome
    <3> QED BY <3>1, <3>2, <3>5 DEF Submits, Applied
  <2>6. w \in S /\ S \in SUBSET Sessions
    BY <2>3
  <2>7. Abstract!Apply(S, c)
    BY <1>2, <1>5, <2>1, <2>2, <2>5, <2>6 DEF Abstract!Apply, Outcome, Applied
  <2>8. c = Submits(input[w]) /\ input[w] \in Submissions
    BY <2>5, <2>6
  <2> HIDE DEF S, c
  <2>9. \E Z \in SUBSET Sessions, s \in Submissions : Abstract!Apply(Z, Submits(s))
    BY <2>6, <2>7, <2>8
  <2> QED BY <2>9 DEF Abstract!RegistryNext
<1> QED BY <1>6, <1>7

\* Every step of a session and of the chain is a step of the registry, or none.
LEMMA RefinesStep ==
  ASSUME ContractDeployed, IInv, [Next]_vars
  PROVE  [Abstract!RegistryNext]_(Abstract!registryVars)
<1> SUFFICES Abstract!RegistryNext \/ UNCHANGED <<input, Outcome, Applied, verifiedState>>
  BY DEF Abstract!registryVars, Outcome, Applied
<1>1. pc \in [Sessions -> Labels] /\ DOMAIN input = Sessions
  BY DEF IInv, TypeOK
<1>2. \A v \in Sessions : \A label :
        Goto(v, label) => Outcome' = [Outcome EXCEPT ![v] = OutcomeOf(label)]
  BY <1>1 DEF Goto, Outcome
<1>3. \A v \in Sessions : Outcome[v] = OutcomeOf(pc[v])
  BY DEF Outcome
<1>4. UNCHANGED <<tx, receipts>> => UNCHANGED Applied
  BY DEF Applied
<1>5. ASSUME NEW v \in Sessions, NEW label, Goto(v, label),
             OutcomeOf(label) = OutcomeOf(pc[v]),
             UNCHANGED <<input, Applied, verifiedState>>
      PROVE  UNCHANGED <<input, Outcome, Applied, verifiedState>>
  <2>1. Outcome' = Outcome
    BY <1>2, <1>3, <1>5 DEF Outcome
  <2> QED BY <2>1, <1>5
<1>6. ASSUME NEW v \in Sessions, NEW label, Goto(v, label),
             OutcomeOf(pc[v]) = "none",
             OutcomeOf(label) \in {"accepted", "rejected", "unknown"},
             OutcomeOf(label) = "accepted" =>
               v \in Applied /\ Submits(input[v]) \in verifiedState,
             OutcomeOf(label) = "rejected" => v \notin Applied /\ input[v] \in Submissions,
             UNCHANGED <<input, tx, receipts, verifiedState>>
      PROVE  Abstract!RegistryNext
  <2>1. Abstract!Answer(v, OutcomeOf(label))
    BY <1>2, <1>3, <1>4, <1>6 DEF Abstract!Answer, Outcome, Applied
  <2> QED BY <2>1, <1>6 DEF Abstract!RegistryNext
<1> USE DEF chain
<1>7. ASSUME NEW v \in Sessions, Connect(v) \/ Fill(v)
      PROVE  UNCHANGED <<input, Outcome, Applied, verifiedState>>
  <2>1. CASE Connect(v)
    BY <1>4, <1>5, <2>1, Outcomes DEF Connect
  <2>2. CASE Fill(v)
    <3>1. PICK gas \in GasPrices :
            tx' = [tx EXCEPT ![v] = Signed(v, accountNonce[SignerOf[v]], gas)]
      BY <2>2 DEF Fill
    <3> DEFINE t == Signed(v, accountNonce[SignerOf[v]], gas)
    <3>2. pc[v] = "validated" /\ Goto(v, "signed") /\ UNCHANGED <<input, chain>>
      BY <2>2 DEF Fill
    <3>3. t.signer = SignerOf[v] /\ t.nonce = accountNonce[SignerOf[v]] /\ t.nonce \in Nat
      BY EvmAssumption DEF Signed, IInv, TypeOK
    <3>4. tx'[v] = t /\ (\A w \in Sessions \ {v} : tx'[w] = tx[w])
      BY <3>1 DEF IInv, TypeOK
    <3> HIDE DEF t
    <3>5. t \notin Mined
      <4>1. t \in Mined => t.nonce < accountNonce[t.signer]
        BY DEF IInv, SentOnce
      <4> QED BY <3>3, <4>1
    <3>6. tx[v] \notin Mined
      <4>1. tx[v] = NoTransaction
        BY <3>2 DEF IInv, InputIsKept
      <4> QED BY <4>1, TransactionAssumption DEF IInv, TypeOK, Mined
    <3>7. v \notin Applied /\ v \notin Applied'
      BY <3>2, <3>4, <3>5, <3>6, AppliedIsMined DEF Applied
    <3>8. \A w \in Sessions : w \in Applied' <=> w \in Applied
      BY <3>2, <3>4, <3>7 DEF Applied
    <3>9. Applied' = Applied
      BY <3>8 DEF Applied
    <3> QED BY <1>5, <3>2, <3>9, Outcomes
  <2> QED BY <1>7, <2>1, <2>2
<1>8. ASSUME NEW v \in Sessions, Validate(v) PROVE Abstract!RegistryNext
  <2>1. PICK s \in Submissions :
          /\ input' = [input EXCEPT ![v] = s]
          /\ Goto(v, IF EvmValidate(s) THEN "validated" ELSE "refused")
    BY <1>8 DEF Validate
  <2>2. input[v] = NoSubmission /\ UNCHANGED <<Applied, verifiedState>>
    BY <1>8, <1>4 DEF Validate, IInv, InputIsKept
  <2>3. Outcome' = [Outcome EXCEPT ![v] = IF EvmValidate(s) THEN "none" ELSE "refused"]
    <3>1. CASE EvmValidate(s)
      BY <1>2, <2>1, <3>1, Outcomes
    <3>2. CASE ~EvmValidate(s)
      BY <1>2, <2>1, <3>2, Outcomes
    <3> QED BY <3>1, <3>2
  <2>4. Abstract!Ask(v, s)
    BY <2>1, <2>2, <2>3 DEF Abstract!Ask, Outcome, Applied
  <2> QED BY <2>4 DEF Abstract!RegistryNext
<1>9. ASSUME NEW v \in Sessions, Send(v)
      PROVE  Abstract!RegistryNext \/ UNCHANGED <<input, Outcome, Applied, verifiedState>>
  <2>1. /\ pc[v] = "signed"
        /\ Goto(v, "pending") \/ Goto(v, "failed")
        /\ UNCHANGED <<input, tx, receipts, verifiedState>>
    BY <1>9 DEF Send
  <2>2. CASE Goto(v, "pending")
    BY <1>4, <1>5, <2>1, <2>2, Outcomes
  <2>3. CASE Goto(v, "failed")
    BY <1>6, <2>1, <2>3, Outcomes
  <2> QED BY <2>1, <2>2, <2>3
<1>10. ASSUME NEW v \in Sessions, Receive(v) PROVE Abstract!RegistryNext
  <2>1. PICK r \in receipts :
          /\ r.tx = tx[v]
          /\ Goto(v, IF r.status = 1 THEN "accepted" ELSE "rejected")
    BY <1>10 DEF Receive
  <2>2. r = [tx |-> tx[v], status |-> r.status] /\ r.status \in {0, 1}
    BY <2>1 DEF IInv, TypeOK
  <2>3. /\ pc[v] = "pending" /\ UNCHANGED <<input, tx, receipts, verifiedState>>
        /\ input[v] \in Submissions /\ tx[v].call = CallOf(input[v])
    BY <1>10 DEF Receive, IInv, InputIsKept
  <2>4. CASE r.status = 1
    <3>1. v \in Applied
      BY <2>2, <2>4 DEF Applied
    <3>2. Submits(input[v]) \in verifiedState
      BY <2>1, <2>3, <2>4 DEF IInv, RegistryIsReceipts, Submits
    <3> QED BY <1>6, <2>1, <2>3, <2>4, <3>1, <3>2, Outcomes
  <2>5. CASE r.status = 0
    <3>1. v \notin Applied
      <4> DEFINE good == [tx |-> tx[v], status |-> 1]
      <4>1. good.tx = tx[v] /\ good.status = 1
        OBVIOUS
      <4> HIDE DEF good
      <4>2. good \notin receipts
        BY <2>1, <2>5, <4>1 DEF IInv, SentOnce
      <4> QED BY <4>2 DEF good, Applied
    <3> QED BY <1>6, <2>1, <2>3, <2>5, <3>1, Outcomes
  <2> QED BY <2>2, <2>4, <2>5
<1>11. ASSUME NEW v \in Sessions, ReportDropped(v) \/ Fail(v)
       PROVE  Abstract!RegistryNext
  <2>1. CASE ReportDropped(v)
    BY <1>6, <2>1, Outcomes DEF ReportDropped
  <2>2. CASE Fail(v)
    BY <1>6, <2>2, Outcomes DEF Fail
  <2> QED BY <1>11, <2>1, <2>2
<1>12. ASSUME (\E t \in mempool : Evict(t)) \/ (\E k \in Signers : MineOther(k)) \/ UNCHANGED vars
       PROVE  UNCHANGED <<input, Outcome, Applied, verifiedState>>
  BY <1>4, <1>12 DEF Evict, MineOther, vars, Outcome
<1> QED BY <1>7, <1>8, <1>9, <1>10, <1>11, <1>12, RefinesMine DEF Next

\* With PqspVerifier at the configured address, the sessions, the mempool and
\* the contract keep the promise of the registry: refused calls are never
\* applied, nothing is applied twice, the registry holds what was applied, and
\* `accepted` is answered for a call that is in it.
THEOREM Refines ==
  ASSUME ContractDeployed
  PROVE  Spec => ImplementsRegistry
<1>1. IInv /\ [Next]_vars => [Abstract!RegistryNext]_(Abstract!registryVars)
  BY RefinesStep
<1> QED BY <1>1, Invariant, RefinesInit, PTL DEF Spec, ImplementsRegistry, Abstract!RegistrySpec
=============================================================================
