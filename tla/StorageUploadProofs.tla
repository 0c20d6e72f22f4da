------------------------ MODULE StorageUploadProofs -------------------------
(***************************************************************************)
(* Proofs that uploads keep their types, pay only when connected, keep     *)
(* their staging files while they need them, and together implement the    *)
(* abstract storage service: for any number of calls, nodes and segments.  *)
(***************************************************************************)
EXTENDS StorageUpload, TLAPS

WithSdk == {"sdk", "paying", "sending", "waiting"}

\* How far a call has connected in each state.
Connected ==
  \A c \in Calls :
    /\ pc[c] \in {"idle", "staging"} => clients[c] = 0
    /\ pc[c] = "connecting" => clients[c] < Connections(c)
    /\ pc[c] \in WithSdk => clients[c] = Connections(c)

\* Only what is paid for is sent, held and finalized.
SentIsPaid ==
  /\ \A c \in Calls : pc[c] \in {"sending", "waiting"} => PayloadOf[c] \in Packed
  /\ \A t \in segments : t[2] \in Packed
  /\ final \subseteq Held

UploadInv == TypeOK /\ Connected /\ PaidAfterConnecting /\ StagedWhileNeeded /\ SentIsPaid

\* The number of connections is a positive number, and fixed for each call.
LEMMA ConnectionsAreCounted ==
  ASSUME TypeOK, NEW c \in Calls
  PROVE  Connections(c) \in Nat /\ Connections(c) >= 1
<1>1. config[c].node_urls \in Seq(Nodes)
  BY UploadAssumption DEF TypeOK
<1>2. Len(config[c].node_urls) \in Nat
  BY <1>1
<1> QED
  BY <1>2 DEF Connections

\* Initially nothing is staged, connected, paid for or sent.
LEMMA InitUploadInv == Init => UploadInv
<1> SUFFICES ASSUME Init PROVE UploadInv
  OBVIOUS
<1>1. \A c \in Calls : Connections(c) \in Nat /\ Connections(c) >= 1
  <2> TAKE c \in Calls
  <2>1. config[c].node_urls \in Seq(Nodes)
    BY UploadAssumption DEF Init
  <2>2. Len(config[c].node_urls) \in Nat
    BY <2>1
  <2> QED
    BY <2>2 DEF Connections
<1>2. TypeOK
  BY <1>1 DEF Init, TypeOK
<1>3. Connected
  BY DEF Init, Connected, WithSdk
<1>4. PaidAfterConnecting /\ StagedWhileNeeded
  BY DEF Init, PaidAfterConnecting, StagedWhileNeeded
<1>5. SentIsPaid
  BY DEF Init, SentIsPaid
<1> QED
  BY <1>2, <1>3, <1>4, <1>5 DEF UploadInv

\* A step of one call, from its own state to the next.
LocalStep(c) ==
  /\ UNCHANGED <<config, paid, segments, final>>
  /\ mempool' = mempool \/ (mempool' = mempool \cup {c} /\ clients[c] = Connections(c))
  /\ pc'[c] \in Running \cup Ended /\ pc' = [pc EXCEPT ![c] = pc'[c]]
  /\ temp'[c] \in {"none", "partial", "whole"} /\ temp' = [temp EXCEPT ![c] = temp'[c]]
  /\ clients'[c] \in Nat /\ clients' = [clients EXCEPT ![c] = clients'[c]]
  /\ clients[c] = Connections(c) => clients'[c] = clients[c]
  /\ clients'[c] <= Connections(c)
  /\ pc'[c] = "staging" => clients'[c] = 0
  /\ pc'[c] = "connecting" => clients'[c] < Connections(c)
  /\ pc'[c] \in WithSdk => clients'[c] = Connections(c)
  /\ pc'[c] \in {"connecting"} \cup WithSdk => temp'[c] = "whole"
  /\ pc'[c] \in {"returned", "failed"} => temp'[c] = "none"
  /\ pc'[c] \in {"sending", "waiting"} => PayloadOf[c] \in Packed

\* Such a step keeps the invariant.
LEMMA LocalStepKeeps ==
  ASSUME UploadInv, NEW c \in Calls, LocalStep(c)
  PROVE  UploadInv'
<1>1. \A d \in Calls : Connections(d)' = Connections(d)
  BY DEF LocalStep, Connections
<1>2. TypeOK'
  <2>1. pc' \in [Calls -> {"idle"} \cup Running \cup Ended]
    BY DEF LocalStep, UploadInv, TypeOK
  <2>2. temp' \in [Calls -> {"none", "partial", "whole"}]
    BY DEF LocalStep, UploadInv, TypeOK
  <2>3. clients' \in [Calls -> Nat]
    BY DEF LocalStep, UploadInv, TypeOK
  <2>4. \A d \in Calls : clients'[d] <= Connections(d)
    BY DEF LocalStep, UploadInv, TypeOK
  <2>5. mempool' \subseteq Calls
    BY DEF LocalStep, UploadInv, TypeOK
  <2> QED
    BY <1>1, <2>1, <2>2, <2>3, <2>4, <2>5 DEF LocalStep, UploadInv, TypeOK
<1>3. Connected'
  <2> SUFFICES ASSUME NEW d \in Calls
               PROVE  /\ pc'[d] \in {"idle", "staging"} => clients'[d] = 0
                      /\ pc'[d] = "connecting" => clients'[d] < Connections(d)
                      /\ pc'[d] \in WithSdk => clients'[d] = Connections(d)
    BY <1>1 DEF Connected, WithSdk
  <2>1. CASE d = c
    BY <2>1 DEF LocalStep, Running, Ended, WithSdk
  <2>2. CASE d # c
    <3>1. pc'[d] = pc[d] /\ clients'[d] = clients[d]
      BY <2>2 DEF LocalStep, UploadInv, TypeOK
    <3> QED
      BY <3>1 DEF UploadInv, Connected
  <2> QED
    BY <2>1, <2>2
<1>4. PaidAfterConnecting'
  <2> SUFFICES ASSUME NEW d \in mempool' \cup paid'
               PROVE  clients'[d] = Connections(d)
    BY <1>1 DEF PaidAfterConnecting, LocalStep, UploadInv, TypeOK
  <2>1. d \in Calls
    BY DEF LocalStep, UploadInv, TypeOK
  <2>2. clients[d] = Connections(d)
    BY DEF LocalStep, UploadInv, PaidAfterConnecting
  <2>3. CASE d = c
    BY <2>2, <2>3 DEF LocalStep
  <2>4. CASE d # c
    BY <2>1, <2>2, <2>4 DEF LocalStep, UploadInv, TypeOK
  <2> QED
    BY <2>3, <2>4
<1>5. StagedWhileNeeded'
  BY DEF LocalStep, UploadInv, TypeOK, StagedWhileNeeded, WithSdk, Running, Ended
<1>6. SentIsPaid'
  BY DEF LocalStep, UploadInv, TypeOK, SentIsPaid, Packed, Held
<1> QED
  BY <1>2, <1>3, <1>4, <1>5, <1>6 DEF UploadInv

\* Every step of a call, of the chain and of the nodes keeps the invariant.
LEMMA NextUploadInv == UploadInv /\ [Next]_vars => UploadInv'
<1> SUFFICES ASSUME UploadInv, [Next]_vars PROVE UploadInv'
  OBVIOUS
<1> USE DEF Goto, outside
<1>p. ASSUME NEW c \in Calls
      PROVE  /\ pc[c] \in {"idle"} \cup Running \cup Ended
             /\ temp[c] \in {"none", "partial", "whole"}
             /\ pc \in [Calls -> {"idle"} \cup Running \cup Ended]
             /\ temp \in [Calls -> {"none", "partial", "whole"}]
             /\ clients \in [Calls -> Nat]
             /\ clients[c] \in Nat /\ clients[c] <= Connections(c)
             /\ Connections(c) \in Nat /\ Connections(c) >= 1
  BY ConnectionsAreCounted DEF UploadInv, TypeOK
<1>q. ASSUME NEW c \in Calls
      PROVE  /\ pc[c] \in {"idle", "staging"} => clients[c] = 0
             /\ pc[c] = "connecting" => clients[c] < Connections(c) /\ temp[c] = "whole"
             /\ pc[c] \in WithSdk => clients[c] = Connections(c) /\ temp[c] = "whole"
             /\ pc[c] = "idle" => temp[c] = "none"
  BY DEF WithSdk, UploadInv, StagedWhileNeeded, Connected
<1>1. ASSUME NEW c \in Calls, Begin(c) PROVE UploadInv'
  <2>2. LocalStep(c)
    BY <1>1, <1>p, <1>q DEF Begin, LocalStep, Running, Ended, WithSdk
  <2> QED
    BY <2>2, LocalStepKeeps
<1>2. ASSUME NEW c \in Calls, CreateTemp(c) PROVE UploadInv'
  <2>2. LocalStep(c)
    BY <1>2, <1>p, <1>q DEF CreateTemp, LocalStep, Running, Ended, WithSdk
  <2> QED
    BY <2>2, LocalStepKeeps
<1>3. ASSUME NEW c \in Calls, WriteTemp(c) PROVE UploadInv'
  <2>1. clients[c] = 0 /\ clients[c] < Connections(c)
    BY <1>3, <1>p, <1>q DEF WriteTemp
  <2>2. LocalStep(c)
    BY <1>3, <1>p, <2>1 DEF WriteTemp, LocalStep, Running, Ended, WithSdk
  <2> QED
    BY <2>2, LocalStepKeeps
<1>4. ASSUME NEW c \in Calls, Connect(c) PROVE UploadInv'
  <2>1. /\ temp[c] = "whole" /\ clients[c] # Connections(c)
        /\ clients[c] + 1 \in Nat /\ clients[c] + 1 <= Connections(c)
        /\ clients[c] + 1 # Connections(c) => clients[c] + 1 < Connections(c)
    BY <1>4, <1>p, <1>q DEF Connect
  <2>3. /\ clients'[c] = clients[c] + 1
        /\ pc'[c] = IF clients[c] + 1 = Connections(c) THEN "sdk" ELSE "connecting"
    BY <1>4, <1>p DEF Connect
  <2>2. LocalStep(c)
    BY <1>4, <1>p, <2>1, <2>3 DEF Connect, LocalStep, Running, Ended, WithSdk
  <2> QED
    BY <2>2, LocalStepKeeps
<1>5. ASSUME NEW c \in Calls, SkipTx(c) PROVE UploadInv'
  <2>2. LocalStep(c)
    BY <1>5, <1>p, <1>q DEF SkipTx, LocalStep, Running, Ended, WithSdk
  <2> QED
    BY <2>2, LocalStepKeeps
<1>6. ASSUME NEW c \in Calls, Dispatch(c) PROVE UploadInv'
  <2>2. LocalStep(c)
    BY <1>6, <1>p, <1>q DEF Dispatch, LocalStep, Running, Ended, WithSdk
  <2> QED
    BY <2>2, LocalStepKeeps
<1>7. ASSUME NEW c \in Calls, SeePacked(c) PROVE UploadInv'
  <2>1. PayloadOf[c] \in Packed
    BY <1>7 DEF SeePacked, Packed
  <2>2. LocalStep(c)
    BY <1>7, <1>p, <1>q, <2>1 DEF SeePacked, LocalStep, Running, Ended, WithSdk
  <2> QED
    BY <2>2, LocalStepKeeps
<1>8. ASSUME NEW c \in Calls, Sent(c) PROVE UploadInv'
  <2>1. PayloadOf[c] \in Packed
    BY <1>8 DEF Sent, UploadInv, SentIsPaid
  <2>2. LocalStep(c)
    BY <1>8, <1>p, <1>q, <2>1 DEF Sent, LocalStep, Running, Ended, WithSdk
  <2> QED
    BY <2>2, LocalStepKeeps
<1>9. ASSUME NEW c \in Calls, NEW s \in Segments, NEW n \in Nodes, SendSegment(c, s, n)
      PROVE  UploadInv'
  <2>1. PayloadOf[c] \in Packed /\ PayloadOf[c] \in Payloads
    BY <1>9 DEF SendSegment, UploadInv, SentIsPaid, Payloads
  <2>2. segments' = segments \cup {<<n, PayloadOf[c], s>>}
        /\ UNCHANGED <<config, pc, temp, clients, mempool, paid, final>>
    BY <1>9 DEF SendSegment
  <2>3. TypeOK'
    BY <2>1, <2>2 DEF UploadInv, TypeOK, Connections
  <2>4. Connected' /\ PaidAfterConnecting' /\ StagedWhileNeeded'
    BY <2>2 DEF UploadInv, Connected, PaidAfterConnecting, StagedWhileNeeded, Connections, WithSdk
  <2>5. Held \subseteq Held'
    BY <2>2 DEF Held
  <2>6. SentIsPaid'
    BY <2>1, <2>2, <2>5 DEF UploadInv, SentIsPaid, Packed
  <2> QED
    BY <2>3, <2>4, <2>6 DEF UploadInv
<1>10. ASSUME NEW c \in Calls, Return(c) PROVE UploadInv'
  <2>1. LocalStep(c)
    BY <1>10, <1>p, <1>q DEF Return, LocalStep, Running, Ended, WithSdk
  <2> QED
    BY <2>1, LocalStepKeeps
<1>11. ASSUME NEW c \in Calls, Fail(c) PROVE UploadInv'
  <2>1. LocalStep(c)
    BY <1>11, <1>p, <1>q DEF Fail, LocalStep, Running, Ended, WithSdk
  <2> QED
    BY <2>1, LocalStepKeeps
<1>12. ASSUME NEW c \in Calls, Kill(c) PROVE UploadInv'
  <2>1. LocalStep(c)
    BY <1>12, <1>p, <1>q DEF Kill, LocalStep, Running, Ended, WithSdk
  <2> QED
    BY <2>1, LocalStepKeeps
<1>13. ASSUME NEW c \in Calls, Include(c) PROVE UploadInv'
  <2> USE <1>13 DEF Include
  <2>1. Packed \subseteq Packed'
    BY DEF Packed
  <2>2. TypeOK' /\ Connected' /\ PaidAfterConnecting' /\ StagedWhileNeeded'
    BY DEF UploadInv, TypeOK, Connected, PaidAfterConnecting, StagedWhileNeeded, Connections, WithSdk
  <2>3. SentIsPaid'
    BY <2>1 DEF UploadInv, SentIsPaid, Held
  <2> QED
    BY <2>2, <2>3 DEF UploadInv
<1>14. ASSUME NEW c \in Calls, Drop(c) PROVE UploadInv'
  BY <1>14 DEF Drop, UploadInv, TypeOK, Connected, PaidAfterConnecting, StagedWhileNeeded,
               SentIsPaid, Connections, Packed, Held, WithSdk
<1>15. ASSUME NEW p \in Payloads, FinalizeFile(p) PROVE UploadInv'
  <2> USE <1>15 DEF FinalizeFile
  <2>1. TypeOK' /\ Connected' /\ PaidAfterConnecting' /\ StagedWhileNeeded'
    BY DEF UploadInv, TypeOK, Connected, PaidAfterConnecting, StagedWhileNeeded, Connections, WithSdk
  <2>2. SentIsPaid'
    BY DEF UploadInv, SentIsPaid, Packed, Held
  <2> QED
    BY <2>1, <2>2 DEF UploadInv
<1>16. CASE UNCHANGED vars
  BY <1>16 DEF vars, UploadInv, TypeOK, Connected, PaidAfterConnecting, StagedWhileNeeded,
               SentIsPaid, Connections, Packed, Held, WithSdk
<1> QED
  BY <1>1, <1>2, <1>3, <1>4, <1>5, <1>6, <1>7, <1>8, <1>9, <1>10, <1>11, <1>12,
     <1>13, <1>14, <1>15, <1>16 DEF Next

\* The inductive invariant of the uploads holds throughout.
THEOREM UploadInvariant == Spec => []UploadInv
<1> QED
  BY InitUploadInv, NextUploadInv, PTL DEF Spec

\* Calls, staging files, connections and the storage network keep their types,
\* and no call opens more connections than upload_live_bytes asks it to.
THEOREM TypeCorrect == Spec => []TypeOK
<1>1. UploadInv => TypeOK
  BY DEF UploadInv
<1> QED
  BY <1>1, UploadInvariant, PTL

\* No storage transaction is sent before every configured endpoint answered.
THEOREM PaysWhenConnected == Spec => []PaidAfterConnecting
<1>1. UploadInv => PaidAfterConnecting
  BY DEF UploadInv
<1> QED
  BY <1>1, UploadInvariant, PTL

\* The SDK never reads a staging file that is partial or gone, and only a kill
\* leaves one behind.
THEOREM StagingIsKept == Spec => []StagedWhileNeeded
<1>1. UploadInv => StagedWhileNeeded
  BY DEF UploadInv
<1> QED
  BY <1>1, UploadInvariant, PTL

\* What a call that has returned has left behind.
ReturnedIsStored ==
  \A c \in Calls :
    pc[c] = "returned" /\ config[c].finality # "WaitNothing" =>
      /\ PayloadOf[c] \in Packed \cap Held
      /\ config[c].finality = "FileFinalized" => PayloadOf[c] \in final

\* A call that returns, and had not asked not to wait, has its payload paid for
\* and on the nodes, and finalized if it asked for that: then and ever after,
\* whatever becomes of other calls of the same payload.
THEOREM ReturnsWhenStored == Spec => []ReturnedIsStored
<1>1. Init => ReturnedIsStored
  BY DEF Init, ReturnedIsStored
<1>2. UploadInv /\ ReturnedIsStored /\ [Next]_vars => ReturnedIsStored'
  <2> SUFFICES ASSUME UploadInv, ReturnedIsStored, [Next]_vars,
                      NEW c \in Calls, pc'[c] = "returned", config'[c].finality # "WaitNothing"
               PROVE  /\ PayloadOf[c] \in Packed' /\ PayloadOf[c] \in Held'
                      /\ config'[c].finality = "FileFinalized" => PayloadOf[c] \in final'
    BY DEF ReturnedIsStored
  <2>1. paid \subseteq paid' /\ segments \subseteq segments' /\ final \subseteq final' /\ config' = config
    BY DEF Next, vars, outside, Begin, CreateTemp, WriteTemp, Connect, SkipTx, Dispatch, SeePacked,
           SendSegment, Sent, Return, Fail, Kill, Include, Drop, FinalizeFile
  <2>2. Packed \subseteq Packed' /\ Held \subseteq Held'
    BY <2>1 DEF Packed, Held
  <2>3. CASE pc[c] = "returned"
    BY <2>1, <2>2, <2>3 DEF ReturnedIsStored
  <2>4. CASE pc[c] # "returned"
    <3>1. Return(c)
      <4>1. pc \in [Calls -> {"idle"} \cup Running \cup Ended]
        BY DEF UploadInv, TypeOK
      <4>2. ASSUME NEW d \in Calls, NEW label, label # "returned" PROVE ~Goto(d, label)
        BY <2>4, <4>1, <4>2 DEF Goto
      <4>3. pc' # pc
        BY <2>4
      <4>4. PICK d \in Calls : Return(d)
        BY <4>2, <4>3
           DEF Next, vars, Begin, CreateTemp, WriteTemp, Connect, SkipTx, Dispatch, SeePacked,
               SendSegment, Sent, Fail, Kill, Include, Drop, FinalizeFile
      <4>5. d = c
        BY <2>4, <4>1, <4>4 DEF Return, Goto
      <4> QED
        BY <4>4, <4>5
    <3>2. pc[c] = "waiting" /\ Satisfies(config[c].finality, PayloadOf[c] \in Held, PayloadOf[c] \in final)
      BY <3>1, <2>1 DEF Return, IntoSdk
    <3>3. PayloadOf[c] \in Packed /\ final \subseteq Held
      BY <3>2 DEF UploadInv, SentIsPaid
    <3> QED
      BY <2>1, <2>2, <3>2, <3>3 DEF Satisfies
  <2> QED
    BY <2>3, <2>4
<1> QED
  BY <1>1, <1>2, UploadInvariant, PTL DEF Spec

\* What a call asks for is its payload, at the finality it is configured with.
LEMMA CallsAskProperly ==
  ASSUME config \in [Calls -> Configs], NEW c \in Calls
  PROVE  [payload |-> PayloadOf[c], level |-> config[c].finality] \in Service!Requests
<1>1. config[c].finality \in Finalities
  BY UploadAssumption
<1> QED
  BY <1>1 DEF Service!Requests, Payloads

\* A call that ends unsuccessfully, and nothing else, is a failed answer.
LEMMA EndsFailed ==
  ASSUME UploadInv, NEW c \in Calls, pc[c] \notin Ended,
         pc'[c] \in {"failed", "killed"}, pc' = [pc EXCEPT ![c] = pc'[c]],
         UNCHANGED <<config, paid, segments, final>>
  PROVE  Service!Answer(c, "failed")
<1>1. Answers[c] = "none"
  BY DEF Answers, Ended
<1>2. Answers' = [Answers EXCEPT ![c] = "failed"]
  <2> SUFFICES ASSUME NEW d \in Calls
               PROVE  Answers'[d] = [Answers EXCEPT ![c] = "failed"][d]
    BY DEF Answers
  <2> QED
    BY DEF Answers, UploadInv, TypeOK
<1>3. [payload |-> PayloadOf[c], level |-> config[c].finality] \in Service!Requests
  BY CallsAskProperly DEF UploadInv, TypeOK
<1> QED
  BY <1>1, <1>2, <1>3 DEF Service!Answer, Packed, Held

\* A step that ends no call and leaves payments and segments alone is silent.
LEMMA StaysSilent ==
  ASSUME UploadInv, NEW c \in Calls, pc[c] \notin Ended, pc'[c] \notin Ended,
         pc' = [pc EXCEPT ![c] = pc'[c]],
         UNCHANGED <<config, paid, segments, final>>
  PROVE  UNCHANGED Service!serviceVars
<1>1. Answers' = Answers
  <2> SUFFICES ASSUME NEW d \in Calls PROVE Answers'[d] = Answers[d]
    BY DEF Answers
  <2>1. Answers[c] = "none" /\ Answers'[c] = "none"
    BY DEF Answers, Ended
  <2>2. CASE d = c
    BY <2>1, <2>2
  <2>3. CASE d # c
    BY <2>3 DEF Answers, UploadInv, TypeOK
  <2> QED
    BY <2>2, <2>3
<1> QED
  BY <1>1 DEF Service!serviceVars, Packed, Held

\* Every step of the uploads is a step of the abstract service, or silent.
LEMMA StepsServe ==
  UploadInv /\ UploadInv' /\ [Next]_vars => [Service!ServiceNext]_(Service!serviceVars)
<1> SUFFICES ASSUME UploadInv, UploadInv', [Next]_vars
             PROVE  Service!ServiceNext \/ UNCHANGED Service!serviceVars
  OBVIOUS
<1> USE DEF Goto, outside, Service!ServiceNext
<1>p. pc \in [Calls -> {"idle"} \cup Running \cup Ended]
  BY DEF UploadInv, TypeOK
<1>1. ASSUME NEW c \in Calls, Begin(c)
      PROVE  Service!ServiceNext \/ UNCHANGED Service!serviceVars
  <2>1. CASE config[c].credentials /\ HasTarget(c)
    BY <1>1, <1>p, <2>1, StaysSilent DEF Begin, Ended
  <2>2. CASE ~(config[c].credentials /\ HasTarget(c))
    BY <1>1, <1>p, <2>2, EndsFailed DEF Begin, Ended
  <2> QED
    BY <2>1, <2>2
<1>2. ASSUME NEW c \in Calls,
             CreateTemp(c) \/ WriteTemp(c) \/ Connect(c) \/ SkipTx(c) \/ Dispatch(c)
               \/ SeePacked(c) \/ Sent(c)
      PROVE  UNCHANGED Service!serviceVars
  <2>1. CASE CreateTemp(c)
    BY <2>1, <1>p, StaysSilent DEF CreateTemp, Ended
  <2>2. CASE WriteTemp(c)
    BY <2>2, <1>p, StaysSilent DEF WriteTemp, Ended
  <2>3. CASE Connect(c)
    BY <2>3, <1>p, StaysSilent DEF Connect, Ended
  <2>4. CASE SkipTx(c)
    BY <2>4, <1>p, StaysSilent DEF SkipTx, Ended
  <2>5. CASE Dispatch(c)
    BY <2>5, <1>p, StaysSilent DEF Dispatch, Ended
  <2>6. CASE SeePacked(c)
    BY <2>6, <1>p, StaysSilent DEF SeePacked, Ended
  <2>7. CASE Sent(c)
    BY <2>7, <1>p, StaysSilent DEF Sent, Ended
  <2> QED
    BY <1>2, <2>1, <2>2, <2>3, <2>4, <2>5, <2>6, <2>7
<1>3. ASSUME NEW c \in Calls, NEW s \in Segments, NEW n \in Nodes, SendSegment(c, s, n)
      PROVE  Service!ServiceNext \/ UNCHANGED Service!serviceVars
  <2>1. PayloadOf[c] \in Payloads /\ PayloadOf[c] \in Packed
    BY <1>3 DEF SendSegment, Payloads, UploadInv, SentIsPaid
  <2>2. Answers' = Answers /\ Packed' = Packed /\ UNCHANGED <<config, final>>
    BY <1>3 DEF SendSegment, Answers, Packed
  <2>3. Held' = Held \/ Held' = Held \cup {PayloadOf[c]}
    <3>1. Held \subseteq Held'
      BY <1>3 DEF SendSegment, Held
    <3>2. ASSUME NEW p \in Held', p # PayloadOf[c]
          PROVE  p \in Held
      <4>1. \A n2 \in Nodes, s2 \in Segments :
              <<n2, p, s2>> \in segments' => <<n2, p, s2>> \in segments
        BY <1>3, <3>2 DEF SendSegment
      <4> QED
        BY <4>1 DEF Held
    <3> QED
      BY <3>1, <3>2
  <2>4. CASE Held' = Held
    BY <2>2, <2>4 DEF Service!serviceVars
  <2>5. CASE Held' = Held \cup {PayloadOf[c]}
    <3>1. Service!Hold(PayloadOf[c])
      BY <2>1, <2>2, <2>5 DEF Service!Hold
    <3> QED
      BY <2>1, <3>1
  <2> QED
    BY <2>3, <2>4, <2>5
<1>4. ASSUME NEW c \in Calls, Return(c)
      PROVE  Service!ServiceNext
  <2>1. Answers[c] = "none" /\ Answers' = [Answers EXCEPT ![c] = "stored"]
    <3>1. Answers'[c] = "stored" /\ Answers[c] = "none"
      BY <1>4, <1>p DEF Return, Answers
    <3>2. \A d \in Calls : d # c => Answers'[d] = Answers[d]
      BY <1>4, <1>p DEF Return, Answers
    <3> QED
      BY <3>1, <3>2 DEF Answers
  <2>2. Satisfies(config[c].finality, PayloadOf[c] \in Held, PayloadOf[c] \in final)
    BY <1>4 DEF Return, IntoSdk
  <2>3. [payload |-> PayloadOf[c], level |-> config[c].finality] \in Service!Requests
    BY CallsAskProperly DEF UploadInv, TypeOK
  <2>4. Service!Reached([payload |-> PayloadOf[c], level |-> config[c].finality])
    BY <2>2 DEF Service!Reached, Satisfies
  <2>5. Service!Answer(c, "stored")
    BY <1>4, <2>1, <2>3, <2>4 DEF Return, Service!Answer, Packed, Held
  <2> QED
    BY <2>5
<1>5. ASSUME NEW c \in Calls, Fail(c) \/ Kill(c)
      PROVE  Service!ServiceNext
  <2>1. Service!Answer(c, "failed")
    BY <1>5, <1>p, EndsFailed DEF Fail, Kill, Running, Ended
  <2> QED
    BY <2>1
<1>6. ASSUME NEW c \in Calls, Include(c)
      PROVE  Service!ServiceNext
  <2>1. Packed' = Packed \cup {PayloadOf[c]}
    BY <1>6 DEF Include, Packed
  <2>2. Answers' = Answers /\ Held' = Held /\ UNCHANGED <<config, final>>
    BY <1>6 DEF Include, Answers, Held
  <2>3. [payload |-> PayloadOf[c], level |-> config[c].finality] \in Service!Requests
    BY CallsAskProperly DEF UploadInv, TypeOK
  <2>4. Service!Pack(c)
    BY <2>1, <2>2, <2>3 DEF Service!Pack
  <2> QED
    BY <2>4
<1>7. ASSUME NEW c \in Calls, Drop(c)
      PROVE  UNCHANGED Service!serviceVars
  BY <1>7 DEF Drop, Service!serviceVars, Answers, Packed, Held
<1>8. ASSUME NEW p \in Payloads, FinalizeFile(p)
      PROVE  Service!ServiceNext
  <2>1. Service!Finalize(p)
    BY <1>8 DEF FinalizeFile, Service!Finalize, Answers, Packed, Held
  <2> QED
    BY <2>1
<1>9. CASE UNCHANGED vars
  BY <1>9 DEF vars, Service!serviceVars, Answers, Packed, Held
<1> QED
  BY <1>1, <1>2, <1>3, <1>4, <1>5, <1>6, <1>7, <1>8, <1>9 DEF Next

\* Calls, chain and nodes implement the abstract storage service.
THEOREM KeepsTheService == Spec => ImplementsService
<1>1. Init => Service!ServiceInit
  <2> SUFFICES ASSUME Init PROVE Service!ServiceInit
    OBVIOUS
  <2>1. Held = {}
    BY UploadAssumption DEF Init, Held
  <2>2. \A c \in Calls :
          [payload |-> PayloadOf[c], level |-> config[c].finality] \in Service!Requests
    BY CallsAskProperly DEF Init
  <2> QED
    BY <2>1, <2>2 DEF Init, Service!ServiceInit, Packed, Answers
<1> QED
  BY <1>1, UploadInvariant, StepsServe, PTL DEF Spec, ImplementsService, Service!ServiceSpec
=============================================================================
