------------------------ MODULE LifecycleRefinements ------------------------
(***************************************************************************)
(* Proofs that the commands, the storage network and the contract together *)
(* implement the vault and the storage service.                            *)
(***************************************************************************)
EXTENDS LifecycleProofs

USE DEF disk, network, mined

-----------------------------------------------------------------------------
(* The vault *)

\* The sets of stored envelopes and of the registry's entries.
Stored  == {payload.encrypted_blob : payload \in held}
Vouched == {CallOf(v) : v \in registered}

\* Whether two artifacts have been mixed, in a file or in a read.
Tangled == Overlap \/ TornRead

\* What the vault shows of a state.
VaultView == <<Sealed, Stored, Vouched, Recovered, Tangled>>

\* The first state is one of the vault: what it holds is sealed by others.
LEMMA VaultInitial == Init => Abstract!VaultInit
<1> SUFFICES ASSUME Init PROVE Abstract!VaultInit
  OBVIOUS
<1>1. \A u \in Uploads : u \notin userKeys
  BY LifecycleAssumption DEF Init
<1>2. \A i \in Decrypts \cup Verifies : job[i] = NoJob
  BY DEF Init, Processes
<1>3. ~Overlap /\ ~TornRead
  BY <1>2 DEF Init, Overlap, Overlapped, Writers, TornRead
<1> QED BY <1>1, <1>2, <1>3 DEF Init, Abstract!VaultInit, Sealed, Recovered

\* An upload that starts seals one envelope, under a key that no other has.
LEMMA VaultSeal ==
  ASSUME NetworkInv, [Next]_vars, NEW u \in Uploads, UploadStart(u)
  PROVE  /\ EnvelopeOf(u)' \in Envelopes
         /\ Sealed' = Sealed \cup {EnvelopeOf(u)'}
         /\ \A e \in Sealed : e.key # EnvelopeOf(u)'.key
<1>1. TypeOK /\ u \in Processes
  BY DEF NetworkInv, TypeInv, Processes
<1>2. pc[u] = "idle" /\ u \notin userKeys /\ userKeys' = userKeys \cup {u}
  BY DEF UploadStart, Start, NetworkInv, ShownKeys
<1>3. \A w \in Uploads \cap userKeys : EnvelopeOf(w)' = EnvelopeOf(w)
  BY <1>1, PayloadKept DEF NetworkInv, ShownKeys
<1>4. Sealed' = Sealed \cup {EnvelopeOf(u)'}
  BY <1>2, <1>3 DEF Sealed
<1>5. \A w : EnvelopeOf(w).key = w /\ EnvelopeOf(w)'.key = w
  BY DEF EnvelopeOf, Encrypt
<1>6. \A e \in LibraryEnvelopes : e.key # u
  BY LifecycleAssumption DEF LibraryKeys
<1>7. EnvelopeOf(u)' \in Envelopes
  <2>1. u \in userKeys'
    BY <1>2
  <2>2. job'[u] \in UploadJobs
    BY <2>1, NetworkStep DEF NetworkInv, ShownKeys
  <2> QED BY <2>2 DEF EnvelopeOf, Encrypt, Envelopes, UploadJobs, Keys
<1> QED BY <1>2, <1>4, <1>5, <1>6, <1>7 DEF Sealed

\* Any other step leaves the sealed envelopes as they are.
LEMMA SealedStays ==
  ASSUME NetworkInv, [Next]_vars, userKeys' = userKeys
  PROVE  Sealed' = Sealed
<1>1. \A w \in Uploads \cap userKeys : EnvelopeOf(w)' = EnvelopeOf(w)
  BY PayloadKept DEF NetworkInv, TypeInv, ShownKeys
<1> QED BY <1>1 DEF Sealed

\* What decrypts have opened depends on their jobs only.
LEMMA RecoveredStays ==
  ASSUME \A x \in Decrypts : job'[x] = job[x]
  PROVE  Recovered' = Recovered
BY DEF Recovered

\* Recorded calls do not change.
LEMMA VouchedStays ==
  ASSUME SentInv, [Next]_vars
  PROVE  /\ \A v \in registered : CallOf(v)' = CallOf(v)
         /\ registered' = registered => Vouched' = Vouched
<1>1. ASSUME NEW v \in registered PROVE job'[v] = job[v]
  <2>1. v \in Verifies /\ v \in Processes /\ pc[v] # "idle"
    BY DEF SentInv, TypeInv, TypeOK, SentWereChecked, Processes
  <2> QED BY <2>1, Kept, LifecycleAssumption DEF SentInv, TypeInv
<1>2. \A v \in registered : CallOf(v)' = CallOf(v)
  BY <1>1 DEF CallOf
<1> QED BY <1>2 DEF Vouched

\* Artifacts are mixed only by an upload that opens a path or a verify that
\* starts.
LEMMA TangledStays ==
  ASSUME rivals' = rivals, \A v \in Verifies : job'[v] = job[v]
  PROVE  Tangled' = Tangled
BY DEF Tangled, Overlap, Overlapped, TornRead

-----------------------------------------------------------------------------
(* Processes that have not started, and live uploads. *)

\* A process that has not started has no job, and only live uploads send a
\* transaction to the 0G chain.
UnstartedInv ==
  /\ TypeInv
  /\ \A i \in Processes : pc[i] = "idle" => job[i] = NoJob
  /\ \A u \in Uploads : pc[u] \in {"dispatched", "submitted", "sent", "lost"} => IsLive(u)

\* No process returns to where it has not started, or changes its mode.
LEMMA UnstartedStep == UnstartedInv /\ [Next]_vars => UnstartedInv'
<1> SUFFICES ASSUME UnstartedInv, [Next]_vars PROVE UnstartedInv'
  OBVIOUS
<1>1. TypeOK /\ TypeInv'
  BY TypeInvStep DEF UnstartedInv, TypeInv
<1>2. ASSUME NEW i \in Processes, pc'[i] = "idle"
      PROVE  job'[i] = NoJob
  <2> USE DEF Saves, OpenOutput, Truncate, BeginWrite, EndWrite, Leave, Stops, Refuse, GiveUp,
              Start, Goto, TypeOK, ProcessTypeOK
  <2>1. CASE i \in Uploads
    BY <1>1, <1>2, <2>1, OwnMoves
       DEF UnstartedInv, UploadMoves, UploadStart, StoreDryRun, DispatchLive, SubmitLive,
           TransferLive
  <2>2. CASE i \in Verifies
    BY <1>1, <1>2, <2>2, OwnMoves
       DEF UnstartedInv, VerifyMoves, VerifyOpen, VerifyStart, SubmitMock, SendEvm, AnswerEvm
  <2>3. CASE i \in Downloads
    BY <1>1, <1>2, <2>3, OwnMoves DEF UnstartedInv, DownloadMoves, DownloadStart, Fetch
  <2>4. CASE i \in Decrypts
    BY <1>1, <1>2, <2>4, OwnMoves DEF UnstartedInv, DecryptMoves, DecryptStart
  <2> QED BY <2>1, <2>2, <2>3, <2>4 DEF Processes
<1>3. ASSUME NEW u \in Uploads, pc'[u] \in {"dispatched", "submitted", "sent", "lost"}
      PROVE  IsLive(u)'
  <2>1. u \in Processes
    BY DEF Processes
  <2>2. CASE pc'[u] = pc[u] /\ job'[u] = job[u]
    BY <1>3, <2>2 DEF UnstartedInv, IsLive
  <2>3. CASE DispatchLive(u)
    <3>1. job[u] # NoJob /\ job[u].mode = "live" /\ job' = job
      BY <1>1, <2>1, <2>3, RunningHasJob DEF DispatchLive
    <3> QED BY <3>1 DEF IsLive
  <2>4. CASE SubmitLive(u)
    BY <2>4 DEF SubmitLive, UnstartedInv, IsLive
  <2>5. CASE Saves(u) \/ StoreDryRun(u) \/ TransferLive(u) \/ UploadStart(u) \/ Refuse(u)
    <3>1. pc'[u] \in {"opened", "writing", "done", "saving", "storing", "failed"}
      BY <1>1, <2>1, <2>5
         DEF Saves, OpenOutput, Truncate, BeginWrite, EndWrite, Leave, Start, Goto,
             StoreDryRun, TransferLive, UploadStart, Refuse, TypeOK, ProcessTypeOK
    <3> QED BY <1>3, <3>1
  <2>6. CASE GiveUp(u)
    <3>1. job' = job /\ (pc'[u] = "lost" => pc[u] \in {"dispatched", "sent"})
      BY <1>1, <2>1, <2>6 DEF GiveUp, Goto, TypeOK, ProcessTypeOK
    <3>2. pc'[u] \in {"failed", "lost", "torn"}
      BY <1>1, <2>1, <2>6 DEF GiveUp, Goto, TypeOK, ProcessTypeOK
    <3> QED BY <1>3, <3>1, <3>2 DEF UnstartedInv, IsLive
  <2> QED BY <1>1, <2>2, <2>3, <2>4, <2>5, <2>6, OwnMoves DEF UploadMoves, Stops
<1> QED BY <1>1, <1>2, <1>3 DEF UnstartedInv

\* A process has read nothing before it starts, and only live uploads go to the
\* 0G chain.
THEOREM UnstartedInvariant == Spec => []UnstartedInv
<1>1. Init => UnstartedInv
  BY TypeInit DEF Init, UnstartedInv, TypeInv, Processes
<1> QED BY <1>1, UnstartedStep, PTL DEF Spec

-----------------------------------------------------------------------------
(* The steps of the vault *)

\* The registry's new entry is of one upload, or a mixture with a sealed one's
\* commitment.
LEMMA VaultRegister ==
  ASSUME ArtifactInv, SentInv, [Next]_vars, NEW v \in Verifies, RegisterEvm(v)
  PROVE  Abstract!VaultNext
<1>1. NetworkInv /\ TypeOK
  BY DEF ArtifactInv, NetworkInv, TypeInv
<1>2. UNCHANGED <<Sealed, Stored, Recovered, Tangled>>
  BY <1>1, SealedStays, RecoveredStays, TangledStays DEF RegisterEvm, Stored
<1>3. registered' = registered \cup {v} /\ CallOf(v)' = CallOf(v)
  BY DEF RegisterEvm, CallOf
<1>4. Vouched' = Vouched \cup {CallOf(v)}
  BY <1>3, VouchedStays DEF Vouched
<1>5. /\ job[v] # NoJob /\ EvmValidate(job[v].artifact.verifier_input)
      /\ IsOfUploads(job[v].artifact)
      /\ IsOfUpload(job[v].artifact) \/ Tangled
  BY DEF Tangled, TornRead, ArtifactInv, SubmittedAreOfUploads, RegisterEvm, SentInv, SentWereChecked
<1>6. ASSUME NEW u \in Savers
      PROVE  /\ EnvelopeOf(u) \in Envelopes /\ job[u].mode \in StorageModes
             /\ EnvelopeOf(u) \in Sealed
             /\ job[u].mode = "live" => EnvelopeOf(u) \in Stored
  <2>1. u \in Uploads /\ u \in userKeys /\ job[u] \in UploadJobs
    BY <1>1 DEF Savers, NetworkInv, ShownKeys
  <2>2. EnvelopeOf(u) \in Envelopes /\ job[u].mode \in StorageModes
    BY <2>1 DEF EnvelopeOf, Encrypt, Envelopes, UploadJobs, Keys
  <2>3. job[u].mode = "live" => EnvelopeOf(u) \in Stored
    BY ArtifactFields DEF Savers, Stored
  <2> QED BY <2>1, <2>2, <2>3 DEF Sealed
<1>7. CASE IsOfUpload(job[v].artifact)
  <2>1. PICK u \in Savers : CallOf(v) = EntryOf(EnvelopeOf(u), job[u].mode)
    BY <1>7, WholeArtifactsCall
  <2>2. PICK mine \in Envelopes, mode \in StorageModes :
          mine = EnvelopeOf(u) /\ mode = job[u].mode
    BY <1>6
  <2>3. Abstract!Vouch(mine, mode) /\ mine \in Sealed
    BY <1>2, <1>4, <1>6, <2>1, <2>2 DEF Abstract!Vouch, Stored, Vouched, Tangled
  <2> QED BY <2>2, <2>3 DEF Abstract!VaultNext
<1>8. CASE Tangled
  <2>1. PICK u \in Savers :
          job[v].artifact.verifier_input.proof_statement = Statement(EnvelopeOf(u))
    BY <1>5, CheckedProof
  <2>2. PICK mine \in Envelopes, mode \in StorageModes :
          mine = EnvelopeOf(u) /\ mode = job[u].mode
    BY <1>6
  <2>3. CallOf(v).state_commitment = EntryOf(mine, mode).state_commitment
    <3>1. UploadPayload(mine).state_commitment = Statement(mine).state_commitment
      BY ArtifactFields
    <3> QED BY <2>1, <2>2, <3>1 DEF CallOf, EntryOf
  <2>4. Abstract!VouchMixed(mine, mode) /\ mine \in Sealed
    BY <1>2, <1>4, <1>6, <1>8, <2>2, <2>3
       DEF Abstract!VouchMixed, Stored, Vouched, Tangled
  <2> QED BY <2>2, <2>4 DEF Abstract!VaultNext
<1> QED BY <1>5, <1>7, <1>8

\* Once artifacts have been mixed, they have been.
LEMMA TangledKept ==
  ASSUME RivalInv, UnstartedInv, [Next]_vars, Tangled
  PROVE  Tangled' = TRUE
<1>1. CASE Overlap
  BY <1>1, OverlapKept DEF Tangled
<1>2. CASE TornRead
  <2>1. PICK v \in Verifies : job[v] # NoJob /\ job[v].torn
    BY <1>2 DEF TornRead
  <2>2. v \in Processes /\ v \notin Downloads /\ TypeOK
    BY LifecycleAssumption DEF Processes, UnstartedInv, TypeInv
  <2>3. job'[v] = job[v]
    BY <2>1, <2>2, Kept DEF UnstartedInv
  <2> QED BY <2>1, <2>3 DEF Tangled, TornRead
<1> QED BY <1>1, <1>2 DEF Tangled

\* Most steps change nothing that the vault shows, but may mix artifacts.
LEMMA VaultRests ==
  ASSUME NetworkInv, RivalInv, SentInv, UnstartedInv, [Next]_vars,
         UNCHANGED <<userKeys, held, registered>>, \A x \in Decrypts : job'[x] = job[x]
  PROVE  Abstract!VaultNext \/ UNCHANGED VaultView
<1>1. UNCHANGED <<Sealed, Stored, Vouched, Recovered>>
  BY SealedStays, RecoveredStays, VouchedStays DEF Stored
<1>2. CASE Tangled' = Tangled
  BY <1>1, <1>2 DEF VaultView
<1>3. CASE Tangled' # Tangled
  <2>1. Tangled' = TRUE
    BY <1>3, TangledKept DEF Tangled
  <2>2. Abstract!Mix
    BY <1>1, <2>1 DEF Abstract!Mix, Stored, Vouched, Tangled
  <2> QED BY <2>2 DEF Abstract!VaultNext
<1> QED BY <1>2, <1>3

\* Every step of the commands, the network and the contract is a step of the
\* vault, or none.
LEMMA VaultStep ==
  ASSUME ArtifactInv, SentInv, SealedInv, SealedInv', UnstartedInv, [Next]_vars
  PROVE  [Abstract!VaultNext]_(Abstract!vaultVars)
<1> SUFFICES Abstract!VaultNext \/ UNCHANGED VaultView
  BY DEF Abstract!vaultVars, VaultView, Stored, Vouched, Tangled
<1>1. NetworkInv /\ RivalInv /\ TypeOK /\ TypeOK'
  BY DEF ArtifactInv, TextInv, SealedInv, NetworkInv, TypeInv
<1>2. held' = held => Stored' = Stored
  BY DEF Stored
<1>3. ASSUME NEW u \in Uploads, UploadStart(u) PROVE Abstract!VaultNext
  <2>1. \A i \in Decrypts \cup Verifies : job'[i] = job[i]
    BY <1>1, <1>3, LifecycleAssumption DEF UploadStart, Start, TypeOK, ProcessTypeOK, Processes
  <2>2. UNCHANGED <<Stored, Vouched, Recovered, Tangled>>
    BY <2>1, <1>1, <1>2, <1>3, RecoveredStays, VouchedStays, TangledStays DEF UploadStart
  <2>3. Abstract!Seal(EnvelopeOf(u)') /\ EnvelopeOf(u)' \in Envelopes
    BY <2>2, <1>1, <1>3, VaultSeal DEF Abstract!Seal, Stored, Vouched, Tangled
  <2> QED BY <2>3 DEF Abstract!VaultNext
<1>4. ASSUME NEW u \in Uploads, TransferLive(u)
      PROVE  Abstract!VaultNext \/ UNCHANGED VaultView
  <2>1. UNCHANGED <<Sealed, Vouched, Recovered, Tangled>>
    BY <1>1, <1>4, SealedStays, RecoveredStays, VouchedStays, TangledStays DEF TransferLive
  <2>2. EnvelopeOf(u) \in Sealed /\ EnvelopeOf(u) \in Envelopes
    <3>1. u \in userKeys /\ job[u] \in UploadJobs
      BY <1>1, <1>4 DEF TransferLive, NetworkInv, ShownKeys
    <3> QED BY <3>1 DEF Sealed, EnvelopeOf, Encrypt, Envelopes, UploadJobs, Keys
  <2>3. PICK mine \in Envelopes : mine = EnvelopeOf(u) /\ mine \in Sealed
    BY <2>2
  <2>4. Stored' = Stored \cup {mine}
    BY <2>3, <1>4, ArtifactFields DEF TransferLive, Stored
  <2>5. CASE mine \in Stored
    BY <2>1, <2>4, <2>5 DEF VaultView
  <2>6. CASE mine \notin Stored
    <3>1. Abstract!Store(mine)
      BY <2>1, <2>3, <2>4, <2>6 DEF Abstract!Store, Stored, Vouched, Tangled
    <3> QED BY <2>3, <3>1 DEF Abstract!VaultNext
  <2> QED BY <2>5, <2>6
<1>5. ASSUME NEW v \in Verifies, RegisterEvm(v) PROVE Abstract!VaultNext
  BY <1>5, VaultRegister
<1>6. ASSUME NEW x \in Decrypts, DecryptStart(x)
      PROVE  Abstract!VaultNext \/ UNCHANGED VaultView
  <2>1. UNCHANGED <<Sealed, Stored, Vouched, Tangled>>
    <3>1. \A v \in Verifies : job'[v] = job[v]
      BY <1>1, <1>6, LifecycleAssumption
         DEF DecryptStart, Start, TypeOK, ProcessTypeOK, Processes
    <3> QED BY <1>1, <1>2, <1>6, <3>1, SealedStays, VouchedStays, TangledStays DEF DecryptStart
  <2>2. /\ x \in Processes /\ pc[x] = "idle" /\ pc'[x] = "saving"
        /\ \A y \in Decrypts \ {x} : job'[y] = job[y]
    BY <1>1, <1>6 DEF DecryptStart, Start, Goto, TypeOK, ProcessTypeOK, Processes
  <2>3. job'[x] # NoJob
    BY <2>2, <1>1 DEF TypeOK, ProcessTypeOK
  <2>4. PICK opened \in Envelopes :
          /\ opened = Encrypt(job'[x].key, job'[x].msg, job'[x].aad)
          /\ opened \in Sealed
    <3>1. Encrypt(job'[x].key, job'[x].msg, job'[x].aad) \in Sealed
      BY <2>1, <2>3 DEF SealedInv, DecryptIsAuthentic
    <3>2. Encrypt(job'[x].key, job'[x].msg, job'[x].aad) \in Envelopes
      BY <2>3, <1>1 DEF TypeOK, ProcessTypeOK, DecryptJobs, Envelopes, Encrypt
    <3> QED BY <3>1, <3>2
  <2>5. Recovered' = Recovered \cup {opened}
    <3>1. job[x] = NoJob
      BY <2>2 DEF UnstartedInv
    <3> QED BY <2>2, <2>3, <2>4, <3>1 DEF Recovered
  <2>6. CASE opened \in Recovered
    BY <2>1, <2>5, <2>6 DEF VaultView
  <2>7. CASE opened \notin Recovered
    <3>1. Abstract!Recover(opened)
      BY <2>1, <2>4, <2>5, <2>7 DEF Abstract!Recover, Stored, Vouched, Tangled
    <3> QED BY <2>4, <3>1 DEF Abstract!VaultNext
  <2> QED BY <2>6, <2>7
<1>7. ASSUME UNCHANGED <<userKeys, held, registered>>, \A x \in Decrypts : job'[x] = job[x]
      PROVE  Abstract!VaultNext \/ UNCHANGED VaultView
  BY <1>1, <1>7, VaultRests
<1>8. ASSUME NEW u \in Uploads, StoreDryRun(u) \/ DispatchLive(u) \/ Pack(u) \/ SubmitLive(u)
      PROVE  Abstract!VaultNext \/ UNCHANGED VaultView
  BY <1>7, <1>8 DEF StoreDryRun, DispatchLive, Pack, SubmitLive
<1>9. ASSUME NEW v \in Verifies,
             \/ VerifyOpen(v) \/ VerifyStart(v) \/ SubmitMock(v)
             \/ SendEvm(v) \/ RevertEvm(v) \/ AnswerEvm(v)
      PROVE  Abstract!VaultNext \/ UNCHANGED VaultView
  <2>1. \A x \in Decrypts : job'[x] = job[x]
    BY <1>1, <1>9, LifecycleAssumption
       DEF VerifyOpen, VerifyStart, SubmitMock, SendEvm, RevertEvm, AnswerEvm, Start, TypeOK,
           ProcessTypeOK, Processes
  <2> QED BY <2>1, <1>7, <1>9
         DEF VerifyOpen, VerifyStart, SubmitMock, SendEvm, RevertEvm, AnswerEvm
<1>10. ASSUME NEW d \in Downloads, DownloadStart(d) \/ Fetch(d)
       PROVE  Abstract!VaultNext \/ UNCHANGED VaultView
  <2>1. \A x \in Decrypts : job'[x] = job[x]
    BY <1>1, <1>10, LifecycleAssumption
       DEF DownloadStart, Fetch, Start, TypeOK, ProcessTypeOK, Processes
  <2> QED BY <2>1, <1>7, <1>10 DEF DownloadStart, Fetch
<1>11. ASSUME NEW i \in Processes, Refuse(i)
       PROVE  Abstract!VaultNext \/ UNCHANGED VaultView
  <2>1. \A x \in Decrypts : job'[x] = job[x]
    BY <1>1, <1>11 DEF Refuse, Start, TypeOK, ProcessTypeOK, UnstartedInv, Processes
  <2> QED BY <2>1, <1>7, <1>11 DEF Refuse
<1>12. ASSUME NEW i \in Processes, GiveUp(i)
       PROVE  Abstract!VaultNext \/ UNCHANGED VaultView
  BY <1>7, <1>12 DEF GiveUp
<1>13. CASE UNCHANGED vars \/ \E payload \in held : Finalize(payload)
  BY <1>7, <1>13 DEF vars, Finalize
<1>14. ASSUME NEW i \in Writers, Saves(i)
       PROVE  Abstract!VaultNext \/ UNCHANGED VaultView
  BY <1>7, <1>14 DEF Saves, OpenOutput, Truncate, BeginWrite, EndWrite, Leave
<1> QED BY <1>3, <1>4, <1>5, <1>6, <1>8, <1>9, <1>10, <1>11, <1>12, <1>13, <1>14
        DEF Next, Saves

\* Whatever the modes and however files are mixed, the four commands keep the
\* promise of Vault.
THEOREM KeepsTheVault == Spec => ImplementsVault
<1>1. ArtifactInv /\ SentInv /\ SealedInv /\ SealedInv' /\ UnstartedInv /\ [Next]_vars
        => [Abstract!VaultNext]_(Abstract!vaultVars)
  BY VaultStep
<1> QED BY <1>1, VaultInitial, ArtifactInvariant, SentInvariant, SealedInvariant,
           UnstartedInvariant, PTL
        DEF Spec, ImplementsVault, Abstract!VaultSpec

-----------------------------------------------------------------------------
(* The storage service *)

\* What the uploads ask of the service, and what they tell their users.
RequestOf(u) ==
  IF IsLive(u) THEN [payload |-> UploadPayload(EnvelopeOf(u)), level |-> "TransactionPacked"]
  ELSE NoJob
ToldBy(u) ==
  CASE IsLive(u) /\ pc[u] = "done"   -> "stored"
    [] IsLive(u) /\ pc[u] \in {"failed", "lost", "torn"} -> "failed"
    [] OTHER -> "none"
Requested == [u \in Uploads |-> RequestOf(u)]
Told      == [u \in Uploads |-> ToldBy(u)]

\* Where an upload is when its user has been told how it ended.
Over == {"done", "failed", "lost", "torn"}

\* An upload without a live job asks for nothing; its job decides.
LEMMA Idling ==
  ASSUME \A u \in Uploads : job'[u] = job[u],
         \A u \in Uploads : IsLive(u) =>
           pc'[u] = pc[u] \/ (pc[u] \notin Over /\ pc'[u] \notin Over)
  PROVE  UNCHANGED <<Requested, Told>>
<1>1. ASSUME NEW u \in Uploads
      PROVE  RequestOf(u)' = RequestOf(u) /\ ToldBy(u)' = ToldBy(u)
  <2>1. EnvelopeOf(u)' = EnvelopeOf(u) /\ IsLive(u)' = IsLive(u)
    BY DEF EnvelopeOf, IsLive
  <2>2. RequestOf(u)' = RequestOf(u)
    BY <2>1 DEF RequestOf
  <2>3. ToldBy(u)' = ToldBy(u)
    <3>1. CASE IsLive(u)
      BY <2>1, <3>1 DEF ToldBy, Over
    <3>2. CASE ~IsLive(u)
      BY <2>1, <3>2 DEF ToldBy
    <3> QED BY <3>1, <3>2
  <2> QED BY <2>2, <2>3
<1> QED BY <1>1 DEF Requested, Told

\* What a live upload asks for is a payload of this protocol.
LEMMA LiveRequests ==
  ASSUME TypeOK, NEW u \in Uploads, IsLive(u)
  PROVE  /\ Requested[u] = [payload |-> UploadPayload(EnvelopeOf(u)),
                            level |-> "TransactionPacked"]
         /\ Requested[u] \in Service!Requests
         /\ Requested[u].payload = UploadPayload(EnvelopeOf(u))
         /\ Requested[u].level = "TransactionPacked"
         /\ UploadPayload(EnvelopeOf(u)) \in Payloads
<1>1. UploadPayload(EnvelopeOf(u)) \in Payloads
  BY PayloadType DEF IsLive
<1>2. Requested[u] = [payload |-> UploadPayload(EnvelopeOf(u)), level |-> "TransactionPacked"]
  BY DEF Requested, RequestOf
<1> QED BY <1>1, <1>2 DEF Service!Requests

\* The end of a live upload is its answer.
LEMMA UploadEnds ==
  ASSUME TypeOK, [Next]_vars, NEW u \in Uploads, IsLive(u), pc[u] \in Running,
         NEW label \in Over, Goto(u, label),
         UNCHANGED <<job, packed, held, final>>,
         label = "done" => UploadPayload(EnvelopeOf(u)) \in held
  PROVE  Service!ServiceNext
<1> DEFINE told == IF label = "done" THEN "stored" ELSE "failed"
<1>1. Requested' = Requested
  <2>1. \A w \in Uploads : RequestOf(w)' = RequestOf(w)
    BY DEF RequestOf, EnvelopeOf, IsLive
  <2> QED BY <2>1 DEF Requested
<1>2. Told[u] = "none" /\ Told' = [Told EXCEPT ![u] = told]
  <2>1. \A w \in Uploads : IsLive(w)' = IsLive(w)
    BY DEF IsLive
  <2>2. pc'[u] = label /\ \A w \in Uploads \ {u} : pc'[w] = pc[w]
    BY DEF TypeOK, ProcessTypeOK, Goto, Processes
  <2>3. ToldBy(u) = "none"
    BY DEF ToldBy, Running
  <2>4. ToldBy(u)' = told
    BY <2>1, <2>2 DEF ToldBy, Over
  <2>5. ASSUME NEW w \in Uploads \ {u} PROVE ToldBy(w)' = ToldBy(w)
    <3>1. CASE IsLive(w)
      BY <2>1, <2>2, <3>1 DEF ToldBy
    <3>2. CASE ~IsLive(w)
      BY <2>1, <3>2 DEF ToldBy
    <3> QED BY <3>1, <3>2
  <2> HIDE DEF told
  <2> QED BY <2>3, <2>4, <2>5 DEF Told
<1>3. Requested[u] \in Service!Requests
  BY LiveRequests
<1>4. told = "stored" => Service!Reached(Requested[u])
  <2>1. /\ Requested[u].level = "TransactionPacked"
        /\ Requested[u].payload = UploadPayload(EnvelopeOf(u))
    BY LiveRequests
  <2>2. told = "stored" => UploadPayload(EnvelopeOf(u)) \in held
    OBVIOUS
  <2> HIDE DEF told
  <2> QED BY <2>1, <2>2 DEF Service!Reached
<1>5. told \in {"stored", "failed"}
  OBVIOUS
<1> HIDE DEF told
<1>6. Service!Answer(u, told)
  BY <1>1, <1>2, <1>3, <1>4 DEF Service!Answer, Requested, Told, RequestOf, ToldBy
<1> QED BY <1>5, <1>6 DEF Service!ServiceNext

\* Every step of the commands and the network is a step of the service, or none.
LEMMA ServiceStep ==
  ASSUME NetworkInv, NetworkInv', UnstartedInv, [Next]_vars
  PROVE  [Service!ServiceNext]_(Service!serviceVars)
<1> SUFFICES Service!ServiceNext \/ UNCHANGED <<Requested, packed, held, final, Told>>
  BY DEF Service!serviceVars, Requested, Told, RequestOf, ToldBy
<1>1. TypeOK /\ TypeOK' /\ DOMAIN job = Processes /\ pc \in [Processes -> Labels]
  BY DEF NetworkInv, TypeInv, TypeOK, ProcessTypeOK
<1>2. ASSUME NEW u \in Uploads, UploadStart(u)
      PROVE  Service!ServiceNext \/ UNCHANGED <<Requested, packed, held, final, Told>>
  <2>1. PICK args :
          pc[u] = "idle" /\ Goto(u, "storing") /\ job' = [job EXCEPT ![u] = args]
    BY <1>2 DEF UploadStart, Start
  <2>2. /\ u \in Processes /\ job[u] = NoJob /\ job'[u] = args /\ pc'[u] = "storing"
        /\ \A w \in Uploads \ {u} : job'[w] = job[w] /\ pc'[w] = pc[w]
    BY <1>1, <2>1 DEF UnstartedInv, Processes, Goto
  <2>3. UNCHANGED <<packed, held, final>>
    BY <1>2 DEF UploadStart
  <2>4. RequestOf(u) = NoJob /\ ToldBy(u) = "none" /\ ToldBy(u)' = "none"
    BY <2>2 DEF RequestOf, ToldBy, IsLive
  <2>5. ASSUME NEW w \in Uploads \ {u}
        PROVE  RequestOf(w)' = RequestOf(w) /\ ToldBy(w)' = ToldBy(w)
    <3>1. EnvelopeOf(w)' = EnvelopeOf(w) /\ IsLive(w)' = IsLive(w)
      BY <2>2 DEF EnvelopeOf, IsLive
    <3>2. RequestOf(w)' = RequestOf(w)
      BY <3>1 DEF RequestOf
    <3>3. CASE IsLive(w)
      BY <2>2, <3>1, <3>2, <3>3 DEF ToldBy
    <3>4. CASE ~IsLive(w)
      BY <3>1, <3>2, <3>4 DEF ToldBy
    <3> QED BY <3>2, <3>3, <3>4
  <2>6. Told' = Told
    BY <2>4, <2>5 DEF Told
  <2>7. CASE IsLive(u)'
    <3>1. PICK r \in Service!Requests : r = RequestOf(u)'
      <4>1. EnvelopeOf(u)' \in Envelopes
        BY <1>2, VaultSeal
      <4>2. RequestOf(u)' = [payload |-> UploadPayload(EnvelopeOf(u)'),
                             level |-> "TransactionPacked"]
        BY <2>7 DEF RequestOf
      <4> QED BY <4>1, <4>2 DEF Service!Requests, Payloads
    <3>2. Requested' = [Requested EXCEPT ![u] = r]
      BY <2>5, <3>1 DEF Requested
    <3>3. Requested[u] = NoJob /\ Told[u] = "none"
      BY <2>4 DEF Requested, Told
    <3>4. Service!Ask(u, r)
      BY <2>3, <2>6, <3>2, <3>3 DEF Service!Ask, Requested, Told, RequestOf, ToldBy
    <3> QED BY <3>4 DEF Service!ServiceNext
  <2>8. CASE ~IsLive(u)'
    <3>1. RequestOf(u)' = NoJob
      BY <2>8 DEF RequestOf
    <3>2. Requested' = Requested
      BY <2>4, <2>5, <3>1 DEF Requested
    <3> QED BY <2>3, <2>6, <3>2
  <2> QED BY <2>7, <2>8
<1>3. ASSUME NEW u \in Uploads, Pack(u) PROVE Service!ServiceNext
  <2>1. IsLive(u)
    BY <1>3 DEF Pack, UnstartedInv
  <2>2. UNCHANGED <<Requested, Told>>
    BY <1>3, Idling DEF Pack
  <2>3. Service!Pack(u)
    BY <1>1, <1>3, <2>1, <2>2, LiveRequests
       DEF Pack, Service!Pack, Requested, Told, RequestOf, ToldBy
  <2> QED BY <2>3 DEF Service!ServiceNext
<1>4. ASSUME NEW u \in Uploads, TransferLive(u) PROVE Service!ServiceNext
  <2>1. job[u] # NoJob
    BY <1>1, <1>4, RunningHasJob DEF TransferLive, Processes
  <2>2. UNCHANGED <<Requested, Told>>
    BY <1>1, <1>4, Idling DEF TransferLive, Goto, Over
  <2>3. PICK p \in Payloads : p = UploadPayload(EnvelopeOf(u))
    BY <1>1, <2>1, PayloadType
  <2>4. p \in packed
    BY <1>4, <2>3 DEF TransferLive, NetworkInv, HeldIsPacked
  <2>5. Service!Hold(p)
    BY <1>4, <2>2, <2>3, <2>4
       DEF TransferLive, Service!Hold, Requested, Told, RequestOf, ToldBy
  <2> QED BY <2>5 DEF Service!ServiceNext
<1>5. ASSUME NEW payload \in held, Finalize(payload) PROVE Service!ServiceNext
  <2>1. UNCHANGED <<Requested, Told>>
    BY <1>5, Idling DEF Finalize
  <2>2. PICK p \in Payloads : p = payload
    BY <1>1 DEF TypeOK
  <2>3. Service!Finalize(p)
    BY <1>5, <2>1, <2>2 DEF Finalize, Service!Finalize, Requested, Told, RequestOf, ToldBy
  <2> QED BY <2>3 DEF Service!ServiceNext
<1>6. ASSUME NEW i \in Writers, EndWrite(i)
      PROVE  Service!ServiceNext \/ UNCHANGED <<Requested, packed, held, final, Told>>
  <2>1. /\ pc[i] = "writing" /\ Goto(i, "done")
        /\ UNCHANGED <<job, packed, held, final>>
    BY <1>6 DEF EndWrite, Leave
  <2>2. CASE i \in Uploads /\ IsLive(i)
    <3>1. UploadPayload(EnvelopeOf(i)) \in held
      BY <2>1, <2>2 DEF NetworkInv, SavingAreSavers, Savers, IsLive
    <3>2. pc[i] \in Running /\ "done" \in Over
      BY <2>1 DEF Running, Over
    <3> QED BY <1>1, <2>1, <2>2, <3>1, <3>2, UploadEnds
  <2>3. CASE ~(i \in Uploads /\ IsLive(i))
    <3>1. \A u \in Uploads : IsLive(u) => pc'[u] = pc[u]
      BY <1>1, <2>1, <2>3 DEF Goto
    <3>2. UNCHANGED <<Requested, Told>>
      BY <2>1, <3>1, Idling
    <3> QED BY <2>1, <3>2
  <2> QED BY <2>2, <2>3
<1>7. ASSUME NEW i \in Processes, GiveUp(i)
      PROVE  Service!ServiceNext \/ UNCHANGED <<Requested, packed, held, final, Told>>
  <2>1. PICK label \in {"failed", "lost", "torn"} :
          /\ pc[i] \in Running /\ Goto(i, label)
          /\ UNCHANGED <<job, packed, held, final>>
    BY <1>7 DEF GiveUp
  <2>2. CASE i \in Uploads /\ IsLive(i)
    <3>1. label \in Over /\ label # "done"
      BY DEF Over
    <3> QED BY <1>1, <2>1, <2>2, <3>1, UploadEnds
  <2>3. CASE ~(i \in Uploads /\ IsLive(i))
    <3>1. \A u \in Uploads : IsLive(u) => pc'[u] = pc[u]
      BY <1>1, <2>1, <2>3 DEF Goto
    <3>2. UNCHANGED <<Requested, Told>>
      BY <2>1, <3>1, Idling
    <3> QED BY <2>1, <3>2
  <2> QED BY <2>2, <2>3
<1>8. ASSUME NEW i \in Processes, Refuse(i)
      PROVE  UNCHANGED <<Requested, packed, held, final, Told>>
  <2>1. /\ pc[i] = "idle" /\ Goto(i, "failed") /\ job' = [job EXCEPT ![i] = NoJob]
        /\ UNCHANGED <<packed, held, final>>
    BY <1>8 DEF Refuse, Start
  <2>2. job[i] = NoJob
    BY <2>1 DEF UnstartedInv
  <2>3. \A u \in Uploads : job'[u] = job[u] /\ (IsLive(u) => pc'[u] = pc[u])
    BY <1>1, <2>1, <2>2 DEF Goto, IsLive, Processes
  <2> QED BY <2>1, <2>3, Idling
<1>9. ASSUME NEW i \in Processes,
             StoreDryRun(i) \/ DispatchLive(i) \/ SubmitLive(i) \/ OpenOutput(i) \/ BeginWrite(i)
      PROVE  UNCHANGED <<Requested, packed, held, final, Told>>
  <2>1. UNCHANGED <<job, packed, held, final>>
    BY <1>9 DEF StoreDryRun, DispatchLive, SubmitLive, OpenOutput, Truncate, BeginWrite, Leave
  <2>2. \E label \in {"saving", "dispatched", "submitted", "opened", "writing"} :
          pc[i] \in Running /\ Goto(i, label)
    BY <1>9 DEF StoreDryRun, DispatchLive, SubmitLive, OpenOutput, Truncate, BeginWrite, Running
  <2>3. \A u \in Uploads :
          pc'[u] = pc[u] \/ (pc[u] \notin Over /\ pc'[u] \notin Over)
    BY <1>1, <2>2 DEF Goto, Processes, Running, Over
  <2> QED BY <2>1, <2>3, Idling
<1>10. ASSUME NEW v \in Verifies,
              VerifyOpen(v) \/ VerifyStart(v) \/ SubmitMock(v) \/ SendEvm(v) \/ AnswerEvm(v)
       PROVE  UNCHANGED <<Requested, packed, held, final, Told>>
  <2>1. Alone(v)
    BY <1>1, <1>10, MovesAlone DEF VerifyMoves
  <2>2. \A u \in Uploads : job'[u] = job[u] /\ pc'[u] = pc[u]
    BY <2>1, LifecycleAssumption DEF Alone, Processes
  <2> QED BY <1>10, <2>2, Idling DEF VerifyOpen, VerifyStart, SubmitMock, SendEvm, AnswerEvm
<1>11. ASSUME NEW d \in Downloads, DownloadStart(d) \/ Fetch(d)
       PROVE  UNCHANGED <<Requested, packed, held, final, Told>>
  <2>1. Alone(d)
    BY <1>1, <1>11, MovesAlone DEF DownloadMoves
  <2>2. \A u \in Uploads : job'[u] = job[u] /\ pc'[u] = pc[u]
    BY <2>1, LifecycleAssumption DEF Alone, Processes
  <2> QED BY <1>11, <2>2, Idling DEF DownloadStart, Fetch
<1>12. ASSUME NEW x \in Decrypts, DecryptStart(x)
       PROVE  UNCHANGED <<Requested, packed, held, final, Told>>
  <2>1. Alone(x)
    BY <1>1, <1>12, MovesAlone DEF DecryptMoves
  <2>2. \A u \in Uploads : job'[u] = job[u] /\ pc'[u] = pc[u]
    BY <2>1, LifecycleAssumption DEF Alone, Processes
  <2> QED BY <1>12, <2>2, Idling DEF DecryptStart
<1>13. ASSUME NEW v \in Verifies, RegisterEvm(v) \/ RevertEvm(v)
       PROVE  UNCHANGED <<Requested, packed, held, final, Told>>
  BY <1>13, Idling DEF RegisterEvm, RevertEvm
<1>14. CASE UNCHANGED vars
  BY <1>14, Idling DEF vars
<1> QED BY <1>2, <1>3, <1>4, <1>5, <1>6, <1>7, <1>8, <1>9, <1>10, <1>11, <1>12, <1>13, <1>14
        DEF Next, Writers, Processes

\* A live upload that ends well is stored, as the service promises its callers,
\* and one that fails may be, also later; nothing is held that was not packed.
THEOREM KeepsTheService == Spec => ImplementsService
<1>1. Init => Service!ServiceInit
  <2> SUFFICES ASSUME Init PROVE Service!ServiceInit
    OBVIOUS
  <2>1. \A u \in Uploads : RequestOf(u) = NoJob /\ ToldBy(u) = "none"
    BY DEF Init, RequestOf, ToldBy, IsLive, Processes
  <2>2. \A u \in Uploads : Requested[u] = NoJob /\ Told[u] = "none"
    BY <2>1 DEF Requested, Told
  <2>3. Requested \in [Uploads -> Service!Requests \cup {NoJob}]
        /\ Told = [u \in Uploads |-> "none"]
    BY <2>2 DEF Requested, Told
  <2> QED BY <2>3 DEF Init, Service!ServiceInit, Requested, Told, RequestOf, ToldBy
<1>2. NetworkInv /\ NetworkInv' /\ UnstartedInv /\ [Next]_vars
        => [Service!ServiceNext]_(Service!serviceVars)
  BY ServiceStep
<1> QED BY <1>1, <1>2, NetworkInvariant, UnstartedInvariant, PTL
        DEF Spec, ImplementsService, Service!ServiceSpec
=============================================================================
