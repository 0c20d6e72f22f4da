--------------------------- MODULE LifecycleProofs --------------------------
(* Proofs about Lifecycle, for any number of processes, files, messages and *)
(* associated data.                                                         *)
EXTENDS Lifecycle, TLAPS

USE DEF disk, network, mined

-----------------------------------------------------------------------------
(* Data *)

\* The formats of the contents of a file are told apart by their first field.
LEMMA Formats ==
  ASSUME NEW c \in Contents
  PROVE  /\ c.fmt \in {"bytes", "part"} => c.msg \in Messages
         /\ c.fmt = "part" => c.writer \in Writers /\ c = Part(c.writer)
         /\ c.fmt = "artifact" => c \in Artifacts
         /\ HoldsEnvelope(c) => c.encrypted_blob \in Envelopes
<1>1. CASE c = Absent
  BY <1>1 DEF Absent, HoldsEnvelope
<1>2. CASE \E m \in Messages : c = Bytes(m)
  BY <1>2 DEF Bytes, HoldsEnvelope
<1>3. CASE \E e \in Envelopes : c = UploadPayload(e)
  BY <1>3 DEF UploadPayload, HoldsEnvelope
<1>4. CASE \E e \in Envelopes : c = RawEnvelope(e)
  BY <1>4 DEF RawEnvelope, HoldsEnvelope
<1>5. CASE c \in Artifacts
  <2>1. c.fmt = "artifact"
    BY <1>5 DEF Artifacts
  <2> QED BY <2>1, <1>5 DEF HoldsEnvelope
<1>6. CASE \E i \in Writers : c = Part(i)
  BY <1>6 DEF Part, HoldsEnvelope, Messages
<1> QED BY <1>1, <1>2, <1>3, <1>4, <1>5, <1>6 DEF Contents, Payloads

\* What an artifact says of the upload it comes from.
LEMMA ArtifactFields ==
  ASSUME NEW e, NEW mode
  PROVE  /\ Artifact(e, mode).fmt = "artifact" /\ Artifact(e, mode).version = 1
         /\ Artifact(e, mode).storage_mode = mode
         /\ Artifact(e, mode).upload_receipt.merkle_root = ReceiptRoot(e, mode)
         /\ Artifact(e, mode).upload_receipt.state_commitment = Statement(e).state_commitment
         /\ Artifact(e, mode).verifier_input.merkle_root = ReceiptRoot(e, mode)
         /\ Artifact(e, mode).verifier_input.proof_statement = Statement(e)
         /\ Artifact(e, mode).verifier_input.proof = Prove(Statement(e))
         /\ UploadPayload(e).state_commitment = Statement(e).state_commitment
         /\ UploadPayload(e).encrypted_blob = e
BY DEF Artifact, ArtifactOf, UploadPayload

\* What an upload saves is an artifact.
LEMMA ArtifactType ==
  ASSUME NEW e \in Envelopes, NEW mode \in StorageModes
  PROVE  Artifact(e, mode) \in Artifacts
<1> DEFINE root == ReceiptRoot(e, mode)
           statement == Statement(e)
<1>1. root \in Roots
  BY DEF Roots
<1>2. statement \in Statements
  BY DEF Statements
<1>3. statement.state_commitment \in Commitments
  BY DEF Statement, Commitments
<1>4. Artifact(e, mode) = ArtifactOf(mode, root, statement.state_commitment,
                                     statement, Prove(statement), root)
  BY DEF Artifact
<1> HIDE DEF root, statement
<1> QED BY <1>1, <1>2, <1>3, <1>4 DEF ArtifactOf, Artifacts

\* Every part of a mixture of two artifacts is a part of one of them, or is
\* itself a mixture of two digests.
PartsOf(c, a, b) ==
  /\ c.upload_receipt.merkle_root
       \in {a.upload_receipt.merkle_root, b.upload_receipt.merkle_root, Hex(MixedBytes32)}
  /\ c.upload_receipt.state_commitment
       \in {a.upload_receipt.state_commitment, b.upload_receipt.state_commitment, MixedBytes32}
  /\ c.verifier_input.proof_statement
       \in {a.verifier_input.proof_statement, b.verifier_input.proof_statement}
  /\ c.verifier_input.proof \in {a.verifier_input.proof, b.verifier_input.proof}
  /\ c.verifier_input.merkle_root
       \in {a.verifier_input.merkle_root, b.verifier_input.merkle_root, Hex(MixedBytes32)}

LEMMA Spliced ==
  ASSUME NEW a \in Artifacts, NEW b \in Artifacts, NEW c \in Splices(a, b)
  PROVE  c \in Artifacts /\ PartsOf(c, a, b)
<1> DEFINE Of(mode, root, commitment, statement, proof, inputRoot) ==
             ArtifactOf(mode, root, commitment, statement, proof, inputRoot)
<1>1. ASSUME NEW mode \in StorageModes, NEW root \in Roots, NEW commitment \in Commitments,
             NEW statement \in Statements, NEW proof \in {Prove(s) : s \in Statements},
             NEW inputRoot \in Roots
      PROVE  /\ Of(mode, root, commitment, statement, proof, inputRoot) \in Artifacts
             /\ Of(mode, root, commitment, statement, proof, inputRoot).upload_receipt.merkle_root = root
             /\ Of(mode, root, commitment, statement, proof, inputRoot).upload_receipt.state_commitment = commitment
             /\ Of(mode, root, commitment, statement, proof, inputRoot).verifier_input.proof_statement = statement
             /\ Of(mode, root, commitment, statement, proof, inputRoot).verifier_input.proof = proof
             /\ Of(mode, root, commitment, statement, proof, inputRoot).verifier_input.merkle_root = inputRoot
  BY DEF Artifacts, ArtifactOf
<1>2. Hex(MixedBytes32) \in Roots /\ MixedBytes32 \in Commitments
  BY DEF Roots, Commitments
<1>3. \A d \in {a, b} :
        /\ d.storage_mode \in StorageModes
        /\ d.upload_receipt.merkle_root \in Roots
        /\ d.upload_receipt.state_commitment \in Commitments
        /\ d.verifier_input.proof_statement \in Statements
        /\ d.verifier_input.proof \in {Prove(s) : s \in Statements}
        /\ d.verifier_input.merkle_root \in Roots
  BY DEF Artifacts
<1> DEFINE r == a.upload_receipt
           i == a.verifier_input
           s == b.upload_receipt
           j == b.verifier_input
           m == a.storage_mode
           mixed == Hex(MixedBytes32)
<1>4. \/ c = a \/ c = b
      \/ c = Of(m, s.merkle_root, s.state_commitment, j.proof_statement, j.proof, j.merkle_root)
      \/ c = Of(m, mixed, s.state_commitment, j.proof_statement, j.proof, j.merkle_root)
      \/ c = Of(m, r.merkle_root, s.state_commitment, j.proof_statement, j.proof, j.merkle_root)
      \/ c = Of(m, r.merkle_root, MixedBytes32, j.proof_statement, j.proof, j.merkle_root)
      \/ c = Of(m, r.merkle_root, r.state_commitment, j.proof_statement, j.proof, j.merkle_root)
      \/ c = Of(m, r.merkle_root, r.state_commitment, i.proof_statement, j.proof, j.merkle_root)
      \/ c = Of(m, r.merkle_root, r.state_commitment, i.proof_statement, i.proof, j.merkle_root)
      \/ c = Of(m, r.merkle_root, r.state_commitment, i.proof_statement, i.proof, mixed)
  BY DEF Splices
<1> HIDE DEF Of
<1> QED BY <1>1, <1>2, <1>3, <1>4 DEF PartsOf

\* Only two artifacts mix to anything, and they mix to artifacts.
LEMMA Mixed ==
  ASSUME NEW a \in Contents, NEW b \in Contents, NEW c \in Mixtures(a, b)
  PROVE  /\ a \in Artifacts /\ b \in Artifacts /\ a.fmt = "artifact" /\ b.fmt = "artifact"
         /\ c \in Artifacts /\ c.fmt = "artifact" /\ PartsOf(c, a, b)
<1>1. a.fmt = "artifact" /\ b.fmt = "artifact" /\ c \in Splices(a, b)
  BY DEF Mixtures
<1>2. a \in Artifacts /\ b \in Artifacts
  BY <1>1, Formats
<1>3. c \in Artifacts /\ PartsOf(c, a, b)
  BY <1>1, <1>2, Spliced
<1>4. c.fmt = "artifact"
  BY <1>3 DEF Artifacts
<1> QED BY <1>1, <1>2, <1>3, <1>4

\* What can be saved is a file's contents, and each kind of process saves its
\* own kind of output.
LEMMA Outputs ==
  ASSUME TypeOK, NEW i \in Writers, job[i] # NoJob
  PROVE  /\ Output(i) \in Contents /\ Output(i).fmt # "part"
         /\ job[i].out \in Files
         /\ i \in Uploads => Output(i) = Artifact(EnvelopeOf(i), job[i].mode)
         /\ i \in Downloads => Output(i) = job[i].reply
         /\ i \in Decrypts => Output(i) = Bytes(job[i].msg)
         /\ Output(i).fmt = "artifact" => i \in Uploads
<1>1. CASE i \in Uploads
  <2>1. job[i] \in UploadJobs
    BY <1>1 DEF TypeOK, ProcessTypeOK
  <2>2. Output(i) = Artifact(EnvelopeOf(i), job[i].mode)
    BY <1>1, LifecycleAssumption DEF Output
  <2>3. EnvelopeOf(i) \in Envelopes
    BY <1>1, <2>1 DEF EnvelopeOf, Encrypt, Envelopes, UploadJobs, Keys
  <2>4. job[i].mode \in StorageModes /\ job[i].out \in Files
    BY <2>1 DEF UploadJobs
  <2>5. Output(i) \in Artifacts
    BY <2>2, <2>3, <2>4, ArtifactType
  <2>6. Output(i).fmt = "artifact"
    BY <2>5 DEF Artifacts
  <2> QED
    BY <1>1, <2>2, <2>4, <2>5, <2>6, LifecycleAssumption DEF Contents
<1>2. CASE i \in Downloads
  <2>1. job[i] \in DownloadJobs
    BY <1>2 DEF TypeOK, ProcessTypeOK
  <2>2. Output(i) = job[i].reply
    BY <1>2, LifecycleAssumption DEF Output
  <2>3. job[i].reply \in {Absent, Bytes(Garbled)} \cup Payloads
                            \cup {RawEnvelope(e) : e \in Envelopes}
    BY <2>1 DEF DownloadJobs
  <2>4. job[i].reply.fmt \notin {"part", "artifact"}
    BY <2>3 DEF Absent, Bytes, Payloads, UploadPayload, RawEnvelope
  <2>5. job[i].reply \in Contents
    BY <2>3 DEF Contents, Messages
  <2>6. job[i].out \in Files
    BY <2>1 DEF DownloadJobs
  <2> QED BY <1>2, <2>2, <2>4, <2>5, <2>6, LifecycleAssumption
<1>3. CASE i \in Decrypts
  <2>1. job[i] \in DecryptJobs
    BY <1>3 DEF TypeOK, ProcessTypeOK
  <2>2. Output(i) = Bytes(job[i].msg)
    BY <1>3, LifecycleAssumption DEF Output
  <2>3. job[i].msg \in Messages /\ job[i].out \in Files
    BY <2>1 DEF DecryptJobs
  <2>4. Bytes(job[i].msg).fmt = "bytes"
    BY DEF Bytes
  <2>5. Bytes(job[i].msg) \in Contents
    BY <2>3 DEF Contents
  <2> QED BY <1>3, <2>2, <2>3, <2>4, <2>5, LifecycleAssumption
<1> QED BY <1>1, <1>2, <1>3 DEF Writers

-----------------------------------------------------------------------------
(* Type correctness *)

\* A process past its start has a job; one that has not started has not failed.
LEMMA RunningHasJob ==
  ASSUME TypeOK, NEW i \in Processes, pc[i] \notin {"idle", "failed"}
  PROVE  job[i] # NoJob
BY DEF TypeOK, ProcessTypeOK

\* Steps that move one process on and leave its job alone.
LEMMA GotoType ==
  ASSUME TypeOK, NEW i \in Processes, NEW label \in Labels,
         Goto(i, label), job' = job,
         label \notin {"idle", "failed"} => job[i] # NoJob
  PROVE  ProcessTypeOK'
BY DEF TypeOK, ProcessTypeOK, Goto

\* Steps that start a process, or give one of a kind a job of that kind.
LEMMA StartType ==
  ASSUME TypeOK, NEW i \in Processes, NEW label \in Labels, NEW args,
         Goto(i, label), job' = [job EXCEPT ![i] = args],
         i \in Uploads => args \in UploadJobs \cup {NoJob},
         i \in Verifies => args \in VerifyJobs \cup {NoJob},
         i \in Downloads => args \in DownloadJobs \cup {NoJob},
         i \in Decrypts => args \in DecryptJobs \cup {NoJob},
         label \notin {"idle", "failed"} => args # NoJob
  PROVE  ProcessTypeOK'
<1>1. \A j \in Processes : job'[j] = IF j = i THEN args ELSE job[j]
  BY DEF TypeOK, ProcessTypeOK
<1>2. \A j \in Processes : pc'[j] = IF j = i THEN label ELSE pc[j]
  BY DEF TypeOK, ProcessTypeOK, Goto
<1>3. pc' \in [Processes -> Labels] /\ DOMAIN job' = Processes
  BY DEF TypeOK, ProcessTypeOK, Goto
<1>4. \A u \in Uploads : job'[u] \in UploadJobs \cup {NoJob}
  BY <1>1 DEF TypeOK, ProcessTypeOK, Processes
<1>5. \A v \in Verifies : job'[v] \in VerifyJobs \cup {NoJob}
  BY <1>1 DEF TypeOK, ProcessTypeOK, Processes
<1>6. \A d \in Downloads : job'[d] \in DownloadJobs \cup {NoJob}
  BY <1>1 DEF TypeOK, ProcessTypeOK, Processes
<1>7. \A x \in Decrypts : job'[x] \in DecryptJobs \cup {NoJob}
  BY <1>1 DEF TypeOK, ProcessTypeOK, Processes
<1>8. \A j \in Processes : job'[j] = NoJob => pc'[j] \in {"idle", "failed"}
  BY <1>1, <1>2 DEF TypeOK, ProcessTypeOK
<1> QED BY <1>3, <1>4, <1>5, <1>6, <1>7, <1>8 DEF ProcessTypeOK

\* What UploadStart, VerifyStart, DownloadStart and DecryptStart keep.
LEMMA JobTypes ==
  ASSUME TypeOK
  PROVE  /\ \A src, out \in Files, aad \in Aads, mode \in StorageModes :
              file[src].fmt \in {"bytes", "part"} =>
                [msg |-> file[src].msg, aad |-> aad, out |-> out, mode |-> mode]
                  \in UploadJobs
         /\ \A artifact \in Artifacts, mode \in VerifierModes, torn \in BOOLEAN :
              [artifact |-> artifact, mode |-> mode, torn |-> torn] \in VerifyJobs
         /\ \A src, out \in Files :
              file[src].fmt = "artifact" =>
                [root |-> file[src].upload_receipt.merkle_root,
                 out |-> out, reply |-> Absent] \in DownloadJobs
         /\ \A src, out \in Files, key \in userKeys, aad \in Aads :
              HoldsEnvelope(file[src]) =>
                [key |-> key, aad |-> aad, out |-> out,
                 msg |-> file[src].encrypted_blob.msg] \in DecryptJobs
<1>1. \A src \in Files : file[src] \in Contents
  BY DEF TypeOK
<1>2. \A src \in Files : file[src].fmt \in {"bytes", "part"} => file[src].msg \in Messages
  BY <1>1, Formats
<1>3. \A src \in Files : file[src].fmt = "artifact" =>
        file[src] \in Artifacts /\ file[src].upload_receipt.merkle_root \in Roots
  BY <1>1, Formats DEF Artifacts
<1>4. \A src \in Files : HoldsEnvelope(file[src]) =>
        file[src].encrypted_blob \in Envelopes
  BY <1>1, Formats
<1>5. userKeys \subseteq Keys
  BY DEF TypeOK
<1> QED BY <1>2, <1>3, <1>4, <1>5
        DEF UploadJobs, VerifyJobs, DownloadJobs, DecryptJobs, Envelopes

\* What the users of the crypto crate seal is an envelope.
LEMMA LibraryType == LibraryEnvelopes \subseteq Envelopes
<1> SUFFICES ASSUME NEW e \in LibraryEnvelopes PROVE e \in Envelopes
  OBVIOUS
<1>1. /\ e = Encrypt(e.key, e.msg, e.aad)
      /\ e.msg \in Messages /\ e.aad \in Aads /\ e.key \in Keys
  BY LifecycleAssumption DEF Messages, Keys, LibraryKeys
<1> QED BY <1>1 DEF Encrypt, Envelopes

\* A node answers with the data of some envelope, or with bytes of no use.
LEMMA BodyTypes ==
  ASSUME TypeOK, NEW reply \in Bodies
  PROVE  /\ reply \in {Bytes(Garbled)} \cup Payloads \cup {RawEnvelope(e) : e \in Envelopes}
         /\ HoldsEnvelope(reply) =>
              reply.encrypted_blob \in LibraryEnvelopes \cup {p.encrypted_blob : p \in final}
<1>1. \A p \in final : p.encrypted_blob \in Envelopes
  BY DEF TypeOK, Payloads, UploadPayload
<1>2. LibraryEnvelopes \cup {p.encrypted_blob : p \in final} \subseteq Envelopes
  BY <1>1, LibraryType
<1>3. CASE reply = Bytes(Garbled)
  BY <1>3 DEF Bytes, HoldsEnvelope
<1>4. CASE \E e \in LibraryEnvelopes \cup {p.encrypted_blob : p \in final} :
             reply \in {UploadPayload(e), RawEnvelope(e)}
  BY <1>2, <1>4 DEF Payloads, UploadPayload, RawEnvelope
<1> QED BY <1>3, <1>4 DEF Bodies

\* The files and processes before the first command have their types.
LEMMA TypeInit == Init => TypeOK /\ PartsHaveWriters
<1> SUFFICES ASSUME Init PROVE TypeOK /\ PartsHaveWriters
  OBVIOUS
<1>1. file \in [Files -> Contents]
  BY LibraryType DEF Init, Contents, Messages
<1>2. ProcessTypeOK
  BY DEF Init, ProcessTypeOK, Labels, Processes
<1>3. \A f \in Files : file[f].fmt # "part"
  BY DEF Init, Absent, Bytes, RawEnvelope
<1> QED BY <1>1, <1>2, <1>3 DEF Init, TypeOK, Keys, PartsHaveWriters

\* The network's part of TypeOK is about the payloads of uploads in progress.
LEMMA PayloadType ==
  ASSUME TypeOK, NEW u \in Uploads, job[u] # NoJob
  PROVE  UploadPayload(EnvelopeOf(u)) \in Payloads /\ EnvelopeOf(u) \in Envelopes
<1>1. job[u] \in UploadJobs
  BY DEF TypeOK, ProcessTypeOK
<1>2. EnvelopeOf(u) \in Envelopes
  BY <1>1 DEF EnvelopeOf, Encrypt, Envelopes, UploadJobs, Keys
<1> QED BY <1>2 DEF Payloads

\* The text that a part belongs to is a file's contents.
LEMMA TextType ==
  ASSUME TypeOK, PartsHaveWriters, NEW f \in Files
  PROVE  /\ TextOf(file[f]) \in Contents
         /\ file[f].fmt = "part" =>
              LET j == file[f].writer
              IN  j \in Writers /\ job[j] # NoJob /\ TextOf(file[f]) = Output(j)
<1>1. file[f] \in Contents
  BY DEF TypeOK
<1> QED BY <1>1, Formats, Outputs DEF TextOf, PartsHaveWriters

\* What the steps of a save leave at the path: nothing but artifacts, the
\* output or a part of it, and bytes of no use.
LEMMA SavedTexts ==
  ASSUME TypeOK, PartsHaveWriters, NEW i \in Writers, job[i] # NoJob
  PROVE  LET f == job[i].out
         IN  /\ f \in Files
             /\ BeginWrite(i) => \E text \in Contents :
                  /\ file' = [file EXCEPT ![f] = text]
                  /\ \/ text = Part(i) \/ text = Bytes(Garbled)
                     \/ text.fmt = "artifact" /\ text \in Mixtures(Output(i), file[f])
             /\ EndWrite(i) => \E text \in Contents :
                  /\ file' = [file EXCEPT ![f] = text]
                  /\ \/ text = Output(i) \/ text = Bytes(Garbled)
                     \/ /\ text.fmt = "artifact" /\ text \in Mixtures(TextOf(file[f]), Output(i))
                        /\ file[f] # Part(i)
<1>1. job[i].out \in Files /\ Output(i) \in Contents
  BY Outputs
<1>2. file[job[i].out] \in Contents /\ TextOf(file[job[i].out]) \in Contents
  BY <1>1, TextType DEF TypeOK
<1>3. Part(i) \in Contents /\ Bytes(Garbled) \in Contents
  BY DEF Contents, Messages
<1>4. \A text \in Mixtures(Output(i), file[job[i].out]) \cup Mixtures(TextOf(file[job[i].out]), Output(i)) :
        text \in Contents /\ text.fmt = "artifact"
  BY <1>1, <1>2, Mixed DEF Contents
<1>5. ASSUME BeginWrite(i)
      PROVE  \E text \in Contents :
               /\ file' = [file EXCEPT ![job[i].out] = text]
               /\ \/ text = Part(i) \/ text = Bytes(Garbled)
                  \/ text.fmt = "artifact" /\ text \in Mixtures(Output(i), file[job[i].out])
  <2>1. PICK text \in {Part(i), Bytes(Garbled)} \cup Mixtures(Output(i), file[job[i].out]) :
          file' = [file EXCEPT ![job[i].out] = text]
    BY <1>5 DEF BeginWrite, Leave
  <2> QED BY <2>1, <1>3, <1>4
<1>6. ASSUME EndWrite(i)
      PROVE  \E text \in Contents :
               /\ file' = [file EXCEPT ![job[i].out] = text]
               /\ \/ text = Output(i) \/ text = Bytes(Garbled)
                  \/ /\ text.fmt = "artifact" /\ text \in Mixtures(TextOf(file[job[i].out]), Output(i))
                     /\ file[job[i].out] # Part(i)
  <2>1. PICK text \in {Output(i), Bytes(Garbled)} \cup Mixtures(TextOf(file[job[i].out]), Output(i)) :
          /\ file' = [file EXCEPT ![job[i].out] = text]
          /\ file[job[i].out] = Part(i) => text = Output(i)
    BY <1>6 DEF EndWrite, Leave
  <2> QED BY <2>1, <1>1, <1>3, <1>4
<1> QED BY <1>1, <1>5, <1>6

\* What a verify may have at the end of its read: the artifact that it began, or
\* one that it has mixed with what is there now.
LEMMA Read ==
  ASSUME TypeOK, NEW v \in Verifies, VerifyStart(v)
  PROVE  /\ reading[v] \in Readings
         /\ \E artifact \in Artifacts, mode \in VerifierModes, torn \in BOOLEAN :
              /\ Start(v, "submitting", [artifact |-> artifact, mode |-> mode, torn |-> torn])
              /\ \/ artifact = reading[v].text
                 \/ /\ file[reading[v].src].fmt = "artifact"
                    /\ PartsOf(artifact, reading[v].text, file[reading[v].src])
                    /\ torn \/ artifact = file[reading[v].src]
<1> DEFINE head == reading[v].text
           tail == file[reading[v].src]
           texts == {t \in {head} : reading[v].whole \/ tail = head}
                      \cup IF tail = head THEN {} ELSE Mixtures(head, tail)
<1>1. reading[v] \in Readings
  BY DEF VerifyStart, TypeOK
<1>2. head \in Contents /\ tail \in Contents /\ head \in Artifacts
  BY <1>1 DEF Readings, TypeOK, Contents
<1>3. \E artifact \in texts, mode \in VerifierModes :
        /\ ValidateArtifact(artifact)
        /\ Start(v, "submitting",
                 [artifact |-> artifact, mode |-> mode, torn |-> artifact \notin {head, tail}])
  BY Zenon DEF VerifyStart
<1>4. \A artifact \in texts : artifact = head \/ artifact \in Mixtures(head, tail)
  OBVIOUS
<1> HIDE DEF head, tail, texts
<1>5. PICK artifact \in texts, mode \in VerifierModes :
        Start(v, "submitting",
              [artifact |-> artifact, mode |-> mode, torn |-> artifact \notin {head, tail}])
  BY <1>3
<1>6. /\ artifact \in Artifacts
      /\ artifact = head \/ (tail.fmt = "artifact" /\ PartsOf(artifact, head, tail))
  BY <1>2, <1>4, Mixed
<1>7. PICK torn \in BOOLEAN : torn = (artifact \notin {head, tail})
  OBVIOUS
<1>8. artifact = head \/ torn \/ artifact = tail
  BY <1>7
<1>9. Start(v, "submitting", [artifact |-> artifact, mode |-> mode, torn |-> torn])
  BY <1>5, <1>7
<1>10. /\ artifact = head \/ (tail.fmt = "artifact" /\ PartsOf(artifact, head, tail))
       /\ artifact = head \/ torn \/ artifact = tail
  BY <1>6, <1>8
<1>11. /\ head = reading[v].text
       /\ tail = file[reading[v].src]
  BY DEF head, tail
<1>12. /\ artifact \in Artifacts /\ mode \in VerifierModes /\ torn \in BOOLEAN
  BY <1>5, <1>6, <1>7
<1> QED BY Zenon, <1>1, <1>9, <1>10, <1>11, <1>12

\* Every step of every command preserves the types.
LEMMA TypeStep == TypeOK /\ PartsHaveWriters /\ [Next]_vars => TypeOK'
<1> SUFFICES ASSUME TypeOK, PartsHaveWriters, [Next]_vars PROVE TypeOK'
  OBVIOUS
<1>1. ASSUME NEW u \in Uploads, UploadStart(u) PROVE TypeOK'
  <2>1. PICK src \in Files, out \in Files, aad \in Aads, mode \in StorageModes :
          /\ file[src].fmt \in {"bytes", "part"}
          /\ Start(u, "storing", [msg |-> file[src].msg, aad |-> aad,
                                  out |-> out, mode |-> mode])
    BY <1>1 DEF UploadStart
  <2> DEFINE args == [msg |-> file[src].msg, aad |-> aad, out |-> out, mode |-> mode]
  <2>2. args \in UploadJobs
    BY <2>1, JobTypes
  <2>3. u \in Processes /\ u \notin Verifies \cup Downloads \cup Decrypts
    BY LifecycleAssumption DEF Processes
  <2>4. "storing" \in Labels /\ args # NoJob
    BY <2>2, LifecycleAssumption DEF Labels, Running
  <2> HIDE DEF args
  <2>5. ProcessTypeOK'
    BY <2>1, <2>2, <2>3, <2>4, StartType DEF Start, args
  <2>6. userKeys' \subseteq Keys
    BY <1>1 DEF UploadStart, TypeOK, Keys
  <2> QED BY <1>1, <2>5, <2>6 DEF UploadStart, TypeOK
<1>2. ASSUME NEW u \in Uploads, StoreDryRun(u) \/ DispatchLive(u) \/ SubmitLive(u)
      PROVE  TypeOK'
  <2>1. u \in Processes /\ {"saving", "dispatched", "submitted"} \subseteq Labels
    BY DEF Processes, Labels, Running
  <2>2. job[u] # NoJob
    BY <1>2, <2>1, RunningHasJob DEF StoreDryRun, DispatchLive, SubmitLive
  <2>3. ProcessTypeOK'
    BY <1>2, <2>1, <2>2, GotoType DEF StoreDryRun, DispatchLive, SubmitLive
  <2> QED BY <1>2, <2>3 DEF StoreDryRun, DispatchLive, SubmitLive, TypeOK
<1>3. ASSUME NEW u \in Uploads, Pack(u) PROVE TypeOK'
  <2>1. job[u] # NoJob
    BY <1>3, RunningHasJob DEF Pack, Processes
  <2>2. packed' \subseteq Payloads
    BY <1>3, <2>1, PayloadType DEF Pack, TypeOK
  <2> QED BY <1>3, <2>2 DEF Pack, TypeOK, ProcessTypeOK
<1>4. ASSUME NEW u \in Uploads, TransferLive(u) PROVE TypeOK'
  <2>1. u \in Processes /\ "saving" \in Labels
    BY DEF Processes, Labels, Running
  <2>2. job[u] # NoJob
    BY <1>4, <2>1, RunningHasJob DEF TransferLive
  <2>3. ProcessTypeOK'
    BY <1>4, <2>1, <2>2, GotoType DEF TransferLive
  <2> QED BY <1>4, <2>2, <2>3, PayloadType DEF TransferLive, TypeOK
<1>5. ASSUME NEW payload \in held, Finalize(payload) PROVE TypeOK'
  BY <1>5 DEF Finalize, TypeOK, ProcessTypeOK
<1>6. ASSUME NEW v \in Verifies, VerifyStart(v) PROVE TypeOK'
  <2>1. PICK artifact \in Artifacts, mode \in VerifierModes, torn \in BOOLEAN :
          Start(v, "submitting", [artifact |-> artifact, mode |-> mode, torn |-> torn])
    BY <1>6, Read DEF VerifyStart
  <2> DEFINE args == [artifact |-> artifact, mode |-> mode, torn |-> torn]
  <2>2. args \in VerifyJobs
    BY JobTypes
  <2>3. v \in Processes /\ v \notin Uploads \cup Downloads \cup Decrypts
    BY LifecycleAssumption DEF Processes
  <2>4. "submitting" \in Labels /\ args # NoJob
    BY <2>2, LifecycleAssumption DEF Labels, Running
  <2>5. Start(v, "submitting", args)
    BY <2>1
  <2> HIDE DEF args
  <2>6. ProcessTypeOK'
    BY <2>2, <2>3, <2>4, <2>5, StartType DEF Start
  <2>7. reading' \in [Verifies -> Readings \cup {NoJob}]
    BY <1>6 DEF VerifyStart, TypeOK
  <2> QED BY <1>6, <2>6, <2>7 DEF VerifyStart, TypeOK
<1>7. ASSUME NEW v \in Verifies, SubmitMock(v) \/ SendEvm(v) \/ AnswerEvm(v)
      PROVE  TypeOK'
  <2>1. v \in Processes /\ {"accepted", "rejected", "sent"} \subseteq Labels
    BY DEF Processes, Labels, Running
  <2>2. job[v] # NoJob
    BY <1>7, <2>1, RunningHasJob DEF SubmitMock, SendEvm, AnswerEvm
  <2>3. ProcessTypeOK'
    BY <1>7, <2>1, <2>2, GotoType DEF SubmitMock, SendEvm, AnswerEvm
  <2> QED BY <1>7, <2>3 DEF SubmitMock, SendEvm, AnswerEvm, TypeOK
<1>8. ASSUME NEW v \in Verifies, RegisterEvm(v) \/ RevertEvm(v) PROVE TypeOK'
  BY <1>8 DEF RegisterEvm, RevertEvm, TypeOK, ProcessTypeOK
<1>9. ASSUME NEW d \in Downloads, DownloadStart(d) PROVE TypeOK'
  <2>1. PICK src \in Files, out \in Files :
          /\ file[src].fmt = "artifact"
          /\ Start(d, "fetching", [root  |-> file[src].upload_receipt.merkle_root,
                                   out   |-> out, reply |-> Absent])
    BY <1>9 DEF DownloadStart
  <2> DEFINE args == [root  |-> file[src].upload_receipt.merkle_root,
                      out   |-> out, reply |-> Absent]
  <2>2. args \in DownloadJobs
    BY <2>1, JobTypes
  <2>3. d \in Processes /\ d \notin Uploads \cup Verifies \cup Decrypts
    BY LifecycleAssumption DEF Processes
  <2>4. "fetching" \in Labels /\ args # NoJob
    BY <2>2, LifecycleAssumption DEF Labels, Running
  <2> HIDE DEF args
  <2>5. ProcessTypeOK'
    BY <2>1, <2>2, <2>3, <2>4, StartType DEF Start, args
  <2> QED BY <1>9, <2>5 DEF DownloadStart, TypeOK
<1>10. ASSUME NEW d \in Downloads, Fetch(d) PROVE TypeOK'
  <2>1. PICK reply \in Bodies : job' = [job EXCEPT ![d].reply = reply]
    BY <1>10 DEF Fetch
  <2>2. d \in Processes /\ d \notin Uploads \cup Verifies \cup Decrypts
    BY LifecycleAssumption DEF Processes
  <2>3. job[d] \in DownloadJobs
    BY <1>10, <2>2, RunningHasJob DEF Fetch, TypeOK, ProcessTypeOK
  <2> DEFINE args == [job[d] EXCEPT !.reply = reply]
  <2>4. args \in DownloadJobs
    BY <2>3, BodyTypes DEF DownloadJobs
  <2>5. job' = [job EXCEPT ![d] = args]
    BY <2>1
  <2>6. "saving" \in Labels /\ args # NoJob
    BY <2>4, LifecycleAssumption DEF Labels, Running
  <2> HIDE DEF args
  <2>7. ProcessTypeOK'
    BY <1>10, <2>2, <2>4, <2>5, <2>6, StartType DEF Fetch
  <2> QED BY <1>10, <2>7 DEF Fetch, TypeOK
<1>11. ASSUME NEW x \in Decrypts, DecryptStart(x) PROVE TypeOK'
  <2>1. PICK src \in Files, out \in Files, key \in userKeys, aad \in Aads :
          /\ HoldsEnvelope(file[src])
          /\ Start(x, "saving", [key |-> key, aad |-> aad, out |-> out,
                                 msg |-> file[src].encrypted_blob.msg])
    BY <1>11 DEF DecryptStart
  <2> DEFINE args == [key |-> key, aad |-> aad, out |-> out,
                      msg |-> file[src].encrypted_blob.msg]
  <2>2. args \in DecryptJobs
    BY <2>1, JobTypes
  <2>3. x \in Processes /\ x \notin Uploads \cup Verifies \cup Downloads
    BY LifecycleAssumption DEF Processes
  <2>4. "saving" \in Labels /\ args # NoJob
    BY <2>2, LifecycleAssumption DEF Labels, Running
  <2> HIDE DEF args
  <2>5. ProcessTypeOK'
    BY <2>1, <2>2, <2>3, <2>4, StartType DEF Start, args
  <2> QED BY <1>11, <2>5 DEF DecryptStart, TypeOK
<1>12. ASSUME NEW i \in Writers, OpenOutput(i) PROVE TypeOK'
  <2>1. i \in Processes /\ "opened" \in Labels
    BY DEF Writers, Processes, Labels, Running
  <2>2. job[i] # NoJob
    BY <1>12, <2>1, RunningHasJob DEF OpenOutput
  <2>3. ProcessTypeOK'
    BY <1>12, <2>1, <2>2, GotoType DEF OpenOutput, Truncate
  <2>4. file' \in [Files -> Contents] /\ opener' \in [Files -> Writers \cup {NoJob}]
    BY <1>12 DEF OpenOutput, Truncate, TypeOK, Contents, Messages
  <2>5. rivals' \in [Writers -> SUBSET Writers]
    BY <1>12 DEF OpenOutput, Truncate, TypeOK, OpenAt
  <2> QED BY <1>12, <2>3, <2>4, <2>5 DEF OpenOutput, Truncate, TypeOK
<1>13. ASSUME NEW i \in Writers, BeginWrite(i) \/ EndWrite(i) PROVE TypeOK'
  <2>1. i \in Processes /\ {"writing", "done"} \subseteq Labels
    BY DEF Writers, Processes, Labels, Running
  <2>2. job[i] # NoJob
    BY <1>13, <2>1, RunningHasJob DEF BeginWrite, EndWrite
  <2>3. ProcessTypeOK'
    BY <1>13, <2>1, <2>2, GotoType DEF BeginWrite, EndWrite, Leave
  <2>4. file' \in [Files -> Contents]
    BY <1>13, <2>2, SavedTexts DEF TypeOK
  <2> QED BY <1>13, <2>3, <2>4 DEF BeginWrite, EndWrite, Leave, TypeOK
<1>14. ASSUME NEW i \in Processes, Refuse(i) PROVE TypeOK'
  <2>1. "failed" \in Labels
    BY DEF Labels
  <2>2. ProcessTypeOK'
    BY <1>14, <2>1, StartType DEF Refuse, Start
  <2> QED BY <1>14, <2>2 DEF Refuse, TypeOK
<1>15. ASSUME NEW i \in Processes, GiveUp(i) PROVE TypeOK'
  <2>1. {"failed", "lost", "torn"} \subseteq Labels
    BY DEF Labels
  <2>2. job[i] # NoJob
    BY <1>15, RunningHasJob DEF GiveUp, Running
  <2>3. ProcessTypeOK'
    BY <1>15, <2>1, <2>2, GotoType DEF GiveUp
  <2> QED BY <1>15, <2>3 DEF GiveUp, TypeOK
<1>16. CASE UNCHANGED vars
  BY <1>16 DEF vars, TypeOK, ProcessTypeOK
<1>17. ASSUME NEW v \in Verifies, VerifyOpen(v) PROVE TypeOK'
  <2>1. PICK src \in Files :
          /\ TextOf(file[src]).fmt = "artifact"
          /\ reading' = [reading EXCEPT ![v] = [src |-> src, text |-> TextOf(file[src]),
                                              whole |-> file[src].fmt # "part"]]
    BY <1>17 DEF VerifyOpen
  <2>2. TextOf(file[src]) \in Artifacts
    BY <2>1, TextType, Formats
  <2>3. reading' \in [Verifies -> Readings \cup {NoJob}]
    BY <2>1, <2>2 DEF Readings, TypeOK
  <2> QED BY <1>17, <2>3 DEF VerifyOpen, TypeOK, ProcessTypeOK
<1> QED BY <1>1, <1>2, <1>3, <1>4, <1>5, <1>6, <1>7, <1>8, <1>9, <1>10,
           <1>11, <1>12, <1>13, <1>14, <1>15, <1>16, <1>17 DEF Next

-----------------------------------------------------------------------------
(* What one step may do *)

\* The actions of one process, by its kind, and those of the two networks.
Saves(i) == OpenOutput(i) \/ BeginWrite(i) \/ EndWrite(i)
Stops(i) == Refuse(i) \/ GiveUp(i)
UploadMoves(u) ==
  \/ UploadStart(u) \/ StoreDryRun(u) \/ DispatchLive(u) \/ SubmitLive(u) \/ TransferLive(u)
  \/ Saves(u) \/ Stops(u)
VerifyMoves(v) ==
  VerifyOpen(v) \/ VerifyStart(v) \/ SubmitMock(v) \/ SendEvm(v) \/ AnswerEvm(v) \/ Stops(v)
DownloadMoves(d) == DownloadStart(d) \/ Fetch(d) \/ Saves(d) \/ Stops(d)
DecryptMoves(x)  == DecryptStart(x) \/ Saves(x) \/ Stops(x)
NetworkMoves ==
  \/ \E u \in Uploads : Pack(u)
  \/ \E payload \in held : Finalize(payload)
  \/ \E v \in Verifies : RegisterEvm(v) \/ RevertEvm(v)

\* A step of the system is a step of one process, or of a network.
LEMMA WhoMoves ==
  ASSUME [Next]_vars
  PROVE  \/ \E u \in Uploads : UploadMoves(u)
         \/ \E v \in Verifies : VerifyMoves(v)
         \/ \E d \in Downloads : DownloadMoves(d)
         \/ \E x \in Decrypts : DecryptMoves(x)
         \/ NetworkMoves
         \/ UNCHANGED vars
BY DEF Next, UploadMoves, VerifyMoves, DownloadMoves, DecryptMoves, NetworkMoves,
       Saves, Stops, Processes, Writers

\* A step of process i changes no other process.
Alone(i) ==
  \A j \in Processes \ {i} : pc'[j] = pc[j] /\ job'[j] = job[j]

\* Of any two processes only the one that moves changes.
LEMMA MovesAlone ==
  ASSUME TypeOK
  PROVE  /\ \A u \in Uploads : UploadMoves(u) => Alone(u)
         /\ \A v \in Verifies : VerifyMoves(v) => Alone(v)
         /\ \A d \in Downloads : DownloadMoves(d) => Alone(d)
         /\ \A x \in Decrypts : DecryptMoves(x) => Alone(x)
<1> USE DEF TypeOK, ProcessTypeOK, Goto, Start, Alone
<1>1. \A i \in Processes : Saves(i) \/ Stops(i) => Alone(i)
  BY DEF Saves, Stops, OpenOutput, Truncate, BeginWrite, EndWrite, Leave, Refuse, GiveUp
<1>2. \A u \in Uploads : UploadMoves(u) => Alone(u)
  BY <1>1 DEF UploadMoves, UploadStart, StoreDryRun, DispatchLive, SubmitLive, TransferLive,
              Processes
<1>3. \A v \in Verifies : VerifyMoves(v) => Alone(v)
  BY <1>1 DEF VerifyMoves, VerifyOpen, VerifyStart, SubmitMock, SendEvm, AnswerEvm, Processes
<1>4. \A d \in Downloads : DownloadMoves(d) => Alone(d)
  BY <1>1 DEF DownloadMoves, DownloadStart, Fetch, Processes
<1>5. \A x \in Decrypts : DecryptMoves(x) => Alone(x)
  BY <1>1 DEF DecryptMoves, DecryptStart, Processes
<1> QED BY <1>2, <1>3, <1>4, <1>5

\* So a process stays as it is or makes a step of its own kind.
LEMMA OwnMoves ==
  ASSUME TypeOK, [Next]_vars
  PROVE  /\ \A u \in Uploads :
              UploadMoves(u) \/ (pc'[u] = pc[u] /\ job'[u] = job[u])
         /\ \A v \in Verifies :
              VerifyMoves(v) \/ (pc'[v] = pc[v] /\ job'[v] = job[v])
         /\ \A d \in Downloads :
              DownloadMoves(d) \/ (pc'[d] = pc[d] /\ job'[d] = job[d])
         /\ \A x \in Decrypts :
              DecryptMoves(x) \/ (pc'[x] = pc[x] /\ job'[x] = job[x])
<1>1. CASE UNCHANGED vars \/ NetworkMoves
  BY <1>1 DEF vars, NetworkMoves, Pack, Finalize, RegisterEvm, RevertEvm
<1>2. CASE \E u \in Uploads : UploadMoves(u)
  BY <1>2, MovesAlone, LifecycleAssumption DEF Alone, Processes
<1>3. CASE \E v \in Verifies : VerifyMoves(v)
  BY <1>3, MovesAlone, LifecycleAssumption DEF Alone, Processes
<1>4. CASE \E d \in Downloads : DownloadMoves(d)
  BY <1>4, MovesAlone, LifecycleAssumption DEF Alone, Processes
<1>5. CASE \E x \in Decrypts : DecryptMoves(x)
  BY <1>5, MovesAlone, LifecycleAssumption DEF Alone, Processes
<1> QED BY <1>1, <1>2, <1>3, <1>4, <1>5, WhoMoves

\* What has been asked, shown, packed, held or mined stays so.
LEMMA Kept ==
  ASSUME TypeOK, [Next]_vars
  PROVE  /\ userKeys \subseteq userKeys' /\ packed \subseteq packed'
         /\ held \subseteq held'
         /\ registered \subseteq registered' /\ reverted \subseteq reverted'
         /\ \A i \in Processes : pc[i] # "idle" => pc'[i] # "idle"
         /\ \A i \in Processes :
              pc[i] # "idle" /\ (i \in Downloads => pc[i] # "fetching") =>
                job'[i] = job[i]
         /\ \A d \in Downloads :
              pc[d] = "fetching" => job'[d] = job[d] \/ Fetch(d)
<1>1. /\ userKeys \subseteq userKeys' /\ packed \subseteq packed' /\ held \subseteq held'
      /\ registered \subseteq registered' /\ reverted \subseteq reverted'
  BY DEF Next, vars, UploadStart, StoreDryRun, DispatchLive, Pack, SubmitLive, TransferLive,
         Finalize, VerifyOpen, VerifyStart, SubmitMock, SendEvm, RegisterEvm, RevertEvm, AnswerEvm,
         DownloadStart, Fetch, DecryptStart, OpenOutput, Truncate, BeginWrite, EndWrite,
         Leave, Refuse, GiveUp
<1> USE DEF TypeOK, ProcessTypeOK, Goto, Start
<1>2. \A i \in Processes : Saves(i) \/ Stops(i) =>
        /\ pc[i] # "idle" => pc'[i] # "idle"
        /\ pc[i] # "idle" => job'[i] = job[i]
  BY DEF Saves, Stops, OpenOutput, Truncate, BeginWrite, EndWrite, Leave, Refuse, GiveUp
<1>3. \A u \in Uploads : pc[u] # "idle" => pc'[u] # "idle" /\ job'[u] = job[u]
  BY <1>2, OwnMoves
     DEF UploadMoves, UploadStart, StoreDryRun, DispatchLive, SubmitLive, TransferLive, Processes
<1>4. \A v \in Verifies : pc[v] # "idle" => pc'[v] # "idle" /\ job'[v] = job[v]
  BY <1>2, OwnMoves DEF VerifyMoves, VerifyOpen, VerifyStart, SubmitMock, SendEvm, AnswerEvm, Processes
<1>5. \A d \in Downloads :
        /\ pc[d] # "idle" => pc'[d] # "idle"
        /\ pc[d] \notin {"idle", "fetching"} => job'[d] = job[d]
        /\ pc[d] = "fetching" => job'[d] = job[d] \/ Fetch(d)
  BY <1>2, OwnMoves DEF DownloadMoves, DownloadStart, Fetch, Processes
<1>6. \A x \in Decrypts : pc[x] # "idle" => pc'[x] # "idle" /\ job'[x] = job[x]
  BY <1>2, OwnMoves DEF DecryptMoves, DecryptStart, Processes
<1> QED BY <1>1, <1>3, <1>4, <1>5, <1>6 DEF Processes

\* What a writer may do from each point of its save on.
LEMMA WriterMoves ==
  ASSUME TypeOK, [Next]_vars, NEW i \in Writers
  PROVE  /\ pc[i] \in {"opened", "writing", "done", "torn"} => job'[i] = job[i]
         /\ pc[i] = "opened" => pc'[i] \in {"opened", "writing", "torn"}
         /\ pc[i] = "writing" => pc'[i] \in {"writing", "done", "torn"}
         /\ pc[i] = "done" => pc'[i] = "done"
         /\ pc[i] = "torn" => pc'[i] = "torn"
         /\ pc'[i] = "opened" /\ pc[i] # "opened" => OpenOutput(i)
         /\ pc'[i] = "writing" /\ pc[i] # "writing" => BeginWrite(i)
         /\ pc'[i] = "done" /\ pc[i] # "done" => EndWrite(i)
         /\ pc'[i] = "torn" /\ pc[i] # "torn" => GiveUp(i) /\ pc[i] \in {"opened", "writing"}
<1> USE DEF Saves, OpenOutput, Truncate, BeginWrite, EndWrite, Leave, Stops, Refuse, GiveUp,
            Running, Start, Goto, TypeOK, ProcessTypeOK, Processes
<1>1. CASE i \in Uploads
  BY <1>1, OwnMoves
     DEF UploadMoves, UploadStart, StoreDryRun, DispatchLive, SubmitLive, TransferLive
<1>2. CASE i \in Downloads
  BY <1>2, OwnMoves DEF DownloadMoves, DownloadStart, Fetch
<1>3. CASE i \in Decrypts
  BY <1>3, OwnMoves DEF DecryptMoves, DecryptStart
<1> QED BY <1>1, <1>2, <1>3 DEF Writers

\* The disk changes only by the saves of processes that have what they save.
LEMMA DiskChange ==
  ASSUME TypeOK, [Next]_vars
  PROVE  \/ UNCHANGED disk
         \/ \E i \in Writers :
              /\ Saves(i)
              /\ i \in Processes /\ job[i] # NoJob /\ job[i].out \in Files
              /\ job' = job /\ UNCHANGED <<userKeys, network, mined>>
              /\ \A j \in Processes \ {i} : pc'[j] = pc[j]
<1>1. UNCHANGED disk \/ \E i \in Writers : Saves(i)
  BY DEF Next, vars, UploadStart, StoreDryRun, DispatchLive, Pack, SubmitLive, TransferLive,
         Finalize, VerifyOpen, VerifyStart, SubmitMock, SendEvm, RegisterEvm, RevertEvm, AnswerEvm,
         DownloadStart, Fetch, DecryptStart, Refuse, GiveUp, Saves
<1>2. ASSUME NEW i \in Writers, Saves(i)
      PROVE  /\ i \in Processes /\ job[i] # NoJob /\ job[i].out \in Files
             /\ job' = job /\ UNCHANGED <<userKeys, network, mined>>
             /\ \A j \in Processes \ {i} : pc'[j] = pc[j]
  <2>1. i \in Processes /\ pc[i] \in {"saving", "opened", "writing"}
    BY <1>2 DEF Saves, OpenOutput, BeginWrite, EndWrite, Writers, Processes
  <2>2. job[i] # NoJob
    BY <2>1, RunningHasJob
  <2>3. job[i].out \in Files
    BY <2>2, Outputs
  <2>4. /\ job' = job /\ UNCHANGED <<userKeys, network, mined>>
        /\ \A j \in Processes \ {i} : pc'[j] = pc[j]
    BY <1>2 DEF Saves, OpenOutput, Truncate, BeginWrite, EndWrite, Leave, Goto, TypeOK,
                ProcessTypeOK
  <2> QED BY <2>1, <2>2, <2>3, <2>4
<1> QED BY <1>1, <1>2

\* A path changes only by a save of a process that was told to write there.
LEMMA FileChange ==
  ASSUME TypeOK, PartsHaveWriters, [Next]_vars, NEW f \in Files, file'[f] # file[f]
  PROVE  \E i \in Writers :
           /\ Saves(i) /\ pc[i] \in {"saving", "opened", "writing"}
           /\ job[i] # NoJob /\ job[i].out = f /\ job' = job
           /\ \/ file'[f] \in {Bytes(Empty), Bytes(Garbled)}
              \/ BeginWrite(i) /\ file'[f] = Part(i) /\ pc'[i] = "writing"
              \/ EndWrite(i) /\ file'[f] = Output(i)
              \/ BeginWrite(i) /\ file'[f] \in Mixtures(Output(i), file[f])
              \/ /\ EndWrite(i) /\ file'[f] \in Mixtures(TextOf(file[f]), Output(i))
                 /\ file[f] # Part(i)
<1>1. PICK i \in Writers : /\ Saves(i) /\ i \in Processes /\ job[i] # NoJob
                          /\ job[i].out \in Files /\ job' = job
  BY DiskChange
<1>2. pc[i] \in {"saving", "opened", "writing"}
  BY <1>1 DEF Saves, OpenOutput, BeginWrite, EndWrite
<1>3. CASE OpenOutput(i)
  BY <1>1, <1>2, <1>3 DEF OpenOutput, Truncate, TypeOK
<1>4. CASE BeginWrite(i)
  <2>1. PICK text \in Contents :
          /\ file' = [file EXCEPT ![job[i].out] = text]
          /\ \/ text = Part(i) \/ text = Bytes(Garbled)
             \/ text \in Mixtures(Output(i), file[job[i].out])
    BY <1>1, <1>4, SavedTexts
  <2>2. job[i].out = f /\ file'[f] = text
    BY <2>1 DEF TypeOK
  <2>3. pc'[i] = "writing"
    BY <1>1, <1>4 DEF BeginWrite, Goto, TypeOK, ProcessTypeOK
  <2> QED BY <1>1, <1>2, <1>4, <2>1, <2>2, <2>3
<1>5. CASE EndWrite(i)
  <2>1. PICK text \in Contents :
          /\ file' = [file EXCEPT ![job[i].out] = text]
          /\ \/ text = Output(i) \/ text = Bytes(Garbled)
             \/ /\ text \in Mixtures(TextOf(file[job[i].out]), Output(i))
                /\ file[job[i].out] # Part(i)
    BY <1>1, <1>5, SavedTexts
  <2>2. job[i].out = f /\ file'[f] = text
    BY <2>1 DEF TypeOK
  <2> QED BY <1>1, <1>2, <1>5, <2>1, <2>2
<1> QED BY <1>1, <1>3, <1>4, <1>5 DEF Saves

\* Each shared set grows by one kind of step only.
LEMMA Growth ==
  ASSUME [Next]_vars
  PROVE  /\ \A k \in userKeys' \ userKeys : k \in Uploads /\ UploadStart(k)
         /\ \A payload \in packed' \ packed :
              \E u \in Uploads :
                Pack(u) /\ payload = UploadPayload(EnvelopeOf(u))
         /\ \A payload \in held' \ held :
              \E u \in Uploads :
                TransferLive(u) /\ payload = UploadPayload(EnvelopeOf(u))
         /\ \A v \in registered' \ registered : v \in Verifies /\ RegisterEvm(v)
         /\ \A v \in reverted' \ reverted : v \in Verifies /\ RevertEvm(v)
<1>1. CASE \E u \in Uploads : UploadStart(u)
  BY <1>1 DEF UploadStart
<1>2. CASE \E u \in Uploads : Pack(u)
  BY <1>2 DEF Pack
<1>3. CASE \E u \in Uploads : TransferLive(u)
  BY <1>3 DEF TransferLive
<1>4. CASE \E v \in Verifies : RegisterEvm(v)
  BY <1>4 DEF RegisterEvm
<1>5. CASE \E v \in Verifies : RevertEvm(v)
  BY <1>5 DEF RevertEvm
<1>6. CASE UNCHANGED <<userKeys, packed, held, registered, reverted>>
  BY <1>6
<1> QED BY <1>1, <1>2, <1>3, <1>4, <1>5, <1>6
        DEF Next, vars, StoreDryRun, DispatchLive, SubmitLive, Finalize, VerifyOpen,
            VerifyStart, SubmitMock, SendEvm, AnswerEvm, DownloadStart, Fetch, DecryptStart, OpenOutput,
            Truncate, BeginWrite, EndWrite, Leave, Refuse, GiveUp

\* The types, with what is known of the parts of texts that are left at paths.
TypeInv == TypeOK /\ PartsHaveWriters

\* A part is left only by a process that was writing at its path.
LEMMA TypeInvStep == TypeInv /\ [Next]_vars => TypeInv'
<1> SUFFICES ASSUME TypeInv, [Next]_vars PROVE TypeInv'
  OBVIOUS
<1>1. TypeOK /\ PartsHaveWriters /\ TypeOK'
  BY TypeStep DEF TypeInv
<1>2. ASSUME NEW f \in Files, file'[f].fmt = "part"
      PROVE  LET j == file'[f].writer
             IN  job'[j] # NoJob /\ job'[j].out = f /\ pc'[j] \in {"writing", "done", "torn"}
  <2>1. CASE file'[f] = file[f]
    <3> DEFINE j == file[f].writer
    <3>1. job[j] # NoJob /\ job[j].out = f /\ pc[j] \in {"writing", "done", "torn"}
      BY <1>1, <1>2, <2>1 DEF PartsHaveWriters
    <3>2. j \in Writers
      BY <1>1, <1>2, <2>1, TextType
    <3> QED BY <1>1, <2>1, <3>1, <3>2, WriterMoves
  <2>2. CASE file'[f] # file[f]
    <3>1. PICK i \in Writers :
            /\ job[i] # NoJob /\ job[i].out = f /\ job' = job
            /\ \/ file'[f] \in {Bytes(Empty), Bytes(Garbled)}
               \/ file'[f] = Part(i) /\ pc'[i] = "writing"
               \/ file'[f] = Output(i)
               \/ file'[f] \in Mixtures(Output(i), file[f])
               \/ file'[f] \in Mixtures(TextOf(file[f]), Output(i))
      BY <1>1, <2>2, FileChange
    <3>2. /\ Bytes(Empty).fmt # "part" /\ Bytes(Garbled).fmt # "part" /\ Output(i).fmt # "part"
          /\ Part(i).writer = i
      BY <1>1, <3>1, Outputs DEF Bytes, Part
    <3>3. \A c \in Mixtures(Output(i), file[f]) \cup Mixtures(TextOf(file[f]), Output(i)) :
            c.fmt # "part"
      BY <1>1, <3>1, Outputs, TextType, Mixed DEF TypeOK
    <3> QED BY <1>2, <3>1, <3>2, <3>3
  <2> QED BY <2>1, <2>2
<1> QED BY <1>1, <1>2 DEF TypeInv, PartsHaveWriters

\* The types and the writers of parts, in every reachable state.
THEOREM TypeInvariant == Spec => []TypeInv
<1>1. Init => TypeInv
  BY TypeInit DEF TypeInv
<1> QED BY <1>1, TypeInvStep, PTL DEF Spec

\* Every reachable state has the types of TypeOK: no mixture of commands,
\* failures and overwriting makes a file something no command writes.
THEOREM TypeCorrect == Spec => []TypeOK
BY TypeInvariant, PTL DEF TypeInv

-----------------------------------------------------------------------------
(* Uploads and the network *)

NetworkInv ==
  TypeInv /\ ShownKeys /\ PackedByUploads /\ HeldIsPacked /\ SavingAreSavers

\* Nothing is stored before the first command.
LEMMA NetworkInit == Init => NetworkInv
<1> SUFFICES ASSUME Init PROVE NetworkInv
  OBVIOUS
<1>1. \A u \in Uploads : u \notin userKeys /\ pc[u] = "idle"
  BY LifecycleAssumption DEF Init, Processes
<1> QED BY <1>1, TypeInit
        DEF Init, NetworkInv, TypeInv, ShownKeys, PackedByUploads, HeldIsPacked,
            SavingAreSavers

\* The payload of a started upload never changes again.
LEMMA PayloadKept ==
  ASSUME TypeOK, [Next]_vars, NEW u \in Uploads, pc[u] # "idle"
  PROVE  EnvelopeOf(u)' = EnvelopeOf(u) /\ job'[u] = job[u]
BY Kept, LifecycleAssumption DEF EnvelopeOf, Processes

\* What an upload goes through from its start on.
LEMMA UploadSteps ==
  ASSUME TypeOK, [Next]_vars, NEW u \in Uploads
  PROVE  /\ pc'[u] \notin {"idle", "failed"} /\ pc[u] \in {"idle", "failed"} => UploadStart(u)
         /\ UploadStart(u) => pc'[u] = "storing"
         /\ pc'[u] = "submitted" /\ pc[u] # "submitted" => SubmitLive(u)
         /\ pc'[u] = "saving" /\ pc[u] # "saving" => StoreDryRun(u) \/ TransferLive(u)
         /\ pc'[u] = "opened" => pc[u] \in {"opened", "saving"}
         /\ pc'[u] \in {"writing", "done", "torn"} =>
              pc[u] \in {"opened", "writing", "done", "torn"}
<1>1. u \in Processes
  BY DEF Processes
<1>2. pc'[u] # pc[u] => UploadMoves(u)
  BY OwnMoves
<1>3. CASE pc'[u] = pc[u]
  <2>1. UploadStart(u) => pc'[u] = "storing"
    BY <1>1 DEF UploadStart, Start, Goto, TypeOK, ProcessTypeOK
  <2> QED BY <1>3, <2>1
<1>4. CASE UploadMoves(u)
  BY <1>1, <1>4
     DEF UploadMoves, UploadStart, StoreDryRun, DispatchLive, SubmitLive, TransferLive,
         Saves, OpenOutput, Truncate, BeginWrite, EndWrite, Leave, Stops, Refuse, GiveUp,
         Running, Start, Goto, TypeOK, ProcessTypeOK
<1> QED BY <1>2, <1>3, <1>4

\* An upload that can save an artifact stays one.
LEMMA SaversKept ==
  ASSUME TypeOK, ShownKeys, [Next]_vars, NEW u \in Savers
  PROVE  /\ u \in Uploads /\ u \in userKeys /\ u \in Savers'
         /\ pc[u] # "idle" /\ EnvelopeOf(u)' = EnvelopeOf(u) /\ job'[u] = job[u]
<1>1. u \in Uploads /\ u \in userKeys /\ pc[u] # "idle"
  BY DEF Savers, ShownKeys
<1>2. EnvelopeOf(u)' = EnvelopeOf(u) /\ job'[u] = job[u]
  BY <1>1, PayloadKept
<1>3. u \in userKeys' /\ held \subseteq held'
  BY <1>1, Kept
<1> QED BY <1>1, <1>2, <1>3 DEF Savers

\* Every step keeps what ties the network to the uploads and their keys.
LEMMA NetworkStep == NetworkInv /\ [Next]_vars => NetworkInv'
<1> SUFFICES ASSUME NetworkInv, [Next]_vars PROVE NetworkInv'
  OBVIOUS
<1>1. TypeOK /\ TypeOK' /\ TypeInv'
  BY TypeInvStep DEF NetworkInv, TypeInv
<1>2. ASSUME NEW u \in Uploads
      PROVE  /\ pc'[u] \notin {"idle", "failed"} => u \in userKeys'
             /\ u \in userKeys' => pc'[u] # "idle" /\ job'[u] \in UploadJobs
  <2>1. u \in Processes
    BY DEF Processes
  <2>2. pc'[u] \notin {"idle", "failed"} => u \in userKeys'
    <3>1. CASE UploadStart(u)
      BY <3>1 DEF UploadStart
    <3>2. CASE pc[u] \notin {"idle", "failed"}
      BY <3>2, Kept, <1>1 DEF NetworkInv, ShownKeys
    <3> QED BY <3>1, <3>2, <1>1, UploadSteps
  <2>3. ASSUME u \in userKeys' PROVE pc'[u] # "idle" /\ job'[u] \in UploadJobs
    <3>1. CASE u \in userKeys
      BY <3>1, <1>1, <2>1, Kept, PayloadKept DEF NetworkInv, ShownKeys
    <3>2. CASE u \notin userKeys
      <4>1. UploadStart(u) /\ pc'[u] = "storing"
        BY <2>3, <3>2, <1>1, Growth, UploadSteps
      <4> QED BY <4>1, <1>1, <2>1 DEF TypeOK, ProcessTypeOK
    <3> QED BY <3>1, <3>2
  <2> QED BY <2>2, <2>3
<1>3. ASSUME NEW payload \in packed'
      PROVE  \E u \in Uploads \cap userKeys' :
               payload = UploadPayload(EnvelopeOf(u)')
  <2>1. PICK u \in Uploads \cap userKeys :
          payload = UploadPayload(EnvelopeOf(u)) /\ pc[u] # "idle"
    <3>1. CASE payload \in packed
      BY <3>1 DEF NetworkInv, PackedByUploads, ShownKeys
    <3>2. CASE payload \notin packed
      BY <3>2, Growth DEF Pack, NetworkInv, ShownKeys
    <3> QED BY <3>1, <3>2
  <2> QED BY <2>1, <1>1, PayloadKept, Kept
<1>4. held' \subseteq packed'
  <2>1. \A payload \in held' \ held : payload \in packed
    BY Growth DEF TransferLive, NetworkInv, HeldIsPacked
  <2> QED BY <2>1, <1>1, Kept DEF NetworkInv, HeldIsPacked
<1>5. ASSUME NEW u \in Uploads, pc'[u] = "submitted"
      PROVE  UploadPayload(EnvelopeOf(u)') \in packed'
  <2>1. CASE pc[u] = "submitted"
    BY <2>1, <1>1, Kept, PayloadKept DEF NetworkInv, HeldIsPacked
  <2>2. CASE SubmitLive(u)
    BY <2>2, <1>1, PayloadKept, Kept DEF SubmitLive
  <2> QED BY <2>1, <2>2, <1>1, <1>5, UploadSteps
<1>6. ASSUME NEW u \in Uploads,
             pc'[u] \in {"saving", "opened", "writing", "done", "torn"}
      PROVE  u \in Savers'
  <2>1. CASE pc[u] \in {"saving", "opened", "writing", "done", "torn"}
    BY <2>1, <1>1, SaversKept DEF NetworkInv, SavingAreSavers
  <2>2. CASE StoreDryRun(u) \/ TransferLive(u)
    <3>1. /\ pc[u] \in {"storing", "submitted"} /\ job'[u] = job[u]
          /\ job[u].mode = "dry_run" \/ UploadPayload(EnvelopeOf(u)) \in held'
      BY <2>2 DEF StoreDryRun, TransferLive
    <3>2. EnvelopeOf(u)' = EnvelopeOf(u) /\ u \in userKeys'
      BY <3>1, <1>1, PayloadKept, Kept DEF NetworkInv, ShownKeys
    <3> QED BY <3>1, <3>2 DEF Savers
  <2> QED BY <2>1, <2>2, <1>1, <1>6, UploadSteps
<1> QED BY <1>1, <1>2, <1>3, <1>4, <1>5, <1>6
        DEF NetworkInv, ShownKeys, PackedByUploads, HeldIsPacked, SavingAreSavers

\* What the network holds is the payload of an upload whose key is shown.
THEOREM NetworkInvariant == Spec => []NetworkInv
BY NetworkInit, NetworkStep, PTL DEF Spec

\* Whatever an upload has put on the network when it dies, or is packed after
\* its death, the user can open: the key was shown before anything was sent.
THEOREM Recoverable == Spec => []StoredIsRecoverable
<1>1. NetworkInv => StoredIsRecoverable
  <2> SUFFICES ASSUME NetworkInv, NEW payload \in packed
               PROVE  \E u \in Uploads \cap userKeys :
                        /\ Opens(payload.encrypted_blob, u, job[u].aad)
                        /\ payload.encrypted_blob.msg = job[u].msg
    BY DEF StoredIsRecoverable
  <2>1. PICK u \in Uploads \cap userKeys : payload = UploadPayload(EnvelopeOf(u))
    BY DEF NetworkInv, PackedByUploads
  <2>2. payload.encrypted_blob = Encrypt(u, job[u].msg, job[u].aad)
    BY <2>1 DEF UploadPayload, EnvelopeOf
  <2> QED BY <2>2 DEF Opens, Encrypt
<1> QED BY <1>1, NetworkInvariant, PTL

-----------------------------------------------------------------------------
(* Saved results *)

RivalInv == TypeInv /\ RivalsAreKnown /\ SuccessIsKept

\* No command has opened or saved anything before the first step.
LEMMA RivalInit == Init => RivalInv
<1> SUFFICES ASSUME Init PROVE RivalInv
  OBVIOUS
<1>1. \A i \in Writers : pc[i] = "idle" /\ rivals[i] = {}
  BY DEF Init, Writers, Processes
<1> QED BY <1>1, TypeInit DEF RivalInv, TypeInv, RivalsAreKnown, SuccessIsKept, IsOpen

\* What each step of a save does, to its path and to the history.
LEMMA SaveEffects ==
  ASSUME TypeOK, PartsHaveWriters, NEW k \in Writers, Saves(k)
  PROVE  LET f == job[k].out
         IN  /\ f \in Files /\ job' = job /\ job[k] # NoJob
             /\ \A g \in Files \ {f} : file'[g] = file[g] /\ opener'[g] = opener[g]
             /\ \A i \in Writers \ {k} : pc'[i] = pc[i]
             /\ OpenOutput(k) =>
                  /\ pc[k] = "saving" /\ pc'[k] = "opened"
                  /\ file'[f] = Bytes(Empty) /\ opener'[f] = k
                  /\ rivals'[k] = OpenAt(f)
                  /\ \A i \in Writers \ {k} :
                       rivals'[i] = IF i \in OpenAt(f) THEN rivals[i] \cup {k} ELSE rivals[i]
             /\ BeginWrite(k) =>
                  /\ pc[k] = "opened" /\ pc'[k] = "writing" /\ UNCHANGED <<opener, rivals>>
                  /\ file[f] = Bytes(Empty) => file'[f] = Part(k)
             /\ EndWrite(k) =>
                  /\ pc[k] = "writing" /\ pc'[k] = "done" /\ UNCHANGED <<opener, rivals>>
                  /\ file[f] = Part(k) => file'[f] = Output(k)
<1>1. k \in Processes /\ job[k] # NoJob /\ job[k].out \in Files
  <2>1. k \in Processes /\ pc[k] \in {"saving", "opened", "writing"}
    BY DEF Saves, OpenOutput, BeginWrite, EndWrite, Writers, Processes
  <2> QED BY <2>1, RunningHasJob, Outputs
<1>2. /\ file \in [Files -> Contents] /\ opener \in [Files -> Writers \cup {NoJob}]
      /\ pc \in [Processes -> Labels] /\ Writers \subseteq Processes
  BY DEF TypeOK, ProcessTypeOK, Writers, Processes
<1>3. CASE OpenOutput(k)
  <2> DEFINE f == job[k].out
  <2>1. /\ file' = [file EXCEPT ![f] = Bytes(Empty)] /\ opener' = [opener EXCEPT ![f] = k]
        /\ rivals' = [j \in Writers |-> IF j = k THEN OpenAt(f)
                                        ELSE rivals[j] \cup {l \in {k} : j \in OpenAt(f)}]
        /\ pc[k] = "saving" /\ pc' = [pc EXCEPT ![k] = "opened"] /\ job' = job
    BY <1>3 DEF OpenOutput, Truncate, Goto
  <2>2. /\ rivals'[k] = OpenAt(f)
        /\ \A i \in Writers \ {k} :
             rivals'[i] = IF i \in OpenAt(f) THEN rivals[i] \cup {k} ELSE rivals[i]
    BY <2>1
  <2>3. ~BeginWrite(k) /\ ~EndWrite(k)
    BY <2>1 DEF BeginWrite, EndWrite
  <2> QED BY <1>1, <1>2, <2>1, <2>2, <2>3
<1>4. CASE BeginWrite(k)
  BY <1>1, <1>2, <1>4 DEF OpenOutput, EndWrite, BeginWrite, Leave, Goto
<1>5. CASE EndWrite(k)
  BY <1>1, <1>2, <1>5 DEF OpenOutput, BeginWrite, EndWrite, Leave, Goto
<1> QED BY <1>3, <1>4, <1>5 DEF Saves

\* Between saves nobody opens or ends, and the disk stays as it is.
LEMMA NoSaves ==
  ASSUME TypeOK, [Next]_vars, \A k \in Writers : ~Saves(k)
  PROVE  /\ UNCHANGED disk
         /\ \A i \in Writers :
              /\ pc'[i] \in {"opened", "writing", "done"} => pc'[i] = pc[i] /\ job'[i] = job[i]
              /\ pc[i] \in {"opened", "writing", "done", "torn"} =>
                   pc'[i] \in {"opened", "writing", "done", "torn"}
<1>1. UNCHANGED disk
  BY DiskChange
<1>2. ASSUME NEW i \in Writers
      PROVE  /\ pc'[i] \in {"opened", "writing", "done"} => pc'[i] = pc[i] /\ job'[i] = job[i]
             /\ pc[i] \in {"opened", "writing", "done", "torn"} =>
                  pc'[i] \in {"opened", "writing", "done", "torn"}
  BY WriterMoves DEF Saves
<1> QED BY <1>1, <1>2

\* Every step keeps a saved result in place, or has a rival at its path.
LEMMA RivalStep == RivalInv /\ [Next]_vars => RivalInv'
<1> SUFFICES ASSUME RivalInv, [Next]_vars PROVE RivalInv'
  OBVIOUS
<1>1. TypeOK /\ TypeOK' /\ PartsHaveWriters /\ TypeInv'
  BY TypeInvStep DEF RivalInv, TypeInv
<1>2. RivalsAreKnown /\ SuccessIsKept
  BY DEF RivalInv
<1>3. ASSUME \A k \in Writers : ~Saves(k) PROVE RivalsAreKnown' /\ SuccessIsKept'
  <2>1. /\ UNCHANGED disk
        /\ \A i \in Writers :
             /\ pc'[i] \in {"opened", "writing", "done"} => pc'[i] = pc[i] /\ job'[i] = job[i]
             /\ pc[i] \in {"opened", "writing", "done", "torn"} =>
                  pc'[i] \in {"opened", "writing", "done", "torn"}
    BY <1>1, <1>3, NoSaves
  <2>2. RivalsAreKnown'
    BY <1>2, <2>1 DEF RivalsAreKnown, IsOpen
  <2>3. ASSUME NEW i \in Writers, pc'[i] = "done", opener'[job'[i].out] = i, rivals'[i] = {}
        PROVE  file'[job'[i].out] = Output(i)'
    <3>1. pc[i] = "done"
      BY <2>1, <2>3
    <3>2. job'[i] = job[i]
      BY <2>1, <2>3
    <3>3. Output(i)' = Output(i)
      BY <3>2 DEF Output, EnvelopeOf
    <3>4. file[job[i].out] = Output(i)
      BY <1>2, <2>1, <2>3, <3>1, <3>2 DEF SuccessIsKept
    <3> QED BY <2>1, <3>2, <3>3, <3>4
  <2> QED BY <2>2, <2>3 DEF SuccessIsKept
<1>4. ASSUME NEW k \in Writers, Saves(k) PROVE RivalsAreKnown' /\ SuccessIsKept'
  <2> DEFINE f == job[k].out
  <2>1. /\ f \in Files /\ job' = job
        /\ \A g \in Files \ {f} : file'[g] = file[g] /\ opener'[g] = opener[g]
        /\ \A i \in Writers \ {k} : pc'[i] = pc[i]
    BY <1>1, <1>4, SaveEffects
  <2>2. \A i \in Writers : Output(i)' = Output(i) /\ Part(i)' = Part(i)
    BY <2>1 DEF Output, EnvelopeOf, Part
  <2>3. \A i \in Writers : pc[i] \in {"opened", "writing", "done"} => job[i].out \in Files
    BY <1>1, RunningHasJob, Outputs DEF Writers, Processes
  <2>4. CASE OpenOutput(k)
    <3>1. /\ pc[k] = "saving" /\ pc'[k] = "opened"
          /\ file'[f] = Bytes(Empty) /\ opener'[f] = k
          /\ rivals'[k] = OpenAt(f)
          /\ \A i \in Writers \ {k} :
               rivals'[i] = IF i \in OpenAt(f) THEN rivals[i] \cup {k} ELSE rivals[i]
      BY <1>1, <1>4, <2>4, SaveEffects
    <3>2. \A i \in Writers : i \in OpenAt(f) <=> IsOpen(i) /\ job[i].out = f
      BY DEF OpenAt, IsOpen
    <3>3. \A i \in Writers \ {k} :
            /\ rivals[i] \subseteq rivals'[i]
            /\ IsOpen(i) /\ job[i].out = f => k \in rivals'[i]
            /\ ~IsOpen(i) => rivals'[i] = rivals[i]
      BY <3>1, <3>2
    <3>4. \A i \in Writers \ {k} : pc'[i] = pc[i] /\ IsOpen(i)' = IsOpen(i)
      BY <2>1 DEF IsOpen
    <3>5. ASSUME NEW i \in Writers \ {k}
          PROVE  /\ pc'[i] \notin {"opened", "writing", "done", "torn"} => rivals'[i] = {}
                 /\ \A j \in Writers \ {i} :
                      IsOpen(j)' =>
                        /\ IsOpen(i)' /\ job[i].out = job[j].out => j \in rivals'[i]
                        /\ pc'[i] = "done" /\ opener'[job[i].out] = i
                           /\ job[i].out = job[j].out => j \in rivals'[i]
                 /\ IsOpen(i)' /\ rivals'[i] = {} =>
                      /\ job[i].out # f /\ opener'[job[i].out] = i
                      /\ file'[job[i].out] = IF pc[i] = "opened" THEN Bytes(Empty) ELSE Part(i)
      <4>1. pc'[i] \notin {"opened", "writing", "done", "torn"} => rivals'[i] = {}
        BY <1>2, <3>3, <3>4 DEF RivalsAreKnown, IsOpen
      <4>2. ASSUME NEW j \in Writers \ {i}, IsOpen(j)', job[i].out = job[j].out,
                   IsOpen(i)' \/ (pc'[i] = "done" /\ opener'[job[i].out] = i)
            PROVE  j \in rivals'[i]
        <5>1. CASE j = k
          BY <3>1, <3>3, <3>4, <4>2, <5>1
        <5>2. CASE j # k
          <6>1. IsOpen(j) /\ (IsOpen(i) \/ (pc[i] = "done" /\ opener'[job[i].out] = i))
            BY <3>4, <4>2, <5>2
          <6>2. pc[i] = "done" /\ opener'[job[i].out] = i => opener[job[i].out] = i
            BY <2>1, <2>3, <3>1
          <6> QED BY <1>2, <3>3, <4>2, <6>1, <6>2 DEF RivalsAreKnown
        <5> QED BY <5>1, <5>2
      <4>3. ASSUME IsOpen(i)', rivals'[i] = {}
            PROVE  /\ job[i].out # f /\ opener'[job[i].out] = i
                   /\ file'[job[i].out] = IF pc[i] = "opened" THEN Bytes(Empty) ELSE Part(i)
        <5>1. IsOpen(i) /\ rivals[i] = {} /\ job[i].out # f
          BY <3>3, <3>4, <4>3
        <5>2. job[i].out \in Files
          BY <2>3, <5>1 DEF IsOpen
        <5> QED BY <1>2, <2>1, <5>1, <5>2 DEF RivalsAreKnown
      <4> QED BY <4>1, <4>2, <4>3
    <3>6. \A j \in Writers \ {k} : IsOpen(j)' /\ job[k].out = job[j].out => j \in rivals'[k]
      BY <3>1, <3>2, <3>4
    <3>7. RivalsAreKnown'
      BY <2>1, <2>2, <3>1, <3>4, <3>5, <3>6 DEF RivalsAreKnown
    <3>8. ASSUME NEW i \in Writers, pc'[i] = "done", opener'[job[i].out] = i, rivals'[i] = {}
          PROVE  file'[job[i].out] = Output(i)
      <4>1. i # k /\ pc[i] = "done" /\ ~IsOpen(i)
        BY <3>1, <3>4, <3>8 DEF IsOpen
      <4>2. job[i].out \in Files /\ job[i].out # f
        BY <2>3, <3>1, <3>8, <4>1
      <4> QED BY <1>2, <2>1, <3>3, <3>8, <4>1, <4>2 DEF SuccessIsKept
    <3> QED BY <2>1, <2>2, <3>7, <3>8 DEF SuccessIsKept
  <2>5. CASE BeginWrite(k)
    <3>1. /\ pc[k] = "opened" /\ pc'[k] = "writing" /\ UNCHANGED <<opener, rivals>>
          /\ file[f] = Bytes(Empty) => file'[f] = Part(k)
      BY <1>1, <1>4, <2>5, SaveEffects
    <3>2. RivalsAreKnown'
      BY <1>2, <2>1, <2>2, <2>3, <3>1 DEF RivalsAreKnown, IsOpen
    <3>3. SuccessIsKept'
      BY <1>2, <2>1, <2>2, <2>3, <3>1 DEF SuccessIsKept, RivalsAreKnown, IsOpen
    <3> QED BY <3>2, <3>3
  <2>6. CASE EndWrite(k)
    <3>1. /\ pc[k] = "writing" /\ pc'[k] = "done" /\ UNCHANGED <<opener, rivals>>
          /\ file[f] = Part(k) => file'[f] = Output(k)
      BY <1>1, <1>4, <2>6, SaveEffects
    <3>2. ASSUME NEW i \in Writers \ {k}, rivals[i] = {},
                 IsOpen(i) \/ (pc[i] = "done" /\ opener[job[i].out] = i)
          PROVE  job[i].out # f
      BY <1>2, <3>1, <3>2 DEF RivalsAreKnown, IsOpen
    <3>3. RivalsAreKnown'
      BY <1>2, <2>1, <2>2, <2>3, <3>1, <3>2 DEF RivalsAreKnown, IsOpen
    <3>4. rivals[k] = {} => file'[f] = Output(k)
      BY <1>2, <3>1 DEF RivalsAreKnown, IsOpen
    <3>5. SuccessIsKept'
      BY <1>2, <2>1, <2>2, <2>3, <3>1, <3>2, <3>4 DEF SuccessIsKept
    <3> QED BY <3>3, <3>5
  <2> QED BY <1>4, <2>4, <2>5, <2>6 DEF Saves
<1> QED BY <1>1, <1>3, <1>4 DEF RivalInv

\* Saved results and what is known of rivals, in every reachable state.
THEOREM RivalInvariant == Spec => []RivalInv
BY RivalInit, RivalStep, PTL DEF Spec

\* A command that reports success leaves its result at its path until another
\* opens the path, unless another had it open at the same time.
THEOREM ResultsAreKept == Spec => []SuccessIsKept
BY RivalInvariant, PTL DEF RivalInv

-----------------------------------------------------------------------------
(* Artifacts *)

\* The rivals that a writer has had stay on record, and its job with them.
LEMMA RivalsKept ==
  ASSUME RivalInv, [Next]_vars, NEW i \in Writers,
         rivals[i] # {} \/ pc[i] \in {"opened", "writing", "done", "torn"}
  PROVE  rivals[i] \subseteq rivals'[i] /\ job'[i] = job[i] /\ job[i] # NoJob
<1>1. TypeOK /\ PartsHaveWriters /\ RivalsAreKnown
  BY DEF RivalInv, TypeInv
<1>2. pc[i] \in {"opened", "writing", "done", "torn"}
  BY <1>1 DEF RivalsAreKnown
<1>3. job'[i] = job[i] /\ job[i] # NoJob
  BY <1>1, <1>2, WriterMoves, RunningHasJob DEF Writers, Processes
<1>4. CASE \A k \in Writers : ~Saves(k)
  BY <1>1, <1>3, <1>4, NoSaves
<1>5. ASSUME NEW k \in Writers, Saves(k) PROVE rivals[i] \subseteq rivals'[i]
  <2>1. CASE OpenOutput(k)
    <3>1. pc[k] = "saving"
      BY <2>1 DEF OpenOutput
    <3>2. k # i
      BY <1>2, <3>1
    <3>3. \A j \in Writers \ {k} :
            rivals'[j] = IF j \in OpenAt(job[k].out) THEN rivals[j] \cup {k} ELSE rivals[j]
      BY <1>1, <1>5, <2>1, SaveEffects
    <3>4. rivals'[i] = rivals[i] \/ rivals'[i] = rivals[i] \cup {k}
      BY <3>2, <3>3
    <3> QED BY <3>4
  <2>2. CASE BeginWrite(k) \/ EndWrite(k)
    BY <1>1, <1>5, <2>2, SaveEffects
  <2> QED BY <1>5, <2>1, <2>2 DEF Saves
<1> QED BY <1>3, <1>4, <1>5

\* Two uploads that have had a path open together have had it for good.
LEMMA OverlapKept ==
  ASSUME RivalInv, [Next]_vars
  PROVE  /\ Overlap => Overlap'
         /\ \A f \in Files : OverlapAt(f) => OverlapAt(f)'
<1>1. ASSUME NEW u \in Uploads, Overlapped(u)
      PROVE  Overlapped(u)' /\ job'[u] = job[u]
  BY <1>1, RivalsKept DEF Overlapped, Writers
<1> QED BY <1>1 DEF Overlap, OverlapAt

TextInv == RivalInv /\ TextsAreOfRivals

\* Two processes that have one path open are rivals of each other.
LEMMA OpenTogether ==
  ASSUME RivalInv, NEW u \in Uploads, NEW k \in Uploads \ {u},
         IsOpen(u), IsOpen(k), job[u].out = job[k].out
  PROVE  Overlapped(u)
BY DEF RivalInv, RivalsAreKnown, Overlapped, Writers

\* No step leaves a text of an upload at a path that another upload has open
\* without its being on record.
LEMMA TextStep == TextInv /\ [Next]_vars => TextInv'
<1> SUFFICES ASSUME TextInv, [Next]_vars PROVE TextInv'
  OBVIOUS
<1>1. RivalInv /\ RivalInv' /\ TypeOK /\ TypeOK' /\ PartsHaveWriters
  BY RivalStep DEF TextInv, RivalInv, TypeInv
<1>2. ASSUME NEW u \in Uploads, IsOpen(u)',
             LET old == file'[job'[u].out]
             IN  old.fmt = "artifact" \/ (old.fmt = "part" /\ old.writer \in Uploads \ {u})
      PROVE  Overlapped(u)'
  <2>1. u \in Writers /\ u \in Processes
    BY DEF Writers, Processes
  <2>2. CASE OpenOutput(u)
    <3>1. Saves(u)
      BY <2>2 DEF Saves
    <3>2. job' = job /\ file'[job[u].out] = Bytes(Empty)
      BY <1>1, <2>1, <2>2, <3>1, SaveEffects
    <3> QED BY <1>2, <3>2 DEF Bytes
  <2>3. CASE ~OpenOutput(u)
    <3>1. IsOpen(u)
      BY <1>1, <1>2, <2>1, <2>3, WriterMoves DEF IsOpen, BeginWrite
    <3>2. rivals[u] \subseteq rivals'[u] /\ job'[u] = job[u] /\ job[u] # NoJob
      BY <1>1, <2>1, <3>1, RivalsKept DEF IsOpen
    <3>3. Overlapped(u) => Overlapped(u)'
      BY <3>2 DEF Overlapped
    <3> DEFINE f == job[u].out
               old == file[f]
    <3>4. f \in Files
      BY <1>1, <2>1, <3>2, Outputs
    <3>5. old.fmt = "artifact" \/ (old.fmt = "part" /\ old.writer \in Uploads \ {u})
            => Overlapped(u)
      BY <3>1 DEF TextInv, TextsAreOfRivals
    <3>6. CASE file'[f] = file[f]
      BY <1>2, <3>2, <3>3, <3>5, <3>6
    <3>7. CASE file'[f] # file[f]
      <4>1. PICK k \in Writers :
              /\ Saves(k) /\ job[k] # NoJob /\ job[k].out = f
              /\ \/ file'[f] \in {Bytes(Empty), Bytes(Garbled)}
                 \/ BeginWrite(k) /\ file'[f] = Part(k)
                 \/ EndWrite(k) /\ file'[f] = Output(k)
                 \/ BeginWrite(k) /\ file'[f] \in Mixtures(Output(k), old)
                 \/ EndWrite(k) /\ file'[f] \in Mixtures(TextOf(old), Output(k))
        BY <1>1, <3>4, <3>7, FileChange
      <4>2. file'[f] \notin {Bytes(Empty), Bytes(Garbled)} /\ IsOpen(k)
        BY <1>2, <3>2, <4>1 DEF Bytes, BeginWrite, EndWrite, IsOpen
      <4>3. k = u => ~EndWrite(k)
        BY <1>1, <1>2, <2>1, <4>1, SaveEffects DEF IsOpen
      <4>4. CASE BeginWrite(k) /\ file'[f] = Part(k)
        <5>1. k \in Uploads \ {u}
          BY <1>2, <3>2, <4>4 DEF Part
        <5> QED BY <1>1, <3>1, <3>3, <4>1, <4>2, <5>1, OpenTogether
      <4>5. CASE EndWrite(k) /\ file'[f] = Output(k)
        <5>1. k \in Uploads \ {u}
          BY <1>1, <1>2, <3>2, <4>1, <4>3, <4>5, Outputs
        <5> QED BY <1>1, <3>1, <3>3, <4>1, <4>2, <5>1, OpenTogether
      <4>6. CASE BeginWrite(k) /\ file'[f] \in Mixtures(Output(k), old)
        <5>1. k \in Uploads /\ old.fmt = "artifact"
          BY <1>1, <3>4, <4>1, <4>6, Outputs, Mixed DEF TypeOK
        <5> QED BY <1>1, <3>1, <3>3, <3>5, <4>1, <4>2, <5>1, OpenTogether
      <4>7. CASE EndWrite(k) /\ file'[f] \in Mixtures(TextOf(old), Output(k))
        <5>1. k \in Uploads \ {u}
          BY <1>1, <3>4, <4>1, <4>3, <4>7, TextType, Outputs, Mixed
        <5> QED BY <1>1, <3>1, <3>3, <4>1, <4>2, <5>1, OpenTogether
      <4> QED BY <4>1, <4>2, <4>4, <4>5, <4>6, <4>7
    <3> QED BY <3>6, <3>7
  <2> QED BY <2>2, <2>3
<1> QED BY <1>1, <1>2 DEF TextInv, TextsAreOfRivals

ArtifactInv ==
  /\ NetworkInv /\ TextInv
  /\ ArtifactIsOfUpload /\ ReadingsAreOfUploads /\ SubmittedAreOfUploads

\* No artifact exists before the first command.
LEMMA ArtifactInit == Init => ArtifactInv
<1> SUFFICES ASSUME Init PROVE ArtifactInv
  OBVIOUS
<1>1. \A f \in Files : file[f].fmt # "artifact"
  BY DEF Init, Absent, Bytes, RawEnvelope
<1>2. \A v \in Verifies : job[v] = NoJob /\ reading[v] = NoJob
  BY DEF Init, Processes
<1>3. \A u \in Uploads : ~IsOpen(u)
  BY DEF Init, Processes, IsOpen
<1> QED BY <1>1, <1>2, <1>3, NetworkInit, RivalInit
        DEF ArtifactInv, TextInv, TextsAreOfRivals, ArtifactIsOfUpload, ReadingsAreOfUploads,
            SubmittedAreOfUploads

\* What a saver saves is of uploads, and what is mixed of two such texts is too.
LEMMA SaversArtifact ==
  ASSUME NEW u \in Savers
  PROVE  LET artifact == Artifact(EnvelopeOf(u), job[u].mode)
         IN  IsOfUpload(artifact) /\ IsOfUploads(artifact)
<1> DEFINE artifact == Artifact(EnvelopeOf(u), job[u].mode)
<1>1. IsOfUpload(artifact)
  BY DEF IsOfUpload
<1>2. /\ artifact.upload_receipt.merkle_root = ReceiptRoot(EnvelopeOf(u), job[u].mode)
      /\ artifact.upload_receipt.state_commitment = Statement(EnvelopeOf(u)).state_commitment
      /\ artifact.verifier_input.merkle_root = ReceiptRoot(EnvelopeOf(u), job[u].mode)
      /\ artifact.verifier_input.proof_statement = Statement(EnvelopeOf(u))
      /\ artifact.verifier_input.proof = Prove(Statement(EnvelopeOf(u)))
  BY ArtifactFields
<1> HIDE DEF artifact
<1>3. IsOfUploads(artifact)
  BY <1>2 DEF IsOfUploads, RootsOfUploads, StatementsOfUploads
<1> QED BY <1>1, <1>3 DEF artifact

LEMMA MixtureOfUploads ==
  ASSUME NEW a, NEW b, NEW c, IsOfUploads(a), IsOfUploads(b), PartsOf(c, a, b)
  PROVE  IsOfUploads(c)
BY DEF IsOfUploads, PartsOf, RootsOfUploads

\* What is of uploads stays so.
LEMMA OfUploadsKept ==
  ASSUME TypeOK, ShownKeys, [Next]_vars, NEW c
  PROVE  /\ IsOfUpload(c) => IsOfUpload(c)'
         /\ IsOfUploads(c) => IsOfUploads(c)'
<1>1. \A u \in Savers : /\ u \in Savers' /\ EnvelopeOf(u)' = EnvelopeOf(u)
                        /\ job'[u] = job[u]
  BY SaversKept
<1>2. RootsOfUploads \subseteq RootsOfUploads'
  BY <1>1 DEF RootsOfUploads
<1>3. StatementsOfUploads \subseteq StatementsOfUploads'
  BY <1>1 DEF StatementsOfUploads
<1> QED BY <1>1, <1>2, <1>3 DEF IsOfUpload, IsOfUploads

\* The text that a file has, whole or in part, is of uploads if an artifact.
LEMMA TextsOfUploads ==
  ASSUME ArtifactInv, NEW f \in Files, TextOf(file[f]).fmt = "artifact"
  PROVE  /\ IsOfUploads(TextOf(file[f]))
         /\ IsOfUpload(TextOf(file[f])) \/ OverlapAt(f)
         /\ \/ file[f].fmt = "artifact"
            \/ file[f].fmt = "part" /\ file[f].writer \in Uploads
<1>1. TypeOK /\ PartsHaveWriters /\ SavingAreSavers
  BY DEF ArtifactInv, NetworkInv, TypeInv
<1>2. CASE file[f].fmt = "part"
  <2> DEFINE j == file[f].writer
  <2>1. j \in Writers /\ job[j] # NoJob /\ TextOf(file[f]) = Output(j)
    BY <1>1, <1>2, TextType
  <2>2. j \in Uploads /\ Output(j) = Artifact(EnvelopeOf(j), job[j].mode)
    BY <1>1, <2>1, Outputs
  <2>3. j \in Savers
    BY <1>1, <1>2, <2>2 DEF PartsHaveWriters, SavingAreSavers
  <2> QED BY <1>2, <2>1, <2>2, <2>3, SaversArtifact
<1>3. CASE file[f].fmt # "part"
  BY <1>3 DEF TextOf, ArtifactInv, ArtifactIsOfUpload
<1> QED BY <1>2, <1>3

\* A file that newly holds an artifact has it from an upload about to finish,
\* or mixed by one that has had another upload for a rival.
LEMMA ArtifactChange ==
  ASSUME ArtifactInv, [Next]_vars, NEW f \in Files,
         file'[f] # file[f], file'[f].fmt = "artifact"
  PROVE  /\ IsOfUploads(file'[f])
         /\ IsOfUpload(file'[f]) \/ OverlapAt(f)
<1>1. /\ TypeOK /\ PartsHaveWriters /\ SavingAreSavers /\ TextsAreOfRivals /\ RivalInv
  BY DEF ArtifactInv, NetworkInv, TextInv, TypeInv
<1>2. file'[f] \notin {Bytes(Empty), Bytes(Garbled)} /\ \A i \in Writers : file'[f] # Part(i)
  BY DEF Bytes, Part
<1>3. PICK k \in Writers :
        /\ job[k] # NoJob /\ job[k].out = f
        /\ \/ EndWrite(k) /\ file'[f] = Output(k)
           \/ BeginWrite(k) /\ file'[f] \in Mixtures(Output(k), file[f])
           \/ /\ EndWrite(k) /\ file'[f] \in Mixtures(TextOf(file[f]), Output(k))
              /\ file[f] # Part(k)
  BY <1>1, <1>2, FileChange
<1>4. file[f] \in Contents /\ TextOf(file[f]) \in Contents /\ Output(k) \in Contents
  BY <1>1, <1>3, TextType, Outputs DEF TypeOK
<1>5. Output(k).fmt = "artifact"
  BY <1>3, <1>4, Mixed
<1>6. k \in Uploads /\ Output(k) = Artifact(EnvelopeOf(k), job[k].mode)
  BY <1>1, <1>3, <1>5, Outputs
<1>7. IsOpen(k) /\ k \in Savers
  BY <1>1, <1>3, <1>6 DEF SavingAreSavers, BeginWrite, EndWrite, IsOpen
<1>8. IsOfUpload(Output(k)) /\ IsOfUploads(Output(k))
  BY <1>6, <1>7, SaversArtifact
<1>9. Overlapped(k) => OverlapAt(f)
  BY <1>3, <1>6 DEF OverlapAt
<1>10. CASE file'[f] = Output(k)
  BY <1>8, <1>10
<1>11. CASE BeginWrite(k) /\ file'[f] \in Mixtures(Output(k), file[f])
  <2>1. file[f].fmt = "artifact" /\ PartsOf(file'[f], Output(k), file[f])
    BY <1>4, <1>11, Mixed
  <2>2. IsOfUploads(file[f])
    BY <2>1 DEF ArtifactInv, ArtifactIsOfUpload
  <2>3. IsOfUploads(file'[f])
    BY <1>8, <2>1, <2>2, MixtureOfUploads
  <2>4. Overlapped(k)
    BY <1>1, <1>3, <1>6, <1>7, <2>1 DEF TextsAreOfRivals
  <2> QED BY <1>9, <2>3, <2>4
<1>12. CASE /\ EndWrite(k) /\ file'[f] \in Mixtures(TextOf(file[f]), Output(k))
            /\ file[f] # Part(k)
  <2>1. TextOf(file[f]).fmt = "artifact" /\ PartsOf(file'[f], TextOf(file[f]), Output(k))
    BY <1>4, <1>12, Mixed
  <2>2. /\ IsOfUploads(TextOf(file[f]))
        /\ \/ file[f].fmt = "artifact"
           \/ file[f].fmt = "part" /\ file[f].writer \in Uploads
    BY <2>1, TextsOfUploads
  <2>3. IsOfUploads(file'[f])
    BY <1>8, <2>1, <2>2, MixtureOfUploads
  <2>4. file[f].fmt = "part" => file[f] = Part(file[f].writer)
    BY <1>4, Formats
  <2>5. Overlapped(k)
    BY <1>1, <1>3, <1>6, <1>7, <1>12, <2>2, <2>4 DEF TextsAreOfRivals
  <2> QED BY <1>9, <2>3, <2>5
<1> QED BY <1>3, <1>10, <1>11, <1>12

\* What a verify has begun to read it keeps to the end of the read.
LEMMA ReadingKept ==
  ASSUME TypeOK, [Next]_vars, NEW v \in Verifies, ~VerifyOpen(v), reading'[v] # NoJob
  PROVE  reading'[v] = reading[v]
<1>1. CASE \E w \in Verifies : VerifyOpen(w) \/ VerifyStart(w)
  BY <1>1 DEF VerifyOpen, VerifyStart, TypeOK
<1>2. CASE \E i \in Processes : Refuse(i)
  BY <1>2 DEF Refuse
<1>3. CASE UNCHANGED reading
  BY <1>3
<1> QED BY <1>1, <1>2, <1>3
        DEF Next, vars, UploadStart, StoreDryRun, DispatchLive, Pack, SubmitLive, TransferLive,
            Finalize, SubmitMock, SendEvm, RegisterEvm, RevertEvm, AnswerEvm, DownloadStart,
            Fetch, DecryptStart, OpenOutput, Truncate, BeginWrite, EndWrite, Leave, GiveUp

\* Every step keeps the artifacts in files, and those read by verify, genuine.
LEMMA ArtifactStep == ArtifactInv /\ [Next]_vars => ArtifactInv'
<1> SUFFICES ASSUME ArtifactInv, [Next]_vars PROVE ArtifactInv'
  OBVIOUS
<1>1. TypeOK /\ TypeOK' /\ NetworkInv /\ NetworkInv' /\ TextInv /\ TextInv'
  BY NetworkStep, TextStep DEF ArtifactInv, NetworkInv, TypeInv
<1>2. ASSUME NEW c
      PROVE  /\ IsOfUpload(c) => IsOfUpload(c)'
             /\ IsOfUploads(c) => IsOfUploads(c)'
  BY <1>1, OfUploadsKept DEF NetworkInv
<1>3. Overlap => Overlap'
  BY <1>1, OverlapKept DEF TextInv
<1>4. \A f \in Files : OverlapAt(f) => OverlapAt(f)' /\ Overlap
  BY <1>1, OverlapKept DEF TextInv, OverlapAt, Overlap
<1>5. ASSUME NEW f \in Files, file'[f].fmt = "artifact"
      PROVE  IsOfUploads(file[f])' /\ (IsOfUpload(file[f])' \/ OverlapAt(f)')
  <2>1. IsOfUploads(file'[f]) /\ (IsOfUpload(file'[f]) \/ OverlapAt(f))
    <3>1. CASE file'[f] = file[f]
      BY <3>1, <1>5 DEF ArtifactInv, ArtifactIsOfUpload
    <3>2. CASE file'[f] # file[f]
      BY <3>2, <1>5, ArtifactChange
    <3> QED BY <3>1, <3>2
  <2> DEFINE c == file'[f]
  <2>2. IsOfUploads(c) /\ (IsOfUpload(c) \/ OverlapAt(f))
    BY <2>1
  <2> HIDE DEF c
  <2>3. \A d : (IsOfUpload(d) => IsOfUpload(d)') /\ (IsOfUploads(d) => IsOfUploads(d)')
    BY <1>2
  <2> QED BY <2>2, <2>3, <1>4 DEF c, IsOfUpload, IsOfUploads
<1>6. ASSUME NEW v \in Verifies, job'[v] # NoJob
      PROVE  /\ IsOfUploads(job[v].artifact)'
             /\ IsOfUpload(job[v].artifact)' \/ job'[v].torn \/ Overlap'
  <2>1. CASE VerifyStart(v)
    <3>1. PICK artifact \in Artifacts, mode \in VerifierModes, torn \in BOOLEAN :
            /\ Start(v, "submitting", [artifact |-> artifact, mode |-> mode, torn |-> torn])
            /\ \/ artifact = reading[v].text
               \/ /\ file[reading[v].src].fmt = "artifact"
                  /\ PartsOf(artifact, reading[v].text, file[reading[v].src])
                  /\ torn \/ artifact = file[reading[v].src]
      BY <2>1, <1>1, Read
    <3>2. reading[v] # NoJob /\ reading[v].src \in Files
      BY <2>1, <1>1, Read DEF VerifyStart, Readings
    <3>3. job'[v].artifact = artifact /\ job'[v].torn = torn
      BY <3>1, <1>1 DEF Start, TypeOK, ProcessTypeOK, Processes
    <3>4. /\ IsOfUploads(reading[v].text)
          /\ IsOfUpload(reading[v].text) \/ Overlap
      BY <3>2 DEF ArtifactInv, ReadingsAreOfUploads
    <3>5. file[reading[v].src].fmt = "artifact" =>
            /\ IsOfUploads(file[reading[v].src])
            /\ IsOfUpload(file[reading[v].src]) \/ Overlap
      BY <3>2, <1>4 DEF ArtifactInv, ArtifactIsOfUpload
    <3>6. IsOfUploads(artifact) /\ (IsOfUpload(artifact) \/ torn \/ Overlap)
      <4>1. CASE artifact = reading[v].text
        BY <4>1, <3>4
      <4>2. CASE artifact # reading[v].text
        BY <4>2, <3>1, <3>4, <3>5, MixtureOfUploads
      <4> QED BY <4>1, <4>2
    <3> QED BY <3>3, <3>6, <1>2, <1>3
  <2>2. CASE ~VerifyStart(v)
    <3>1. job'[v] = job[v]
      BY <2>2, <1>1, <1>6, OwnMoves
         DEF VerifyMoves, VerifyOpen, SubmitMock, SendEvm, AnswerEvm, Stops, Refuse,
             GiveUp, Start, TypeOK, ProcessTypeOK, Processes
    <3>2. /\ IsOfUploads(job[v].artifact)
          /\ IsOfUpload(job[v].artifact) \/ job[v].torn \/ Overlap
      BY <3>1, <1>6 DEF ArtifactInv, SubmittedAreOfUploads
    <3> QED BY <3>1, <3>2, <1>2, <1>3
  <2> QED BY <2>1, <2>2
<1>7. ASSUME NEW v \in Verifies, reading'[v] # NoJob
      PROVE  /\ IsOfUploads(reading[v].text)'
             /\ IsOfUpload(reading[v].text)' \/ Overlap'
  <2>1. CASE VerifyOpen(v)
    <3>1. PICK src \in Files : /\ TextOf(file[src]).fmt = "artifact"
                              /\ reading'[v].text = TextOf(file[src])
      BY <2>1, <1>1 DEF VerifyOpen, TypeOK
    <3>2. /\ IsOfUploads(TextOf(file[src]))
          /\ IsOfUpload(TextOf(file[src])) \/ Overlap
      BY <3>1, <1>4, TextsOfUploads
    <3> QED BY <3>1, <3>2, <1>2, <1>3
  <2>2. CASE ~VerifyOpen(v)
    <3>1. reading'[v] = reading[v]
      BY <2>2, <1>1, <1>7, ReadingKept
    <3>2. IsOfUploads(reading[v].text) /\ (IsOfUpload(reading[v].text) \/ Overlap)
      BY <3>1, <1>7 DEF ArtifactInv, ReadingsAreOfUploads
    <3> QED BY <3>1, <3>2, <1>2, <1>3
  <2> QED BY <2>1, <2>2
<1> QED BY <1>1, <1>5, <1>6, <1>7
        DEF ArtifactInv, ArtifactIsOfUpload, ReadingsAreOfUploads, SubmittedAreOfUploads

\* Every artifact, in a file or read by a verify, is of uploads.
THEOREM ArtifactInvariant == Spec => []ArtifactInv
BY ArtifactInit, ArtifactStep, PTL DEF Spec

\* An artifact found in any file names only uploads whose keys were shown and
\* whose payloads the storage nodes hold if they are live; and it is the whole
\* artifact of one, unless two had the path open at the same time.
THEOREM ArtifactsAreOfUploads == Spec => []ArtifactIsOfUpload
BY ArtifactInvariant, PTL DEF ArtifactInv

-----------------------------------------------------------------------------
(* The registry *)

SentInv == TypeInv /\ SentWereChecked

\* What a verify goes through from its submission on.
LEMMA VerifySteps ==
  ASSUME TypeOK, SentWereChecked, [Next]_vars, NEW v \in Verifies
  PROVE  /\ pc'[v] \in {"idle", "submitting", "failed", "sent", "lost", "accepted", "rejected"}
         /\ pc'[v] = "sent" /\ pc[v] # "sent" => SendEvm(v)
         /\ pc'[v] = "lost" /\ pc[v] # "lost" => pc[v] = "sent"
         /\ pc'[v] = "accepted" /\ pc[v] # "accepted" => SubmitMock(v) \/ AnswerEvm(v)
         /\ pc'[v] = "rejected" /\ pc[v] # "rejected" => pc[v] = "sent"
         /\ pc[v] \in {"sent", "lost", "accepted", "rejected"} =>
              pc'[v] \in {"sent", "lost", "accepted", "rejected"} /\ job'[v] = job[v]
         /\ SendEvm(v) \/ SubmitMock(v) \/ AnswerEvm(v) => job'[v] = job[v]
<1>1. /\ v \in Processes /\ v \notin Uploads
      /\ pc[v] \in {"idle", "submitting", "failed", "sent", "lost", "accepted", "rejected"}
  BY LifecycleAssumption DEF Processes, SentWereChecked
<1>2. SendEvm(v) \/ SubmitMock(v) \/ AnswerEvm(v) => job'[v] = job[v]
  BY DEF SendEvm, SubmitMock, AnswerEvm
<1>3. CASE pc'[v] = pc[v] /\ job'[v] = job[v]
  BY <1>1, <1>2, <1>3
<1>4. CASE VerifyStart(v) \/ Refuse(v)
  BY <1>1, <1>4 DEF VerifyStart, SubmitMock, SendEvm, AnswerEvm, Refuse, Start, Goto, TypeOK,
                    ProcessTypeOK
<1>5. CASE SubmitMock(v) \/ SendEvm(v)
  BY <1>1, <1>2, <1>5 DEF SubmitMock, SendEvm, Goto, TypeOK, ProcessTypeOK
<1>6. CASE AnswerEvm(v)
  <2>1. pc[v] = "sent" /\ pc'[v] \in {"accepted", "rejected"}
    BY <1>1, <1>6 DEF AnswerEvm, Goto, TypeOK, ProcessTypeOK
  <2> QED BY <1>2, <1>6, <2>1
<1>7. CASE GiveUp(v)
  <2>1. /\ job'[v] = job[v]
        /\ \/ pc[v] = "sent" /\ pc'[v] = "lost"
           \/ pc[v] = "submitting" /\ pc'[v] = "failed"
    BY <1>1, <1>7 DEF GiveUp, Goto, Running, TypeOK, ProcessTypeOK
  <2> QED BY <1>2, <2>1
<1>8. CASE VerifyOpen(v)
  BY <1>3, <1>8 DEF VerifyOpen
<1> QED BY <1>3, <1>4, <1>5, <1>6, <1>7, <1>8, OwnMoves DEF VerifyMoves, Stops

\* Every step keeps what is mined among what was sent, and what was sent or
\* accepted checked.
LEMMA SentStep == SentInv /\ [Next]_vars => SentInv'
<1> SUFFICES ASSUME SentInv, [Next]_vars PROVE SentInv'
  OBVIOUS
<1>1. TypeOK /\ TypeOK' /\ TypeInv' /\ SentWereChecked
  BY TypeInvStep DEF SentInv, TypeInv
<1>2. \A v \in Verifies :
        /\ pc'[v] \in {"idle", "submitting", "failed", "sent", "lost", "accepted", "rejected"}
        /\ pc'[v] \in {"sent", "lost", "accepted", "rejected"} => job'[v] # NoJob
  BY <1>1, VerifySteps DEF TypeOK, ProcessTypeOK, Processes
<1>3. ASSUME NEW v \in Verifies, pc[v] = "sent" \/ v \in registered \cup reverted
      PROVE  /\ job[v] # NoJob /\ job[v].mode = "evm"
             /\ EvmValidate(job[v].artifact.verifier_input)
             /\ job'[v] = job[v] /\ pc'[v] \in {"sent", "lost", "accepted", "rejected"}
  BY <1>1, <1>3, VerifySteps DEF SentWereChecked
<1>4. ASSUME NEW v \in Verifies, pc'[v] \in {"sent", "lost"}
      PROVE  /\ job'[v] # NoJob /\ job'[v].mode = "evm"
             /\ EvmValidate(job'[v].artifact.verifier_input)
  <2>1. CASE SendEvm(v)
    <3>1. job'[v] = job[v] /\ job[v].mode = "evm" /\ EvmValidate(job[v].artifact.verifier_input)
      BY <2>1 DEF SendEvm
    <3> QED BY <1>2, <1>4, <3>1
  <2>2. CASE pc[v] \in {"sent", "lost"}
    BY <1>1, <2>2, VerifySteps DEF SentWereChecked
  <2> QED BY <1>1, <1>4, <2>1, <2>2, VerifySteps
<1>5. ASSUME NEW v \in registered' \cup reverted'
      PROVE  /\ job'[v] # NoJob /\ job'[v].mode = "evm"
             /\ EvmValidate(job'[v].artifact.verifier_input)
             /\ pc'[v] \in {"sent", "lost", "accepted", "rejected"}
  <2>1. v \in Verifies
    BY <1>1 DEF TypeOK
  <2>2. CASE v \in registered \cup reverted
    BY <1>3, <2>1, <2>2
  <2>3. CASE v \notin registered \cup reverted
    <3>1. RegisterEvm(v) \/ RevertEvm(v)
      BY <2>3, Growth
    <3>2. pc'[v] = pc[v] /\ pc[v] \in {"sent", "lost"}
      BY <3>1 DEF RegisterEvm, RevertEvm
    <3> QED BY <1>4, <2>1, <3>2
  <2> QED BY <2>2, <2>3
<1>6. ASSUME NEW v \in Verifies, pc'[v] = "accepted"
      PROVE  LET input == job'[v].artifact.verifier_input
             IN  MockValidate(input) \/ EvmValidate(input)
  <2>1. CASE pc[v] = "accepted"
    BY <1>1, <2>1, VerifySteps DEF SentWereChecked
  <2>2. CASE SubmitMock(v)
    BY <2>2 DEF SubmitMock
  <2>3. CASE AnswerEvm(v)
    BY <1>3, <2>3 DEF AnswerEvm
  <2> QED BY <1>1, <1>6, <2>1, <2>2, <2>3, VerifySteps
<1>7. registered' \cap reverted' = {}
  <2>1. registered \cap reverted = {}
    BY <1>1 DEF SentWereChecked
  <2>2. ASSUME NEW v \in registered' \ registered PROVE v \notin reverted'
    BY <2>2, Growth DEF RegisterEvm
  <2>3. ASSUME NEW v \in reverted' \ reverted PROVE v \notin registered'
    BY <2>3, Growth DEF RevertEvm
  <2> QED BY <2>1, <2>2, <2>3
<1>8. SentWereChecked'
  BY <1>2, <1>4, <1>5, <1>6, <1>7 DEF SentWereChecked
<1> QED BY <1>1, <1>8 DEF SentInv

\* Only what an EVM session has checked and sent is ever mined.
THEOREM SentInvariant == Spec => []SentInv
<1>1. Init => SentInv
  BY TypeInit DEF Init, SentInv, TypeInv, SentWereChecked, Processes
<1> QED BY <1>1, SentStep, PTL DEF Spec

\* A proof that a verifier takes is the proof of the statement it comes with.
LEMMA CheckedProof ==
  ASSUME NEW artifact, IsOfUploads(artifact),
         MockValidate(artifact.verifier_input) \/ EvmValidate(artifact.verifier_input)
  PROVE  \E u \in Savers :
           /\ artifact.verifier_input.proof_statement = Statement(EnvelopeOf(u))
           /\ artifact.verifier_input.proof = Prove(Statement(EnvelopeOf(u)))
<1> DEFINE input == artifact.verifier_input
<1>1. ZkVerify(input.proof_statement, input.proof)
  BY DEF MockValidate, EvmValidate
<1>2. PICK u \in Savers : input.proof_statement = Statement(EnvelopeOf(u))
  BY DEF IsOfUploads, StatementsOfUploads
<1>3. PICK s \in StatementsOfUploads : input.proof = Prove(s)
  BY DEF IsOfUploads
<1>4. MockProofBytes(s) = MockProofBytes(input.proof_statement)
  BY <1>1, <1>3 DEF ZkVerify, Prove
<1>5. s = input.proof_statement
  BY <1>4 DEF MockProofBytes
<1> QED BY <1>2, <1>3, <1>5

\* The call of a verify whose artifact is of one upload is that upload's entry.
LEMMA WholeArtifactsCall ==
  ASSUME NEW v \in Verifies, IsOfUpload(job[v].artifact)
  PROVE  \E u \in Savers :
           /\ job[v].artifact.verifier_input.proof_statement = Statement(EnvelopeOf(u))
           /\ job[v].artifact.verifier_input.proof = Prove(Statement(EnvelopeOf(u)))
           /\ CallOf(v) = EntryOf(EnvelopeOf(u), job[u].mode)
<1>1. PICK u \in Savers : job[v].artifact = Artifact(EnvelopeOf(u), job[u].mode)
  BY DEF IsOfUpload
<1>2. /\ job[v].artifact.verifier_input.proof_statement = Statement(EnvelopeOf(u))
      /\ job[v].artifact.verifier_input.proof = Prove(Statement(EnvelopeOf(u)))
      /\ job[v].artifact.verifier_input.merkle_root = ReceiptRoot(EnvelopeOf(u), job[u].mode)
      /\ UploadPayload(EnvelopeOf(u)).state_commitment = Statement(EnvelopeOf(u)).state_commitment
  BY <1>1, ArtifactFields
<1>3. CallOf(v) = EntryOf(EnvelopeOf(u), job[u].mode)
  BY <1>2 DEF CallOf, EntryOf
<1> QED BY <1>2, <1>3

\* Whatever files uploads have mixed, what a verify submits or vouches for is
\* the statement and the proof of one upload, whose key its user has; and the
\* root with it is this upload's too unless two uploads have overlapped, or one
\* has saved while this verify was reading.
THEOREM VouchedAreOfUploads == Spec => []VouchedIsOfUpload
<1>1. ArtifactInv /\ SentInv => VouchedIsOfUpload
  <2> SUFFICES ASSUME ArtifactInv, SentInv,
                      NEW v \in Verifies, v \in registered \/ pc[v] = "accepted"
               PROVE  \E u \in Savers :
                        /\ job[v].artifact.verifier_input.proof_statement = Statement(EnvelopeOf(u))
                        /\ job[v].artifact.verifier_input.proof = Prove(Statement(EnvelopeOf(u)))
                        /\ \/ CallOf(v) = EntryOf(EnvelopeOf(u), job[u].mode)
                           \/ job[v].torn \/ Overlap
    BY DEF VouchedIsOfUpload
  <2>1. /\ job[v] # NoJob
        /\ \/ MockValidate(job[v].artifact.verifier_input)
           \/ EvmValidate(job[v].artifact.verifier_input)
    BY RunningHasJob DEF SentInv, TypeInv, SentWereChecked, Processes
  <2>2. /\ IsOfUploads(job[v].artifact)
        /\ IsOfUpload(job[v].artifact) \/ job[v].torn \/ Overlap
    BY <2>1 DEF ArtifactInv, SubmittedAreOfUploads
  <2>3. CASE IsOfUpload(job[v].artifact)
    BY <2>3, WholeArtifactsCall
  <2>4. CASE job[v].torn \/ Overlap
    BY <2>1, <2>2, <2>4, CheckedProof
  <2> QED BY <2>2, <2>3, <2>4
<1> QED BY <1>1, ArtifactInvariant, SentInvariant, PTL

\* When every upload is live, what the contract registers is anchored in
\* storage, unless uploads have overlapped or one has saved while a verify was
\* reading.  (Both are needed: verify looks neither at the mode nor at what ties
\* a root to a commitment.)
THEOREM RegistryIsAnchored ==
  ASSUME StorageModes \subseteq {"live"}
  PROVE  Spec => [](RegisteredIsAnchored \/ TornRead \/ Overlap)
<1>1. VouchedIsOfUpload /\ SentInv /\ NetworkInv => RegisteredIsAnchored \/ TornRead \/ Overlap
  <2> SUFFICES ASSUME VouchedIsOfUpload, SentInv, NetworkInv, ~TornRead, ~Overlap, NEW v \in registered
               PROVE  \E payload \in held :
                        /\ CallOf(v).storage_root = MerkleRoot(payload)
                        /\ CallOf(v).state_commitment = payload.state_commitment
    BY DEF RegisteredIsAnchored
  <2>1. v \in Verifies /\ ~job[v].torn
    BY DEF NetworkInv, TypeInv, TypeOK, SentInv, SentWereChecked, TornRead
  <2>2. PICK u \in Savers : CallOf(v) = EntryOf(EnvelopeOf(u), job[u].mode)
    BY <2>1 DEF VouchedIsOfUpload
  <2>3. job[u].mode = "live"
    BY DEF Savers, NetworkInv, ShownKeys, UploadJobs
  <2>4. UploadPayload(EnvelopeOf(u)) \in held
    BY <2>3 DEF Savers
  <2> QED BY <2>2, <2>3, <2>4 DEF EntryOf, ReceiptRoot, Hex
<1> QED BY <1>1, VouchedAreOfUploads, SentInvariant, NetworkInvariant, PTL

\* Whatever is sealed, in whatever mode it is uploaded: its artifact is valid.
LEMMA ArtifactIsValid ==
  ASSUME NEW e \in Envelopes, NEW mode \in StorageModes
  PROVE  /\ ValidateArtifact(Artifact(e, mode))
         /\ MockValidate(Artifact(e, mode).verifier_input)
         /\ EvmValidate(Artifact(e, mode).verifier_input)
<1> DEFINE statement == Statement(e)
           artifact  == Artifact(e, mode)
           input     == artifact.verifier_input
<1>1. /\ input.proof_statement = statement
      /\ input.proof = Prove(statement)
      /\ input.merkle_root = ReceiptRoot(e, mode)
      /\ artifact.version = 1
      /\ artifact.upload_receipt.state_commitment = statement.state_commitment
  BY ArtifactFields
<1>2. ReceiptRoot(e, mode).prefixed = TRUE
  BY DEF ReceiptRoot, Hex
<1>3. mode \in {"dry_run", "live"}
  BY LifecycleAssumption
<1>4. ParsesAsBytes32(ReceiptRoot(e, mode)) /\ statement.state_commitment # ZeroBytes32
  BY <1>3, DigestAssumption DEF ParsesAsBytes32, Statement
<1>5. ZkVerify(statement, Prove(statement))
  BY DEF ZkVerify, Prove
<1> HIDE DEF artifact
<1>6. ValidateArtifact(artifact) /\ MockValidate(input) /\ EvmValidate(input)
  BY <1>1, <1>2, <1>4, <1>5 DEF ValidateArtifact, MockValidate, EvmValidate
<1> QED BY <1>6 DEF artifact

\* Every whole artifact found in a file passes the checks of verify and of both
\* adapters, whichever upload has written it; and what passes them, however
\* mixed, has the commitment, the statement and the proof of one upload.
THEOREM ArtifactsVerify == Spec => []SavedArtifactVerifies
<1>1. ArtifactInv => SavedArtifactVerifies
  <2> SUFFICES ASSUME ArtifactInv, NEW f \in Files, file[f].fmt = "artifact"
               PROVE  LET artifact == file[f]
                          input    == artifact.verifier_input
                      IN  /\ IsOfUpload(artifact) =>
                               /\ ValidateArtifact(artifact)
                               /\ MockValidate(input) /\ EvmValidate(input)
                          /\ ValidateArtifact(artifact) /\ (MockValidate(input) \/ EvmValidate(input)) =>
                               \E s \in StatementsOfUploads :
                                 /\ artifact.upload_receipt.state_commitment = s.state_commitment
                                 /\ input.proof_statement = s /\ input.proof = Prove(s)
    BY DEF SavedArtifactVerifies
  <2> DEFINE artifact == file[f]
             input    == artifact.verifier_input
  <2>1. ASSUME IsOfUpload(artifact)
        PROVE  ValidateArtifact(artifact) /\ MockValidate(input) /\ EvmValidate(input)
    <3>1. PICK u \in Savers : artifact = Artifact(EnvelopeOf(u), job[u].mode)
      BY <2>1 DEF IsOfUpload
    <3>2. u \in Uploads /\ job[u] \in UploadJobs /\ job[u] # NoJob
      BY LifecycleAssumption DEF Savers, ArtifactInv, NetworkInv, ShownKeys
    <3>3. EnvelopeOf(u) \in Envelopes /\ job[u].mode \in StorageModes
      BY <3>2, PayloadType DEF ArtifactInv, NetworkInv, TypeInv, UploadJobs
    <3> QED BY <3>1, <3>3, ArtifactIsValid
  <2>2. ASSUME ValidateArtifact(artifact), MockValidate(input) \/ EvmValidate(input)
        PROVE  \E s \in StatementsOfUploads :
                 /\ artifact.upload_receipt.state_commitment = s.state_commitment
                 /\ input.proof_statement = s /\ input.proof = Prove(s)
    <3>1. IsOfUploads(artifact)
      BY DEF ArtifactInv, ArtifactIsOfUpload
    <3>2. PICK u \in Savers : /\ input.proof_statement = Statement(EnvelopeOf(u))
                             /\ input.proof = Prove(Statement(EnvelopeOf(u)))
      BY <2>2, <3>1, CheckedProof
    <3> QED BY <2>2, <3>2 DEF StatementsOfUploads, ValidateArtifact
  <2> QED BY <2>1, <2>2
<1> QED BY <1>1, ArtifactInvariant, PTL

-----------------------------------------------------------------------------
(* Decryption *)

SealedInv == NetworkInv /\ OnlySealed /\ DecryptIsAuthentic

\* The envelopes of the first files are those of the crypto crate's users.
LEMMA SealedInit == Init => SealedInv
<1> SUFFICES ASSUME Init PROVE SealedInv
  OBVIOUS
<1>1. \A f \in Files : HoldsEnvelope(file[f]) =>
        file[f].encrypted_blob \in LibraryEnvelopes
  BY DEF Init, HoldsEnvelope, Absent, Bytes, RawEnvelope
<1>2. \A i \in Downloads \cup Decrypts : job[i] = NoJob
  BY DEF Init, Processes
<1> QED BY <1>1, <1>2, NetworkInit DEF SealedInv, OnlySealed, DecryptIsAuthentic, Sealed

\* An envelope that opens under a key and associated data is what encrypt makes
\* of its message under them.
LEMMA OpensIsEncrypt ==
  ASSUME NEW envelope \in Envelopes, NEW key, NEW aad, Opens(envelope, key, aad)
  PROVE  Encrypt(key, envelope.msg, aad) = envelope
BY DEF Envelopes, Opens, Encrypt

\* What has been sealed stays sealed, and nodes serve nothing else.
LEMMA SealedKept ==
  ASSUME NetworkInv, [Next]_vars
  PROVE  /\ Sealed \subseteq Sealed'
         /\ \A reply \in Bodies : HoldsEnvelope(reply) => reply.encrypted_blob \in Sealed
<1>1. TypeOK
  BY DEF NetworkInv, TypeInv
<1>2. Sealed \subseteq Sealed'
  <2> SUFFICES ASSUME NEW u \in Uploads \cap userKeys
               PROVE  u \in userKeys' /\ EnvelopeOf(u) = EnvelopeOf(u)'
    BY DEF Sealed
  <2>1. pc[u] # "idle"
    BY DEF NetworkInv, ShownKeys
  <2> QED BY <2>1, <1>1, Kept, PayloadKept
<1>3. \A payload \in final : payload.encrypted_blob \in Sealed
  <2> TAKE payload \in final
  <2>1. payload \in packed
    BY <1>1 DEF NetworkInv, TypeOK, HeldIsPacked
  <2>2. PICK u \in Uploads \cap userKeys : payload = UploadPayload(EnvelopeOf(u))
    BY <2>1 DEF NetworkInv, PackedByUploads
  <2> QED BY <2>2 DEF UploadPayload, Sealed
<1> QED BY <1>1, <1>2, <1>3, BodyTypes DEF Sealed

\* No step puts an envelope into a file or a reply that nobody has sealed.
LEMMA SealedStep == SealedInv /\ [Next]_vars => SealedInv'
<1> SUFFICES ASSUME SealedInv, [Next]_vars PROVE SealedInv'
  OBVIOUS
<1>1. TypeOK /\ PartsHaveWriters /\ NetworkInv /\ NetworkInv' /\ TypeOK'
  BY NetworkStep DEF SealedInv, NetworkInv, TypeInv
<1>2. /\ Sealed \subseteq Sealed'
      /\ \A reply \in Bodies : HoldsEnvelope(reply) => reply.encrypted_blob \in Sealed
  BY <1>1, SealedKept
<1>3. ASSUME NEW f \in Files, HoldsEnvelope(file'[f])
      PROVE  file'[f].encrypted_blob \in Sealed'
  <2>1. CASE file'[f] = file[f]
    BY <2>1, <1>2, <1>3 DEF SealedInv, OnlySealed
  <2>2. CASE file'[f] # file[f]
    <3>1. PICK i \in Writers :
            /\ job[i] # NoJob
            /\ \/ file'[f] \in {Bytes(Empty), Bytes(Garbled), Part(i)}
               \/ file'[f] = Output(i)
               \/ file'[f] \in Mixtures(Output(i), file[f])
               \/ file'[f] \in Mixtures(TextOf(file[f]), Output(i))
      BY <2>2, <1>1, FileChange
    <3>2. file'[f].fmt # "artifact" /\ file'[f] \notin {Bytes(Empty), Bytes(Garbled), Part(i)}
      BY <1>3 DEF Bytes, Part, HoldsEnvelope
    <3>3. file'[f] = Output(i)
      BY <1>1, <3>1, <3>2, Outputs, TextType, Mixed DEF TypeOK
    <3>4. i \in Downloads /\ file'[f] = job[i].reply
      <4>1. i \notin Uploads
        BY <1>1, <3>1, <3>2, <3>3, Outputs, ArtifactFields
      <4>2. i \notin Decrypts
        BY <1>1, <1>3, <3>1, <3>3, Outputs DEF Bytes, HoldsEnvelope
      <4> QED BY <1>1, <3>1, <3>3, <4>1, <4>2, Outputs DEF Writers
    <3> QED BY <3>1, <3>4, <1>2, <1>3 DEF SealedInv, OnlySealed
  <2> QED BY <2>1, <2>2
<1>4. ASSUME NEW d \in Downloads, job'[d] # NoJob, HoldsEnvelope(job'[d].reply)
      PROVE  job'[d].reply.encrypted_blob \in Sealed'
  <2>1. CASE job'[d] = job[d]
    BY <2>1, <1>2, <1>4 DEF SealedInv, OnlySealed
  <2>2. CASE DownloadStart(d)
    <3>1. job'[d].reply = Absent
      BY <2>2, <1>1 DEF DownloadStart, Start, TypeOK, ProcessTypeOK, Processes
    <3> QED BY <3>1, <1>4 DEF Absent, HoldsEnvelope
  <2>3. CASE Fetch(d)
    <3>1. job[d] \in DownloadJobs
      BY <2>3, <1>1, RunningHasJob DEF Fetch, TypeOK, ProcessTypeOK, Processes
    <3>2. job'[d].reply \in Bodies
      BY <2>3, <3>1, <1>1 DEF Fetch, TypeOK, ProcessTypeOK, Processes, DownloadJobs
    <3> QED BY <3>2, <1>2, <1>4
  <2>4. CASE Refuse(d)
    BY <2>4, <1>1, <1>4 DEF Refuse, Start, TypeOK, ProcessTypeOK, Processes
  <2> QED
    BY <2>1, <2>2, <2>3, <2>4, <1>1, OwnMoves
       DEF DownloadMoves, Saves, OpenOutput, Truncate, BeginWrite, EndWrite, Leave, Stops, GiveUp
<1>5. ASSUME NEW x \in Decrypts, job'[x] # NoJob
      PROVE  Encrypt(job'[x].key, job'[x].msg, job'[x].aad) \in Sealed'
  <2>1. CASE job'[x] = job[x]
    BY <2>1, <1>2, <1>5 DEF SealedInv, DecryptIsAuthentic
  <2>2. CASE DecryptStart(x)
    <3>1. PICK src \in Files, out \in Files, key \in userKeys, aad \in Aads :
            /\ HoldsEnvelope(file[src])
            /\ Opens(file[src].encrypted_blob, key, aad)
            /\ Start(x, "saving", [key |-> key, aad |-> aad, out |-> out,
                                   msg |-> file[src].encrypted_blob.msg])
      BY <2>2 DEF DecryptStart
    <3> DEFINE envelope == file[src].encrypted_blob
    <3>2. envelope \in Envelopes /\ envelope \in Sealed
      BY <3>1, <1>1, Formats DEF TypeOK, SealedInv, OnlySealed
    <3>3. Encrypt(key, envelope.msg, aad) = envelope
      BY <3>1, <3>2, OpensIsEncrypt
    <3>4. job'[x] = [key |-> key, aad |-> aad, out |-> out, msg |-> envelope.msg]
      BY <3>1, <1>1 DEF Start, TypeOK, ProcessTypeOK, Processes
    <3> QED BY <3>2, <3>3, <3>4, <1>2
  <2>3. CASE Refuse(x)
    BY <2>3, <1>1, <1>5 DEF Refuse, Start, TypeOK, ProcessTypeOK, Processes
  <2> QED
    BY <2>1, <2>2, <2>3, <1>1, OwnMoves
       DEF DecryptMoves, Saves, OpenOutput, Truncate, BeginWrite, EndWrite, Leave, Stops, GiveUp
<1> QED BY <1>1, <1>3, <1>4, <1>5 DEF SealedInv, OnlySealed, DecryptIsAuthentic

\* Sealed envelopes only, in files and replies.
THEOREM SealedInvariant == Spec => []SealedInv
BY SealedInit, SealedStep, PTL DEF Spec

\* A decrypt that succeeds has recovered a message that was sealed under the
\* key and associated data it was given, whichever payload or envelope a node
\* has answered with, asked for or not, and whatever was left in the file.
THEOREM DecryptionIsAuthentic == Spec => []DecryptIsAuthentic
BY SealedInvariant, PTL DEF SealedInv

-----------------------------------------------------------------------------
(* Replies, and overwriting *)

ReplyInv == TypeInv /\ RepliesAreFetched

\* A download keeps its reply from the response to the end.
LEMMA ReplyStep == ReplyInv /\ [Next]_vars => ReplyInv'
<1> SUFFICES ASSUME ReplyInv, [Next]_vars PROVE ReplyInv'
  OBVIOUS
<1>1. TypeOK /\ TypeOK' /\ TypeInv'
  BY TypeInvStep DEF ReplyInv, TypeInv
<1>2. ASSUME NEW d \in Downloads, pc'[d] \in {"saving", "opened", "writing", "done"}
      PROVE  job'[d].reply # Absent
  <2>1. CASE pc[d] \in {"saving", "opened", "writing", "done"}
    BY <2>1, <1>1, Kept DEF ReplyInv, RepliesAreFetched, Processes
  <2>2. CASE pc[d] \notin {"saving", "opened", "writing", "done"}
    <3>1. d \in Processes /\ d \in Writers
      BY DEF Processes, Writers
    <3>2. pc'[d] = "saving"
      BY <1>1, <1>2, <2>2, <3>1, WriterMoves DEF OpenOutput, BeginWrite, EndWrite
    <3>3. Fetch(d)
      BY <2>2, <1>1, <3>1, <3>2, OwnMoves
         DEF DownloadMoves, DownloadStart, Saves, OpenOutput, Truncate, BeginWrite, EndWrite,
             Stops, Refuse, GiveUp, Start, Goto, TypeOK, ProcessTypeOK
    <3>4. job[d] \in DownloadJobs
      BY <3>1, <3>3, <1>1, RunningHasJob DEF Fetch, TypeOK, ProcessTypeOK
    <3>5. job'[d].reply \in Bodies
      BY <3>1, <3>3, <3>4, <1>1 DEF Fetch, TypeOK, ProcessTypeOK, DownloadJobs
    <3>6. job'[d].reply \in {Bytes(Garbled)} \cup Payloads \cup {RawEnvelope(e) : e \in Envelopes}
      BY <1>1, <3>5, BodyTypes
    <3> QED BY <3>6 DEF Payloads, UploadPayload, RawEnvelope, Bytes, Absent
  <2> QED BY <2>1, <2>2
<1> QED BY <1>1, <1>2 DEF ReplyInv, RepliesAreFetched

\* A download that saves has had a reply.
THEOREM ReplyInvariant == Spec => []ReplyInv
<1>1. Init => ReplyInv
  BY TypeInit DEF Init, ReplyInv, TypeInv, RepliesAreFetched, Processes
<1> QED BY <1>1, ReplyStep, PTL DEF Spec

\* No command that fails before it has its result costs the user the file that
\* was at its path.
THEOREM OverwritesAreEarned == Spec => OverwriteIsEarned
<1>1. NetworkInv /\ ReplyInv /\ [Next]_vars =>
        [\A f \in Files : file'[f] # file[f] =>
           \E i \in Writers : job[i] # NoJob /\ job[i].out = f /\ Earned(i)]_file
  <2> SUFFICES ASSUME NetworkInv, ReplyInv, [Next]_vars,
                      NEW f \in Files, file'[f] # file[f]
               PROVE  \E i \in Writers :
                        job[i] # NoJob /\ job[i].out = f /\ Earned(i)
    OBVIOUS
  <2>1. PICK i \in Writers :
          pc[i] \in {"saving", "opened", "writing"} /\ job[i] # NoJob /\ job[i].out = f
    BY FileChange DEF NetworkInv, TypeInv
  <2>2. CASE i \in Uploads
    BY <2>1, <2>2 DEF Earned, NetworkInv, SavingAreSavers, Savers
  <2>3. CASE i \in Downloads
    BY <2>1, <2>3 DEF Earned, ReplyInv, RepliesAreFetched
  <2>4. CASE i \in Decrypts
    BY <2>1, <2>4 DEF Earned
  <2> QED BY <2>1, <2>2, <2>3, <2>4 DEF Writers
<1> QED BY <1>1, NetworkInvariant, ReplyInvariant, PTL DEF Spec, OverwriteIsEarned

-----------------------------------------------------------------------------
(* From end to end *)

\* What is decrypted under the key of an upload is what this upload was given.
DecryptsReturnUploads ==
  \A x \in Decrypts, u \in Uploads :
    job[x] # NoJob /\ job[x].key = u =>
      u \in userKeys /\ job[x].msg = job[u].msg /\ job[x].aad = job[u].aad

\* From the plaintext and back: a decrypt under the key that an upload has shown
\* returns this upload's plaintext under its associated data and nothing else,
\* though nodes may answer a download with another upload's payload, and though
\* uploads, downloads and decrypts write over each other's files.
THEOREM RoundTrip == Spec => []DecryptsReturnUploads
<1>1. DecryptIsAuthentic => DecryptsReturnUploads
  <2> SUFFICES ASSUME DecryptIsAuthentic, NEW x \in Decrypts, NEW u \in Uploads,
                      job[x] # NoJob, job[x].key = u
               PROVE  u \in userKeys /\ job[x].msg = job[u].msg /\ job[x].aad = job[u].aad
    BY DEF DecryptsReturnUploads
  <2> DEFINE envelope == Encrypt(job[x].key, job[x].msg, job[x].aad)
  <2>1. envelope \in Sealed
    BY DEF DecryptIsAuthentic
  <2>2. envelope.key = u /\ envelope.msg = job[x].msg /\ envelope.aad = job[x].aad
    BY DEF Encrypt
  <2>3. envelope \notin LibraryEnvelopes
    BY <2>2, LifecycleAssumption DEF LibraryKeys
  <2>4. PICK w \in Uploads \cap userKeys : envelope = EnvelopeOf(w)
    BY <2>1, <2>3 DEF Sealed
  <2>5. envelope.key = w /\ envelope.msg = job[w].msg /\ envelope.aad = job[w].aad
    BY <2>4 DEF EnvelopeOf, Encrypt
  <2> QED BY <2>2, <2>4, <2>5
<1> QED BY <1>1, DecryptionIsAuthentic, PTL

\* A download asks for a root that an artifact has named.
RootsAreOfUploads == \A d \in Downloads : job[d] # NoJob => job[d].root \in RootsOfUploads

\* A download whose reply has the root that was asked for: what nobody compares.
MatchingReplies ==
  \A d \in Downloads :
    job[d] # NoJob /\ job[d].reply \in Payloads /\ Hex(MerkleRoot(job[d].reply)) = job[d].root =>
      \E u \in Savers :
        /\ job[u].mode = "live" /\ job[d].root = ReceiptRoot(EnvelopeOf(u), "live")
        /\ job[d].reply = UploadPayload(EnvelopeOf(u))

TripInv == ArtifactInv /\ RootsAreOfUploads

\* The root of an artifact is the root of the payload of its live upload and of
\* no other; a dry run's is the root of none.
LEMMA RootTellsUpload ==
  ASSUME NEW e \in Envelopes, NEW f \in Envelopes, NEW mode \in {"dry_run", "live"},
         Hex(MerkleRoot(UploadPayload(f))) = ReceiptRoot(e, mode)
  PROVE  mode = "live" /\ f = e
<1>1. MerkleRoot(UploadPayload(f)) = ReceiptRoot(e, mode).digest
  BY DEF Hex
<1>2. CASE mode = "dry_run"
  <2>1. ReceiptRoot(e, mode).digest = Commit(UploadPayload(e), "pqsp:v1:dry-run-storage-root")
    BY <1>2 DEF ReceiptRoot, Hex
  <2>2. /\ DOMAIN MerkleRoot(UploadPayload(f)) = {"tree"}
        /\ "domain" \in DOMAIN Commit(UploadPayload(e), "pqsp:v1:dry-run-storage-root")
    BY DEF MerkleRoot, Commit
  <2> QED BY <1>1, <2>1, <2>2
<1>3. CASE mode = "live"
  <2>1. ReceiptRoot(e, mode).digest = MerkleRoot(UploadPayload(e))
    BY <1>3 DEF ReceiptRoot, Hex
  <2>2. UploadPayload(f) = UploadPayload(e)
    BY <1>1, <2>1 DEF MerkleRoot
  <2> QED BY <1>3, <2>2 DEF UploadPayload
<1> QED BY <1>2, <1>3

\* Nor is the mixture of two roots.
LEMMA MixedRootIsNone ==
  ASSUME NEW f \in Envelopes
  PROVE  Hex(MerkleRoot(UploadPayload(f))) # Hex(MixedBytes32)
<1>1. ReceiptRoot(f, "live").digest = MerkleRoot(UploadPayload(f))
  BY DEF ReceiptRoot, Hex
<1>2. ReceiptRoot(f, "live").digest # MixedBytes32
  BY DigestAssumption
<1> QED BY <1>1, <1>2 DEF Hex

\* Every step keeps the roots that are asked for those of uploads.
LEMMA TripStep == TripInv /\ [Next]_vars => TripInv'
<1> SUFFICES ASSUME TripInv, [Next]_vars PROVE TripInv'
  OBVIOUS
<1>1. ArtifactInv /\ ArtifactInv' /\ TypeOK /\ TypeOK' /\ ShownKeys
  BY ArtifactStep DEF TripInv, ArtifactInv, NetworkInv, TypeInv
<1>2. RootsOfUploads \subseteq RootsOfUploads'
  BY <1>1, SaversKept DEF RootsOfUploads
<1>3. ASSUME NEW d \in Downloads, job'[d] # NoJob PROVE job'[d].root \in RootsOfUploads'
  <2>1. CASE job'[d] = job[d]
    BY <1>2, <1>3, <2>1 DEF TripInv, RootsAreOfUploads
  <2>2. CASE DownloadStart(d)
    <3>1. PICK src \in Files : /\ file[src].fmt = "artifact"
                              /\ job'[d].root = file[src].upload_receipt.merkle_root
      BY <2>2, <1>1 DEF DownloadStart, Start, TypeOK, ProcessTypeOK, Processes
    <3> QED BY <3>1, <1>1, <1>2 DEF ArtifactInv, ArtifactIsOfUpload, IsOfUploads
  <2>3. CASE Fetch(d)
    <3>1. job[d] \in DownloadJobs /\ job[d] # NoJob
      BY <2>3, <1>1, RunningHasJob DEF Fetch, TypeOK, ProcessTypeOK, Processes
    <3>2. job'[d].root = job[d].root
      BY <2>3, <3>1, <1>1 DEF Fetch, TypeOK, ProcessTypeOK, Processes, DownloadJobs
    <3> QED BY <1>2, <3>1, <3>2 DEF TripInv, RootsAreOfUploads
  <2>4. CASE Refuse(d)
    BY <1>1, <1>3, <2>4 DEF Refuse, Start, TypeOK, ProcessTypeOK, Processes
  <2> QED
    BY <2>1, <2>2, <2>3, <2>4, <1>1, OwnMoves
       DEF DownloadMoves, Saves, OpenOutput, Truncate, BeginWrite, EndWrite, Leave, Stops, GiveUp
<1> QED BY <1>1, <1>3 DEF TripInv, RootsAreOfUploads

\* Nothing compares a reply with the root that was asked for, and any payload
\* may come; but one that has this root is the payload of the live upload that
\* the artifact named, in whatever way the artifact came about.  For a dry run
\* and for a mixed root no payload has it.
THEOREM RootsTellReplies == Spec => []MatchingReplies
<1>1. Init => TripInv
  BY ArtifactInit DEF Init, TripInv, RootsAreOfUploads, Processes
<1>2. TripInv => MatchingReplies
  <2> SUFFICES ASSUME TripInv, NEW d \in Downloads, job[d] # NoJob, job[d].reply \in Payloads,
                      Hex(MerkleRoot(job[d].reply)) = job[d].root
               PROVE  \E u \in Savers :
                        /\ job[u].mode = "live" /\ job[d].root = ReceiptRoot(EnvelopeOf(u), "live")
                        /\ job[d].reply = UploadPayload(EnvelopeOf(u))
    BY DEF MatchingReplies
  <2>1. PICK f \in Envelopes : job[d].reply = UploadPayload(f)
    BY DEF Payloads
  <2>2. PICK u \in Savers : job[d].root = ReceiptRoot(EnvelopeOf(u), job[u].mode)
    BY <2>1, MixedRootIsNone DEF TripInv, RootsAreOfUploads, RootsOfUploads
  <2>3. EnvelopeOf(u) \in Envelopes /\ job[u].mode \in {"dry_run", "live"}
    <3>1. u \in Uploads /\ job[u] \in UploadJobs /\ job[u] # NoJob
      BY LifecycleAssumption DEF Savers, TripInv, ArtifactInv, NetworkInv, ShownKeys
    <3> QED BY <3>1, PayloadType, LifecycleAssumption
            DEF TripInv, ArtifactInv, NetworkInv, TypeInv, UploadJobs
  <2>4. job[u].mode = "live" /\ f = EnvelopeOf(u)
    BY <2>1, <2>2, <2>3, RootTellsUpload
  <2> QED BY <2>1, <2>2, <2>4
<1> QED BY <1>1, <1>2, TripStep, PTL DEF Spec

\* Whatever the contract has recorded is of a payload in storage that a user
\* can open, to the message that was read; and so is the root recorded with it,
\* unless uploads have overlapped or one has saved while the verify was reading.
RegisteredIsRecoverable ==
  \A v \in registered :
    \E payload \in held, u \in Uploads \cap userKeys :
      /\ CallOf(v).state_commitment = payload.state_commitment
      /\ CallOf(v).storage_root = MerkleRoot(payload) \/ job[v].torn \/ Overlap
      /\ Opens(payload.encrypted_blob, u, job[u].aad)
      /\ payload.encrypted_blob.msg = job[u].msg

\* From the contract back to the plaintext: if no upload is a dry run, every
\* commitment in the registry leads to a stored payload, and the user has been
\* shown the key that opens it.
THEOREM RegistryIsRecoverable ==
  ASSUME StorageModes \subseteq {"live"}
  PROVE  Spec => []RegisteredIsRecoverable
<1>1. VouchedIsOfUpload /\ NetworkInv => RegisteredIsRecoverable
  <2> SUFFICES ASSUME VouchedIsOfUpload, NetworkInv, NEW v \in registered
               PROVE  \E payload \in held, u \in Uploads \cap userKeys :
                        /\ CallOf(v).state_commitment = payload.state_commitment
                        /\ CallOf(v).storage_root = MerkleRoot(payload) \/ job[v].torn \/ Overlap
                        /\ Opens(payload.encrypted_blob, u, job[u].aad)
                        /\ payload.encrypted_blob.msg = job[u].msg
    BY DEF RegisteredIsRecoverable
  <2>1. v \in Verifies
    BY DEF NetworkInv, TypeInv, TypeOK
  <2>2. PICK u \in Savers :
          /\ job[v].artifact.verifier_input.proof_statement = Statement(EnvelopeOf(u))
          /\ CallOf(v) = EntryOf(EnvelopeOf(u), job[u].mode) \/ job[v].torn \/ Overlap
    BY <2>1 DEF VouchedIsOfUpload
  <2>3. job[u].mode = "live" /\ u \in Uploads \cap userKeys
    BY DEF Savers, NetworkInv, ShownKeys, UploadJobs
  <2> DEFINE payload == UploadPayload(EnvelopeOf(u))
  <2>4. payload \in held
    BY <2>3 DEF Savers
  <2>5. CallOf(v).state_commitment = payload.state_commitment
    BY <2>2, ArtifactFields DEF CallOf
  <2>6. CallOf(v).storage_root = MerkleRoot(payload) \/ job[v].torn \/ Overlap
    BY <2>2, <2>3 DEF EntryOf, ReceiptRoot, Hex
  <2>7. payload.encrypted_blob = Encrypt(u, job[u].msg, job[u].aad)
    BY ArtifactFields DEF EnvelopeOf
  <2> HIDE DEF payload
  <2>8. Opens(payload.encrypted_blob, u, job[u].aad) /\ payload.encrypted_blob.msg = job[u].msg
    BY <2>7 DEF Opens, Encrypt
  <2> QED BY <2>3, <2>4, <2>5, <2>6, <2>8
<1> QED BY <1>1, VouchedAreOfUploads, NetworkInvariant, PTL

-----------------------------------------------------------------------------

\* The parts proved above are together the inductive invariant IInv.
THEOREM Invariant == Spec => []IInv
<1>1. ArtifactInv /\ SentInv /\ SealedInv /\ ReplyInv => IInv
  BY DEF IInv, TypeInv, NetworkInv, RivalInv, TextInv, ArtifactInv, SentInv, SealedInv, ReplyInv
<1> QED BY <1>1, ArtifactInvariant, SentInvariant, SealedInvariant, ReplyInvariant, PTL
=============================================================================
