----------------------------- MODULE Lifecycle ------------------------------
(***************************************************************************)
(* The four commands of the pq-sovereign-storage CLI (src/main.rs) run by  *)
(* any number of concurrent, one-shot processes that share a file system,  *)
(* the 0G storage network and the PqspVerifier contract.                   *)
(*                                                                         *)
(*   upload    read, print a fresh key, encrypt, submit, save the artifact *)
(*   verify    read an artifact, check it, submit its commitment           *)
(*   download  fetch a payload by the root an artifact names, save it      *)
(*   decrypt   open a saved payload with a key, save the plaintext         *)
(*                                                                         *)
(* Every command can fail or be killed between any two of its steps, and   *)
(* is then retried, if at all, as another process.  Saving a file takes    *)
(* three steps: fs::write opens and truncates, and the text goes out in    *)
(* two pieces, so that writers of one path mix and a kill leaves a part.   *)
(***************************************************************************)
EXTENDS Protocol

CONSTANTS
  Uploads, Verifies, Downloads, Decrypts,  \* the processes of each command
  Files,          \* paths
  Plaintexts,     \* messages worth protecting
  Empty, Garbled, \* messages: no bytes; bytes that are of no use to anyone
  Aads,           \* associated data given on the command line
  LibraryEnvelopes,  \* envelopes sealed through the crypto crate itself
  StorageModes,   \* subset of {"dry_run", "live"}
  VerifierModes,  \* subset of {"local_mock", "evm"}
  MixedBytes32,   \* 32 bytes that begin as one digest and end as another
  NoJob

Processes == Uploads \cup Verifies \cup Downloads \cup Decrypts
Writers   == Uploads \cup Downloads \cup Decrypts
Messages  == Plaintexts \cup {Empty, Garbled}

\* EncryptionKey::generate: 32 random bytes, taken to be fresh.  The key of an
\* upload is named after the process that draws it.
LibraryKeys == {e.key : e \in LibraryEnvelopes}
Keys == Uploads \cup LibraryKeys

-----------------------------------------------------------------------------
(* What the processes handle. *)

Envelopes == [version : {PAYLOAD_ENVELOPE_VERSION}, key : Keys,
              aad : Aads, msg : Messages]
Payloads  == {UploadPayload(e) : e \in Envelopes}

\* Artifacts, those included that two uploads have mixed.
Roots == {ReceiptRoot(e, m) : e \in Envelopes, m \in StorageModes} \cup {Hex(MixedBytes32)}
Commitments == {Commit(e, e.aad) : e \in Envelopes} \cup {MixedBytes32}
Statements == {Statement(e) : e \in Envelopes}
Artifacts ==
  [fmt : {"artifact"}, version : {1}, storage_mode : StorageModes,
   upload_receipt : [merkle_root : Roots, state_commitment : Commitments],
   verifier_input : [proof_statement : Statements,
                     proof           : {Prove(s) : s \in Statements},
                     merkle_root     : Roots]]

\* The text that process i has written in part.
Part(i) == [fmt |-> "part", msg |-> Garbled, writer |-> i]

Contents ==
  {Absent} \cup {Bytes(m) : m \in Messages} \cup Payloads \cup Artifacts
    \cup {RawEnvelope(e) : e \in Envelopes} \cup {Part(i) : i \in Writers}

\* What a process of each command has been asked, and has read so far.
UploadJobs   == [msg : Messages, aad : Aads, out : Files, mode : StorageModes]
VerifyJobs   == [artifact : Artifacts, mode : VerifierModes, torn : BOOLEAN]
DownloadJobs == [root : Roots, out : Files,
                 reply : {Absent, Bytes(Garbled)} \cup Payloads
                           \cup {RawEnvelope(e) : e \in Envelopes}]
DecryptJobs  == [key : Keys, aad : Aads, out : Files, msg : Messages]

\* What a verify has read of a file before it comes to the end: a first piece
\* of this text, and whether the whole of it was there.
Readings == [src : Files, text : Artifacts, whole : BOOLEAN]

ASSUME LifecycleAssumption ==
  /\ Uploads \cap (Verifies \cup Downloads \cup Decrypts) = {}
  /\ Verifies \cap (Downloads \cup Decrypts) = {}
  /\ Downloads \cap Decrypts = {}
  /\ LibraryKeys \cap Uploads = {}
  /\ \A e \in LibraryEnvelopes :
       /\ e = Encrypt(e.key, e.msg, e.aad)
       /\ e.msg \in Plaintexts /\ e.aad \in Aads
  /\ Empty \notin Plaintexts /\ Garbled \notin Plaintexts /\ Empty # Garbled
  /\ StorageModes \subseteq {"dry_run", "live"}
  /\ VerifierModes \subseteq {"local_mock", "evm"}
  /\ NoJob \notin UploadJobs \cup VerifyJobs \cup DownloadJobs \cup DecryptJobs \cup Readings
  /\ NoJob \notin Writers

\* Every hash has 32 bytes, none is all zeros, and none is the mixture of two.
ASSUME DigestAssumption ==
  /\ MixedBytes32 \notin {ZeroBytes32, NotBytes32}
  /\ \A e \in Envelopes :
       /\ Commit(e, e.aad) # ZeroBytes32
       /\ \A mode \in {"dry_run", "live"} :
            ReceiptRoot(e, mode).digest \notin {ZeroBytes32, NotBytes32, MixedBytes32}

VARIABLES
  file,      \* the contents of every path
  opener,    \* history: the last process to have opened each path, or NoJob
  rivals,    \* history: whom each writer has had its path open together with
  pc,        \* where each process is
  job,       \* what each process was asked and has read so far, or NoJob
  userKeys,  \* the keys shown to the user
  reading,   \* the first piece of what each verify reads, or NoJob
  packed,    \* payloads whose submission the 0G chain has packed
  held,      \* packed payloads whose segments the storage nodes hold
  final,     \* held payloads that nodes serve to downloads
  registered, \* the verifies whose submitCommitment call has succeeded
  reverted    \* ... and those whose call was mined without success

disk    == <<file, opener, rivals>>
network == <<packed, held, final>>
mined   == <<registered, reverted>>
vars    == <<disk, pc, job, userKeys, reading, network, mined>>

\* The envelope that upload u seals: encrypt in prepare_upload.
EnvelopeOf(u) == Encrypt(u, job[u].msg, job[u].aad)

\* The bytes that a process is about to save.
Output(i) ==
  CASE i \in Uploads   -> Artifact(EnvelopeOf(i), job[i].mode)
    [] i \in Downloads -> job[i].reply
    [] i \in Decrypts  -> Bytes(job[i].msg)

Goto(i, label) == pc' = [pc EXCEPT ![i] = label]

\* Process i starts with the given arguments, or fails before it keeps any.
Start(i, label, args) ==
  /\ pc[i] = "idle"
  /\ Goto(i, label)
  /\ job' = [job EXCEPT ![i] = args]

-----------------------------------------------------------------------------
(* upload *)

\* Mistake: the key is not shown when the upload starts.
UploadStartSilently(u) ==
  \E src \in Files, out \in Files, aad \in Aads, mode \in StorageModes :
    /\ file[src].fmt \in {"bytes", "part"}
    /\ Start(u, "storing",
             [msg |-> file[src].msg, aad |-> aad, out |-> out, mode |-> mode])
    /\ UNCHANGED <<disk, userKeys, reading, network, mined>>

\* run_upload up to the first await: the key is printed before anything of
\* the payload leaves the process.  (Whole files the CLI itself wrote, which
\* are bytes as well, are not among the plaintexts enumerated.)
UploadStart(u) ==
  \E src \in Files, out \in Files, aad \in Aads, mode \in StorageModes :
    /\ file[src].fmt \in {"bytes", "part"}
    /\ Start(u, "storing",
             [msg |-> file[src].msg, aad |-> aad, out |-> out, mode |-> mode])
    /\ userKeys' = userKeys \cup {u}
    /\ UNCHANGED <<disk, reading, network, mined>>

\* upload_prepared in dry-run mode: a local root, and nothing is contacted.
StoreDryRun(u) ==
  /\ pc[u] = "storing" /\ job[u].mode = "dry_run"
  /\ Goto(u, "saving")
  /\ UNCHANGED <<disk, job, userKeys, reading, network, mined>>

\* upload_live_bytes, first part of the SDK's upload: the transaction with the
\* submission of the root is sent ...
DispatchLive(u) ==
  /\ pc[u] = "storing" /\ job[u].mode = "live"
  /\ Goto(u, "dispatched")
  /\ UNCHANGED <<disk, job, userKeys, reading, network, mined>>

\* ... the 0G chain packs it, whether or not the process lives to see it ...
Pack(u) ==
  /\ pc[u] \in {"dispatched", "lost"}
  /\ packed' = packed \cup {UploadPayload(EnvelopeOf(u))}
  /\ UNCHANGED <<disk, pc, job, userKeys, reading, held, final, mined>>

\* Mistake: the artifact is saved as soon as the submission is packed.
SubmitLiveOnly(u) ==
  /\ pc[u] = "dispatched" /\ UploadPayload(EnvelopeOf(u)) \in packed
  /\ Goto(u, "saving")
  /\ UNCHANGED <<disk, job, userKeys, reading, network, mined>>

\* ... and the process has the receipt.
SubmitLive(u) ==
  /\ pc[u] = "dispatched" /\ UploadPayload(EnvelopeOf(u)) \in packed
  /\ Goto(u, "submitted")
  /\ UNCHANGED <<disk, job, userKeys, reading, network, mined>>

\* Last part: the segments reach the nodes.  FinalityRequirement is
\* TransactionPacked, so the call returns before the nodes finalize the file.
TransferLive(u) ==
  /\ pc[u] = "submitted"
  /\ held' = held \cup {UploadPayload(EnvelopeOf(u))}
  /\ Goto(u, "saving")
  /\ UNCHANGED <<disk, job, userKeys, reading, packed, final, mined>>

\* The storage network, on its own: a held file becomes downloadable.
Finalize(payload) ==
  /\ payload \in held \ final
  /\ final' = final \cup {payload}
  /\ UNCHANGED <<disk, pc, job, userKeys, reading, packed, held, mined>>

-----------------------------------------------------------------------------
(* Texts in pieces. *)

\* The artifacts whose text begins as that of a and ends as that of b, with the
\* cut between two fields or within a root or a commitment of the receipt.  (A
\* cut in the statement or in the proof leaves a proof that no verifier takes.)
Splices(a, b) ==
  LET mode == a.storage_mode
      r == a.upload_receipt  i == a.verifier_input
      s == b.upload_receipt  j == b.verifier_input
      Tail(root, commitment) ==
        ArtifactOf(mode, root, commitment, j.proof_statement, j.proof, j.merkle_root)
      Head(statement, proof, root) ==
        ArtifactOf(mode, r.merkle_root, r.state_commitment, statement, proof, root)
  IN  {b, Tail(s.merkle_root, s.state_commitment),
          Tail(Hex(MixedBytes32), s.state_commitment),
          Tail(r.merkle_root, s.state_commitment),
          Tail(r.merkle_root, MixedBytes32),
          Tail(r.merkle_root, r.state_commitment),
       Head(i.proof_statement, j.proof, j.merkle_root),
       Head(i.proof_statement, i.proof, j.merkle_root),
       Head(i.proof_statement, i.proof, Hex(MixedBytes32)), a}

\* What can still be parsed of text that begins as c and ends as d: nothing,
\* unless both are artifacts.  (SharedFile has the case of two payloads.)
Mixtures(c, d) ==
  IF c.fmt = "artifact" /\ d.fmt = "artifact" THEN Splices(c, d) ELSE {}

\* The whole of a text that is there, or there in part.
TextOf(content) == IF content.fmt = "part" THEN Output(content.writer) ELSE content

-----------------------------------------------------------------------------
(* verify *)

\* run_verify reads a first piece of the artifact ...  (Of any other text it
\* would have nothing to parse.)
VerifyOpen(v) ==
  \E src \in Files :
    LET text == TextOf(file[src])
    IN  /\ pc[v] = "idle" /\ reading[v] = NoJob
        /\ text.fmt = "artifact"
        /\ reading' = [reading EXCEPT ![v] = [src  |-> src, text |-> text,
                                            whole |-> file[src].fmt # "part"]]
        /\ UNCHANGED <<disk, pc, job, userKeys, network, mined>>

\* ... and the rest, when another text may be there; it parses what it has, and
\* validates it.
VerifyStart(v) ==
  /\ reading[v] # NoJob
  /\ LET head == reading[v].text
         tail == file[reading[v].src]
         texts == {t \in {head} : reading[v].whole \/ tail = head}
                    \cup IF tail = head THEN {} ELSE Mixtures(head, tail)
     IN  \E artifact \in texts, mode \in VerifierModes :
           /\ ValidateArtifact(artifact)
           /\ Start(v, "submitting",
                    [artifact |-> artifact, mode |-> mode, torn |-> artifact \notin {head, tail}])
  /\ reading' = [reading EXCEPT ![v] = NoJob]
  /\ UNCHANGED <<disk, userKeys, network, mined>>

\* MockOnChainVerifier::submit: accepts without any effect outside.
SubmitMock(v) ==
  /\ pc[v] = "submitting" /\ job[v].mode = "local_mock"
  /\ MockValidate(job[v].artifact.verifier_input)
  /\ Goto(v, "accepted")
  /\ UNCHANGED <<disk, job, userKeys, reading, network, mined>>

\* Mistake: the call is sent without the checks.
SendEvmUnchecked(v) ==
  /\ pc[v] = "submitting" /\ job[v].mode = "evm"
  /\ Goto(v, "sent")
  /\ UNCHANGED <<disk, job, userKeys, reading, network, mined>>

\* EvmOnChainVerifier::submit, by its effects: the call is sent ...  (EvmVerifier
\* has the steps between.)
SendEvm(v) ==
  /\ pc[v] = "submitting" /\ job[v].mode = "evm"
  /\ EvmValidate(job[v].artifact.verifier_input)
  /\ Goto(v, "sent")
  /\ UNCHANGED <<disk, job, userKeys, reading, network, mined>>

\* ... it is mined, whether or not the process lives to see it, and the contract
\* records the commitment ...
RegisterEvm(v) ==
  /\ pc[v] \in {"sent", "lost"} /\ v \notin registered \cup reverted
  /\ registered' = registered \cup {v}
  /\ UNCHANGED <<disk, pc, job, userKeys, reading, network, reverted>>

\* ... or the call fails ...
RevertEvm(v) ==
  /\ pc[v] \in {"sent", "lost"} /\ v \notin registered \cup reverted
  /\ reverted' = reverted \cup {v}
  /\ UNCHANGED <<disk, pc, job, userKeys, reading, network, registered>>

\* ... and the receipt is there: accepted is its status.
AnswerEvm(v) ==
  /\ pc[v] = "sent" /\ v \in registered \cup reverted
  /\ Goto(v, IF v \in registered THEN "accepted" ELSE "rejected")
  /\ UNCHANGED <<disk, job, userKeys, reading, network, mined>>

-----------------------------------------------------------------------------
(* download *)

\* run_download, with a root the user copies from an artifact.
DownloadStart(d) ==
  \E src \in Files, out \in Files :
    /\ file[src].fmt = "artifact"
    /\ Start(d, "fetching", [root  |-> file[src].upload_receipt.merkle_root,
                             out   |-> out, reply |-> Absent])
    /\ UNCHANGED <<disk, userKeys, reading, network, mined>>

\* The bodies a node may answer with: any payload or envelope that 0G Storage
\* has been given, or bytes of no use.
Bodies ==
  LET envelopes == LibraryEnvelopes \cup {p.encrypted_blob : p \in final}
  IN  {UploadPayload(e) : e \in envelopes} \cup {RawEnvelope(e) : e \in envelopes}
        \cup {Bytes(Garbled)}

\* A successful response is taken as it is: nothing compares it with the root.
Fetch(d) ==
  /\ pc[d] = "fetching"
  /\ \E reply \in Bodies : job' = [job EXCEPT ![d].reply = reply]
  /\ Goto(d, "saving")
  /\ UNCHANGED <<disk, userKeys, reading, network, mined>>

-----------------------------------------------------------------------------
(* decrypt *)

\* run_decrypt up to the write: the file holds an envelope that opens under
\* the key and the associated data of the command line.
DecryptStart(x) ==
  \E src \in Files, out \in Files, key \in userKeys, aad \in Aads :
    /\ HoldsEnvelope(file[src])
    /\ LET envelope == file[src].encrypted_blob
       IN  /\ Opens(envelope, key, aad)
           /\ Start(x, "saving", [key |-> key, aad |-> aad, out |-> out,
                                  msg |-> envelope.msg])
    /\ UNCHANGED <<disk, userKeys, reading, network, mined>>

-----------------------------------------------------------------------------
(* Saving a file, and giving up. *)

\* The processes that have path f open.
OpenAt(f) == {j \in Writers : pc[j] \in {"opened", "writing"} /\ job[j].out = f}

\* Process i opens its path and truncates what is there.
Truncate(i) ==
  LET f == job[i].out
  IN  /\ file' = [file EXCEPT ![f] = Bytes(Empty)]
      /\ opener' = [opener EXCEPT ![f] = i]
      /\ rivals' = [j \in Writers |-> IF j = i THEN OpenAt(f)
                                      ELSE rivals[j] \cup {k \in {i} : j \in OpenAt(f)}]
      /\ Goto(i, "opened")
      /\ UNCHANGED <<job, userKeys, reading, network, mined>>

\* Mistake: an upload opens its output before the storage call has returned.
OpenOutputEarly(i) == pc[i] \in {"submitted", "saving"} /\ Truncate(i)

\* fs::write opens the path ...
OpenOutput(i) == pc[i] = "saving" /\ Truncate(i)

\* Process i leaves one of the given texts at its path.
Leave(i, texts) ==
  /\ \E text \in texts : file' = [file EXCEPT ![job[i].out] = text]
  /\ UNCHANGED <<opener, rivals, job, userKeys, reading, network, mined>>

\* ... writes a first piece from offset 0, over what another process may have
\* written there since ...
BeginWrite(i) ==
  LET old == file[job[i].out]
  IN  /\ pc[i] = "opened"
      /\ Leave(i, {Part(i)} \cup
                  IF old = Bytes(Empty) THEN {}
                  ELSE {Bytes(Garbled)} \cup Mixtures(Output(i), old))
      /\ Goto(i, "writing")

\* Mistake: the result of the write is ignored, and it may have been partial.
EndWriteUnchecked(i) ==
  /\ pc[i] = "writing"
  /\ Leave(i, {Output(i), file[job[i].out]})
  /\ Goto(i, "done")

\* ... and the rest from where it was, after what another process may have
\* written before it and in front of the tail of a longer text.
EndWrite(i) ==
  LET old == file[job[i].out]
  IN  /\ pc[i] = "writing"
      /\ Leave(i, {Output(i)} \cup
                  IF old = Part(i) THEN {}
                  ELSE {Bytes(Garbled)} \cup Mixtures(TextOf(old), Output(i)))
      /\ Goto(i, "done")

\* Mistake: a command goes on to save after it has refused its input.
RefuseAndSave(i) ==
  /\ Start(i, "saving", NoJob)
  /\ UNCHANGED <<disk, userKeys, reading, network, mined>>

\* A command whose input is missing or refused returns before it does anything.
Refuse(i) ==
  /\ Start(i, "failed", NoJob)
  /\ reading' = [v \in Verifies |-> IF v = i THEN NoJob ELSE reading[v]]
  /\ UNCHANGED <<disk, userKeys, network, mined>>

Running == {"storing", "dispatched", "submitted", "submitting", "sent",
            "fetching", "saving", "opened", "writing"}

\* An error is propagated to main, or the process is killed.  Nothing is
\* undone: a transaction that was sent may still be mined, and what has been
\* written stays.
GiveUp(i) ==
  /\ pc[i] \in Running
  /\ Goto(i, CASE pc[i] \in {"dispatched", "sent"} -> "lost"
               [] pc[i] \in {"opened", "writing"}  -> "torn"
               [] OTHER                            -> "failed")
  /\ UNCHANGED <<disk, job, userKeys, reading, network, mined>>

-----------------------------------------------------------------------------

\* Before the first command every path is missing, or holds a plaintext or an
\* envelope sealed through the crypto crate.
Init ==
  /\ file \in [Files -> {Absent} \cup {Bytes(m) : m \in Plaintexts}
                 \cup {RawEnvelope(e) : e \in LibraryEnvelopes}]
  /\ opener = [f \in Files |-> NoJob]
  /\ rivals = [i \in Writers |-> {}]
  /\ pc = [i \in Processes |-> "idle"]
  /\ job = [i \in Processes |-> NoJob]
  /\ userKeys = LibraryKeys /\ reading = [v \in Verifies |-> NoJob]
  /\ packed = {} /\ held = {} /\ final = {}
  /\ registered = {} /\ reverted = {}

Next ==
  \/ \E u \in Uploads :
       \/ UploadStart(u) \/ StoreDryRun(u)
       \/ DispatchLive(u) \/ Pack(u) \/ SubmitLive(u) \/ TransferLive(u)
  \/ \E payload \in held : Finalize(payload)
  \/ \E v \in Verifies :
       \/ VerifyOpen(v) \/ VerifyStart(v) \/ SubmitMock(v)
       \/ SendEvm(v) \/ RegisterEvm(v) \/ RevertEvm(v) \/ AnswerEvm(v)
  \/ \E d \in Downloads : DownloadStart(d) \/ Fetch(d)
  \/ \E x \in Decrypts : DecryptStart(x)
  \/ \E i \in Writers : OpenOutput(i) \/ BeginWrite(i) \/ EndWrite(i)
  \/ \E i \in Processes : Refuse(i) \/ GiveUp(i)

Spec == Init /\ [][Next]_vars

-----------------------------------------------------------------------------
(* Types *)

Labels == Running \cup {"idle", "done", "accepted", "rejected", "failed", "lost", "torn"}

\* A process past its start keeps the arguments of its command.
ProcessTypeOK ==
  /\ pc \in [Processes -> Labels]
  /\ DOMAIN job = Processes
  /\ \A u \in Uploads   : job[u] \in UploadJobs \cup {NoJob}
  /\ \A v \in Verifies  : job[v] \in VerifyJobs \cup {NoJob}
  /\ \A d \in Downloads : job[d] \in DownloadJobs \cup {NoJob}
  /\ \A x \in Decrypts  : job[x] \in DecryptJobs \cup {NoJob}
  /\ \A i \in Processes : job[i] = NoJob => pc[i] \in {"idle", "failed"}

\* The variables have the types of the data they stand for, and the network
\* serves only what it holds.
TypeOK ==
  /\ file \in [Files -> Contents]
  /\ opener \in [Files -> Writers \cup {NoJob}]
  /\ rivals \in [Writers -> SUBSET Writers]
  /\ ProcessTypeOK
  /\ userKeys \subseteq Keys
  /\ reading \in [Verifies -> Readings \cup {NoJob}]
  /\ packed \subseteq Payloads /\ held \subseteq Payloads /\ final \subseteq held
  /\ registered \subseteq Verifies /\ reverted \subseteq Verifies

-----------------------------------------------------------------------------
(* Safety *)

\* Whenever an upload dies, what it has already put on the network can be
\* recovered: the user holds the key that opens it under the associated data
\* of the command, to the plaintext that was read.  (run_upload prints the key
\* before it stores anything.)
StoredIsRecoverable ==
  \A payload \in packed :
    \E u \in Uploads \cap userKeys :
      /\ Opens(payload.encrypted_blob, u, job[u].aad)
      /\ payload.encrypted_blob.msg = job[u].msg

\* The uploads that have what it takes to save an artifact: the user has the
\* key, and the storage nodes hold the payload of a live one.
Savers ==
  {u \in Uploads \cap userKeys :
     job[u].mode = "live" => UploadPayload(EnvelopeOf(u)) \in held}

\* The whole artifact of an upload.
IsOfUpload(artifact) ==
  \E u \in Savers : artifact = Artifact(EnvelopeOf(u), job[u].mode)

\* The parts of an artifact, each of an upload, though not of the same one.
RootsOfUploads ==
  {ReceiptRoot(EnvelopeOf(u), job[u].mode) : u \in Savers} \cup {Hex(MixedBytes32)}
StatementsOfUploads == {Statement(EnvelopeOf(u)) : u \in Savers}

IsOfUploads(artifact) ==
  /\ artifact.upload_receipt.merkle_root \in RootsOfUploads
  /\ artifact.upload_receipt.state_commitment
       \in {s.state_commitment : s \in StatementsOfUploads} \cup {MixedBytes32}
  /\ artifact.verifier_input.proof_statement \in StatementsOfUploads
  /\ artifact.verifier_input.proof \in {Prove(s) : s \in StatementsOfUploads}
  /\ artifact.verifier_input.merkle_root \in RootsOfUploads

\* Two uploads have had one path open at the same time.
Overlapped(u) == rivals[u] \cap Uploads # {}
OverlapAt(f) == \E u \in Uploads : job[u] # NoJob /\ job[u].out = f /\ Overlapped(u)
Overlap == \E u \in Uploads : Overlapped(u)

\* A verify has read the beginning of one artifact and the end of another.
TornRead == \E v \in Verifies : job[v] # NoJob /\ job[v].torn

\* Every artifact at any path, by whatever mixture of uploads, crashes and
\* overwriting it got there, names only what uploads have stored whose keys
\* their users have, or what a dry run would have; and it is the whole artifact
\* of one upload, unless two have had the path open at the same time.
\* (run_upload saves the artifact only after the storage call has returned.)
ArtifactIsOfUpload ==
  \A f \in Files :
    file[f].fmt = "artifact" =>
      IsOfUploads(file[f]) /\ (IsOfUpload(file[f]) \/ OverlapAt(f))

\* The arguments of the call that verify v sends.
CallOf(v) ==
  LET input == job[v].artifact.verifier_input
  IN  [state_commitment |-> input.proof_statement.state_commitment,
       storage_root     |-> input.merkle_root.digest]

\* What an upload's artifact asks the contract to record.
EntryOf(envelope, mode) ==
  [state_commitment |-> UploadPayload(envelope).state_commitment,
   storage_root     |-> ReceiptRoot(envelope, mode).digest]

\* What is registered, or what a verify has told its user is accepted, is the
\* statement of one upload with its proof, though the artifact may be mixed; and
\* the root with it is that of the same upload, unless two uploads have written
\* to one path together or one has written while this verify was reading: verify
\* compares the commitments of an artifact and checks the proof, but nothing
\* ties a root to either.
VouchedIsOfUpload ==
  \A v \in Verifies :
    v \in registered \/ pc[v] = "accepted" =>
      \E u \in Savers :
        /\ job[v].artifact.verifier_input.proof_statement = Statement(EnvelopeOf(u))
        /\ job[v].artifact.verifier_input.proof = Prove(Statement(EnvelopeOf(u)))
        /\ CallOf(v) = EntryOf(EnvelopeOf(u), job[u].mode) \/ job[v].torn \/ Overlap

\* Every commitment the contract has accepted is tied to the root of a payload
\* that 0G Storage holds and that has this commitment.  This is what the
\* registry is for; verify submits whatever an artifact says.
RegisteredIsAnchored ==
  \A v \in registered :
    \E payload \in held :
      /\ CallOf(v).storage_root = MerkleRoot(payload)
      /\ CallOf(v).state_commitment = payload.state_commitment

\* What upload saves, verify takes: a whole artifact passes the artifact check
\* and both verifiers' validation, whatever the two modes were.  And what verify
\* takes, however it came about, has the commitment and a proof of one upload.
SavedArtifactVerifies ==
  \A f \in Files :
    file[f].fmt = "artifact" =>
      LET artifact == file[f]
          input    == artifact.verifier_input
          passes   == /\ ValidateArtifact(artifact)
                      /\ MockValidate(input) /\ EvmValidate(input)
      IN  /\ IsOfUpload(artifact) => passes
          /\ ValidateArtifact(artifact) /\ (MockValidate(input) \/ EvmValidate(input)) =>
               \E s \in StatementsOfUploads :
                 /\ artifact.upload_receipt.state_commitment = s.state_commitment
                 /\ input.proof_statement = s /\ input.proof = Prove(s)

\* Every envelope that any process has sealed so far.
Sealed ==
  LibraryEnvelopes \cup {EnvelopeOf(u) : u \in Uploads \cap userKeys}

\* A decrypt that gets as far as writing has recovered exactly the message that
\* was sealed under the key and associated data it was given, although nothing
\* checks what a storage node served or what overwrote the file meanwhile.
DecryptIsAuthentic ==
  \A x \in Decrypts :
    job[x] # NoJob => Encrypt(job[x].key, job[x].msg, job[x].aad) \in Sealed

\* A command that reported success has left its result at its path, whatever
\* was there and whoever failed there before, until another opens the path:
\* only one that had it open at the same time can have spoilt it.
SuccessIsKept ==
  \A i \in Writers :
    pc[i] = "done" /\ opener[job[i].out] = i /\ rivals[i] = {} =>
      file[job[i].out] = Output(i)

\* A path changes only for a process that has its result in hand: no failed
\* upload, download or decryption costs the user the file that was there.
Earned(i) ==
  \/ i \in Uploads /\ (job[i].mode = "live" =>
                         UploadPayload(EnvelopeOf(i)) \in held)
  \/ i \in Downloads /\ job[i].reply # Absent
  \/ i \in Decrypts

OverwriteIsEarned ==
  [][\A f \in Files : file'[f] # file[f] =>
       \E i \in Writers : job[i] # NoJob /\ job[i].out = f /\ Earned(i)]_file

-----------------------------------------------------------------------------
(* The inductive invariant behind the safety properties, in parts. *)

\* A key is shown to the user once its upload has started and not before.
ShownKeys ==
  \A u \in Uploads :
    /\ pc[u] \notin {"idle", "failed"} => u \in userKeys
    /\ u \in userKeys => pc[u] # "idle" /\ job[u] \in UploadJobs

\* Nothing but the payload of a started upload reaches the network.
PackedByUploads ==
  \A payload \in packed :
    \E u \in Uploads \cap userKeys : payload = UploadPayload(EnvelopeOf(u))

\* The nodes are sent only what the chain has packed.
HeldIsPacked ==
  /\ held \subseteq packed
  /\ \A u \in Uploads :
       pc[u] = "submitted" => UploadPayload(EnvelopeOf(u)) \in packed

\* An upload saves its artifact only when its payload is held, if it is live.
SavingAreSavers ==
  \A u \in Uploads :
    pc[u] \in {"saving", "opened", "writing", "done", "torn"} => u \in Savers

\* What verify has begun to read is as good as the file was, and stays so.
ReadingsAreOfUploads ==
  \A v \in Verifies :
    reading[v] # NoJob =>
      /\ IsOfUploads(reading[v].text)
      /\ IsOfUpload(reading[v].text) \/ Overlap

\* So is what it has read, but for the end of another text.
SubmittedAreOfUploads ==
  \A v \in Verifies :
    job[v] # NoJob =>
      /\ IsOfUploads(job[v].artifact)
      /\ IsOfUpload(job[v].artifact) \/ job[v].torn \/ Overlap

\* Only what an EVM session has sent is mined, and only what a verifier has
\* checked is sent or accepted.
SentWereChecked ==
  /\ \A v \in Verifies : pc[v] \in {"idle", "submitting", "failed"}
                                     \cup {"sent", "lost", "accepted", "rejected"}
  /\ \A v \in Verifies :
       pc[v] \in {"sent", "lost"} \/ v \in registered \cup reverted =>
         /\ job[v] # NoJob /\ job[v].mode = "evm"
         /\ EvmValidate(job[v].artifact.verifier_input)
  /\ \A v \in Verifies :
       pc[v] = "accepted" =>
         LET input == job[v].artifact.verifier_input IN MockValidate(input) \/ EvmValidate(input)
  /\ \A v \in registered \cup reverted : pc[v] \in {"sent", "lost", "accepted", "rejected"}
  /\ registered \cap reverted = {}

\* Every envelope in a file or in a download's reply has been sealed.
OnlySealed ==
  /\ \A f \in Files : HoldsEnvelope(file[f]) => file[f].encrypted_blob \in Sealed
  /\ \A d \in Downloads :
       job[d] # NoJob /\ HoldsEnvelope(job[d].reply) =>
         job[d].reply.encrypted_blob \in Sealed

\* A download saves only a reply it has had.
RepliesAreFetched ==
  \A d \in Downloads :
    pc[d] \in {"saving", "opened", "writing", "done"} => job[d].reply # Absent

IsOpen(i) == pc[i] \in {"opened", "writing"}

\* Processes that have one path open are rivals; so is whoever has the path of
\* its last opener open.  One without rivals finds its path as it left it.
RivalsAreKnown ==
  \A i \in Writers :
    /\ pc[i] \notin {"opened", "writing", "done", "torn"} => rivals[i] = {}
    /\ \A j \in Writers \ {i} :
         IsOpen(j) =>
           /\ IsOpen(i) /\ job[i].out = job[j].out => j \in rivals[i]
           /\ pc[i] = "done" /\ opener[job[i].out] = i /\ job[i].out = job[j].out =>
                j \in rivals[i]
    /\ IsOpen(i) /\ rivals[i] = {} =>
         /\ opener[job[i].out] = i
         /\ file[job[i].out] = IF pc[i] = "opened" THEN Bytes(Empty) ELSE Part(i)

\* A part that is left at a path is of a process that was writing there.
PartsHaveWriters ==
  \A f \in Files :
    file[f].fmt = "part" =>
      LET j == file[f].writer
      IN  job[j] # NoJob /\ job[j].out = f /\ pc[j] \in {"writing", "done", "torn"}

\* An upload that finds an artifact or a part of one at the path that it has
\* open has had the upload that left it for a rival.
TextsAreOfRivals ==
  \A u \in Uploads :
    IsOpen(u) =>
      LET old == file[job[u].out]
      IN  old.fmt = "artifact" \/ (old.fmt = "part" /\ old.writer \in Uploads \ {u}) =>
            Overlapped(u)

IInv ==
  /\ TypeOK /\ ShownKeys
  /\ PackedByUploads /\ HeldIsPacked
  /\ SavingAreSavers /\ ArtifactIsOfUpload
  /\ ReadingsAreOfUploads /\ SubmittedAreOfUploads /\ SentWereChecked
  /\ RepliesAreFetched /\ OnlySealed /\ DecryptIsAuthentic
  /\ PartsHaveWriters /\ RivalsAreKnown /\ TextsAreOfRivals /\ SuccessIsKept

-----------------------------------------------------------------------------
(* Refinement *)

\* What the decrypt commands have opened so far.
Recovered ==
  {Encrypt(job[x].key, job[x].msg, job[x].aad) : x \in {y \in Decrypts : job[y] # NoJob}}

Abstract ==
  INSTANCE Vault
    WITH Foreign   <- LibraryEnvelopes,
         sealed    <- Sealed,
         stored    <- {payload.encrypted_blob : payload \in held},
         vouched   <- {CallOf(v) : v \in registered},
         recovered <- Recovered,
         mixed     <- Overlap \/ TornRead

\* The commands, the storage network and the contract keep the promise of the
\* vault: each upload seals under a key of its own that its user has, only
\* sealed data is registered, and stored data unless the artifact said
\* otherwise or uploads were mixed, and only sealed data is recovered.
ImplementsVault == Abstract!VaultSpec

\* The live uploads, as calls of the storage service whose users are told
\* `stored` when the command ends well.
IsLive(u) == job[u] # NoJob /\ job[u].mode = "live"

Service ==
  INSTANCE StorageService
    WITH Calls     <- Uploads,
         Levels    <- {"TransactionPacked"},
         NoRequest <- NoJob,
         request   <- [u \in Uploads |->
                         IF IsLive(u) THEN [payload |-> UploadPayload(EnvelopeOf(u)),
                                            level   |-> "TransactionPacked"]
                         ELSE NoJob],
         answer    <- [u \in Uploads |->
                         CASE IsLive(u) /\ pc[u] = "done" -> "stored"
                           [] IsLive(u) /\ pc[u] \in {"failed", "lost", "torn"} -> "failed"
                           [] OTHER -> "none"]

\* What StorageUpload promises in detail, the upload command passes on: a live
\* upload that ends well is stored, also when its artifact was saved over or
\* other uploads have failed half-way; one that was killed after its
\* transaction was sent may still be paid for, and is never answered stored.
ImplementsService == Service!ServiceSpec
=============================================================================
