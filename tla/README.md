# TLA+ models of pq-sovereign-storage

The `pq-sovereign-storage` program encrypts a file, stores the ciphertext on 0G
Storage, and registers a commitment to it with a contract on 0G Chain. This
directory models its four commands, the live upload, the EVM verifier with its
contract, the bytes of its files and of what it hashes, its default paths, and
the loading of its configuration. TLC checks the models on small instances; TLAPS
proves the safety properties and the refinements for every instance.

## The system

| Component | Source | State | Operations |
| --- | --- | --- | --- |
| `upload` | `src/main.rs` 275-341 | the artifact file | read, show a fresh key, encrypt, store, save the artifact |
| `verify` | `src/main.rs` 343-370, 455-480 | none of its own | read and check an artifact, submit it to a verifier |
| `download` | `src/main.rs` 407-453 | the downloaded file | fetch by Merkle root, save |
| `decrypt` | `src/main.rs` 372-405 | the plaintext file | parse, open with key and AAD, save |
| storage client | `storage_client/src` | a staged temporary file, connections | `prepare_upload`, `upload_prepared` (dry run or live) |
| crypto | `crypto/src` | a hasher's input | AEAD envelope, keys as text, SHAKE256 commitment, mock proof |
| default paths | `src/main.rs` 550-580 | the directory tree | the path of a result, from its input or root |
| verifier adapters | `core/src/verifier.rs` | a chain client | `validate`, `submit`: mock or EVM |
| contract | `contracts/src/PqspVerifier.sol` | `verifiedState`, its events | `submitCommitment` |
| configuration | `src/main.rs` 154-190, 482-548 | the process environment | `dotenv`, merge of `0G_*` names, choice of modes |

A command is a one-shot process. It meets other processes in three places only:
files (through `fs::write`, which truncates and then writes), 0G Storage, and
0G Chain. Nothing is locked, nothing is journalled, and nothing is retried
inside the program: a retry is another process. What is hard to get right is
therefore

- what is left behind when a process stops between two effects (the key on the
  terminal, the submission on the chain, the segments on the nodes, the
  artifact in its file);
- processes that use the same path or the same signer, and files read while
  they are half written;
- a retry of what was paid for, or half sent;
- answers that say less than they seem to: a storage call that returns before
  finality, a response body that is not compared with its root, a transaction
  status, a transaction the node has lost sight of;
- two environment loaders that read the same file by different rules.

`PROJECT.json` lists the hazards one by one, at the lines where they bite.

What makes each part correct:

- `upload` never loses data that left the process; its artifact names what is
  stored and passes the checks of both verifiers.
- `decrypt` returns only what was sealed under the key and AAD it was given.
- every file a command reports is there, and no failing command costs a file.
- `verify` says `accepted` only of what is registered, registers only what was
  validated, and ends.
- an upload pays only when it can send, returns only at the finality that was
  asked for, and becomes downloadable.
- a digest stands for one message, one context and one purpose.
- no command's default path is that of another result.
- the configuration is what the file and the shell say, and upload and download
  choose the same place.

## Modules

`Protocol` holds data and pure functions. Encryption is a record that opens
under the same key and associated data; a hash is the record of its preimage.
Keys are fresh per upload (`EncryptionKey::generate`), which is why the nonce
is left out. `live` stands for both `live_with_indexer` and `live_with_nodes`;
`StorageUpload` tells them apart.

`Lifecycle` (extends `Protocol`) composes the four commands.

| Variable | Stands for |
| --- | --- |
| `file` | the contents of every path |
| `reading` | the first piece of what a verify has read of an artifact |
| `pc`, `job` | where a process is; its arguments and what it has read |
| `userKeys` | the keys printed, or otherwise in the user's hands |
| `packed`, `held`, `final` | payloads submitted on chain, held by nodes, served by nodes |
| `registered`, `reverted` | the verifies whose call was mined, with and without success |
| `opener`, `rivals` | history only: who opened a path last, and who had one open together |

`upload` is `UploadStart` (`run_upload` to its first await), then `StoreDryRun`,
or the SDK call in its parts: `DispatchLive` sends the storage transaction,
`Pack` is the chain, `SubmitLive` the process that sees it packed, and
`TransferLive` the segments. An upload that dies after `DispatchLive` is `lost`,
and its submission may still be packed. `verify` is `VerifyOpen` and
`VerifyStart` (two reads of the artifact, then the parse and
`validate_artifact`), then `SubmitMock` or, for the EVM session by its effects,
`SendEvm`, `RegisterEvm` or `RevertEvm` (the contract), and `AnswerEvm`, which
takes the status of the receipt. A verify that ends after it has sent is `lost`
too. `download` is `DownloadStart` and `Fetch`, which saves whatever a node
answers: any payload or envelope that 0G Storage holds, whichever root was asked
for, or bytes of no use. `decrypt` is `DecryptStart`. `Refuse` is any early
return before an effect, `GiveUp` an error or a kill at any later point.
`Finalize` is the storage network.

`fs::write` is `OpenOutput` (it opens and truncates), `BeginWrite` and
`EndWrite` (the text goes out in two pieces, each at the writer's own offset). A
kill between them leaves a `Part`. When two processes have a path open, the head
of one text may come before the tail of another, whoever writes first.
`Mixtures` says what can still be parsed of that: of two artifacts, everything
that a cut between two fields, or within a root or a commitment of the receipt,
makes of them (`Splices`); of anything else, nothing. A cut within a statement
or a proof is left out, as no verifier takes such a proof. `SharedFile` has the
mixtures of two payloads byte by byte, and shows that none decrypts. A full text
with the rest of a longer one behind it does not parse.

`Vault` is what the four commands promise together: envelopes are sealed, each
under a key of its own, stored, and vouched for in a mode, which for live data
means that it is stored; only sealed ones are recovered, and nothing of this is
undone. Once artifacts have been mixed, an entry may have another root with the
commitment of sealed data (`VouchMixed`). `Lifecycle` implements it under the
mapping `Abstract`, whatever fails, is killed or is overwritten. What is sealed
are the envelopes of the uploads that have started and of the library
(`Sealed`); what is recovered is read off the decrypts that have opened an
envelope.

`Lifecycle` also implements, under the mapping `Service`, the abstract
specification that `StorageUpload` implements in detail: what a live upload
tells its user is what the storage service answers. The short form that
`Lifecycle` gives an upload promises no more than the long one keeps. What an
EVM verify is told belongs to `EvmVerifier`, where receipts are chosen by the
chain; `Lifecycle` uses only whether the call was mined and how.

Downloads are those through a storage node. With an indexer the SDK itself
writes the file, in steps this repository does not contain.

`EvmVerifier` (extends `Protocol`) takes an EVM `verify` apart: `Connect`
(`EvmOnChainVerifier::new`), `Validate`, `Fill` and `Send` (the requests behind
`call.send()`), and `Receive` or `ReportDropped` (the awaited pending
transaction), `Fail` at any point, and the contract. The chain is a mempool
that may replace a transaction by one with the same signer and nonce, may
evict it, and mines transactions in nonce order with either status. A
transaction is what is signed: signatures are deterministic, so two sessions of
one key that sign the same call at the same nonce and gas price have sent one
transaction, with one hash, one receipt and one event. The RPC
node may lose a reply, and may not know a transaction that is still pending or
already mined. `MineOther` is another transaction of the same key, such as the
storage transaction of an upload, which uses up a nonce. Chain reorganisations
are left out.

`CommitmentRegistry` is its abstract specification: sessions ask, the registry
applies each valid request at most once, for all who have sent that very call, a
session gets one answer, `accepted`
only after its request was applied and `rejected` only if it never is. A
session that was told nothing, or that its transaction was dropped, may see its
request applied at any later time. `EvmVerifier` implements it under the
mapping `Abstract`, where the contract is deployed: the outcome is read off
`pc`, the applied sessions off the successful receipts, and the registry is the
contract's own `verifiedState`, so that `accepted` is answered for what is
really there.

`EnvFile` is the start of every command: `DotenvLine` and `DotenvReturns` for
the crate, `PatchLine`, `PatchReturns` and `PatchFails` for
`patch_env_from_dotfile`, and the functions with which the handlers choose a
storage mode, a download route and a verifier. Values are lists of URLs with
blank and padded members: an upload uses every node of `0G_STORAGE_NODE_URL`
(`NodeUrls`), a download the first (`FirstListed`); an upload takes the indexer's
URL as it is, a download trims it.

`StorageUpload` takes `upload_live_bytes` apart: `Begin` (the checks),
`CreateTemp` and `WriteTemp` (the `NamedTempFile`), `Connect` (the chain client,
then the indexer or each node in turn), and the SDK by what the code relies on:
`Dispatch` and `SeePacked` or, with `skip_tx`, `SkipTx`; `SendSegment` and
`Sent`; and `Return` at the level of `UploadFinality`. `Fail` is every `?`,
`Kill` the end of the process. Calls share the mempool, the nodes and their
segments, so a retry finds what the first attempt has left. `StorageService` is
its abstract specification: calls ask for a payload and a level, nothing is held
that is not paid for, and `stored` is answered only at the requested level; a
call that fails may have paid and may have stored.

`SharedFile` is one path cell by cell. Writers are `OpenFile` (the truncation),
`WriteSome` (one `write(2)`, at the writer's own offset) and `CloseFile`;
a download then reads the file's size (`ReportSize`), and decrypts read the
file piece by piece (`ReadSome`) before `Decrypt` runs the whole of
`run_decrypt`: `parse_encrypted_payload`, `from_bytes` with its bound,
`from_hex`, and the cipher, which opens a ciphertext only whole. A cell is a
byte, or a number or the punctuation of a JSON text.

`Transcripts` is `Shake256Committer::commit` and `mock_proof_bytes` by what they
absorb, `Update` by `Update`: a domain, a context and a message, each after its
length in little-endian bytes. `Read` ends it. Hash functions are taken to be
free of collisions, so two digests are equal when their transcripts are; that
this separates commitments, dry-run roots and proofs is what allows `Protocol`
to treat a digest as the record of its preimage.

`DefaultPaths` has the three functions that name an output, over names that are
sequences of words and marks, and `Upload`, `Download` and `Decrypt` by what
they save where. Commands follow each other in any order and take any file,
their own results included. Names that are not UTF-8 share a fixed name, and a
root that is not hexadecimal is rewritten; `IsDistinct` says so. A download may
still replace a file of the user's with that name.

`MCLifecycle`, `MCEvmVerifier` and the other `MC` modules give the constants
values; a module named `...Proofs` holds the theorems about its component, and
`LifecycleRefinements` those about the two mappings of `Lifecycle`. A
definition whose comment starts with "Mistake:" is a plausible wrong version of
the definition that follows it. Nothing uses these definitions; they record a
change that the property named in `PROJECT.json` detects.

## Runs

| Run | Instance | What it shows |
| --- | --- | --- |
| `Lifecycle_recover` | an upload, verify, download and decrypt in all modes; 2 paths, 2 AADs, an envelope made with the library | `DecryptIsAuthentic`, `SuccessIsKept`, `OverwriteIsEarned`, `ImplementsVault`, types |
| `Lifecycle_registry` | 2 uploads in both modes and an EVM verify; 2 paths | `StoredIsRecoverable`, `ArtifactIsOfUpload`, `VouchedIsOfUpload`, `SavedArtifactVerifies`, `ImplementsVault`, `ImplementsService` |
| `Lifecycle_dryrun` | 2 uploads, 1 verify, all modes | `RegisteredIsAnchored` is violated: finding 1 |
| `EvmVerifier_safety` | 3 sessions, 2 of them of one signer; 2 gas prices | `AcceptedIsRegistered`, `AcceptedHasItsEvent`, `EventsMatchRegistry` |
| `EvmVerifier_refine` | 2 sessions of one signer, valid and edited submissions | `ImplementsRegistry`, `RegisteredIsValidated`, `EveryVerifyEnds`, types |
| `EvmVerifier_nocode` | the address holds no code | `AcceptedIsRegistered` is violated: finding 3 |
| `StorageUpload_calls` | a call and its retry; an indexer, 2 nodes or none; 2 segments; 3 levels | `PaidAfterConnecting`, `StagedWhileNeeded`, `ImplementsService`, `EveryCallEnds`, `ReturnedBecomesDownloadable`, types |
| `SharedFile_mix` | 2 writers, one of them a download, and a decrypt; 2 envelopes, an artifact | `RecoveredIsWhole`, `WholeIsRecovered`, `UndisturbedIsKept`, types |
| `Transcripts_frames` | 2 hashers, all fields of up to 3 bytes | `Unambiguous`, `PrefixFree`, types |
| `DefaultPaths_tree` | 8 files in 2 directories, 6 roots, up to 5 results | `ResultsAreKept`, types |
| `EnvFile_load` | all files of up to 3 of 8 lines, lists of nodes among them; all shells | `RoutesAgree`, `LastEntryWins`, `ShellIsKept`, types |
| `EnvFile_template` | `.env.example` filled in | `VerifierAddressIsUsed` is violated: finding 2 |

Bounds. In `Lifecycle`, `StorageUpload` and `SharedFile` the number of processes
is the only bound on behaviours, since a process runs once. Two uploads are
needed for races at a path, for two payloads of one message, for artifacts mixed
in a file, and for one replaced while it is read; these are in
`Lifecycle_registry`. Downloads and decrypts need one upload and an envelope of
another key, which a node can answer with instead: these are in
`Lifecycle_recover`, where every pair of the four commands meets at a path. A
retry is the second process of its kind. Two pieces to a write and two reads to
an artifact let every text be cut by every other. Two paths let a command read
one file and write another, or the same one. Three sessions let two compete for
a nonce while a third, of another signer, registers the same commitment.
`MaxNonce` caps the transactions that other programs send with a session's key.
Two nodes and two segments let a file be held in parts. In `SharedFile` keys,
nonces and tags are one byte long and messages empty or one byte, so that every
boundary of the envelope, and every split of a text into writes, occurs.
`Transcripts` counts in two bytes of one bit: bytes 0 and 1 are also the bytes
of every length, so a field can look like any other. `MaxResults` caps the
commands of `DefaultPaths`: five suffice for a result of a result to meet a
third one's name. Three lines put an entry before, between and after the lines
at which `dotenv` stops. All safety properties but `VerifierAddressIsUsed` are
also proved without these bounds. Paths are symmetric in `Lifecycle`, and so are
uploads; so are two sessions of one signer, and gas prices.

Deadlock is not checked: when all commands have ended, the system stops.

Fairness. Only weak fairness is used, as each of these steps stays enabled until
it happens. `EvmVerifier_refine` assumes that a session goes on (`Connect`,
`Validate`, `Fill`, `Send`, or the error for a nonce that is already used), that
a pending transaction is mined or evicted at last, and that the node goes on
answering the polls that `pending_tx` makes: with the receipt once there is
one, and with nothing once the transaction is gone. The code has no timeout, so
without the last two assumptions `verify` can wait for ever.
`StorageUpload_calls` assumes that what a call waits for is answered: its own
steps go on, the storage transaction is packed, or lost and reported so by the
SDK, reachable nodes take every segment, and nodes finalize a file they hold. A
call may still fail or be killed at any step. `ReturnedBecomesDownloadable`
excludes only calls that asked not to wait (`WaitNothing`), which none of the
presets does.

## Findings

1. A dry-run artifact can be registered on chain. `run_verify` ignores
   `storage_mode`, so a locally computed hash is recorded as a 0G Storage root
   (`Lifecycle_dryrun`; `src/main.rs:349`, against `PqspVerifier.sol:6` and
   `core/src/types.rs:8`). The theorems `RegistryIsAnchored` and
   `RegistryIsRecoverable` assume for this reason that no upload is a dry run.
   `KeepsTheVault` says what holds in every mode. Both theorems make
   one more exception. `validate_artifact` compares two commitments and the proof
   is checked, but nothing ties a root to them: where two uploads have had one
   path open, or one has saved while verify was reading, the commitment of one
   upload may be registered with the root of the other. TLC finds such a run
   when either exception is taken out of `VouchedIsOfUpload`.
2. `PQSP_VERIFIER_CONTRACT_ADDRESS` in `.env` is not loaded when it stands
   below a `0G_*` line, as it does in `.env.example`: `dotenv` stops at that
   line, its error is dropped, and the merge looks at digit-leading names only
   (`EnvFile_template`; `src/main.rs:228`, against `README.md:93`). Verify then
   runs the mock verifier. Exporting the variable in the shell avoids it, and
   so does a place above every such line: the theorem `AddressIsUsedAbove`.
3. `accepted` is the status of the transaction. With an address that holds no
   contract, the call succeeds, nothing is registered, and the command reports
   that the contract accepted the commitment (`EvmVerifier_nocode`;
   `core/src/verifier.rs:192`, against `core/src/types.rs:76`). The theorem
   `AcceptedRegistered` assumes `ContractDeployed`.

## Proofs

`tlapm` checks the eight proof modules. The assumptions are those of the
modules, which TLC evaluates on every run:

- `LifecycleAssumption`: the four kinds of processes are disjoint, envelopes
  made with the library are well formed and their keys are not those of uploads;
- `DigestAssumption`: no digest of an upload is zero or malformed, as both
  verifiers refuse those, and none is the mixture of two;
- `EvmAssumption` and `TransactionAssumption`: finitely many sessions, a signer
  for each, and a value for a missing transaction;
- `UploadAssumption`: finitely many segments, at least one, and configurations
  with a list of nodes and one of the levels of `UploadFinality`;
- `FileAssumption`: constants have their types, and a tag is not empty;
- `BytesAssumption`: what powers of the base are, which the provers do not know;
- `FieldAssumption`: fields are shorter than the largest length, the two domains
  differ, and envelopes and JSON start with different bytes;
- `PathsAssumption` and `EnvAssumption`: types, and that a URL is not blank.

`LifecycleProofs` proves `TypeOK` first, for every command and any number of
processes and paths. Lemmas then say what a step can do: only one process moves
(`WhoMoves`, `MovesAlone`), what it may do to a path (`FileChange`), and that
keys, network and registry only grow (`Kept`, `Growth`). On these rest the
inductive invariants that together are `IInv` (theorem `Invariant`):

- `TypeInv` adds to the types that a part of a text at a path is of a process
  that was writing there (`PartsHaveWriters`).
- `NetworkInv`: a started upload has shown its key, only payloads of started
  uploads are packed, only packed ones held, and a live upload that is about to
  save has its payload held. `StoredIsRecoverable` says nothing of where an
  upload is, and so is not inductive without the link between `pc`, `userKeys`
  and `job` (`ShownKeys`).
- `RivalInv`: processes that have one path open know of each other, and one
  without a rival finds its path as it left it (`RivalsAreKnown`). This makes
  `SuccessIsKept` inductive.
- `ArtifactInv` adds that artifacts, in files, in what a verify has begun to read
  and in what it has read, are made of parts of uploads, live ones of held
  payloads, and are whole unless uploads overlapped or the read was torn
  (`ReadingsAreOfUploads`, `SubmittedAreOfUploads`). That a tail left at a path
  is a rival's is `TextsAreOfRivals`.
- `SentInv`: only calls that an EVM session has checked and sent are mined, once
  (`SentWereChecked`). With `ArtifactInv` it gives `VouchedIsOfUpload`: a proof
  that verifies belongs to its statement, so although the parts of a mixed
  artifact may be of different uploads, these two are of the same.
- `SealedInv`: every envelope in a file or in a download's reply was sealed by
  an upload or a user of the library. `DecryptIsAuthentic` follows, as opening
  an envelope determines its key, associated data and message.

`SavedArtifactVerifies` follows from `ArtifactInv` and `DigestAssumption`.

`OverwriteIsEarned` is an action property and follows from `NetworkInv` and the
invariant that a download saves only a reply it has had (`ReplyInvariant`).

Three theorems go from end to end. `RoundTrip`: a decrypt under the key that an
upload has shown returns this upload's plaintext under its associated data and
nothing else. It does not say that a download brings the right payload: nodes
may answer with another one and nothing compares it. `RootsTellReplies` says
what such a comparison would achieve: of all replies only the payload of the
live upload that was asked for has the root. `RegistryIsRecoverable`: from a
registered commitment a way leads back to a stored payload and to the key that
opens it.

`LifecycleRefinements` proves the two mappings of `Lifecycle`. Both need that a
process that has not started has left no trace (`UnstartedInv`), so that what it
asks for or seals is new.

- `KeepsTheVault` maps `UploadStart` to `Seal`, the end of a transfer to
  `Store`, `RegisterEvm` to `Vouch`, or `VouchMixed` where artifacts have been
  mixed, the opening of an envelope to `Recover`, and the first overlap or torn
  read to `Mix`.
- `KeepsTheService` maps the start of a live upload to `Ask`, `Pack` to `Pack`,
  `TransferLive` to `Hold`, the end of the artifact's write to the answer
  `stored`, an error or a kill to `failed`.

All other steps stutter.

`EvmVerifierProofs` proves its `IInv`: a session has kept its validated input,
what is pending or mined was signed by a session, a nonce is spent by one
transaction with one receipt, answers have their receipt, and the registry is
what successful receipts put there. It implies the
invariants by themselves, and `Refines` maps each step: `Validate` to `Ask`, a
successful `Mine` to `Apply`, the endings to `Answer`, all else to stuttering.
`Apply` requires a call not yet applied and not answered `rejected` to any of
the sessions that have sent it, which is where the uniqueness of receipts
(`SentOnce`) is needed. `AcceptedHasItsEvent` compares cardinalities of
transactions and events; it follows from the part of `IInv` that counts the
events of a pair against its successful transactions (`EventsAreCounted`).
`AcceptedRegistered`, `AcceptedHasEvent` and `Refines` assume
`ContractDeployed`, without which finding 3 refutes them. Two more theorems say
what a user may rely on: an answer has its one receipt and stays true, whatever
is mined later (`AnswersAreTrue`), and a nonce that several sessions have signed
is spent by one transaction, and answered alike to all that sent it
(`NoncesAreSpentOnce`).

`StorageUploadProofs` proves `UploadInv`, which adds to the properties how far a
call has connected in each state (`Connected`) and that only what is paid for is
sent, held and finalized (`SentIsPaid`). `KeepsTheService` maps `Include` to
`Pack`, the last missing `SendSegment` to `Hold`, `Return`, `Fail` and `Kill` to
`Answer`. What a call returned for stays stored (`ReturnsWhenStored`).

`SharedFileProofs` proves first that the layouts can be read back
(`EncodedBytes`, `JsonCells`), and that a sequence of cells which authenticates
is the whole of one envelope or payload, with nothing before, between or behind
(`OnlyWhole`); the other direction is `WholeOpens`. Of the behaviour these need
only that a decrypt's result is that of what it has read (`Answered`), whatever
mixture it is; `UndisturbedIsKept` needs that a writer without a rival finds its
own text so far (`OwnPrefix`, `OverwriteExtends`).

`TranscriptsProofs` rests on `FrameIsRead`: of two sequences that begin with a
framed field and are equal, the fields are equal and so are the rests, whatever
they are. That two lengths are written differently (`LengthIsRead`) is proved
from a least counterexample, the first place at which the quotients by powers of
the base differ. Applied three times `FrameIsRead` gives `FieldsDetermine`; the
domain, the context of dry runs and the first byte of the message then determine
the call.

`DefaultPathsProofs` proves that the path of a result tells its kind
(`KindsDiffer`: one dot or two, and the last word) and its input or root
(`PathTells`). Its invariant says that whatever is at a path, and was not the
user's, belongs there; a command that saves there again saves the same.

`EnvFileProofs` carries two facts through the merge: the entries behind it are
in force, the last one of each name (`Merged`), and what differs from the shell
was unset there or is a `0G_*` name of the file (`Overridden`). `RoutesMeet`
needs that the first listed member of a list exists and is listed, for lists of
any length. `AddressIsUsedAbove` needs a third fact, about the address: it is
set behind a line that sets it, and `dotenv` returns at a line that it rejects,
so behind all that stand above it (`AddressInv`).

Model-checked only: liveness (`EveryVerifyEnds`, `EveryCallEnds`,
`ReturnedBecomesDownloadable`) and the three violations. Liveness needs
fairness and `ENABLED`, which the prover does not treat. It has no induction over
data either: the theorems that would give it take an operator as a parameter.
The existence of least elements, a theorem about sets, takes its place in
`TranscriptsProofs`.

## Not modelled

- A download through an indexer: the SDK itself writes the file, in steps this
  repository does not contain. `Download` therefore counts as partly modelled.
- What a node makes up: a download gets what 0G Storage has been given, or bytes
  of no use, and of these only whole payloads and envelopes.
- In `Lifecycle`, mixtures of payloads (`SharedFile` has them) and cuts within a
  statement or a proof. Mock verifies of mixed artifacts are in the proofs, not
  in a run: `Lifecycle_registry` has the EVM verifier only.
- The SDK's internals beyond what the code relies on: segment tasks, replicas,
  fees, its own retries.
- Printed output other than the key and the answer of `verify`, and exit codes:
  `verify` exits with success also when a transaction was mined without success.
- The permutation of SHAKE256 and the cipher, which are libraries: collisions
  and forgeries are taken to be impossible.
- Time: neither the code nor the models have timeouts, except that a node may
  lose sight of a transaction.
- The deployment script (one broadcast), the demo guide and the landing page.

## Plan

All components with state of their own are modelled. What could be added:

1. `SharedFile` and `DefaultPaths` composed into `Lifecycle`, which now takes
   from the first that mixtures of payloads are worthless and lets the second be
   any paths.
2. `StorageUpload` and `EvmVerifier` composed over one account's nonces; now
   each sees the other only as lost and foreign transactions.
3. Chain reorganisations, under which `accepted` and `packed` can be undone.
