----------------------------- MODULE SharedFile -----------------------------
(***************************************************************************)
(* One path, byte by byte: commands that save to it with fs::write, a      *)
(* download that then looks at its size, and decrypts that read it while   *)
(* it may be half written, or written by two commands at once.             *)
(*                                                                         *)
(* The cells of a file stand for bytes, or for the numbers and the         *)
(* punctuation of a JSON text.  A ciphertext is as long as its message and *)
(* tag, and authenticates only whole, with its nonce, its key and its      *)
(* associated data: the promise of XChaCha20-Poly1305.                     *)
(***************************************************************************)
EXTENDS Naturals, Sequences

CONSTANTS
  Writers,      \* commands that save to the path
  Downloads,    \* those of them that report the size of the file
  Readers,      \* decrypts of the path
  Seals,        \* envelopes sealed, each with a nonce of its own
  KeyOf, AadOf, \* what each was sealed under
  SizeOf,       \* the length of each message
  Keys, Aads,
  Notes,        \* texts that hold no envelope, such as a saved artifact
  KeyTexts,     \* what is given as the key
  KEY_BYTES, NONCE_BYTES, TAG_BYTES

\* Keys as text: the hex that upload prints, with or without a prefix, and
\* what becomes of it when a part is lost or it is not hex.
KeyText == [prefixed : BOOLEAN, hex : BOOLEAN, key : Keys, bytes : Nat]

\* What a JSON text has beside numbers: its outer punctuation, and the rest.
JsonMarks == {"{", "}", "field"}

Errors == {"none", "malformed", "unsupported", "bad key", "aead failure"}

ASSUME FileAssumption ==
  /\ Writers \cap Readers = {} /\ Downloads \subseteq Writers
  /\ KeyOf \in [Seals -> Keys] /\ AadOf \in [Seals -> Aads] /\ SizeOf \in [Seals -> Nat]
  /\ KEY_BYTES \in Nat /\ NONCE_BYTES \in Nat /\ TAG_BYTES \in Nat \ {0}
  /\ Seals \cap Errors = {}
  /\ KeyTexts \subseteq KeyText
  /\ Notes \subseteq Seq([json : JsonMarks])

-----------------------------------------------------------------------------
(* Envelopes and keys: crypto/src/encryption.rs. *)

Byte(n) == [byte |-> n]

PAYLOAD_ENVELOPE_VERSION == Byte(1)

BlobCells == [byte : {0, 1}] \cup [nonce : Seals, at : Nat] \cup [cipher : Seals, at : Nat]
Cells     == BlobCells \cup [number : BlobCells] \cup [json : JsonMarks]

Nonce(s) == [i \in 1..NONCE_BYTES |-> [nonce |-> s, at |-> i]]
Ciphertext(s) == [i \in 1..(SizeOf[s] + TAG_BYTES) |-> [cipher |-> s, at |-> i]]

Encrypt(s) ==
  [version |-> PAYLOAD_ENVELOPE_VERSION, nonce |-> Nonce(s), ciphertext |-> Ciphertext(s)]

ToBytes(envelope) == <<envelope.version>> \o envelope.nonce \o envelope.ciphertext

IsLongEnough(bytes) == Len(bytes) >= 1 + NONCE_BYTES

FromBytes(bytes) ==
  [version    |-> bytes[1],
   nonce      |-> [i \in 1..NONCE_BYTES |-> bytes[1 + i]],
   ciphertext |-> [i \in 1..(Len(bytes) - (1 + NONCE_BYTES)) |-> bytes[1 + NONCE_BYTES + i]]]

Authenticates(s, envelope, key, aad) ==
  /\ envelope.nonce = Nonce(s) /\ envelope.ciphertext = Ciphertext(s)
  /\ key = KeyOf[s] /\ aad = AadOf[s]

ToHex(key) == [prefixed |-> FALSE, hex |-> TRUE, key |-> key, bytes |-> KEY_BYTES]

\* Mistake: the prefix is taken for a part of the key.
FromHexUnprefixed(text) == text.hex /\ ~text.prefixed /\ text.bytes = KEY_BYTES

\* The key that the text gives is text.key, if it gives one.
FromHex(text) == text.hex /\ text.bytes = KEY_BYTES

-----------------------------------------------------------------------------
(* Texts: payloads in JSON, raw envelopes, and others.  Of a payload the    *)
(* first cell stands for all that is before the blob and the last for all   *)
(* that is after it.                                                        *)

Open  == [json |-> "{"]
Close == [json |-> "}"]

Json(blob) == <<Open>> \o [i \in 1..Len(blob) |-> [number |-> blob[i]]] \o <<Close>>

Texts == {Json(ToBytes(Encrypt(s))) : s \in Seals} \cup {ToBytes(Encrypt(s)) : s \in Seals} \cup Notes

\* serde_json::from_slice accepts the text, to its end.
IsPayload(bytes) ==
  /\ Len(bytes) >= 2
  /\ bytes[1] = Open /\ bytes[Len(bytes)] = Close
  /\ \A i \in 2..(Len(bytes) - 1) : bytes[i] \in [number : BlobCells]

Blob(bytes) == [i \in 1..(Len(bytes) - 2) |-> bytes[i + 1].number]

\* Mistake: what follows the JSON text is ignored.
BlobOfPrefix(bytes) ==
  LET ends == {n \in DOMAIN bytes : IsPayload(SubSeq(bytes, 1, n))}
  IN  IF ends # {} THEN Blob(SubSeq(bytes, 1, CHOOSE n \in ends : TRUE)) ELSE bytes

\* parse_encrypted_payload
BlobOf(bytes) == IF IsPayload(bytes) THEN Blob(bytes) ELSE bytes

\* run_decrypt: the sealed message it recovers, or its error.
Decrypted(bytes, text, aad) ==
  LET blob == BlobOf(bytes)
      opened == {s \in Seals : Authenticates(s, FromBytes(blob), text.key, aad)}
  IN  CASE ~IsLongEnough(blob) -> "malformed"
        [] IsLongEnough(blob) /\ blob[1] # PAYLOAD_ENVELOPE_VERSION -> "unsupported"
        [] IsLongEnough(blob) /\ blob[1] = PAYLOAD_ENVELOPE_VERSION ->
             IF ~FromHex(text) THEN "bad key"
             ELSE IF opened = {} THEN "aead failure" ELSE CHOOSE s \in opened : TRUE

-----------------------------------------------------------------------------

VARIABLES
  file,    \* the cells of the file
  text,    \* what each writer saves
  pc,      \* where each process is
  at,      \* how much each writer has written
  rivals,  \* writers that had the file open at one time with each writer
  size,    \* what each download reports
  asked,   \* the key text and the associated data that each decrypt has used
  seen,    \* what each decrypt has read so far
  result   \* what it made of it

vars == <<file, text, pc, at, rivals, size, asked, seen, result>>
writing == <<text, at, rivals, size>>
reading == <<asked, seen, result>>

Goto(p, label) == pc' = [pc EXCEPT ![p] = label]

-----------------------------------------------------------------------------
(* fs::write: open with truncation, then write_all from offset 0. *)

\* Writing behind the end of a file fills the gap with zeros.
Overwrite(old, offset, new) ==
  [i \in 1..(IF Len(old) > offset + Len(new) THEN Len(old) ELSE offset + Len(new)) |->
     CASE i \in (offset + 1)..(offset + Len(new)) -> new[i - offset]
       [] i \notin (offset + 1)..(offset + Len(new)) /\ i <= Len(old) -> old[i]
       [] OTHER -> Byte(0)]

\* The others that have the file open while w opens it, or open it later.
Meet(w) ==
  rivals' = [v \in Writers |->
    IF v = w THEN rivals[v] \cup {u \in Writers \ {w} : pc[u] = "writing"}
    ELSE IF pc[v] # "idle" THEN rivals[v] \cup {w} ELSE rivals[v]]

\* Mistake: the file is opened without truncation.
OpenKeeping(w) ==
  /\ pc[w] = "idle"
  /\ Meet(w)
  /\ Goto(w, "writing")
  /\ UNCHANGED <<file, text, at, size, reading>>

OpenFile(w) ==
  /\ pc[w] = "idle"
  /\ file' = <<>>
  /\ Meet(w)
  /\ Goto(w, "writing")
  /\ UNCHANGED <<text, at, size, reading>>

\* Mistake: the offset advances by the end of the piece that was written.
WriteSomeTwice(w) ==
  /\ pc[w] = "writing"
  /\ \E n \in (at[w] + 1)..Len(text[w]) :
       /\ file' = Overwrite(file, at[w], SubSeq(text[w], at[w] + 1, n))
       /\ at' = [at EXCEPT ![w] = @ + n]
  /\ UNCHANGED <<text, pc, rivals, size, reading>>

WriteSome(w) ==
  /\ pc[w] = "writing"
  /\ \E n \in (at[w] + 1)..Len(text[w]) :
       /\ file' = Overwrite(file, at[w], SubSeq(text[w], at[w] + 1, n))
       /\ at' = [at EXCEPT ![w] = n]
  /\ UNCHANGED <<text, pc, rivals, size, reading>>

CloseFile(w) ==
  /\ pc[w] = "writing" /\ at[w] = Len(text[w])
  /\ Goto(w, IF w \in Downloads THEN "written" ELSE "done")
  /\ UNCHANGED <<file, writing, reading>>

\* run_download reads the size of the file from its metadata.
ReportSize(w) ==
  /\ pc[w] = "written"
  /\ size' = [size EXCEPT ![w] = Len(file)]
  /\ Goto(w, "done")
  /\ UNCHANGED <<file, text, at, rivals, reading>>

\* A failed write, or a kill.
Fail(w) ==
  /\ pc[w] \in {"idle", "writing", "written"}
  /\ Goto(w, "failed")
  /\ UNCHANGED <<file, writing, reading>>

-----------------------------------------------------------------------------
(* fs::read, to the end of the file as it then is; then run_decrypt. *)

ReadSome(r) ==
  /\ pc[r] = "reading"
  /\ \E n \in (Len(seen[r]) + 1)..Len(file) :
       seen' = [seen EXCEPT ![r] = @ \o SubSeq(file, Len(@) + 1, n)]
  /\ UNCHANGED <<file, pc, writing, asked, result>>

Decrypt(r) ==
  /\ pc[r] = "reading" /\ Len(file) <= Len(seen[r])
  /\ \E key \in KeyTexts, aad \in Aads :
       /\ asked' = [asked EXCEPT ![r] = {<<key, aad>>}]
       /\ result' = [result EXCEPT ![r] = Decrypted(seen[r], key, aad)]
  /\ Goto(r, "done")
  /\ UNCHANGED <<file, writing, seen>>

-----------------------------------------------------------------------------

Init ==
  /\ text \in [Writers -> Texts]
  /\ file \in {<<>>} \cup Notes
  /\ pc = [p \in Writers \cup Readers |-> IF p \in Readers THEN "reading" ELSE "idle"]
  /\ at = [w \in Writers |-> 0]
  /\ rivals = [w \in Writers |-> {}]
  /\ size = [w \in Writers |-> 0]
  /\ asked = [r \in Readers |-> {}]
  /\ seen = [r \in Readers |-> <<>>]
  /\ result = [r \in Readers |-> "none"]

Next ==
  \/ \E w \in Writers : OpenFile(w) \/ WriteSome(w) \/ CloseFile(w) \/ ReportSize(w) \/ Fail(w)
  \/ \E r \in Readers : ReadSome(r) \/ Decrypt(r)

Spec == Init /\ [][Next]_vars

-----------------------------------------------------------------------------
(* Properties *)

TypeOK ==
  /\ file \in Seq(Cells)
  /\ text \in [Writers -> Texts]
  /\ pc \in [Writers \cup Readers -> {"idle", "writing", "written", "reading", "done", "failed"}]
  /\ at \in [Writers -> Nat] /\ \A w \in Writers : at[w] <= Len(text[w])
  /\ rivals \in [Writers -> SUBSET Writers]
  /\ size \in [Writers -> Nat]
  /\ asked \in [Readers -> SUBSET (KeyTexts \X Aads)]
  /\ seen \in [Readers -> Seq(Cells)]
  /\ result \in [Readers -> Errors \cup Seals]

\* Whatever mixture of partial and overlapping writes a decrypt reads, and at
\* whatever moments it reads it, what it recovers is a message whose whole
\* payload or envelope it has read, opened with the key and the associated data
\* it was sealed under: no mixture passes.
RecoveredIsWhole ==
  \A r \in Readers : \A s \in Seals :
    result[r] = s =>
      /\ seen[r] \in {ToBytes(Encrypt(s)), Json(ToBytes(Encrypt(s)))}
      /\ \E key \in KeyTexts :
           asked[r] = {<<key, AadOf[s]>>} /\ key.key = KeyOf[s] /\ key.bytes = KEY_BYTES

\* A decrypt that has read the whole of a payload or an envelope recovers its
\* message from the key text that upload printed, also with 0x before it.
WholeIsRecovered ==
  \A r \in Readers : \A s \in Seals :
    /\ pc[r] = "done"
    /\ seen[r] \in {ToBytes(Encrypt(s)), Json(ToBytes(Encrypt(s)))}
    /\ \E prefixed \in BOOLEAN :
         asked[r] = {<<[ToHex(KeyOf[s]) EXCEPT !.prefixed = prefixed], AadOf[s]>>}
    => result[r] = s

\* What a command saves to a path that no other has open meanwhile, or opens
\* later, is there in full and with nothing behind it, whatever was there
\* before and however a write is split; and a download reports its size.
UndisturbedIsKept ==
  \A w \in Writers :
    pc[w] = "done" /\ rivals[w] = {} =>
      file = text[w] /\ (w \in Downloads => size[w] = Len(text[w]))
=============================================================================
