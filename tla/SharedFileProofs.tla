-------------------------- MODULE SharedFileProofs --------------------------
(***************************************************************************)
(* Proofs about one path: what a decrypt recovers from any mixture of      *)
(* writes is one message that it has read whole, what it has read whole it *)
(* recovers, and an undisturbed save is kept in full.  For any number of   *)
(* writers, readers and texts.                                             *)
(***************************************************************************)
EXTENDS SharedFile, SequenceTheorems, TLAPS

-----------------------------------------------------------------------------
(* The layouts. *)

\* The bytes of an envelope, one by one.
LEMMA EncodedBytes ==
  ASSUME NEW s \in Seals
  PROVE  LET bytes == ToBytes(Encrypt(s))
         IN  /\ bytes \in Seq(BlobCells)
             /\ Len(bytes) = 1 + NONCE_BYTES + (SizeOf[s] + TAG_BYTES)
             /\ bytes[1] = PAYLOAD_ENVELOPE_VERSION
             /\ \A i \in 1..NONCE_BYTES : bytes[1 + i] = Nonce(s)[i]
             /\ \A i \in 1..(SizeOf[s] + TAG_BYTES) :
                  bytes[1 + NONCE_BYTES + i] = Ciphertext(s)[i]
<1>1. SizeOf[s] \in Nat /\ NONCE_BYTES \in Nat /\ TAG_BYTES \in Nat \ {0}
  BY FileAssumption
<1>2. <<PAYLOAD_ENVELOPE_VERSION>> \in Seq(BlobCells)
  BY DEF PAYLOAD_ENVELOPE_VERSION, Byte, BlobCells
<1>3. Nonce(s) \in Seq(BlobCells) /\ Len(Nonce(s)) = NONCE_BYTES
  BY <1>1 DEF Nonce, BlobCells
<1>4. Ciphertext(s) \in Seq(BlobCells) /\ Len(Ciphertext(s)) = SizeOf[s] + TAG_BYTES
  BY <1>1 DEF Ciphertext, BlobCells
<1> DEFINE start == <<PAYLOAD_ENVELOPE_VERSION>> \o Nonce(s)
<1>5. /\ start \in Seq(BlobCells) /\ Len(start) = 1 + NONCE_BYTES
      /\ start[1] = PAYLOAD_ENVELOPE_VERSION
      /\ \A i \in 1..NONCE_BYTES : start[1 + i] = Nonce(s)[i]
  <2>1. /\ start \in Seq(BlobCells) /\ Len(start) = 1 + NONCE_BYTES
        /\ \A i \in 1..(1 + NONCE_BYTES) :
             start[i] = IF i <= 1 THEN <<PAYLOAD_ENVELOPE_VERSION>>[i] ELSE Nonce(s)[i - 1]
    BY <1>1, <1>2, <1>3, ConcatProperties
  <2> QED
    BY <1>1, <2>1
<1>6. ToBytes(Encrypt(s)) = start \o Ciphertext(s)
  BY DEF ToBytes, Encrypt
<1> HIDE DEF start
<1>7. /\ start \o Ciphertext(s) \in Seq(BlobCells)
      /\ Len(start \o Ciphertext(s)) = 1 + NONCE_BYTES + (SizeOf[s] + TAG_BYTES)
      /\ \A i \in 1..(1 + NONCE_BYTES + (SizeOf[s] + TAG_BYTES)) :
           (start \o Ciphertext(s))[i] =
              IF i <= 1 + NONCE_BYTES THEN start[i] ELSE Ciphertext(s)[i - (1 + NONCE_BYTES)]
  <2>1. /\ start \o Ciphertext(s) \in Seq(BlobCells)
        /\ Len(start \o Ciphertext(s)) = Len(start) + Len(Ciphertext(s))
        /\ \A i \in 1..(Len(start) + Len(Ciphertext(s))) :
             (start \o Ciphertext(s))[i] =
                IF i <= Len(start) THEN start[i] ELSE Ciphertext(s)[i - Len(start)]
    BY <1>4, <1>5, ConcatProperties
  <2> QED
    BY <1>4, <1>5, <2>1
<1>8. ToBytes(Encrypt(s))[1] = PAYLOAD_ENVELOPE_VERSION
  <2>1. 1 \in 1..(1 + NONCE_BYTES + (SizeOf[s] + TAG_BYTES)) /\ 1 <= 1 + NONCE_BYTES
    BY <1>1
  <2> QED
    BY <1>5, <1>6, <1>7, <2>1
<1>9. \A i \in 1..NONCE_BYTES : ToBytes(Encrypt(s))[1 + i] = Nonce(s)[i]
  <2> TAKE i \in 1..NONCE_BYTES
  <2>1. 1 + i \in 1..(1 + NONCE_BYTES + (SizeOf[s] + TAG_BYTES)) /\ 1 + i <= 1 + NONCE_BYTES
    BY <1>1
  <2> QED
    BY <1>5, <1>6, <1>7, <2>1
<1>10. \A i \in 1..(SizeOf[s] + TAG_BYTES) :
         ToBytes(Encrypt(s))[1 + NONCE_BYTES + i] = Ciphertext(s)[i]
  <2> TAKE i \in 1..(SizeOf[s] + TAG_BYTES)
  <2>1. PICK j \in 1..(1 + NONCE_BYTES + (SizeOf[s] + TAG_BYTES)) : j = 1 + NONCE_BYTES + i
    BY <1>1
  <2>2. ~(j <= 1 + NONCE_BYTES) /\ j - (1 + NONCE_BYTES) = i
    BY <1>1, <2>1
  <2>3. (start \o Ciphertext(s))[j] = Ciphertext(s)[i]
    BY <1>7, <2>2
  <2> QED
    BY <1>6, <2>1, <2>3
<1> QED
  BY <1>6, <1>7, <1>8, <1>9, <1>10

\* The cells of a payload's text, one by one.
LEMMA JsonCells ==
  ASSUME NEW blob \in Seq(BlobCells)
  PROVE  /\ Json(blob) \in Seq(Cells)
         /\ Len(Json(blob)) = Len(blob) + 2
         /\ Json(blob)[1] = Open /\ Json(blob)[Len(blob) + 2] = Close
         /\ \A i \in 1..Len(blob) : Json(blob)[i + 1] = [number |-> blob[i]]
<1> DEFINE numbers == [i \in 1..Len(blob) |-> [number |-> blob[i]]]
<1>1. Len(blob) \in Nat /\ \A i \in 1..Len(blob) : blob[i] \in BlobCells
  BY LenProperties, ElementOfSeq
<1>2. numbers \in Seq(Cells) /\ Len(numbers) = Len(blob)
  BY <1>1 DEF Cells
<1>3. <<Open>> \in Seq(Cells) /\ <<Close>> \in Seq(Cells)
  <2>1. Open \in [json : JsonMarks] /\ Close \in [json : JsonMarks]
    BY DEF Open, Close, JsonMarks
  <2>2. Open \in Cells /\ Close \in Cells
    BY <2>1 DEF Cells
  <2> QED
    BY <2>2
<1>4. \A i \in 1..Len(blob) : numbers[i] = [number |-> blob[i]]
  OBVIOUS
<1>5. Json(blob) = (<<Open>> \o numbers) \o <<Close>>
  BY DEF Json
<1> HIDE DEF numbers
<1> DEFINE start == <<Open>> \o numbers
<1>6. /\ start \in Seq(Cells) /\ Len(start) = Len(blob) + 1
      /\ \A i \in 1..(Len(blob) + 1) :
           start[i] = IF i <= 1 THEN <<Open>>[i] ELSE numbers[i - 1]
  BY <1>1, <1>2, <1>3, ConcatProperties
<1>7. start[1] = Open /\ \A i \in 1..Len(blob) : start[i + 1] = numbers[i]
  BY <1>1, <1>6
<1> HIDE DEF start
<1>8. /\ start \o <<Close>> \in Seq(Cells) /\ Len(start \o <<Close>>) = Len(blob) + 2
      /\ \A i \in 1..(Len(blob) + 2) :
           (start \o <<Close>>)[i] =
             IF i <= Len(blob) + 1 THEN start[i] ELSE <<Close>>[i - (Len(blob) + 1)]
  BY <1>1, <1>3, <1>6, ConcatProperties
<1>9. Json(blob) = start \o <<Close>>
  BY <1>5 DEF start
<1>10. Json(blob)[1] = Open /\ Json(blob)[Len(blob) + 2] = Close
  BY <1>1, <1>7, <1>8, <1>9
<1>11. \A i \in 1..Len(blob) : Json(blob)[i + 1] = [number |-> blob[i]]
  <2> TAKE i \in 1..Len(blob)
  <2>1. i + 1 \in 1..(Len(blob) + 2) /\ i + 1 <= Len(blob) + 1
    BY <1>1
  <2>2. Json(blob)[i + 1] = start[i + 1]
    BY <1>8, <1>9, <2>1
  <2> QED
    BY <1>4, <1>7, <2>2
<1> QED
  BY <1>8, <1>9, <1>10, <1>11

-----------------------------------------------------------------------------
(* What decrypt makes of what it has read. *)

Whole(s) == {ToBytes(Encrypt(s)), Json(ToBytes(Encrypt(s)))}

\* An envelope that authenticates has the bytes that were sealed.
LEMMA AuthenticBytes ==
  ASSUME NEW s \in Seals, NEW blob, NEW n \in Nat, NEW S,
         Len(blob) = n, blob \in [1..n -> S],
         IsLongEnough(blob), blob[1] = PAYLOAD_ENVELOPE_VERSION,
         NEW key, NEW aad, Authenticates(s, FromBytes(blob), key, aad)
  PROVE  blob = ToBytes(Encrypt(s))
<1> DEFINE sealed == ToBytes(Encrypt(s))
           rest == SizeOf[s] + TAG_BYTES
<1>1. NONCE_BYTES \in Nat /\ rest \in Nat \ {0}
  BY FileAssumption
<1>2. n >= 1 + NONCE_BYTES
  BY DEF IsLongEnough
<1>3. [i \in 1..(n - (1 + NONCE_BYTES)) |-> blob[1 + NONCE_BYTES + i]] = Ciphertext(s)
  BY DEF Authenticates, FromBytes
<1>4. 1..(n - (1 + NONCE_BYTES)) = 1..rest
  BY <1>3 DEF Ciphertext
<1>5. n - (1 + NONCE_BYTES) = rest
  <2>1. rest \in 1..(n - (1 + NONCE_BYTES))
    BY <1>1, <1>4
  <2>2. n - (1 + NONCE_BYTES) \in 1..rest
    BY <1>1, <1>2, <1>4, <2>1
  <2> QED
    BY <1>1, <1>2, <2>1, <2>2
<1>6. \A i \in 1..rest : blob[1 + NONCE_BYTES + i] = Ciphertext(s)[i]
  BY <1>3, <1>4
<1>7. \A i \in 1..NONCE_BYTES : blob[1 + i] = Nonce(s)[i]
  <2>1. [i \in 1..NONCE_BYTES |-> blob[1 + i]] = Nonce(s)
    BY DEF Authenticates, FromBytes
  <2> QED
    BY <2>1
<1>8. /\ sealed \in Seq(BlobCells) /\ Len(sealed) = 1 + NONCE_BYTES + rest
      /\ sealed[1] = PAYLOAD_ENVELOPE_VERSION
      /\ \A i \in 1..NONCE_BYTES : sealed[1 + i] = Nonce(s)[i]
      /\ \A i \in 1..rest : sealed[1 + NONCE_BYTES + i] = Ciphertext(s)[i]
  BY EncodedBytes
<1>9. n = 1 + NONCE_BYTES + rest
  BY <1>1, <1>2, <1>5
<1>10. sealed \in [1..n -> BlobCells] /\ DOMAIN sealed = 1..n
  BY <1>8, <1>9, LenProperties
<1> HIDE DEF sealed, rest
<1>11. ASSUME NEW i \in 1..n PROVE blob[i] = sealed[i]
  <2>1. CASE i = 1
    BY <1>8, <2>1
  <2>2. CASE i \in 2..(1 + NONCE_BYTES)
    <3>1. PICK j \in 1..NONCE_BYTES : i = 1 + j
      BY <1>1, <2>2
    <3> QED
      BY <1>7, <1>8, <3>1
  <2>3. CASE i > 1 + NONCE_BYTES
    <3>1. PICK j \in 1..rest : i = 1 + NONCE_BYTES + j
      <4>1. i - (1 + NONCE_BYTES) \in 1..rest /\ i = 1 + NONCE_BYTES + (i - (1 + NONCE_BYTES))
        BY <1>1, <1>9, <2>3
      <4> QED
        BY <4>1
    <3> QED
      BY <1>6, <1>8, <3>1
  <2> QED
    BY <1>1, <2>1, <2>2, <2>3
<1>12. blob = sealed
  BY <1>10, <1>11
<1> QED
  BY <1>12 DEF sealed

\* A text that is a payload is the JSON of its blob.
LEMMA PayloadText ==
  ASSUME NEW bytes \in Seq(Cells), IsPayload(bytes)
  PROVE  /\ Blob(bytes) \in Seq(BlobCells) /\ Len(Blob(bytes)) = Len(bytes) - 2
         /\ bytes = Json(Blob(bytes))
<1> DEFINE n == Len(bytes)
           blob == Blob(bytes)
<1>1. n \in Nat /\ n >= 2 /\ bytes \in [1..n -> Cells]
  BY LenProperties DEF IsPayload
<1>2. \A i \in 1..(n - 2) : bytes[i + 1] \in [number : BlobCells]
  BY <1>1 DEF IsPayload
<1>3. /\ \A i \in 1..(n - 2) : bytes[i + 1].number \in BlobCells
      /\ \A i \in 1..(n - 2) : bytes[i + 1] = [number |-> bytes[i + 1].number]
  BY <1>2
<1>4. blob = [i \in 1..(n - 2) |-> bytes[i + 1].number] /\ n - 2 \in Nat
  BY <1>1 DEF Blob
<1>5. blob \in Seq(BlobCells) /\ Len(blob) = n - 2
  BY <1>3, <1>4
<1>6. \A i \in 1..(n - 2) : bytes[i + 1] = [number |-> blob[i]]
  BY <1>3, <1>4
<1> HIDE DEF blob, n
<1>7. /\ Json(blob) \in Seq(Cells) /\ Len(Json(blob)) = n
      /\ Json(blob)[1] = Open /\ Json(blob)[n] = Close
      /\ \A i \in 1..(n - 2) : Json(blob)[i + 1] = [number |-> blob[i]]
  <2>1. Len(blob) + 2 = n
    BY <1>1, <1>5
  <2> QED
    BY <1>5, <2>1, JsonCells
<1>8. bytes[1] = Open /\ bytes[n] = Close
  BY DEF IsPayload, n
<1>9. ASSUME NEW i \in 1..n PROVE bytes[i] = Json(blob)[i]
  <2>1. CASE i = 1 \/ i = n
    BY <1>7, <1>8, <2>1
  <2>2. CASE i # 1 /\ i # n
    <3>1. PICK j \in 1..(n - 2) : i = j + 1
      <4>1. i - 1 \in 1..(n - 2) /\ i = (i - 1) + 1
        BY <1>1, <2>2
      <4> QED
        BY <4>1
    <3> QED
      BY <1>6, <1>7, <3>1
  <2> QED
    BY <2>1, <2>2
<1>10. Json(blob) \in [1..n -> Cells]
  BY <1>7, LenProperties
<1>11. bytes = Json(blob)
  BY <1>1, <1>9, <1>10
<1> QED
  BY <1>5, <1>11 DEF blob, n

\* What decrypt recovers, it has read whole and opened with its key and aad.
LEMMA OnlyWhole ==
  ASSUME NEW s \in Seals, NEW bytes \in Seq(Cells), NEW key, NEW aad,
         Decrypted(bytes, key, aad) = s
  PROVE  /\ bytes \in Whole(s) /\ FromHex(key)
         /\ key.key = KeyOf[s] /\ aad = AadOf[s]
<1> DEFINE blob == BlobOf(bytes)
           opened == {x \in Seals : Authenticates(x, FromBytes(blob), key.key, aad)}
<1>1. s \notin Errors
  BY FileAssumption
<1>2. IsLongEnough(blob)
  BY <1>1 DEF Decrypted, Errors
<1>3. blob[1] = PAYLOAD_ENVELOPE_VERSION
  BY <1>1, <1>2 DEF Decrypted, Errors
<1>4. Decrypted(bytes, key, aad) =
        IF ~FromHex(key) THEN "bad key"
        ELSE IF opened = {} THEN "aead failure" ELSE CHOOSE x \in opened : TRUE
  BY <1>2, <1>3 DEF Decrypted
<1>5. FromHex(key) /\ s \in opened
  BY <1>1, <1>4 DEF Errors
<1>6. CASE IsPayload(bytes)
  <2>1. /\ blob \in Seq(BlobCells) /\ bytes = Json(blob)
        /\ Len(blob) \in Nat /\ blob \in [1..Len(blob) -> BlobCells]
    BY <1>6, PayloadText, LenProperties DEF BlobOf
  <2>2. blob = ToBytes(Encrypt(s))
    BY <1>2, <1>3, <1>5, <2>1, AuthenticBytes
  <2> QED
    BY <1>5, <2>1, <2>2 DEF Whole, Authenticates
<1>7. CASE ~IsPayload(bytes)
  <2>1. blob = bytes /\ Len(blob) \in Nat /\ blob \in [1..Len(blob) -> Cells]
    BY <1>7, LenProperties DEF BlobOf
  <2>2. blob = ToBytes(Encrypt(s))
    BY <1>2, <1>3, <1>5, <2>1, AuthenticBytes
  <2> QED
    BY <1>5, <2>1, <2>2 DEF Whole, Authenticates
<1> QED
  BY <1>6, <1>7

\* What decrypt has read whole it recovers, under the right key and aad.
LEMMA WholeOpens ==
  ASSUME NEW s \in Seals, NEW bytes \in Whole(s), NEW key, NEW aad,
         FromHex(key), key.key = KeyOf[s], aad = AadOf[s]
  PROVE  Decrypted(bytes, key, aad) = s
<1> DEFINE sealed == ToBytes(Encrypt(s))
           rest == SizeOf[s] + TAG_BYTES
<1>1. NONCE_BYTES \in Nat /\ rest \in Nat \ {0}
  BY FileAssumption
<1>2. /\ sealed \in Seq(BlobCells) /\ Len(sealed) = 1 + NONCE_BYTES + rest
      /\ sealed[1] = PAYLOAD_ENVELOPE_VERSION
      /\ \A i \in 1..NONCE_BYTES : sealed[1 + i] = Nonce(s)[i]
      /\ \A i \in 1..rest : sealed[1 + NONCE_BYTES + i] = Ciphertext(s)[i]
  BY EncodedBytes
<1> HIDE DEF sealed
<1>3. BlobOf(sealed) = sealed
  <2>1. DOMAIN PAYLOAD_ENVELOPE_VERSION = {"byte"} /\ DOMAIN Open = {"json"}
    BY DEF PAYLOAD_ENVELOPE_VERSION, Byte, Open
  <2>2. sealed[1] # Open
    BY <1>2, <2>1
  <2> QED
    BY <2>2 DEF BlobOf, IsPayload
<1>4. BlobOf(Json(sealed)) = sealed
  <2> DEFINE n == Len(sealed)
  <2>1. n \in Nat /\ n >= 1 /\ sealed \in [1..n -> BlobCells]
    BY <1>1, <1>2, LenProperties
  <2>2. /\ Len(Json(sealed)) = n + 2
        /\ Json(sealed)[1] = Open /\ Json(sealed)[n + 2] = Close
        /\ \A i \in 1..n : Json(sealed)[i + 1] = [number |-> sealed[i]]
    BY <1>2, JsonCells
  <2> HIDE DEF n
  <2>3. ASSUME NEW i \in 2..(n + 1) PROVE Json(sealed)[i] \in [number : BlobCells]
    <3>1. PICK j \in 1..n : i = j + 1
      <4>1. i - 1 \in 1..n /\ i = (i - 1) + 1
        BY <2>1
      <4> QED
        BY <4>1
    <3>2. sealed[j] \in BlobCells
      BY <2>1
    <3>3. Json(sealed)[i] = [number |-> sealed[j]]
      BY <2>2, <3>1
    <3> QED
      BY <3>2, <3>3
  <2>4. IsPayload(Json(sealed))
    <3>1. (n + 2) - 1 = n + 1 /\ n + 2 >= 2
      BY <2>1
    <3> QED
      BY <2>2, <2>3, <3>1 DEF IsPayload
  <2>5. Blob(Json(sealed)) = [i \in 1..n |-> Json(sealed)[i + 1].number]
    <3>1. (n + 2) - 2 = n
      BY <2>1
    <3> QED
      BY <2>2, <3>1 DEF Blob
  <2>6. \A i \in 1..n : Json(sealed)[i + 1].number = sealed[i]
    <3> TAKE i \in 1..n
    <3>1. Json(sealed)[i + 1] = [number |-> sealed[i]]
      BY <2>2
    <3> QED
      BY <3>1
  <2>7. [i \in 1..n |-> Json(sealed)[i + 1].number] = sealed
    BY <2>1, <2>6
  <2> QED
    BY <2>4, <2>5, <2>7 DEF BlobOf
<1>5. BlobOf(bytes) = sealed
  BY <1>3, <1>4 DEF Whole, sealed
<1>6. IsLongEnough(sealed)
  BY <1>1, <1>2 DEF IsLongEnough
<1>7. FromBytes(sealed).nonce = Nonce(s)
  BY <1>2 DEF FromBytes, Nonce
<1>8. FromBytes(sealed).ciphertext = Ciphertext(s)
  <2>1. Len(sealed) - (1 + NONCE_BYTES) = rest
    BY <1>1, <1>2
  <2> QED
    BY <1>2, <2>1 DEF FromBytes, Ciphertext
<1> DEFINE opened == {x \in Seals : Authenticates(x, FromBytes(sealed), key.key, aad)}
<1>9. s \in opened
  BY <1>7, <1>8 DEF Authenticates
<1>10. ASSUME NEW x \in opened PROVE x = s
  <2>1. Ciphertext(x) = Ciphertext(s)
    BY <1>8 DEF Authenticates
  <2>2. SizeOf[x] + TAG_BYTES \in Nat \ {0}
    BY FileAssumption
  <2>3. Ciphertext(x)[1] = [cipher |-> x, at |-> 1] /\ Ciphertext(s)[1] = [cipher |-> s, at |-> 1]
    BY <1>1, <2>2 DEF Ciphertext
  <2>4. [cipher |-> x, at |-> 1].cipher = [cipher |-> s, at |-> 1].cipher
    BY <2>1, <2>3
  <2> QED
    BY <2>4
<1>11. (CHOOSE x \in opened : TRUE) = s
  BY <1>9, <1>10
<1> HIDE DEF opened
<1>12. Decrypted(bytes, key, aad) = CHOOSE x \in opened : TRUE
  BY <1>2, <1>5, <1>6, <1>9 DEF Decrypted, opened
<1> QED
  BY <1>11, <1>12

-----------------------------------------------------------------------------
(* The file. *)

\* Every text is a sequence of cells.
LEMMA TextsAreCells ==
  ASSUME NEW t \in Texts PROVE t \in Seq(Cells)
<1>1. ASSUME NEW s \in Seals PROVE ToBytes(Encrypt(s)) \in Seq(Cells)
  <2>1. ToBytes(Encrypt(s)) \in Seq(BlobCells)
    BY EncodedBytes
  <2>2. BlobCells \subseteq Cells
    BY DEF Cells
  <2> QED
    BY <2>1, <2>2
<1>2. ASSUME NEW s \in Seals PROVE Json(ToBytes(Encrypt(s))) \in Seq(Cells)
  BY EncodedBytes, JsonCells
<1>3. Notes \subseteq Seq(Cells)
  <2>1. Notes \subseteq Seq([json : JsonMarks])
    BY FileAssumption
  <2>2. [json : JsonMarks] \subseteq Cells
    BY DEF Cells
  <2> QED
    <3> SUFFICES ASSUME NEW note \in Notes PROVE note \in Seq(Cells)
      OBVIOUS
    <3>1. note \in [1..Len(note) -> [json : JsonMarks]] /\ Len(note) \in Nat
      BY <2>1, LenProperties
    <3>2. note \in [1..Len(note) -> Cells]
      BY <2>2, <3>1
    <3> QED
      BY <3>1, <3>2
<1> QED
  BY <1>1, <1>2, <1>3 DEF Texts

\* Overwriting a file leaves a file.
LEMMA OverwriteIsFile ==
  ASSUME NEW old \in Seq(Cells), NEW offset \in Nat, NEW new \in Seq(Cells)
  PROVE  Overwrite(old, offset, new) \in Seq(Cells)
<1> DEFINE end == offset + Len(new)
           n == IF Len(old) > end THEN Len(old) ELSE end
<1>1. n \in Nat /\ end \in Nat /\ Len(old) \in Nat /\ Len(new) \in Nat
  BY LenProperties
<1>2. Byte(0) \in Cells
  BY DEF Byte, Cells, BlobCells
<1>3. ASSUME NEW i \in 1..n
      PROVE  (CASE i \in (offset + 1)..end -> new[i - offset]
                [] i \notin (offset + 1)..end /\ i <= Len(old) -> old[i]
                [] OTHER -> Byte(0)) \in Cells
  <2>1. CASE i \in (offset + 1)..end
    <3>1. i - offset \in 1..Len(new)
      BY <1>1, <2>1
    <3>2. new[i - offset] \in Cells
      BY <3>1, ElementOfSeq
    <3> QED
      BY <2>1, <3>2
  <2>2. CASE i \notin (offset + 1)..end /\ i <= Len(old)
    <3>1. old[i] \in Cells
      BY <1>1, <2>2, ElementOfSeq
    <3> QED
      BY <2>2, <3>1
  <2>3. CASE i \notin (offset + 1)..end /\ ~(i <= Len(old))
    BY <1>2, <2>3
  <2> QED
    BY <2>1, <2>2, <2>3
<1>4. Overwrite(old, offset, new) \in [1..n -> Cells]
  BY <1>3 DEF Overwrite
<1> HIDE DEF n
<1> QED
  BY <1>1, <1>4

\* A piece written where the piece before it ended makes a longer piece.
LEMMA OverwriteExtends ==
  ASSUME NEW t \in Seq(Cells), NEW a \in Nat, NEW n \in (a + 1)..Len(t)
  PROVE  Overwrite(SubSeq(t, 1, a), a, SubSeq(t, a + 1, n)) = SubSeq(t, 1, n)
<1>1. Len(t) \in Nat /\ n \in Nat /\ a < n /\ n <= Len(t)
  BY LenProperties
<1>2. \A i \in 1..n : t[i] \in Cells
  BY <1>1, ElementOfSeq
<1> DEFINE old == SubSeq(t, 1, a)
           new == SubSeq(t, a + 1, n)
           all == SubSeq(t, 1, n)
<1>3. /\ old \in Seq(Cells) /\ Len(old) = a
      /\ \A i \in 1..a : old[i] = t[i]
  <2>1. \A i \in 1..a : t[i] \in Cells
    BY <1>1, <1>2
  <2>2. /\ old \in Seq(Cells) /\ Len(old) = IF 1 <= a THEN a - 1 + 1 ELSE 0
        /\ \A i \in 1..(a - 1 + 1) : old[i] = t[1 + i - 1]
    BY <2>1, SubSeqProperties
  <2> QED
    BY <2>2
<1>4. /\ new \in Seq(Cells) /\ Len(new) = n - a
      /\ \A i \in 1..(n - a) : new[i] = t[a + i]
  <2>1. \A i \in (a + 1)..n : t[i] \in Cells
    BY <1>1, <1>2
  <2>2. /\ new \in Seq(Cells) /\ Len(new) = IF a + 1 <= n THEN n - (a + 1) + 1 ELSE 0
        /\ \A i \in 1..(n - (a + 1) + 1) : new[i] = t[a + 1 + i - 1]
    BY <1>1, <2>1, SubSeqProperties
  <2>3. n - (a + 1) + 1 = n - a /\ a + 1 <= n
    BY <1>1
  <2>4. \A i \in 1..(n - a) : a + 1 + i - 1 = a + i
    OBVIOUS
  <2> QED
    BY <2>2, <2>3, <2>4
<1>5. /\ all \in [1..n -> Cells]
      /\ \A i \in 1..n : all[i] = t[i]
  <2>1. /\ all \in Seq(Cells) /\ Len(all) = IF 1 <= n THEN n - 1 + 1 ELSE 0
        /\ \A i \in 1..(n - 1 + 1) : all[i] = t[1 + i - 1]
    BY <1>1, <1>2, SubSeqProperties
  <2>2. Len(all) = n /\ \A i \in 1..n : all[i] = t[i]
    BY <1>1, <2>1
  <2> QED
    BY <2>1, <2>2, LenProperties
<1> HIDE DEF old, new, all
<1>6. Overwrite(old, a, new) =
        [i \in 1..n |-> CASE i \in (a + 1)..n -> new[i - a]
                         [] i \notin (a + 1)..n /\ i <= a -> old[i]
                         [] OTHER -> Byte(0)]
  <2>1. a + Len(new) = n /\ ~(Len(old) > n)
    BY <1>1, <1>3, <1>4
  <2> QED
    BY <1>3, <2>1 DEF Overwrite
<1>7. ASSUME NEW i \in 1..n PROVE Overwrite(old, a, new)[i] = all[i]
  <2>1. CASE i \in (a + 1)..n
    <3>1. PICK j \in 1..(n - a) : j = i - a
      BY <1>1, <2>1
    <3>2. new[j] = t[i]
      BY <1>1, <1>4, <3>1
    <3> QED
      BY <1>5, <1>6, <2>1, <3>1, <3>2
  <2>2. CASE i \notin (a + 1)..n /\ i <= a
    BY <1>1, <1>3, <1>5, <1>6, <2>2
  <2> QED
    BY <1>1, <2>1, <2>2
<1>8. Overwrite(old, a, new) = all
  BY <1>5, <1>6, <1>7
<1> QED
  BY <1>8 DEF old, new, all

-----------------------------------------------------------------------------
(* The inductive invariant. *)

Saved == {"written", "done"}

\* Whoever may disturb a save is among its rivals.
RivalsAreMet ==
  \A v, w \in Writers :
    v # w /\ pc[v] = "writing" /\ pc[w] \in {"writing"} \cup Saved => v \in rivals[w]

\* Without a rival the file holds what its writer has written so far.
OwnPrefix ==
  \A w \in Writers :
    /\ pc[w] = "idle" => at[w] = 0
    /\ rivals[w] = {} =>
         /\ pc[w] = "writing" => file = SubSeq(text[w], 1, at[w])
         /\ pc[w] \in Saved => file = text[w]
         /\ pc[w] = "done" /\ w \in Downloads => size[w] = Len(text[w])

\* A decrypt has its result from what it has read and was given.
Answered ==
  \A r \in Readers :
    IF pc[r] = "reading" THEN result[r] = "none"
    ELSE \E key \in KeyTexts, aad \in Aads :
           asked[r] = {<<key, aad>>} /\ result[r] = Decrypted(seen[r], key, aad)

FileInv == TypeOK /\ RivalsAreMet /\ OwnPrefix /\ Answered

\* Decrypt yields an error or a message.
LEMMA DecryptedType ==
  ASSUME NEW bytes, NEW key, NEW aad
  PROVE  Decrypted(bytes, key, aad) \in Errors \cup Seals
<1> DEFINE blob == BlobOf(bytes)
           opened == {s \in Seals : Authenticates(s, FromBytes(blob), key.key, aad)}
<1>1. CASE ~IsLongEnough(blob)
  BY <1>1 DEF Decrypted, Errors
<1>2. CASE IsLongEnough(blob) /\ blob[1] # PAYLOAD_ENVELOPE_VERSION
  BY <1>2 DEF Decrypted, Errors
<1>3. CASE IsLongEnough(blob) /\ blob[1] = PAYLOAD_ENVELOPE_VERSION
  <2>1. Decrypted(bytes, key, aad) =
          IF ~FromHex(key) THEN "bad key"
          ELSE IF opened = {} THEN "aead failure" ELSE CHOOSE s \in opened : TRUE
    BY <1>3 DEF Decrypted
  <2>2. opened # {} => (CHOOSE s \in opened : TRUE) \in Seals
    OBVIOUS
  <2> HIDE DEF opened
  <2> QED
    BY <2>1, <2>2 DEF Errors
<1> QED
  BY <1>1, <1>2, <1>3

\* The invariant holds before the first step.
LEMMA InitFileInv == Init => FileInv
<1> SUFFICES ASSUME Init PROVE FileInv
  OBVIOUS
<1>0. Writers \cap Readers = {}
  BY FileAssumption
<1>1. file \in Seq(Cells)
  <2>1. CASE file = <<>>
    <3>1. <<>> \in Seq(Cells)
      OBVIOUS
    <3> QED
      BY <2>1, <3>1
  <2>2. CASE file \in Notes
    <3>1. file \in Texts
      BY <2>2 DEF Texts
    <3> QED
      BY <3>1, TextsAreCells
  <2> QED
    BY <2>1, <2>2 DEF Init
<1>2. \A w \in Writers : Len(text[w]) \in Nat
  BY TextsAreCells, LenProperties DEF Init
<1>3. TypeOK
  BY <1>1, <1>2 DEF Init, TypeOK, Errors
<1>4. RivalsAreMet /\ OwnPrefix
  BY <1>0 DEF Init, RivalsAreMet, OwnPrefix, Saved
<1>5. Answered
  BY DEF Init, Answered
<1> QED
  BY <1>3, <1>4, <1>5 DEF FileInv

\* Every step keeps it.
LEMMA NextFileInv == FileInv /\ [Next]_vars => FileInv'
<1> SUFFICES ASSUME FileInv, [Next]_vars PROVE FileInv'
  OBVIOUS
<1> USE DEF Goto, writing, reading
<1>0. /\ Writers \cap Readers = {}
      /\ pc \in [Writers \cup Readers -> {"idle", "writing", "written", "reading", "done", "failed"}]
      /\ \A w \in Writers : text[w] \in Seq(Cells) /\ Len(text[w]) \in Nat /\ at[w] \in Nat
                             /\ at[w] <= Len(text[w])
      /\ Len(file) \in Nat
  BY FileAssumption, TextsAreCells, LenProperties DEF FileInv, TypeOK
<1>1. ASSUME NEW w \in Writers, OpenFile(w) PROVE FileInv'
  <2> USE <1>1 DEF OpenFile, Meet
  <2>1. TypeOK'
    BY <1>0 DEF FileInv, TypeOK
  <2>2. RivalsAreMet'
    BY <1>0 DEF FileInv, RivalsAreMet, TypeOK, Saved
  <2>3. OwnPrefix'
    <3> SUFFICES ASSUME NEW v \in Writers
                 PROVE  /\ pc'[v] = "idle" => at'[v] = 0
                        /\ rivals'[v] = {} =>
                             /\ pc'[v] = "writing" => file' = SubSeq(text'[v], 1, at'[v])
                             /\ pc'[v] \in Saved => file' = text'[v]
                             /\ pc'[v] = "done" /\ v \in Downloads => size'[v] = Len(text'[v])
      BY DEF OwnPrefix
    <3>1. CASE v = w
      <4>1. at[v] = 0 /\ pc'[v] = "writing"
        BY <1>0, <3>1 DEF FileInv, OwnPrefix
      <4>2. SubSeq(text[v], 1, 0) = <<>>
        BY SubSeqEmpty
      <4> QED
        BY <4>1, <4>2 DEF Saved
    <3>2. CASE v # w
      <4>1. pc'[v] = pc[v]
        BY <1>0, <3>2
      <4>2. pc[v] # "idle" => rivals'[v] # {}
        BY <3>2
      <4> QED
        BY <4>1, <4>2 DEF FileInv, OwnPrefix, Saved
    <3> QED
      BY <3>1, <3>2
  <2>4. Answered'
    BY <1>0 DEF FileInv, Answered
  <2> QED
    BY <2>1, <2>2, <2>3, <2>4 DEF FileInv
<1>2. ASSUME NEW w \in Writers, WriteSome(w) PROVE FileInv'
  <2>1. PICK n \in (at[w] + 1)..Len(text[w]) :
          /\ file' = Overwrite(file, at[w], SubSeq(text[w], at[w] + 1, n))
          /\ at' = [at EXCEPT ![w] = n]
    BY <1>2 DEF WriteSome
  <2>2. pc[w] = "writing" /\ UNCHANGED <<text, pc, rivals, size, asked, seen, result>>
    BY <1>2 DEF WriteSome
  <2>3. n \in Nat /\ n <= Len(text[w])
    BY <1>0
  <2>4. SubSeq(text[w], at[w] + 1, n) \in Seq(Cells)
    <3>1. \A i \in (at[w] + 1)..n : text[w][i] \in Cells
      BY <1>0, <2>3, ElementOfSeq
    <3> QED
      BY <1>0, <2>3, <3>1, SubSeqProperties
  <2>5. file' \in Seq(Cells)
    BY <1>0, <2>1, <2>4, OverwriteIsFile DEF FileInv, TypeOK
  <2>6. TypeOK'
    BY <1>0, <2>1, <2>2, <2>3, <2>5 DEF FileInv, TypeOK
  <2>7. RivalsAreMet' /\ Answered'
    BY <2>2 DEF FileInv, RivalsAreMet, Answered
  <2>8. OwnPrefix'
    <3> SUFFICES ASSUME NEW v \in Writers
                 PROVE  /\ pc[v] = "idle" => at'[v] = 0
                        /\ rivals[v] = {} =>
                             /\ pc[v] = "writing" => file' = SubSeq(text[v], 1, at'[v])
                             /\ pc[v] \in Saved => file' = text[v]
                             /\ pc[v] = "done" /\ v \in Downloads => size[v] = Len(text[v])
      BY <2>2 DEF OwnPrefix
    <3>1. CASE v = w
      <4>1. at'[v] = n
        BY <2>1, <3>1 DEF FileInv, TypeOK
      <4>2. ASSUME rivals[w] = {} PROVE file' = SubSeq(text[w], 1, n)
        <5>1. PICK t \in Seq(Cells) : t = text[w]
          BY <1>0
        <5>2. PICK a \in Nat : a = at[w]
          BY <1>0
        <5>3. file = SubSeq(t, 1, a)
          BY <2>2, <4>2, <5>1, <5>2 DEF FileInv, OwnPrefix
        <5>4. a <= n /\ n \in (a + 1)..Len(t)
          BY <1>0, <2>3, <5>1, <5>2
        <5>5. Overwrite(SubSeq(t, 1, a), a, SubSeq(t, a + 1, n)) = SubSeq(t, 1, n)
          BY <5>1, <5>2, <5>4, OverwriteExtends
        <5>6. file' = Overwrite(file, a, SubSeq(t, a + 1, n))
          BY <2>1, <5>1, <5>2
        <5> QED
          BY <5>1, <5>3, <5>5, <5>6
      <4> QED
        BY <2>2, <3>1, <4>1, <4>2 DEF Saved
    <3>2. CASE v # w
      <4>1. at'[v] = at[v]
        BY <2>1, <3>2 DEF FileInv, TypeOK
      <4>2. pc[v] \in {"writing"} \cup Saved => rivals[v] # {}
        BY <2>2, <3>2 DEF FileInv, RivalsAreMet
      <4> QED
        BY <4>1, <4>2 DEF FileInv, OwnPrefix, Saved
    <3> QED
      BY <3>1, <3>2
  <2> QED
    BY <2>6, <2>7, <2>8 DEF FileInv
<1>3. ASSUME NEW w \in Writers, CloseFile(w) PROVE FileInv'
  <2>1. PICK label \in Saved : pc' = [pc EXCEPT ![w] = label] /\ (label = "done" => w \notin Downloads)
    BY <1>3 DEF CloseFile, Saved
  <2>2. pc[w] = "writing" /\ at[w] = Len(text[w])
        /\ UNCHANGED <<file, text, at, rivals, size, asked, seen, result>>
    BY <1>3 DEF CloseFile
  <2>3. TypeOK'
    BY <1>0, <2>1, <2>2 DEF FileInv, TypeOK, Saved
  <2>4. RivalsAreMet' /\ Answered'
    BY <1>0, <2>1, <2>2 DEF FileInv, RivalsAreMet, Answered, Saved
  <2>5. SubSeq(text[w], 1, at[w]) = text[w]
    BY <1>0, <2>2, SubSeqFull
  <2>6. OwnPrefix'
    BY <1>0, <2>1, <2>2, <2>5 DEF FileInv, OwnPrefix, Saved
  <2> QED
    BY <2>3, <2>4, <2>6 DEF FileInv
<1>4. ASSUME NEW w \in Writers, ReportSize(w) PROVE FileInv'
  <2> USE <1>4 DEF ReportSize
  <2>1. TypeOK'
    BY <1>0 DEF FileInv, TypeOK
  <2>2. RivalsAreMet' /\ Answered'
    BY <1>0 DEF FileInv, RivalsAreMet, Answered, Saved
  <2>3. OwnPrefix'
    <3>1. rivals[w] = {} => file = text[w]
      BY DEF FileInv, OwnPrefix, Saved
    <3>2. size'[w] = Len(file)
      BY DEF FileInv, TypeOK
    <3>3. \A v \in Writers : v # w => size'[v] = size[v] /\ pc'[v] = pc[v]
      BY <1>0 DEF FileInv, TypeOK
    <3> QED
      BY <1>0, <3>1, <3>2, <3>3 DEF FileInv, OwnPrefix, Saved
  <2> QED
    BY <2>1, <2>2, <2>3 DEF FileInv
<1>5. ASSUME NEW w \in Writers, Fail(w) PROVE FileInv'
  <2> USE <1>5 DEF Fail
  <2>1. TypeOK'
    BY <1>0 DEF FileInv, TypeOK
  <2>2. RivalsAreMet' /\ Answered' /\ OwnPrefix'
    BY <1>0 DEF FileInv, RivalsAreMet, Answered, OwnPrefix, Saved
  <2> QED
    BY <2>1, <2>2 DEF FileInv
<1>6. ASSUME NEW r \in Readers, ReadSome(r) PROVE FileInv'
  <2>1. PICK n \in (Len(seen[r]) + 1)..Len(file) :
          seen' = [seen EXCEPT ![r] = seen[r] \o SubSeq(file, Len(seen[r]) + 1, n)]
    BY <1>6 DEF ReadSome
  <2>2. pc[r] = "reading" /\ UNCHANGED <<file, pc, text, at, rivals, size, asked, result>>
    BY <1>6 DEF ReadSome
  <2>3. seen[r] \in Seq(Cells) /\ file \in Seq(Cells)
    BY DEF FileInv, TypeOK
  <2>4. Len(seen[r]) \in Nat
    BY <2>3, LenProperties
  <2>5. SubSeq(file, Len(seen[r]) + 1, n) \in Seq(Cells)
    <3>1. \A i \in (Len(seen[r]) + 1)..n : file[i] \in Cells
      BY <1>0, <2>3, <2>4, ElementOfSeq
    <3> QED
      BY <1>0, <2>4, <3>1, SubSeqProperties
  <2>6. seen[r] \o SubSeq(file, Len(seen[r]) + 1, n) \in Seq(Cells)
    BY <2>3, <2>5, ConcatProperties
  <2>7. TypeOK'
    BY <2>1, <2>2, <2>6 DEF FileInv, TypeOK
  <2>8. RivalsAreMet' /\ OwnPrefix'
    BY <2>2 DEF FileInv, RivalsAreMet, OwnPrefix
  <2>9. Answered'
    BY <2>1, <2>2 DEF FileInv, TypeOK, Answered
  <2> QED
    BY <2>7, <2>8, <2>9 DEF FileInv
<1>7. ASSUME NEW r \in Readers, Decrypt(r) PROVE FileInv'
  <2>1. PICK key \in KeyTexts, aad \in Aads :
          /\ asked' = [asked EXCEPT ![r] = {<<key, aad>>}]
          /\ result' = [result EXCEPT ![r] = Decrypted(seen[r], key, aad)]
    BY <1>7 DEF Decrypt
  <2>2. pc' = [pc EXCEPT ![r] = "done"] /\ UNCHANGED <<file, text, at, rivals, size, seen>>
    BY <1>7 DEF Decrypt
  <2>3. Decrypted(seen[r], key, aad) \in Errors \cup Seals
    BY DecryptedType
  <2>4. TypeOK'
    BY <1>0, <2>1, <2>2, <2>3 DEF FileInv, TypeOK
  <2>5. RivalsAreMet' /\ OwnPrefix'
    BY <1>0, <2>2 DEF FileInv, RivalsAreMet, OwnPrefix
  <2>6. Answered'
    <3> SUFFICES ASSUME NEW x \in Readers
                 PROVE  IF pc'[x] = "reading" THEN result'[x] = "none"
                        ELSE \E k \in KeyTexts, a \in Aads :
                               asked'[x] = {<<k, a>>} /\ result'[x] = Decrypted(seen'[x], k, a)
      BY DEF Answered
    <3>1. CASE x = r
      <4>1. pc'[x] = "done" /\ asked'[x] = {<<key, aad>>}
            /\ result'[x] = Decrypted(seen[x], key, aad)
        BY <1>0, <2>1, <2>2, <3>1 DEF FileInv, TypeOK
      <4> QED
        BY <2>2, <4>1
    <3>2. CASE x # r
      <4>1. pc'[x] = pc[x] /\ asked'[x] = asked[x] /\ result'[x] = result[x] /\ seen'[x] = seen[x]
        BY <1>0, <2>1, <2>2, <3>2 DEF FileInv, TypeOK
      <4> QED
        BY <4>1 DEF FileInv, Answered
    <3> QED
      BY <3>1, <3>2
  <2> QED
    BY <2>4, <2>5, <2>6 DEF FileInv
<1>8. CASE UNCHANGED vars
  BY <1>8 DEF vars, FileInv, TypeOK, RivalsAreMet, OwnPrefix, Answered
<1> QED
  BY <1>1, <1>2, <1>3, <1>4, <1>5, <1>6, <1>7, <1>8 DEF Next

\* The inductive invariant of the path holds throughout.
THEOREM FileInvariant == Spec => []FileInv
<1> QED
  BY InitFileInv, NextFileInv, PTL DEF Spec

\* The file, its writers and its readers keep their types.
THEOREM TypeCorrect == Spec => []TypeOK
<1>1. FileInv => TypeOK
  BY DEF FileInv
<1> QED
  BY <1>1, FileInvariant, PTL

\* What a decrypt recovers from any mixture of writes, it has read whole.
THEOREM RecoversWhole == Spec => []RecoveredIsWhole
<1>1. FileInv => RecoveredIsWhole
  <2> SUFFICES ASSUME FileInv, NEW r \in Readers, NEW s \in Seals, result[r] = s
               PROVE  /\ seen[r] \in Whole(s)
                      /\ \E key \in KeyTexts :
                           asked[r] = {<<key, AadOf[s]>>} /\ key.key = KeyOf[s]
                             /\ key.bytes = KEY_BYTES
    BY DEF RecoveredIsWhole, Whole
  <2>1. result[r] # "none"
    BY FileAssumption DEF Errors
  <2>2. PICK key \in KeyTexts, aad \in Aads :
          asked[r] = {<<key, aad>>} /\ result[r] = Decrypted(seen[r], key, aad)
    BY <2>1 DEF FileInv, Answered
  <2>3. seen[r] \in Seq(Cells)
    BY DEF FileInv, TypeOK
  <2>4. seen[r] \in Whole(s) /\ FromHex(key) /\ key.key = KeyOf[s] /\ aad = AadOf[s]
    BY <2>2, <2>3, OnlyWhole
  <2> QED
    BY <2>2, <2>4 DEF FromHex
<1> QED
  BY <1>1, FileInvariant, PTL

\* What a decrypt has read whole it recovers under the printed key.
THEOREM RecoversAll == Spec => []WholeIsRecovered
<1>1. FileInv => WholeIsRecovered
  <2> SUFFICES ASSUME FileInv, NEW r \in Readers, NEW s \in Seals, NEW prefixed \in BOOLEAN,
                      pc[r] = "done", seen[r] \in Whole(s),
                      asked[r] = {<<[ToHex(KeyOf[s]) EXCEPT !.prefixed = prefixed], AadOf[s]>>}
               PROVE  result[r] = s
    BY DEF WholeIsRecovered, Whole
  <2> DEFINE printed == [ToHex(KeyOf[s]) EXCEPT !.prefixed = prefixed]
  <2>1. FromHex(printed) /\ printed.key = KeyOf[s]
    BY DEF FromHex, ToHex
  <2>2. PICK key \in KeyTexts, aad \in Aads :
          asked[r] = {<<key, aad>>} /\ result[r] = Decrypted(seen[r], key, aad)
    BY DEF FileInv, Answered
  <2> HIDE DEF printed
  <2>3. key = printed /\ aad = AadOf[s]
    <3>1. <<key, aad>> = <<printed, AadOf[s]>>
      BY <2>2 DEF printed
    <3> QED
      BY <3>1
  <2> QED
    BY <2>1, <2>2, <2>3, WholeOpens
<1> QED
  BY <1>1, FileInvariant, PTL

\* An undisturbed save is kept in full, and a download reports its size.
THEOREM KeepsUndisturbed == Spec => []UndisturbedIsKept
<1>1. FileInv => UndisturbedIsKept
  BY DEF FileInv, OwnPrefix, Saved, UndisturbedIsKept
<1> QED
  BY <1>1, FileInvariant, PTL
=============================================================================
