-------------------------- MODULE TranscriptsProofs --------------------------
(***************************************************************************)
(* Proofs about Transcripts, for any fields and any width of the lengths:  *)
(* a field that is framed by its length can be told from whatever follows  *)
(* it, so that what is absorbed determines what was hashed.                *)
(***************************************************************************)
EXTENDS Transcripts, SequenceTheorems, WellFoundedInduction, TLAPS

-----------------------------------------------------------------------------
(* Numbers *)

\* A set of natural numbers that is not empty has a least one.
LEMMA Least ==
  ASSUME NEW T \in SUBSET Nat, T # {}
  PROVE  \E x \in T : \A y \in T : x <= y
<1> DEFINE R == OpToRel(<, Nat)
<1>1. IsWellFoundedOn(R, Nat)
  BY NatLessThanWellFounded
<1>2. \A x, y \in Nat : <<y, x>> \in R <=> y < x
  BY DEF OpToRel
<1> HIDE DEF R
<1>3. T \subseteq Nat
  OBVIOUS
<1>4. PICK x \in T : \A y \in T : ~ (<<y, x>> \in R)
  BY <1>1, <1>3, WFMin, Zenon
<1>5. ASSUME NEW y \in T PROVE x <= y
  <2>1. x \in Nat /\ y \in Nat
    BY <1>3
  <2>2. ~ (y < x)
    BY <2>1, <1>2, <1>4
  <2> QED BY <2>1, <2>2
<1> QED BY <1>5

\* Division with remainder ...
LEMMA DivMod ==
  ASSUME NEW a \in Nat, NEW b \in Nat \ {0}
  PROVE  /\ a \div b \in Nat /\ a % b \in 0..(b - 1)
         /\ a = b * (a \div b) + (a % b)
OBVIOUS

\* Multiples grow by at least the factor.
LEMMA MulMono ==
  ASSUME NEW b \in Nat, NEW x \in Nat, NEW y \in Nat, x < y
  PROVE  b * x + b <= b * y
<1>1. PICK z \in Nat : y = x + 1 + z
  <2>1. y - x - 1 \in Nat /\ y = x + 1 + (y - x - 1)
    OBVIOUS
  <2> QED BY <2>1
<1>2. b * y = b * x + b + b * z /\ b * z \in Nat /\ b * x \in Nat
  BY <1>1
<1> QED BY <1>2

\* ... has one result ...
LEMMA DivUnique ==
  ASSUME NEW b \in Nat \ {0}, NEW q \in Nat, NEW r \in 0..(b - 1),
         NEW d \in Nat, NEW e \in 0..(b - 1),  b * d + e = b * q + r
  PROVE  d = q
<1>1. b * d \in Nat /\ b * q \in Nat
  OBVIOUS
<1>2. ASSUME d < q PROVE FALSE
  <2>1. b * d + b <= b * q
    BY <1>2, MulMono
  <2> QED BY <1>1, <2>1
<1>3. ASSUME q < d PROVE FALSE
  <2>1. b * q + b <= b * d
    BY <1>3, MulMono
  <2> QED BY <1>1, <2>1
<1> QED BY <1>2, <1>3

\* ... which is 0 for less than the divisor ...
LEMMA DivSmall ==
  ASSUME NEW b \in Nat \ {0}, NEW r \in 0..(b - 1)
  PROVE  r \div b = 0
OBVIOUS

\* ... and dividing twice is dividing by the product.
LEMMA DivDiv ==
  ASSUME NEW n \in Nat, NEW p \in Nat \ {0}, NEW b \in Nat \ {0}
  PROVE  /\ b * p \in Nat \ {0}
         /\ (n \div p) \div b = n \div (b * p)
<1>1. PICK q \in Nat, r \in 0..(p - 1) : q = n \div p /\ n = p * q + r
  BY DivMod
<1>2. PICK k \in Nat, s \in 0..(b - 1) : k = q \div b /\ q = b * k + s
  BY DivMod
<1>3. b * p \in Nat \ {0}
  OBVIOUS
<1>4. PICK m \in Nat \ {0} : m = b * p
  BY <1>3
<1>5. PICK d \in Nat, e \in 0..(m - 1) : d = n \div m /\ n = m * d + e
  BY DivMod
<1>6. n = m * k + (p * s + r)
  <2>1. p * (b * k + s) = (b * p) * k + p * s
    OBVIOUS
  <2>2. p * s \in Nat /\ m * k \in Nat
    OBVIOUS
  <2>3. n = (m * k + p * s) + r
    BY <2>1, <1>1, <1>2, <1>4
  <2> QED BY <2>2, <2>3
<1>7. p * s + r \in 0..(m - 1)
  <2>1. p * s + p <= p * b /\ p * s \in Nat
    BY MulMono
  <2> QED BY <2>1, <1>4
<1>8. d = k
  BY <1>5, <1>6, <1>7, DivUnique
<1> QED BY <1>1, <1>2, <1>3, <1>4, <1>5, <1>8

\* No power of BASE is zero.
LEMMA Powers ==
  ASSUME NEW i \in 0..LENGTH_BYTES
  PROVE  BASE ^ i \in Nat \ {0}
<1> DEFINE Bad == {k \in 0..LENGTH_BYTES : BASE ^ k \notin Nat \ {0}}
<1>1. SUFFICES ASSUME Bad # {} PROVE FALSE
  OBVIOUS
<1>2. Bad \in SUBSET Nat
  BY BytesAssumption
<1>3. PICK k \in Bad : \A j \in Bad : k <= j
  BY <1>1, <1>2, Least
<1>4. k \in 0..LENGTH_BYTES /\ BASE ^ k \notin Nat \ {0}
  OBVIOUS
<1>5. k # 0
  BY <1>4, BytesAssumption
<1>6. k - 1 \in 0..LENGTH_BYTES /\ k - 1 < k /\ k - 1 + 1 = k
  BY <1>4, <1>5, BytesAssumption
<1>7. BASE ^ (k - 1) \in Nat \ {0}
  BY <1>3, <1>6
<1>8. PICK p \in Nat \ {0} : p = BASE ^ (k - 1) /\ BASE ^ k = BASE * p
  BY <1>6, <1>7, BytesAssumption
<1>9. BASE * p \in Nat \ {0}
  BY DivDiv, BytesAssumption
<1> QED BY <1>4, <1>8, <1>9

\* A length that fits is determined by its bytes: from the highest byte down,
\* what is left of two lengths with the same bytes is the same.
LEMMA LengthIsRead ==
  ASSUME NEW m \in Lengths, NEW n \in Lengths, ToLeBytes(m) = ToLeBytes(n)
  PROVE  m = n
<1> DEFINE W == LENGTH_BYTES
           Differ(k) == m \div BASE ^ (W - k) # n \div BASE ^ (W - k)
           Bad == {k \in 0..W : Differ(k)}
<1>1. W \in Nat /\ BASE \in Nat \ {0} /\ m \in Nat /\ n \in Nat
  BY BytesAssumption, Powers DEF Lengths
<1>2. Bad = {}
  <2>1. SUFFICES ASSUME Bad # {} PROVE FALSE
    OBVIOUS
  <2>2. Bad \in SUBSET Nat
    BY <1>1
  <2>3. PICK k \in Bad : \A j \in Bad : k <= j
    BY <2>1, <2>2, Least
  <2>4. k \in 0..W /\ Differ(k)
    OBVIOUS
  <2>5. ASSUME NEW l \in Lengths PROVE l \div BASE ^ W = 0
    <3>1. PICK p \in Nat \ {0} : p = BASE ^ W /\ l \in 0..(p - 1) /\ l \in Nat
      BY <1>1, Powers DEF Lengths
    <3>2. l \div p = 0
      BY <3>1, DivSmall
    <3> QED BY <3>1, <3>2
  <2>6. k # 0
    BY <2>4, <2>5, <1>1
  <2>7. PICK i \in 0..(W - 1) : i = W - k /\ i + 1 = W - (k - 1) /\ k - 1 \in 0..W /\ k - 1 < k
    BY <2>4, <2>6, <1>1
  <2>8. m \div BASE ^ (i + 1) = n \div BASE ^ (i + 1)
    <3>1. ~ Differ(k - 1)
      BY <2>3, <2>7
    <3> QED BY <3>1, <2>7
  <2>9. (m \div BASE ^ i) % BASE = (n \div BASE ^ i) % BASE
    <3>1. PICK j \in 1..W : j - 1 = i
      <4>1. i + 1 \in 1..W /\ (i + 1) - 1 = i
        BY <1>1
      <4> QED BY <4>1
    <3>2. ToLeBytes(m)[j] = (m \div BASE ^ (j - 1)) % BASE
      BY Zenon DEF ToLeBytes
    <3>3. ToLeBytes(n)[j] = (n \div BASE ^ (j - 1)) % BASE
      BY Zenon DEF ToLeBytes
    <3> QED BY <3>1, <3>2, <3>3, Zenon
  <2>10. PICK p \in Nat \ {0} : p = BASE ^ i /\ BASE ^ (i + 1) = BASE * p
    BY <1>1, BytesAssumption, Powers
  <2>11. ASSUME NEW l \in Nat
         PROVE  l \div BASE ^ i = BASE * (l \div BASE ^ (i + 1)) + ((l \div BASE ^ i) % BASE)
    <3>1. (l \div p) \div BASE = l \div (BASE * p)
      BY <1>1, DivDiv
    <3>2. PICK q \in Nat : q = l \div p
      BY DivMod
    <3>3. q = BASE * (q \div BASE) + (q % BASE)
      BY <1>1, DivMod
    <3>4. l \div BASE ^ (i + 1) = q \div BASE /\ l \div BASE ^ i = q
      BY <2>10, <3>1, <3>2, Zenon
    <3> QED BY <3>3, <3>4, Zenon
  <2>12. m \div BASE ^ i = n \div BASE ^ i
    <3>1. m \div BASE ^ i = BASE * (m \div BASE ^ (i + 1)) + ((m \div BASE ^ i) % BASE)
      BY <1>1, <2>11
    <3>2. n \div BASE ^ i = BASE * (n \div BASE ^ (i + 1)) + ((n \div BASE ^ i) % BASE)
      BY <1>1, <2>11
    <3> QED BY <3>1, <3>2, <2>8, <2>9, Zenon
  <2> QED BY <2>4, <2>7, <2>12
<1>3. m \div BASE ^ 0 = n \div BASE ^ 0
  <2>1. W \in 0..W /\ W - W = 0
    BY <1>1
  <2>2. ~ Differ(W)
    BY <2>1, <1>2, Zenon
  <2> QED BY <2>1, <2>2, Zenon
<1>4. m \div 1 = m /\ n \div 1 = n
  BY <1>1
<1> QED BY <1>3, <1>4, BytesAssumption

-----------------------------------------------------------------------------
(* Frames *)

\* A length takes LENGTH_BYTES bytes.
LEMMA LengthBytes ==
  ASSUME NEW n \in Nat
  PROVE  /\ ToLeBytes(n) \in Seq(Bytes)
         /\ Len(ToLeBytes(n)) = LENGTH_BYTES
<1>1. ASSUME NEW i \in 1..LENGTH_BYTES PROVE (n \div BASE ^ (i - 1)) % BASE \in Bytes
  <2>1. i - 1 \in 0..LENGTH_BYTES
    BY BytesAssumption
  <2>2. PICK power \in Nat \ {0} : power = BASE ^ (i - 1)
    BY <2>1, Powers
  <2>3. n \div power \in Nat
    OBVIOUS
  <2>4. (n \div power) % BASE \in 0..(BASE - 1)
    BY <2>3, BytesAssumption
  <2> QED
    BY <2>2, <2>4 DEF Bytes
<1> QED
  BY <1>1, BytesAssumption DEF ToLeBytes

\* Two sequences after each other, part by part.
LEMMA ConcatParts ==
  ASSUME NEW s \in Seq(Bytes), NEW t \in Seq(Bytes)
  PROVE  /\ s \o t \in Seq(Bytes)
         /\ Len(s \o t) = Len(s) + Len(t)
         /\ \A i \in 1..Len(s) : (s \o t)[i] = s[i]
         /\ \A i \in 1..Len(t) : (s \o t)[Len(s) + i] = t[i]
<1>1. Len(s) \in Nat /\ Len(t) \in Nat
  BY LenProperties
<1>2. /\ s \o t \in Seq(Bytes)
      /\ Len(s \o t) = Len(s) + Len(t)
      /\ \A i \in 1..(Len(s) + Len(t)) :
           (s \o t)[i] = IF i <= Len(s) THEN s[i] ELSE t[i - Len(s)]
  BY ConcatProperties
<1> DEFINE st == s \o t
<1>3. /\ Len(st) = Len(s) + Len(t)
      /\ \A i \in 1..(Len(s) + Len(t)) :
           st[i] = IF i <= Len(s) THEN s[i] ELSE t[i - Len(s)]
  BY <1>2
<1> HIDE DEF st
<1>4. \A i \in 1..Len(s) : st[i] = s[i]
  BY <1>1, <1>3
<1>5. ASSUME NEW i \in 1..Len(t) PROVE st[Len(s) + i] = t[i]
  <2>1. Len(s) + i \in 1..(Len(s) + Len(t)) /\ ~(Len(s) + i <= Len(s)) /\ Len(s) + i - Len(s) = i
    BY <1>1
  <2> QED
    BY <2>1, <1>3
<1> QED
  BY <1>2, <1>4, <1>5 DEF st

\* A frame is its length's bytes, then the field.
LEMMA FrameBytes ==
  ASSUME NEW f \in Seq(Bytes)
  PROVE  /\ Frame(f) \in Seq(Bytes)
         /\ Len(Frame(f)) = LENGTH_BYTES + Len(f)
         /\ \A i \in 1..LENGTH_BYTES : Frame(f)[i] = ToLeBytes(Len(f))[i]
         /\ \A i \in 1..Len(f) : Frame(f)[LENGTH_BYTES + i] = f[i]
<1>1. /\ Len(f) \in Nat
      /\ ToLeBytes(Len(f)) \in Seq(Bytes) /\ Len(ToLeBytes(Len(f))) = LENGTH_BYTES
  BY LengthBytes, LenProperties
<1> QED
  BY <1>1, ConcatParts, BytesAssumption DEF Frame

\* What starts with a frame starts with one frame only: the field and what
\* comes after it can be read off.
LEMMA FrameIsRead ==
  ASSUME NEW f \in Seq(Bytes), Len(f) \in Lengths, NEW r \in Seq(Bytes),
         NEW g \in Seq(Bytes), Len(g) \in Lengths, NEW s \in Seq(Bytes),
         StartsWith(Frame(g) \o s, Frame(f) \o r)
  PROVE  f = g /\ StartsWith(s, r)
<1> DEFINE fr == Frame(f) \o r
           gs == Frame(g) \o s
           W  == LENGTH_BYTES
<1>1. /\ W \in Nat /\ Len(f) \in Nat /\ Len(g) \in Nat /\ Len(r) \in Nat /\ Len(s) \in Nat
  BY BytesAssumption, LenProperties
<1>2. /\ Len(fr) = W + Len(f) + Len(r)
      /\ \A i \in 1..W : fr[i] = ToLeBytes(Len(f))[i]
      /\ \A i \in 1..Len(f) : fr[W + i] = f[i]
      /\ \A i \in 1..Len(r) : fr[W + Len(f) + i] = r[i]
  <2>1. /\ Frame(f) \in Seq(Bytes) /\ Len(Frame(f)) = W + Len(f)
        /\ \A i \in 1..W : Frame(f)[i] = ToLeBytes(Len(f))[i]
        /\ \A i \in 1..Len(f) : Frame(f)[W + i] = f[i]
    BY FrameBytes
  <2>2. /\ Len(fr) = Len(Frame(f)) + Len(r)
        /\ \A i \in 1..Len(Frame(f)) : fr[i] = Frame(f)[i]
        /\ \A i \in 1..Len(r) : fr[Len(Frame(f)) + i] = r[i]
    BY <2>1, ConcatParts
  <2> HIDE DEF fr
  <2>3. \A i \in 1..W : fr[i] = ToLeBytes(Len(f))[i]
    BY <1>1, <2>1, <2>2
  <2>4. \A i \in 1..Len(f) : fr[W + i] = f[i]
    BY <1>1, <2>1, <2>2
  <2> QED
    BY <1>1, <2>1, <2>2, <2>3, <2>4
<1>3. /\ Len(gs) = W + Len(g) + Len(s)
      /\ \A i \in 1..W : gs[i] = ToLeBytes(Len(g))[i]
      /\ \A i \in 1..Len(g) : gs[W + i] = g[i]
      /\ \A i \in 1..Len(s) : gs[W + Len(g) + i] = s[i]
  <2>1. /\ Frame(g) \in Seq(Bytes) /\ Len(Frame(g)) = W + Len(g)
        /\ \A i \in 1..W : Frame(g)[i] = ToLeBytes(Len(g))[i]
        /\ \A i \in 1..Len(g) : Frame(g)[W + i] = g[i]
    BY FrameBytes
  <2>2. /\ Len(gs) = Len(Frame(g)) + Len(s)
        /\ \A i \in 1..Len(Frame(g)) : gs[i] = Frame(g)[i]
        /\ \A i \in 1..Len(s) : gs[Len(Frame(g)) + i] = s[i]
    BY <2>1, ConcatParts
  <2> HIDE DEF gs
  <2>3. \A i \in 1..W : gs[i] = ToLeBytes(Len(g))[i]
    BY <1>1, <2>1, <2>2
  <2>4. \A i \in 1..Len(g) : gs[W + i] = g[i]
    BY <1>1, <2>1, <2>2
  <2> QED
    BY <1>1, <2>1, <2>2, <2>3, <2>4
<1>4. Len(fr) <= Len(gs) /\ \A i \in 1..Len(fr) : fr[i] = gs[i]
  BY DEF StartsWith
<1> HIDE DEF fr, gs
<1>5. Len(f) = Len(g)
  <2>1. \A i \in 1..W : ToLeBytes(Len(f))[i] = ToLeBytes(Len(g))[i]
    BY <1>1, <1>2, <1>3, <1>4
  <2>2. ToLeBytes(Len(f)) = ToLeBytes(Len(g))
    <3>1. \A i \in 1..W : (Len(f) \div BASE ^ (i - 1)) % BASE = (Len(g) \div BASE ^ (i - 1)) % BASE
      BY <2>1 DEF ToLeBytes
    <3> QED
      BY <3>1, Zenon DEF ToLeBytes
  <2> QED
    BY <2>2, LengthIsRead
<1>6. ASSUME NEW i \in 1..Len(f) PROVE f[i] = g[i]
  <2>1. W + i \in 1..Len(fr) /\ i \in 1..Len(g)
    BY <1>1, <1>2, <1>5
  <2> QED
    BY <2>1, <1>2, <1>3, <1>4
<1>7. f = g
  BY <1>5, <1>6, SeqEqual
<1>8. Len(r) <= Len(s)
  BY <1>1, <1>2, <1>3, <1>4, <1>5
<1>9. ASSUME NEW i \in 1..Len(r) PROVE r[i] = s[i]
  <2>1. /\ W + Len(f) + i \in 1..Len(fr) /\ i \in 1..Len(s)
    BY <1>1, <1>2, <1>8
  <2> QED
    BY <2>1, <1>2, <1>3, <1>4, <1>5
<1> QED
  BY <1>7, <1>8, <1>9 DEF StartsWith

-----------------------------------------------------------------------------
(* What is hashed whole *)

\* What has been absorbed after n fields.
Absorbed(fs, n) ==
  CASE n = 0 -> <<>>
    [] n = 1 -> Frame(fs[1])
    [] n = 2 -> Frame(fs[1]) \o Frame(fs[2])
    [] n = 3 -> (Frame(fs[1]) \o Frame(fs[2])) \o Frame(fs[3])

Whole(c) == Absorbed(Fields(c), Len(Fields(c)))

\* The fields of a call are byte strings whose lengths fit.
LEMMA FieldsAreFields ==
  ASSUME NEW c \in Calls
  PROVE  /\ Len(Fields(c)) = IF c.of = "proof" THEN 2 ELSE 3
         /\ \A i \in 1..Len(Fields(c)) : Fields(c)[i] \in Seq(Bytes) /\ Len(Fields(c)[i]) \in Lengths
         /\ Fields(c)[1] = IF c.of = "proof" THEN MOCK_PROOF_DOMAIN ELSE DEFAULT_COMMITMENT_DOMAIN
         /\ Fields(c)[IF c.of = "proof" THEN 2 ELSE 3] = c.message
         /\ c.of # "proof" =>
              Fields(c)[2] = IF c.of = "commitment" THEN c.context ELSE DRY_RUN_CONTEXT
<1>1. CASE c.of = "commitment"
  <2>1. Fields(c) = <<DEFAULT_COMMITMENT_DOMAIN, c.context, c.message>>
    BY <1>1 DEF Fields, CommitFields, ProofFields
  <2>2. c.context \in Contexts /\ c.message \in Envelopes
    BY <1>1 DEF Calls
  <2> QED
    BY <1>1, <2>1, <2>2, FieldAssumption DEF Field
<1>2. CASE c.of = "root"
  <2>1. Fields(c) = <<DEFAULT_COMMITMENT_DOMAIN, DRY_RUN_CONTEXT, c.message>>
    BY <1>2 DEF Fields, CommitFields, ProofFields
  <2>2. c.message \in Payloads
    BY <1>2 DEF Calls
  <2> QED
    BY <1>2, <2>1, <2>2, FieldAssumption DEF Field
<1>3. CASE c.of = "proof"
  <2>1. Fields(c) = <<MOCK_PROOF_DOMAIN, c.message>>
    BY <1>3 DEF Fields, CommitFields, ProofFields
  <2>2. c.message \in Statements
    BY <1>3 DEF Calls
  <2> QED
    BY <1>3, <2>1, <2>2, FieldAssumption DEF Field
<1> QED
  BY <1>1, <1>2, <1>3 DEF Calls

\* A call is determined by its fields: an envelope is no JSON text.
LEMMA FieldsDetermine ==
  ASSUME NEW c \in Calls, NEW d \in Calls, c.of # "proof", d.of # "proof",
         Fields(c)[2] = Fields(d)[2], c.message = d.message
  PROVE  c = d
<1>1. c.of = d.of
  BY FieldAssumption DEF Calls
<1>2. c.of = "commitment" => c.context = d.context
  BY <1>1, FieldsAreFields
<1> QED
  BY <1>1, <1>2 DEF Calls

\* All that is absorbed for a call, from its first field.
LEMMA WholeOfCall ==
  ASSUME NEW c \in Calls
  PROVE  LET f == Fields(c)
         IN  /\ Whole(c) \in Seq(Bytes)
             /\ c.of = "proof" => Whole(c) = Frame(f[1]) \o (Frame(f[2]) \o <<>>)
             /\ c.of # "proof" =>
                  Whole(c) = Frame(f[1]) \o (Frame(f[2]) \o (Frame(f[3]) \o <<>>))
<1> DEFINE f == Fields(c)
<1>1. \A i \in 1..Len(f) : Frame(f[i]) \in Seq(Bytes)
  BY FieldsAreFields, FrameBytes
<1>2. CASE c.of = "proof"
  <2>1. Len(f) = 2
    BY <1>2, FieldsAreFields
  <2>2. Whole(c) = Frame(f[1]) \o Frame(f[2])
    BY <2>1 DEF Whole, Absorbed
  <2>3. Frame(f[1]) \in Seq(Bytes) /\ Frame(f[2]) \in Seq(Bytes)
    BY <1>1, <2>1
  <2>4. Frame(f[2]) \o <<>> = Frame(f[2])
    BY <2>3, ConcatEmptySeq
  <2>5. Frame(f[1]) \o Frame(f[2]) \in Seq(Bytes)
    BY <2>3, ConcatParts
  <2> QED
    BY <1>2, <2>2, <2>4, <2>5
<1>3. CASE c.of # "proof"
  <2>1. Len(f) = 3
    BY <1>3, FieldsAreFields
  <2>2. Whole(c) = (Frame(f[1]) \o Frame(f[2])) \o Frame(f[3])
    BY <2>1 DEF Whole, Absorbed
  <2>3. Frame(f[1]) \in Seq(Bytes) /\ Frame(f[2]) \in Seq(Bytes) /\ Frame(f[3]) \in Seq(Bytes)
    BY <1>1, <2>1
  <2>4. Frame(f[3]) \o <<>> = Frame(f[3])
    BY <2>3, ConcatEmptySeq
  <2>5. Whole(c) = Frame(f[1]) \o (Frame(f[2]) \o Frame(f[3]))
    <3> DEFINE x == Frame(f[1])
               y == Frame(f[2])
               z == Frame(f[3])
    <3>1. x \in Seq(Bytes) /\ y \in Seq(Bytes) /\ z \in Seq(Bytes)
      BY <2>3
    <3> HIDE DEF x, y, z
    <3>2. (x \o y) \o z = x \o (y \o z)
      BY <3>1, ConcatAssociative
    <3> QED
      BY <2>2, <3>2 DEF x, y, z
  <2>6. Frame(f[1]) \o Frame(f[2]) \in Seq(Bytes)
    BY <2>3, ConcatParts
  <2>7. (Frame(f[1]) \o Frame(f[2])) \o Frame(f[3]) \in Seq(Bytes)
    BY <2>3, <2>6, ConcatParts
  <2> QED
    BY <1>3, <2>2, <2>4, <2>5, <2>7
<1> QED
  BY <1>2, <1>3

\* What is absorbed for one call does not start what is absorbed for another.
LEMMA WholeDetermines ==
  ASSUME NEW c \in Calls, NEW d \in Calls, StartsWith(Whole(d), Whole(c))
  PROVE  c = d
<1> DEFINE f == Fields(c)
           g == Fields(d)
           E == <<>>
<1>1. E \in Seq(Bytes)
  OBVIOUS
<1>2. /\ \A i \in 1..Len(f) : f[i] \in Seq(Bytes) /\ Len(f[i]) \in Lengths /\ Frame(f[i]) \in Seq(Bytes)
      /\ \A i \in 1..Len(g) : g[i] \in Seq(Bytes) /\ Len(g[i]) \in Lengths /\ Frame(g[i]) \in Seq(Bytes)
  BY FieldsAreFields, FrameBytes
<1>3. /\ Len(f) = IF c.of = "proof" THEN 2 ELSE 3
      /\ Len(g) = IF d.of = "proof" THEN 2 ELSE 3
  BY FieldsAreFields
<1> DEFINE rest1(h, n) == IF n = 2 THEN Frame(h[2]) \o E ELSE Frame(h[2]) \o (Frame(h[3]) \o E)
<1>4. /\ Whole(c) = Frame(f[1]) \o rest1(f, Len(f)) /\ rest1(f, Len(f)) \in Seq(Bytes)
      /\ Whole(d) = Frame(g[1]) \o rest1(g, Len(g)) /\ rest1(g, Len(g)) \in Seq(Bytes)
  <2>1. /\ Whole(c) = Frame(f[1]) \o rest1(f, Len(f))
        /\ Whole(d) = Frame(g[1]) \o rest1(g, Len(g))
    <3>1. /\ c.of = "proof" => Len(f) = 2 /\ Whole(c) = Frame(f[1]) \o (Frame(f[2]) \o E)
          /\ c.of # "proof" => Len(f) = 3 /\ Whole(c) = Frame(f[1]) \o (Frame(f[2]) \o (Frame(f[3]) \o E))
      BY <1>3, WholeOfCall
    <3>2. /\ d.of = "proof" => Len(g) = 2 /\ Whole(d) = Frame(g[1]) \o (Frame(g[2]) \o E)
          /\ d.of # "proof" => Len(g) = 3 /\ Whole(d) = Frame(g[1]) \o (Frame(g[2]) \o (Frame(g[3]) \o E))
      BY <1>3, WholeOfCall
    <3>3. \A h : /\ rest1(h, 2) = Frame(h[2]) \o E
                /\ rest1(h, 3) = Frame(h[2]) \o (Frame(h[3]) \o E)
      BY 2 # 3
    <3> HIDE DEF f, g, E, rest1
    <3>4. Whole(c) = Frame(f[1]) \o rest1(f, Len(f))
      BY <3>1, <3>3
    <3>5. Whole(d) = Frame(g[1]) \o rest1(g, Len(g))
      BY <3>2, <3>3
    <3> QED
      BY <3>4, <3>5
  <2>2. ASSUME NEW h, \A i \in 1..Len(h) : Frame(h[i]) \in Seq(Bytes), Len(h) \in {2, 3}
        PROVE  rest1(h, Len(h)) \in Seq(Bytes)
    <3>1. Frame(h[2]) \o E \in Seq(Bytes)
      BY <1>1, <2>2, ConcatParts
    <3>2. CASE Len(h) = 3
      <4>1. Frame(h[2]) \in Seq(Bytes) /\ Frame(h[3]) \in Seq(Bytes)
        BY <2>2, <3>2
      <4>2. Frame(h[3]) \o E \in Seq(Bytes)
        BY <1>1, <4>1, ConcatParts
      <4> HIDE DEF E
      <4> QED
        BY <3>2, <4>1, <4>2, ConcatParts
    <3> QED
      BY <2>2, <3>1, <3>2
  <2> QED
    BY <1>2, <1>3, <2>1, <2>2
<1>5. f[1] = g[1] /\ StartsWith(rest1(g, Len(g)), rest1(f, Len(f)))
  <2>1. 1 \in 1..Len(f) /\ 1 \in 1..Len(g)
    BY <1>3
  <2>2. StartsWith(Frame(g[1]) \o rest1(g, Len(g)), Frame(f[1]) \o rest1(f, Len(f)))
    BY <1>4
  <2> HIDE DEF rest1, f, g
  <2> QED
    BY <1>2, <1>4, <2>1, <2>2, FrameIsRead
<1>6. c.of = "proof" <=> d.of = "proof"
  BY <1>5, FieldsAreFields, FieldAssumption
<1>7. CASE c.of = "proof"
  <2>1. StartsWith(Frame(g[2]) \o E, Frame(f[2]) \o E)
    BY <1>3, <1>5, <1>6, <1>7
  <2>2. 2 \in 1..Len(f) /\ 2 \in 1..Len(g)
    BY <1>3
  <2>3. f[2] = g[2]
    <3> HIDE DEF f, g, E
    <3> QED
      BY <1>1, <1>2, <2>1, <2>2, FrameIsRead
  <2>4. c.message = d.message
    BY <1>6, <1>7, <2>3, FieldsAreFields
  <2> QED
    BY <1>6, <1>7, <2>4 DEF Calls
<1>8. CASE c.of # "proof"
  <2>1. StartsWith(Frame(g[2]) \o (Frame(g[3]) \o E), Frame(f[2]) \o (Frame(f[3]) \o E))
    BY <1>3, <1>5, <1>6, <1>8
  <2>2. /\ 2 \in 1..Len(f) /\ 2 \in 1..Len(g) /\ 3 \in 1..Len(f) /\ 3 \in 1..Len(g)
    BY <1>3, <1>6, <1>8
  <2>3. Frame(f[3]) \o E \in Seq(Bytes) /\ Frame(g[3]) \o E \in Seq(Bytes)
    <3> HIDE DEF f, g, E
    <3> QED
      BY <1>1, <1>2, <2>2, ConcatParts
  <2>4. f[2] = g[2] /\ StartsWith(Frame(g[3]) \o E, Frame(f[3]) \o E)
    <3> DEFINE r == Frame(f[3]) \o E
               s == Frame(g[3]) \o E
    <3>1. /\ r \in Seq(Bytes) /\ s \in Seq(Bytes)
          /\ StartsWith(Frame(g[2]) \o s, Frame(f[2]) \o r)
      BY <2>1, <2>3
    <3>2. /\ f[2] \in Seq(Bytes) /\ Len(f[2]) \in Lengths
          /\ g[2] \in Seq(Bytes) /\ Len(g[2]) \in Lengths
      BY <1>2, <2>2
    <3> HIDE DEF f, g, E, r, s
    <3>3. f[2] = g[2] /\ StartsWith(s, r)
      BY <3>1, <3>2, FrameIsRead
    <3> QED
      BY <3>3 DEF r, s
  <2>5. f[3] = g[3]
    <3> HIDE DEF f, g, E
    <3> QED
      BY <1>1, <1>2, <2>2, <2>4, FrameIsRead
  <2>6. c.message = d.message
    BY <1>6, <1>8, <2>5, FieldsAreFields
  <2> QED
    BY <1>6, <1>8, <2>4, <2>6, FieldsDetermine
<1> QED
  BY <1>7, <1>8

-----------------------------------------------------------------------------
(* The invariant: the bytes are those of the fields absorbed so far. *)

HashInv ==
  /\ TypeOK
  /\ \A h \in Hashers :
       /\ absorbed[h] = Absorbed(Fields(call[h]), fields[h])
       /\ digest[h] \subseteq {Whole(call[h])}

\* The invariant holds before the first step.
LEMMA InitHashInv == Init => HashInv
<1> SUFFICES ASSUME Init PROVE HashInv
  OBVIOUS
<1>1. \A h \in Hashers : Len(Fields(call[h])) \in {2, 3}
  BY FieldsAreFields DEF Init
<1>2. <<>> \in Seq(Bytes)
  OBVIOUS
<1>3. TypeOK
  BY <1>1, <1>2 DEF Init, TypeOK
<1>4. \A h \in Hashers : absorbed[h] = Absorbed(Fields(call[h]), fields[h])
  <2>1. \A fs : Absorbed(fs, 0) = <<>>
    BY DEF Absorbed
  <2> QED
    BY <2>1 DEF Init
<1> QED
  BY <1>3, <1>4 DEF Init, HashInv

\* Every step keeps it.
LEMMA NextHashInv == HashInv /\ [Next]_vars => HashInv'
<1> SUFFICES ASSUME HashInv, [Next]_vars PROVE HashInv'
  OBVIOUS
<1>1. ASSUME NEW h \in Hashers, Update(h) PROVE HashInv'
  <2> DEFINE f == Fields(call[h])
             n == fields[h]
  <2>1. /\ call[h] \in Calls /\ n \in 0..3 /\ n < Len(f) /\ absorbed[h] \in Seq(Bytes)
        /\ absorbed' = [absorbed EXCEPT ![h] = absorbed[h] \o Frame(f[n + 1])]
        /\ fields' = [fields EXCEPT ![h] = n + 1] /\ call' = call /\ digest' = digest
    BY <1>1 DEF Update, HashInv, TypeOK
  <2>2. Len(f) \in {2, 3} /\ \A i \in 1..Len(f) : f[i] \in Seq(Bytes)
    BY <2>1, FieldsAreFields
  <2>3. \A i \in 1..Len(f) : Frame(f[i]) \in Seq(Bytes)
    BY <2>2, FrameBytes
  <2>4. n + 1 \in 1..Len(f)
    BY <2>1, <2>2
  <2>5. absorbed[h] \o Frame(f[n + 1]) \in Seq(Bytes)
    <3>1. Frame(f[n + 1]) \in Seq(Bytes)
      BY <2>3, <2>4
    <3> HIDE DEF f, n
    <3> QED
      BY <2>1, <3>1, ConcatParts
  <2>6. absorbed[h] = Absorbed(f, n)
    BY DEF HashInv
  <2>7. absorbed[h] \o Frame(f[n + 1]) = Absorbed(f, n + 1)
    <3>1. CASE n = 0
      <4>1. Frame(f[1]) \in Seq(Bytes)
        BY <2>3, <2>4, <3>1
      <4>2. <<>> \o Frame(f[1]) = Frame(f[1])
        BY <4>1, ConcatEmptySeq
      <4> QED
        BY <2>6, <3>1, <4>2 DEF Absorbed
    <3>2. CASE n = 1
      BY <2>6, <3>2 DEF Absorbed
    <3>3. CASE n = 2
      BY <2>6, <3>3 DEF Absorbed
    <3>4. n \in {0, 1, 2}
      <4> HIDE DEF f, n
      <4> QED
        BY <2>1, <2>2
    <3> QED
      BY <3>1, <3>2, <3>3, <3>4
  <2> HIDE DEF f, n
  <2>8. TypeOK'
    <3>1. absorbed' \in [Hashers -> Seq(Bytes)]
      BY <2>1, <2>5 DEF HashInv, TypeOK
    <3>2. fields' \in [Hashers -> 0..3]
      <4>1. n + 1 \in 0..3
        BY <2>2, <2>4
      <4>2. fields \in [Hashers -> 0..3]
        BY DEF HashInv, TypeOK
      <4> QED
        BY <2>1, <4>1, <4>2
    <3>3. \A i \in Hashers : fields'[i] <= Len(Fields(call'[i]))
      BY <2>1, <2>4 DEF HashInv, TypeOK, f, n
    <3> QED
      BY <2>1, <3>1, <3>2, <3>3 DEF HashInv, TypeOK
  <2>9. ASSUME NEW i \in Hashers
        PROVE  /\ absorbed'[i] = Absorbed(Fields(call'[i]), fields'[i])
               /\ digest'[i] \subseteq {Whole(call'[i])}
    <3>1. CASE i = h
      BY <2>1, <2>7, <3>1 DEF HashInv, TypeOK, f
    <3>2. CASE i # h
      BY <2>1, <3>2 DEF HashInv, TypeOK
    <3> QED
      BY <3>1, <3>2
  <2> QED
    BY <2>8, <2>9 DEF HashInv
<1>2. ASSUME NEW h \in Hashers, Read(h) PROVE HashInv'
  <2>1. absorbed[h] = Whole(call[h]) /\ absorbed[h] \in Seq(Bytes)
    BY <1>2 DEF Read, HashInv, TypeOK, Whole
  <2> QED
    BY <1>2, <2>1 DEF Read, HashInv, TypeOK
<1>3. CASE UNCHANGED vars
  BY <1>3 DEF vars, HashInv, TypeOK
<1> QED
  BY <1>1, <1>2, <1>3 DEF Next

\* Whatever has been absorbed is the frames of the fields, in their order.
THEOREM HashInvariant == Spec => []HashInv
<1>1. Init => HashInv
  BY InitHashInv
<1>2. HashInv /\ [Next]_vars => HashInv'
  BY NextHashInv
<1> QED
  BY <1>1, <1>2, PTL DEF Spec

\* Hashers keep their types, however many there are and whatever they hash.
THEOREM TypeCorrect == Spec => []TypeOK
<1>1. HashInv => TypeOK
  BY DEF HashInv
<1> QED
  BY <1>1, HashInvariant, PTL

\* No transcript is the beginning of the transcript of another call.
THEOREM NoPrefix == Spec => []PrefixFree
<1>1. HashInv => PrefixFree
  <2> SUFFICES ASSUME HashInv, NEW g \in Hashers, NEW h \in Hashers,
                      NEW s \in digest[g], NEW t \in digest[h], StartsWith(t, s)
               PROVE  call[g] = call[h]
    BY DEF PrefixFree
  <2>1. call[g] \in Calls /\ call[h] \in Calls /\ s = Whole(call[g]) /\ t = Whole(call[h])
    BY DEF HashInv, TypeOK
  <2> QED
    BY <2>1, WholeDetermines
<1> QED
  BY <1>1, HashInvariant, PTL

\* Equal digests stand for the same message under the same context.
THEOREM DigestsDetermine == Spec => []Unambiguous
<1>1. HashInv => Unambiguous
  <2> SUFFICES ASSUME HashInv, NEW g \in Hashers, NEW h \in Hashers,
                      digest[g] # {}, digest[g] = digest[h]
               PROVE  call[g] = call[h]
    BY DEF Unambiguous
  <2>1. /\ call[g] \in Calls /\ call[h] \in Calls
        /\ Whole(call[g]) = Whole(call[h])
    BY DEF HashInv, TypeOK
  <2>2. StartsWith(Whole(call[h]), Whole(call[g]))
    <3>1. Whole(call[g]) \in Seq(Bytes)
      BY <2>1, WholeOfCall
    <3>2. Len(Whole(call[g])) \in Nat
      BY <3>1, LenProperties
    <3> QED
      BY <2>1, <3>2 DEF StartsWith
  <2> QED
    BY <2>1, <2>2, WholeDetermines
<1> QED
  BY <1>1, HashInvariant, PTL
=============================================================================
