------------------------- MODULE DefaultPathsProofs -------------------------
(***************************************************************************)
(* Proofs about DefaultPaths, for any files, roots and number of results:  *)
(* the default path tells what was saved there.                            *)
(***************************************************************************)
EXTENDS DefaultPaths, SequenceTheorems, TLAPS

Name == Seq(Tokens \ {"/"})
ArtifactEnd == <<".", "pqsp-receipt", ".", "json">>
DecryptEnd  == <<".", "decrypted">>
DownloadEnd == <<".", "json">>

\* The path at which a command reports a result: its directory, and its name's
\* stem and ending.
DirOf(content) == IF content.kind = "payload" THEN Here ELSE content.of.dir

StemOf(content) ==
  CASE content.kind = "artifact"  -> NameOr(content.of, <<"upload">>)
    [] content.kind = "plaintext" -> NameOr(content.of, <<"payload">>)
    [] content.kind = "payload"   -> Sanitized(content.of)

EndOf(content) ==
  CASE content.kind = "artifact"  -> ArtifactEnd
    [] content.kind = "plaintext" -> DecryptEnd
    [] content.kind = "payload"   -> DownloadEnd

PathOf(content) == [dir |-> DirOf(content), name |-> StemOf(content) \o EndOf(content)]

Results == {content \in Contents : content.kind # "own"}

-----------------------------------------------------------------------------
(* Names *)

\* A name and its ending, part by part.
LEMMA Ending ==
  ASSUME NEW s \in Name, NEW e \in Name
  PROVE  /\ s \o e \in Name
         /\ Len(s \o e) = Len(s) + Len(e)
         /\ \A i \in 1..Len(s) : (s \o e)[i] = s[i]
         /\ \A i \in 1..Len(e) : (s \o e)[Len(s) + i] = e[i]
<1>1. Len(s) \in Nat /\ Len(e) \in Nat
  BY LenProperties DEF Name
<1> DEFINE se == s \o e
<1>2. /\ se \in Name /\ Len(se) = Len(s) + Len(e)
      /\ \A i \in 1..(Len(s) + Len(e)) : se[i] = IF i <= Len(s) THEN s[i] ELSE e[i - Len(s)]
  BY ConcatProperties DEF Name
<1> HIDE DEF se
<1>3. \A i \in 1..Len(s) : se[i] = s[i]
  BY <1>1, <1>2
<1>4. ASSUME NEW i \in 1..Len(e) PROVE se[Len(s) + i] = e[i]
  <2>1. Len(s) + i \in 1..(Len(s) + Len(e)) /\ ~(Len(s) + i <= Len(s)) /\ Len(s) + i - Len(s) = i
    BY <1>1
  <2> QED
    BY <2>1, <1>2
<1> QED
  BY <1>2, <1>3, <1>4 DEF se

\* Two names with one ending differ before it.
LEMMA SameEnding ==
  ASSUME NEW s \in Name, NEW t \in Name, NEW e \in Name, s \o e = t \o e
  PROVE  s = t
<1>1. Len(s) \in Nat /\ Len(t) \in Nat /\ Len(e) \in Nat
  BY LenProperties DEF Name
<1>2. Len(s) = Len(t)
  BY <1>1, Ending
<1>3. \A i \in 1..Len(s) : s[i] = t[i]
  BY <1>2, Ending
<1> QED
  BY <1>2, <1>3, SeqEqual DEF Name

\* Words are no marks.
LEMMA WordsAreNoMarks ==
  /\ "." \notin Words /\ "/" \notin Words
  /\ "_" \in Words /\ "_" \notin HexWords /\ HexWords \subseteq Words
  BY PathsAssumption DEF Words, Marks

\* The endings are names.
LEMMA EndsAreNames ==
  /\ ArtifactEnd \in Name /\ Len(ArtifactEnd) = 4
  /\ DecryptEnd \in Name /\ Len(DecryptEnd) = 2
  /\ DownloadEnd \in Name /\ Len(DownloadEnd) = 2
  BY DEF Name, Tokens, Words, Marks, ArtifactEnd, DecryptEnd, DownloadEnd

\* The last token of a name with an ending, and its first after the stem.
LEMMA EndingTokens ==
  ASSUME NEW s \in Name, NEW e \in Name, NEW n \in Nat \ {0}, Len(e) = n
  PROVE  /\ Len(s \o e) = Len(s) + n
         /\ (s \o e)[Len(s) + n] = e[n]
         /\ (s \o e)[Len(s) + 1] = e[1]
<1>1. 1 \in 1..Len(e) /\ n \in 1..Len(e)
  OBVIOUS
<1> QED
  BY <1>1, Ending

\* A name, or the fixed one in its place.
LEMMA NameOrIsName ==
  ASSUME NEW p \in Paths
  PROVE  NameOr(p, <<"upload">>) \in Name /\ NameOr(p, <<"payload">>) \in Name
<1>1. p.name \in Name
  BY DEF Paths, Name
<1>2. <<"upload">> \in Name /\ <<"payload">> \in Name
  BY DEF Name, Tokens, Words
<1> QED
  BY <1>1, <1>2 DEF NameOr

\* A root becomes a name of words alone.
LEMMA SanitizedIsWords ==
  ASSUME NEW root \in Seq(Tokens \ {BAD})
  PROVE  /\ Sanitized(root) \in Name /\ Len(Sanitized(root)) = Len(root)
         /\ \A i \in 1..Len(root) : Sanitized(root)[i] \in Words
<1>1. Len(root) \in Nat /\ DOMAIN root = 1..Len(root)
  BY LenProperties
<1>2. \A i \in 1..Len(root) : (IF root[i] \in Words THEN root[i] ELSE "_") \in Words
  BY WordsAreNoMarks
<1>3. Words \subseteq Tokens \ {"/"}
  BY WordsAreNoMarks DEF Tokens
<1> DEFINE f == [i \in 1..Len(root) |-> IF root[i] \in Words THEN root[i] ELSE "_"]
<1>4. Sanitized(root) = f
  BY <1>1 DEF Sanitized
<1>5. f \in [1..Len(root) -> Tokens \ {"/"}] /\ \A i \in 1..Len(root) : f[i] \in Words
  BY <1>2, <1>3
<1> HIDE DEF f
<1>6. f \in Name
  BY <1>1, <1>5, SeqDef DEF Name
<1>7. Len(f) = Len(root)
  BY <1>1, <1>5, <1>6, LenProperties DEF Name
<1> QED
  BY <1>4, <1>5, <1>6, <1>7

\* What a result is made of.
LEMMA ResultFields ==
  ASSUME NEW c \in Results
  PROVE  /\ c = [kind |-> c.kind, of |-> c.of]
         /\ c.kind \in {"artifact", "plaintext", "payload"}
         /\ c.kind # "payload" => c.of \in Paths
         /\ c.kind = "payload" => c.of \in Seq(Tokens \ {BAD})
  BY DEF Results, Contents

\* A result's name is a stem and an ending.
LEMMA NameOfResult ==
  ASSUME NEW c \in Results
  PROVE  StemOf(c) \in Name /\ EndOf(c) \in Name /\ DirOf(c) \in Dirs
<1>1. CASE c.kind = "artifact"
  BY <1>1, ResultFields, NameOrIsName, EndsAreNames DEF StemOf, EndOf, DirOf, Paths
<1>2. CASE c.kind = "plaintext"
  BY <1>2, ResultFields, NameOrIsName, EndsAreNames DEF StemOf, EndOf, DirOf, Paths
<1>3. CASE c.kind = "payload"
  BY <1>3, ResultFields, SanitizedIsWords, EndsAreNames, PathsAssumption DEF StemOf, EndOf, DirOf
<1> QED
  BY <1>1, <1>2, <1>3, ResultFields

\* What a command saves lies in a directory under a name.
LEMMA PathIsPath ==
  ASSUME NEW c \in Results
  PROVE  PathOf(c) \in Paths
<1>1. StemOf(c) \o EndOf(c) \in Name /\ DirOf(c) \in Dirs
  BY NameOfResult, Ending
<1> QED
  BY <1>1 DEF PathOf, Paths, Name

\* The kinds of results do not share paths: a download's name has one dot, an
\* artifact's two, and what is recovered ends otherwise.
LEMMA KindsDiffer ==
  ASSUME NEW c \in Results, NEW d \in Results, PathOf(c) = PathOf(d)
  PROVE  c.kind = d.kind
<1>1. ASSUME NEW s \in Name, NEW t \in Name, NEW e \in Name, NEW f \in Name, NEW n \in Nat \ {0},
             Len(e) = 2, e[2] = "decrypted", Len(f) = n, f[n] = "json", s \o e = t \o f
      PROVE  FALSE
  <2>1. Len(s) \in Nat /\ Len(t) \in Nat
    BY LenProperties DEF Name
  <2>2. Len(s \o e) = Len(s) + 2 /\ (s \o e)[Len(s) + 2] = "decrypted"
    <3>1. PICK m \in Nat \ {0} : m = 2 /\ Len(e) = m /\ e[m] = "decrypted"
      BY <1>1
    <3>2. Len(s \o e) = Len(s) + m /\ (s \o e)[Len(s) + m] = e[m]
      BY <3>1, EndingTokens
    <3> QED
      BY <3>1, <3>2
  <2>3. Len(t \o f) = Len(t) + n /\ (t \o f)[Len(t) + n] = "json"
    BY <1>1, EndingTokens
  <2> QED
    BY <1>1, <2>1, <2>2, <2>3
<1>2. ASSUME NEW s \in Name, NEW t \in Name, NEW e \in Name, NEW f \in Name,
             \A i \in 1..Len(t) : t[i] \in Words,
             Len(e) = 4, e[1] = ".", Len(f) = 2, s \o e = t \o f
      PROVE  FALSE
  <2>1. Len(s) \in Nat /\ Len(t) \in Nat
    BY LenProperties DEF Name
  <2>2. Len(s \o e) = Len(s) + 4 /\ (s \o e)[Len(s) + 1] = "."
    <3>1. PICK m \in Nat \ {0} : m = 4 /\ Len(e) = m
      BY <1>2
    <3>2. Len(s \o e) = Len(s) + m /\ (s \o e)[Len(s) + 1] = e[1]
      BY <3>1, EndingTokens
    <3> QED
      BY <1>2, <3>1, <3>2
  <2>3. Len(t \o f) = Len(t) + 2 /\ \A i \in 1..Len(t) : (t \o f)[i] = t[i]
    <3>1. Len(t \o f) = Len(t) + Len(f)
      BY Ending
    <3>2. \A i \in 1..Len(t) : (t \o f)[i] = t[i]
      BY Ending
    <3> QED
      BY <1>2, <3>1, <3>2
  <2>4. Len(s) + 1 \in 1..Len(t)
    BY <1>2, <2>1, <2>2, <2>3
  <2>5. t[Len(s) + 1] = "."
    BY <1>2, <2>2, <2>3, <2>4
  <2> QED
    BY <1>2, <2>4, <2>5, WordsAreNoMarks
<1>3. ASSUME NEW x \in Results, NEW y \in Results, PathOf(x) = PathOf(y)
      PROVE  ~(x.kind = "plaintext" /\ y.kind # "plaintext")
             /\ ~(x.kind = "artifact" /\ y.kind = "payload")
  <2>1. StemOf(x) \o EndOf(x) = StemOf(y) \o EndOf(y) /\ StemOf(x) \in Name /\ StemOf(y) \in Name
    BY <1>3, NameOfResult DEF PathOf
  <2>2. ASSUME x.kind = "plaintext", y.kind # "plaintext" PROVE FALSE
    <3>1. EndOf(x) = DecryptEnd /\ EndOf(y) \in {ArtifactEnd, DownloadEnd}
      BY <2>2, <1>3, ResultFields DEF EndOf
    <3>2. PICK e \in Name : e = EndOf(x) /\ Len(e) = 2 /\ e[2] = "decrypted"
      BY <3>1, EndsAreNames DEF DecryptEnd
    <3>3. PICK f \in Name, n \in {2, 4} : f = EndOf(y) /\ Len(f) = n /\ f[n] = "json"
      <4>1. ArtifactEnd[4] = "json" /\ DownloadEnd[2] = "json"
        BY DEF ArtifactEnd, DownloadEnd
      <4> QED
        BY <3>1, <4>1, EndsAreNames
    <3>4. n \in Nat \ {0} /\ StemOf(x) \o e = StemOf(y) \o f
      BY <2>1, <3>2, <3>3
    <3> QED
      BY <1>1, <2>1, <3>2, <3>3, <3>4
  <2>3. ASSUME x.kind = "artifact", y.kind = "payload" PROVE FALSE
    <3>1. EndOf(x) = ArtifactEnd /\ EndOf(y) = DownloadEnd
      BY <2>3 DEF EndOf
    <3>2. StemOf(y) = Sanitized(y.of) /\ y.of \in Seq(Tokens \ {BAD})
      BY <2>3, ResultFields DEF StemOf
    <3>3. \A i \in 1..Len(StemOf(y)) : StemOf(y)[i] \in Words
      BY <3>2, SanitizedIsWords
    <3>4. PICK e \in Name : e = EndOf(x) /\ Len(e) = 4 /\ e[1] = "."
      BY <3>1, EndsAreNames DEF ArtifactEnd
    <3>5. PICK f \in Name : f = EndOf(y) /\ Len(f) = 2
      BY <3>1, EndsAreNames
    <3>6. StemOf(x) \o e = StemOf(y) \o f
      BY <2>1, <3>4, <3>5
    <3> QED
      BY <1>2, <2>1, <3>3, <3>4, <3>5, <3>6
  <2> QED
    BY <2>2, <2>3
<1> QED
  BY <1>3, ResultFields

\* A path tells what is saved there, for names and roots that are kept apart.
LEMMA PathTells ==
  ASSUME NEW c \in Results, NEW d \in Results, IsDistinct(c), PathOf(c) = PathOf(d)
  PROVE  c = d
<1>1. c.kind = d.kind
  BY KindsDiffer
<1>2. DirOf(c) = DirOf(d) /\ StemOf(c) = StemOf(d)
  <2>1. EndOf(c) = EndOf(d)
    BY <1>1 DEF EndOf
  <2>2. DirOf(c) = DirOf(d) /\ StemOf(c) \o EndOf(c) = StemOf(d) \o EndOf(d)
    BY DEF PathOf
  <2> DEFINE s == StemOf(c)  t == StemOf(d)  e == EndOf(c)
  <2>3. s \in Name /\ t \in Name /\ e \in Name /\ s \o e = t \o e
    BY <2>1, <2>2, NameOfResult
  <2> HIDE DEF s, t, e
  <2>4. s = t
    BY <2>3, SameEnding
  <2> QED
    BY <2>2, <2>4 DEF s, t
<1>3. ASSUME NEW p \in Paths, NEW q \in Paths, NEW fixed,
             p.dir = q.dir, NameOr(p, fixed) = NameOr(q, fixed),
             \A i \in DOMAIN p.name : p.name[i] # BAD, p.name # fixed
      PROVE  p = q
  <2>1. NameOr(p, fixed) = p.name
    BY <1>3 DEF NameOr
  <2>2. NameOr(q, fixed) = q.name
    BY <1>3, <2>1 DEF NameOr
  <2>3. p = [dir |-> p.dir, name |-> p.name] /\ q = [dir |-> q.dir, name |-> q.name]
    BY DEF Paths
  <2> QED
    BY <1>3, <2>1, <2>2, <2>3
<1>4. c.of = d.of
  <2>1. CASE c.kind = "payload"
    <3>1. /\ c.of \in Seq(Tokens \ {BAD}) /\ d.of \in Seq(Tokens \ {BAD})
          /\ Sanitized(c.of) = Sanitized(d.of)
      BY <1>1, <1>2, <2>1, ResultFields DEF StemOf
    <3>2. Len(c.of) = Len(d.of)
      BY <3>1, SanitizedIsWords
    <3>3. DOMAIN c.of = 1..Len(c.of) /\ DOMAIN d.of = 1..Len(c.of)
      BY <3>1, <3>2, LenProperties
    <3>4. ASSUME NEW i \in 1..Len(c.of) PROVE c.of[i] = d.of[i]
      <4>1. c.of[i] \in HexWords
        BY <2>1, <3>3 DEF IsDistinct
      <4>2. Sanitized(c.of)[i] = c.of[i]
        BY <3>3, <4>1, WordsAreNoMarks DEF Sanitized
      <4>3. Sanitized(d.of)[i] = IF d.of[i] \in Words THEN d.of[i] ELSE "_"
        BY <3>3 DEF Sanitized
      <4> QED
        BY <3>1, <4>1, <4>2, <4>3, WordsAreNoMarks
    <3> QED
      BY <3>1, <3>2, <3>4, SeqEqual
  <2>2. CASE c.kind = "artifact"
    <3>1. c.of \in Paths /\ d.of \in Paths /\ c.of.dir = d.of.dir
      BY <1>1, <1>2, <2>2, ResultFields DEF DirOf
    <3>2. NameOr(c.of, <<"upload">>) = NameOr(d.of, <<"upload">>)
      BY <1>1, <1>2, <2>2 DEF StemOf
    <3>3. (\A i \in DOMAIN c.of.name : c.of.name[i] # BAD) /\ c.of.name # <<"upload">>
      BY <2>2 DEF IsDistinct
    <3> QED
      BY <1>3, <3>1, <3>2, <3>3
  <2>3. CASE c.kind = "plaintext"
    <3>1. c.of \in Paths /\ d.of \in Paths /\ c.of.dir = d.of.dir
      BY <1>1, <1>2, <2>3, ResultFields DEF DirOf
    <3>2. NameOr(c.of, <<"payload">>) = NameOr(d.of, <<"payload">>)
      BY <1>1, <1>2, <2>3 DEF StemOf
    <3>3. (\A i \in DOMAIN c.of.name : c.of.name[i] # BAD) /\ c.of.name # <<"payload">>
      BY <2>3 DEF IsDistinct
    <3> QED
      BY <1>3, <3>1, <3>2, <3>3
  <2> QED
    BY <2>1, <2>2, <2>3, ResultFields
<1> QED
  BY <1>1, <1>4, ResultFields

-----------------------------------------------------------------------------
(* The invariant: what is at a path and was not the user's belongs there. *)

PathInv ==
  /\ TypeOK
  /\ \A p \in DOMAIN disk : disk[p].kind # "own" => p = PathOf(disk[p])
  /\ \A r \in results : r.content \in Results /\ r.path = PathOf(r.content)
  /\ \A r \in results : disk[r.path].kind # "own"
  /\ ResultsAreKept

\* Saving a result where it belongs keeps the invariant.
LEMMA SaveKeeps ==
  ASSUME PathInv, NEW c \in Results, Save(PathOf(c), c)
  PROVE  PathInv'
<1> DEFINE path == PathOf(c)
<1>1. path \in Paths /\ c \in Contents /\ c.kind # "own"
  BY PathIsPath DEF Results
<1>2. /\ DOMAIN disk' = DOMAIN disk \cup {path} /\ disk'[path] = c
      /\ \A p \in DOMAIN disk \ {path} : disk'[p] = disk[p]
      /\ results' = results \cup {[path |-> path, content |-> c]}
  BY DEF Save
<1> HIDE DEF path
<1>3. TypeOK'
  BY <1>1, <1>2 DEF PathInv, TypeOK
<1>4. \A p \in DOMAIN disk' : disk'[p].kind # "own" => p = PathOf(disk'[p])
  BY <1>2 DEF PathInv, path
<1>5. \A r \in results' : r.content \in Results /\ r.path = PathOf(r.content)
  BY <1>2 DEF PathInv, path
<1>6. ASSUME NEW r \in results'
      PROVE  /\ disk'[r.path].kind # "own"
             /\ IsDistinct(r.content) => disk'[r.path] = r.content
  <2>1. CASE r = [path |-> path, content |-> c]
    BY <1>1, <1>2, <2>1
  <2>2. CASE r \in results /\ r.path # path
    BY <1>2, <2>2 DEF PathInv, TypeOK, ResultsAreKept
  <2>3. CASE r \in results /\ r.path = path
    <3>1. r.content \in Results /\ PathOf(r.content) = PathOf(c)
      BY <2>3 DEF PathInv, path
    <3>2. IsDistinct(r.content) => r.content = c
      BY <3>1, PathTells
    <3> QED
      BY <1>1, <1>2, <2>3, <3>2
  <2> QED
    BY <1>2, <2>1, <2>2, <2>3
<1> QED
  BY <1>3, <1>4, <1>5, <1>6 DEF PathInv, ResultsAreKept

\* The invariant holds before the first step.
LEMMA InitPathInv == Init => PathInv
<1> SUFFICES ASSUME Init PROVE PathInv
  OBVIOUS
<1>1. DOMAIN disk = Own /\ results = {} /\ \A p \in Own : disk[p] = [kind |-> "own", of |-> p]
  BY DEF Init
<1>2. ASSUME NEW p \in Own PROVE p \in Paths /\ disk[p] \in Contents /\ disk[p].kind = "own"
  <2>1. p \in Paths /\ disk[p] = [kind |-> "own", of |-> p]
    BY <1>1, PathsAssumption
  <2> HIDE DEF Paths
  <2> QED
    BY <2>1 DEF Contents
<1> QED
  BY <1>1, <1>2 DEF PathInv, TypeOK, ResultsAreKept

\* A path with another name.
LEMMA Renamed ==
  ASSUME NEW p \in Paths, NEW name
  PROVE  [p EXCEPT !.name = name] = [dir |-> p.dir, name |-> name]
<1>1. PICK d, n : p = [dir |-> d, name |-> n]
  BY DEF Paths
<1>2. [[dir |-> d, name |-> n] EXCEPT !.name = name] = [dir |-> d, name |-> name]
  OBVIOUS
<1> QED
  BY <1>1, <1>2

\* Every command keeps it.
LEMMA NextPathInv == PathInv /\ [Next]_vars => PathInv'
<1> SUFFICES ASSUME PathInv, [Next]_vars PROVE PathInv'
  OBVIOUS
<1>1. ASSUME NEW source \in DOMAIN disk, Upload(source) PROVE PathInv'
  <2> DEFINE c == [kind |-> "artifact", of |-> source]
  <2>1. source \in Paths
    BY <1>1 DEF PathInv, TypeOK
  <2>2. c \in Results
    BY <2>1 DEF Results, Contents
  <2>3. PathOf(c) = [dir |-> source.dir, name |-> NameOr(source, <<"upload">>) \o ArtifactEnd]
    BY DEF PathOf, DirOf, StemOf, EndOf
  <2>4. default_artifact_path(source) = [dir |-> source.dir, name |-> NameOr(source, <<"upload">>) \o ArtifactEnd]
    BY <2>1, Renamed DEF default_artifact_path, ArtifactEnd
  <2> QED
    <3>1. Save(PathOf(c), c)
      BY <1>1, <2>3, <2>4 DEF Upload
    <3> HIDE DEF c
    <3> QED
      BY <2>2, <3>1, SaveKeeps
<1>2. ASSUME NEW source \in DOMAIN disk, Decrypt(source) PROVE PathInv'
  <2> DEFINE c == [kind |-> "plaintext", of |-> source]
  <2>1. source \in Paths
    BY <1>2 DEF PathInv, TypeOK
  <2>2. c \in Results
    BY <2>1 DEF Results, Contents
  <2>3. PathOf(c) = [dir |-> source.dir, name |-> NameOr(source, <<"payload">>) \o DecryptEnd]
    BY DEF PathOf, DirOf, StemOf, EndOf
  <2>4. default_decrypt_path(source) = [dir |-> source.dir, name |-> NameOr(source, <<"payload">>) \o DecryptEnd]
    BY <2>1, Renamed DEF default_decrypt_path, DecryptEnd
  <2> QED
    <3>1. Save(PathOf(c), c)
      BY <1>2, <2>3, <2>4 DEF Decrypt
    <3> HIDE DEF c
    <3> QED
      BY <2>2, <3>1, SaveKeeps
<1>3. ASSUME NEW root \in Roots, Download(root) PROVE PathInv'
  <2> DEFINE c == [kind |-> "payload", of |-> StripPrefix(root)]
  <2>1. root \in Seq(Tokens \ {BAD})
    BY PathsAssumption
  <2>2. StripPrefix(root) \in Seq(Tokens \ {BAD})
    BY <2>1, HeadTailProperties DEF StripPrefix
  <2>3. c \in Results /\ PathOf(c) = default_download_path(root)
    BY <2>2 DEF Results, Contents, PathOf, DirOf, StemOf, EndOf, default_download_path, DownloadEnd
  <2> QED
    BY <1>3, <2>3, SaveKeeps DEF Download
<1>4. CASE UNCHANGED vars
  BY <1>4 DEF vars, PathInv, TypeOK, ResultsAreKept
<1> QED
  BY <1>1, <1>2, <1>3, <1>4 DEF Next

\* Every file but the user's own is at the default path of what it holds.
THEOREM PathInvariant == Spec => []PathInv
<1>1. Init => PathInv
  BY InitPathInv
<1>2. PathInv /\ [Next]_vars => PathInv'
  BY NextPathInv
<1> QED
  BY <1>1, <1>2, PTL DEF Spec

\* No root leads a download out of the working directory.
THEOREM TypeCorrect == Spec => []TypeOK
<1>1. PathInv => TypeOK
  BY DEF PathInv
<1> QED
  BY <1>1, PathInvariant, PTL

\* Results stay where they were reported, however many commands follow.
THEOREM ResultsStay == Spec => []ResultsAreKept
<1>1. PathInv => ResultsAreKept
  BY DEF PathInv
<1> QED
  BY <1>1, PathInvariant, PTL
=============================================================================
