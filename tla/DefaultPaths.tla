---------------------------- MODULE DefaultPaths ----------------------------
(***************************************************************************)
(* Where upload, download and decrypt save when no --out is given, and     *)
(* what sequences of them do to a directory tree: each derives the path of *)
(* its result from the path of its input, or from the text of a root, and  *)
(* overwrites what is there.                                               *)
(*                                                                         *)
(* Names and roots are sequences of tokens: words of letters, digits, "-"  *)
(* and "_", and marks.  The mark BAD stands for bytes that are not UTF-8.  *)
(***************************************************************************)
EXTENDS Sequences, FiniteSets, Naturals

CONSTANTS
  Dirs, Here,  \* directories, and the working directory
  Own,         \* paths of the user's files
  Roots,       \* what is given to download
  HexWords,    \* words of hexadecimal digits
  BAD,
  MaxResults   \* bounds the results a user collects

Marks  == {".", "/", " "}
Words  == HexWords \cup {"0x", "_", "name", "upload", "payload",
                         "pqsp-receipt", "json", "decrypted"}
Tokens == Marks \cup Words \cup {BAD}
Paths  == [dir : Dirs, name : Seq(Tokens \ {"/"})]

ASSUME PathsAssumption ==
  /\ Here \in Dirs /\ MaxResults \in Nat
  /\ BAD \notin Marks \cup Words
  /\ HexWords \cap (Marks \cup {"_"}) = {}
  /\ Own \subseteq Paths
  /\ Roots \subseteq Seq(Tokens \ {BAD})

-----------------------------------------------------------------------------
(* The default paths *)

\* file_name().to_str(), or a fixed name.
NameOr(path, other) ==
  IF \A i \in DOMAIN path.name : path.name[i] # BAD THEN path.name ELSE other

\* Mistake: as with_extension, what follows the last dot is replaced.
default_artifact_pathStem(path) ==
  LET dots == {i \in DOMAIN path.name : path.name[i] = "."}
      stem == IF dots = {} THEN path.name
              ELSE SubSeq(path.name, 1, (CHOOSE i \in dots : \A j \in dots : j <= i) - 1)
  IN  [path EXCEPT !.name = stem \o <<".", "pqsp-receipt", ".", "json">>]

default_artifact_path(path) ==
  [path EXCEPT !.name = NameOr(path, <<"upload">>) \o <<".", "pqsp-receipt", ".", "json">>]

default_decrypt_path(path) ==
  [path EXCEPT !.name = NameOr(path, <<"payload">>) \o <<".", "decrypted">>]

StripPrefix(root) == IF root # <<>> /\ root[1] = "0x" THEN Tail(root) ELSE root

\* Mistake: a slash is kept.
SanitizedKeepingSlashes(root) ==
  [i \in DOMAIN root |-> IF root[i] \in Words \cup {"/"} THEN root[i] ELSE "_"]

Sanitized(root) == [i \in DOMAIN root |-> IF root[i] \in Words THEN root[i] ELSE "_"]

default_download_path(root) ==
  [dir |-> Here, name |-> Sanitized(StripPrefix(root)) \o <<".", "json">>]

-----------------------------------------------------------------------------

\* A user's file, the artifact of an upload, the payload of a root, or what was
\* recovered from a file.
Contents == [kind : {"own", "artifact", "plaintext"}, of : Paths]
            \cup [kind : {"payload"}, of : Seq(Tokens \ {BAD})]

VARIABLES
  disk,     \* the files there are: from paths to contents
  results   \* what commands reported that they saved, and where

vars == <<disk, results>>

\* fs::write, and the path that is printed.
Save(path, content) ==
  /\ disk' = [p \in DOMAIN disk \cup {path} |-> IF p = path THEN content ELSE disk[p]]
  /\ results' = results \cup {[path |-> path, content |-> content]}

Upload(source) ==
  /\ source \in DOMAIN disk
  /\ Save(default_artifact_path(source), [kind |-> "artifact", of |-> source])

\* The payload is that of the root, however the root was written.
Download(root) ==
  Save(default_download_path(root), [kind |-> "payload", of |-> StripPrefix(root)])

\* A payload opens; so may a file of the user's, or what was recovered, if it
\* holds an envelope itself.  An artifact does not.
Decrypt(source) ==
  /\ source \in DOMAIN disk /\ disk[source].kind # "artifact"
  /\ Save(default_decrypt_path(source), [kind |-> "plaintext", of |-> source])

Init ==
  /\ disk = [p \in Own |-> [kind |-> "own", of |-> p]]
  /\ results = {}

Next ==
  /\ Cardinality(results) < MaxResults
  /\ \/ \E p \in DOMAIN disk : Upload(p) \/ Decrypt(p)
     \/ \E root \in Roots : Download(root)

Spec == Init /\ [][Next]_vars

-----------------------------------------------------------------------------
(* Properties *)

\* Whatever text is given as a root, a download stays in the working
\* directory, as every file stays in the directory of its input.
TypeOK ==
  /\ DOMAIN disk \subseteq Paths /\ \A p \in DOMAIN disk : disk[p] \in Contents
  /\ \A r \in results : r.path \in DOMAIN disk /\ r.content \in Contents

\* Results that share a name by construction: the inputs of both have names
\* that are not UTF-8, or one has and the other has the fixed name, or the
\* roots are not hexadecimal and are written alike but for their marks.
IsDistinct(content) ==
  IF content.kind = "payload"
  THEN \A i \in DOMAIN content.of : content.of[i] \in HexWords
  ELSE /\ \A i \in DOMAIN content.of.name : content.of.name[i] # BAD
       /\ content.of.name \notin {<<"upload">>, <<"payload">>}

\* A result stays at the path that was reported, whatever commands follow and
\* whatever they are given: an artifact, a payload or a plaintext is replaced
\* by none but the same command on the same input.
ResultsAreKept ==
  \A r \in results : IsDistinct(r.content) => disk[r.path] = r.content
=============================================================================
