------------------------------ MODULE EnvFile -------------------------------
(***************************************************************************)
(* How a command of the CLI gets its configuration: main loads .env through *)
(* the dotenv crate, then merges the entries dotenv cannot read, and the   *)
(* handlers choose a storage route and a verifier from the result.         *)
(*                                                                         *)
(* dotenv accepts no name that starts with a digit, and stops at the first *)
(* line that it rejects; main ignores its error (dotenv().ok()).           *)
(***************************************************************************)
EXTENDS Naturals, Sequences

CONSTANTS
  EnvFiles,      \* .env files, as sequences of lines
  Environments,  \* what the shell exports: functions from Names to Values
  Unset, Blank,  \* no such variable; nothing but white space
  Urls           \* what is neither

DigitNames == {"0G_CHAIN_RPC_URL", "0G_PRIVATE_KEY",
               "0G_STORAGE_INDEXER_URL", "0G_STORAGE_NODE_URL"}
LetterNames == {"PQSP_VERIFIER_CONTRACT_ADDRESS"}
Names  == DigitNames \cup LetterNames

\* A value is a sequence of pieces, with commas between them and, around some,
\* white space; one that names one URL has one piece, and "," has two blank ones.
Pieces == [url : Urls \cup {Blank}, padded : BOOLEAN]
Texts  == {text \in Seq(Pieces) : text # <<>>}
Values == {Unset} \cup Texts

\* A line is a comment or empty, an assignment, or neither.
Entries == [kind : {"entry"}, name : Names, value : Texts]
Lines   == Entries \cup [kind : {"comment", "malformed"}]

ASSUME EnvAssumption ==
  /\ EnvFiles \subseteq Seq(Lines)
  /\ Environments \subseteq [Names -> Values]
  /\ Blank \notin Urls
  /\ Unset \notin Texts

VARIABLES
  shell,    \* the environment the process was started with
  dotfile,  \* the lines of the .env file that there is, if any
  where,    \* "here", "parent" (of the working directory) or "none"
  env,      \* the environment of the process
  phase,    \* "dotenv", "patch", then "run" or "failed"
  next      \* the line to read next

vars == <<shell, dotfile, where, env, phase, next>>
given == <<shell, dotfile, where>>

-----------------------------------------------------------------------------
(* dotenv 0.15: Finder looks in the working directory and its parents; load *)
(* sets what is not set yet.                                                *)

Accepts(line) ==
  \/ line.kind = "comment"
  \/ line.kind = "entry" /\ line.name \in LetterNames

CanRead ==
  where # "none" /\ next \in DOMAIN dotfile /\ Accepts(dotfile[next])

DotenvLine ==
  /\ phase = "dotenv" /\ CanRead
  /\ LET line == dotfile[next]
     IN  env' = IF line.kind = "entry" /\ env[line.name] = Unset
                THEN [env EXCEPT ![line.name] = line.value]
                ELSE env
  /\ next' = next + 1
  /\ UNCHANGED <<given, phase>>

\* At the end of the file, or at a line that it rejects, dotenv returns.
DotenvReturns ==
  /\ phase = "dotenv" /\ ~CanRead
  /\ phase' = "patch" /\ next' = 1
  /\ UNCHANGED <<given, env>>

-----------------------------------------------------------------------------
(* patch_env_from_dotfile: only the working directory, only the names that  *)
(* start with a digit, and the file wins over the environment.              *)

\* Mistake: as dotenv, only what is not set yet is set.
PatchLineIfUnset ==
  /\ phase = "patch" /\ where = "here" /\ next <= Len(dotfile)
  /\ LET line == dotfile[next]
     IN  env' = IF /\ line.kind = "entry" /\ line.name \in DigitNames
                   /\ env[line.name] = Unset
                THEN [env EXCEPT ![line.name] = line.value]
                ELSE env
  /\ next' = next + 1
  /\ UNCHANGED <<given, phase>>

\* Mistake: entries of every name are set.
PatchLineAnyName ==
  /\ phase = "patch" /\ where = "here" /\ next <= Len(dotfile)
  /\ LET line == dotfile[next]
     IN  env' = IF line.kind = "entry"
                THEN [env EXCEPT ![line.name] = line.value]
                ELSE env
  /\ next' = next + 1
  /\ UNCHANGED <<given, phase>>

\* Mistake: every entry takes the line after it along.
PatchLineByTwo ==
  /\ phase = "patch" /\ where = "here" /\ next <= Len(dotfile)
  /\ next' = next + 2
  /\ UNCHANGED <<given, phase, env>>

PatchLine ==
  /\ phase = "patch" /\ where = "here" /\ next <= Len(dotfile)
  /\ LET line == dotfile[next]
     IN  env' = IF line.kind = "entry" /\ line.name \in DigitNames
                THEN [env EXCEPT ![line.name] = line.value]
                ELSE env
  /\ next' = next + 1
  /\ UNCHANGED <<given, phase>>

\* Without a file in the working directory it does nothing.
PatchReturns ==
  /\ phase = "patch"
  /\ where # "here" \/ next > Len(dotfile)
  /\ phase' = "run"
  /\ UNCHANGED <<given, env, next>>

\* A file that cannot be read, or is not text, ends the command.
PatchFails ==
  /\ phase = "patch" /\ where = "here" /\ next = 1
  /\ phase' = "failed"
  /\ UNCHANGED <<given, env, next>>

Init ==
  /\ shell \in Environments
  /\ dotfile \in EnvFiles
  /\ where \in {"here", "parent", "none"}
  /\ env = shell
  /\ phase = "dotenv" /\ next = 1

Next ==
  DotenvLine \/ DotenvReturns \/ PatchLine \/ PatchReturns \/ PatchFails

Spec == Init /\ [][Next]_vars

-----------------------------------------------------------------------------
(* What the handlers make of the environment. *)

\* Nothing is left of such a value when it is trimmed.
IsBlank(text) == Len(text) = 1 /\ text[1].url = Blank

\* env::var(..).ok().filter(|v| !v.trim().is_empty())
IsGiven(name) == env[name] # Unset /\ ~IsBlank(env[name])

Trimmed(text) == [n \in DOMAIN text |-> [text[n] EXCEPT !.padded = FALSE]]

\* parse_node_urls: the members of a comma-separated list, blank ones left out.
Listed(text) == {n \in DOMAIN text : text[n].url # Blank}
Member(text, n) == <<Trimmed(text)[n]>>
NodeUrls ==
  IF env["0G_STORAGE_NODE_URL"] = Unset THEN {}
  ELSE LET list == env["0G_STORAGE_NODE_URL"]
       IN  {Member(list, n) : n \in Listed(list)}

\* Mistake: blank members count.
FirstOfAll(text) ==
  CHOOSE n \in DOMAIN text : \A m \in DOMAIN text : n <= m

\* first_storage_node_url takes the first member of that list.
FirstListed(text) ==
  CHOOSE n \in Listed(text) : \A m \in Listed(text) : n <= m

\* build_storage_config: the mode of an upload and the endpoints it uses, the
\* indexer's URL as it stands in the environment.
StorageConfig ==
  LET signs == IsGiven("0G_CHAIN_RPC_URL") /\ IsGiven("0G_PRIVATE_KEY")
  IN  CASE signs /\ IsGiven("0G_STORAGE_INDEXER_URL") ->
             [mode |-> "live_with_indexer", urls |-> {env["0G_STORAGE_INDEXER_URL"]}]
        [] signs /\ ~IsGiven("0G_STORAGE_INDEXER_URL") /\ NodeUrls # {} ->
             [mode |-> "live_with_nodes", urls |-> NodeUrls]
        [] OTHER -> [mode |-> "dry_run", urls |-> {}]

\* run_download, first_storage_indexer_url: one endpoint, the indexer's URL
\* trimmed or else the first node. Without either it ends with an error.
DownloadRoute ==
  IF IsGiven("0G_STORAGE_INDEXER_URL")
  THEN [mode |-> "live_with_indexer", url |-> Trimmed(env["0G_STORAGE_INDEXER_URL"])]
  ELSE IF NodeUrls # {}
  THEN [mode |-> "live_with_nodes",
        url  |-> LET list == env["0G_STORAGE_NODE_URL"]
                 IN  Member(list, FirstListed(list))]
  ELSE [mode |-> "none", url |-> <<>>]

\* submit_with_configured_verifier
VerifierMode ==
  IF /\ IsGiven("0G_CHAIN_RPC_URL") /\ IsGiven("0G_PRIVATE_KEY")
     /\ IsGiven("PQSP_VERIFIER_CONTRACT_ADDRESS")
  THEN "evm" ELSE "local_mock"

-----------------------------------------------------------------------------
(* Properties of a started command *)

EntriesOf(name) ==
  {n \in DOMAIN dotfile : dotfile[n].kind = "entry" /\ dotfile[n].name = name}

TypeOK ==
  /\ env \in [Names -> Values]
  /\ phase \in {"dotenv", "patch", "run", "failed"}
  /\ next \in 1..(Len(dotfile) + 1)

\* What an upload stores, a download run in the same environment looks for by
\* the same kind of route and, white space aside, at an endpoint that the upload
\* used: all the listed nodes hold it, and the first is asked. Whatever the file
\* and the shell leave: blank, missing or padded values, lists with gaps.
RoutesAgree ==
  phase = "run" /\ StorageConfig.mode # "dry_run" =>
    /\ DownloadRoute.mode = StorageConfig.mode
    /\ \E url \in StorageConfig.urls : Trimmed(url) = DownloadRoute.url

\* Every 0G_* name that the .env of the working directory sets ends with the
\* value of its last entry, even though dotenv gives up at such a line.
LastEntryWins ==
  phase = "run" /\ where = "here" =>
    \A name \in DigitNames : \A n \in EntriesOf(name) :
      (\A m \in EntriesOf(name) : m <= n) => env[name] = dotfile[n].value

\* What the shell exports is not overridden by .env, but for the 0G_* names of
\* a file in the working directory.
ShellIsKept ==
  \A name \in Names :
    shell[name] # Unset /\ env[name] # shell[name] =>
      name \in DigitNames /\ where = "here" /\ EntriesOf(name) # {}

\* README.md, step 3 of the setup: with the contract's address in .env beside
\* the chain URL and the key, verify uses the contract.
VerifierAddressIsUsed ==
  phase = "run" /\ where = "here"
    /\ (\A name \in {"0G_CHAIN_RPC_URL", "0G_PRIVATE_KEY",
                     "PQSP_VERIFIER_CONTRACT_ADDRESS"} :
          \E n \in EntriesOf(name) : ~IsBlank(dotfile[n].value))
    => VerifierMode = "evm"
=============================================================================
