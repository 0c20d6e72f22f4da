---------------------------- MODULE EnvFileProofs ----------------------------
(***************************************************************************)
(* Proofs about EnvFile, for any .env file and any environment.            *)
(***************************************************************************)
EXTENDS EnvFile, SequenceTheorems, WellFoundedInduction, TLAPS

-----------------------------------------------------------------------------
(* The inductive invariant *)

\* The entries that the merge has passed are in force, the last one of each
\* name; it ends behind the last line.
Merged ==
  where = "here" /\ phase \in {"patch", "run"} =>
    /\ \A name \in DigitNames : \A n \in EntriesOf(name) :
         n < next /\ (\A m \in EntriesOf(name) : m < next => m <= n)
           => env[name] = dotfile[n].value
    /\ phase = "run" => next > Len(dotfile)

\* What differs from the shell was not set there, or is a 0G_* name of the file.
Overridden ==
  \A name \in Names :
    env[name] # shell[name] =>
      \/ shell[name] = Unset
      \/ name \in DigitNames /\ where = "here" /\ EntriesOf(name) # {}

EnvInv ==
  /\ TypeOK /\ dotfile \in Seq(Lines)
  /\ Merged /\ Overridden

\* A line that is an entry has a name and a value.
LEMMA EntriesAreTyped ==
  ASSUME NEW lines \in Seq(Lines), NEW n \in 1..Len(lines), lines[n].kind = "entry"
  PROVE  lines[n].name \in Names /\ lines[n].value \in Texts
<1>1. lines[n] \in Lines
  BY ElementOfSeq
<1>2. lines[n] \in Entries
  BY <1>1 DEF Lines
<1> QED
  BY <1>2 DEF Entries

\* The invariant holds before the first step.
LEMMA InitEnvInv == Init => EnvInv
<1> SUFFICES ASSUME Init PROVE EnvInv
  OBVIOUS
<1>1. dotfile \in Seq(Lines) /\ env = shell /\ env \in [Names -> Values]
  BY EnvAssumption DEF Init
<1>2. Len(dotfile) \in Nat
  BY <1>1, LenProperties
<1> QED
  BY <1>1, <1>2 DEF Init, EnvInv, TypeOK, Merged, Overridden

\* Every step keeps it.
LEMMA NextEnvInv == EnvInv /\ [Next]_vars => EnvInv'
<1> SUFFICES ASSUME EnvInv, [Next]_vars PROVE EnvInv'
  OBVIOUS
<1>1. /\ Len(dotfile) \in Nat /\ DOMAIN dotfile = 1..Len(dotfile)
      /\ env \in [Names -> Values] /\ next \in Nat \ {0} /\ next <= Len(dotfile) + 1
      /\ \A name : EntriesOf(name) \subseteq 1..Len(dotfile)
  BY LenProperties DEF EnvInv, TypeOK, EntriesOf
<1>2. CASE DotenvLine
  <2>1. next \in 1..Len(dotfile) /\ next' = next + 1 /\ phase = "dotenv" /\ UNCHANGED <<given, phase>>
    BY <1>1, <1>2 DEF DotenvLine, CanRead
  <2>2. dotfile[next].kind = "entry" => dotfile[next].name \in Names /\ dotfile[next].value \in Texts
    BY <2>1, EntriesAreTyped DEF EnvInv
  <2>3. env' \in [Names -> Values]
    BY <1>1, <1>2, <2>2 DEF DotenvLine, Values
  <2>4. \A name \in Names : env'[name] # env[name] => env[name] = Unset
    BY <1>1, <1>2, <2>2 DEF DotenvLine
  <2>5. TypeOK'
    BY <1>1, <2>1, <2>3 DEF EnvInv, TypeOK, given
  <2>6. Merged'
    BY <2>1 DEF Merged, given
  <2>7. Overridden'
    BY <2>1, <2>4 DEF EnvInv, Overridden, EntriesOf, given
  <2> QED
    BY <2>1, <2>5, <2>6, <2>7 DEF EnvInv, given
<1>3. CASE DotenvReturns
  <2>1. next' = 1 /\ phase' = "patch" /\ UNCHANGED <<given, env>>
    BY <1>3 DEF DotenvReturns
  <2>2. Merged'
    BY <1>1, <2>1 DEF Merged, EntriesOf, given
  <2> QED
    BY <1>1, <2>1, <2>2 DEF EnvInv, TypeOK, Overridden, EntriesOf, given
<1>4. CASE PatchLine
  <2>1. /\ next \in 1..Len(dotfile) /\ next' = next + 1 /\ phase = "patch" /\ where = "here"
        /\ UNCHANGED <<given, phase>>
    BY <1>1, <1>4 DEF PatchLine
  <2>2. dotfile[next].kind = "entry" => dotfile[next].name \in Names /\ dotfile[next].value \in Texts
    BY <2>1, EntriesAreTyped DEF EnvInv
  <2>3. env' = IF dotfile[next].kind = "entry" /\ dotfile[next].name \in DigitNames
               THEN [env EXCEPT ![dotfile[next].name] = dotfile[next].value]
               ELSE env
    BY <1>4 DEF PatchLine
  <2>4. env' \in [Names -> Values]
    BY <1>1, <2>2, <2>3 DEF Values
  <2>5. /\ \A name \in Names : name \in DigitNames /\ next \in EntriesOf(name) => env'[name] = dotfile[next].value
        /\ \A name \in Names : ~(name \in DigitNames /\ next \in EntriesOf(name)) => env'[name] = env[name]
    BY <1>1, <2>1, <2>3 DEF EntriesOf
  <2>6. TypeOK'
    BY <1>1, <2>1, <2>4 DEF EnvInv, TypeOK, given
  <2>7. Merged'
    <3> SUFFICES ASSUME NEW name \in DigitNames, NEW n \in EntriesOf(name), n < next + 1,
                        \A m \in EntriesOf(name) : m < next + 1 => m <= n
                 PROVE  env'[name] = dotfile[n].value
      BY <2>1 DEF Merged, EntriesOf, given
    <3>1. n \in Nat /\ name \in Names
      BY <1>1 DEF Names
    <3>2. CASE next \in EntriesOf(name)
      <4>1. n = next
        BY <1>1, <3>1, <3>2
      <4> QED
        BY <2>5, <3>1, <3>2, <4>1
    <3>3. CASE next \notin EntriesOf(name)
      <4>1. n < next /\ \A m \in EntriesOf(name) : m < next => m <= n
        BY <1>1, <3>1, <3>3
      <4>2. env[name] = dotfile[n].value
        BY <2>1, <4>1 DEF EnvInv, Merged
      <4> QED
        BY <2>5, <3>1, <3>3, <4>2
    <3> QED
      BY <3>2, <3>3
  <2>8. Overridden'
    BY <2>1, <2>5 DEF EnvInv, Overridden, EntriesOf, given
  <2> QED
    BY <2>1, <2>6, <2>7, <2>8 DEF EnvInv, given
<1>5. CASE PatchReturns
  <2>1. phase = "patch" /\ phase' = "run" /\ UNCHANGED <<given, env, next>>
        /\ (where # "here" \/ next > Len(dotfile))
    BY <1>5 DEF PatchReturns
  <2> QED
    BY <2>1 DEF EnvInv, TypeOK, Merged, Overridden, EntriesOf, given
<1>6. CASE PatchFails
  BY <1>6 DEF PatchFails, EnvInv, TypeOK, Merged, Overridden, EntriesOf, given
<1>7. CASE UNCHANGED vars
  BY <1>7 DEF vars, EnvInv, TypeOK, Merged, Overridden, EntriesOf
<1> QED
  BY <1>2, <1>3, <1>4, <1>5, <1>6, <1>7 DEF Next

-----------------------------------------------------------------------------

\* The merge follows the file, whatever dotenv has done before it.
THEOREM EnvInvariant == Spec => []EnvInv
<1>1. Init => EnvInv
  BY InitEnvInv
<1>2. EnvInv /\ [Next]_vars => EnvInv'
  BY NextEnvInv
<1> QED
  BY <1>1, <1>2, PTL DEF Spec

\* The environment keeps its type, for any file.
THEOREM TypeCorrect == Spec => []TypeOK
<1>1. EnvInv => TypeOK
  BY DEF EnvInv
<1> QED
  BY <1>1, EnvInvariant, PTL

\* The last entry of every 0G_* name counts, wherever dotenv stopped.
THEOREM LastEntryCounts == Spec => []LastEntryWins
<1>1. EnvInv => LastEntryWins
  <2> SUFFICES ASSUME EnvInv, phase = "run", where = "here",
                      NEW name \in DigitNames, NEW n \in EntriesOf(name),
                      \A m \in EntriesOf(name) : m <= n
               PROVE  env[name] = dotfile[n].value
    BY DEF LastEntryWins
  <2>1. next > Len(dotfile) /\ Len(dotfile) \in Nat /\ next \in Nat
    BY LenProperties DEF EnvInv, Merged, TypeOK
  <2>2. n \in 1..Len(dotfile)
    BY LenProperties DEF EnvInv, EntriesOf
  <2>3. n < next
    BY <2>1, <2>2
  <2> QED
    BY <2>3 DEF EnvInv, Merged
<1> QED
  BY <1>1, EnvInvariant, PTL

\* What the shell exports stays, but for the 0G_* names of the file.
THEOREM ShellStays == Spec => []ShellIsKept
<1>1. EnvInv => ShellIsKept
  BY DEF EnvInv, Overridden, ShellIsKept
<1> QED
  BY <1>1, EnvInvariant, PTL

\* A nonempty set of natural numbers has a least one.
LEMMA LeastNatural ==
  ASSUME NEW S \in SUBSET Nat, S # {}
  PROVE  \E n \in S : \A m \in S : n <= m
<1> DEFINE R == {ss \in Nat \X Nat : ss[1] < ss[2]}
<1>1. OpToRel(<, Nat) = R
  BY DEF OpToRel
<1>2. IsWellFoundedOn(R, Nat)
  BY <1>1, NatLessThanWellFounded
<1>3. \A m, n \in Nat : m < n => <<m, n>> \in R
  OBVIOUS
<1> HIDE DEF R
<1>4. \E n \in S : \A m \in S : ~(<<m, n>> \in R)
  BY <1>2, WFMin
<1>5. \A m, n \in Nat : m < n \/ n <= m
  OBVIOUS
<1> QED
  BY <1>3, <1>4, <1>5

\* A list with a member that is not blank has a first one.
LEMMA FirstIsListed ==
  ASSUME NEW text \in Texts, Listed(text) # {}
  PROVE  FirstListed(text) \in Listed(text)
<1>1. Listed(text) \subseteq Nat
  BY LenProperties DEF Listed, Texts
<1>2. \E n \in Listed(text) : \A m \in Listed(text) : n <= m
  BY <1>1, LeastNatural
<1> QED
  BY <1>2 DEF FirstListed

\* A download asks an endpoint that an upload of the same environment used, for
\* lists of any length with gaps and padding anywhere.
THEOREM RoutesMeet == Spec => []RoutesAgree
<1>1. EnvInv => RoutesAgree
  <2> SUFFICES ASSUME EnvInv, StorageConfig.mode # "dry_run"
               PROVE  /\ DownloadRoute.mode = StorageConfig.mode
                      /\ \E url \in StorageConfig.urls : Trimmed(url) = DownloadRoute.url
    BY DEF RoutesAgree
  <2> DEFINE list == env["0G_STORAGE_NODE_URL"]
  <2>1. env \in [Names -> Values] /\ list \in Values
    BY DEF EnvInv, TypeOK, Names, DigitNames
  <2>2. CASE IsGiven("0G_STORAGE_INDEXER_URL")
    <3>1. StorageConfig = [mode |-> "live_with_indexer", urls |-> {env["0G_STORAGE_INDEXER_URL"]}]
      BY <2>2 DEF StorageConfig
    <3> QED
      BY <2>2, <3>1 DEF DownloadRoute
  <2>3. CASE ~IsGiven("0G_STORAGE_INDEXER_URL")
    <3>1. StorageConfig = [mode |-> "live_with_nodes", urls |-> NodeUrls] /\ NodeUrls # {}
      BY <2>3 DEF StorageConfig
    <3>2. /\ list \in Texts /\ NodeUrls = {Member(list, n) : n \in Listed(list)}
          /\ Listed(list) # {}
      BY <2>1, <3>1 DEF NodeUrls, Values
    <3>3. FirstListed(list) \in Listed(list)
      BY <3>2, FirstIsListed
    <3> DEFINE url == Member(list, FirstListed(list))
    <3>4. url \in StorageConfig.urls /\ DownloadRoute = [mode |-> "live_with_nodes", url |-> url]
      BY <2>3, <3>1, <3>2, <3>3 DEF DownloadRoute
    <3>5. Trimmed(url) = url
      <4>1. list[FirstListed(list)] \in Pieces
        BY <3>2, <3>3, ElementOfSeq, LenProperties DEF Listed, Texts
      <4> DEFINE piece == [list[FirstListed(list)] EXCEPT !.padded = FALSE]
      <4>2. url = <<piece>>
        BY <3>2, <3>3 DEF Member, Trimmed, Listed
      <4>3. [piece EXCEPT !.padded = FALSE] = piece
        BY <4>1 DEF Pieces
      <4>4. ASSUME NEW p PROVE Trimmed(<<p>>) = <<[p EXCEPT !.padded = FALSE]>>
        <5>1. DOMAIN <<p>> = {1} /\ <<p>>[1] = p
          OBVIOUS
        <5> DEFINE q == [p EXCEPT !.padded = FALSE]
        <5>2. Trimmed(<<p>>) = [n \in {1} |-> q]
          BY <5>1 DEF Trimmed
        <5>3. \A r : <<r>> = [n \in {1} |-> r]
          OBVIOUS
        <5> QED
          BY <5>2, <5>3
      <4> QED
        BY <4>2, <4>3, <4>4
    <3> QED
      BY <3>1, <3>4, <3>5
  <2> QED
    BY <2>2, <2>3
<1> QED
  BY <1>1, EnvInvariant, PTL

-----------------------------------------------------------------------------
(* Where the address has to stand *)

VerifierAddress == "PQSP_VERIFIER_CONTRACT_ADDRESS"

\* dotenv reads a line that sets the address, because it accepts every line
\* above it: no 0G_* line is among them.
AddressIsRead ==
  \E n \in EntriesOf(VerifierAddress) : \A m \in 1..n : Accepts(dotfile[m])

\* Behind a line that sets the address it is set, and what it is set to, if not
\* by the shell, is what some line says; likewise for the 0G_* names.
AddressInv ==
  /\ EnvInv
  /\ where # "none" /\ phase = "dotenv" =>
       \A n \in EntriesOf(VerifierAddress) : n < next => env[VerifierAddress] # Unset
  /\ where # "none" /\ phase \in {"patch", "run"} /\ AddressIsRead =>
       env[VerifierAddress] # Unset
  /\ env[VerifierAddress] # shell[VerifierAddress] =>
       \E n \in EntriesOf(VerifierAddress) : env[VerifierAddress] = dotfile[n].value
  /\ where = "here" /\ phase \in {"patch", "run"} =>
       \A name \in DigitNames :
         (\E n \in EntriesOf(name) : n < next) =>
           \E n \in EntriesOf(name) : env[name] = dotfile[n].value

\* The loaders keep it.
LEMMA NextAddressInv == AddressInv /\ [Next]_vars => AddressInv'
<1> SUFFICES ASSUME AddressInv, [Next]_vars PROVE AddressInv'
  OBVIOUS
<1>1. /\ EnvInv' /\ EnvInv
      /\ Len(dotfile) \in Nat /\ DOMAIN dotfile = 1..Len(dotfile)
      /\ env \in [Names -> Values] /\ next \in Nat \ {0} /\ next <= Len(dotfile) + 1
      /\ \A name : EntriesOf(name) \subseteq 1..Len(dotfile)
      /\ VerifierAddress \in Names \ DigitNames /\ DigitNames \subseteq Names
  BY NextEnvInv, LenProperties
     DEF AddressInv, EnvInv, TypeOK, EntriesOf, Names, DigitNames, LetterNames, VerifierAddress
<1>2. CASE DotenvLine
  <2>1. /\ next \in 1..Len(dotfile) /\ next' = next + 1 /\ phase = "dotenv" /\ where # "none"
        /\ UNCHANGED <<given, phase>>
    BY <1>1, <1>2 DEF DotenvLine, CanRead
  <2>2. dotfile[next].kind = "entry" => dotfile[next].name \in Names /\ dotfile[next].value \in Texts
    BY <1>1, <2>1, ElementOfSeq DEF EnvInv, Lines, Entries
  <2>3. \/ /\ next \in EntriesOf(VerifierAddress) /\ env[VerifierAddress] = Unset
           /\ env'[VerifierAddress] = dotfile[next].value
        \/ /\ next \notin EntriesOf(VerifierAddress) \/ env[VerifierAddress] # Unset
           /\ env'[VerifierAddress] = env[VerifierAddress]
    BY <1>1, <1>2, <2>1, <2>2 DEF DotenvLine, EntriesOf
  <2>4. env'[VerifierAddress] = Unset =>
          env[VerifierAddress] = Unset /\ next \notin EntriesOf(VerifierAddress)
    BY <2>2, <2>3, EnvAssumption DEF EntriesOf
  <2>5. \A n \in EntriesOf(VerifierAddress) : n < next + 1 => env'[VerifierAddress] # Unset
    <3> TAKE n \in EntriesOf(VerifierAddress)
    <3>1. n \in Nat
      BY <1>1
    <3> QED BY <1>1, <2>1, <2>4, <3>1 DEF AddressInv
  <2>6. env'[VerifierAddress] # shell[VerifierAddress] =>
          \E n \in EntriesOf(VerifierAddress) : env'[VerifierAddress] = dotfile[n].value
    BY <2>3 DEF AddressInv
  <2> QED
    BY <1>1, <2>1, <2>5, <2>6 DEF AddressInv, EntriesOf, AddressIsRead, given
<1>3. CASE DotenvReturns
  <2>1. /\ phase = "dotenv" /\ ~CanRead /\ next' = 1 /\ phase' = "patch"
        /\ UNCHANGED <<given, env>>
    BY <1>3 DEF DotenvReturns
  <2>2. where # "none" /\ AddressIsRead => env[VerifierAddress] # Unset
    <3> SUFFICES ASSUME where # "none", NEW n \in EntriesOf(VerifierAddress),
                        \A m \in 1..n : Accepts(dotfile[m])
                 PROVE  env[VerifierAddress] # Unset
      BY DEF AddressIsRead
    <3>1. n \in 1..Len(dotfile)
      BY <1>1
    <3>2. n < next
      BY <1>1, <2>1, <3>1 DEF CanRead
    <3> QED BY <2>1, <3>2 DEF AddressInv
  <2>3. \A name \in DigitNames : ~(\E n \in EntriesOf(name) : n < 1)
    BY <1>1
  <2> QED
    BY <1>1, <2>1, <2>2, <2>3 DEF AddressInv, EntriesOf, AddressIsRead, given
<1>4. CASE PatchLine
  <2>1. /\ next \in 1..Len(dotfile) /\ next' = next + 1 /\ phase = "patch" /\ where = "here"
        /\ UNCHANGED <<given, phase>>
    BY <1>1, <1>4 DEF PatchLine
  <2>2. \A name \in Names :
          IF name \in DigitNames /\ next \in EntriesOf(name)
          THEN env'[name] = dotfile[next].value ELSE env'[name] = env[name]
    BY <1>1, <1>4, <2>1 DEF PatchLine, EntriesOf
  <2>3. env'[VerifierAddress] = env[VerifierAddress]
    BY <1>1, <2>2
  <2>4. ASSUME NEW name \in DigitNames, NEW n \in EntriesOf(name), n < next + 1
        PROVE  \E k \in EntriesOf(name) : env'[name] = dotfile[k].value
    <3>1. n \in Nat /\ name \in Names
      BY <1>1
    <3>2. CASE next \in EntriesOf(name)
      BY <2>2, <3>1, <3>2
    <3>3. CASE next \notin EntriesOf(name)
      <4>1. n < next
        BY <1>1, <2>4, <3>1, <3>3
      <4> QED BY <2>1, <2>2, <3>1, <3>3, <4>1 DEF AddressInv
    <3> QED BY <3>2, <3>3
  <2> QED
    BY <1>1, <2>1, <2>3, <2>4 DEF AddressInv, EntriesOf, AddressIsRead, given
<1>5. CASE PatchReturns
  BY <1>1, <1>5 DEF PatchReturns, AddressInv, EntriesOf, AddressIsRead, given
<1>6. CASE PatchFails
  BY <1>1, <1>6 DEF PatchFails, AddressInv, EntriesOf, AddressIsRead, given
<1>7. CASE UNCHANGED vars
  BY <1>1, <1>7 DEF vars, AddressInv, EntriesOf, AddressIsRead
<1> QED
  BY <1>2, <1>3, <1>4, <1>5, <1>6, <1>7 DEF Next

IsFilledIn(name) ==
  EntriesOf(name) # {} /\ \A n \in EntriesOf(name) : ~IsBlank(dotfile[n].value)

\* An entry sets its name.
LEMMA EntryIsSet ==
  ASSUME dotfile \in Seq(Lines), NEW name, NEW n \in EntriesOf(name)
  PROVE  dotfile[n].value # Unset
BY EntriesAreTyped, LenProperties, EnvAssumption DEF EntriesOf

\* With the address above every 0G_* line, verify does use the contract.
AddressAboveIsUsed ==
  phase = "run" /\ where = "here" /\ AddressIsRead
    /\ (\A name \in {"0G_CHAIN_RPC_URL", "0G_PRIVATE_KEY", VerifierAddress} : IsFilledIn(name))
    /\ (shell[VerifierAddress] # Unset => ~IsBlank(shell[VerifierAddress]))
    => VerifierMode = "evm"

\* VerifierAddressIsUsed fails for the place of a line only: once dotenv reads
\* the address, a file that is filled in selects the contract, unless the shell
\* has blanked the address.
THEOREM AddressIsUsedAbove == Spec => []AddressAboveIsUsed
<1>1. Init => AddressInv
  <2> SUFFICES ASSUME Init PROVE AddressInv
    OBVIOUS
  <2>1. EnvInv /\ env = shell /\ phase = "dotenv" /\ next = 1
    BY InitEnvInv DEF Init
  <2>2. \A n \in EntriesOf(VerifierAddress) : n \in Nat \ {0}
    BY <2>1, LenProperties DEF EnvInv, EntriesOf
  <2> QED BY <2>1, <2>2 DEF AddressInv
<1>2. AddressInv => AddressAboveIsUsed
  <2> SUFFICES ASSUME AddressInv, phase = "run", where = "here", AddressIsRead,
                      \A name \in {"0G_CHAIN_RPC_URL", "0G_PRIVATE_KEY", VerifierAddress} :
                        IsFilledIn(name),
                      shell[VerifierAddress] # Unset => ~IsBlank(shell[VerifierAddress])
               PROVE  VerifierMode = "evm"
    BY DEF AddressAboveIsUsed
  <2>1. next > Len(dotfile) /\ Len(dotfile) \in Nat /\ next \in Nat
    BY LenProperties DEF AddressInv, EnvInv, Merged, TypeOK
  <2>2. ASSUME NEW name \in {"0G_CHAIN_RPC_URL", "0G_PRIVATE_KEY"}
        PROVE  IsGiven(name)
    <3>1. name \in DigitNames /\ IsFilledIn(name)
      BY DEF DigitNames
    <3>2. PICK n \in EntriesOf(name) : n \in 1..Len(dotfile)
      BY <3>1, LenProperties DEF AddressInv, EnvInv, EntriesOf, IsFilledIn
    <3>3. PICK k \in EntriesOf(name) : env[name] = dotfile[k].value
      BY <2>1, <3>1, <3>2 DEF AddressInv
    <3> QED BY <3>1, <3>3, EntryIsSet DEF AddressInv, EnvInv, IsFilledIn, IsGiven
  <2>3. IsGiven(VerifierAddress)
    <3>1. env[VerifierAddress] # Unset
      BY DEF AddressInv
    <3>2. env[VerifierAddress] # shell[VerifierAddress] => ~IsBlank(env[VerifierAddress])
      BY DEF AddressInv, IsFilledIn
    <3> QED BY <3>1, <3>2 DEF IsGiven
  <2> QED BY <2>2, <2>3 DEF VerifierMode, VerifierAddress
<1> QED
  BY <1>1, <1>2, NextAddressInv, PTL DEF Spec
=============================================================================
