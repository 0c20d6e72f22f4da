------------------------- MODULE CommitmentRegistry -------------------------
(***************************************************************************)
(* What `verify` promises in EVM mode, whatever the chain, the RPC node    *)
(* and the other commands do: a refused submission is never registered, a  *)
(* call is applied at most once, the registry holds what calls have put    *)
(* there, and `accepted` is answered only for a call that has been         *)
(* applied.  A call whose outcome the user was never told may be applied   *)
(* at any later time.  Several commands may ask for one and the same call. *)
(***************************************************************************)
CONSTANTS
  Sessions,     \* the verify commands that have ever been run
  Submissions,  \* what an artifact may ask to register
  Valid(_),     \* the submissions that pass validation
  CommitmentOf(_),  \* what a submission registers
  NoSubmission

VARIABLES
  request,  \* the submission of each session, or NoSubmission
  outcome,  \* what each session has told its user so far
  applied,  \* the sessions whose call the registry has applied
  registry  \* the commitments that are registered

registryVars == <<request, outcome, applied, registry>>

Outcomes == {"none", "refused", "accepted", "rejected", "unknown"}

RegistryInit ==
  /\ request = [v \in Sessions |-> NoSubmission]
  /\ outcome = [v \in Sessions |-> "none"]
  /\ applied = {} /\ registry = {}

Ask(v, s) ==
  /\ request[v] = NoSubmission
  /\ request' = [request EXCEPT ![v] = s]
  /\ outcome' = [outcome EXCEPT ![v] = IF Valid(s) THEN "none" ELSE "refused"]
  /\ UNCHANGED <<applied, registry>>

\* One call, for all the sessions S that asked for it.
Apply(S, c) ==
  /\ S # {}
  /\ \A v \in S :
       /\ request[v] \in Submissions /\ Valid(request[v])
       /\ CommitmentOf(request[v]) = c
       /\ v \notin applied
       /\ outcome[v] \in {"none", "unknown"}
  /\ applied' = applied \cup S
  /\ registry' = registry \cup {c}
  /\ UNCHANGED <<request, outcome>>

\* "rejected": mined, but the transaction did not succeed.
Answer(v, o) ==
  /\ outcome[v] = "none"
  /\ o = "accepted" => v \in applied /\ CommitmentOf(request[v]) \in registry
  /\ o = "rejected" => v \notin applied /\ request[v] \in Submissions
  /\ outcome' = [outcome EXCEPT ![v] = o]
  /\ UNCHANGED <<request, applied, registry>>

RegistryNext ==
  \/ \E v \in Sessions :
       \/ \E s \in Submissions : Ask(v, s)
       \/ \E o \in {"accepted", "rejected", "unknown"} : Answer(v, o)
  \/ \E S \in SUBSET Sessions, s \in Submissions : Apply(S, CommitmentOf(s))

RegistrySpec == RegistryInit /\ [][RegistryNext]_registryVars
=============================================================================
