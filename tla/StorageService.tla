--------------------------- MODULE StorageService ---------------------------
(***************************************************************************)
(* What an upload to 0G Storage promises its caller, whatever connections, *)
(* the chain and other uploads do: nothing is held that is not paid for,   *)
(* `stored` is answered only when the requested finality is reached, and a *)
(* failed call may have been paid for and may have stored its payload.     *)
(***************************************************************************)
CONSTANTS
  Calls,
  Payloads,
  Levels,    \* the finality levels that calls may request
  NoRequest

VARIABLES
  request,  \* what each call asks for, or NoRequest
  packed, held, final, answer

serviceVars == <<request, packed, held, final, answer>>

Requests == [payload : Payloads, level : Levels]

\* What has been promised when a call with this request returns.
Reached(r) ==
  CASE r.level = "WaitNothing"       -> TRUE
    [] r.level = "TransactionPacked" -> r.payload \in held
    [] r.level = "FileFinalized"     -> r.payload \in final

ServiceInit ==
  /\ request \in [Calls -> Requests \cup {NoRequest}]
  /\ packed = {} /\ held = {} /\ final = {}
  /\ answer = [c \in Calls |-> "none"]

Ask(c, r) ==
  /\ request[c] = NoRequest /\ answer[c] = "none"
  /\ request' = [request EXCEPT ![c] = r]
  /\ UNCHANGED <<packed, held, final, answer>>

Pack(c) ==
  /\ request[c] \in Requests
  /\ packed' = packed \cup {request[c].payload}
  /\ UNCHANGED <<request, held, final, answer>>

Hold(p) ==
  /\ p \in packed
  /\ held' = held \cup {p}
  /\ UNCHANGED <<request, packed, final, answer>>

Finalize(p) ==
  /\ p \in held
  /\ final' = final \cup {p}
  /\ UNCHANGED <<request, packed, held, answer>>

Answer(c, a) ==
  /\ request[c] \in Requests /\ answer[c] = "none"
  /\ a = "stored" => Reached(request[c])
  /\ answer' = [answer EXCEPT ![c] = a]
  /\ UNCHANGED <<request, packed, held, final>>

ServiceNext ==
  \/ \E c \in Calls :
       \/ \E r \in Requests : Ask(c, r)
       \/ Pack(c) \/ Answer(c, "stored") \/ Answer(c, "failed")
  \/ \E p \in Payloads : Hold(p) \/ Finalize(p)

ServiceSpec == ServiceInit /\ [][ServiceNext]_serviceVars
=============================================================================
