---------------------------- MODULE ApprovalGate ----------------------------
(***************************************************************************)
(* What the gate in front of the prompts promises, with no records, writes *)
(* or windows.  At most one request is in flight.  It comes into flight    *)
(* when its call is made and never again; its caller hears nothing while   *)
(* it is there, and once it has ended is not left behind.  Where the       *)
(* storage area fails a caller may hear too early, or be lost.             *)
(* (approvals.ts:17-25, 121-191, docs/ARCHITECTURE.md:244-250.)            *)
(***************************************************************************)
CONSTANTS
  Requests,
  None

VARIABLES
  inFlight,   \* the request in flight, or None
  caller,     \* of each request: not asked yet, waiting, waiting in vain, or over
  reliable    \* no call of the storage area fails

promiseVars == <<inFlight, caller, reliable>>

Init ==
  /\ inFlight = None
  /\ caller = [r \in Requests |-> "idle"]
  /\ reliable \in BOOLEAN

Ask(r) ==
  /\ inFlight = None
  /\ caller[r] = "idle"
  /\ inFlight' = r
  /\ caller' = [caller EXCEPT ![r] = "waits"]

\* A decision, a lock, a disconnect, a window closed or not opened.
End ==
  /\ inFlight # None
  /\ inFlight' = None
  /\ UNCHANGED caller

Return(r) ==
  /\ caller[r] \in {"waits", "lost"}
  /\ inFlight # r \/ ~reliable
  /\ caller' = [caller EXCEPT ![r] = "back"]
  /\ UNCHANGED inFlight

Lose(r) ==
  /\ ~reliable
  /\ caller[r] = "waits"
  /\ inFlight # r
  /\ caller' = [caller EXCEPT ![r] = "lost"]
  /\ UNCHANGED inFlight

\* The call ends before it comes to the gate, or finds it taken.
Forgo(r) ==
  /\ caller[r] = "idle"
  /\ caller' = [caller EXCEPT ![r] = "back"]
  /\ UNCHANGED inFlight

\* The process starts over: nothing is in flight and nobody waits.
Restart ==
  /\ inFlight' = None
  /\ caller' \in [Requests -> {"idle", "back"}]
  /\ \A r \in Requests : caller'[r] = "idle" => caller[r] = "idle"

Next ==
  /\ End \/ Restart \/ \E r \in Requests : Ask(r) \/ Return(r) \/ Lose(r) \/ Forgo(r)
  /\ UNCHANGED reliable

Spec == Init /\ [][Next]_promiseVars
=============================================================================
