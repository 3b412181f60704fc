------------------------------ MODULE Approvals ------------------------------
(***************************************************************************)
(* The gate in front of every prompt (approvals.ts): one request in flight *)
(* at a time, its serializable half in chrome.storage.session for the      *)
(* approval window to read, and five ways for it to end: the user decides, *)
(* the window closes, the site is disconnected, the wallet locks, or the   *)
(* window cannot be opened.  The request in flight changes synchronously;  *)
(* the stored record follows by writes that nothing orders.  Which answer  *)
(* the user gave makes no difference to the gate and is left out.          *)
(*                                                                         *)
(* Two threads serve a request: "ask" is requestApproval, "settle" is the  *)
(* handler that took it out of flight.  The windows and the storage area   *)
(* are the browser's; of the approval page the model has what the gate     *)
(* sees.                                                                   *)
(***************************************************************************)
EXTENDS Naturals

CONSTANTS
  Requests,        \* the request ids; each is used once
  None             \* the null of the TypeScript code

ASSUME GateAssumption == None \notin Requests

VARIABLES
  inFlight,   \* the one pending request
  record,     \* chrome.storage.session "pendingApproval"
  persist,    \* each thread's storage call: where it is, and what it writes
  asker,      \* where requestApproval is
  owing,      \* requests a handler will settle when its cleanup is over
  settled,    \* requests whose decision promise has been settled
  window,     \* the request's approval window
  page,       \* what the page in that window got from getPendingRequest
  mishaps     \* what may go wrong in this behaviour of the browser's

gateVars == <<inFlight, record, persist, asker, owing, settled, window, page, mishaps>>

\* May a call of chrome.storage.session fail?
StorageFails == "storage" \in mishaps

\* May a window's close be heard before windows.create returns?
CloseBeatsOpen == "close" \in mishaps

Threads == Requests \X {"ask", "settle"}

Call == [pc: {"idle", "issued", "landed"}, writes: Requests \cup {None}]

IdleCall == [pc |-> "idle", writes |-> None]

\* "gone" is a call of a worker that has died.
AskerPC == {"new", "writing", "mending", "opening", "failing", "waiting", "done", "gone"}

GateTypeOK ==
  /\ inFlight \in Requests \cup {None}
  /\ record \in Requests \cup {None}
  /\ persist \in [Threads -> Call]
  /\ asker \in [Requests -> AskerPC]
  /\ owing \in SUBSET Requests
  /\ settled \in SUBSET Requests
  /\ window \in [Requests -> {"none", "open", "closed"}]
  /\ page \in [Requests -> {"none", "ready", "gone"}]
  /\ mishaps \in SUBSET {"storage", "close"}

GateInit ==
  /\ inFlight = None
  /\ record = None
  /\ persist = [t \in Threads |-> IdleCall]
  /\ asker = [r \in Requests |-> "new"]
  /\ owing = {}
  /\ settled = {}
  /\ window = [r \in Requests |-> "none"]
  /\ page = [r \in Requests |-> "none"]
  /\ mishaps \in SUBSET {"storage", "close"}

----------------------------------------------------------------------------
(* Writing the record.                                                     *)

Asks(r) == <<r, "ask">>

Settles(r) == <<r, "settle">>

Issue(t, value) == persist' = [persist EXCEPT ![t] = [pc |-> "issued", writes |-> value]]

Idle(t) == persist' = [persist EXCEPT ![t] = IdleCall]

\* The request leaves flight and thread t starts to bring the record in line.
ClearInFlight(t) ==
  /\ inFlight' = None
  /\ Issue(t, None)

WriteLands(t) ==
  /\ persist[t].pc = "issued"
  /\ record' = persist[t].writes
  /\ persist' = [persist EXCEPT ![t].pc = "landed"]
  /\ UNCHANGED <<inFlight, asker, owing, settled, window, page>>

\* Mutant of InLine: the record is written once, whatever happened meanwhile.
WrittenOnce(t) == persist[t].pc = "landed"

\* persistCurrent is over when what it wrote is still in flight ...
InLine(t) == persist[t].pc = "landed" /\ persist[t].writes = inFlight

\* ... and writes again when it is not.  The first write of a request is no loop.
WriteAgain(t) ==
  /\ persist[t].pc = "landed"
  /\ persist[t].writes # inFlight
  /\ \A r \in Requests : t = Asks(r) => asker[r] # "writing"
  /\ Issue(t, inFlight)
  /\ UNCHANGED <<inFlight, record, asker, owing, settled, window, page>>

----------------------------------------------------------------------------
(* requestApproval.                                                        *)

Ask(r) ==
  /\ asker[r] = "new"
  /\ inFlight = None
  /\ inFlight' = r
  /\ Issue(Asks(r), r)
  /\ asker' = [asker EXCEPT ![r] = "writing"]
  /\ UNCHANGED <<record, owing, settled, window, page>>

\* A request cancelled during its first write never opens a window.
AskWritten(r) ==
  /\ asker[r] = "writing"
  /\ persist[Asks(r)].pc = "landed"
  /\ IF inFlight = r
       THEN Idle(Asks(r)) /\ asker' = [asker EXCEPT ![r] = "opening"]
       ELSE Issue(Asks(r), inFlight) /\ asker' = [asker EXCEPT ![r] = "mending"]
  /\ UNCHANGED <<inFlight, record, owing, settled, window, page>>

AskMended(r) ==
  /\ asker[r] = "mending"
  /\ InLine(Asks(r))
  /\ Idle(Asks(r))
  /\ asker' = [asker EXCEPT ![r] = "waiting"]
  /\ UNCHANGED <<inFlight, record, owing, settled, window, page>>

WindowAppears(r) ==
  /\ asker[r] = "opening"
  /\ window[r] = "none"
  /\ window' = [window EXCEPT ![r] = "open"]
  /\ UNCHANGED <<inFlight, record, persist, asker, owing, settled, page>>

\* From here on the record in flight knows its window.
WindowKnown(r) ==
  /\ asker[r] = "opening"
  /\ window[r] # "none"
  /\ asker' = [asker EXCEPT ![r] = "waiting"]
  /\ UNCHANGED <<inFlight, record, persist, owing, settled, window, page>>

\* Mutant of WindowFails: whatever is in flight is cleared.
WindowFailsBlindly(r) ==
  /\ asker[r] = "opening"
  /\ window[r] = "none"
  /\ ClearInFlight(Asks(r))
  /\ asker' = [asker EXCEPT ![r] = "failing"]
  /\ UNCHANGED <<record, owing, settled, window, page>>

WindowFails(r) ==
  /\ asker[r] = "opening"
  /\ window[r] = "none"
  /\ IF inFlight = r
       THEN ClearInFlight(Asks(r)) /\ asker' = [asker EXCEPT ![r] = "failing"]
       ELSE /\ Issue(Asks(r), inFlight)
            /\ asker' = [asker EXCEPT ![r] = "mending"]
            /\ UNCHANGED inFlight
  /\ UNCHANGED <<record, owing, settled, window, page>>

AskFailed(r) ==
  /\ asker[r] = "failing"
  /\ InLine(Asks(r))
  /\ Idle(Asks(r))
  /\ asker' = [asker EXCEPT ![r] = "done"]
  /\ UNCHANGED <<inFlight, record, owing, settled, window, page>>

AskAnswered(r) ==
  /\ asker[r] = "waiting"
  /\ r \in settled
  /\ asker' = [asker EXCEPT ![r] = "done"]
  /\ UNCHANGED <<inFlight, record, persist, owing, settled, window, page>>

\* Nothing catches a storage failure: the call throws, and what it left stays.
AskThrows(r) ==
  /\ StorageFails
  /\ persist[Asks(r)].pc = "issued"
  /\ Idle(Asks(r))
  /\ asker' = [asker EXCEPT ![r] = "done"]
  /\ UNCHANGED <<inFlight, record, owing, settled, window, page>>

----------------------------------------------------------------------------
(* Ending the request in flight.                                           *)

\* clearInFlight first, and only then the answer.
Settle(r) ==
  /\ inFlight = r
  /\ ClearInFlight(Settles(r))
  /\ owing' = owing \cup {r}
  /\ UNCHANGED <<record, asker, settled, window, page>>

\* approvalResponse from the window.
UserDecides(r) ==
  /\ window[r] = "open"
  /\ page[r] = "ready"
  /\ Settle(r)

\* disconnect by the site, or revokeSite from the popup.
SiteDisconnects(r) == Settle(r)

\* A lock, a network switch or a rebuild: the answer first, then the cleanup.
RejectPending ==
  /\ inFlight # None
  /\ ClearInFlight(Settles(inFlight))
  /\ settled' = settled \cup {inFlight}
  /\ UNCHANGED <<record, asker, owing, window, page>>

\* Mutant of WindowClosed: the close is not heard.
WindowClosedUnheard(r) ==
  /\ window[r] = "open"
  /\ inFlight = r
  /\ CloseBeatsOpen \/ asker[r] # "opening"
  /\ window' = [window EXCEPT ![r] = "closed"]
  /\ page' = [page EXCEPT ![r] = "none"]
  /\ UNCHANGED <<inFlight, record, persist, asker, owing, settled>>

\* onRemoved, while it matters.  A window whose id is not recorded yet is nobody's.
WindowClosed(r) ==
  /\ window[r] = "open"
  /\ inFlight = r
  /\ CloseBeatsOpen \/ asker[r] # "opening"
  /\ window' = [window EXCEPT ![r] = "closed"]
  /\ page' = [page EXCEPT ![r] = "none"]
  /\ IF asker[r] = "waiting"
       THEN ClearInFlight(Settles(r)) /\ owing' = owing \cup {r}
       ELSE UNCHANGED <<inFlight, persist, owing>>
  /\ UNCHANGED <<record, asker, settled>>

\* The record is in line: deliver the answer, if it has not been.
SettleEnds(r) ==
  /\ InLine(Settles(r))
  /\ Idle(Settles(r))
  /\ owing' = owing \ {r}
  /\ settled' = settled \cup {r}
  /\ UNCHANGED <<inFlight, record, asker, window, page>>

SettleThrows(r) ==
  /\ StorageFails
  /\ persist[Settles(r)].pc = "issued"
  /\ Idle(Settles(r))
  /\ owing' = owing \ {r}
  /\ UNCHANGED <<inFlight, record, asker, settled, window, page>>

----------------------------------------------------------------------------
(* getPendingRequest, for the page in the window.  Once out of flight a    *)
(* request never returns, so the check before the read and the one after   *)
(* it come to one check where the read takes place.  A page that finds its *)
(* request out of flight can do nothing more and is left as it is.         *)

PageReads(r) ==
  /\ window[r] = "open"
  /\ page[r] = "none"
  /\ inFlight = r
  /\ page' = [page EXCEPT ![r] = IF record = r THEN "ready" ELSE "gone"]
  /\ UNCHANGED <<inFlight, record, persist, asker, owing, settled, window>>

----------------------------------------------------------------------------
(* The worker is killed.  The storage area and the windows outlive it; a   *)
(* write already issued may or may not be carried out.  An old window finds *)
(* no request of its id any more, and nothing it sends has an effect.      *)

WorkerDies ==
  /\ inFlight' = None
  /\ record' \in {record} \cup {persist[t].writes : t \in {u \in Threads : persist[u].pc = "issued"}}
  /\ persist' = [t \in Threads |-> IdleCall]
  /\ asker' = [r \in Requests |-> IF asker[r] = "new" THEN "new" ELSE "gone"]
  /\ owing' = {}
  /\ settled' = {}
  /\ window' = [r \in Requests |-> "none"]
  /\ page' = [r \in Requests |-> "none"]

AskSteps(r) ==
  \/ AskWritten(r) \/ AskMended(r) \/ WindowAppears(r) \/ WindowKnown(r)
  \/ WindowFails(r) \/ AskFailed(r) \/ AskAnswered(r) \/ AskThrows(r)

SettleSteps(r) == SettleEnds(r) \/ SettleThrows(r)

\* What goes on by itself, counting on the user to answer or close a window.
GateProgress ==
  \/ \E t \in Threads : WriteLands(t) \/ WriteAgain(t)
  \/ \E r \in Requests :
       AskSteps(r) \/ SettleSteps(r) \/ PageReads(r) \/ UserDecides(r) \/ WindowClosed(r)

GateSteps ==
  \/ GateProgress
  \/ \E r \in Requests : Ask(r) \/ SiteDisconnects(r)
  \/ RejectPending
  \/ WorkerDies

GateNext == GateSteps /\ UNCHANGED mishaps

GateSpec == GateInit /\ [][GateNext]_gateVars

GateFairSpec == GateSpec /\ WF_gateVars(GateProgress /\ UNCHANGED mishaps)

----------------------------------------------------------------------------
(* Properties.                                                             *)

Quiet == \A t \in Threads : persist[t].pc = "idle"

(* However the writes of overlapping requests, cancellations and cleanups  *)
(* land, once the last of them is over the stored record is the request in *)
(* flight, unless a storage call may fail; only a dead worker's record can *)
(* be left behind (approvals.ts:244-251).                                  *)
RecordFollows ==
  Quiet /\ ~StorageFails =>
           \/ record = inFlight
           \/ inFlight = None /\ \E r \in Requests : record = r /\ asker[r] = "gone"

\* Somebody is, or will be, awaiting the decision on r.
Awaits(r) == asker[r] \in {"writing", "mending", "opening", "waiting"}

(* No site waits for an answer nobody can give: its request is in flight,  *)
(* or answered, or some handler is on its way with the answer.  A storage  *)
(* call that fails can still lose the answer (approvals.ts:121-191,        *)
(* 254-263).                                                               *)
NoOrphan ==
  \A r \in Requests :
    Awaits(r) /\ ~StorageFails => inFlight = r \/ r \in settled \/ r \in owing

(* Where nothing goes wrong every request ends: the site's promise is      *)
(* settled or its call throws (approvals.ts:254-256).                      *)
Answered ==
  \A r \in Requests : Awaits(r) /\ mishaps = {} ~> asker[r] \in {"done", "gone"}

(* A window the user has closed leaves no request in flight                *)
(* (approvals.ts:185-187, 254-256).                                        *)
ClosedIsAnswered ==
  \A r \in Requests : window[r] = "closed" => inFlight # r

(* "Another approval is already open": the request that keeps others out   *)
(* is one whose caller still waits, while storage calls do not fail        *)
(* (approvals.ts:127-132).                                                 *)
BusyMeansOpen == inFlight # None /\ ~StorageFails => Awaits(inFlight)

\* What a request's caller is told, or may still hope for.
CallerOf(r) ==
  IF asker[r] = "new" THEN "idle"
  ELSE IF asker[r] \in {"done", "gone"} THEN "back"
  ELSE IF asker[r] = "failing" \/ inFlight = r \/ r \in settled \/ r \in owing THEN "waits"
  ELSE "lost"

Gate == INSTANCE ApprovalGate
          WITH caller <- [r \in Requests |-> CallerOf(r)], reliable <- ~StorageFails

(* The gate keeps its promise to the handlers behind it: whatever the      *)
(* writes, windows and cleanups of overlapping requests do, at most one is *)
(* in flight, none comes back into flight, nobody hears of a request that  *)
(* is still there, and nobody is left waiting for an answer that is not on *)
(* its way (approvals.ts:17-25, 121-191).                                  *)
GateKept == Gate!Spec
=============================================================================
