--------------------------- MODULE ApprovalsProofs ---------------------------
(***************************************************************************)
(* What the approval gate keeps for every set of requests: its types; that *)
(* the stored record ends up being the request in flight; that no site     *)
(* waits for an answer nobody can give; and the promise of ApprovalGate,   *)
(* which the requests of the sites rely on.  The record and the answers    *)
(* are proved for a storage area that does not fail: resolveApproval loses *)
(* the answer when the removal of the record throws (approvals.ts:204).    *)
(***************************************************************************)
EXTENDS Approvals, TLAPS

\* Asking and settling are threads of the gate.
LEMMA ThreadTypes ==
  ASSUME NEW r \in Requests
  PROVE  Asks(r) \in Threads /\ Settles(r) \in Threads
  BY DEF Asks, Settles, Threads

\* No two of them are the same thread.
LEMMA ThreadsApart ==
  ASSUME NEW r \in Requests, NEW s \in Requests
  PROVE  Asks(r) # Settles(s) /\ (Asks(r) = Asks(s) => r = s) /\ (Settles(r) = Settles(s) => r = s)
  BY DEF Asks, Settles

\* A write that is issued, or none, is typed.
LEMMA IssueTypes ==
  ASSUME GateTypeOK, NEW t \in Threads, NEW value \in Requests \cup {None},
         Issue(t, value) \/ Idle(t)
  PROVE  persist' \in [Threads -> Call]
  BY DEF GateTypeOK, Issue, Idle, Call, IdleCall

(* Every variable keeps its type.                                          *)
THEOREM GateTypes == GateSpec => []GateTypeOK
  <1>1. GateInit => GateTypeOK
    BY DEF GateInit, GateTypeOK, Call, IdleCall, AskerPC
  <1>2. GateTypeOK /\ [GateNext]_gateVars => GateTypeOK'
    <2> SUFFICES ASSUME GateTypeOK, [GateNext]_gateVars
                 PROVE  GateTypeOK'
      OBVIOUS
    <2>0. UNCHANGED mishaps
      BY DEF GateNext, gateVars
    <2> USE <2>0
    <2>1. ASSUME NEW t \in Threads, WriteLands(t) \/ WriteAgain(t)
          PROVE  GateTypeOK'
      <3>1. CASE WriteLands(t)
        BY <3>1 DEF WriteLands, GateTypeOK, Call
      <3>2. CASE WriteAgain(t)
        BY <3>2, IssueTypes DEF WriteAgain, GateTypeOK
      <3> QED BY <2>1, <3>1, <3>2
    <2>2. ASSUME NEW r \in Requests, Ask(r) \/ AskSteps(r)
          PROVE  GateTypeOK'
      <3>1. CASE Ask(r) \/ AskWritten(r) \/ AskMended(r) \/ AskFailed(r) \/ AskThrows(r) \/ WindowFails(r)
        <4>1. persist' \in [Threads -> Call]
          BY <3>1, IssueTypes, ThreadTypes
             DEF Ask, AskWritten, AskMended, AskFailed, AskThrows, WindowFails, ClearInFlight, GateTypeOK
        <4>2. asker' \in [Requests -> AskerPC] /\ inFlight' \in Requests \cup {None}
          BY <3>1 DEF Ask, AskWritten, AskMended, AskFailed, AskThrows, WindowFails, ClearInFlight,
             GateTypeOK, AskerPC
        <4> QED BY <3>1, <4>1, <4>2
                DEF Ask, AskWritten, AskMended, AskFailed, AskThrows, WindowFails, GateTypeOK
      <3>2. CASE WindowAppears(r) \/ WindowKnown(r) \/ AskAnswered(r)
        BY <3>2 DEF WindowAppears, WindowKnown, AskAnswered, GateTypeOK, AskerPC
      <3> QED BY <2>2, <3>1, <3>2 DEF AskSteps
    <2>3. ASSUME NEW r \in Requests, Settle(r)
          PROVE  GateTypeOK'
      BY <2>3, IssueTypes, ThreadTypes DEF Settle, ClearInFlight, GateTypeOK
    <2>4. ASSUME NEW r \in Requests, SettleSteps(r)
          PROVE  GateTypeOK'
      BY <2>4, IssueTypes, ThreadTypes DEF SettleSteps, SettleEnds, SettleThrows, GateTypeOK
    <2>5. ASSUME NEW r \in Requests, WindowClosed(r) \/ PageReads(r)
          PROVE  GateTypeOK'
      <3>1. CASE WindowClosed(r)
        <4>1. persist' \in [Threads -> Call]
          BY <3>1, IssueTypes, ThreadTypes DEF WindowClosed, ClearInFlight, GateTypeOK
        <4> QED BY <3>1, <4>1 DEF WindowClosed, ClearInFlight, GateTypeOK
      <3>2. CASE PageReads(r)
        BY <3>2 DEF PageReads, GateTypeOK
      <3> QED BY <2>5, <3>1, <3>2
    <2>6. CASE RejectPending
      BY <2>6, IssueTypes, ThreadTypes DEF RejectPending, ClearInFlight, GateTypeOK
    <2>7. CASE WorkerDies
      BY <2>7 DEF WorkerDies, GateTypeOK, Call, IdleCall, AskerPC
    <2>8. CASE UNCHANGED gateVars
      BY <2>8 DEF gateVars, GateTypeOK
    <2> QED BY <2>1, <2>2, <2>3, <2>4, <2>5, <2>6, <2>7, <2>8
            DEF GateNext, GateSteps, GateProgress, UserDecides, SiteDisconnects
  <1> QED BY <1>1, <1>2, PTL DEF GateSpec
----------------------------------------------------------------------------
(* The record.  RecordFollows speaks of the quiet states only.  What makes *)
(* it inductive is who will put a misplaced record right: a write not yet  *)
(* landed, or one that has landed and will find that it wrote the wrong    *)
(* thing.                                                                  *)

WillMend(t) ==
  \/ persist[t].pc = "issued"
  \/ persist[t].pc = "landed" /\ persist[t].writes # inFlight

Abandoned == inFlight = None /\ \E r \in Requests : record = r /\ asker[r] = "gone"

RecordInv ==
  /\ record = inFlight \/ Abandoned \/ \E t \in Threads : WillMend(t)
  /\ \A r \in Requests : asker[r] = "writing" => persist[Asks(r)].writes = r

\* A write has just been issued: it is the one that will mend.
LEMMA IssueMends ==
  ASSUME GateTypeOK, NEW t \in Threads, NEW value \in Requests \cup {None}, Issue(t, value)
  PROVE  /\ \E u \in Threads : WillMend(u)'
         /\ \A u \in Threads : u # t => persist'[u] = persist[u]
         /\ persist'[t].writes = value
  BY DEF GateTypeOK, Issue, WillMend

\* Whether storage may fail is settled from the start.
LEMMA FailureKept ==
  ASSUME [GateNext]_gateVars
  PROVE  StorageFails' <=> StorageFails
  BY DEF GateNext, gateVars, StorageFails

\* A thread that has nothing to mend may fall idle.
LEMMA IdleLeaves ==
  ASSUME GateTypeOK, RecordInv, NEW t \in Threads, ~WillMend(t), Idle(t),
         UNCHANGED <<inFlight, record>>,
         \A r \in Requests : asker[r] = "gone" => asker'[r] = "gone"
  PROVE  /\ record' = inFlight' \/ Abandoned' \/ \E u \in Threads : WillMend(u)'
         /\ \A u \in Threads : u # t => persist'[u] = persist[u]
  <1>1. \A u \in Threads : u # t => persist'[u] = persist[u]
    BY DEF Idle, GateTypeOK
  <1>2. CASE record = inFlight
    BY <1>1, <1>2
  <1>3. CASE Abandoned
    BY <1>1, <1>3 DEF Abandoned
  <1>4. CASE \E u \in Threads : WillMend(u)
    BY <1>1, <1>4 DEF WillMend
  <1> QED BY <1>1, <1>2, <1>3, <1>4 DEF RecordInv

\* Whatever leaves the writes and what they are compared with alone.
LEMMA RecordKept ==
  ASSUME RecordInv, UNCHANGED <<inFlight, record, persist>>,
         \A r \in Requests : asker[r] = "gone" => asker'[r] = "gone",
         \A r \in Requests : asker'[r] = "writing" => asker[r] = "writing"
  PROVE  RecordInv'
  <1>1. \A t \in Threads : WillMend(t) => WillMend(t)'
    BY DEF WillMend
  <1>2. Abandoned => Abandoned'
    BY DEF Abandoned
  <1>3. record' = inFlight' \/ Abandoned' \/ \E t \in Threads : WillMend(t)'
    BY <1>1, <1>2 DEF RecordInv
  <1>4. \A r \in Requests : asker'[r] = "writing" => persist'[Asks(r)].writes = r
    BY DEF RecordInv
  <1> QED BY <1>3, <1>4 DEF RecordInv

\* Nothing names a request that has not been made.
NewUnknown ==
  \A r \in Requests :
    asker[r] = "new" => /\ inFlight # r /\ record # r
                        /\ \A t \in Threads : persist[t].writes # r

\* A step that makes r no longer new, or writes what was in flight or nothing.
LEMMA NewUnknownKept ==
  ASSUME GateTypeOK, NewUnknown,
         \A r \in Requests : asker'[r] = "new" =>
             /\ asker[r] = "new"
             /\ inFlight' = inFlight \/ inFlight' # r
             /\ record' = record \/ record' # r
             /\ \A t \in Threads : persist'[t].writes \in {persist[t].writes, inFlight, None}
                                      \/ persist'[t].writes # r
  PROVE  NewUnknown'
  BY GateAssumption DEF NewUnknown

\* The gate knows nothing of a request that has not been made.
LEMMA NewStaysUnknown == GateSpec => []NewUnknown
  <1>1. GateInit => NewUnknown
    BY GateAssumption DEF GateInit, NewUnknown, IdleCall
  <1>2. GateTypeOK /\ NewUnknown /\ [GateNext]_gateVars => NewUnknown'
    <2> SUFFICES ASSUME GateTypeOK, NewUnknown, [GateNext]_gateVars
                 PROVE  NewUnknown'
      OBVIOUS
    <2>0. \A t \in Threads, r \in Requests : persist[t].writes = r => asker[r] # "new"
      BY DEF NewUnknown
    <2>1. ASSUME NEW t \in Threads, WriteLands(t)
          PROVE  NewUnknown'
      <3>1. /\ record' = persist[t].writes
            /\ \A u \in Threads : persist'[u].writes = persist[u].writes
            /\ UNCHANGED <<inFlight, asker>>
        BY <2>1 DEF WriteLands, GateTypeOK, Call
      <3> QED BY <2>0, <3>1 DEF NewUnknown
    <2>2. ASSUME NEW r \in Requests, Ask(r)
          PROVE  NewUnknown'
      <3>1. /\ asker' = [asker EXCEPT ![r] = "writing"]
            /\ inFlight' = r /\ record' = record
            /\ Issue(Asks(r), r)
        BY <2>2 DEF Ask
      <3>2. \A t \in Threads : persist'[t].writes \in {persist[t].writes, r}
        BY <3>1, ThreadTypes DEF Issue, GateTypeOK
      <3>3. \A s \in Requests : asker'[s] = "new" => s # r /\ asker[s] = "new"
        BY <3>1 DEF GateTypeOK
      <3> QED BY <3>1, <3>2, <3>3, NewUnknownKept
    <2>3. ASSUME NEW t \in Threads, NEW value \in {inFlight, None},
                 Issue(t, value) \/ Idle(t) \/ UNCHANGED persist,
                 inFlight' \in {inFlight, None}, record' = record,
                 \A s \in Requests : asker'[s] = "new" => asker[s] = "new"
          PROVE  NewUnknown'
      <3>1. \A u \in Threads : persist'[u].writes \in {persist[u].writes, inFlight, None}
        BY <2>3 DEF Issue, Idle, IdleCall, GateTypeOK
      <3> QED BY <2>3, <3>1, NewUnknownKept, GateAssumption
    <2>4. ASSUME NEW t \in Threads, WriteAgain(t)
          PROVE  NewUnknown'
      BY <2>3, <2>4 DEF WriteAgain
    <2>5. ASSUME NEW r \in Requests, AskSteps(r)
          PROVE  NewUnknown'
      <3>1. \A s \in Requests : asker'[s] = "new" => asker[s] = "new"
        BY <2>5 DEF AskSteps, AskWritten, AskMended, WindowAppears, WindowKnown, WindowFails,
           AskFailed, AskAnswered, AskThrows, GateTypeOK
      <3>2. /\ inFlight' \in {inFlight, None} /\ record' = record
            /\ \E value \in {inFlight, None} :
                 Issue(Asks(r), value) \/ Idle(Asks(r)) \/ UNCHANGED persist
        BY <2>5 DEF AskSteps, AskWritten, AskMended, WindowAppears, WindowKnown, WindowFails,
           AskFailed, AskAnswered, AskThrows, ClearInFlight
      <3> QED BY <2>3, <3>1, <3>2, ThreadTypes
    <2>6. ASSUME NEW r \in Requests,
                 Settle(r) \/ SettleSteps(r) \/ WindowClosed(r) \/ PageReads(r)
          PROVE  NewUnknown'
      <3>1. asker' = asker
        BY <2>6 DEF Settle, SettleSteps, SettleEnds, SettleThrows, WindowClosed, PageReads
      <3>2. /\ inFlight' \in {inFlight, None} /\ record' = record
            /\ \E value \in {inFlight, None} :
                 Issue(Settles(r), value) \/ Idle(Settles(r)) \/ UNCHANGED persist
        BY <2>6 DEF Settle, SettleSteps, SettleEnds, SettleThrows, WindowClosed, PageReads,
           ClearInFlight
      <3> QED BY <2>3, <3>1, <3>2, ThreadTypes
    <2>7. CASE RejectPending
      <3>1. inFlight \in Requests /\ Settles(inFlight) \in Threads
        BY <2>7, ThreadTypes DEF RejectPending, GateTypeOK
      <3> QED BY <2>3, <2>7, <3>1 DEF RejectPending, ClearInFlight
    <2>8. CASE WorkerDies
      <3>1. /\ inFlight' = None
            /\ persist' = [t \in Threads |-> IdleCall]
            /\ record' = record \/ \E t \in Threads : record' = persist[t].writes
            /\ \A r \in Requests : asker'[r] = "new" => asker[r] = "new"
        BY <2>8 DEF WorkerDies
      <3>2. \A r \in Requests : asker[r] = "new" => record' # r
        BY <2>0, <3>1 DEF NewUnknown
      <3> QED BY <3>1, <3>2, GateAssumption DEF NewUnknown, IdleCall
    <2>9. CASE UNCHANGED gateVars
      BY <2>9 DEF gateVars, NewUnknown
    <2> QED BY <2>1, <2>2, <2>4, <2>5, <2>6, <2>7, <2>8, <2>9
            DEF GateNext, GateSteps, GateProgress, UserDecides, SiteDisconnects
  <1> QED BY <1>1, <1>2, GateTypes, PTL DEF GateSpec

(* However the writes of overlapping requests, cancellations and cleanups  *)
(* land, the stored record ends up being the request in flight             *)
(* (approvals.ts:244-251).                                                 *)
THEOREM RecordIsFollowed == GateSpec => []RecordFollows
  <1> DEFINE Inv == StorageFails \/ RecordInv
  <1>1. GateInit => Inv
    BY DEF GateInit, RecordInv
  <1>2. GateTypeOK /\ NewUnknown' /\ Inv /\ [GateNext]_gateVars => Inv'
    <2> SUFFICES ASSUME GateTypeOK, NewUnknown', ~StorageFails, RecordInv, [GateNext]_gateVars
                 PROVE  RecordInv'
      BY FailureKept
    <2>1. ASSUME NEW t \in Threads, WriteLands(t)
          PROVE  RecordInv'
      <3>1. /\ record' = persist[t].writes
            /\ persist'[t].pc = "landed"
            /\ persist'[t].writes = persist[t].writes
            /\ \A u \in Threads : persist'[u].writes = persist[u].writes
            /\ UNCHANGED <<inFlight, asker>>
        BY <2>1 DEF WriteLands, GateTypeOK, Call
      <3>2. record' = inFlight' \/ WillMend(t)'
        BY <3>1 DEF WillMend
      <3>3. \A r \in Requests : asker'[r] = "writing" => persist'[Asks(r)].writes = r
        BY <3>1, ThreadTypes DEF RecordInv
      <3> QED BY <3>2, <3>3 DEF RecordInv
    <2>2. ASSUME NEW t \in Threads, WriteAgain(t)
          PROVE  RecordInv'
      <3>1. Issue(t, inFlight) /\ UNCHANGED asker
        BY <2>2 DEF WriteAgain
      <3>2. \A r \in Requests : asker[r] = "writing" => Asks(r) # t
        BY <2>2 DEF WriteAgain
      <3> QED BY <3>1, <3>2, IssueMends, ThreadTypes DEF RecordInv, GateTypeOK
    <2>3. ASSUME NEW r \in Requests, Ask(r)
          PROVE  RecordInv'
      <3>1. Issue(Asks(r), r) /\ asker' = [asker EXCEPT ![r] = "writing"]
        BY <2>3 DEF Ask
      <3>2. \A s \in Requests : asker'[s] = "writing" => s = r \/ asker[s] = "writing"
        BY <3>1 DEF GateTypeOK
      <3> QED BY <3>1, <3>2, IssueMends, ThreadTypes, ThreadsApart DEF RecordInv
    <2>4. ASSUME NEW r \in Requests, AskWritten(r)
          PROVE  RecordInv'
      <3>1. /\ asker'[r] # "writing"
            /\ \A s \in Requests : /\ asker[s] = "gone" => asker'[s] = "gone"
                                   /\ asker'[s] = "writing" => asker[s] = "writing" /\ s # r
            /\ UNCHANGED <<inFlight, record>>
        BY <2>4 DEF AskWritten, GateTypeOK
      <3>2. CASE inFlight = r
        <4>1. ~WillMend(Asks(r)) /\ Idle(Asks(r))
          BY <2>4, <3>2 DEF AskWritten, WillMend, RecordInv
        <4> QED BY <3>1, <4>1, IdleLeaves, ThreadTypes, ThreadsApart DEF RecordInv
      <3>3. CASE inFlight # r
        <4>1. Issue(Asks(r), inFlight)
          BY <2>4, <3>3 DEF AskWritten
        <4> QED BY <3>1, <4>1, IssueMends, ThreadTypes, ThreadsApart DEF RecordInv, GateTypeOK
      <3> QED BY <3>2, <3>3
    <2>5. ASSUME NEW r \in Requests, AskMended(r) \/ AskFailed(r)
          PROVE  RecordInv'
      <3>1. /\ ~WillMend(Asks(r)) /\ Idle(Asks(r))
            /\ UNCHANGED <<inFlight, record>>
        BY <2>5 DEF AskMended, AskFailed, InLine, WillMend
      <3>2. \A s \in Requests : /\ asker[s] = "gone" => asker'[s] = "gone"
                                /\ asker'[s] = "writing" => asker[s] = "writing" /\ s # r
        BY <2>5 DEF AskMended, AskFailed, GateTypeOK
      <3> QED BY <3>1, <3>2, IdleLeaves, ThreadTypes, ThreadsApart DEF RecordInv
    <2>6. ASSUME NEW r \in Requests, WindowAppears(r) \/ WindowKnown(r) \/ AskAnswered(r) \/ PageReads(r)
          PROVE  RecordInv'
      BY <2>6, RecordKept DEF WindowAppears, WindowKnown, AskAnswered, PageReads, GateTypeOK
    <2>7. ASSUME NEW r \in Requests, WindowFails(r)
          PROVE  RecordInv'
      <3>1. \E value \in Requests \cup {None} : Issue(Asks(r), value)
        BY <2>7 DEF WindowFails, ClearInFlight, GateTypeOK
      <3>2. \A s \in Requests : asker'[s] = "writing" => asker[s] = "writing" /\ s # r
        BY <2>7 DEF WindowFails, GateTypeOK
      <3> QED BY <3>1, <3>2, IssueMends, ThreadTypes, ThreadsApart DEF RecordInv
    <2>8. ASSUME NEW r \in Requests, Issue(Settles(r), None), UNCHANGED asker
          PROVE  RecordInv'
      BY <2>8, IssueMends, ThreadTypes, ThreadsApart DEF RecordInv
    <2>9. ASSUME NEW r \in Requests, Settle(r)
          PROVE  RecordInv'
      BY <2>8, <2>9 DEF Settle, ClearInFlight
    <2>10. ASSUME NEW r \in Requests, WindowClosed(r)
           PROVE  RecordInv'
      <3>1. CASE asker[r] = "waiting"
        BY <2>8, <2>10, <3>1 DEF WindowClosed, ClearInFlight
      <3>2. CASE asker[r] # "waiting"
        BY <2>10, <3>2, RecordKept DEF WindowClosed
      <3> QED BY <3>1, <3>2
    <2>11. CASE RejectPending
      BY <2>8, <2>11 DEF RejectPending, ClearInFlight, GateTypeOK
    <2>12. ASSUME NEW r \in Requests, SettleEnds(r)
           PROVE  RecordInv'
      <3>1. /\ ~WillMend(Settles(r)) /\ Idle(Settles(r))
            /\ UNCHANGED <<inFlight, record, asker>>
        BY <2>12 DEF SettleEnds, InLine, WillMend
      <3> QED BY <3>1, IdleLeaves, ThreadTypes, ThreadsApart DEF RecordInv
    <2>13. CASE WorkerDies
      <3>1. \A r \in Requests : asker'[r] \in {"new", "gone"}
        BY <2>13 DEF WorkerDies
      <3>2. inFlight' = None /\ record' \in Requests \cup {None}
        BY <2>13 DEF WorkerDies, GateTypeOK, Call
      <3>3. CASE record' = None
        BY <3>1, <3>2, <3>3 DEF RecordInv
      <3>4. ASSUME NEW r \in Requests, record' = r
            PROVE  asker'[r] = "gone"
        BY <3>1, <3>4 DEF NewUnknown
      <3> QED BY <3>1, <3>2, <3>3, <3>4 DEF RecordInv, Abandoned
    <2>14. CASE UNCHANGED gateVars
      BY <2>14, RecordKept DEF gateVars
    <2> QED BY <2>1, <2>2, <2>3, <2>4, <2>5, <2>6, <2>7, <2>9, <2>10, <2>11, <2>12, <2>13, <2>14
            DEF GateNext, GateSteps, GateProgress, AskSteps, SettleSteps, AskThrows, SettleThrows,
                UserDecides, SiteDisconnects
  <1>3. Inv => RecordFollows
    BY DEF RecordInv, RecordFollows, Quiet, WillMend, Abandoned
  <1> QED BY <1>1, <1>2, <1>3, GateTypes, NewStaysUnknown, PTL DEF GateSpec
----------------------------------------------------------------------------
(* The answer.  What is in flight is awaited, unanswered and nobody else's *)
(* to settle; and a handler that is at work has an answer to give or has   *)
(* given it.  Only with a storage area that does not fail is everybody     *)
(* who waits in flight or about to hear.                                   *)

\* One request's part of the invariant.
RequestInv(r) ==
  /\ Awaits(r) /\ ~StorageFails => inFlight = r \/ r \in settled \/ r \in owing
  /\ inFlight = r => /\ asker[r] \in {"writing", "opening", "waiting", "done"}
                     /\ asker[r] = "done" => StorageFails
                     /\ r \notin settled
                     /\ persist[Settles(r)].pc = "idle"
  /\ asker[r] = "new" => r \notin settled /\ persist[Settles(r)].pc = "idle"
  /\ persist[Settles(r)].pc # "idle" => r \in settled \/ r \in owing
  /\ persist[Asks(r)].pc # "idle" => asker[r] \in {"writing", "mending", "failing"}

GateInv == \A r \in Requests : RequestInv(r)

\* The invariant is inductive.
THEOREM GateInvariant == GateSpec => []GateInv
  <1>1. GateInit => GateInv
    <2> SUFFICES ASSUME GateInit, NEW r \in Requests
                 PROVE  RequestInv(r)
      BY DEF GateInv
    <2>1. persist[Settles(r)].pc = "idle" /\ persist[Asks(r)].pc = "idle"
      BY ThreadTypes DEF GateInit, IdleCall
    <2>2. asker[r] = "new" /\ settled = {} /\ inFlight # r
      BY GateAssumption DEF GateInit
    <2> QED BY <2>1, <2>2 DEF RequestInv, Awaits
  <1>2. GateTypeOK /\ GateInv /\ [GateNext]_gateVars => GateInv'
    <2> SUFFICES ASSUME GateTypeOK, GateInv, [GateNext]_gateVars, NEW s \in Requests
                 PROVE  RequestInv(s)'
      BY DEF GateInv
    <2>0. RequestInv(s) /\ (StorageFails' <=> StorageFails)
      BY FailureKept DEF GateInv
    <2> USE DEF RequestInv, Awaits
    <2>1. ASSUME NEW t \in Threads, WriteLands(t) \/ WriteAgain(t)
          PROVE  RequestInv(s)'
      <3>1. \A u \in Threads : persist[u].pc = "idle" <=> persist'[u].pc = "idle"
        BY <2>1 DEF WriteLands, WriteAgain, Issue, GateTypeOK, Call
      <3> QED BY <2>0, <2>1, <3>1, ThreadTypes DEF WriteLands, WriteAgain
    <2>2. ASSUME NEW r \in Requests, Ask(r)
          PROVE  RequestInv(s)'
      <3>1. /\ persist'[Settles(s)] = persist[Settles(s)]
            /\ s # r => persist'[Asks(s)] = persist[Asks(s)]
        BY <2>2, ThreadTypes, ThreadsApart DEF Ask, Issue, GateTypeOK
      <3> QED BY <2>0, <2>2, <3>1, GateAssumption DEF Ask, GateTypeOK
    <2>3. ASSUME NEW r \in Requests, AskSteps(r)
          PROVE  RequestInv(s)'
      <3>1. /\ persist'[Settles(s)] = persist[Settles(s)]
            /\ s # r => persist'[Asks(s)] = persist[Asks(s)]
        BY <2>3, ThreadTypes, ThreadsApart
           DEF AskSteps, AskWritten, AskMended, WindowAppears, WindowKnown, WindowFails, AskFailed,
               AskAnswered, AskThrows, ClearInFlight, Issue, Idle, GateTypeOK
      <3>2. /\ inFlight' = inFlight \/ (inFlight = r /\ inFlight' = None /\ asker'[r] = "failing")
            /\ UNCHANGED <<owing, settled>>
            /\ s # r => asker'[s] = asker[s]
        BY <2>3 DEF AskSteps, AskWritten, AskMended, WindowAppears, WindowKnown, WindowFails,
           AskFailed, AskAnswered, AskThrows, ClearInFlight, GateTypeOK
      <3>3. CASE s # r
        BY <2>0, <3>1, <3>2, <3>3, GateAssumption
      <3>4. persist'[Asks(r)].pc # "idle" => asker'[r] \in {"writing", "mending", "failing"}
        <4>1. CASE AskWritten(r) \/ WindowFails(r)
          BY <4>1, ThreadTypes DEF AskWritten, WindowFails, ClearInFlight, Idle, IdleCall, GateTypeOK
        <4>2. CASE AskMended(r) \/ AskFailed(r) \/ AskThrows(r)
          BY <4>2, ThreadTypes DEF AskMended, AskFailed, AskThrows, Idle, IdleCall, GateTypeOK
        <4>3. CASE WindowAppears(r) \/ WindowKnown(r) \/ AskAnswered(r)
          BY <4>3 DEF WindowAppears, WindowKnown, AskAnswered, GateInv, GateTypeOK
        <4> QED BY <2>3, <4>1, <4>2, <4>3 DEF AskSteps
      <3>5. CASE s = r
        <4>1. /\ Awaits(r)' => Awaits(r)
              /\ asker'[r] \in {"writing", "opening", "waiting", "done"} \/ inFlight' # r
              /\ inFlight' = r /\ asker'[r] = "done" => StorageFails
              /\ asker'[r] # "new"
          BY <2>0, <2>3, <3>5, GateAssumption
             DEF AskSteps, AskWritten, AskMended, WindowAppears, WindowKnown, WindowFails, AskFailed,
                 AskAnswered, AskThrows, ClearInFlight, GateTypeOK
        <4>2. inFlight = r /\ inFlight' = None => asker'[r] = "failing"
          BY <3>2, GateAssumption
        <4> QED BY <2>0, <3>1, <3>2, <3>4, <3>5, <4>1, <4>2
      <3> QED BY <3>3, <3>5
    <2>4. ASSUME NEW r \in Requests, inFlight = r, ClearInFlight(Settles(r)),
                 UNCHANGED asker, settled \subseteq settled', settled' \subseteq settled \cup {r},
                 owing \subseteq owing', r \in owing' \cup settled'
          PROVE  RequestInv(s)'
      <3>1. /\ inFlight' = None /\ (s # r => persist'[Settles(s)] = persist[Settles(s)])
            /\ persist'[Asks(s)] = persist[Asks(s)]
        BY <2>4, ThreadTypes, ThreadsApart DEF ClearInFlight, Issue, GateTypeOK
      <3>2. asker[r] # "new"
        BY <2>4 DEF GateInv
      <3> QED BY <2>0, <2>4, <3>1, <3>2, GateAssumption
    <2>5. ASSUME NEW r \in Requests, Settle(r)
          PROVE  RequestInv(s)'
      BY <2>4, <2>5 DEF Settle
    <2>6. ASSUME NEW r \in Requests, WindowClosed(r)
          PROVE  RequestInv(s)'
      <3>1. CASE asker[r] = "waiting"
        BY <2>4, <2>6, <3>1 DEF WindowClosed
      <3>2. CASE asker[r] # "waiting"
        BY <2>0, <2>6, <3>2 DEF WindowClosed
      <3> QED BY <3>1, <3>2
    <2>7. CASE RejectPending
      BY <2>4, <2>7 DEF RejectPending, GateTypeOK
    <2>8. ASSUME NEW r \in Requests, SettleSteps(r)
          PROVE  RequestInv(s)'
      <3>1. /\ persist[Settles(r)].pc # "idle"
            /\ owing' = owing \ {r}
            /\ settled' = settled \cup {r} \/ (StorageFails /\ settled' = settled)
            /\ UNCHANGED <<inFlight, asker>>
        BY <2>8 DEF SettleSteps, SettleEnds, SettleThrows, InLine
      <3>2. /\ persist'[Settles(r)].pc = "idle"
            /\ s # r => persist'[Settles(s)] = persist[Settles(s)]
            /\ persist'[Asks(s)] = persist[Asks(s)]
        BY <2>8, ThreadTypes, ThreadsApart DEF SettleSteps, SettleEnds, SettleThrows, Idle, IdleCall, GateTypeOK
      <3> QED BY <2>0, <3>1, <3>2
    <2>9. ASSUME NEW r \in Requests, PageReads(r)
          PROVE  RequestInv(s)'
      BY <2>0, <2>9 DEF PageReads
    <2>10. CASE WorkerDies
      BY <2>10, ThreadTypes, GateAssumption DEF WorkerDies, IdleCall
    <2>11. CASE UNCHANGED gateVars
      BY <2>0, <2>11 DEF gateVars
    <2> QED BY <2>1, <2>2, <2>3, <2>5, <2>6, <2>7, <2>8, <2>9, <2>10, <2>11
            DEF GateNext, GateSteps, GateProgress, UserDecides, SiteDisconnects
  <1> QED BY <1>1, <1>2, GateTypes, PTL DEF GateSpec

(* No site waits for an answer nobody can give, while storage does not     *)
(* fail (approvals.ts:121-191).                                            *)
THEOREM NobodyIsOrphaned ==
  GateSpec => []NoOrphan
  <1>1. GateInv => NoOrphan
    BY DEF GateInv, RequestInv, NoOrphan
  <1> QED BY <1>1, GateInvariant, PTL

(* The request that keeps the others out is still awaited, while storage   *)
(* does not fail (approvals.ts:127-132).                                   *)
THEOREM BusyGateIsOpen ==
  GateSpec => []BusyMeansOpen
  <1>1. GateTypeOK /\ GateInv => BusyMeansOpen
    BY DEF GateInv, RequestInv, GateTypeOK, BusyMeansOpen, Awaits
  <1> QED BY <1>1, GateTypes, GateInvariant, PTL

----------------------------------------------------------------------------
(* The promise.  A step of the gate is one of ApprovalGate's, or one of    *)
(* the record, the windows and the pages, of which it knows nothing.       *)

PromiseStep == [Gate!Next]_(Gate!promiseVars)

\* A caller is one of four kinds.
LEMMA CallerKinds ==
  ASSUME NEW r \in Requests
  PROVE  /\ CallerOf(r) \in {"idle", "waits", "lost", "back"}
         /\ CallerOf(r) = "idle" <=> asker[r] = "new"
         /\ CallerOf(r) = "back" <=> asker[r] \in {"done", "gone"}
  BY DEF CallerOf

\* Nobody comes or goes, and the request in flight stays or ends.
LEMMA PromiseRests ==
  ASSUME UNCHANGED mishaps, \A r \in Requests : CallerOf(r)' = CallerOf(r),
         inFlight' = inFlight \/ (inFlight # None /\ inFlight' = None)
  PROVE  PromiseStep
  <1>1. /\ UNCHANGED [r \in Requests |-> CallerOf(r)]
        /\ (~StorageFails)' = ~StorageFails
    BY DEF StorageFails
  <1>2. CASE inFlight' = inFlight
    BY <1>1, <1>2 DEF PromiseStep, Gate!promiseVars
  <1>3. CASE inFlight # None /\ inFlight' = None
    BY <1>1, <1>3 DEF PromiseStep, Gate!Next, Gate!End
  <1> QED BY <1>2, <1>3

\* One caller goes from one place to another.
LEMMA PromiseMoves ==
  ASSUME UNCHANGED mishaps, NEW r \in Requests, NEW from, NEW to, CallerOf(r) = from, CallerOf(r)' = to,
         \A s \in Requests \ {r} : CallerOf(s)' = CallerOf(s),
         \/ from = "idle" /\ to = "waits" /\ inFlight = None /\ inFlight' = r
         \/ inFlight' = inFlight /\ from = "waits" /\ to \in {"back", "lost"} /\ inFlight # r
              /\ (to = "lost" => StorageFails)
         \/ inFlight' = inFlight /\ from \in {"waits", "lost"} /\ to = "back" /\ (inFlight # r \/ StorageFails)
  PROVE  PromiseStep
  <1> DEFINE callers == [s \in Requests |-> CallerOf(s)]
  <1>1. callers[r] = from
    OBVIOUS
  <1>2. callers' = [callers EXCEPT ![r] = to]
    OBVIOUS
  <1>3. (~StorageFails)' = ~StorageFails
    BY DEF StorageFails
  <1>4. Gate!Ask(r) \/ Gate!Return(r) \/ Gate!Lose(r)
    BY <1>1, <1>2 DEF Gate!Ask, Gate!Return, Gate!Lose
  <1> QED BY <1>3, <1>4 DEF PromiseStep, Gate!Next

\* Every step of the gate keeps the promise.
LEMMA PromiseKept ==
  ASSUME GateTypeOK, GateInv, GateInv', [GateNext]_gateVars
  PROVE  PromiseStep
  <1>0. UNCHANGED mishaps
    BY DEF GateNext, gateVars
  <1>1. ASSUME UNCHANGED <<inFlight, asker, owing, settled>>
        PROVE  PromiseStep
    BY <1>0, <1>1, PromiseRests DEF CallerOf, Awaits
  <1>2. ASSUME NEW r \in Requests, Ask(r)
        PROVE  PromiseStep
    <2>1. /\ asker[r] = "new" /\ asker' = [asker EXCEPT ![r] = "writing"]
          /\ inFlight = None /\ inFlight' = r /\ UNCHANGED <<owing, settled>>
      BY <1>2 DEF Ask
    <2>2. CallerOf(r) = "idle" /\ CallerOf(r)' = "waits"
      BY <2>1 DEF CallerOf, Awaits, GateTypeOK
    <2>3. \A s \in Requests \ {r} : CallerOf(s)' = CallerOf(s)
      BY <2>1, GateAssumption DEF CallerOf, Awaits, GateTypeOK
    <2> QED BY <1>0, <2>1, <2>2, <2>3, PromiseMoves
  <1>3. ASSUME NEW r \in Requests, AskWritten(r) \/ AskMended(r) \/ WindowKnown(r) \/ WindowFails(r)
        PROVE  PromiseStep
    <2>1. UNCHANGED <<owing, settled>> /\ \A s \in Requests \ {r} : asker'[s] = asker[s]
      BY <1>3 DEF AskWritten, AskMended, WindowKnown, WindowFails, GateTypeOK
    <2>2. \/ inFlight' = inFlight /\ Awaits(r) /\ Awaits(r)'
          \/ inFlight = r /\ inFlight' = None /\ Awaits(r) /\ asker'[r] = "failing"
      BY <1>3 DEF AskWritten, AskMended, WindowKnown, WindowFails, ClearInFlight, Awaits, GateTypeOK
    <2> QED BY <1>0, <2>1, <2>2, GateAssumption, PromiseRests DEF CallerOf, Awaits
  <1>4. ASSUME NEW r \in Requests, AskFailed(r) \/ AskAnswered(r) \/ AskThrows(r)
        PROVE  PromiseStep
    <2>1. /\ asker[r] \notin {"new", "done", "gone"} /\ asker' = [asker EXCEPT ![r] = "done"]
          /\ UNCHANGED <<inFlight, owing, settled>>
      BY <1>4 DEF AskFailed, AskAnswered, AskThrows, GateInv, RequestInv
    <2>2. asker'[r] = "done" /\ \A s \in Requests \ {r} : asker'[s] = asker[s]
      BY <2>1 DEF GateTypeOK
    <2>3. inFlight # r \/ StorageFails
      BY <1>4 DEF AskFailed, AskAnswered, AskThrows, GateInv, RequestInv
    <2> QED BY <1>0, <2>1, <2>2, <2>3, PromiseMoves, CallerKinds DEF CallerOf, Awaits
  <1>5. ASSUME NEW r \in Requests, inFlight = r, inFlight' = None, UNCHANGED asker,
               \/ owing' = owing \cup {r} /\ settled' = settled
               \/ settled' = settled \cup {r} /\ owing' = owing
        PROVE  PromiseStep
    BY <1>0, <1>5, GateAssumption, PromiseRests DEF CallerOf, Awaits
  <1>6. ASSUME NEW r \in Requests, SettleSteps(r)
        PROVE  PromiseStep
    <2>1. /\ inFlight # r /\ r \in settled \cup owing
          /\ owing' = owing \ {r} /\ UNCHANGED <<inFlight, asker>>
          /\ settled' = settled \cup {r} \/ (StorageFails /\ settled' = settled)
      BY <1>6 DEF SettleSteps, SettleEnds, SettleThrows, InLine, GateInv, RequestInv
    <2>2. \A s \in Requests \ {r} : CallerOf(s)' = CallerOf(s)
      BY <2>1 DEF CallerOf, Awaits
    <2>3. CASE CallerOf(r)' = CallerOf(r)
      BY <1>0, <2>1, <2>2, <2>3, PromiseRests
    <2>4. CASE CallerOf(r)' # CallerOf(r)
      <3>1. CallerOf(r) = "waits" /\ CallerOf(r)' = "lost" /\ StorageFails
        BY <2>1, <2>4 DEF CallerOf, Awaits
      <3> QED BY <1>0, <2>1, <2>2, <3>1, PromiseMoves
    <2> QED BY <2>3, <2>4
  <1>7. CASE WorkerDies
    <2> DEFINE callers == [r \in Requests |-> CallerOf(r)]
    <2>1. \A r \in Requests : /\ CallerOf(r)' \in {"idle", "back"}
                              /\ CallerOf(r)' = "idle" => CallerOf(r) = "idle"
      <3>1. \A r \in Requests : asker'[r] = IF asker[r] = "new" THEN "new" ELSE "gone"
        BY <1>7 DEF WorkerDies
      <3> QED BY <3>1 DEF CallerOf
    <2>2. callers' \in [Requests -> {"idle", "back"}]
      BY <2>1
    <2>3. \A r \in Requests : callers'[r] = "idle" => callers[r] = "idle"
      BY <2>1
    <2>4. (~StorageFails)' = ~StorageFails
      BY <1>0 DEF StorageFails
    <2>5. Gate!Restart
      BY <1>7, <2>2, <2>3 DEF WorkerDies, Gate!Restart
    <2> QED BY <2>4, <2>5 DEF PromiseStep, Gate!Next
  <1>8. ASSUME NEW t \in Threads, WriteLands(t) \/ WriteAgain(t)
        PROVE  PromiseStep
    BY <1>1, <1>8 DEF WriteLands, WriteAgain
  <1>9. ASSUME NEW r \in Requests, WindowAppears(r) \/ PageReads(r)
        PROVE  PromiseStep
    BY <1>1, <1>9 DEF WindowAppears, PageReads
  <1>10. ASSUME NEW r \in Requests, Settle(r) \/ WindowClosed(r)
         PROVE  PromiseStep
    BY <1>1, <1>5, <1>10 DEF Settle, WindowClosed, ClearInFlight
  <1>11. CASE RejectPending
    BY <1>5, <1>11 DEF RejectPending, ClearInFlight, GateTypeOK
  <1>12. CASE UNCHANGED gateVars
    BY <1>1, <1>12 DEF gateVars
  <1> QED BY <1>2, <1>3, <1>4, <1>6, <1>7, <1>8, <1>9, <1>10, <1>11, <1>12
          DEF GateNext, GateSteps, GateProgress, AskSteps, UserDecides, SiteDisconnects

(* The gate implements the abstract one, with any number of requests and   *)
(* whatever storage calls fail: one request in flight at a time, each once *)
(* at most; a caller hears after the end of its request and is not lost,   *)
(* but for a failure of the storage area (approvals.ts:17-25, 121-191).    *)
THEOREM GateIsKept == GateSpec => GateKept
  <1>1. GateInit => Gate!Init
    <2> SUFFICES ASSUME GateInit PROVE Gate!Init
      OBVIOUS
    <2>1. inFlight = None /\ \A r \in Requests : CallerOf(r) = "idle"
      BY DEF GateInit, CallerOf
    <2>2. (~StorageFails) \in BOOLEAN
      OBVIOUS
    <2> QED BY <2>1, <2>2 DEF Gate!Init
  <1>2. GateTypeOK /\ GateInv /\ GateInv' /\ [GateNext]_gateVars => PromiseStep
    BY PromiseKept
  <1> QED BY <1>1, <1>2, GateTypes, GateInvariant, PTL DEF GateSpec, GateKept, Gate!Spec, PromiseStep
=============================================================================
