----------------------------- MODULE Delegation -----------------------------
(***************************************************************************)
(* How a session with delegation enabled hands its coins to the delegate,  *)
(* Fulmine, and renews the others itself (delegation-submissions.ts,       *)
(* -maintenance.ts, -automation.ts, -provider.ts).  Catch-ups and receive  *)
(* events ask for submissions, the automation for settlements; each wallet *)
(* serializes them in one queue.  A locked session's queue runs on: its    *)
(* checks stop it, but an answer already under way still arrives.          *)
(* Time is two events: a cooldown ends, a coin's batch expires.            *)
(***************************************************************************)
EXTENDS DelegationSession, Sequences

CONSTANTS
  Coins,         \* the wallet's coins
  Home,          \* the delegate its delegation script names
  StorageFails,  \* whether writes may fail
  MaxJobs        \* bound: operations waiting in one queue

ASSUME DelegationAssumption == Home \in Delegates /\ StorageFails \in BOOLEAN /\ MaxJobs \in Nat

VARIABLES
  coin,     \* what the operator and the chain say of each coin; "ordinary"
            \* ones are live, under a script that names no delegate
  records,  \* the DelegationSubmission stored for it
  terms,    \* what the delegate and the operator ask for, None when not free
  blocked,  \* the sessions whose provider met other terms than were approved
  wire,     \* requests posted and not yet taken by Fulmine, with their session
  held,     \* authorizations Fulmine has accepted
  known,    \* acceptedInSession of each session's wallet
  jobs,     \* the operations in each wallet's queue, its head running
  at,       \* how far the head is
  pick      \* the coins it found pending, then what it was told of them

queueVars == <<known, jobs, at, pick>>
policyVars == <<terms, blocked>>
delegationVars == <<sessionVars, policyVars, coin, records, wire, held, queueVars>>

Job == [kind: {"catchUp", "event", "settle"}, coins: SUBSET Coins]
Pick == [pending: SUBSET Coins, ok: SUBSET Coins, bad: SUBSET Coins]
NoPick == [pending |-> {}, ok |-> {}, bad |-> {}]

DelegationTypeOK ==
  /\ SessionTypeOK
  /\ terms \in Delegates \cup {None} /\ blocked \subseteq Sessions
  /\ coin \in [Coins -> {"ordinary", "live", "expired", "spent"}]
  /\ records \in [Coins -> {"none", "delegated", "failed"}]
  /\ wire \subseteq Sessions \X Coins /\ held \subseteq Sessions \X Coins
  /\ known \in [Sessions -> SUBSET Coins]
  /\ jobs \in [Sessions -> Seq(Job)]
  /\ at \in [Sessions -> {"idle", "selected", "allowed", "posted", "answered", "settling"}]
  /\ pick \in [Sessions -> Pick]
  /\ \A s \in Sessions : at[s] # "idle" => jobs[s] # <<>>

DelegationInit ==
  /\ SessionInit /\ terms = Home /\ blocked = {}
  /\ coin \in [Coins -> {"ordinary", "live"}] /\ records = [c \in Coins |-> "none"]
  /\ wire = {} /\ held = {}
  /\ known = [s \in Sessions |-> {}] /\ jobs = [s \in Sessions |-> <<>>]
  /\ at = [s \in Sessions |-> "idle"] /\ pick = [s \in Sessions |-> NoPick]

Ordinary == {c \in Coins : coin[c] = "ordinary"}
Saved == {c \in Coins : records[c] = "delegated"}
Running(s) == Head(jobs[s])

\* What acceptedOutpoints finds, and the coins automation may touch.
Accepted(s) == Saved \cup known[s]
\* Mutant of LeftToUs: accepted coins stay hidden once they have expired.
LeftToUsAlways(s) == Coins \ Accepted(s)

LeftToUs(s) == {c \in Coins : coin[c] = "expired" \/ c \notin Accepted(s)}

Enqueue(s, job) == Len(jobs[s]) < MaxJobs /\ jobs' = [jobs EXCEPT ![s] = Append(@, job)]

\* The next operation starts; those of a locked wallet all find it locked.
EndJob(s) ==
  /\ jobs' = [jobs EXCEPT ![s] = IF Live(s) THEN Tail(@) ELSE <<>>]
  /\ at' = [at EXCEPT ![s] = "idle"] /\ pick' = [pick EXCEPT ![s] = NoPick]

Goes(s, where) == at' = [at EXCEPT ![s] = where] /\ UNCHANGED jobs

Write(cs, status) == records' = [c \in Coins |-> IF c \in cs THEN status ELSE records[c]]

----------------------------------------------------------------------------
(* What fills the queue.                                                   *)

Offered == {c \in Coins : coin[c] # "spent"}

\* catchUpOnce: records of spent coins go, then every other coin is offered.
CatchUp(s) ==
  /\ s # 0 /\ Live(s) /\ base[s] # None
  /\ \A i \in DOMAIN jobs[s] : jobs[s][i].kind # "catchUp"
  /\ Write(Coins \ Offered, "none")
  /\ IF Enabled(s) /\ Offered # {}
     THEN Enqueue(s, [kind |-> "catchUp", coins |-> Offered])
     ELSE UNCHANGED jobs
  /\ UNCHANGED <<sessionVars, policyVars, coin, wire, held, known, at, pick>>

Event(s) ==
  /\ Live(s) /\ base[s] # None
  /\ \E c \in Coins : coin[c] = "live" /\ Enqueue(s, [kind |-> "event", coins |-> {c}])
  /\ UNCHANGED <<sessionVars, policyVars, coin, records, wire, held, known, at, pick>>

\* The SDK's renewal loop picks, from what the adapter shows it, what is due.
Chooses(s) ==
  /\ s # 0 /\ Live(s) /\ Enabled(s)
  /\ \A i \in DOMAIN jobs[s] : jobs[s][i].kind # "settle"
  /\ \E cs \in SUBSET LeftToUs(s) :
       /\ cs # {} /\ \A c \in Coins : (coin[c] = "expired" => c \in cs) /\ (c \in cs => coin[c] # "spent")
       /\ Enqueue(s, [kind |-> "settle", coins |-> cs])
  /\ UNCHANGED <<sessionVars, policyVars, coin, records, wire, held, known, at, pick>>

----------------------------------------------------------------------------
(* A submission.                                                           *)

Ready(s) == jobs[s] # <<>> /\ at[s] = "idle"

Eligible(s) == IF base[s].delegate = Home THEN Running(s).coins \ Ordinary ELSE {}

\* Mutant of Pending: only the stored records are consulted.
PendingByRecord(s) == {c \in Eligible(s) \ Saved : records[c] # "failed"}

\* Coins not accepted, and not waiting after a failed attempt.
Pending(s) == {c \in Eligible(s) \ Accepted(s) : records[c] # "failed"}

\* Mutant of Unsaved: a record that could not be written is never written.
UnsavedNever(s) == {}

Unsaved(s) == (Eligible(s) \cap known[s]) \ Saved

\* Acceptances that were heard of and not saved are saved first.
Selects(s) ==
  /\ Ready(s) /\ Running(s).kind # "settle" /\ Live(s)
  /\ Write(Unsaved(s), "delegated")
  /\ IF Pending(s) = {} THEN EndJob(s)
     ELSE Goes(s, "selected") /\ pick' = [pick EXCEPT ![s].pending = Pending(s)]
  /\ UNCHANGED <<sessionVars, policyVars, coin, wire, held, known>>

\* A failed write ends the pass before anything new is submitted.
RepairFails(s) ==
  /\ StorageFails /\ Ready(s) /\ Running(s).kind # "settle" /\ Live(s)
  /\ Unsaved(s) # {}
  /\ EndJob(s)
  /\ UNCHANGED <<sessionVars, policyVars, coin, records, wire, held, known>>

\* The provider blocks its session, whatever the terms become, and has a pause saved.
RejectsPolicy(s) == blocked' = blocked \cup {s} /\ UNCHANGED terms

\* The delegate is the approved one, and neither it nor the operator asks for a fee.
TermsHold(s) == terms = base[s].delegate

\* assertDelegationAllowed, once before the SDK signs and once before it posts.
Allowed(s) == Enabled(s) /\ s \notin blocked /\ TermsHold(s)

\* Mutant of CheckPasses: the session is not looked at again.
CheckPassesUnguarded(s) ==
  /\ Allowed(s)
  /\ \/ at[s] = "selected" /\ Goes(s, "allowed") /\ UNCHANGED wire
     \/ at[s] = "allowed" /\ Goes(s, "posted") /\ wire' = wire \cup ({s} \X pick[s].pending)
  /\ UNCHANGED <<sessionVars, policyVars, coin, records, held, known, pick>>

CheckPasses(s) ==
  /\ Live(s) /\ Allowed(s)
  /\ \/ at[s] = "selected" /\ Goes(s, "allowed") /\ UNCHANGED wire
     \/ at[s] = "allowed" /\ Goes(s, "posted") /\ wire' = wire \cup ({s} \X pick[s].pending)
  /\ UNCHANGED <<sessionVars, policyVars, coin, records, held, known, pick>>

\* Terms that changed block the session; an outage is left to a later attempt.
CheckFails(s) ==
  /\ at[s] \in {"selected", "allowed"} /\ Live(s)
  /\ IF Enabled(s) /\ s \notin blocked /\ ~TermsHold(s)
     THEN RejectsPolicy(s) ELSE UNCHANGED policyVars
  /\ Write(pick[s].pending, "failed") \/ (StorageFails /\ UNCHANGED records)
  /\ EndJob(s)
  /\ UNCHANGED <<sessionVars, coin, wire, held, known>>

\* The guarded wallet is locked: assertCurrent throws and nothing is recorded.
FindsLocked(s) ==
  /\ ~Live(s)
  /\ Ready(s) \/ at[s] \in {"selected", "allowed", "posted", "settling"}
  /\ EndJob(s)
  /\ UNCHANGED <<sessionVars, policyVars, coin, records, wire, held, known>>

\* Fulmine takes a request when it likes, also one the wallet has given up on.
FulmineTakes(s, c) ==
  /\ <<s, c>> \in wire
  /\ wire' = wire \ {<<s, c>>} /\ held' = held \cup {<<s, c>>}
  /\ UNCHANGED <<sessionVars, policyVars, coin, records, queueVars>>

\* Mutant of Answer: a coin not reported failed is taken for accepted.
AnswerOptimistic(s) ==
  /\ at[s] = "posted"
  /\ \E bad \in SUBSET pick[s].pending :
       /\ pick' = [pick EXCEPT ![s] = [pending |-> {}, ok |-> pick[s].pending \ bad, bad |-> bad]]
       /\ known' = [known EXCEPT ![s] = @ \cup (pick[s].pending \ bad)]
  /\ Goes(s, "answered")
  /\ UNCHANGED <<sessionVars, policyVars, coin, records, wire, held>>

\* Some coins are reported accepted, some failed (perhaps by a timeout that
\* proves nothing), some not at all.
Answer(s) ==
  /\ at[s] = "posted"
  /\ \E ok, bad \in SUBSET pick[s].pending :
       /\ \A c \in ok : <<s, c>> \in held
       /\ ok \cap bad = {}
       /\ pick' = [pick EXCEPT ![s] = [pending |-> {}, ok |-> ok, bad |-> bad]]
       /\ known' = [known EXCEPT ![s] = @ \cup ok]
  /\ Goes(s, "answered")
  /\ UNCHANGED <<sessionVars, policyVars, coin, records, wire, held>>

\* The outcome is stored even when the session has ended meanwhile.
Records(s) ==
  /\ at[s] = "answered"
  /\ records' = [c \in Coins |-> IF c \in pick[s].ok THEN "delegated"
                                 ELSE IF c \in pick[s].bad THEN "failed"
                                 ELSE records[c]]
  /\ EndJob(s)
  /\ UNCHANGED <<sessionVars, policyVars, coin, wire, held, known>>

RecordFails(s) ==
  /\ StorageFails /\ at[s] = "answered"
  /\ \E cs \in SUBSET pick[s].ok : Write(cs, "delegated")
  /\ EndJob(s)
  /\ UNCHANGED <<sessionVars, policyVars, coin, wire, held, known>>

----------------------------------------------------------------------------
(* A settlement, in the same queue.                                        *)

SettleChecks(s) ==
  /\ Ready(s) /\ Running(s).kind = "settle" /\ Live(s)
  /\ IF s \notin blocked /\ terms # None
     THEN Goes(s, "settling") /\ UNCHANGED <<policyVars, pick>>
     ELSE EndJob(s) /\ RejectsPolicy(s)
  /\ UNCHANGED <<sessionVars, coin, records, wire, held, known>>

\* Mutant of Available: the chosen inputs are not looked at again.
AvailableAsChosen(s) == Running(s).coins

Available(s) == Running(s).coins \cap LeftToUs(s)

Settles(s) ==
  /\ at[s] = "settling" /\ Live(s) /\ Available(s) = Running(s).coins
  /\ \A c \in Running(s).coins : coin[c] # "spent"
  /\ coin' = [c \in Coins |-> IF c \in Running(s).coins THEN "spent" ELSE coin[c]]
  /\ EndJob(s)
  /\ UNCHANGED <<sessionVars, policyVars, records, wire, held, known>>

SettleFails(s) ==
  /\ at[s] = "settling" /\ Live(s)
  /\ EndJob(s)
  /\ UNCHANGED <<sessionVars, policyVars, coin, records, wire, held, known>>

----------------------------------------------------------------------------
(* The world, the settings, and the worker.                                *)

CoinGoes ==
  /\ \E c \in Coins : /\ coin[c] \in {"live", "ordinary"}
                        /\ \E to \in {"expired", "spent"} : coin' = [coin EXCEPT ![c] = to]
  /\ UNCHANGED <<sessionVars, policyVars, records, wire, held, queueVars>>

\* A failed attempt older than the retry delay no longer counts.
CooldownEnds ==
  /\ \E c \in Coins : records[c] = "failed" /\ records' = [records EXCEPT ![c] = "none"]
  /\ UNCHANGED <<sessionVars, policyVars, coin, wire, held, queueVars>>

TermsChange ==
  /\ terms' \in (Delegates \cup {None}) \ {terms}
  /\ UNCHANGED <<sessionVars, blocked, coin, records, wire, held, queueVars>>

\* The worker is stopped: only storage, and what is outside, survives.
DelegationDies ==
  /\ session' = 0
  /\ known' = [s \in Sessions |-> {}] /\ jobs' = [s \in Sessions |-> <<>>]
  /\ at' = [s \in Sessions |-> "idle"] /\ pick' = [s \in Sessions |-> NoPick]
  /\ UNCHANGED <<started, base, stored, policyVars, coin, records, wire, held>>

\* A locked wallet's operations that have not posted only find it locked, which
\* nobody notices: they are let do so before the next session opens.
Reopens ==
  /\ Opens
  /\ \A s \in Sessions : jobs[s] = <<>> \/ at[s] \in {"posted", "answered"}

JobEnds(s) == Selects(s) \/ CheckPasses(s) \/ CheckFails(s) \/ FindsLocked(s)
              \/ Answer(s) \/ Records(s) \/ SettleChecks(s) \/ SettleFails(s)

----------------------------------------------------------------------------
(* What the settings show of a coin: what was stored comes before today's  *)
(* configuration, which cannot revoke an acceptance.                       *)

Status(c) ==
  IF records[c] = "delegated" THEN "delegated"
  ELSE IF stored = None \/ coin[c] = "ordinary" THEN "not-configured"
  ELSE IF ~stored.enabled \/ stored.delegate # Home THEN "not-configured"
  ELSE IF records[c] = "failed" THEN "failed" ELSE "pending"

DelegationSteps ==
  \/ \E s \in Sessions :
       \/ CatchUp(s) \/ Event(s) \/ Chooses(s)
       \/ JobEnds(s) \/ RepairFails(s) \/ RecordFails(s) \/ Settles(s)
       \/ \E c \in Coins : FulmineTakes(s, c)
  \/ CoinGoes \/ CooldownEnds \/ TermsChange
  \/ (Ends \/ Saves \/ Reopens) /\ UNCHANGED <<policyVars, coin, records, wire, held, queueVars>>

----------------------------------------------------------------------------
(* Properties.                                                             *)

\* A session that may delegate, and has not met other terms.
Ours == session # 0 /\ Enabled(session) /\ session \notin blocked

(* A coin the delegate has been heard to accept is not posted again by the *)
(* same session, although its record may have failed to be written, or was *)
(* written after a catch-up and a receive event both asked for it          *)
(* (delegation-submissions.ts:95-97).                                      *)
PostedOnce == [][\A s \in Sessions, c \in Coins : <<s, c>> \in wire' \ wire => c \notin known[s]]_delegationVars

(* Automation settles no unexpired coin this session knows to be accepted, *)
(* although it chose its inputs before the acceptance came                 *)
(* (delegation-automation.ts:113-128).                                     *)
SettleSparesAccepted ==
  [][\A s \in Sessions : Settles(s) =>
       \A c \in Running(s).coins : coin[c] = "live" => c \notin known[s]]_delegationVars

(* Nothing is posted when delegation is stored as paused, nor by a session *)
(* that met other terms or has ended, however long ago its checks began    *)
(* (delegation-provider.ts:118-131).                                       *)
PostedUnderApproval ==
  [][\A s \in Sessions, c \in Coins : <<s, c>> \in wire' \ wire =>
       /\ Live(s) /\ s \notin blocked
       /\ stored # None /\ stored.enabled]_delegationVars

(* An acceptance whose record could not be written is written in the end,  *)
(* while the session lasts and the coin exists                             *)
(* (delegation-submissions.ts:156-178).                                    *)
AcceptanceSaved ==
  \A c \in Coins :
    Ours /\ c \in known[session] ~> c \in Saved \/ ~Ours \/ coin[c] = "spent"

(* A coin that is shown as delegated has been accepted by the delegate,    *)
(* whatever timed out, was answered late or was repaired on the way        *)
(* (delegation-settings.ts:181-183, delegation-submissions.ts:251-263).    *)
ShownHonestly == \A c \in Coins : Status(c) = "delegated" => \E s \in Sessions : <<s, c>> \in held

(* What delegation leaves behind is cleaned up while a session may         *)
(* delegate: a coin the delegate accepted and did not renew is recovered   *)
(* by the wallet once it has expired, and the record of a spent coin does  *)
(* not stay, even when an answer that came late wrote it again             *)
(* (delegation-automation.ts:83-97, delegation-maintenance.ts:113-138).    *)
LeftoversSettle ==
  \A c \in Coins :
    /\ Ours /\ coin[c] = "expired" ~> coin[c] = "spent" \/ ~Ours
    /\ Ours /\ coin[c] = "spent" ~> records[c] = "none" \/ ~Ours
=============================================================================
