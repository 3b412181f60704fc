-------------------------- MODULE DelegationProofs --------------------------
(***************************************************************************)
(* What holds of the delegation of coins, and of the reviews that move     *)
(* coins to the delegation address, for any coins, sessions, reviews and   *)
(* delegates and queues of any length.                                     *)
(***************************************************************************)
EXTENDS DelegationMigration, SequenceTheorems, TLAPS

WorldTyped ==
  /\ SessionTypeOK
  /\ terms \in Delegates \cup {None} /\ blocked \subseteq Sessions
  /\ coin \in [Coins -> {"ordinary", "live", "expired", "spent"}]
  /\ records \in [Coins -> {"none", "delegated", "failed"}]
  /\ wire \subseteq Sessions \X Coins /\ held \subseteq Sessions \X Coins
  /\ known \in [Sessions -> SUBSET Coins]

QueueTyped ==
  /\ jobs \in [Sessions -> Seq(Job)]
  /\ at \in [Sessions -> {"idle", "selected", "allowed", "posted", "answered", "settling"}]
  /\ \A s \in Sessions : at[s] # "idle" => jobs[s] # <<>>

PicksTyped == pick \in [Sessions -> Pick]

ReviewTyped ==
  /\ entry \in [Sessions -> Reviews \cup {None}]
  /\ review \in [Reviews -> Review]

(* The type invariants, in the parts that the proofs use.                  *)
LEMMA TypesAre ==
  /\ DelegationTypeOK <=> WorldTyped /\ QueueTyped /\ PicksTyped
  /\ TypeOK <=> DelegationTypeOK /\ ReviewTyped
  BY DEF DelegationTypeOK, TypeOK, WorldTyped, QueueTyped, PicksTyped, ReviewTyped

(* A live session is the last one, and was built with what is stored.      *)
CurrentInv == session # 0 => session = started /\ base[session] = stored

(* What a wallet, or a record, takes for accepted Fulmine has accepted.    *)
HeardInv ==
  /\ \A s \in Sessions : \A c \in known[s] : <<s, c>> \in held
  /\ \A s \in Sessions : pick[s].ok \subseteq known[s]
  /\ \A c \in Saved : \E s \in Sessions : <<s, c>> \in held

(* What is about to be posted has not been heard to be accepted.           *)
PendingInv == \A s \in Sessions : pick[s].pending \cap known[s] = {}

DelegationInv ==
  WorldTyped /\ QueueTyped /\ PicksTyped /\ CurrentInv /\ HeardInv /\ PendingInv

(* A review under way is of a session that enabled delegation; one that    *)
(* was prepared after a transfer was prepared after its end; and the one   *)
(* that is transferring is the one its session has in hand.                *)
ReviewOK(r) ==
  /\ review[r].at \notin {"new", "over"} => review[r].by \in 1..started /\ Enabled(review[r].by)
  /\ review[r].executed => review[r].found # None /\ review[review[r].found].at = "over"
  /\ review[r].at \in {"checking", "checked"} => entry[review[r].by] = r

ReviewInv == \A r \in Reviews : ReviewOK(r)

MigrationInv == DelegationInv /\ ReviewTyped /\ ReviewInv

----------------------------------------------------------------------------
(* The operators that the actions share.                                   *)

(* The job at the head of a queue.                                         *)
LEMMA HeadIsJob ==
  ASSUME QueueTyped, NEW s \in Sessions, jobs[s] # <<>>
  PROVE  /\ Running(s) \in Job /\ Running(s).coins \subseteq Coins
         /\ Tail(jobs[s]) \in Seq(Job)
  <1>1. jobs[s] \in Seq(Job)
    BY DEF QueueTyped
  <1>2. Running(s) \in Job /\ Tail(jobs[s]) \in Seq(Job)
    BY <1>1, HeadTailProperties DEF Running
  <1> QED
    BY <1>2 DEF Job

(* An operation is added at the end of a queue.                            *)
LEMMA Enqueued ==
  ASSUME QueueTyped, NEW s \in Sessions, NEW job \in Job, Enqueue(s, job), UNCHANGED at
  PROVE  QueueTyped'
  <1>1. jobs[s] \in Seq(Job)
    BY DEF QueueTyped
  <1>2. Append(jobs[s], job) \in Seq(Job) /\ Append(jobs[s], job) # <<>>
    BY <1>1, AppendProperties
  <1>3. jobs' = [jobs EXCEPT ![s] = Append(jobs[s], job)]
    BY DEF Enqueue
  <1> QED
    BY <1>2, <1>3 DEF QueueTyped

(* An operation that ends takes what it had picked with it.                *)
LEMMA JobEnded ==
  ASSUME QueueTyped, PicksTyped, NEW s \in Sessions, jobs[s] # <<>>, EndJob(s)
  PROVE  /\ QueueTyped' /\ PicksTyped'
         /\ \A t \in Sessions : /\ pick'[t].ok \subseteq pick[t].ok
                                /\ pick'[t].pending \subseteq pick[t].pending
  <1>1. NoPick \in Pick /\ NoPick.ok = {} /\ NoPick.pending = {}
    BY DEF NoPick, Pick
  <1>2. PicksTyped' /\ pick'[s] = NoPick /\ \A t \in Sessions : t # s => pick'[t] = pick[t]
    BY <1>1 DEF PicksTyped, EndJob
  <1>3. Tail(jobs[s]) \in Seq(Job) /\ <<>> \in Seq(Job)
    BY HeadIsJob, EmptySeq
  <1>4. QueueTyped'
    <2> DEFINE rest == IF Live(s) THEN Tail(jobs[s]) ELSE <<>>
    <2>1. rest \in Seq(Job) /\ jobs' = [jobs EXCEPT ![s] = rest] /\ at' = [at EXCEPT ![s] = "idle"]
      BY <1>3 DEF EndJob
    <2> HIDE DEF rest
    <2> QED
      BY <2>1 DEF QueueTyped
  <1> QED
    BY <1>1, <1>2, <1>4

(* An operation that goes on stays at the head of its queue.               *)
LEMMA JobGoes ==
  ASSUME QueueTyped, NEW s \in Sessions, jobs[s] # <<>>,
         NEW where \in {"selected", "allowed", "posted", "answered", "settling"},
         Goes(s, where)
  PROVE  QueueTyped' /\ at'[s] = where
  BY DEF QueueTyped, Goes

(* What a write to the records leaves of them.                             *)
LEMMA Written ==
  ASSUME WorldTyped, NEW cs, NEW status \in {"none", "delegated", "failed"}, Write(cs, status)
  PROVE  /\ records' \in [Coins -> {"none", "delegated", "failed"}]
         /\ \A c \in Coins : records'[c] = IF c \in cs THEN status ELSE records[c]
  BY DEF WorldTyped, Write

(* What a step keeps that opens no session, takes nothing back from        *)
(* Fulmine, hears nothing, and records only what was heard.                *)
LEMMA NothingHeard ==
  ASSUME DelegationInv, UNCHANGED <<session, started, base, stored, known>>,
         held \subseteq held',
         \A c \in Coins : records'[c] = "delegated" =>
                            \/ records[c] = "delegated"
                            \/ \E s \in Sessions : c \in known[s],
         \A s \in Sessions : /\ pick'[s].ok \subseteq pick[s].ok
                             /\ pick'[s].pending \cap known[s] = {}
  PROVE  CurrentInv' /\ HeardInv' /\ PendingInv'
  <1>1. CurrentInv' /\ PendingInv'
    BY DEF DelegationInv, CurrentInv, PendingInv
  <1>2. \A c \in Saved' : \E s \in Sessions : <<s, c>> \in held'
    BY DEF DelegationInv, HeardInv, Saved
  <1>3. \A s \in Sessions : \A c \in known'[s] : <<s, c>> \in held'
    BY DEF DelegationInv, HeardInv
  <1>4. \A s \in Sessions : pick'[s].ok \subseteq known'[s]
    BY DEF DelegationInv, HeardInv
  <1> QED
    BY <1>1, <1>2, <1>3, <1>4 DEF HeardInv

(* A step of a queue that records nothing new and hears nothing.           *)
LEMMA QuietStep ==
  ASSUME DelegationInv, WorldTyped', QueueTyped', PicksTyped',
         UNCHANGED <<session, started, base, stored, known, held>>,
         \A c \in Coins : records'[c] = "delegated" =>
                            \/ records[c] = "delegated"
                            \/ \E s \in Sessions : c \in known[s],
         \A s \in Sessions : /\ pick'[s].ok \subseteq pick[s].ok
                             /\ pick'[s].pending \subseteq pick[s].pending
  PROVE  DelegationInv'
  <1>1. \A s \in Sessions : pick'[s].pending \cap known[s] = {}
    BY DEF DelegationInv, PendingInv
  <1> QED
    BY <1>1, NothingHeard DEF DelegationInv

----------------------------------------------------------------------------
(* The actions, each on its own.                                           *)

(* All of it holds before a session was opened.                            *)
LEMMA DelegationBegins == DelegationInit => DelegationInv
  <1> SUFFICES ASSUME DelegationInit PROVE DelegationInv
    OBVIOUS
  <1> USE SessionAssumption, DelegationAssumption DEF DelegationInit, SessionInit
  <1>1. WorldTyped
    BY DEF WorldTyped, SessionTypeOK, Config
  <1>2. QueueTyped
    BY EmptySeq DEF QueueTyped
  <1>3. PicksTyped /\ HeardInv /\ PendingInv
    BY DEF PicksTyped, HeardInv, PendingInv, NoPick, Pick, Saved
  <1>4. CurrentInv
    BY DEF CurrentInv
  <1> QED
    BY <1>1, <1>2, <1>3, <1>4 DEF DelegationInv

(* A catch-up asks for a submission, and drops the records of spent coins. *)
LEMMA CatchUpKeeps ==
  ASSUME DelegationInv, NEW s \in Sessions, CatchUp(s)
  PROVE  DelegationInv'
  <1>1. /\ records' \in [Coins -> {"none", "delegated", "failed"}]
        /\ \A c \in Coins : records'[c] = "delegated" => records[c] = "delegated"
    BY Written DEF CatchUp, DelegationInv
  <1>2. WorldTyped'
    BY <1>1 DEF CatchUp, DelegationInv, WorldTyped, SessionTypeOK, sessionVars, policyVars
  <1>3. [kind |-> "catchUp", coins |-> Offered] \in Job
    BY DEF Job, Offered
  <1>4. QueueTyped'
    <2>1. CASE Enqueue(s, [kind |-> "catchUp", coins |-> Offered])
      BY <1>3, <2>1, Enqueued DEF CatchUp, DelegationInv
    <2>2. CASE UNCHANGED jobs
      BY <2>2 DEF CatchUp, DelegationInv, QueueTyped
    <2> QED
      BY <2>1, <2>2 DEF CatchUp
  <1>5. PicksTyped' /\ UNCHANGED <<session, started, base, stored, known, held, pick>>
    BY DEF CatchUp, DelegationInv, PicksTyped, sessionVars
  <1> QED
    BY <1>1, <1>2, <1>4, <1>5, QuietStep

(* A receive event, or the SDK's renewal loop, only adds to the queue.     *)
LEMMA AsksKeep ==
  ASSUME DelegationInv, NEW s \in Sessions, Event(s) \/ Chooses(s)
  PROVE  DelegationInv'
  <1>1. PICK job \in Job : Enqueue(s, job)
    <2>1. CASE Event(s)
      <3>1. PICK c \in Coins : Enqueue(s, [kind |-> "event", coins |-> {c}])
        BY <2>1 DEF Event
      <3>2. [kind |-> "event", coins |-> {c}] \in Job
        BY DEF Job
      <3> QED
        BY <3>1, <3>2
    <2>2. CASE Chooses(s)
      <3>1. PICK cs \in SUBSET LeftToUs(s) : Enqueue(s, [kind |-> "settle", coins |-> cs])
        BY <2>2 DEF Chooses
      <3>2. [kind |-> "settle", coins |-> cs] \in Job
        BY DEF Job, LeftToUs
      <3> QED
        BY <3>1, <3>2
    <2> QED
      BY <2>1, <2>2
  <1>2. /\ UNCHANGED <<session, started, base, stored, terms, blocked, coin, records, wire>>
        /\ UNCHANGED <<held, known, at, pick>>
    BY DEF Event, Chooses, sessionVars, policyVars
  <1>3. QueueTyped'
    BY <1>1, <1>2, Enqueued DEF DelegationInv
  <1>4. WorldTyped' /\ PicksTyped'
    BY <1>2 DEF DelegationInv, WorldTyped, PicksTyped, SessionTypeOK
  <1> QED
    BY <1>2, <1>3, <1>4, QuietStep

(* A submission picks what no wallet of its session has heard accepted,    *)
(* and saves only what it has.                                             *)
LEMMA SelectsKeeps ==
  ASSUME DelegationInv, NEW s \in Sessions, Selects(s)
  PROVE  DelegationInv'
  <1>0. WorldTyped /\ QueueTyped /\ PicksTyped /\ jobs[s] # <<>>
    BY DEF DelegationInv, Selects, Ready
  <1>1. /\ UNCHANGED <<session, started, base, stored, terms, blocked, coin, wire, held, known>>
        /\ Write(Unsaved(s), "delegated")
    BY DEF Selects, sessionVars, policyVars
  <1>2. /\ records' \in [Coins -> {"none", "delegated", "failed"}]
        /\ \A c \in Coins : records'[c] = "delegated" =>
                              \/ records[c] = "delegated"
                              \/ \E t \in Sessions : c \in known[t]
    BY <1>0, <1>1, Written DEF Unsaved
  <1>3. WorldTyped'
    BY <1>0, <1>1, <1>2 DEF WorldTyped, SessionTypeOK
  <1>4. CASE EndJob(s)
    <2>1. /\ QueueTyped' /\ PicksTyped'
          /\ \A t \in Sessions : /\ pick'[t].ok \subseteq pick[t].ok
                                 /\ pick'[t].pending \subseteq pick[t].pending
      BY <1>0, <1>4, JobEnded
    <2> QED
      BY <1>1, <1>2, <1>3, <2>1, QuietStep
  <1>5. CASE Goes(s, "selected") /\ pick' = [pick EXCEPT ![s].pending = Pending(s)]
    <2>1. QueueTyped'
      BY <1>0, <1>5, JobGoes
    <2>2. Pending(s) \subseteq Coins /\ Pending(s) \cap known[s] = {}
      <3>1. Running(s).coins \subseteq Coins
        BY <1>0, HeadIsJob
      <3> QED
        BY <3>1 DEF Pending, Eligible, Accepted
    <2>3. /\ PicksTyped'
          /\ \A t \in Sessions : /\ pick'[t].ok = pick[t].ok
                                 /\ t # s => pick'[t].pending = pick[t].pending
          /\ pick'[s].pending = Pending(s)
      BY <1>0, <1>5, <2>2 DEF PicksTyped, Pick
    <2>4. \A t \in Sessions : /\ pick'[t].ok \subseteq pick[t].ok
                              /\ pick'[t].pending \cap known[t] = {}
      BY <2>2, <2>3 DEF DelegationInv, PendingInv
    <2>5. CurrentInv' /\ HeardInv' /\ PendingInv'
      BY <1>1, <1>2, <2>4, NothingHeard
    <2> QED
      BY <1>3, <2>1, <2>3, <2>5 DEF DelegationInv
  <1> QED
    BY <1>4, <1>5 DEF Selects

(* A check that passes posts what was picked.                              *)
LEMMA CheckPassesKeeps ==
  ASSUME DelegationInv, NEW s \in Sessions, CheckPasses(s)
  PROVE  DelegationInv'
  <1>0. WorldTyped /\ QueueTyped /\ PicksTyped /\ jobs[s] # <<>>
    BY DEF DelegationInv, CheckPasses, QueueTyped
  <1>1. /\ UNCHANGED <<session, started, base, stored, terms, blocked, coin, records>>
        /\ UNCHANGED <<held, known, pick>>
    BY DEF CheckPasses, sessionVars, policyVars
  <1>2. wire' \subseteq Sessions \X Coins
    BY <1>0 DEF CheckPasses, WorldTyped, PicksTyped, Pick
  <1>3. WorldTyped' /\ PicksTyped'
    BY <1>0, <1>1, <1>2 DEF WorldTyped, PicksTyped, SessionTypeOK
  <1>4. QueueTyped'
    BY <1>0, JobGoes DEF CheckPasses
  <1> QED
    BY <1>1, <1>3, <1>4, QuietStep

(* A check that fails records a failure, and may block its session.        *)
LEMMA CheckFailsKeeps ==
  ASSUME DelegationInv, NEW s \in Sessions, CheckFails(s)
  PROVE  DelegationInv'
  <1>0. WorldTyped /\ QueueTyped /\ PicksTyped /\ jobs[s] # <<>> /\ EndJob(s)
    BY DEF DelegationInv, CheckFails, QueueTyped
  <1>1. UNCHANGED <<session, started, base, stored, coin, wire, held, known>>
    BY DEF CheckFails, sessionVars
  <1>2. terms' = terms /\ blocked' \subseteq Sessions
    BY <1>0 DEF CheckFails, RejectsPolicy, policyVars, WorldTyped
  <1>3. /\ records' \in [Coins -> {"none", "delegated", "failed"}]
        /\ \A c \in Coins : records'[c] = "delegated" => records[c] = "delegated"
    <2>1. CASE Write(pick[s].pending, "failed")
      BY <1>0, <2>1, Written
    <2>2. CASE UNCHANGED records
      BY <1>0, <2>2 DEF WorldTyped
    <2> QED
      BY <2>1, <2>2 DEF CheckFails
  <1>4. WorldTyped'
    BY <1>0, <1>1, <1>2, <1>3 DEF WorldTyped, SessionTypeOK
  <1>5. /\ QueueTyped' /\ PicksTyped'
        /\ \A t \in Sessions : /\ pick'[t].ok \subseteq pick[t].ok
                               /\ pick'[t].pending \subseteq pick[t].pending
    BY <1>0, JobEnded
  <1> QED
    BY <1>1, <1>3, <1>4, <1>5, QuietStep

(* A job that ends, and at most a coin that it settled with it, or a       *)
(* record it wrote of what was heard, or its session blocked.              *)
LEMMA EndsQuietly ==
  ASSUME DelegationInv, NEW s \in Sessions, jobs[s] # <<>>, EndJob(s), WorldTyped',
         UNCHANGED <<session, started, base, stored, held, known>>,
         \A c \in Coins : records'[c] = "delegated" =>
                            \/ records[c] = "delegated"
                            \/ \E t \in Sessions : c \in known[t]
  PROVE  DelegationInv'
  <1>1. /\ QueueTyped' /\ PicksTyped'
        /\ \A t \in Sessions : /\ pick'[t].ok \subseteq pick[t].ok
                               /\ pick'[t].pending \subseteq pick[t].pending
    BY JobEnded DEF DelegationInv
  <1> QED
    BY <1>1, QuietStep

(* The other ways in which an operation ends, a settlement that succeeds   *)
(* among them.                                                             *)
LEMMA OthersEndKeep ==
  ASSUME DelegationInv, NEW s \in Sessions,
         RepairFails(s) \/ FindsLocked(s) \/ SettleFails(s) \/ Settles(s)
  PROVE  DelegationInv'
  <1>1. jobs[s] # <<>> /\ EndJob(s)
    BY DEF DelegationInv, QueueTyped, RepairFails, FindsLocked, SettleFails, Settles, Ready
  <1>2. /\ UNCHANGED <<session, started, base, stored, terms, blocked, records, wire>>
        /\ UNCHANGED <<held, known>>
    BY DEF RepairFails, FindsLocked, SettleFails, Settles, sessionVars, policyVars
  <1>3. coin' \in [Coins -> {"ordinary", "live", "expired", "spent"}]
    BY DEF DelegationInv, WorldTyped, RepairFails, FindsLocked, SettleFails, Settles
  <1>4. WorldTyped'
    BY <1>2, <1>3 DEF DelegationInv, WorldTyped, SessionTypeOK
  <1> QED
    BY <1>1, <1>2, <1>4, EndsQuietly

(* What an answer tells to be accepted Fulmine holds.                      *)
LEMMA AnswerKeeps ==
  ASSUME DelegationInv, NEW s \in Sessions, Answer(s)
  PROVE  DelegationInv'
  <1>0. WorldTyped /\ QueueTyped /\ PicksTyped /\ jobs[s] # <<>>
    BY DEF DelegationInv, Answer, QueueTyped
  <1>1. PICK ok \in SUBSET pick[s].pending, bad \in SUBSET pick[s].pending :
          /\ \A c \in ok : <<s, c>> \in held
          /\ pick' = [pick EXCEPT ![s] = [pending |-> {}, ok |-> ok, bad |-> bad]]
          /\ known' = [known EXCEPT ![s] = known[s] \cup ok]
    BY DEF Answer
  <1>2. /\ UNCHANGED <<session, started, base, stored, terms, blocked, coin, records>>
        /\ UNCHANGED <<wire, held>>
    BY DEF Answer, sessionVars, policyVars
  <1>3. ok \subseteq Coins /\ bad \subseteq Coins
    BY <1>0, <1>1 DEF PicksTyped, Pick
  <1>4. /\ known' \in [Sessions -> SUBSET Coins] /\ known'[s] = known[s] \cup ok
        /\ \A t \in Sessions : t # s => known'[t] = known[t]
    BY <1>0, <1>1, <1>3 DEF WorldTyped
  <1>5. /\ PicksTyped' /\ pick'[s].ok = ok /\ pick'[s].pending = {}
        /\ \A t \in Sessions : t # s => pick'[t] = pick[t]
    BY <1>0, <1>1, <1>3 DEF PicksTyped, Pick
  <1>6. WorldTyped'
    BY <1>0, <1>2, <1>4 DEF WorldTyped, SessionTypeOK
  <1>7. QueueTyped'
    BY <1>0, JobGoes DEF Answer
  <1>8. CurrentInv'
    BY <1>2 DEF DelegationInv, CurrentInv
  <1>9. HeardInv'
    <2>1. \A t \in Sessions : \A c \in known'[t] : <<t, c>> \in held'
      BY <1>1, <1>2, <1>4 DEF DelegationInv, HeardInv
    <2>2. \A t \in Sessions : pick'[t].ok \subseteq known'[t]
      BY <1>4, <1>5 DEF DelegationInv, HeardInv
    <2>3. \A c \in Saved' : \E t \in Sessions : <<t, c>> \in held'
      BY <1>2 DEF DelegationInv, HeardInv, Saved
    <2> QED
      BY <2>1, <2>2, <2>3 DEF HeardInv
  <1>10. PendingInv'
    BY <1>4, <1>5 DEF DelegationInv, PendingInv
  <1> QED
    BY <1>5, <1>6, <1>7, <1>8, <1>9, <1>10 DEF DelegationInv

(* What is recorded as delegated was heard to be accepted.                 *)
LEMMA RecordsKeeps ==
  ASSUME DelegationInv, NEW s \in Sessions, Records(s) \/ RecordFails(s)
  PROVE  DelegationInv'
  <1>1. jobs[s] # <<>> /\ EndJob(s) /\ pick[s].ok \subseteq known[s]
    BY DEF DelegationInv, QueueTyped, HeardInv, Records, RecordFails
  <1>2. /\ UNCHANGED <<session, started, base, stored, terms, blocked, coin, wire>>
        /\ UNCHANGED <<held, known>>
    BY DEF Records, RecordFails, sessionVars, policyVars
  <1>3. /\ records' \in [Coins -> {"none", "delegated", "failed"}]
        /\ \A c \in Coins : records'[c] = "delegated" =>
                              records[c] = "delegated" \/ c \in pick[s].ok
    <2>1. CASE Records(s)
      BY <2>1 DEF DelegationInv, WorldTyped, Records
    <2>2. CASE RecordFails(s)
      <3>1. PICK cs \in SUBSET pick[s].ok : Write(cs, "delegated")
        BY <2>2 DEF RecordFails
      <3> QED
        BY <3>1, Written DEF DelegationInv
    <2> QED
      BY <2>1, <2>2
  <1>4. WorldTyped'
    BY <1>2, <1>3 DEF DelegationInv, WorldTyped, SessionTypeOK
  <1> QED
    BY <1>1, <1>2, <1>3, <1>4, EndsQuietly

(* A settlement that is checked starts, or ends and blocks its session.    *)
LEMMA SettleChecksKeeps ==
  ASSUME DelegationInv, NEW s \in Sessions, SettleChecks(s)
  PROVE  DelegationInv'
  <1>1. jobs[s] # <<>>
    BY DEF SettleChecks, Ready
  <1>2. UNCHANGED <<session, started, base, stored, coin, records, wire, held, known>>
    BY DEF SettleChecks, sessionVars
  <1>3. WorldTyped'
    BY <1>2
    DEF SettleChecks, RejectsPolicy, policyVars, DelegationInv, WorldTyped, SessionTypeOK
  <1>4. CASE EndJob(s)
    BY <1>1, <1>2, <1>3, <1>4, EndsQuietly
  <1>5. CASE Goes(s, "settling") /\ UNCHANGED pick
    <2>1. QueueTyped'
      BY <1>1, <1>5, JobGoes DEF DelegationInv
    <2>2. PicksTyped'
      BY <1>5 DEF DelegationInv, PicksTyped
    <2> QED
      BY <1>2, <1>3, <1>5, <2>1, <2>2, QuietStep
  <1> QED
    BY <1>4, <1>5 DEF SettleChecks

(* Fulmine only adds to what it holds.                                     *)
LEMMA FulmineTakesKeeps ==
  ASSUME DelegationInv, NEW s \in Sessions, NEW c \in Coins, FulmineTakes(s, c)
  PROVE  DelegationInv'
  <1>1. /\ UNCHANGED <<session, started, base, stored, terms, blocked, coin, records>>
        /\ UNCHANGED <<known, jobs, at, pick>> /\ held \subseteq held'
    BY DEF FulmineTakes, sessionVars, policyVars, queueVars
  <1>2. wire' \subseteq Sessions \X Coins /\ held' \subseteq Sessions \X Coins
    BY DEF FulmineTakes, DelegationInv, WorldTyped
  <1>3. WorldTyped' /\ QueueTyped' /\ PicksTyped'
    BY <1>1, <1>2 DEF DelegationInv, WorldTyped, SessionTypeOK, QueueTyped, PicksTyped
  <1>4. \A t \in Sessions : /\ pick'[t].ok \subseteq pick[t].ok
                            /\ pick'[t].pending \cap known[t] = {}
    BY <1>1 DEF DelegationInv, PendingInv
  <1>5. CurrentInv' /\ HeardInv' /\ PendingInv'
    BY <1>1, <1>4, NothingHeard
  <1> QED
    BY <1>3, <1>5 DEF DelegationInv

(* The chain, the clock, the operator, and a transfer to the delegation    *)
(* address change what no queue has seen.                                  *)
LEMMA WorldKeeps ==
  ASSUME DelegationInv, WorldTyped',
         UNCHANGED <<session, started, base, stored, held, known, jobs, at, pick>>,
         \A c \in Coins : records'[c] = "delegated" => records[c] = "delegated"
  PROVE  DelegationInv'
  <1>1. QueueTyped' /\ PicksTyped'
    BY DEF DelegationInv, QueueTyped, PicksTyped
  <1> QED
    BY <1>1, QuietStep

(* The chain, the clock and the delegate's terms move on.                  *)
LEMMA EventsKeep ==
  ASSUME DelegationInv, CoinGoes \/ CooldownEnds \/ TermsChange
  PROVE  DelegationInv'
  <1>1. /\ UNCHANGED <<session, started, base, stored, held, known, jobs, at, pick>>
        /\ UNCHANGED <<blocked, wire>>
    BY DEF CoinGoes, CooldownEnds, TermsChange, sessionVars, policyVars, queueVars
  <1>2. /\ records' \in [Coins -> {"none", "delegated", "failed"}]
        /\ \A c \in Coins : records'[c] = "delegated" => records[c] = "delegated"
    BY DEF CoinGoes, CooldownEnds, TermsChange, DelegationInv, WorldTyped
  <1>3. /\ coin' \in [Coins -> {"ordinary", "live", "expired", "spent"}]
        /\ terms' \in Delegates \cup {None}
    BY DEF CoinGoes, CooldownEnds, TermsChange, policyVars, DelegationInv, WorldTyped
  <1>4. WorldTyped'
    BY <1>1, <1>2, <1>3 DEF DelegationInv, WorldTyped, SessionTypeOK
  <1> QED
    BY <1>1, <1>2, <1>4, WorldKeeps

(* A session that opens is the last one, built with what is stored.        *)
LEMMA SessionsKeep ==
  ASSUME DelegationInv, Opens \/ Ends \/ Saves,
         UNCHANGED <<policyVars, coin, records, wire, held, queueVars>>
  PROVE  DelegationInv'
  <1> USE SessionAssumption
  <1>1. UNCHANGED <<terms, blocked, coin, records, wire, held, known, jobs, at, pick>>
    BY DEF policyVars, queueVars
  <1>2. SessionTypeOK' /\ CurrentInv'
    <2>1. SessionTypeOK /\ started \in Nat
      BY DEF DelegationInv, WorldTyped, SessionTypeOK
    <2>2. CASE Opens
      <3>1. started + 1 \in Sessions
        BY <2>1, <2>2 DEF SessionTypeOK, Opens, Sessions
      <3> QED
        BY <2>1, <2>2, <3>1 DEF SessionTypeOK, Opens, CurrentInv
    <2>3. CASE Ends \/ Saves
      BY <2>1, <2>3 DEF SessionTypeOK, Ends, Saves, CurrentInv
    <2> QED
      BY <2>2, <2>3
  <1>3. WorldTyped' /\ QueueTyped' /\ PicksTyped'
    BY <1>1, <1>2 DEF DelegationInv, WorldTyped, QueueTyped, PicksTyped
  <1>4. HeardInv' /\ PendingInv'
    BY <1>1 DEF DelegationInv, HeardInv, PendingInv, Saved
  <1> QED
    BY <1>2, <1>3, <1>4 DEF DelegationInv

(* What a worker that is stopped leaves behind was true before.            *)
LEMMA DyingKeeps ==
  ASSUME DelegationInv, DelegationDies
  PROVE  DelegationInv'
  <1>1. UNCHANGED <<started, base, stored, terms, blocked, coin, records, wire, held>>
    BY DEF DelegationDies, policyVars
  <1>2. WorldTyped' /\ CurrentInv'
    BY <1>1 DEF DelegationDies, DelegationInv, WorldTyped, SessionTypeOK, CurrentInv
  <1>3. QueueTyped'
    BY EmptySeq DEF DelegationDies, QueueTyped
  <1>4. PicksTyped' /\ PendingInv'
    BY DEF DelegationDies, PicksTyped, PendingInv, NoPick, Pick
  <1>5. HeardInv'
    BY <1>1 DEF DelegationDies, DelegationInv, HeardInv, NoPick, Saved
  <1> QED
    BY <1>2, <1>3, <1>4, <1>5 DEF DelegationInv

(* Every step of the delegation keeps its invariant.                       *)
LEMMA DelegationStep == DelegationInv /\ DelegationSteps => DelegationInv'
  <1> SUFFICES ASSUME DelegationInv, DelegationSteps PROVE DelegationInv'
    OBVIOUS
  <1>1. ASSUME NEW s \in Sessions,
               \/ CatchUp(s) \/ Event(s) \/ Chooses(s)
               \/ JobEnds(s) \/ RepairFails(s) \/ RecordFails(s) \/ Settles(s)
               \/ \E c \in Coins : FulmineTakes(s, c)
        PROVE  DelegationInv'
    BY <1>1, CatchUpKeeps, AsksKeep, SelectsKeeps, CheckPassesKeeps, CheckFailsKeeps,
       OthersEndKeep, AnswerKeeps, RecordsKeeps, SettleChecksKeeps, FulmineTakesKeeps
    DEF JobEnds
  <1>2. CASE CoinGoes \/ CooldownEnds \/ TermsChange
    BY <1>2, EventsKeep
  <1>3. CASE /\ Ends \/ Saves \/ Reopens
             /\ UNCHANGED <<policyVars, coin, records, wire, held, queueVars>>
    BY <1>3, SessionsKeep DEF Reopens
  <1> QED
    BY <1>1, <1>2, <1>3 DEF DelegationSteps

----------------------------------------------------------------------------
(* The reviews.                                                            *)

(* What was opened stays what it was, and sessions are only added.         *)
PastStays == started' >= started /\ \A s \in 1..started : base'[s] = base[s]

(* Every step of the delegation leaves the past alone.                     *)
LEMMA PastStands ==
  ASSUME DelegationInv, DelegationSteps \/ DelegationDies \/ UNCHANGED <<started, base>>
  PROVE  PastStays
  <1> USE SessionAssumption
  <1>1. started \in Nat /\ base \in [Sessions -> Config]
    BY DEF DelegationInv, WorldTyped, SessionTypeOK
  <1>2. UNCHANGED <<started, base>> \/ Opens
    <2>1. ASSUME NEW s \in Sessions, CatchUp(s) \/ Event(s) \/ Chooses(s) \/ JobEnds(s)
          PROVE  UNCHANGED sessionVars
      BY <2>1 DEF JobEnds, CatchUp, Event, Chooses, Selects, CheckPasses, CheckFails,
                  FindsLocked, Answer, Records, SettleChecks, SettleFails
    <2>2. ASSUME NEW s \in Sessions,
                 \/ RepairFails(s) \/ RecordFails(s) \/ Settles(s)
                 \/ \E c \in Coins : FulmineTakes(s, c)
          PROVE  UNCHANGED sessionVars
      BY <2>2 DEF RepairFails, RecordFails, Settles, FulmineTakes
    <2>3. CASE CoinGoes \/ CooldownEnds \/ TermsChange
      BY <2>3 DEF CoinGoes, CooldownEnds, TermsChange, sessionVars
    <2>4. CASE Ends \/ Saves \/ Reopens \/ DelegationDies \/ UNCHANGED <<started, base>>
      BY <2>4 DEF Ends, Saves, Reopens, DelegationDies
    <2> QED
      BY <2>1, <2>2, <2>3, <2>4 DEF DelegationSteps, sessionVars
  <1>3. CASE UNCHANGED <<started, base>>
    BY <1>1, <1>3 DEF PastStays
  <1>4. CASE Opens
    BY <1>1, <1>4 DEF Opens, PastStays
  <1> QED
    BY <1>2, <1>3, <1>4

(* So the numbers of the sessions that were opened only grow.              *)
LEMMA NumbersGrow ==
  ASSUME DelegationInv, DelegationInv', PastStays
  PROVE  1..started \subseteq 1..started'
  BY SessionAssumption DEF DelegationInv, WorldTyped, SessionTypeOK, PastStays

(* A review that is new, or over, has nothing in it.                       *)
LEMMA BlankReviews ==
  /\ Blank \in Review /\ Over \in Review /\ Over.at = "over" /\ Blank.at = "new"
  /\ ~Over.executed /\ ~Blank.executed
  BY DEF Blank, Over, Review

(* A review that ends no longer claims anything, and one that is blank has *)
(* claimed nothing yet.                                                    *)
LEMMA DoneIsOK ==
  ASSUME NEW r \in Reviews, review'[r] \in {Blank, Over}
  PROVE  ReviewOK(r)'
  BY BlankReviews DEF ReviewOK

(* A review that a step leaves alone keeps what it claims, when those that *)
(* are over stay over and the wallet keeps it in hand.                     *)
LEMMA OthersStayOK ==
  ASSUME MigrationInv, DelegationInv', PastStays,
         NEW r \in Reviews, review'[r] = review[r],
         \A q \in Reviews : review[q].at = "over" => review'[q].at = "over",
         review[r].at \in {"checking", "checked"} => entry'[review[r].by] = entry[review[r].by]
  PROVE  ReviewOK(r)'
  <1> USE SessionAssumption
  <1>1. ReviewOK(r) /\ review[r] \in Review
    BY DEF MigrationInv, ReviewInv, ReviewTyped
  <1>2. review[r].at \notin {"new", "over"}
        => review[r].by \in 1..started' /\ Enabled(review[r].by)'
    BY <1>1, NumbersGrow DEF MigrationInv, ReviewOK, PastStays, Enabled
  <1>3. review[r].executed =>
          review[r].found # None /\ review'[review[r].found].at = "over"
    BY <1>1 DEF ReviewOK, Review
  <1> QED
    BY <1>1, <1>2, <1>3 DEF ReviewOK, Enabled

(* A step that moves one review.                                           *)
LEMMA OneMoves ==
  ASSUME MigrationInv, DelegationInv', PastStays, NEW r \in Reviews, NEW new \in Review,
         review' = [review EXCEPT ![r] = new], review[r].at # "over",
         entry' \in [Sessions -> Reviews \cup {None}],
         \A q \in Reviews \ {r} : review[q].at \in {"checking", "checked"} =>
                                    entry'[review[q].by] = entry[review[q].by],
         ReviewOK(r)'
  PROVE  MigrationInv'
  <1>1. /\ review' \in [Reviews -> Review] /\ review'[r] = new
        /\ \A q \in Reviews : q # r => review'[q] = review[q]
    BY DEF MigrationInv, ReviewTyped
  <1>2. \A q \in Reviews : review[q].at = "over" => review'[q].at = "over"
    BY <1>1
  <1>3. \A q \in Reviews \ {r} : ReviewOK(q)'
    BY <1>1, <1>2, OthersStayOK
  <1> QED
    BY <1>1, <1>3 DEF MigrationInv, ReviewTyped, ReviewInv

(* A step that ends a review.                                              *)
LEMMA OneFinishes ==
  ASSUME MigrationInv, DelegationInv', PastStays, NEW r \in Reviews, Finishes(r),
         review[r].at # "over", UNCHANGED entry
  PROVE  MigrationInv'
  <1>1. review' = [review EXCEPT ![r] = Over] /\ Over \in Review
    BY BlankReviews DEF Finishes
  <1>2. ReviewOK(r)'
    BY <1>1, DoneIsOK DEF MigrationInv, ReviewTyped
  <1>3. entry' \in [Sessions -> Reviews \cup {None}]
    BY DEF MigrationInv, ReviewTyped
  <1> QED
    BY <1>1, <1>2, <1>3, OneMoves

(* A step that moves a review on, and leaves the rest of it.               *)
LEMMA OneTurns ==
  ASSUME MigrationInv, DelegationInv', PastStays, NEW r \in Reviews,
         NEW where \in {"shown", "checking", "checked"}, Turns(r, where),
         review[r].at \notin {"new", "over"},
         entry' \in [Sessions -> Reviews \cup {None}],
         \A q \in Reviews \ {r} : review[q].at \in {"checking", "checked"} =>
                                    entry'[review[q].by] = entry[review[q].by],
         where # "shown" => entry'[review[r].by] = r
  PROVE  MigrationInv'
  <1> USE SessionAssumption
  <1> DEFINE new == [review[r] EXCEPT !.at = where]
  <1>1. review[r] \in Review /\ ReviewOK(r)
    BY DEF MigrationInv, ReviewTyped, ReviewInv
  <1>2. /\ new \in Review /\ new.at = where /\ new.by = review[r].by
        /\ new.found = review[r].found /\ new.executed = review[r].executed
    BY <1>1 DEF Review
  <1>3. review' = [review EXCEPT ![r] = new]
    BY DEF Turns
  <1> HIDE DEF new
  <1>4. review'[r] = new /\ \A q \in Reviews : q # r => review'[q] = review[q]
    BY <1>3 DEF MigrationInv, ReviewTyped
  <1>5. /\ review[r].by \in 1..started'
        /\ base'[review[r].by] # None /\ base'[review[r].by].enabled
    BY <1>1, NumbersGrow DEF MigrationInv, ReviewOK, PastStays, Enabled
  <1>6. review[r].executed => review[r].found # None /\ review'[review[r].found].at = "over"
    <2>1. review[r].executed => review[r].found \in Reviews \ {r}
      BY <1>1 DEF ReviewOK, Review
    <2> QED
      BY <1>1, <1>4, <2>1 DEF ReviewOK
  <1>7. ReviewOK(r)'
    BY <1>2, <1>4, <1>5, <1>6 DEF ReviewOK, Enabled
  <1> QED
    BY <1>2, <1>3, <1>7, OneMoves

(* A review is prepared for a session that enabled delegation, and never   *)
(* beside a transfer.                                                      *)
LEMMA PrepareKeeps ==
  ASSUME MigrationInv, NEW r \in Reviews, Prepare(r), DelegationInv'
  PROVE  MigrationInv'
  <1> USE SessionAssumption, MigrationAssumption
  <1> DEFINE new == [Blank EXCEPT !.at = "reading", !.by = session,
                       !.found = entry[session], !.executed = Executed(entry[session])]
  <1>1. /\ UNCHANGED <<started, base, stored, session, entry>> /\ review[r].at = "new"
        /\ review' = [review EXCEPT ![r] = new]
    BY DEF Prepare, delegationVars, sessionVars
  <1>2. /\ session \in Sessions /\ session \in 1..started
        /\ base[session] = stored /\ Enabled(session)
    BY DEF Prepare, Approved, Enabled, MigrationInv, DelegationInv, CurrentInv, WorldTyped,
           SessionTypeOK, Sessions
  <1>3. entry[session] \in Reviews \cup {None} /\ Executed(entry[session]) \in BOOLEAN
    BY <1>2 DEF MigrationInv, ReviewTyped, Executed
  <1>4. /\ new \in Review /\ new.at = "reading" /\ new.by = session
        /\ new.found = entry[session] /\ new.executed = Executed(entry[session])
    BY <1>2, <1>3 DEF Blank, Review
  <1> HIDE DEF new
  <1>5. Executed(entry[session]) =>
          /\ entry[session] \in Reviews \ {r}
          /\ review[entry[session]].at = "over"
    BY <1>1, <1>3 DEF Prepare, Executed, Transferring
  <1>6. review'[r] = new /\ \A q \in Reviews : q # r => review'[q] = review[q]
    BY <1>1 DEF MigrationInv, ReviewTyped
  <1>7. ReviewOK(r)'
    BY <1>1, <1>2, <1>4, <1>5, <1>6 DEF ReviewOK, Enabled
  <1>8. PastStays /\ entry' \in [Sessions -> Reviews \cup {None}]
    BY <1>1, PastStands DEF MigrationInv, ReviewTyped
  <1> QED
    BY <1>1, <1>4, <1>7, <1>8, OneMoves

(* What the indexer confirms is read into the review.                      *)
LEMMA ReadsKeeps ==
  ASSUME MigrationInv, NEW r \in Reviews, PrepareReads(r), DelegationInv'
  PROVE  MigrationInv'
  <1> USE SessionAssumption
  <1>1. UNCHANGED <<started, base, entry>> /\ review[r].at = "reading"
    BY DEF PrepareReads, delegationVars, sessionVars
  <1>2. PastStays
    BY <1>1, PastStands DEF MigrationInv
  <1>3. CASE Finishes(r)
    BY <1>1, <1>2, <1>3, OneFinishes
  <1>4. CASE review' = [review EXCEPT ![r].at = "read", ![r].inputs = Ordinary]
    <2> DEFINE new == [review[r] EXCEPT !.at = "read", !.inputs = Ordinary]
    <2>1. review[r] \in Review /\ ReviewOK(r)
      BY DEF MigrationInv, ReviewTyped, ReviewInv
    <2>2. /\ new \in Review /\ new.at = "read" /\ new.by = review[r].by
          /\ new.found = review[r].found /\ new.executed = review[r].executed
      BY <2>1 DEF Review, Ordinary
    <2>3. review' = [review EXCEPT ![r] = new]
      BY <1>4 DEF MigrationInv, ReviewTyped
    <2> HIDE DEF new
    <2>4. review'[r] = new /\ \A q \in Reviews : q # r => review'[q] = review[q]
      BY <2>3 DEF MigrationInv, ReviewTyped
    <2>5. review[r].executed => review[r].found \in Reviews \ {r}
      BY <1>1, <2>1 DEF ReviewOK, Review
    <2>6. ReviewOK(r)'
      BY <1>1, <2>1, <2>2, <2>4, <2>5 DEF ReviewOK, Enabled
    <2>7. entry' \in [Sessions -> Reviews \cup {None}]
      BY <1>1 DEF MigrationInv, ReviewTyped
    <2> QED
      BY <1>1, <1>2, <2>2, <2>3, <2>6, <2>7, OneMoves
  <1> QED
    BY <1>3, <1>4 DEF PrepareReads

(* A review that is shown replaces none that is transferring: what it was  *)
(* prepared beside has not been executed since.                            *)
LEMMA ShowsKeeps ==
  ASSUME MigrationInv, NEW r \in Reviews, PrepareShows(r), DelegationInv'
  PROVE  MigrationInv'
  <1> USE SessionAssumption, MigrationAssumption
  <1>1. UNCHANGED <<started, base>> /\ review[r].at = "read"
    BY DEF PrepareShows, delegationVars, sessionVars
  <1>2. PastStays
    BY <1>1, PastStands DEF MigrationInv
  <1>3. CASE Finishes(r) /\ UNCHANGED entry
    BY <1>1, <1>2, <1>3, OneFinishes
  <1>4. CASE /\ Undisturbed(r) /\ Turns(r, "shown")
             /\ entry' = [entry EXCEPT ![review[r].by] = r]
    <2>1. entry' \in [Sessions -> Reviews \cup {None}]
      BY <1>4 DEF MigrationInv, ReviewTyped
    <2>2. ASSUME NEW q \in Reviews \ {r}, review[q].at \in {"checking", "checked"}
          PROVE  entry'[review[q].by] = entry[review[q].by]
      <3>1. ReviewOK(q) /\ ReviewOK(r)
        BY DEF MigrationInv, ReviewInv
      <3>2. review[q].by # review[r].by
        <4> SUFFICES ASSUME review[q].by = review[r].by PROVE FALSE
          OBVIOUS
        <4>1. review[r].found = q
          BY <1>4, <2>2, <3>1 DEF Undisturbed, ReviewOK
        <4>2. Executed(q)
          BY <2>2 DEF Executed
        <4>3. review[r].executed
          BY <1>4, <4>1, <4>2 DEF Undisturbed
        <4>4. review[q].at = "over"
          BY <3>1, <4>1, <4>3 DEF ReviewOK
        <4> QED
          BY <2>2, <4>4
      <3> QED
        BY <1>4, <3>2 DEF MigrationInv, ReviewTyped
    <2> QED
      BY <1>1, <1>2, <1>4, <2>1, <2>2, OneTurns
  <1> QED
    BY <1>3, <1>4 DEF PrepareShows

(* A review is executed, and its transfer goes on, while its wallet has it *)
(* in hand.                                                                *)
LEMMA ExecuteKeeps ==
  ASSUME MigrationInv, NEW r \in Reviews,
         Execute(r) \/ MoveChecks(r) \/ Moves(r) \/ MoveFails(r), DelegationInv'
  PROVE  MigrationInv'
  <1>1. /\ UNCHANGED <<started, base, entry>>
        /\ review[r].at \in {"shown", "checking", "checked"}
    BY DEF Execute, MoveChecks, Moves, MoveFails, delegationVars, sessionVars
  <1>2. PastStays /\ entry' \in [Sessions -> Reviews \cup {None}]
    BY <1>1, PastStands DEF MigrationInv, ReviewTyped
  <1>3. CASE Finishes(r)
    BY <1>1, <1>2, <1>3, OneFinishes
  <1>4. CASE Execute(r) \/ (MoveChecks(r) /\ Turns(r, "checked"))
    <2>1. entry[review[r].by] = r
      BY <1>4 DEF Execute, MoveChecks, MigrationInv, ReviewInv, ReviewOK
    <2> QED
      BY <1>1, <1>2, <1>4, <2>1, OneTurns DEF Execute
  <1> QED
    BY <1>3, <1>4 DEF MoveChecks, Moves, MoveFails

(* The transfer changes nothing of the delegation but the coins it moves.  *)
LEMMA MovesKeeps ==
  ASSUME DelegationInv, NEW r \in Reviews, Moves(r)
  PROVE  DelegationInv'
  <1>1. /\ UNCHANGED <<session, started, base, stored, held, known, jobs, at, pick>>
        /\ UNCHANGED <<terms, blocked, records, wire>>
    BY DEF Moves, sessionVars, policyVars, queueVars
  <1>2. coin' \in [Coins -> {"ordinary", "live", "expired", "spent"}]
    BY DEF Moves, DelegationInv, WorldTyped
  <1>3. WorldTyped'
    BY <1>1, <1>2 DEF DelegationInv, WorldTyped, SessionTypeOK
  <1> QED
    BY <1>1, <1>3, WorldKeeps

(* A step of a review leaves the delegation as it was.                     *)
LEMMA StillKeeps ==
  ASSUME DelegationInv, UNCHANGED delegationVars
  PROVE  DelegationInv'
  BY DEF delegationVars, sessionVars, policyVars, queueVars, DelegationInv, WorldTyped,
         SessionTypeOK, QueueTyped, PicksTyped, CurrentInv, HeardInv, PendingInv, Saved

(* What leaves the reviews alone.                                          *)
LEMMA ReviewsStay ==
  ASSUME MigrationInv, DelegationInv', PastStays, UNCHANGED migrationVars
  PROVE  MigrationInv'
  <1>1. UNCHANGED <<entry, review>>
    BY DEF migrationVars
  <1>2. \A r \in Reviews : ReviewOK(r)'
    BY <1>1, OthersStayOK
  <1> QED
    BY <1>1, <1>2 DEF MigrationInv, ReviewTyped, ReviewInv

(* Before a review was prepared there is nothing to keep.                  *)
LEMMA MigrationBegins == Init => MigrationInv
  <1> SUFFICES ASSUME Init PROVE MigrationInv
    OBVIOUS
  <1>1. DelegationInv
    BY DelegationBegins DEF Init
  <1>2. ReviewTyped
    BY BlankReviews DEF Init, ReviewTyped
  <1>3. ReviewInv
    BY BlankReviews DEF Init, ReviewInv, ReviewOK
  <1> QED
    BY <1>1, <1>2, <1>3 DEF MigrationInv

(* Every step, of the delegation or of a review, keeps the invariant.      *)
LEMMA MigrationStep == MigrationInv /\ [Next]_vars => MigrationInv'
  <1> SUFFICES ASSUME MigrationInv, [Next]_vars PROVE MigrationInv'
    OBVIOUS
  <1>0. DelegationInv
    BY DEF MigrationInv
  <1>1. ASSUME NEW r \in Reviews, Prepare(r) \/ PrepareReads(r) \/ PrepareShows(r)
        PROVE  MigrationInv'
    <2>1. DelegationInv'
      BY <1>0, <1>1, StillKeeps DEF Prepare, PrepareReads, PrepareShows
    <2> QED
      BY <1>1, <2>1, PrepareKeeps, ReadsKeeps, ShowsKeeps
  <1>2. ASSUME NEW r \in Reviews, Execute(r) \/ MoveChecks(r) \/ Moves(r) \/ MoveFails(r)
        PROVE  MigrationInv'
    <2>1. DelegationInv'
      BY <1>0, <1>2, StillKeeps, MovesKeeps DEF Execute, MoveChecks, MoveFails
    <2> QED
      BY <1>2, <2>1, ExecuteKeeps
  <1>3. CASE DelegationSteps /\ UNCHANGED migrationVars
    BY <1>0, <1>3, DelegationStep, PastStands, ReviewsStay
  <1>4. CASE WorkerDies
    <2>1. DelegationInv'
      BY <1>0, <1>4, DyingKeeps DEF WorkerDies
    <2>2. ReviewTyped'
      BY <1>4, BlankReviews DEF WorkerDies, ReviewTyped
    <2>3. ReviewInv'
      BY <1>4, DoneIsOK DEF WorkerDies, ReviewInv
    <2> QED
      BY <2>1, <2>2, <2>3 DEF MigrationInv
  <1>5. CASE UNCHANGED vars
    <2>1. UNCHANGED delegationVars /\ UNCHANGED migrationVars /\ UNCHANGED <<started, base>>
      BY <1>5 DEF vars, delegationVars, sessionVars
    <2> QED
      BY <1>0, <2>1, StillKeeps, PastStands, ReviewsStay
  <1> QED
    BY <1>1, <1>2, <1>3, <1>4, <1>5 DEF Next

(* The inductive invariant of the delegation and of the reviews.           *)
THEOREM MigrationInvariant == Spec => []MigrationInv
  BY MigrationBegins, MigrationStep, PTL DEF Spec

----------------------------------------------------------------------------
(* What follows.                                                           *)

(* The delegation of coins and the reviews keep their types.               *)
THEOREM DelegationTypes == Spec => []TypeOK
  <1>1. MigrationInv => TypeOK
    BY TypesAre DEF MigrationInv, DelegationInv
  <1> QED
    BY <1>1, MigrationInvariant, PTL

(* A coin that is shown as delegated has been accepted by the delegate,    *)
(* whatever timed out, was answered late or was repaired on the way        *)
(* (delegation-settings.ts:181-183, delegation-submissions.ts:251-263).    *)
THEOREM StatusIsHonest == Spec => []ShownHonestly
  <1>1. MigrationInv => ShownHonestly
    BY DEF MigrationInv, DelegationInv, HeardInv, ShownHonestly, Status, Saved
  <1> QED
    BY <1>1, MigrationInvariant, PTL

(* Something is posted only by a check that passes, and is what the check  *)
(* had picked.                                                             *)
LEMMA OnlyChecksPost ==
  ASSUME [Next]_vars, NEW s \in Sessions, NEW c \in Coins, <<s, c>> \in wire' \ wire,
         MigrationInv
  PROVE  CheckPasses(s) /\ c \in pick[s].pending
  <1>1. PICK t \in Sessions : CheckPasses(t)
    BY DEF Next, Prepare, PrepareReads, PrepareShows, Execute, MoveChecks, Moves, MoveFails,
           WorkerDies, DelegationDies, DelegationSteps, JobEnds, CatchUp, Event, Chooses,
           Selects, CheckFails, FindsLocked, Answer, Records, SettleChecks, SettleFails,
           RepairFails, RecordFails, Settles, FulmineTakes, CoinGoes, CooldownEnds,
           TermsChange, vars, delegationVars
  <1>2. <<s, c>> \in {t} \X pick[t].pending
    BY <1>1 DEF CheckPasses
  <1> QED
    BY <1>1, <1>2

(* A coin the delegate has been heard to accept is not posted again by the *)
(* same session (delegation-submissions.ts:95-97).                         *)
THEOREM PostsOnce == Spec => PostedOnce
  <1>1. MigrationInv /\ [Next]_vars =>
          [\A s \in Sessions, c \in Coins :
             <<s, c>> \in wire' \ wire => c \notin known[s]]_delegationVars
    BY OnlyChecksPost DEF MigrationInv, DelegationInv, PendingInv
  <1> QED
    BY <1>1, MigrationInvariant, PTL DEF Spec, PostedOnce

(* Nothing is posted when delegation is stored as paused, nor by a session *)
(* that met other terms or has ended (delegation-provider.ts:118-131).     *)
THEOREM PostsUnderApproval == Spec => PostedUnderApproval
  <1>1. ASSUME MigrationInv, [Next]_vars, NEW s \in Sessions, NEW c \in Coins,
               <<s, c>> \in wire' \ wire
        PROVE  Live(s) /\ s \notin blocked /\ stored # None /\ stored.enabled
    <2>1. Live(s) /\ Allowed(s)
      BY <1>1, OnlyChecksPost DEF CheckPasses
    <2>2. session # 0 /\ base[s] = stored
      BY <1>1, <2>1, SessionAssumption
      DEF MigrationInv, DelegationInv, CurrentInv, Live, Sessions
    <2> QED
      BY <2>1, <2>2 DEF Allowed, Enabled
  <1>2. MigrationInv /\ [Next]_vars =>
          [\A s \in Sessions, c \in Coins : <<s, c>> \in wire' \ wire =>
             /\ Live(s) /\ s \notin blocked
             /\ stored # None /\ stored.enabled]_delegationVars
    BY <1>1
  <1> QED
    BY <1>2, MigrationInvariant, PTL DEF Spec, PostedUnderApproval

(* Automation settles no unexpired coin this session knows to be accepted  *)
(* (delegation-automation.ts:113-128).                                     *)
THEOREM SettlementsSpare == Spec => SettleSparesAccepted
  <1>1. [Next]_vars =>
          [\A s \in Sessions : Settles(s) =>
             \A c \in Running(s).coins : coin[c] = "live" => c \notin known[s]]_delegationVars
    BY DEF Settles, Available, LeftToUs, Accepted
  <1> QED
    BY <1>1, PTL DEF Spec, SettleSparesAccepted

(* Coins are moved only by the review the wallet has in hand, under the    *)
(* delegation in force, and by a session that enabled it                   *)
(* (delegation-migration.ts:67-73, 99-117).                                *)
THEOREM MovesUnderApproval == Spec => MovedUnderApproval
  <1>1. ASSUME MigrationInv, NEW r \in Reviews, Moves(r)
        PROVE  /\ entry[review[r].by] = r /\ Enabled(review[r].by)
               /\ stored = base[review[r].by]
    <2>1. review[r].at = "checked" /\ review[r].by = session
      BY <1>1 DEF Moves, Signs, Live
    <2>2. entry[review[r].by] = r /\ review[r].by \in 1..started /\ Enabled(review[r].by)
      BY <1>1, <2>1 DEF MigrationInv, ReviewInv, ReviewOK
    <2>3. session # 0
      BY <2>1, <2>2
    <2> QED
      BY <1>1, <2>1, <2>2, <2>3 DEF MigrationInv, DelegationInv, CurrentInv
  <1>2. MigrationInv /\ [Next]_vars =>
          [\A r \in Reviews : Moves(r) =>
             LET s == review[r].by
             IN entry[s] = r /\ Enabled(s) /\ stored = base[s]]_vars
    BY <1>1
  <1> QED
    BY <1>2, MigrationInvariant, PTL DEF Spec, MovedUnderApproval
=============================================================================
