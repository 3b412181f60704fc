------------------------- MODULE DelegationMigration -------------------------
(***************************************************************************)
(* Moving ordinary coins to the delegation address                         *)
(* (delegation-migration.ts), amid the delegation of the others: a review  *)
(* is prepared from what the indexer confirms, the user executes it once,  *)
(* and the transfer looks at the coins again before it spends them.        *)
(***************************************************************************)
EXTENDS Delegation

CONSTANT Reviews  \* calls that prepare a review, which then carries their name

ASSUME MigrationAssumption == None \notin Reviews

VARIABLES
  entry,    \* migrations: the latest review of each session's wallet
  review    \* how far each review, or the transfer it started, is

migrationVars == <<entry, review>>
vars == <<delegationVars, migrationVars>>

Review == [at: {"new", "reading", "read", "shown", "checking", "checked", "over"},
           by: {0} \cup Sessions,
           inputs: SUBSET Coins,          \* the coins the user is shown
           found: Reviews \cup {None},    \* the entry its preparation found,
           executed: BOOLEAN]             \* and whether that had a result
Blank == [at |-> "new", by |-> 0, inputs |-> {}, found |-> None, executed |-> FALSE]
Over == [Blank EXCEPT !.at = "over"]

TypeOK ==
  /\ DelegationTypeOK
  /\ entry \in [Sessions -> Reviews \cup {None}]
  /\ review \in [Reviews -> Review]

Init ==
  /\ DelegationInit
  /\ entry = [s \in Sessions |-> None] /\ review = [r \in Reviews |-> Blank]

Turns(r, where) == review' = [review EXCEPT ![r].at = where]
Finishes(r) == review' = [review EXCEPT ![r] = Over]

\* A review's result promise exists once it is executed.
Executed(r) == r # None /\ review[r].at \in {"checking", "checked", "over"}
Transferring(r) == r # None /\ review[r].at \in {"checking", "checked"}

Approved == stored # None /\ stored.enabled

Prepare(r) ==
  /\ review[r].at = "new" /\ session # 0
  /\ Approved
  /\ ~Transferring(entry[session])
  /\ review' = [review EXCEPT ![r] = [Blank EXCEPT !.at = "reading", !.by = session,
                  !.found = entry[session], !.executed = Executed(entry[session])]]
  /\ UNCHANGED <<delegationVars, entry>>

PrepareReads(r) ==
  /\ review[r].at = "reading"
  /\ IF Ordinary # {}
     THEN review' = [review EXCEPT ![r].at = "read", ![r].inputs = Ordinary]
     ELSE Finishes(r)
  /\ UNCHANGED <<delegationVars, entry>>

Undisturbed(r) ==
  /\ entry[review[r].by] = review[r].found
  /\ Executed(review[r].found) = review[r].executed

PrepareShows(r) ==
  /\ review[r].at = "read"
  /\ IF Live(review[r].by) /\ Undisturbed(r)
     THEN entry' = [entry EXCEPT ![review[r].by] = r] /\ Turns(r, "shown")
     ELSE Finishes(r) /\ UNCHANGED entry
  /\ UNCHANGED delegationVars

\* Confirming again, or a review that was replaced, starts nothing.
Execute(r) ==
  /\ review[r].at = "shown" /\ Live(review[r].by) /\ entry[review[r].by] = r
  /\ Turns(r, "checking")
  /\ UNCHANGED <<delegationVars, entry>>

\* Approval, live terms, address and every input are looked at again.
StillMoves(r) ==
  /\ Live(review[r].by) /\ Approved /\ terms = stored.delegate
  /\ review[r].inputs \subseteq Ordinary

MoveChecks(r) ==
  /\ review[r].at = "checking"
  /\ \/ StillMoves(r) /\ Turns(r, "checked")
     \/ Finishes(r)
  /\ UNCHANGED <<delegationVars, entry>>

\* Mutant of Signs: the identity signs for whoever asks.
SignsAnyway(r) == review[r].by \in Sessions

\* The session's identity signs while the session lives.
Signs(r) == Live(review[r].by)

\* The operator takes all inputs or none, and the new coin is the delegate's to
\* renew: a catch-up is asked for.  Its answer may be lost, or the SDK refuse.
Moves(r) ==
  /\ review[r].at = "checked" /\ Signs(r)
  /\ review[r].inputs \subseteq Ordinary
  /\ coin' = [c \in Coins |-> IF c \in review[r].inputs THEN "live" ELSE coin[c]]
  /\ Finishes(r)
  /\ UNCHANGED <<sessionVars, policyVars, records, wire, held, queueVars, entry>>

MoveFails(r) ==
  /\ review[r].at = "checked"
  /\ Finishes(r)
  /\ UNCHANGED <<delegationVars, entry>>

WorkerDies ==
  /\ DelegationDies
  /\ entry' = [s \in Sessions |-> None]
  /\ review' = [r \in Reviews |-> IF review[r].at = "new" THEN Blank ELSE Over]

Next ==
  \/ \E r \in Reviews :
       Prepare(r) \/ PrepareReads(r) \/ PrepareShows(r) \/ Execute(r)
       \/ MoveChecks(r) \/ Moves(r) \/ MoveFails(r)
  \/ DelegationSteps /\ UNCHANGED migrationVars
  \/ WorkerDies

Spec == Init /\ [][Next]_vars

Asked(A) == A /\ UNCHANGED migrationVars

\* The alarm and the SDK's loop keep asking; storage and the operator answer
\* if asked again and again; what runs in the worker runs on.
Fairness ==
  /\ WF_vars(Asked(\E s \in Sessions : JobEnds(s)))
  /\ SF_vars(Asked(CatchUp(session))) /\ SF_vars(Asked(Chooses(session)))
  /\ SF_vars(Asked(\E s \in Sessions : Selects(s) /\ Unsaved(s) # {}))
  /\ SF_vars(Asked(\E s \in Sessions : Settles(s)))

FairSpec == Spec /\ Fairness

----------------------------------------------------------------------------
(* Properties.                                                             *)

(* Coins are moved only by the review the wallet has in hand, under the    *)
(* delegation in force, and by a session that enabled it, however long the *)
(* user read the review while settings, terms and coins changed and other  *)
(* reviews were prepared: nobody is given a second review, and with it a   *)
(* second transfer, of funds on the move                                   *)
(* (delegation-migration.ts:67-73, 99-117).                                *)
MovedUnderApproval ==
  [][\A r \in Reviews : Moves(r) =>
       LET s == review[r].by
       IN entry[s] = r /\ Enabled(s) /\ stored = base[s]]_vars
=============================================================================
