---------------------------- MODULE MCDelegation ----------------------------
(* Model-checking instances of DelegationMigration. *)
EXTENDS DelegationMigration

CONSTANTS r1, r2  \* the reviews, in the order in which they start

UnderWay == \E r \in Reviews : review[r].at \notin {"new", "over"}

(* A review starts only where there is something to move, and beside it    *)
(* a queue holds one job: what more jobs do shows without reviews.         *)
MCNext ==
  /\ Next
  /\ review'[r1].at = "new" => review'[r2].at = "new"
  /\ UnderWay' => \A s \in Sessions : Len(jobs'[s]) <= 1
  /\ \A r \in Reviews : review'[r].at = "reading" => Ordinary # {}

MCSpec == Init /\ [][MCNext]_vars /\ Fairness
=============================================================================
