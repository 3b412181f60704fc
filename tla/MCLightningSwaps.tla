-------------------------- MODULE MCLightningSwaps --------------------------
(* Model-checking instances of LightningSwaps. *)
EXTENDS LightningSwaps

Leftovers ==
  {b \in Builds : build[b].at = "creating"} \cup {m \in Managers : manager[m].at = "creating"}

NoSwapYet == \A k \in Swaps : swap[k].fate = "none"

\* Nothing is left over, and the wallet and its manager have the first names.
Tidy ==
  /\ Leftovers = {}
  /\ \A b \in Builds : build[b].at = "alive" => b = CHOOSE x \in Builds : TRUE
  /\ \A m \in Managers : manager[m].at = "alive" => m = CHOOSE x \in Managers : TRUE

(* Calls that have only to find their session over do so before the next   *)
(* one begins, and at most one build or manager is left over then.  A swap *)
(* is made when there are no leftovers; what does not concern it is left   *)
(* out from there on: leftovers, snapshots, further payments and the       *)
(* refresh's growing old.                                                  *)
MCNext ==
  /\ Next
  /\ ~unlocked /\ unlocked' =>
       /\ \A c \in Calls : call[c].at \in {"idle", "asking", "refreshing", "creating"}
       /\ IF NoSwapYet THEN \A x, y \in Leftovers : x = y ELSE Leftovers = {}
  /\ NoSwapYet /\ swap' # swap => Tidy
  /\ ~NoSwapYet =>
       /\ \A b \in Builds : build[b].late => build'[b].late \/ build'[b].at = "none"
       /\ \A b \in Builds : ~build[b].late => ~build'[b].late
       /\ \A c \in Calls : At(c, "idle") => call'[c].kind \notin {"snapshot", "pay"}
       /\ fresh /\ ~fresh' => unlocked # unlocked'

MCSpec == Init /\ [][MCNext]_walletVars /\ Fairness
=============================================================================
