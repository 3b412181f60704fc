---------------------------- MODULE MCWalletCoins ----------------------------
(* Model-checking instances of WalletCoins. *)
EXTENDS WalletCoins

CONSTANTS k1, k2  \* the coins

\* Delegation is enabled, or not, from the start.
MCInit ==
  /\ CoinsInit
  /\ stored # None => stored.enabled
  /\ coin[k1].age = "soon"
  /\ coin[k2].age = "soon" \/ (coin[k2].age = "deposit" /\ stored = None)

(* Without delegation a second session is opened for what the first one    *)
(* left under way, and only the alarm starts more in it.  Picked coins are *)
(* sent whole.                                                             *)
MCNext ==
  /\ CoinsNext
  /\ stored' = stored
  /\ started' = 2 /\ started = 1 => stored = None /\ \E w \in Workers : call[w].at # "idle"
  /\ started = 2 => \A w \in Calls : call[w].at = "idle" => call'[w].at = "idle"
  /\ \A w \in Calls : call'[w].at = "selecting" => call'[w].amount = Cardinality(call'[w].seen)

MCSpec == MCInit /\ [][MCNext]_walletVars /\ CoinsFairness
=============================================================================
