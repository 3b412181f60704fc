------------------------ MODULE LightningSwapsProofs ------------------------
(***************************************************************************)
(* What holds of the wallet, the swap manager and the swaps for any number *)
(* of calls, builds, managers and swaps, and any amount.                   *)
(***************************************************************************)
EXTENDS LightningSwaps, TLAPS

CallsTyped == call \in [Calls -> [kind: Kind \cup {None}, at: Stage, own: BOOLEAN]]
BuildsTyped ==
  build \in [Builds -> [at: {"none", "creating", "alive"}, own: BOOLEAN, late: BOOLEAN]]
ManagersTyped == manager \in [Managers -> [at: {"none", "creating", "alive"}, own: BOOLEAN]]
DealsTyped == deal \in [Calls -> [held: BOOLEAN, swaps: SUBSET Swaps]]
SwapsTyped ==
  swap \in [Swaps -> [kind: {"pay", "receive", None}, fate: Fate, saved: Fate \ {"back"},
                      refunded: BOOLEAN, ask: Nat, ours: BOOLEAN]]

EveryTyped ==
  /\ unlocked \in BOOLEAN /\ fresh \in BOOLEAN /\ synced \in BOOLEAN
  /\ CallsTyped /\ BuildsTyped /\ ManagersTyped /\ watch \subseteq Swaps
  /\ DealsTyped /\ SwapsTyped

----------------------------------------------------------------------------
(* What the operators that the actions share do, field by field.           *)

(* A call that goes on keeps its kind and its owner.                       *)
LEMMA CallGoes ==
  ASSUME CallsTyped, NEW c \in Calls, NEW where \in Stage, Goes(c, where)
  PROVE  /\ CallsTyped'
         /\ \A d \in Calls : d # c => call'[d] = call[d]
         /\ call'[c].at = where /\ call'[c].kind = call[c].kind /\ call'[c].own = call[c].own
  BY DEF CallsTyped, Goes

(* A call that is over leaves its place idle.                              *)
LEMMA CallOver ==
  ASSUME CallsTyped, NEW c \in Calls, Over(c)
  PROVE  /\ CallsTyped'
         /\ \A d \in Calls : d # c => call'[d] = call[d]
         /\ call'[c] = Idle
  BY DEF CallsTyped, Over, Idle, Stage

(* The callers of the live session at one place are answered at once.      *)
LEMMA CallersGo ==
  ASSUME CallsTyped, NEW from \in Stage, WaitersGo(from, "idle")
  PROVE  /\ CallsTyped'
         /\ \A d \in Calls :
              call'[d] = IF call[d].own /\ call[d].at = from THEN Idle ELSE call[d]
  BY DEF CallsTyped, WaitersGo, Idle, Stage, Own, At

(* A call that is asked for takes a place that nobody has.                 *)
LEMMA IdlePlace == HasIdle => FirstIdle \in Calls /\ At(FirstIdle, "idle")
  BY DEF HasIdle, FirstIdle

(* A build that is begun takes a name that is free.                        *)
LEMMA BuildAcquired ==
  ASSUME BuildsTyped, Acquires
  PROVE  /\ BuildsTyped'
         /\ \/ build' = build
            \/ /\ Wallet \cup Pending = {}
               /\ \E b \in Builds :
                    /\ build[b].at = "none"
                    /\ build'[b] = [at |-> "creating", own |-> TRUE, late |-> FALSE]
                    /\ \A d \in Builds : d # b => build'[d] = build[d]
<1>1. CASE UNCHANGED build
  BY <1>1 DEF BuildsTyped
<1>2. CASE /\ Wallet \cup Pending = {} /\ Free # {}
           /\ build' = [build EXCEPT ![CHOOSE b \in Free : TRUE] =
                           [at |-> "creating", own |-> TRUE, late |-> FALSE]]
  <2> DEFINE b == CHOOSE b \in Free : TRUE
  <2>1. b \in Builds /\ build[b].at = "none"
    <3>1. b \in Free
      BY <1>2
    <3> QED BY <3>1 DEF Free
  <2> HIDE DEF b
  <2>2. /\ build'[b] = [at |-> "creating", own |-> TRUE, late |-> FALSE]
        /\ \A d \in Builds : d # b => build'[d] = build[d]
        /\ BuildsTyped'
    BY <1>2, <2>1 DEF BuildsTyped, b
  <2> QED BY <1>2, <2>1, <2>2
<1> QED BY <1>1, <1>2 DEF Acquires

(* A call that is asked for belongs to the live session.                   *)
LEMMA CallAsks ==
  ASSUME CallsTyped, BuildsTyped, NEW c \in Calls, NEW kind \in Kind, Asks(c, kind)
  PROVE  /\ CallsTyped' /\ BuildsTyped' /\ Acquires /\ unlocked
         /\ \A d \in Calls : d # c => call'[d] = call[d]
         /\ call'[c] = [kind |-> kind, at |-> "wallet", own |-> TRUE]
         /\ UNCHANGED <<unlocked, fresh, synced>>
  BY BuildAcquired DEF CallsTyped, Asks, Stage

(* GetsRuntime gives the runtime to its caller alone.                      *)
LEMMA DealHeld ==
  ASSUME DealsTyped, NEW c \in Calls, Holds(c, TRUE)
  PROVE  /\ DealsTyped'
         /\ \A d \in Calls : d # c => deal'[d] = deal[d]
         /\ deal'[c].held = TRUE /\ deal'[c].swaps = deal[c].swaps
  BY DEF DealsTyped, Holds

(* A call that is over knows nothing any more.                             *)
LEMMA DealForgotten ==
  ASSUME DealsTyped, NEW c \in Calls, Forgets(c)
  PROVE  /\ DealsTyped'
         /\ \A d \in Calls : d # c => deal'[d] = deal[d]
         /\ deal'[c] = NoDeal
  BY DEF DealsTyped, Forgets, NoDeal

(* The wallet's steps leave what calls know alone, unless they end them.   *)
LEMMA DealsKept ==
  ASSUME DealsTyped, Keeps
  PROVE  /\ DealsTyped'
         /\ \A d \in Calls : deal'[d] = IF call'[d] = Idle THEN NoDeal ELSE deal[d]
         /\ UNCHANGED <<manager, watch, swap>>
  BY DEF DealsTyped, Keeps, NoDeal

(* When money of a swap moves, nothing else of it changes.                 *)
LEMMA SwapTurns ==
  ASSUME SwapsTyped, NEW k \in Swaps, NEW fate \in Fate, Turns(k, fate)
  PROVE  /\ SwapsTyped'
         /\ \A j \in Swaps : j # k => swap'[j] = swap[j]
         /\ swap'[k].fate = fate /\ swap'[k].saved = swap[k].saved
         /\ swap'[k].kind = swap[k].kind /\ swap'[k].refunded = swap[k].refunded
         /\ swap'[k].ask = swap[k].ask /\ swap'[k].ours = swap[k].ours
  BY DEF SwapsTyped, Turns

(* What the manager hears is saved, and nothing else.                      *)
LEMMA SwapHeard ==
  ASSUME SwapsTyped, NEW k \in Swaps, Hears(k)
  PROVE  /\ SwapsTyped'
         /\ \A j \in Swaps : j # k => swap'[j] = swap[j]
         /\ swap'[k].saved = Status(k) /\ swap'[k].fate = swap[k].fate
         /\ swap'[k].kind = swap[k].kind /\ swap'[k].refunded = swap[k].refunded
         /\ swap'[k].ask = swap[k].ask /\ swap'[k].ours = swap[k].ours
<1>1. PICK status \in Fate \ {"back"} :
        status = Status(k) /\ swap' = [swap EXCEPT ![k].saved = status]
  BY DEF Hears, Status, SwapsTyped, Fate
<1>2. /\ SwapsTyped'
      /\ \A j \in Swaps : j # k => swap'[j] = swap[j]
      /\ swap'[k].saved = status /\ swap'[k].fate = swap[k].fate
      /\ swap'[k].kind = swap[k].kind /\ swap'[k].refunded = swap[k].refunded
      /\ swap'[k].ask = swap[k].ask /\ swap'[k].ours = swap[k].ours
  BY <1>1 DEF SwapsTyped
<1> QED BY <1>1, <1>2

(* A refund is saved without touching the rest of the swap.                *)
LEMMA RefundSaved ==
  ASSUME SwapsTyped, NEW k \in Swaps, swap' = [swap EXCEPT ![k].refunded = TRUE]
  PROVE  /\ SwapsTyped'
         /\ \A j \in Swaps : j # k => swap'[j] = swap[j]
         /\ swap'[k].fate = swap[k].fate /\ swap'[k].saved = swap[k].saved
         /\ swap'[k].kind = swap[k].kind /\ swap'[k].refunded
         /\ swap'[k].ask = swap[k].ask /\ swap'[k].ours = swap[k].ours
  BY DEF SwapsTyped

(* The sweep marks what came back, and nothing else.                       *)
LEMMA SweepSaved ==
  ASSUME SwapsTyped, NEW c, SweepEnds(c)
  PROVE  /\ SwapsTyped'
         /\ \A k \in Swaps :
              /\ ~(k \in deal[c].swaps /\ swap[k].fate = "back") => swap'[k] = swap[k]
              /\ k \in deal[c].swaps /\ swap[k].fate = "back" => swap'[k].refunded
              /\ swap'[k].fate = swap[k].fate /\ swap'[k].saved = swap[k].saved
              /\ swap'[k].kind = swap[k].kind
              /\ swap'[k].ask = swap[k].ask /\ swap'[k].ours = swap[k].ours
  BY DEF SwapsTyped, SweepEnds

(* A reconciliation saves the status of what is not final.                 *)
LEMMA SwapsUpdated ==
  ASSUME SwapsTyped, NEW c, Updates(c)
  PROVE  /\ SwapsTyped'
         /\ \A k \in Swaps :
              /\ swap'[k].saved = IF Final(k) THEN swap[k].saved ELSE Status(k)
              /\ swap'[k].fate = swap[k].fate
              /\ swap'[k].kind = swap[k].kind /\ swap'[k].refunded = swap[k].refunded
              /\ swap'[k].ask = swap[k].ask /\ swap'[k].ours = swap[k].ours
<1>1. \A k \in Swaps : Status(k) \in Fate \ {"back"}
  BY DEF Status, SwapsTyped, Fate
<1> QED BY <1>1 DEF SwapsTyped, Updates

(* A payment funds its own swaps at most.                                  *)
LEMMA SwapsSent ==
  ASSUME SwapsTyped, NEW c, Sends(c)
  PROVE  /\ SwapsTyped'
         /\ \A k \in Swaps :
              /\ swap'[k].fate = IF swap' # swap /\ k \in deal[c].swaps
                                 THEN Funded(k) ELSE swap[k].fate
              /\ swap'[k].saved = swap[k].saved
              /\ swap'[k].kind = swap[k].kind /\ swap'[k].refunded = swap[k].refunded
              /\ swap'[k].ask = swap[k].ask /\ swap'[k].ours = swap[k].ours
<1>1. \A k \in Swaps : Funded(k) \in Fate
  BY DEF SwapsTyped, Funded, Fate
<1> QED BY <1>1 DEF SwapsTyped, Sends

(* A swap that is made was none before, and is of its call's kind.         *)
LEMMA SwapMade ==
  ASSUME SwapsTyped, NEW c \in Calls, NEW k \in Swaps, SwapCreated(c, k)
  PROVE  /\ SwapsTyped'
         /\ \A j \in Swaps : j # k => swap'[j] = swap[j]
         /\ swap[k].fate = "none"
         /\ swap'[k].fate = "open" /\ swap'[k].saved = "open" /\ ~swap'[k].refunded
         /\ \/ call[c].kind = "pay" /\ swap'[k].kind = "pay"
            \/ call[c].kind = "invoice" /\ swap'[k].kind = "receive"
<1>1. AskedPrices \subseteq Nat
  <2>1. Slack \in Nat
    BY LightningAssumption DEF Slack
  <2> QED BY <2>1, LightningAssumption DEF AskedPrices, Quote
<1>2. CASE call[c].kind = "invoice"
  <2>1. swap[k].fate = "none" /\ swap' = [swap EXCEPT ![k] = NewSwap("receive", 0, FALSE)]
    BY <1>2 DEF SwapCreated
  <2> QED BY <1>2, <2>1 DEF SwapsTyped, NewSwap, Fate
<1>3. CASE call[c].kind = "pay"
  <2>1. PICK ask \in Nat, ours \in BOOLEAN :
          swap' = [swap EXCEPT ![k] = NewSwap("pay", ask, ours)]
    BY <1>1, <1>3 DEF SwapCreated
  <2> QED BY <1>3, <2>1 DEF SwapCreated, SwapsTyped, NewSwap, Fate
<1> QED BY <1>2, <1>3 DEF SwapCreated

(* The call that made a swap is over, or goes on with a price it accepts.  *)
LEMMA DealMade ==
  ASSUME CallsTyped, DealsTyped, NEW c \in Calls, NEW k \in Swaps, SwapCreated(c, k)
  PROVE  /\ CallsTyped' /\ DealsTyped'
         /\ \A d \in Calls : d # c => call'[d] = call[d] /\ deal'[d] = deal[d]
         /\ \/ call'[c] = Idle /\ deal'[c] = NoDeal
            \/ /\ call[c].kind = "pay" /\ Acceptable(k)
               /\ call'[c].at = "verifying" /\ call'[c].kind = "pay"
               /\ call'[c].own = call[c].own
               /\ deal'[c].held = deal[c].held /\ deal'[c].swaps = {k}
<1>1. CASE Over(c) /\ Forgets(c)
  BY <1>1, CallOver, DealForgotten
<1>2. CASE /\ call[c].kind = "pay" /\ Acceptable(k)
           /\ Goes(c, "verifying") /\ deal' = [deal EXCEPT ![c].swaps = {k}]
  <2>1. /\ CallsTyped'
        /\ \A d \in Calls : d # c => call'[d] = call[d]
        /\ call'[c].at = "verifying" /\ call'[c].kind = "pay" /\ call'[c].own = call[c].own
    BY <1>2, CallGoes DEF Stage
  <2>2. /\ DealsTyped'
        /\ \A d \in Calls : d # c => deal'[d] = deal[d]
        /\ deal'[c].held = deal[c].held /\ deal'[c].swaps = {k}
    BY <1>2 DEF DealsTyped
  <2> QED BY <1>2, <2>1, <2>2
<1> QED BY <1>1, <1>2 DEF SwapCreated

(* A reconciliation goes on with what was stranded when it looked.         *)
LEMMA DealListed ==
  ASSUME CallsTyped, DealsTyped, NEW c \in Calls, Lists(c)
  PROVE  /\ CallsTyped' /\ DealsTyped'
         /\ \A d \in Calls : d # c => call'[d] = call[d] /\ deal'[d] = deal[d]
         /\ call'[c].at \in {"updating", "sweeping"} /\ call'[c].kind = call[c].kind
         /\ call'[c].own = call[c].own
         /\ deal'[c].held = deal[c].held /\ deal'[c].swaps = Stranded
<1>1. Goes(c, "updating") \/ Goes(c, "sweeping")
  BY DEF Lists
<1>2. /\ DealsTyped'
      /\ \A d \in Calls : d # c => deal'[d] = deal[d]
      /\ deal'[c].held = deal[c].held /\ deal'[c].swaps = Stranded
  <2>1. Stranded \subseteq Swaps
    BY DEF Stranded
  <2> QED BY <2>1 DEF Lists, DealsTyped
<1> QED BY <1>1, <1>2, CallGoes DEF Stage

(* A build that times out is marked as late, and is otherwise left alone.  *)
LEMMA BuildLate ==
  ASSUME BuildsTyped, NEW b \in Builds, BuildTimesOut(b)
  PROVE  /\ BuildsTyped'
         /\ \A d \in Builds : d # b => build'[d] = build[d]
         /\ build'[b].late /\ build'[b].own = build[b].own /\ build'[b].at = build[b].at
  BY DEF BuildsTyped, BuildTimesOut

(* The wallet goes with its session; what is being built loses its mark.   *)
LEMMA BuildsEnd ==
  ASSUME BuildsTyped, Ends
  PROVE  /\ BuildsTyped'
         /\ \A b \in Builds :
              /\ ~build'[b].own
              /\ build'[b].at = IF build[b].at = "alive" /\ build[b].own THEN "none" ELSE build[b].at
  BY DEF BuildsTyped, Ends, Wallet, NoBuild

(* The end of a session takes its marks from everything.                   *)
LEMMA SessionOver ==
  ASSUME EveryTyped, EndsAll
  PROVE  /\ BuildsTyped' /\ CallsTyped' /\ ManagersTyped' /\ DealsTyped'
         /\ \A b \in Builds : ~build'[b].own
         /\ \A m \in Managers :
              /\ ~manager'[m].own
              /\ manager'[m].at = IF manager[m].at = "alive" THEN "none" ELSE manager[m].at
         /\ \A c \in Calls :
              /\ ~call'[c].own /\ call'[c].at = call[c].at /\ call'[c].kind = call[c].kind
              /\ ~deal'[c].held /\ deal'[c].swaps = deal[c].swaps
<1>1. BuildsTyped' /\ \A b \in Builds : ~build'[b].own
  BY BuildsEnd DEF EveryTyped, EndsAll
<1>2. /\ ManagersTyped'
      /\ \A m \in Managers :
           /\ ~manager'[m].own
           /\ manager'[m].at = IF manager[m].at = "alive" THEN "none" ELSE manager[m].at
  BY DEF EveryTyped, ManagersTyped, EndsAll, NoManager
<1>3. /\ CallsTyped'
      /\ \A c \in Calls :
           ~call'[c].own /\ call'[c].at = call[c].at /\ call'[c].kind = call[c].kind
  BY DEF EveryTyped, CallsTyped, EndsAll, Ends
<1>4. /\ DealsTyped'
      /\ \A c \in Calls : ~deal'[c].held /\ deal'[c].swaps = deal[c].swaps
  BY DEF EveryTyped, DealsTyped, EndsAll
<1> QED BY <1>1, <1>2, <1>3, <1>4

(* A manager that is created takes a name that is free.                    *)
LEMMA RuntimeAsked ==
  ASSUME ManagersTyped, CallsTyped, NEW c \in Calls, AsksRuntime(c)
  PROVE  /\ ManagersTyped'
         /\ \/ manager' = manager
            \/ /\ Memo = {} /\ call[c].own
               /\ \E m \in Managers :
                    /\ manager[m].at = "none"
                    /\ manager'[m] = [at |-> "creating", own |-> TRUE]
                    /\ \A n \in Managers : n # m => manager'[n] = manager[n]
<1>1. CASE UNCHANGED manager
  BY <1>1 DEF ManagersTyped
<1>2. CASE ~UNCHANGED manager
  <2> DEFINE m == CHOOSE m \in Managers : manager[m].at = "none"
  <2>1. m \in Managers /\ manager[m].at = "none"
    BY <1>2 DEF AsksRuntime
  <2>2. /\ Memo = {} /\ call[c].own
        /\ manager' = [manager EXCEPT ![m] = [at |-> "creating", own |-> TRUE]]
    BY <1>2 DEF AsksRuntime, Own
  <2> HIDE DEF m
  <2>3. /\ manager'[m] = [at |-> "creating", own |-> TRUE]
        /\ \A n \in Managers : n # m => manager'[n] = manager[n]
        /\ ManagersTyped'
    BY <2>1, <2>2 DEF ManagersTyped
  <2> QED BY <2>1, <2>2, <2>3
<1> QED BY <1>1, <1>2

----------------------------------------------------------------------------
(* Every variable keeps its type.                                          *)

(* Initially every variable has its type.                                  *)
LEMMA EveryTypeInitial == Init => EveryTyped
<1> SUFFICES ASSUME Init
             PROVE  EveryTyped
  OBVIOUS
<1>1. CallsTyped
  BY DEF Init, SessionWalletInit, CallsTyped, Idle, Stage
<1>2. BuildsTyped /\ ManagersTyped /\ DealsTyped
  BY DEF Init, SessionWalletInit, BuildsTyped, ManagersTyped, DealsTyped, NoBuild, NoManager,
         NoDeal
<1>3. SwapsTyped
  BY DEF Init, SwapsTyped, NoSwap, Fate
<1> QED BY <1>1, <1>2, <1>3 DEF Init, SessionWalletInit, EveryTyped

(* Every step keeps the types.                                             *)
LEMMA EveryTypeInductive == EveryTyped /\ [Next]_walletVars => EveryTyped'
<1> SUFFICES ASSUME EveryTyped, [Next]_walletVars
             PROVE  EveryTyped'
  OBVIOUS
<1> USE DEF EveryTyped
<1>1. ASSUME NEW c \in Calls, CallsRuntime(c)
      PROVE  EveryTyped'
  BY <1>1, CallGoes
    DEF CallsRuntime, Resumes, lightningVars, Stage, CallsTyped, BuildsTyped,
        ManagersTyped, DealsTyped, SwapsTyped, Fate
<1>2. ASSUME NEW c \in Calls, AsksRuntime(c)
      PROVE  EveryTyped'
  BY <1>2, CallGoes, RuntimeAsked
    DEF AsksRuntime, Stage, CallsTyped, BuildsTyped, DealsTyped, SwapsTyped, Fate
<1>3. ASSUME NEW c \in Calls, GetsRuntime(c)
      PROVE  EveryTyped'
  BY <1>3, CallGoes, DealHeld
    DEF GetsRuntime, Stage, CallsTyped, BuildsTyped, ManagersTyped, DealsTyped,
        SwapsTyped, Fate
<1>4. ASSUME NEW c \in Calls, RuntimeGone(c)
      PROVE  EveryTyped'
  BY <1>4, CallOver, DealForgotten
    DEF RuntimeGone, BuildsTyped, ManagersTyped, SwapsTyped, Fate
<1>5. ASSUME NEW c \in Calls, Prices(c)
      PROVE  EveryTyped'
  BY <1>5, CallGoes, CallOver, DealForgotten
    DEF Prices, Stage, BuildsTyped, ManagersTyped, DealsTyped, SwapsTyped, Fate
<1>6. ASSUME NEW c \in Calls, SwapRefused(c)
      PROVE  EveryTyped'
  BY <1>6, CallOver, DealForgotten
    DEF SwapRefused, BuildsTyped, ManagersTyped, SwapsTyped, Fate
<1>7. ASSUME NEW c \in Calls, Verifies(c)
      PROVE  EveryTyped'
  BY <1>7, CallGoes, CallOver, DealForgotten
    DEF Verifies, Refreshes, Stage, BuildsTyped, ManagersTyped, DealsTyped, SwapsTyped,
        Fate
<1>8. ASSUME NEW c \in Calls, Sends(c)
      PROVE  EveryTyped'
  BY <1>8, CallOver, DealForgotten, SwapsSent
    DEF Sends, BuildsTyped, ManagersTyped
<1>9. ASSUME NEW c \in Calls, Probes(c)
      PROVE  EveryTyped'
  BY <1>9, CallOver, CallAsks
    DEF Probes, lightningVars, Kind, BuildsTyped, ManagersTyped, DealsTyped, SwapsTyped,
        Fate
<1>10. ASSUME NEW c \in Calls, Lists(c)
      PROVE  EveryTyped'
  BY <1>10, DealListed
    DEF Lists, BuildsTyped, ManagersTyped, SwapsTyped, Fate
<1>11. ASSUME NEW c \in Calls, SweepEnds(c)
      PROVE  EveryTyped'
  BY <1>11, CallGoes, SweepSaved
    DEF SweepEnds, Stage, BuildsTyped, ManagersTyped, DealsTyped
<1>12. ASSUME NEW c \in Calls, Updates(c)
      PROVE  EveryTyped'
  BY <1>12, CallOver, DealForgotten, SwapsUpdated
    DEF Updates, BuildsTyped, ManagersTyped
<1>13. ASSUME NEW c \in Calls, NEW k \in Swaps, SwapCreated(c, k)
      PROVE  EveryTyped'
  <2>1. CallsTyped' /\ DealsTyped'
    BY <1>13, DealMade
  <2>2. SwapsTyped'
    BY <1>13, SwapMade
  <2> QED BY <1>13, <2>1, <2>2 DEF SwapCreated, BuildsTyped, ManagersTyped
<1>14. ASSUME NEW c \in Calls, NEW k \in Swaps, SweepRefunds(c, k)
      PROVE  EveryTyped'
  BY <1>14, SwapTurns
    DEF SweepRefunds, sessionWalletVars, CallsTyped, BuildsTyped, ManagersTyped,
        DealsTyped, Fate
<1>15. ASSUME NEW m \in Managers, ManagerCreated(m)
      PROVE  EveryTyped'
  BY <1>15
    DEF ManagerCreated, sessionWalletVars, CallsTyped, BuildsTyped, ManagersTyped,
        DealsTyped, SwapsTyped, Fate, Followed, NoManager
<1>16. ASSUME NEW m \in Managers, ManagerFails(m)
      PROVE  EveryTyped'
  BY <1>16, CallersGo
    DEF ManagerFails, Stage, CallsTyped, BuildsTyped, ManagersTyped, DealsTyped,
        SwapsTyped, Fate, NoManager
<1>17. ASSUME NEW k \in Swaps, Hears(k)
      PROVE  EveryTyped'
  BY <1>17, SwapHeard
    DEF Hears, sessionWalletVars, CallsTyped, BuildsTyped, ManagersTyped, DealsTyped
<1>18. ASSUME NEW k \in Swaps, Claims(k)
      PROVE  EveryTyped'
  BY <1>18, SwapTurns
    DEF Claims, sessionWalletVars, CallsTyped, BuildsTyped, ManagersTyped, DealsTyped,
        Fate
<1>19. ASSUME NEW k \in Swaps, ManagerRefunds(k)
      PROVE  EveryTyped'
  BY <1>19, SwapTurns, RefundSaved
    DEF ManagerRefunds, sessionWalletVars, CallsTyped, BuildsTyped, ManagersTyped,
        DealsTyped, Fate
<1>20. ASSUME NEW k \in Swaps, Boltz(k)
      PROVE  EveryTyped'
  BY <1>20, SwapTurns
    DEF Boltz, sessionWalletVars, CallsTyped, BuildsTyped, ManagersTyped, DealsTyped,
        Fate
<1>21. ASSUME NEW kind \in {"pay", "invoice"},
             HasIdle /\ Asks(FirstIdle, kind) /\ UNCHANGED lightningVars
      PROVE  EveryTyped'
  BY <1>21, IdlePlace, CallAsks
    DEF lightningVars, Kind, ManagersTyped, DealsTyped, SwapsTyped, Fate
<1>22. ASSUME NEW b \in Builds, Built(b) /\ Keeps
      PROVE  EveryTyped'
  BY <1>22, DealsKept
    DEF Built, CallsTyped, BuildsTyped, ManagersTyped, SwapsTyped, Fate, NoBuild
<1>23. ASSUME NEW b \in Builds, BuildFails(b) /\ Keeps
      PROVE  EveryTyped'
  BY <1>23, CallersGo, DealsKept
    DEF BuildFails, Stage, CallsTyped, BuildsTyped, ManagersTyped, SwapsTyped, Fate,
        NoBuild
<1>24. ASSUME NEW b \in Builds, BuildTimesOut(b) /\ Keeps
      PROVE  EveryTyped'
  BY <1>24, CallersGo, BuildLate, DealsKept
    DEF BuildTimesOut, Stage, ManagersTyped, SwapsTyped, Fate
<1>25. ASSUME NEW c \in Calls, SnapshotRefreshes(c) /\ Keeps
      PROVE  EveryTyped'
  BY <1>25, CallGoes, DealsKept
    DEF SnapshotRefreshes, Refreshes, Stage, BuildsTyped, ManagersTyped, SwapsTyped,
        Fate
<1>26. ASSUME NEW c \in Calls, StaleRefreshEnds(c) /\ Keeps
      PROVE  EveryTyped'
  BY <1>26, CallOver, DealsKept
    DEF StaleRefreshEnds, BuildsTyped, ManagersTyped, SwapsTyped, Fate
<1>27. ASSUME NEW c \in Calls, FindsLocked(c) /\ Keeps
      PROVE  EveryTyped'
  BY <1>27, CallOver, DealsKept
    DEF FindsLocked, BuildsTyped, ManagersTyped, SwapsTyped, Fate
<1>28. ASSUME HasIdle /\ Asks(FirstIdle, "snapshot") /\ Keeps
      PROVE  EveryTyped'
  BY <1>28, IdlePlace, CallAsks, DealsKept
    DEF Kind, ManagersTyped, SwapsTyped, Fate
<1>29. ASSUME Refreshed /\ Keeps
      PROVE  EveryTyped'
  BY <1>29, DealsKept
    DEF Refreshed, CallsTyped, BuildsTyped, ManagersTyped, SwapsTyped, Fate,
        AfterRefresh, Idle, Stage
<1>30. ASSUME RefreshTimesOut /\ Keeps
      PROVE  EveryTyped'
  BY <1>30, CallersGo, DealsKept
    DEF RefreshTimesOut, Stage, BuildsTyped, ManagersTyped, SwapsTyped, Fate
<1>31. ASSUME FreshnessEnds /\ Keeps
      PROVE  EveryTyped'
  BY <1>31, DealsKept
    DEF FreshnessEnds, CallsTyped, BuildsTyped, ManagersTyped, SwapsTyped, Fate
<1>32. ASSUME UnlockHandled
      PROVE  EveryTyped'
  BY <1>32, IdlePlace
    DEF UnlockHandled, Opens, lightningVars, CallsTyped, BuildsTyped, ManagersTyped,
        DealsTyped, SwapsTyped, Fate, Kind, Stage
<1>33. ASSUME EndsAll
      PROVE  EveryTyped'
  BY <1>33, SessionOver
    DEF EndsAll, Ends, SwapsTyped, Fate
<1>34. ASSUME WorkerDies
      PROVE  EveryTyped'
  BY <1>34
    DEF WorkerDies, SessionWalletDies, CallsTyped, BuildsTyped, ManagersTyped,
        DealsTyped, SwapsTyped, Fate, NoBuild, NoManager, NoDeal, Idle, Stage
<1>35. ASSUME UNCHANGED walletVars
      PROVE  EveryTyped'
  BY <1>35
    DEF walletVars, sessionWalletVars, lightningVars, CallsTyped, BuildsTyped,
        ManagersTyped, DealsTyped, SwapsTyped, Fate
<1>36. ASSUME Installed
      PROVE  EveryTyped'
  BY <1>36
    DEF Installed, Opens, lightningVars, CallsTyped, BuildsTyped, ManagersTyped, DealsTyped,
        SwapsTyped, Fate
<1> QED BY <1>1, <1>2, <1>3, <1>4, <1>5, <1>6, <1>7, <1>8, <1>9, <1>10, <1>11, <1>12,
          <1>13, <1>14, <1>15, <1>16, <1>17, <1>18, <1>19, <1>20, <1>21, <1>22, <1>23,
          <1>24, <1>25, <1>26, <1>27, <1>28, <1>29, <1>30, <1>31, <1>32, <1>33, <1>34,
          <1>35, <1>36
    DEF CallSteps, Next, SessionWalletSteps

(* Every variable keeps its type.                                          *)
THEOREM EveryType == Spec => []TypeOK
<1>1. EveryTyped => TypeOK
  BY DEF EveryTyped, TypeOK, SessionWalletTypeOK, CallsTyped, BuildsTyped, ManagersTyped,
         DealsTyped, SwapsTyped
<1> QED BY <1>1, EveryTypeInitial, EveryTypeInductive, PTL DEF Spec

----------------------------------------------------------------------------
(* What a step can do to the wallet, to the manager and to the swaps.      *)

WalletStep ==
  \/ UNCHANGED <<unlocked, build, fresh, synced>>
  \/ unlocked /\ Acquires /\ UNCHANGED <<unlocked, fresh, synced>>
  \/ \E b \in Builds : Built(b) \/ BuildFails(b) \/ BuildTimesOut(b)
  \/ Refreshed
  \/ FreshnessEnds
  \/ Opens
  \/ Ends
  \/ SessionWalletDies

ManagerStep ==
  \/ UNCHANGED <<unlocked, manager>>
  \/ \E c \in Calls : AsksRuntime(c)
  \/ \E m \in Managers : ManagerCreated(m) \/ ManagerFails(m)
  \/ Opens /\ UNCHANGED manager
  \/ EndsAll
  \/ WorkerDies

SwapStep ==
  \/ UNCHANGED swap
  \/ \E c \in Calls : Sends(c) \/ SweepEnds(c) \/ Updates(c)
  \/ \E c \in Calls, k \in Swaps : SwapCreated(c, k) \/ SweepRefunds(c, k)
  \/ \E k \in Swaps : Hears(k) \/ Claims(k) \/ ManagerRefunds(k) \/ Boltz(k)

(* Every step is one of these to the wallet, the manager and the swaps.    *)
LEMMA StepsSeen == [Next]_walletVars => WalletStep /\ ManagerStep /\ SwapStep
<1> SUFFICES ASSUME [Next]_walletVars
             PROVE  WalletStep /\ ManagerStep /\ SwapStep
  OBVIOUS
<1> USE DEF WalletStep, ManagerStep, SwapStep
<1>1. ASSUME NEW c \in Calls, CallsRuntime(c)
      PROVE  WalletStep /\ ManagerStep /\ SwapStep
  BY <1>1
    DEF CallsRuntime, Resumes, lightningVars
<1>2. ASSUME NEW c \in Calls, AsksRuntime(c)
      PROVE  WalletStep /\ ManagerStep /\ SwapStep
  BY <1>2
    DEF AsksRuntime
<1>3. ASSUME NEW c \in Calls, GetsRuntime(c)
      PROVE  WalletStep /\ ManagerStep /\ SwapStep
  BY <1>3
    DEF GetsRuntime
<1>4. ASSUME NEW c \in Calls, RuntimeGone(c)
      PROVE  WalletStep /\ ManagerStep /\ SwapStep
  BY <1>4
    DEF RuntimeGone
<1>5. ASSUME NEW c \in Calls, Prices(c)
      PROVE  WalletStep /\ ManagerStep /\ SwapStep
  BY <1>5
    DEF Prices
<1>6. ASSUME NEW c \in Calls, SwapRefused(c)
      PROVE  WalletStep /\ ManagerStep /\ SwapStep
  BY <1>6
    DEF SwapRefused
<1>7. ASSUME NEW c \in Calls, Verifies(c)
      PROVE  WalletStep /\ ManagerStep /\ SwapStep
  BY <1>7
    DEF Verifies, Refreshes
<1>8. ASSUME NEW c \in Calls, Sends(c)
      PROVE  WalletStep /\ ManagerStep /\ SwapStep
  BY <1>8
    DEF Sends
<1>9. ASSUME NEW c \in Calls, Probes(c)
      PROVE  WalletStep /\ ManagerStep /\ SwapStep
  BY <1>9
    DEF Probes, lightningVars, Asks
<1>10. ASSUME NEW c \in Calls, Lists(c)
      PROVE  WalletStep /\ ManagerStep /\ SwapStep
  BY <1>10
    DEF Lists
<1>11. ASSUME NEW c \in Calls, SweepEnds(c)
      PROVE  WalletStep /\ ManagerStep /\ SwapStep
  BY <1>11
    DEF SweepEnds
<1>12. ASSUME NEW c \in Calls, Updates(c)
      PROVE  WalletStep /\ ManagerStep /\ SwapStep
  BY <1>12
    DEF Updates
<1>13. ASSUME NEW c \in Calls, NEW k \in Swaps, SwapCreated(c, k)
      PROVE  WalletStep /\ ManagerStep /\ SwapStep
  BY <1>13
    DEF SwapCreated
<1>14. ASSUME NEW c \in Calls, NEW k \in Swaps, SweepRefunds(c, k)
      PROVE  WalletStep /\ ManagerStep /\ SwapStep
  BY <1>14
    DEF SweepRefunds, sessionWalletVars
<1>15. ASSUME NEW m \in Managers, ManagerCreated(m)
      PROVE  WalletStep /\ ManagerStep /\ SwapStep
  BY <1>15
    DEF ManagerCreated, sessionWalletVars
<1>16. ASSUME NEW m \in Managers, ManagerFails(m)
      PROVE  WalletStep /\ ManagerStep /\ SwapStep
  BY <1>16
    DEF ManagerFails
<1>17. ASSUME NEW k \in Swaps, Hears(k)
      PROVE  WalletStep /\ ManagerStep /\ SwapStep
  BY <1>17
    DEF Hears, sessionWalletVars
<1>18. ASSUME NEW k \in Swaps, Claims(k)
      PROVE  WalletStep /\ ManagerStep /\ SwapStep
  BY <1>18
    DEF Claims, sessionWalletVars
<1>19. ASSUME NEW k \in Swaps, ManagerRefunds(k)
      PROVE  WalletStep /\ ManagerStep /\ SwapStep
  BY <1>19
    DEF ManagerRefunds, sessionWalletVars
<1>20. ASSUME NEW k \in Swaps, Boltz(k)
      PROVE  WalletStep /\ ManagerStep /\ SwapStep
  BY <1>20
    DEF Boltz, sessionWalletVars
<1>21. ASSUME NEW kind \in {"pay", "invoice"},
             HasIdle /\ Asks(FirstIdle, kind) /\ UNCHANGED lightningVars
      PROVE  WalletStep /\ ManagerStep /\ SwapStep
  BY <1>21
    DEF lightningVars, Asks
<1>22. ASSUME NEW b \in Builds, Built(b) /\ Keeps
      PROVE  WalletStep /\ ManagerStep /\ SwapStep
  BY <1>22
    DEF Built, Keeps
<1>23. ASSUME NEW b \in Builds, BuildFails(b) /\ Keeps
      PROVE  WalletStep /\ ManagerStep /\ SwapStep
  BY <1>23
    DEF BuildFails, Keeps
<1>24. ASSUME NEW b \in Builds, BuildTimesOut(b) /\ Keeps
      PROVE  WalletStep /\ ManagerStep /\ SwapStep
  BY <1>24
    DEF BuildTimesOut, Keeps
<1>25. ASSUME NEW c \in Calls, SnapshotRefreshes(c) /\ Keeps
      PROVE  WalletStep /\ ManagerStep /\ SwapStep
  BY <1>25
    DEF SnapshotRefreshes, Refreshes, Keeps
<1>26. ASSUME NEW c \in Calls, StaleRefreshEnds(c) /\ Keeps
      PROVE  WalletStep /\ ManagerStep /\ SwapStep
  BY <1>26
    DEF StaleRefreshEnds, Keeps
<1>27. ASSUME NEW c \in Calls, FindsLocked(c) /\ Keeps
      PROVE  WalletStep /\ ManagerStep /\ SwapStep
  BY <1>27
    DEF FindsLocked, Keeps
<1>28. ASSUME HasIdle /\ Asks(FirstIdle, "snapshot") /\ Keeps
      PROVE  WalletStep /\ ManagerStep /\ SwapStep
  BY <1>28
    DEF Asks, Keeps
<1>29. ASSUME Refreshed /\ Keeps
      PROVE  WalletStep /\ ManagerStep /\ SwapStep
  BY <1>29
    DEF Refreshed, Keeps
<1>30. ASSUME RefreshTimesOut /\ Keeps
      PROVE  WalletStep /\ ManagerStep /\ SwapStep
  BY <1>30
    DEF RefreshTimesOut, Keeps
<1>31. ASSUME FreshnessEnds /\ Keeps
      PROVE  WalletStep /\ ManagerStep /\ SwapStep
  BY <1>31
    DEF FreshnessEnds, Keeps
<1>32. ASSUME UnlockHandled
      PROVE  WalletStep /\ ManagerStep /\ SwapStep
  BY <1>32
    DEF UnlockHandled, Opens, lightningVars
<1>33. ASSUME EndsAll
      PROVE  WalletStep /\ ManagerStep /\ SwapStep
  BY <1>33
    DEF EndsAll, Ends
<1>34. ASSUME WorkerDies
      PROVE  WalletStep /\ ManagerStep /\ SwapStep
  BY <1>34
    DEF WorkerDies, SessionWalletDies
<1>35. ASSUME UNCHANGED walletVars
      PROVE  WalletStep /\ ManagerStep /\ SwapStep
  BY <1>35
    DEF walletVars, sessionWalletVars, lightningVars
<1>36. ASSUME Installed
      PROVE  WalletStep /\ ManagerStep /\ SwapStep
  BY <1>36
    DEF Installed, Opens, lightningVars
<1> QED BY <1>1, <1>2, <1>3, <1>4, <1>5, <1>6, <1>7, <1>8, <1>9, <1>10, <1>11, <1>12,
          <1>13, <1>14, <1>15, <1>16, <1>17, <1>18, <1>19, <1>20, <1>21, <1>22, <1>23,
          <1>24, <1>25, <1>26, <1>27, <1>28, <1>29, <1>30, <1>31, <1>32, <1>33, <1>34,
          <1>35, <1>36
    DEF CallSteps, Next, SessionWalletSteps

----------------------------------------------------------------------------
(* One wallet and one manager.                                             *)

LiveBuild(b) == build[b].at # "none" /\ build[b].own /\ ~build[b].late
LiveManager(m) == manager[m].at # "none" /\ manager[m].own

\* Stages of a call that may hold the runtime.
WithRuntime ==
  {"pricing", "creating", "verifying", "refreshing", "sending", "listing", "sweeping", "updating"}

\* What is marked as the live session's belongs to it: no mark outlasts a session.
CallsOwned ==
  /\ \A c \in Calls : call[c].own => unlocked
  /\ \A c \in Calls : deal[c].held => call[c].own /\ call[c].at \in WithRuntime

BuildsOwned ==
  /\ \A b \in Builds : build[b].own => unlocked
  /\ \A b \in Builds : build[b].at = "alive" => LiveBuild(b)
  /\ \A b, d \in Builds : LiveBuild(b) /\ LiveBuild(d) => b = d

ManagersOwned ==
  /\ \A m \in Managers : manager[m].own => unlocked
  /\ \A m \in Managers : manager[m].at = "alive" => LiveManager(m)
  /\ \A m, n \in Managers : LiveManager(m) /\ LiveManager(n) => m = n

(* Every step leaves one live build at most.                               *)
LEMMA BuildsOwnedInductive ==
  BuildsOwned /\ EveryTyped /\ [Next]_walletVars => BuildsOwned'
<1> SUFFICES ASSUME BuildsOwned, EveryTyped, WalletStep
             PROVE  BuildsOwned'
  BY StepsSeen
<1> USE DEF BuildsOwned, LiveBuild, EveryTyped
<1>1. CASE UNCHANGED <<unlocked, build>>
  BY <1>1 DEF BuildsTyped
<1>2. CASE unlocked /\ Acquires /\ UNCHANGED unlocked
  <2>1. CASE UNCHANGED build
    BY <1>2, <2>1
  <2>2. CASE /\ Wallet \cup Pending = {}
             /\ \E b \in Builds :
                  /\ build[b].at = "none"
                  /\ build'[b] = [at |-> "creating", own |-> TRUE, late |-> FALSE]
                  /\ \A d \in Builds : d # b => build'[d] = build[d]
    <3>1. \A d \in Builds : ~LiveBuild(d)
      BY <2>2 DEF Wallet, Pending, BuildsTyped
    <3>2. PICK b \in Builds :
            /\ build'[b] = [at |-> "creating", own |-> TRUE, late |-> FALSE]
            /\ \A d \in Builds : d # b => build'[d] = build[d]
      BY <2>2
    <3>3. build'[b].at = "creating" /\ build'[b].own /\ ~build'[b].late
      BY <3>2
    <3> QED BY <1>2, <3>1, <3>2, <3>3
  <2> QED BY <1>2, <2>1, <2>2, BuildAcquired
<1>3. ASSUME NEW b \in Builds, Built(b)
      PROVE  BuildsOwned'
  BY <1>3 DEF BuildsTyped, Built, Current, NoBuild
<1>4. ASSUME NEW b \in Builds, BuildFails(b)
      PROVE  BuildsOwned'
  BY <1>4 DEF BuildsTyped, BuildFails, NoBuild
<1>5. ASSUME NEW b \in Builds, BuildTimesOut(b)
      PROVE  BuildsOwned'
  <2>1. /\ \A d \in Builds : d # b => build'[d] = build[d]
        /\ build'[b].late /\ build'[b].own = build[b].own /\ build'[b].at = build[b].at
        /\ build[b].at = "creating" /\ UNCHANGED unlocked
    BY <1>5, BuildLate DEF BuildTimesOut, Pending
  <2> QED BY <2>1
<1>6. CASE Opens
  BY <1>6 DEF Opens
<1>7. CASE Ends
  BY <1>7, BuildsEnd
<1>8. CASE SessionWalletDies
  BY <1>8 DEF SessionWalletDies, NoBuild
<1> QED BY <1>1, <1>2, <1>3, <1>4, <1>5, <1>6, <1>7, <1>8
    DEF WalletStep, Refreshed, FreshnessEnds

(* Every step leaves one live manager at most.                             *)
LEMMA ManagersOwnedInductive ==
  CallsOwned /\ ManagersOwned /\ EveryTyped /\ [Next]_walletVars => ManagersOwned'
<1> SUFFICES ASSUME CallsOwned, ManagersOwned, EveryTyped, ManagerStep
             PROVE  ManagersOwned'
  BY StepsSeen
<1> USE DEF ManagersOwned, LiveManager, EveryTyped
<1>1. CASE UNCHANGED <<unlocked, manager>>
  BY <1>1
<1>2. ASSUME NEW c \in Calls, AsksRuntime(c)
      PROVE  ManagersOwned'
  <2>1. UNCHANGED unlocked /\ (call[c].own => unlocked)
    BY <1>2 DEF AsksRuntime, CallsOwned
  <2> QED BY <1>2, <2>1, RuntimeAsked DEF Memo
<1>3. ASSUME NEW m \in Managers, ManagerCreated(m)
      PROVE  ManagersOwned'
  BY <1>3 DEF ManagersTyped, ManagerCreated, StillOurs, NoManager, sessionWalletVars
<1>4. ASSUME NEW m \in Managers, ManagerFails(m)
      PROVE  ManagersOwned'
  BY <1>4 DEF ManagersTyped, ManagerFails, NoManager
<1>5. CASE Opens /\ UNCHANGED manager
  BY <1>5 DEF Opens
<1>6. CASE EndsAll
  BY <1>6, SessionOver
<1>7. CASE WorkerDies
  BY <1>7 DEF WorkerDies, NoManager
<1> QED BY <1>1, <1>2, <1>3, <1>4, <1>5, <1>6, <1>7 DEF ManagerStep

(* Only a refresh of the live session makes it fresh.                      *)
LEMMA FreshInductive ==
  CallsOwned /\ EveryTyped /\ FreshIsSynced /\ [Next]_walletVars => FreshIsSynced'
<1> SUFFICES ASSUME CallsOwned, EveryTyped, FreshIsSynced, WalletStep
             PROVE  FreshIsSynced'
  BY StepsSeen
<1>1. CASE Refreshed
  BY <1>1 DEF Refreshed, CallsOwned, Own, FreshIsSynced
<1>2. CASE ~Refreshed
  BY <1>2 DEF WalletStep, FreshIsSynced, Built, BuildFails, BuildTimesOut, FreshnessEnds, Opens,
              Ends, SessionWalletDies
<1> QED BY <1>1, <1>2

(* Every step leaves the runtime to calls of the live session.             *)
LEMMA CallsOwnedInductive ==
  CallsOwned /\ EveryTyped /\ [Next]_walletVars => CallsOwned'
<1> SUFFICES ASSUME CallsOwned, EveryTyped, [Next]_walletVars
             PROVE  CallsOwned'
  OBVIOUS
<1> USE DEF CallsOwned, EveryTyped, WithRuntime
<1>1. ASSUME NEW c \in Calls, CallsRuntime(c)
      PROVE  CallsOwned'
  <2>1. /\ \A d \in Calls : d # c => call'[d] = call[d]
        /\ call'[c].own = call[c].own /\ call[c].at = "wallet"
        /\ UNCHANGED <<unlocked, deal>>
    BY <1>1, CallGoes DEF CallsRuntime, Resumes, lightningVars, Stage, At
  <2>2. ~deal[c].held
    BY <2>1
  <2> QED BY <2>1, <2>2
<1>2. ASSUME NEW c \in Calls, AsksRuntime(c)
      PROVE  CallsOwned'
  <2>1. Goes(c, "joining") /\ call[c].at = "asking" /\ UNCHANGED <<unlocked, deal>>
    BY <1>2 DEF AsksRuntime, At
  <2>2. /\ \A d \in Calls : d # c => call'[d] = call[d]
        /\ call'[c].own = call[c].own
    BY <2>1, CallGoes DEF Stage
  <2>3. ~deal[c].held
    BY <2>1
  <2> QED BY <2>1, <2>2, <2>3
<1>3. ASSUME NEW c \in Calls, GetsRuntime(c)
      PROVE  CallsOwned'
  <2>1. /\ \A d \in Calls : d # c => call'[d] = call[d] /\ deal'[d] = deal[d]
        /\ call'[c].own = call[c].own /\ call[c].own /\ UNCHANGED unlocked
        /\ call'[c].at \in {"listing", "pricing"}
    BY <1>3, CallGoes, DealHeld DEF GetsRuntime, SameSession, Own, Stage
  <2> QED BY <2>1
<1>4. ASSUME NEW c \in Calls, RuntimeGone(c)
      PROVE  CallsOwned'
  BY <1>4, CallOver, DealForgotten
    DEF RuntimeGone, Idle, NoDeal
<1>5. ASSUME NEW c \in Calls, Prices(c)
      PROVE  CallsOwned'
  BY <1>5, CallGoes, CallOver, DealForgotten
    DEF Prices, Stage, DealsTyped, At, Idle, NoDeal, Holding
<1>6. ASSUME NEW c \in Calls, SwapRefused(c)
      PROVE  CallsOwned'
  BY <1>6, CallOver, DealForgotten
    DEF SwapRefused, Idle, NoDeal
<1>7. ASSUME NEW c \in Calls, Verifies(c)
      PROVE  CallsOwned'
  BY <1>7, CallGoes, CallOver, DealForgotten
    DEF Verifies, Refreshes, Stage, DealsTyped, At, Own, Idle, NoDeal
<1>8. ASSUME NEW c \in Calls, Sends(c)
      PROVE  CallsOwned'
  BY <1>8, CallOver, DealForgotten
    DEF Sends, Idle, NoDeal
<1>9. ASSUME NEW c \in Calls, Probes(c)
      PROVE  CallsOwned'
  <2>1. call[c].at = "probing" /\ UNCHANGED <<unlocked, deal>>
    BY <1>9 DEF Probes, lightningVars, At, Asks
  <2>2. \A d \in Calls : d # c => call'[d] = call[d]
    BY <1>9, CallOver, CallAsks DEF Probes, Kind
  <2>3. call'[c].own => unlocked
    BY <1>9, CallOver, CallAsks DEF Probes, Kind, Idle
  <2>4. ~deal[c].held
    BY <2>1
  <2> QED BY <2>1, <2>2, <2>3, <2>4
<1>10. ASSUME NEW c \in Calls, Lists(c)
      PROVE  CallsOwned'
  BY <1>10, DealListed
    DEF Lists, At
<1>11. ASSUME NEW c \in Calls, SweepEnds(c)
      PROVE  CallsOwned'
  BY <1>11, CallGoes
    DEF SweepEnds, Stage, DealsTyped, At
<1>12. ASSUME NEW c \in Calls, Updates(c)
      PROVE  CallsOwned'
  BY <1>12, CallOver, DealForgotten
    DEF Updates, Idle, NoDeal
<1>13. ASSUME NEW c \in Calls, NEW k \in Swaps, SwapCreated(c, k)
      PROVE  CallsOwned'
  <2>1. /\ \A d \in Calls : d # c => call'[d] = call[d] /\ deal'[d] = deal[d]
        /\ call[c].at = "creating" /\ UNCHANGED unlocked
    BY <1>13, DealMade DEF SwapCreated, At
  <2>2. CASE call'[c] = Idle /\ deal'[c] = NoDeal
    BY <2>1, <2>2 DEF Idle, NoDeal
  <2>3. CASE /\ call'[c].at = "verifying" /\ call'[c].own = call[c].own
             /\ deal'[c].held = deal[c].held
    BY <2>1, <2>3
  <2> QED BY <1>13, <2>2, <2>3, DealMade
<1>14. ASSUME NEW c \in Calls, NEW k \in Swaps, SweepRefunds(c, k)
      PROVE  CallsOwned'
  BY <1>14
    DEF SweepRefunds, sessionWalletVars, CallsTyped, DealsTyped
<1>15. ASSUME NEW m \in Managers, ManagerCreated(m)
      PROVE  CallsOwned'
  BY <1>15
    DEF ManagerCreated, sessionWalletVars, CallsTyped, DealsTyped, Followed
<1>16. ASSUME NEW m \in Managers, ManagerFails(m)
      PROVE  CallsOwned'
  <2>1. UNCHANGED <<unlocked, deal>> /\ (WaitersGo("joining", "idle") \/ UNCHANGED call)
    BY <1>16 DEF ManagerFails
  <2>2. \A d \in Calls :
          call'[d] = call[d] \/ (call'[d] = Idle /\ call[d].at = "joining")
    BY <2>1, CallersGo DEF Stage
  <2>3. \A d \in Calls : call[d].at = "joining" => ~deal[d].held
    OBVIOUS
  <2> QED BY <2>1, <2>2, <2>3 DEF Idle
<1>17. ASSUME NEW k \in Swaps, Hears(k)
      PROVE  CallsOwned'
  BY <1>17
    DEF Hears, sessionWalletVars, CallsTyped, DealsTyped
<1>18. ASSUME NEW k \in Swaps, Claims(k)
      PROVE  CallsOwned'
  BY <1>18
    DEF Claims, sessionWalletVars, CallsTyped, DealsTyped
<1>19. ASSUME NEW k \in Swaps, ManagerRefunds(k)
      PROVE  CallsOwned'
  BY <1>19
    DEF ManagerRefunds, sessionWalletVars, CallsTyped, DealsTyped
<1>20. ASSUME NEW k \in Swaps, Boltz(k)
      PROVE  CallsOwned'
  BY <1>20
    DEF Boltz, sessionWalletVars, CallsTyped, DealsTyped
<1>21. ASSUME NEW kind \in {"pay", "invoice"},
             HasIdle /\ Asks(FirstIdle, kind) /\ UNCHANGED lightningVars
      PROVE  CallsOwned'
  BY <1>21, IdlePlace, CallAsks
    DEF lightningVars, Kind, DealsTyped, At
<1>22. ASSUME NEW b \in Builds, Built(b) /\ Keeps
      PROVE  CallsOwned'
  BY <1>22, DealsKept
    DEF Built, CallsTyped, NoDeal
<1>23. ASSUME NEW b \in Builds, BuildFails(b) /\ Keeps
      PROVE  CallsOwned'
  BY <1>23, CallersGo, DealsKept
    DEF BuildFails, Stage, CallsTyped, Idle, NoDeal
<1>24. ASSUME NEW b \in Builds, BuildTimesOut(b) /\ Keeps
      PROVE  CallsOwned'
  BY <1>24, CallersGo, DealsKept
    DEF BuildTimesOut, Stage, Idle, NoDeal
<1>25. ASSUME NEW c \in Calls, SnapshotRefreshes(c) /\ Keeps
      PROVE  CallsOwned'
  BY <1>25, CallGoes, DealsKept
    DEF SnapshotRefreshes, Refreshes, Stage, At, NoDeal
<1>26. ASSUME NEW c \in Calls, StaleRefreshEnds(c) /\ Keeps
      PROVE  CallsOwned'
  <2>1. /\ \A d \in Calls : d # c => call'[d] = call[d]
        /\ call'[c] = Idle /\ UNCHANGED unlocked
        /\ \A d \in Calls : deal'[d] = IF call'[d] = Idle THEN NoDeal ELSE deal[d]
    BY <1>26, CallOver, DealsKept DEF StaleRefreshEnds
  <2> QED BY <2>1 DEF Idle, NoDeal
<1>27. ASSUME NEW c \in Calls, FindsLocked(c) /\ Keeps
      PROVE  CallsOwned'
  <2>1. /\ \A d \in Calls : d # c => call'[d] = call[d]
        /\ call'[c] = Idle /\ UNCHANGED unlocked
        /\ \A d \in Calls : deal'[d] = IF call'[d] = Idle THEN NoDeal ELSE deal[d]
    BY <1>27, CallOver, DealsKept DEF FindsLocked
  <2> QED BY <2>1 DEF Idle, NoDeal
<1>28. ASSUME HasIdle /\ Asks(FirstIdle, "snapshot") /\ Keeps
      PROVE  CallsOwned'
  BY <1>28, IdlePlace, CallAsks, DealsKept
    DEF Kind, At, NoDeal
<1>29. ASSUME Refreshed /\ Keeps
      PROVE  CallsOwned'
  <2>1. /\ \A d \in Calls :
             \/ call'[d] = Idle \/ call'[d] = call[d]
             \/ call'[d].at = "sending" /\ call'[d].own = call[d].own /\ call[d].at = "refreshing"
        /\ UNCHANGED unlocked
    BY <1>29 DEF Refreshed, AfterRefresh, CallsTyped, At, Own
  <2>2. \A d \in Calls : deal'[d] = IF call'[d] = Idle THEN NoDeal ELSE deal[d]
    BY <1>29, DealsKept
  <2>3. ASSUME NEW d \in Calls
        PROVE  /\ call'[d].own => unlocked'
               /\ deal'[d].held => call'[d].own /\ call'[d].at \in WithRuntime
    <3>1. CASE call'[d] = Idle
      <4>1. deal'[d] = NoDeal
        BY <2>2, <3>1
      <4> QED BY <3>1, <4>1 DEF Idle, NoDeal
    <3>2. CASE call'[d] # Idle
      BY <2>1, <2>2, <3>2
    <3> QED BY <3>1, <3>2
  <2> QED BY <2>3
<1>30. ASSUME RefreshTimesOut /\ Keeps
      PROVE  CallsOwned'
  <2>1. /\ \A d \in Calls : call'[d] = Idle \/ call'[d] = call[d]
        /\ UNCHANGED unlocked
        /\ \A d \in Calls : deal'[d] = IF call'[d] = Idle THEN NoDeal ELSE deal[d]
    BY <1>30, CallersGo, DealsKept DEF RefreshTimesOut, Stage
  <2>2. ASSUME NEW d \in Calls
        PROVE  /\ call'[d].own => unlocked'
               /\ deal'[d].held => call'[d].own /\ call'[d].at \in WithRuntime
    <3>1. CASE call'[d] = Idle
      <4>1. deal'[d] = NoDeal
        BY <2>1, <3>1
      <4> QED BY <3>1, <4>1 DEF Idle, NoDeal
    <3>2. CASE call'[d] # Idle
      BY <2>1, <3>2
    <3> QED BY <3>1, <3>2
  <2> QED BY <2>2
<1>31. ASSUME FreshnessEnds /\ Keeps
      PROVE  CallsOwned'
  BY <1>31, DealsKept
    DEF FreshnessEnds, CallsTyped, NoDeal
<1>32. ASSUME UnlockHandled
      PROVE  CallsOwned'
  BY <1>32, IdlePlace
    DEF UnlockHandled, Opens, lightningVars, CallsTyped, DealsTyped, Kind, Stage, At
<1>33. ASSUME EndsAll
      PROVE  CallsOwned'
  BY <1>33, SessionOver
    DEF EndsAll, Ends
<1>34. ASSUME WorkerDies
      PROVE  CallsOwned'
  BY <1>34
    DEF WorkerDies, SessionWalletDies, CallsTyped, DealsTyped, NoDeal, Idle, Stage
<1>35. ASSUME UNCHANGED walletVars
      PROVE  CallsOwned'
  BY <1>35
    DEF walletVars, sessionWalletVars, lightningVars, CallsTyped, DealsTyped
<1>36. ASSUME Installed
      PROVE  CallsOwned'
  BY <1>36
    DEF Installed, Opens, lightningVars, CallsTyped, DealsTyped
<1> QED BY <1>1, <1>2, <1>3, <1>4, <1>5, <1>6, <1>7, <1>8, <1>9, <1>10, <1>11, <1>12,
          <1>13, <1>14, <1>15, <1>16, <1>17, <1>18, <1>19, <1>20, <1>21, <1>22, <1>23,
          <1>24, <1>25, <1>26, <1>27, <1>28, <1>29, <1>30, <1>31, <1>32, <1>33, <1>34,
          <1>35, <1>36
    DEF CallSteps, Next, SessionWalletSteps

Owned == CallsOwned /\ BuildsOwned /\ ManagersOwned /\ FreshIsSynced

(* What bears the mark of the live session is its own, always.             *)
LEMMA OwnedAlways == Spec => [](EveryTyped /\ Owned)
<1>1. Init => Owned
  BY DEF Init, SessionWalletInit, Owned, CallsOwned, BuildsOwned, ManagersOwned, FreshIsSynced,
         LiveBuild, LiveManager, Idle, NoBuild, NoManager, NoDeal
<1> QED BY <1>1, EveryTypeInitial, EveryTypeInductive, CallsOwnedInductive, BuildsOwnedInductive,
           ManagersOwnedInductive, FreshInductive, PTL
        DEF Spec, Owned

(* A wallet with its watchers runs only for the live session, and only one *)
(* does, however many builds outlast their timeouts and their sessions     *)
(* (wallet-runtime.ts:373-391).                                            *)
THEOREM WalletAlone == Spec => []OneWallet
<1>1. EveryTyped /\ Owned => OneWallet
  BY DEF Owned, BuildsOwned, LiveBuild, OneWallet
<1> QED BY <1>1, OwnedAlways, PTL

(* A swap manager runs only for the live session, and only one does        *)
(* (lightning.ts:65-69, 132-149).                                          *)
THEOREM ManagerAlone == Spec => []OneManager
<1>1. EveryTyped /\ Owned => OneManager
  BY DEF Owned, ManagersOwned, LiveManager, OneManager
<1> QED BY <1>1, OwnedAlways, PTL

(* A session counts as fresh only by a refresh of its own                  *)
(* (wallet-runtime.ts:441-447).                                            *)
THEOREM FreshBySession == Spec => []FreshIsSynced
<1>1. EveryTyped /\ Owned => FreshIsSynced
  BY DEF Owned
<1> QED BY <1>1, OwnedAlways, PTL

(* What runs, runs for the live session: the three together                *)
(* (wallet-runtime.ts:373-391, 441-447, lightning.ts:132-149).             *)
THEOREM NothingOutlives == Spec => []OneOfEach
<1> QED BY WalletAlone, ManagerAlone, FreshBySession, PTL DEF OneOfEach


----------------------------------------------------------------------------
(* What a step can do to a call and its swaps.                             *)

Following == {"creating", "verifying", "refreshing", "sending", "sweeping"}

CallStep(c) ==
  \/ call'[c].at = call[c].at /\ call'[c].kind = call[c].kind /\ deal'[c].swaps = deal[c].swaps
  \/ call'[c].at \notin Following
  \/ call'[c].at = "creating" /\ Holding(c)
  \/ /\ call'[c].at = "verifying" /\ call'[c].kind = "pay"
     /\ \E k \in Swaps : SwapCreated(c, k) /\ Acceptable(k) /\ deal'[c].swaps = {k}
  \/ /\ call'[c].at \in {"refreshing", "sending"} /\ call'[c].kind = call[c].kind
     /\ UNCHANGED swap /\ deal'[c].swaps = deal[c].swaps
     /\ \/ call[c].at = "verifying" /\ Verified(c)
        \/ call[c].at = "refreshing" /\ call[c].kind = "pay"
  \/ call'[c].at = "refreshing" /\ call'[c].kind = "snapshot"
  \/ call'[c].at = "sweeping" /\ deal'[c].swaps = Stranded /\ UNCHANGED swap

(* Every step is one of these to a call.                                   *)
LEMMA CallsSeen ==
  EveryTyped /\ [Next]_walletVars => \A d \in Calls : CallStep(d)
<1> SUFFICES ASSUME EveryTyped, [Next]_walletVars, NEW d \in Calls
             PROVE  CallStep(d)
  OBVIOUS
<1> USE DEF CallStep, Following, EveryTyped
<1>1. ASSUME NEW c \in Calls, CallsRuntime(c)
      PROVE  CallStep(d)
  BY <1>1, CallGoes
    DEF CallsRuntime, Resumes, lightningVars, Stage, CallsTyped, DealsTyped, At
<1>2. ASSUME NEW c \in Calls, AsksRuntime(c)
      PROVE  CallStep(d)
  BY <1>2, CallGoes
    DEF AsksRuntime, Stage, CallsTyped, DealsTyped, At
<1>3. ASSUME NEW c \in Calls, GetsRuntime(c)
      PROVE  CallStep(d)
  <2>1. /\ \A e \in Calls : e # c => call'[e] = call[e] /\ deal'[e] = deal[e]
        /\ call'[c].at \in {"listing", "pricing"}
    BY <1>3, CallGoes, DealHeld DEF GetsRuntime, Stage
  <2> QED BY <2>1
<1>4. ASSUME NEW c \in Calls, RuntimeGone(c)
      PROVE  CallStep(d)
  BY <1>4, CallOver, DealForgotten
    DEF RuntimeGone, Idle, NoDeal
<1>5. ASSUME NEW c \in Calls, Prices(c)
      PROVE  CallStep(d)
  BY <1>5, CallGoes, CallOver, DealForgotten
    DEF Prices, Stage, DealsTyped, At, Idle, NoDeal, Holding
<1>6. ASSUME NEW c \in Calls, SwapRefused(c)
      PROVE  CallStep(d)
  BY <1>6, CallOver, DealForgotten
    DEF SwapRefused, Idle, NoDeal
<1>7. ASSUME NEW c \in Calls, Verifies(c)
      PROVE  CallStep(d)
  BY <1>7, CallGoes, CallOver, DealForgotten
    DEF Verifies, Refreshes, Stage, DealsTyped, At, Own, Idle, NoDeal
<1>8. ASSUME NEW c \in Calls, Sends(c)
      PROVE  CallStep(d)
  BY <1>8, CallOver, DealForgotten
    DEF Sends, Idle, NoDeal
<1>9. ASSUME NEW c \in Calls, Probes(c)
      PROVE  CallStep(d)
  <2>1. UNCHANGED deal
    BY <1>9 DEF Probes, lightningVars
  <2>2. CASE d # c
    <3>1. call'[d] = call[d]
      BY <1>9, <2>2, CallOver, CallAsks DEF Probes, Kind
    <3> QED BY <2>1, <3>1
  <2>3. CASE d = c
    <3>1. call'[d].at \in {"idle", "wallet"}
      BY <1>9, <2>3, CallOver, CallAsks DEF Probes, Kind, Idle
    <3> QED BY <3>1
  <2> QED BY <2>2, <2>3
<1>10. ASSUME NEW c \in Calls, Lists(c)
      PROVE  CallStep(d)
  BY <1>10, DealListed
    DEF Lists, At
<1>11. ASSUME NEW c \in Calls, SweepEnds(c)
      PROVE  CallStep(d)
  BY <1>11, CallGoes
    DEF SweepEnds, Stage, DealsTyped, At
<1>12. ASSUME NEW c \in Calls, Updates(c)
      PROVE  CallStep(d)
  BY <1>12, CallOver, DealForgotten
    DEF Updates, Idle, NoDeal
<1>13. ASSUME NEW c \in Calls, NEW k \in Swaps, SwapCreated(c, k)
      PROVE  CallStep(d)
  <2>1. CASE d # c
    BY <1>13, <2>1, DealMade
  <2>2. CASE d = c /\ call'[c] = Idle
    BY <2>2 DEF Idle
  <2>3. CASE d = c /\ call'[c] # Idle
    <3>1. /\ Acceptable(k) /\ call'[c].at = "verifying" /\ call'[c].kind = "pay"
          /\ deal'[c].swaps = {k}
      BY <1>13, <2>3, DealMade
    <3> QED BY <1>13, <2>3, <3>1
  <2> QED BY <2>1, <2>2, <2>3
<1>14. ASSUME NEW c \in Calls, NEW k \in Swaps, SweepRefunds(c, k)
      PROVE  CallStep(d)
  BY <1>14
    DEF SweepRefunds, sessionWalletVars, CallsTyped, DealsTyped
<1>15. ASSUME NEW m \in Managers, ManagerCreated(m)
      PROVE  CallStep(d)
  BY <1>15
    DEF ManagerCreated, sessionWalletVars, CallsTyped, DealsTyped, Followed
<1>16. ASSUME NEW m \in Managers, ManagerFails(m)
      PROVE  CallStep(d)
  BY <1>16, CallersGo
    DEF ManagerFails, Stage, CallsTyped, DealsTyped, Idle, At
<1>17. ASSUME NEW k \in Swaps, Hears(k)
      PROVE  CallStep(d)
  BY <1>17
    DEF Hears, sessionWalletVars, CallsTyped, DealsTyped
<1>18. ASSUME NEW k \in Swaps, Claims(k)
      PROVE  CallStep(d)
  BY <1>18
    DEF Claims, sessionWalletVars, CallsTyped, DealsTyped
<1>19. ASSUME NEW k \in Swaps, ManagerRefunds(k)
      PROVE  CallStep(d)
  BY <1>19
    DEF ManagerRefunds, sessionWalletVars, CallsTyped, DealsTyped
<1>20. ASSUME NEW k \in Swaps, Boltz(k)
      PROVE  CallStep(d)
  BY <1>20
    DEF Boltz, sessionWalletVars, CallsTyped, DealsTyped
<1>21. ASSUME NEW kind \in {"pay", "invoice"},
             HasIdle /\ Asks(FirstIdle, kind) /\ UNCHANGED lightningVars
      PROVE  CallStep(d)
  BY <1>21, IdlePlace, CallAsks
    DEF lightningVars, Kind, DealsTyped, At
<1>22. ASSUME NEW b \in Builds, Built(b) /\ Keeps
      PROVE  CallStep(d)
  <2>1. call'[d] = call[d] /\ deal'[d] = IF call[d] = Idle THEN NoDeal ELSE deal[d]
    BY <1>22, DealsKept DEF Built
  <2>2. CASE call[d] = Idle
    BY <2>1, <2>2 DEF Idle
  <2>3. CASE call[d] # Idle
    BY <2>1, <2>3
  <2> QED BY <2>2, <2>3
<1>23. ASSUME NEW b \in Builds, BuildFails(b) /\ Keeps
      PROVE  CallStep(d)
  BY <1>23, CallersGo, DealsKept
    DEF BuildFails, Stage, CallsTyped, Idle, NoDeal
<1>24. ASSUME NEW b \in Builds, BuildTimesOut(b) /\ Keeps
      PROVE  CallStep(d)
  BY <1>24, CallersGo, DealsKept
    DEF BuildTimesOut, Stage, Idle, NoDeal
<1>25. ASSUME NEW c \in Calls, SnapshotRefreshes(c) /\ Keeps
      PROVE  CallStep(d)
  <2>1. /\ \A e \in Calls : e # c => call'[e] = call[e]
        /\ call'[c].kind = "snapshot" /\ call'[c].at = "refreshing"
    BY <1>25, CallGoes DEF SnapshotRefreshes, Refreshes, Stage
  <2>2. deal'[d] = IF call'[d] = Idle THEN NoDeal ELSE deal[d]
    BY <1>25, DealsKept
  <2>3. CASE d = c
    BY <2>1, <2>3
  <2>4. CASE d # c /\ call'[d] = Idle
    BY <2>4 DEF Idle
  <2>5. CASE d # c /\ call'[d] # Idle
    BY <2>1, <2>2, <2>5
  <2> QED BY <2>3, <2>4, <2>5
<1>26. ASSUME NEW c \in Calls, StaleRefreshEnds(c) /\ Keeps
      PROVE  CallStep(d)
  BY <1>26, CallOver, DealsKept
    DEF StaleRefreshEnds, Idle, NoDeal, CallsTyped, DealsTyped
<1>27. ASSUME NEW c \in Calls, FindsLocked(c) /\ Keeps
      PROVE  CallStep(d)
  BY <1>27, CallOver, DealsKept
    DEF FindsLocked, Idle, NoDeal, CallsTyped, DealsTyped
<1>28. ASSUME HasIdle /\ Asks(FirstIdle, "snapshot") /\ Keeps
      PROVE  CallStep(d)
  <2>1. /\ deal'[d] = IF call'[d] = Idle THEN NoDeal ELSE deal[d]
        /\ call'[d] = call[d] \/ call'[d] = [kind |-> "snapshot", at |-> "wallet", own |-> TRUE]
    BY <1>28, IdlePlace, CallAsks, DealsKept DEF Kind
  <2>2. CASE call'[d] = Idle
    BY <2>2 DEF Idle
  <2>3. CASE call'[d] = call[d] /\ call'[d] # Idle
    BY <2>1, <2>3
  <2>4. CASE call'[d] = [kind |-> "snapshot", at |-> "wallet", own |-> TRUE]
    BY <2>4
  <2> QED BY <2>1, <2>2, <2>3, <2>4
<1>29. ASSUME Refreshed /\ Keeps
      PROVE  CallStep(d)
  <2>1. /\ deal'[d] = IF call'[d] = Idle THEN NoDeal ELSE deal[d]
        /\ UNCHANGED swap
    BY <1>29, DealsKept
  <2>2. CASE call'[d] = Idle
    BY <2>2 DEF Idle
  <2>3. CASE call'[d] = call[d] /\ call'[d] # Idle
    BY <2>1, <2>3
  <2>4. CASE /\ call[d].at = "refreshing" /\ call[d].kind = "pay" /\ call'[d] # Idle
             /\ call'[d].at = "sending" /\ call'[d].kind = call[d].kind
    BY <2>1, <2>4
  <2> QED BY <1>29, <2>2, <2>3, <2>4 DEF Refreshed, AfterRefresh, CallsTyped, At, Own
<1>30. ASSUME RefreshTimesOut /\ Keeps
      PROVE  CallStep(d)
  BY <1>30, CallersGo, DealsKept
    DEF RefreshTimesOut, Stage, Idle, NoDeal, CallsTyped, DealsTyped
<1>31. ASSUME FreshnessEnds /\ Keeps
      PROVE  CallStep(d)
  <2>1. call'[d] = call[d] /\ deal'[d] = IF call[d] = Idle THEN NoDeal ELSE deal[d]
    BY <1>31, DealsKept DEF FreshnessEnds
  <2>2. CASE call[d] = Idle
    BY <2>1, <2>2 DEF Idle
  <2>3. CASE call[d] # Idle
    BY <2>1, <2>3
  <2> QED BY <2>2, <2>3
<1>32. ASSUME UnlockHandled
      PROVE  CallStep(d)
  BY <1>32, IdlePlace
    DEF UnlockHandled, Opens, lightningVars, CallsTyped, DealsTyped, Kind, Stage, At
<1>33. ASSUME EndsAll
      PROVE  CallStep(d)
  BY <1>33, SessionOver
    DEF EndsAll, Ends
<1>34. ASSUME WorkerDies
      PROVE  CallStep(d)
  BY <1>34
    DEF WorkerDies, SessionWalletDies, CallsTyped, DealsTyped, NoDeal, Idle, Stage
<1>35. ASSUME UNCHANGED walletVars
      PROVE  CallStep(d)
  BY <1>35
    DEF walletVars, sessionWalletVars, lightningVars, CallsTyped, DealsTyped
<1>36. ASSUME Installed
      PROVE  CallStep(d)
  BY <1>36
    DEF Installed, Opens, lightningVars, CallsTyped, DealsTyped
<1> QED BY <1>1, <1>2, <1>3, <1>4, <1>5, <1>6, <1>7, <1>8, <1>9, <1>10, <1>11, <1>12,
          <1>13, <1>14, <1>15, <1>16, <1>17, <1>18, <1>19, <1>20, <1>21, <1>22, <1>23,
          <1>24, <1>25, <1>26, <1>27, <1>28, <1>29, <1>30, <1>31, <1>32, <1>33, <1>34,
          <1>35, <1>36
    DEF CallSteps, Next, SessionWalletSteps

----------------------------------------------------------------------------
(* Swaps.                                                                  *)

WithinSlack(k) == swap[k].ask <= Quote + Slack

OurMoney == {"failed", "lockupFailed"}

\* What is saved of a swap follows from what became of it.
SavedTruly(k) ==
  /\ swap[k].fate = "none" => swap[k].saved = "none"
  /\ swap[k].kind = "pay" =>
       /\ swap[k].refunded => swap[k].fate = "back"
       /\ swap[k].saved = "done" => swap[k].fate = "done"
       /\ swap[k].saved \in OurMoney => swap[k].fate \in OurMoney \cup {"back", "expired"}
       /\ swap[k].fate = "back" => swap[k].saved \in OurMoney
  /\ swap[k].kind # "pay" =>
       /\ swap[k].saved = "done" => swap[k].fate = "done"
       /\ swap[k].saved = "expired" => swap[k].fate = "expired"
       /\ swap[k].saved = "failed" => swap[k].fate = "failed"
       /\ swap[k].saved = "locked" => swap[k].fate \notin {"none", "open"}
       /\ swap[k].fate \notin {"lockupFailed", "back"}

\* Money that was locked was locked for a price and in a lockup that were checked.
LockedRightly(k) ==
  swap[k].kind = "pay" /\ swap[k].fate \notin {"none", "open", "expired"} =>
    swap[k].ours /\ WithinSlack(k)

\* What a call goes on with was checked before, and still holds.
DealSound(c) ==
  /\ call[c].at \in {"verifying", "sending"} => call[c].kind = "pay"
  /\ call[c].kind = "pay" /\ call[c].at \in {"verifying", "refreshing", "sending"} =>
       \A k \in deal[c].swaps :
         /\ swap[k].kind = "pay" /\ swap[k].fate # "none" /\ WithinSlack(k)
         /\ call[c].at # "verifying" => swap[k].ours
  /\ call[c].at = "sweeping" =>
       \A k \in deal[c].swaps :
         swap[k].kind = "pay" /\ swap[k].saved = "failed" /\ swap[k].fate # "none"

SwapsSound ==
  /\ \A k \in Swaps : SavedTruly(k) /\ LockedRightly(k)
  /\ \A c \in Calls : DealSound(c)

\* What nothing changes of a swap that was made.
Kept(k) ==
  swap[k].fate # "none" =>
    /\ swap'[k].fate # "none" /\ swap'[k].kind = swap[k].kind
    /\ swap'[k].ask = swap[k].ask /\ swap'[k].ours = swap[k].ours
    /\ swap[k].saved = "failed" => swap'[k].saved = "failed"

(* Nothing changes the price or the key of a swap that was made.           *)
LEMMA SwapsKept ==
  EveryTyped /\ [Next]_walletVars => \A k \in Swaps : Kept(k)
<1> SUFFICES ASSUME EveryTyped, SwapStep, NEW j \in Swaps, swap[j].fate # "none"
             PROVE  Kept(j)
  BY StepsSeen DEF Kept
<1> USE DEF Kept, EveryTyped
<1>1. CASE UNCHANGED swap
  BY <1>1
<1>2. ASSUME NEW c \in Calls, Sends(c)
      PROVE  Kept(j)
  BY <1>2, SwapsSent DEF Funded
<1>3. ASSUME NEW c \in Calls, SweepEnds(c)
      PROVE  Kept(j)
  BY <1>3, SweepSaved
<1>4. ASSUME NEW c \in Calls, Updates(c)
      PROVE  Kept(j)
  BY <1>4, SwapsUpdated DEF Final, Saved
<1>5. ASSUME NEW c \in Calls, NEW k \in Swaps, SwapCreated(c, k)
      PROVE  Kept(j)
  BY <1>5, SwapMade
<1>6. ASSUME NEW c \in Calls, NEW k \in Swaps, SweepRefunds(c, k)
      PROVE  Kept(j)
  BY <1>6, SwapTurns DEF SweepRefunds, Fate
<1>7. ASSUME NEW k \in Swaps, Hears(k)
      PROVE  Kept(j)
  BY <1>7, SwapHeard DEF Hears, Final, Saved
<1>8. ASSUME NEW k \in Swaps, Claims(k)
      PROVE  Kept(j)
  BY <1>8, SwapTurns DEF Claims, Fate
<1>9. ASSUME NEW k \in Swaps, ManagerRefunds(k)
      PROVE  Kept(j)
  BY <1>9, SwapTurns, RefundSaved DEF ManagerRefunds, Fate
<1>10. ASSUME NEW k \in Swaps, Boltz(k)
       PROVE  Kept(j)
  <2>1. PICK fate \in Fate \ {"none"} : Turns(k, fate)
    BY <1>10 DEF Boltz
  <2> QED BY <2>1, SwapTurns
<1> QED BY <1>1, <1>2, <1>3, <1>4, <1>5, <1>6, <1>7, <1>8, <1>9, <1>10 DEF SwapStep

(* Every step leaves what is saved of swaps true.                          *)
LEMMA SavedTrulyInductive ==
  EveryTyped /\ SwapsSound /\ [Next]_walletVars => \A k \in Swaps : SavedTruly(k)'
<1> SUFFICES ASSUME EveryTyped, SwapsSound, SwapStep, NEW j \in Swaps
             PROVE  SavedTruly(j)'
  BY StepsSeen
<1> USE DEF SavedTruly, OurMoney, EveryTyped, SwapsSound
<1>1. CASE UNCHANGED swap
  BY <1>1
<1>2. ASSUME NEW c \in Calls, Sends(c)
      PROVE  SavedTruly(j)'
  BY <1>2, SwapsSent DEF Sends, At, DealSound, Funded
<1>3. ASSUME NEW c \in Calls, SweepEnds(c)
      PROVE  SavedTruly(j)'
  BY <1>3, SweepSaved
<1>4. ASSUME NEW c \in Calls, Updates(c)
      PROVE  SavedTruly(j)'
  BY <1>4, SwapsUpdated DEF Final, Saved, Status, PaidFor
<1>5. ASSUME NEW c \in Calls, NEW k \in Swaps, SwapCreated(c, k)
      PROVE  SavedTruly(j)'
  BY <1>5, SwapMade
<1>6. ASSUME NEW c \in Calls, NEW k \in Swaps, SweepRefunds(c, k)
      PROVE  SavedTruly(j)'
  BY <1>6, SwapTurns DEF SweepRefunds, Fate, At, DealSound
<1>7. ASSUME NEW k \in Swaps, Hears(k)
      PROVE  SavedTruly(j)'
  BY <1>7, SwapHeard DEF Hears, Final, Saved, Status, PaidFor
<1>8. ASSUME NEW k \in Swaps, Claims(k)
      PROVE  SavedTruly(j)'
  BY <1>8, SwapTurns DEF Claims, Fate, Saved
<1>9. ASSUME NEW k \in Swaps, ManagerRefunds(k)
      PROVE  SavedTruly(j)'
  BY <1>9, SwapTurns, RefundSaved DEF ManagerRefunds, Fate, Refundable, PaidFor, Saved
<1>10. ASSUME NEW k \in Swaps, Boltz(k)
       PROVE  SavedTruly(j)'
  BY <1>10, SwapTurns DEF Boltz
<1> QED BY <1>1, <1>2, <1>3, <1>4, <1>5, <1>6, <1>7, <1>8, <1>9, <1>10 DEF SwapStep

(* Every step locks money for checked swaps only.                          *)
LEMMA LockedRightlyInductive ==
  EveryTyped /\ SwapsSound /\ [Next]_walletVars => \A k \in Swaps : LockedRightly(k)'
<1> SUFFICES ASSUME EveryTyped, SwapsSound, SwapStep, NEW j \in Swaps
             PROVE  LockedRightly(j)'
  BY StepsSeen
<1> USE DEF LockedRightly, WithinSlack, OurMoney, EveryTyped, SwapsSound
<1>1. CASE UNCHANGED swap
  BY <1>1
<1>2. ASSUME NEW c \in Calls, Sends(c)
      PROVE  LockedRightly(j)'
  BY <1>2, SwapsSent DEF Sends, At, DealSound, Funded
<1>3. ASSUME NEW c \in Calls, SweepEnds(c)
      PROVE  LockedRightly(j)'
  BY <1>3, SweepSaved
<1>4. ASSUME NEW c \in Calls, Updates(c)
      PROVE  LockedRightly(j)'
  BY <1>4, SwapsUpdated
<1>5. ASSUME NEW c \in Calls, NEW k \in Swaps, SwapCreated(c, k)
      PROVE  LockedRightly(j)'
  BY <1>5, SwapMade
<1>6. ASSUME NEW c \in Calls, NEW k \in Swaps, SweepRefunds(c, k)
      PROVE  LockedRightly(j)'
  BY <1>6, SwapTurns DEF SweepRefunds, Fate
<1>7. ASSUME NEW k \in Swaps, Hears(k)
      PROVE  LockedRightly(j)'
  BY <1>7, SwapHeard
<1>8. ASSUME NEW k \in Swaps, Claims(k)
      PROVE  LockedRightly(j)'
  BY <1>8, SwapTurns DEF Claims, Fate
<1>9. ASSUME NEW k \in Swaps, ManagerRefunds(k)
      PROVE  LockedRightly(j)'
  BY <1>9, SwapTurns, RefundSaved DEF ManagerRefunds, Fate
<1>10. ASSUME NEW k \in Swaps, Boltz(k)
       PROVE  LockedRightly(j)'
  BY <1>10, SwapTurns DEF Boltz
<1> QED BY <1>1, <1>2, <1>3, <1>4, <1>5, <1>6, <1>7, <1>8, <1>9, <1>10 DEF SwapStep

(* What a call checked before still holds when it goes on.                 *)
LEMMA DealSoundInductive ==
  EveryTyped /\ SwapsSound /\ [Next]_walletVars => \A c \in Calls : DealSound(c)'
<1> SUFFICES ASSUME EveryTyped, SwapsSound, [Next]_walletVars, NEW c \in Calls
             PROVE  DealSound(c)'
  OBVIOUS
<1>1. CallStep(c)
  BY CallsSeen
<1>2. deal[c].swaps \subseteq Swaps /\ \A k \in deal[c].swaps : Kept(k)
  BY SwapsKept DEF EveryTyped, DealsTyped
<1> USE DEF DealSound, WithinSlack
<1>3. CASE /\ call'[c].at = call[c].at /\ call'[c].kind = call[c].kind
           /\ deal'[c].swaps = deal[c].swaps
  BY <1>2, <1>3 DEF Kept, SwapsSound
<1>4. CASE call'[c].at \notin Following \/ call'[c].at = "creating"
  BY <1>4 DEF Following
<1>5. ASSUME call'[c].at = "verifying", call'[c].kind = "pay",
             NEW k \in Swaps, SwapCreated(c, k), Acceptable(k), deal'[c].swaps = {k}
      PROVE  DealSound(c)'
  <2>1. call[c].kind = "pay" /\ swap'[k].kind = "pay" /\ swap'[k].fate = "open"
    <3>1. call[c].kind = "pay"
      BY <1>5, DealMade DEF EveryTyped, Idle
    <3> QED BY <1>5, <3>1, SwapMade DEF EveryTyped
  <2>2. swap'[k].ask <= Quote + Slack
    BY <1>5 DEF Acceptable
  <2> QED BY <1>5, <2>1, <2>2
<1>6. CASE /\ call'[c].at \in {"refreshing", "sending"} /\ call'[c].kind = call[c].kind
           /\ UNCHANGED swap /\ deal'[c].swaps = deal[c].swaps
           /\ \/ call[c].at = "verifying" /\ Verified(c)
              \/ call[c].at = "refreshing" /\ call[c].kind = "pay"
  BY <1>6 DEF Verified, SwapsSound
<1>7. CASE call'[c].at = "refreshing" /\ call'[c].kind = "snapshot"
  BY <1>7
<1>8. CASE call'[c].at = "sweeping" /\ deal'[c].swaps = Stranded /\ UNCHANGED swap
  BY <1>8 DEF Stranded, Refundable, Final, Saved, PaidFor, SwapsSound, SavedTruly
<1> QED BY <1>1, <1>3, <1>4, <1>5, <1>6, <1>7, <1>8 DEF CallStep

(* Swaps, and what calls go on with, are sound, always.                    *)
LEMMA SwapsSoundAlways == Spec => [](EveryTyped /\ SwapsSound)
<1>1. Init => SwapsSound
  BY DEF Init, SessionWalletInit, SwapsSound, SavedTruly, LockedRightly, DealSound, NoSwap, Idle,
         OurMoney
<1>2. EveryTyped /\ SwapsSound /\ [Next]_walletVars => SwapsSound'
  BY SavedTrulyInductive, LockedRightlyInductive, DealSoundInductive DEF SwapsSound
<1> QED BY <1>1, <1>2, EveryTypeInitial, EveryTypeInductive, PTL DEF Spec

(* For any amount, what is locked for a payment is within the slack of     *)
(* what the user confirmed, in a lockup that our key can refund            *)
(* (lightning.ts:490-520).                                                 *)
THEOREM PaymentsAsConfirmed == Spec => []PaidAsConfirmed
<1>1. EveryTyped /\ SwapsSound => PaidAsConfirmed
  <2> SUFFICES ASSUME EveryTyped, SwapsSound, NEW k \in Swaps,
                      Paid(k)
               PROVE  /\ swap[k].ours
                      /\ swap[k].ask - Quote <= 10 \/ 1000 * (swap[k].ask - Quote - 1) < Amount
    BY DEF PaidAsConfirmed
  <2>1. swap[k].ours /\ swap[k].ask <= Quote + Slack
    BY DEF SwapsSound, LockedRightly, Paid, PaidFor, WithinSlack
  <2>2. swap[k].ask \in Nat /\ Quote \in Nat /\ Amount \in Nat /\ Amount > 0
    BY LightningAssumption DEF EveryTyped, SwapsTyped, Quote
  <2>3. (Amount + 999) \div 1000 \in Nat /\ 1000 * ((Amount + 999) \div 1000) <= Amount + 999
    BY <2>2
  <2>4. swap[k].ask - Quote <= Slack
    BY <2>1, <2>2, <2>3 DEF Slack
  <2>5. Slack = 10 \/ Slack = (Amount + 999) \div 1000
    BY DEF Slack
  <2> HIDE DEF Quote, Slack
  <2> QED BY <2>1, <2>2, <2>3, <2>4, <2>5
<1> QED BY <1>1, SwapsSoundAlways, PTL

(* What is shown of any swap came about (lightning.ts:329-350, 556-575).   *)
THEOREM StatusTrue == Spec => []StatusHonest
<1>1. ASSUME SwapsSound, NEW k \in Swaps, PaidFor(k)
      PROVE  /\ PayStatus(k) = "refunded" => swap[k].fate = "back"
             /\ PayStatus(k) = "paid" => swap[k].fate = "done"
             /\ PayStatus(k) = "refund-pending" =>
                  swap[k].fate \in {"failed", "lockupFailed", "back", "expired"}
  <2>1. SavedTruly(k)
    BY <1>1 DEF SwapsSound
  <2>2. CASE swap[k].refunded
    BY <1>1, <2>1, <2>2 DEF SavedTruly, PayStatus, PaidFor
  <2>3. CASE ~swap[k].refunded
    BY <1>1, <2>1, <2>3 DEF SavedTruly, OurMoney, PayStatus, PaidFor, Saved
  <2> QED BY <2>2, <2>3
<1>2. ASSUME SwapsSound, NEW k \in Swaps, ~PaidFor(k)
      PROVE  /\ ReceiveStatus(k) \in {"done", "expired", "failed"} => swap[k].fate = ReceiveStatus(k)
             /\ ReceiveStatus(k) = "claiming" => swap[k].fate \notin {"none", "open"}
  <2>1. SavedTruly(k) /\ swap[k].kind # "pay"
    BY <1>2 DEF SwapsSound, PaidFor
  <2>2. CASE Saved(k) = "expired"
    BY <2>1, <2>2 DEF SavedTruly, ReceiveStatus, Saved
  <2>3. CASE Saved(k) # "expired"
    BY <2>1, <2>3 DEF SavedTruly, ReceiveStatus, ReverseFailed, Saved
  <2> QED BY <2>2, <2>3
<1>3. SwapsSound => StatusHonest
  BY <1>1, <1>2 DEF StatusHonest
<1> QED BY <1>3, SwapsSoundAlways, PTL

(* Swaps are asked for and paid by calls of the live session only          *)
(* (lightning.ts:106-108, 538).                                            *)
THEOREM SwapsInOwnSession == Spec => InOwnSession
<1>1. ASSUME EveryTyped, Owned, [Next]_walletVars, NEW c \in Calls,
             At(c, "pricing"), call'[c].at = "creating"
      PROVE  Own(c)
  <2>1. CallStep(c)
    BY <1>1, CallsSeen
  <2>2. Holding(c)
    BY <1>1, <2>1 DEF CallStep, At, Following
  <2> QED BY <1>1, <2>2 DEF Owned, CallsOwned, Holding, Own
<1>2. ASSUME EveryTyped, Owned, SwapsSound, [Next]_walletVars, NEW k \in Swaps,
             ~Paid(k), Paid(k)'
      PROVE  \E c \in Calls : At(c, "sending") /\ Own(c) /\ k \in deal[c].swaps
  <2>1. SwapStep
    BY <1>2, StepsSeen
  <2>a. swap'[k].kind = "pay" /\ swap'[k].fate \notin {"none", "open", "expired"}
    BY <1>2 DEF Paid, PaidFor
  <2>b. swap[k].fate # "none" =>
          swap[k].kind = "pay" /\ swap[k].fate \in {"open", "expired"}
    BY <1>2, <2>a, SwapsKept DEF Kept, Paid, PaidFor
  <2>c. swap'[k].fate # swap[k].fate
    BY <2>a, <2>b
  <2>2. PICK c \in Calls : Sends(c) /\ k \in deal[c].swaps
    <3> USE DEF EveryTyped
    <3>1. ASSUME NEW c \in Calls, Sends(c)
          PROVE  k \in deal[c].swaps
      BY <1>2, <2>c, <3>1, SwapsSent
    <3>2. CASE UNCHANGED swap \/ \E c \in Calls : SweepEnds(c) \/ Updates(c)
      BY <1>2, <2>c, <3>2, SweepSaved, SwapsUpdated
    <3>3. ASSUME NEW c \in Calls, NEW j \in Swaps, SwapCreated(c, j)
          PROVE  FALSE
      BY <1>2, <2>a, <2>c, <3>3, SwapMade
    <3>4. ASSUME NEW c \in Calls, NEW j \in Swaps, SweepRefunds(c, j)
          PROVE  FALSE
      BY <1>2, <2>b, <2>c, <3>4, SwapTurns DEF SweepRefunds, Fate
    <3>5. ASSUME NEW j \in Swaps, Hears(j) \/ Claims(j) \/ ManagerRefunds(j) \/ Boltz(j)
          PROVE  FALSE
      <4>1. CASE Hears(j)
        BY <1>2, <2>c, <4>1, SwapHeard
      <4>2. CASE Claims(j) \/ ManagerRefunds(j)
        BY <1>2, <2>b, <2>c, <4>2, SwapTurns, RefundSaved DEF Claims, ManagerRefunds, Fate
      <4>3. CASE Boltz(j)
        <5>1. PICK fate \in Fate :
                /\ <<swap[j].kind, swap[j].fate, fate>> \in
                     {<<"pay", "open", "expired">>, <<"pay", "locked", "done">>,
                      <<"pay", "locked", "failed">>, <<"pay", "locked", "lockupFailed">>,
                      <<"receive", "open", "locked">>, <<"receive", "open", "expired">>,
                      <<"receive", "open", "failed">>, <<"receive", "locked", "expired">>,
                      <<"receive", "locked", "failed">>}
                /\ Turns(j, fate)
          BY <4>3 DEF Boltz
        <5>2. j = k /\ swap'[k].fate = fate
          BY <1>2, <2>c, <5>1, SwapTurns
        <5> QED BY <2>a, <2>b, <5>1, <5>2
      <4> QED BY <3>5, <4>1, <4>2, <4>3
    <3> QED BY <2>1, <3>1, <3>2, <3>3, <3>4, <3>5 DEF SwapStep
  <2> QED BY <1>2, <2>2 DEF Sends, Holding, Owned, CallsOwned, Own
<1>3. EveryTyped /\ Owned /\ SwapsSound /\ [Next]_walletVars =>
        [/\ \A c \in Calls : At(c, "pricing") /\ call'[c].at = "creating" => Own(c)
         /\ \A k \in Swaps : ~Paid(k) /\ Paid(k)' =>
              \E c \in Calls : At(c, "sending") /\ Own(c) /\ k \in deal[c].swaps]_walletVars
  BY <1>1, <1>2
<1> QED BY <1>3, OwnedAlways, SwapsSoundAlways, PTL DEF Spec, InOwnSession
=============================================================================
