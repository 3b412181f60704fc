-------------------------- MODULE WalletCoinsProofs --------------------------
(***************************************************************************)
(* What holds of the wallet's coins and of the calls that spend and renew  *)
(* them, for any coins, calls, sessions and generations.                   *)
(***************************************************************************)
EXTENDS WalletCoins, FiniteSetTheorems, TLAPS

CoinsTyped == coin \in [Coins -> [age: Age, gen: 0..MaxGen]]
CallsTyped == call \in [Workers -> Call]

(* A coin that was seen has been given a new outpoint since.               *)
Grown(k, p) == k[p[1]].gen > p[2]

RoundPoints == {"spending", "exiting", "boarding", "recovering", "draining", "renewing"}

(* What a call c saw and signs for, while the coins are as k says: picked  *)
(* coins are all of a send's inputs, what a renewal saw lapsed is lapsed   *)
(* still, in the drain's inputs, or has a new outpoint, and all of it has  *)
(* one when the renewal round begins, so that its inputs are others.       *)
SeenOK(c, k) ==
  /\ c.signed # 0 => c.at \in RoundPoints
  /\ c.at \in {"reading", "balanced"} => c.seen = {}
  /\ c.at = "spending" /\ c.seen # {} => c.inputs = c.seen
  /\ c.at = "renewing" => c.inputs \cap c.seen = {}
  /\ \A p \in c.seen :
       /\ c.at = "draining" /\ c.signed = 0 =>
            Grown(k, p) \/ (k[p[1]].gen = p[2] /\ k[p[1]].age \in {"expired", "swept"})
       /\ c.at = "draining" /\ c.signed # 0 => Grown(k, p) \/ p \in c.inputs
       /\ c.at = "renewing" /\ c.signed = 0 => Grown(k, p)

SeenInv == \A w \in Workers : SeenOK(call[w], coin)

CoinsInv == CoinsTypeOK /\ SeenInv

----------------------------------------------------------------------------
(* The operators that the actions share.                                   *)

(* The coins of some ages, and their outpoints.                            *)
LEMMA AgedCoins ==
  ASSUME CoinsTyped, NEW ages
  PROVE  /\ Aged(ages) \subseteq Coins /\ Out(Aged(ages)) \subseteq Outpoint
         /\ Cardinality(Aged(ages)) \in Nat
  <1>1. Aged(ages) \subseteq Coins
    BY DEF Aged
  <1>2. Cardinality(Aged(ages)) \in Nat
    BY <1>1, CoinsAssumption, FS_Subset, FS_CardinalityType
  <1>3. Out(Aged(ages)) \subseteq Outpoint
    BY <1>1 DEF CoinsTyped, Out, Outpoint
  <1> QED
    BY <1>1, <1>2, <1>3

(* A call that moves moves alone.                                          *)
LEMMA OneBecomes ==
  ASSUME CallsTyped, NEW w \in Workers, NEW new \in Call, Becomes(w, new)
  PROVE  /\ CallsTyped' /\ call'[w] = new
         /\ \A v \in Workers : v # w => call'[v] = call[v]
  BY DEF CallsTyped, Becomes

(* What a step may do to the coins: a generation never goes back, and what *)
(* has lapsed is not anything else again without a new one.                *)
CoinsMove ==
  \A c \in Coins :
    /\ coin'[c].gen >= coin[c].gen
    /\ c \in Lapsed => coin'[c].gen > coin[c].gen \/ c \in Lapsed'

(* Coins that are spent had not lapsed.                                    *)
LEMMA SpentMove ==
  ASSUME CoinsTyped, NEW cs \in SUBSET Spendable, Spent(cs)
  PROVE  CoinsTyped' /\ CoinsMove
  <1>1. \A c \in Coins : coin[c] \in [age: Age, gen: 0..MaxGen] /\ coin[c].gen \in Nat
    BY CoinsAssumption DEF CoinsTyped
  <1>2. \A c \in Coins : [coin[c] EXCEPT !.age = "spent"] \in [age: Age, gen: 0..MaxGen]
    BY <1>1 DEF Age
  <1>3. CoinsTyped'
    BY <1>1, <1>2 DEF CoinsTyped, Spent
  <1>4. \A c \in Coins : coin'[c].gen = coin[c].gen /\ (c \notin cs => coin'[c] = coin[c])
    BY <1>1 DEF Spent
  <1>5. \A c \in Lapsed : c \notin cs
    BY DEF Lapsed, Spendable, Aged
  <1>6. \A c \in Coins : c \in Lapsed => c \in Lapsed'
    BY <1>4, <1>5 DEF Lapsed, Aged
  <1> QED
    BY <1>1, <1>3, <1>4, <1>6 DEF CoinsMove

(* Coins that a round took have a new outpoint, and the others stay.       *)
LEMMA ReissuedMove ==
  ASSUME CoinsTyped, NEW cs \in SUBSET Coins, Reissued(cs)
  PROVE  /\ CoinsTyped' /\ CoinsMove
         /\ \A c \in cs : coin'[c].gen > coin[c].gen
         /\ \A c \in Coins \ cs : coin'[c] = coin[c]
  <1>1. \A c \in Coins : coin[c] \in [age: Age, gen: 0..MaxGen] /\ coin[c].gen \in Nat
    BY CoinsAssumption DEF CoinsTyped
  <1>2. \A c \in cs : [age |-> "live", gen |-> coin[c].gen + 1] \in [age: Age, gen: 0..MaxGen]
    BY <1>1, CoinsAssumption DEF Age, Reissued
  <1>3. CoinsTyped'
    BY <1>1, <1>2 DEF CoinsTyped, Reissued
  <1>4. /\ \A c \in cs : coin'[c].gen = coin[c].gen + 1
        /\ \A c \in Coins \ cs : coin'[c] = coin[c]
    BY DEF Reissued
  <1>5. \A c \in cs : coin'[c].gen > coin[c].gen
    BY <1>1, <1>4
  <1>6. CoinsMove
    BY <1>1, <1>4, <1>5 DEF CoinsMove, Lapsed, Aged
  <1> QED
    BY <1>3, <1>4, <1>5, <1>6

(* A coin that ages has no new outpoint, and is spendable or lapses.       *)
LEMMA AgesMove ==
  ASSUME CoinsTyped, NEW c \in Coins, Ages(c)
  PROVE  CoinsTyped' /\ CoinsMove
  <1>1. \A d \in Coins : coin[d] \in [age: Age, gen: 0..MaxGen] /\ coin[d].gen \in Nat
    BY CoinsAssumption DEF CoinsTyped
  <1>2. PICK age \in {"soon", "expired", "swept"} :
          /\ coin' = [coin EXCEPT ![c].age = age]
          /\ coin[c].age \in {"expired", "swept"} => age \in {"expired", "swept"}
    BY DEF Ages
  <1>3. coin'[c].gen = coin[c].gen /\ coin'[c].age = age /\ CoinsTyped'
    BY <1>1, <1>2 DEF CoinsTyped, Age
  <1>4. \A d \in Coins : d # c => coin'[d] = coin[d]
    BY <1>2 DEF CoinsTyped
  <1>5. \A d \in Coins : d \in Lapsed => d \in Lapsed'
    BY <1>2, <1>3, <1>4 DEF Lapsed, Aged
  <1> QED
    BY <1>1, <1>3, <1>4, <1>5 DEF CoinsMove

(* What a call saw is still so after the coins have moved.                 *)
LEMMA SeenStays ==
  ASSUME CoinsTyped, CoinsTyped', CoinsMove, NEW c \in Call, SeenOK(c, coin)
  PROVE  SeenOK(c, coin')
  <1>1. ASSUME NEW p \in c.seen
        PROVE  /\ Grown(coin, p) => Grown(coin', p)
               /\ coin[p[1]].gen = p[2] /\ coin[p[1]].age \in {"expired", "swept"}
                  => \/ Grown(coin', p)
                     \/ coin'[p[1]].gen = p[2] /\ coin'[p[1]].age \in {"expired", "swept"}
    <2>1. p[1] \in Coins /\ p[2] \in Nat
      BY CoinsAssumption DEF Call, Outpoint
    <2>2. coin[p[1]].gen \in Nat /\ coin'[p[1]].gen \in Nat
      BY <2>1, CoinsAssumption DEF CoinsTyped
    <2>3. Grown(coin, p) => Grown(coin', p)
      BY <2>1, <2>2 DEF Grown, CoinsMove
    <2>4. coin[p[1]].gen = p[2] /\ coin[p[1]].age \in {"expired", "swept"}
          => \/ Grown(coin', p)
             \/ coin'[p[1]].gen = p[2] /\ coin'[p[1]].age \in {"expired", "swept"}
      BY <2>1, <2>2 DEF Grown, CoinsMove, Lapsed, Aged
    <2> QED
      BY <2>3, <2>4
  <1> QED
    BY <1>1 DEF SeenOK

(* A step of one call, which may move the coins.                           *)
LEMMA OneStep ==
  ASSUME CoinsInv, UNCHANGED sessionVars, CoinsTyped', warning' \subseteq Outpoint, CoinsMove,
         NEW w \in Workers, NEW new \in Call, Becomes(w, new), SeenOK(new, coin')
  PROVE  CoinsInv'
  <1>1. CoinsTyped /\ CallsTyped /\ SeenInv
    BY DEF CoinsInv, CoinsTypeOK, CoinsTyped, CallsTyped
  <1>2. /\ CallsTyped' /\ call'[w] = new
        /\ \A v \in Workers : v # w => call'[v] = call[v]
    BY <1>1, OneBecomes
  <1>3. ASSUME NEW v \in Workers
        PROVE  SeenOK(call'[v], coin')
    <2>1. call[v] \in Call /\ SeenOK(call[v], coin)
      BY <1>1 DEF CallsTyped, SeenInv
    <2> QED
      BY <1>1, <1>2, <2>1, SeenStays
  <1>4. SeenInv'
    BY <1>3 DEF SeenInv
  <1>5. SessionTypeOK'
    BY DEF CoinsInv, CoinsTypeOK, SessionTypeOK, sessionVars
  <1> QED
    BY <1>2, <1>4, <1>5 DEF CoinsInv, CoinsTypeOK, CoinsTyped, CallsTyped

(* A step of one call that leaves the coins alone.                         *)
LEMMA StillStep ==
  ASSUME CoinsInv, UNCHANGED <<sessionVars, coin>>, warning' \subseteq Outpoint,
         NEW w \in Workers, NEW new \in Call, Becomes(w, new), SeenOK(new, coin)
  PROVE  CoinsInv'
  <1>1. CoinsTyped' /\ UNCHANGED sessionVars /\ SeenOK(new, coin')
    BY DEF CoinsInv, CoinsTypeOK, CoinsTyped
  <1>2. CoinsMove
    BY CoinsAssumption DEF CoinsInv, CoinsTypeOK, CoinsMove, Lapsed, Aged
  <1> QED
    BY <1>1, <1>2, OneStep

(* A call moves to a point where nothing hangs on what it saw.             *)
Watched == {"reading", "balanced", "spending", "draining", "renewing"}
Quietly(w) == \E new \in Call : Becomes(w, new) /\ new.at \notin Watched /\ new.signed = 0

(* Such a step, which may move the coins.                                  *)
LEMMA QuietStep ==
  ASSUME CoinsInv, UNCHANGED sessionVars, CoinsTyped', warning' \subseteq Outpoint, CoinsMove,
         NEW w \in Workers, Quietly(w)
  PROVE  CoinsInv'
  <1>1. PICK new \in Call : Becomes(w, new) /\ new.at \notin Watched /\ new.signed = 0
    BY DEF Quietly
  <1>2. SeenOK(new, coin')
    BY <1>1 DEF SeenOK, Watched
  <1> QED
    BY <1>1, <1>2, OneStep

(* Such a step that leaves the coins alone.                                *)
LEMMA QuietStill ==
  ASSUME CoinsInv, UNCHANGED <<sessionVars, coin>>, warning' \subseteq Outpoint,
         NEW w \in Workers, Quietly(w)
  PROVE  CoinsInv'
  <1>1. CoinsTyped' /\ UNCHANGED sessionVars
    BY DEF CoinsInv, CoinsTypeOK, CoinsTyped
  <1>2. CoinsMove
    BY CoinsAssumption DEF CoinsInv, CoinsTypeOK, CoinsMove, Lapsed, Aged
  <1> QED
    BY <1>1, <1>2, QuietStep

(* A worker at rest.                                                       *)
LEMMA NoCallTyped == NoCall \in Call /\ NoCall.at = "idle" /\ NoCall.seen = {} /\ NoCall.signed = 0
  BY DEF NoCall, Call, Point

(* What a call may become: it goes on without its round, forgets what it   *)
(* saw, sees other coins or takes some, signs, or reads a balance.         *)
LEMMA CallBecomes ==
  ASSUME NEW c \in Call, NEW where \in Point, NEW picks \in SUBSET Outpoint,
         NEW ins \in SUBSET Outpoint, NEW n \in 0..2, NEW m \in Nat
  PROVE  /\ [c EXCEPT !.at = where, !.inputs = ins, !.signed = n] \in Call
         /\ [c EXCEPT !.at = where, !.seen = picks, !.inputs = ins, !.signed = n] \in Call
         /\ [c EXCEPT !.at = where, !.seen = picks] \in Call
         /\ [c EXCEPT !.at = where, !.inputs = ins] \in Call
         /\ [c EXCEPT !.inputs = ins, !.signed = n] \in Call
         /\ [c EXCEPT !.signed = n] \in Call
         /\ [c EXCEPT !.at = where, !.counted = m] \in Call
  <1>1. [c EXCEPT !.at = where, !.inputs = ins, !.signed = n] \in Call
    BY DEF Call
  <1>2. [c EXCEPT !.at = where, !.seen = picks, !.inputs = ins, !.signed = n] \in Call
    BY DEF Call
  <1>3. [c EXCEPT !.at = where, !.seen = picks] \in Call
    BY DEF Call
  <1>4. [c EXCEPT !.at = where, !.inputs = ins] \in Call
    BY DEF Call
  <1>5. [c EXCEPT !.inputs = ins, !.signed = n] \in Call
    BY DEF Call
  <1>6. [c EXCEPT !.signed = n] \in Call
    BY DEF Call
  <1>7. [c EXCEPT !.at = where, !.counted = m] \in Call
    BY DEF Call
  <1> QED
    BY <1>1, <1>2, <1>3, <1>4, <1>5, <1>6, <1>7

(* The points and the signatures that the steps name.                      *)
LEMMA Named ==
  /\ {"summing", "choosing", "balanced", "spending", "exiting", "warning", "draining", "renewing"}
       \subseteq Point
  /\ 0 \in 0..2 /\ 1 \in 0..2 /\ 2 \in 0..2 /\ {} \in SUBSET Outpoint
  BY DEF Point

(* A call goes on to another point.                                        *)
LEMMA CallGoes ==
  ASSUME CallsTyped, NEW w \in Workers, NEW where \in Point \ Watched, Goes(w, where)
  PROVE  Quietly(w)
  <1> DEFINE new == [call[w] EXCEPT !.at = where, !.inputs = {}, !.signed = 0]
  <1>0. call[w] \in Call
    BY DEF CallsTyped
  <1>1. new \in Call /\ new.at = where /\ new.signed = 0
    <2>1. new \in Call
      BY <1>0, Named, CallBecomes
    <2> QED
      BY <1>0, <2>1 DEF Call
  <1>2. Becomes(w, new)
    BY DEF Goes
  <1> HIDE DEF new
  <1> QED
    BY <1>1, <1>2 DEF Quietly

(* It is over.                                                             *)
LEMMA CallIsOver ==
  ASSUME NEW w \in Workers, Over(w)
  PROVE  Quietly(w)
  BY NoCallTyped DEF Over, Quietly, Watched

(* A recovery or a renewal ends, well or not: the call is over, or a tick  *)
(* goes on to its next leg.                                                *)
LEMMA LegIsOver ==
  ASSUME CallsTyped, NEW w \in Workers, RecoveryEnds(w) \/ RenewalEnds(w) \/ LegEnds(w)
  PROVE  Quietly(w)
  <1>1. CASE Over(w)
    BY <1>1, CallIsOver
  <1>2. CASE Goes(w, "choosing")
    BY <1>2, CallGoes DEF Point, Watched
  <1>3. CASE Becomes(w, [call[w] EXCEPT !.at = "summing", !.seen = {}, !.inputs = {}, !.signed = 0])
    <2> DEFINE new == [call[w] EXCEPT !.at = "summing", !.seen = {}, !.inputs = {}, !.signed = 0]
    <2>0. call[w] \in Call
      BY DEF CallsTyped
    <2>1. new \in Call /\ new.at = "summing" /\ new.signed = 0
      <3>1. new \in Call
        BY <2>0, Named, CallBecomes
      <3> QED
        BY <2>0, <3>1 DEF Call
    <2>2. Becomes(w, new)
      BY <1>3
    <2> HIDE DEF new
    <2> QED
      BY <2>1, <2>2 DEF Quietly, Watched
  <1> QED
    BY <1>1, <1>2, <1>3 DEF LegEnds, RecoveryEnds, RenewalEnds

(* A call that starts.                                                     *)
LEMMA StartsKeeps ==
  ASSUME CoinsInv, NEW w \in Workers, NEW kind \in Kind, NEW amount \in Nat,
         NEW where \in Point \ {"balanced", "spending", "draining", "renewing"},
         NEW picks \in SUBSET Outpoint, where = "reading" => picks = {},
         Starts(w, kind, where, amount, picks)
  PROVE  CoinsInv'
  <1> DEFINE new == [NoCall EXCEPT !.at = where, !.kind = kind, !.by = session,
                                   !.amount = amount, !.seen = picks]
  <1>1. session \in {0} \cup Sessions
    BY SessionAssumption DEF CoinsInv, CoinsTypeOK, SessionTypeOK, Sessions
  <1>2. new \in Call /\ new.at = where /\ new.signed = 0 /\ new.seen = picks
    <2> DEFINE mid == [NoCall EXCEPT !.at = where, !.kind = kind, !.by = session]
    <2>1. mid \in Call /\ mid.at = where /\ mid.signed = 0
      BY <1>1, NoCallTyped DEF NoCall, Call
    <2>2. new = [mid EXCEPT !.amount = amount, !.seen = picks]
      OBVIOUS
    <2> HIDE DEF mid, new
    <2> QED
      BY <2>1, <2>2 DEF Call
  <1>3. Becomes(w, new) /\ UNCHANGED <<sessionVars, coin, warning>>
    BY DEF Starts
  <1> HIDE DEF new
  <1>4. SeenOK(new, coin)
    BY <1>2 DEF SeenOK
  <1> QED
    BY <1>2, <1>3, <1>4, StillStep DEF CoinsInv, CoinsTypeOK

----------------------------------------------------------------------------
(* The actions.                                                            *)

(* The calls that the user, or the alarm, starts.                          *)
LEMMA AskingKeeps ==
  ASSUME CoinsInv, NEW w \in Workers,
         Send(w) \/ Withdraw(w) \/ OnboardNow(w) \/ RenewNow(w) \/ RecoverNow(w) \/ Tick(w)
  PROVE  CoinsInv'
  <1>1. Amounts \subseteq Nat
    BY CoinsAssumption, FS_CardinalityType DEF Amounts
  <1>2. {} \in SUBSET Outpoint /\ 0 \in Nat
    OBVIOUS
  <1>3. CASE Send(w)
    <2>1. PICK amount \in Amounts, picks \in SUBSET Outpoint :
            Starts(w, "send", IF picks = {} THEN "reading" ELSE "selecting", amount, picks)
      BY <1>3 DEF Send
    <2> DEFINE where == IF picks = {} THEN "reading" ELSE "selecting"
    <2>2. /\ where \in Point \ {"balanced", "spending", "draining", "renewing"}
          /\ where = "reading" => picks = {}
      BY DEF Point
    <2>3. Starts(w, "send", where, amount, picks)
      BY <2>1
    <2> HIDE DEF where
    <2> QED
      BY <1>1, <2>2, <2>3, StartsKeeps DEF Kind
  <1>4. CASE Withdraw(w)
    <2>1. CASE \E amount \in Amounts : Starts(w, "withdraw", "reading", amount, {})
      BY <1>1, <1>2, <2>1, StartsKeeps DEF Kind, Point
    <2>2. CASE Starts(w, "withdraw", "exiting", 0, {})
      BY <1>2, <2>2, StartsKeeps DEF Kind, Point
    <2> QED
      BY <1>4, <2>1, <2>2 DEF Withdraw
  <1>5. CASE OnboardNow(w) \/ RenewNow(w) \/ RecoverNow(w) \/ Tick(w)
    BY <1>2, <1>5, StartsKeeps DEF OnboardNow, RenewNow, RecoverNow, Tick, Kind, Point
  <1> QED
    BY <1>3, <1>4, <1>5

(* Steps after which nothing hangs on what the call saw.                   *)
LEMMA QuietActionsKeep ==
  ASSUME CoinsInv, NEW w \in Workers,
         \/ FindsLocked(w) \/ Refreshes(w) \/ Probes(w) \/ SumsUp(w) \/ Warns(w)
         \/ Rejects(w) \/ Fails(w)
  PROVE  CoinsInv'
  <1>0. /\ call[w] \in Call /\ CallsTyped /\ CoinsTyped /\ warning \subseteq Outpoint
        /\ call[w].seen \subseteq Outpoint /\ SeenOK(call[w], coin)
    BY DEF CoinsInv, CoinsTypeOK, CallsTyped, CoinsTyped, Call, SeenInv
  <1>1. CASE FindsLocked(w) \/ Rejects(w) \/ Fails(w)
    <2>1. Quietly(w)
      BY <1>0, <1>1, CallIsOver, LegIsOver DEF FindsLocked, Rejects, Fails
    <2> QED
      BY <1>0, <1>1, <2>1, QuietStill DEF FindsLocked, Rejects, Fails
  <1>2. CASE Refreshes(w)
    <2>1. (IF Enabled(By(w)) THEN "summing" ELSE "probing") \in Point \ Watched
      BY DEF Point, Watched
    <2>2. Quietly(w)
      BY <1>0, <1>2, <2>1, CallGoes DEF Refreshes
    <2> QED
      BY <1>0, <1>2, <2>2, QuietStill DEF Refreshes
  <1>3. CASE Probes(w)
    <2>1. "recovering" \in Point \ Watched
      BY DEF Point, Watched
    <2>2. Quietly(w)
      BY <1>0, <1>3, <2>1, CallGoes, LegIsOver DEF Probes
    <2> QED
      BY <1>0, <1>3, <2>2, QuietStill DEF Probes
  <1>4. CASE SumsUp(w)
    <2> DEFINE new == [call[w] EXCEPT !.at = "warning", !.seen = Out(Lapsed)]
    <2>1. Out(Lapsed) \subseteq Outpoint
      BY <1>0, AgedCoins DEF Lapsed
    <2>2. call[w].signed = 0
      BY <1>0, <1>4 DEF SumsUp, SeenOK, RoundPoints
    <2>3. new \in Call /\ new.at = "warning" /\ new.signed = 0
      <3>1. new \in Call
        BY <1>0, <2>1, Named, CallBecomes
      <3> QED
        BY <1>0, <2>2, <3>1 DEF Call
    <2>4. Becomes(w, new)
      BY <1>4 DEF SumsUp
    <2> HIDE DEF new
    <2>5. Quietly(w)
      BY <2>3, <2>4 DEF Quietly, Watched
    <2> QED
      BY <1>0, <1>4, <2>5, QuietStill DEF SumsUp
  <1>5. CASE Warns(w)
    BY <1>0, <1>5, CallIsOver, QuietStill DEF Warns
  <1> QED
    BY <1>1, <1>2, <1>3, <1>4, <1>5

(* The steps before a send or a withdrawal is signed.                      *)
LEMMA SendingKeeps ==
  ASSUME CoinsInv, NEW w \in Workers, ReadsBalance(w) \/ ValidatesAmount(w) \/ PicksCoins(w)
  PROVE  CoinsInv'
  <1>0. /\ call[w] \in Call /\ CallsTyped /\ CoinsTyped /\ warning \subseteq Outpoint
        /\ call[w].seen \subseteq Outpoint /\ SeenOK(call[w], coin)
    BY DEF CoinsInv, CoinsTypeOK, CallsTyped, CoinsTyped, Call, SeenInv
  <1>1. /\ UNCHANGED <<sessionVars, coin>> /\ warning' \subseteq Outpoint
        /\ call[w].signed = 0
    BY <1>0 DEF ReadsBalance, ValidatesAmount, PicksCoins, SeenOK, RoundPoints
  <1>2. CASE Over(w)
    BY <1>1, <1>2, CallIsOver, QuietStill
  <1>3. CASE ReadsBalance(w)
    <2> DEFINE n == Cardinality(Spendable \cup Aged({"expired"}))
               new == [call[w] EXCEPT !.at = "balanced", !.counted = n]
    <2>1. n \in Nat
      <3>1. Spendable \cup Aged({"expired"}) \subseteq Coins
        BY DEF Spendable, Aged
      <3> QED
        BY <3>1, CoinsAssumption, FS_Subset, FS_CardinalityType
    <2>2. Becomes(w, new) /\ call[w].seen = {}
      BY <1>0, <1>3 DEF ReadsBalance, SeenOK
    <2> HIDE DEF n
    <2>3. new \in Call /\ new.at = "balanced" /\ new.signed = 0 /\ new.seen = {}
      <3>1. new \in Call
        BY <1>0, <2>1, Named, CallBecomes
      <3> QED
        BY <1>0, <1>1, <2>2, <3>1 DEF Call
    <2> HIDE DEF new
    <2>4. SeenOK(new, coin)
      BY <2>3 DEF SeenOK
    <2> QED
      BY <1>1, <2>2, <2>3, <2>4, StillStep
  <1>4. CASE ValidatesAmount(w) /\ ~Over(w)
    <2> DEFINE where == IF call[w].kind = "send" THEN "spending" ELSE "exiting"
               new == [call[w] EXCEPT !.at = where, !.counted = 0]
    <2>1. where \in Point /\ where \in RoundPoints \ {"draining", "renewing"}
      BY DEF Point, RoundPoints
    <2>2. Becomes(w, new) /\ call[w].seen = {}
      BY <1>0, <1>4 DEF ValidatesAmount, SeenOK
    <2> HIDE DEF where
    <2>3. new \in Call /\ new.at = where /\ new.signed = 0 /\ new.seen = {}
      <3>1. new \in Call
        BY <1>0, <2>1, Named, CallBecomes
      <3> QED
        BY <1>0, <1>1, <2>2, <3>1 DEF Call
    <2> HIDE DEF new
    <2>4. SeenOK(new, coin)
      BY <2>1, <2>3 DEF SeenOK, RoundPoints
    <2> QED
      BY <1>1, <2>2, <2>3, <2>4, StillStep
  <1>5. CASE PicksCoins(w) /\ ~Over(w)
    <2> DEFINE new == [call[w] EXCEPT !.at = "spending", !.inputs = Found(w)]
    <2>1. Becomes(w, new) /\ Found(w) # {}
      BY <1>5 DEF PicksCoins
    <2>2. Found(w) = call[w].seen
      BY <2>1 DEF Found
    <2>3. /\ new \in Call /\ new.at = "spending" /\ new.signed = 0
          /\ new.inputs = new.seen
      <3>1. new \in Call
        BY <1>0, <2>2, Named, CallBecomes
      <3> QED
        BY <1>0, <1>1, <2>2, <3>1 DEF Call
    <2> HIDE DEF new
    <2>4. SeenOK(new, coin)
      BY <2>3 DEF SeenOK, RoundPoints
    <2> QED
      BY <1>1, <2>1, <2>3, <2>4, StillStep
  <1> QED
    BY <1>2, <1>3, <1>4, <1>5

(* A renewal reads the coins: what it sees lapsed is lapsed, and it begins *)
(* its round at once only if there is nothing of the kind.                 *)
LEMMA ReadsCoinsKeeps ==
  ASSUME CoinsInv, NEW w \in Workers, ReadsCoins(w)
  PROVE  CoinsInv'
  <1>0. /\ CallsTyped /\ CoinsTyped /\ call[w] \in Call /\ warning \subseteq Outpoint
        /\ SeenOK(call[w], coin)
    BY DEF CoinsInv, CoinsTypeOK, CallsTyped, CoinsTyped, SeenInv
  <1>1. UNCHANGED <<sessionVars, coin, warning>>
    BY DEF ReadsCoins
  <1>2. CASE RenewalEnds(w)
    BY <1>0, <1>1, <1>2, LegIsOver, QuietStill
  <1>3. CASE Becomes(w, [call[w] EXCEPT !.at = IF Poisonous = {} THEN "renewing" ELSE "draining",
                                        !.seen = Out(Lapsed)])
    <2> DEFINE where == IF Poisonous = {} THEN "renewing" ELSE "draining"
               new == [call[w] EXCEPT !.at = where, !.seen = Out(Lapsed)]
    <2>1. Out(Lapsed) \subseteq Outpoint
      BY <1>0, AgedCoins DEF Lapsed
    <2>2. call[w].signed = 0
      BY <1>0 DEF ReadsCoins, SeenOK, RoundPoints
    <2>3. where \in {"renewing", "draining"} /\ (where = "renewing" => Out(Lapsed) = {})
      BY DEF Poisonous, Out
    <2>4. \A p \in Out(Lapsed) : coin[p[1]].gen = p[2] /\ coin[p[1]].age \in {"expired", "swept"}
      BY DEF Out, Lapsed, Aged
    <2>5. Becomes(w, new)
      BY <1>3
    <2> HIDE DEF where
    <2>6. new \in Call /\ new.at = where /\ new.seen = Out(Lapsed) /\ new.signed = 0
      <3>1. where \in Point
        BY <2>3, Named
      <3> QED
        <4>1. new \in Call
          BY <1>0, <2>1, <3>1, Named, CallBecomes
        <4> QED
          BY <1>0, <2>2, <4>1 DEF Call
    <2> HIDE DEF new
    <2>7. SeenOK(new, coin)
      BY <2>3, <2>4, <2>6 DEF SeenOK
    <2> QED
      BY <1>0, <1>1, <2>5, <2>6, <2>7, StillStep
  <1> QED
    BY <1>2, <1>3 DEF ReadsCoins

(* A drain finds nothing left to recover: all it saw has a new outpoint.   *)
LEMMA TakesNothingKeeps ==
  ASSUME CoinsInv, NEW w \in Workers, TakesNothing(w)
  PROVE  CoinsInv'
  <1>0. /\ CallsTyped /\ CoinsTyped /\ call[w] \in Call /\ warning \subseteq Outpoint
        /\ SeenOK(call[w], coin)
    BY DEF CoinsInv, CoinsTypeOK, CallsTyped, CoinsTyped, SeenInv
  <1>1. UNCHANGED <<sessionVars, coin, warning>> /\ call[w].signed = 0
    BY DEF TakesNothing
  <1>2. CASE LegEnds(w)
    BY <1>0, <1>1, <1>2, LegIsOver, QuietStill
  <1>3. CASE call[w].at = "draining" /\ Lapsed = {} /\ Goes(w, "renewing")
    <2> DEFINE new == [call[w] EXCEPT !.at = "renewing", !.inputs = {}, !.signed = 0]
    <2>1. Becomes(w, new)
      BY <1>3 DEF Goes
    <2>2. /\ new \in Call /\ new.at = "renewing" /\ new.seen = call[w].seen
          /\ new.inputs = {} /\ new.signed = 0
      <3>1. new \in Call
        BY <1>0, Named, CallBecomes
      <3> QED
        BY <1>0, <3>1 DEF Call
    <2>3. \A p \in call[w].seen : Grown(coin, p)
      BY <1>0, <1>1, <1>3 DEF SeenOK, Lapsed, Aged, Call, Outpoint
    <2> HIDE DEF new
    <2>4. SeenOK(new, coin)
      BY <2>2, <2>3 DEF SeenOK
    <2> QED
      BY <1>0, <1>1, <2>1, <2>2, <2>4, StillStep
  <1> QED
    BY <1>2, <1>3 DEF TakesNothing

(* A round begins: a send's inputs are those picked, a drain's all that    *)
(* has lapsed, and a renewal's none that was seen lapsed.                  *)
LEMMA BeginsKeeps ==
  ASSUME CoinsInv, NEW w \in Workers, Begins(w)
  PROVE  CoinsInv'
  <1>0. /\ CallsTyped /\ CoinsTyped /\ call[w] \in Call /\ warning \subseteq Outpoint
        /\ SeenOK(call[w], coin) /\ UNCHANGED <<sessionVars, coin, warning>>
        /\ call[w].signed = 0
    BY DEF CoinsInv, CoinsTypeOK, CallsTyped, CoinsTyped, SeenInv, Begins
  <1>1. PICK cs \in SUBSET Coins :
          /\ cs # {} /\ Takes(w, cs)
          /\ Becomes(w, [call[w] EXCEPT !.inputs = Out(cs), !.signed = 1])
    BY DEF Begins
  <1> DEFINE new == [call[w] EXCEPT !.inputs = Out(cs), !.signed = 1]
  <1>2. Out(cs) \subseteq Outpoint /\ Becomes(w, new)
    BY <1>0, <1>1 DEF CoinsTyped, Out, Outpoint
  <1>3. /\ new \in Call /\ new.at = call[w].at /\ new.seen = call[w].seen
        /\ new.inputs = Out(cs) /\ new.signed = 1
    <2>1. new \in Call
      BY <1>0, <1>2, Named, CallBecomes
    <2> QED
      BY <1>0, <2>1 DEF Call
  <1> HIDE DEF new
  <1>4. call[w].at \in RoundPoints
    BY <1>1 DEF Takes, Spends, Exits, Boards, Recovers, Drains, Renews, RoundPoints
  <1>5. call[w].at = "spending" /\ call[w].seen # {} => Out(cs) = call[w].seen
    BY <1>0, <1>1 DEF SeenOK, Takes, Spends, Exits, Boards, Recovers, Drains, Renews
  <1>6. ASSUME call[w].at = "draining", NEW p \in call[w].seen
        PROVE  Grown(coin, p) \/ p \in Out(cs)
    <2>1. cs = Lapsed
      BY <1>1, <1>6 DEF Takes, Spends, Exits, Boards, Recovers, Drains, Renews, Recoverable
    <2>2. p[1] \in Coins /\ p = <<p[1], p[2]>>
      BY <1>0 DEF Call, Outpoint
    <2>3. Grown(coin, p) \/ (coin[p[1]].gen = p[2] /\ coin[p[1]].age \in {"expired", "swept"})
      BY <1>0, <1>6 DEF SeenOK
    <2> QED
      BY <2>1, <2>2, <2>3 DEF Out, Lapsed, Aged
  <1>7. call[w].at = "renewing" => Out(cs) \cap call[w].seen = {}
    <2>1. \A p \in Out(cs) : coin[p[1]].gen = p[2] /\ p[2] \in Nat
      BY <1>0, CoinsAssumption DEF Out, CoinsTyped
    <2>2. call[w].at = "renewing" => \A p \in call[w].seen : Grown(coin, p)
      BY <1>0 DEF SeenOK
    <2> QED
      BY <2>1, <2>2 DEF Grown
  <1>8. SeenOK(new, coin)
    <2>1. call[w].at \notin {"reading", "balanced"}
      BY <1>4 DEF RoundPoints
    <2>2. new.signed # 0
      BY <1>3
    <2> QED
      BY <1>3, <1>4, <1>5, <1>6, <1>7, <2>1, <2>2 DEF SeenOK
  <1> QED
    BY <1>0, <1>2, <1>3, <1>8, StillStep

(* The last signature.                                                     *)
LEMMA SignsKeeps ==
  ASSUME CoinsInv, NEW w \in Workers, Signs(w)
  PROVE  CoinsInv'
  <1>0. /\ call[w] \in Call /\ warning \subseteq Outpoint
        /\ SeenOK(call[w], coin) /\ UNCHANGED <<sessionVars, coin, warning>>
        /\ call[w].signed = 1
    BY DEF CoinsInv, CoinsTypeOK, SeenInv, Signs
  <1> DEFINE new == [call[w] EXCEPT !.signed = 2]
  <1>1. Becomes(w, new)
    BY DEF Signs
  <1>2. /\ new \in Call /\ new.at = call[w].at /\ new.seen = call[w].seen
        /\ new.inputs = call[w].inputs /\ new.signed = 2
    BY <1>0 DEF Call
  <1> HIDE DEF new
  <1>3. SeenOK(new, coin)
    BY <1>0, <1>2 DEF SeenOK
  <1> QED
    BY <1>0, <1>1, <1>2, <1>3, StillStep

(* The coins of a round that lands are those it took, and have not changed *)
(* since.                                                                  *)
LEMMA LandedCoins ==
  ASSUME CoinsTyped, NEW w \in Workers, call[w] \in Call, Lands(w)
  PROVE  LET cs == {p[1] : p \in call[w].inputs}
         IN  /\ cs \subseteq Coins /\ Out(cs) = call[w].inputs
             /\ IF call[w].at \in {"spending", "exiting"} THEN Spent(cs) ELSE Reissued(cs)
             /\ call[w].at \in {"spending", "exiting"} => cs \subseteq Spendable
  <1> DEFINE cs == {p[1] : p \in call[w].inputs}
             ages == IF call[w].at = "boarding" THEN {"deposit"}
                     ELSE IF call[w].at \in {"recovering", "draining"} THEN {"expired", "swept"}
                     ELSE {"live", "soon"}
  <1>1. call[w].inputs \subseteq Out(Aged(ages))
    BY DEF Lands, Valid, Lapsed, Spendable
  <1>2. \A p \in call[w].inputs : /\ p[1] \in Aged(ages) /\ p = <<p[1], coin[p[1]].gen>>
    BY <1>1 DEF Out
  <1>3. cs \subseteq Aged(ages) /\ Out(cs) = call[w].inputs
    BY <1>2 DEF Out
  <1>4. cs \subseteq Coins
    BY <1>3 DEF Aged
  <1>5. call[w].at \in {"spending", "exiting"} => cs \subseteq Spendable
    BY <1>3 DEF Spendable
  <1>6. IF call[w].at \in {"spending", "exiting"} THEN Spent(cs) ELSE Reissued(cs)
    BY DEF Lands
  <1> QED
    BY <1>3, <1>4, <1>5, <1>6

(* A round lands.  After the drain, whatever the renewal saw lapsed has a  *)
(* new outpoint.                                                           *)
LEMMA LandsKeeps ==
  ASSUME CoinsInv, NEW w \in Workers, Lands(w)
  PROVE  CoinsInv'
  <1>0. /\ CallsTyped /\ CoinsTyped /\ call[w] \in Call /\ warning' \subseteq Outpoint
        /\ SeenOK(call[w], coin) /\ UNCHANGED sessionVars /\ call[w].signed = 2
    BY DEF CoinsInv, CoinsTypeOK, CallsTyped, CoinsTyped, SeenInv, Lands
  <1> DEFINE cs == {p[1] : p \in call[w].inputs}
  <1>1. /\ cs \subseteq Coins /\ Out(cs) = call[w].inputs
        /\ IF call[w].at \in {"spending", "exiting"} THEN Spent(cs) ELSE Reissued(cs)
        /\ call[w].at \in {"spending", "exiting"} => cs \subseteq Spendable
    BY <1>0, LandedCoins
  <1>2. \A p \in call[w].inputs : p[1] \in cs /\ p[2] = coin[p[1]].gen
    BY <1>1 DEF Out
  <1> HIDE DEF cs
  <1>3. CoinsTyped' /\ CoinsMove
    BY <1>0, <1>1, SpentMove, ReissuedMove
  <1>4. CASE LegEnds(w)
    BY <1>0, <1>3, <1>4, LegIsOver, QuietStep
  <1>5. CASE call[w].at = "draining" /\ Goes(w, "renewing")
    <2> DEFINE new == [call[w] EXCEPT !.at = "renewing", !.inputs = {}, !.signed = 0]
    <2>1. Becomes(w, new)
      BY <1>5 DEF Goes
    <2>2. /\ new \in Call /\ new.at = "renewing" /\ new.seen = call[w].seen
          /\ new.inputs = {} /\ new.signed = 0
      <3>1. new \in Call
        BY <1>0, Named, CallBecomes
      <3> QED
        BY <1>0, <3>1 DEF Call
    <2> HIDE DEF new
    <2>3. \A c \in cs : coin'[c].gen > coin[c].gen
      BY <1>0, <1>1, <1>5, ReissuedMove
    <2>4. ASSUME NEW p \in call[w].seen
          PROVE  Grown(coin', p)
      <3>1. p[1] \in Coins /\ p[2] \in Nat
        BY <1>0, CoinsAssumption DEF Call, Outpoint
      <3>2. coin[p[1]].gen \in Nat /\ coin'[p[1]].gen \in Nat
        BY <1>0, <1>3, <3>1, CoinsAssumption DEF CoinsTyped
      <3>3. Grown(coin, p) \/ p \in call[w].inputs
        BY <1>0, <1>5 DEF SeenOK
      <3>4. CASE Grown(coin, p)
        BY <1>3, <3>1, <3>2, <3>4 DEF Grown, CoinsMove
      <3>5. CASE p \in call[w].inputs
        BY <1>2, <2>3, <3>1, <3>2, <3>5 DEF Grown
      <3> QED
        BY <3>3, <3>4, <3>5
    <2>5. SeenOK(new, coin')
      BY <2>2, <2>4 DEF SeenOK
    <2> QED
      BY <1>0, <1>3, <2>1, <2>2, <2>5, OneStep
  <1> QED
    BY <1>4, <1>5 DEF Lands

(* Whatever step a call takes.                                             *)
LEMMA ProceedingKeeps ==
  ASSUME CoinsInv, NEW w \in Workers, Proceeds(w)
  PROVE  CoinsInv'
  BY QuietActionsKeep, SendingKeeps, ReadsCoinsKeeps, TakesNothingKeeps, BeginsKeeps, SignsKeeps,
     LandsKeeps
  DEF Proceeds

(* Sessions come and go, and calls run on.                                 *)
LEMMA SessionsKeep ==
  ASSUME CoinsInv, Opens \/ Ends \/ Saves \/ UNCHANGED sessionVars, UNCHANGED coinVars
  PROVE  CoinsInv'
  <1> USE SessionAssumption
  <1>1. SessionTypeOK /\ started \in Nat
    BY DEF CoinsInv, CoinsTypeOK, SessionTypeOK
  <1>2. CASE Opens
    <2>1. started + 1 \in Sessions
      BY <1>1, <1>2 DEF SessionTypeOK, Opens, Sessions
    <2>2. SessionTypeOK'
      BY <1>1, <1>2, <2>1 DEF SessionTypeOK, Opens
    <2> QED
      BY <2>2 DEF CoinsInv, CoinsTypeOK, SeenInv, coinVars
  <1>3. CASE Ends \/ Saves \/ UNCHANGED sessionVars
    <2>1. SessionTypeOK'
      BY <1>1, <1>3 DEF SessionTypeOK, Ends, Saves, sessionVars
    <2> QED
      BY <2>1 DEF CoinsInv, CoinsTypeOK, SeenInv, coinVars
  <1> QED
    BY <1>2, <1>3

(* All of it holds before a session was opened.                            *)
LEMMA CoinsBegin == CoinsInit => CoinsInv
  <1> SUFFICES ASSUME CoinsInit PROVE CoinsInv
    OBVIOUS
  <1> USE SessionAssumption, CoinsAssumption DEF CoinsInit
  <1>1. SessionTypeOK
    BY DEF SessionInit, SessionTypeOK, Config
  <1>2. CoinsTyped
    BY DEF CoinsTyped, Age
  <1>3. CallsTyped /\ SeenInv
    BY NoCallTyped DEF CallsTyped, SeenInv, SeenOK
  <1> QED
    BY <1>1, <1>2, <1>3 DEF CoinsInv, CoinsTypeOK, CoinsTyped, CallsTyped

(* Every step keeps the invariant.                                         *)
LEMMA CoinsStep == CoinsInv /\ [CoinsNext]_walletVars => CoinsInv'
  <1> SUFFICES ASSUME CoinsInv, [CoinsNext]_walletVars PROVE CoinsInv'
    OBVIOUS
  <1>1. ASSUME NEW w \in Workers,
               \/ Send(w) \/ Withdraw(w) \/ OnboardNow(w) \/ RenewNow(w) \/ RecoverNow(w)
               \/ Tick(w) \/ Proceeds(w)
        PROVE  CoinsInv'
    BY <1>1, AskingKeeps, ProceedingKeeps
  <1>2. ASSUME NEW c \in Coins, Ages(c)
        PROVE  CoinsInv'
    <2>1. CallsTyped /\ CoinsTyped /\ SeenInv
      BY DEF CoinsInv, CoinsTypeOK, CallsTyped, CoinsTyped
    <2>2. CoinsTyped' /\ CoinsMove
      BY <1>2, <2>1, AgesMove
    <2>3. UNCHANGED <<session, started, base, stored, call, warning>>
      BY <1>2 DEF Ages, sessionVars
    <2>4. ASSUME NEW w \in Workers
          PROVE  SeenOK(call'[w], coin')
      BY <2>1, <2>2, <2>3, SeenStays DEF SeenInv, CallsTyped
    <2>5. SeenInv'
      BY <2>4 DEF SeenInv
    <2> QED
      BY <2>2, <2>3, <2>5 DEF CoinsInv, CoinsTypeOK, SessionTypeOK, CoinsTyped
  <1>3. CASE (Opens \/ Ends \/ Saves) /\ UNCHANGED coinVars
    BY <1>3, SessionsKeep
  <1>4. CASE CoinsDie
    <2>1. SessionTypeOK' /\ UNCHANGED <<coin, warning>>
      BY <1>4, SessionAssumption DEF CoinsDie, CoinsInv, CoinsTypeOK, SessionTypeOK
    <2>2. \A w \in Workers : SeenOK(call'[w], coin) /\ call'[w] \in Call
      BY <1>4, NoCallTyped DEF CoinsDie, CoinsInv, CoinsTypeOK, SeenInv, SeenOK
    <2>3. CallsTyped' /\ SeenInv'
      BY <1>4, <2>1, <2>2 DEF CoinsDie, CallsTyped, SeenInv
    <2> QED
      BY <2>1, <2>3 DEF CoinsInv, CoinsTypeOK, CallsTyped
  <1>5. CASE UNCHANGED walletVars
    BY <1>5, SessionsKeep DEF walletVars
  <1> QED
    BY <1>1, <1>2, <1>3, <1>4, <1>5 DEF CoinsNext, CoinsSteps, Workers

(* The inductive invariant of the wallet's coins and calls.                *)
THEOREM CoinsInvariant == CoinsSpec => []CoinsInv
  BY CoinsBegin, CoinsStep, PTL DEF CoinsSpec

----------------------------------------------------------------------------
(* What follows.                                                           *)

(* The coins and the calls keep their types.                               *)
THEOREM CoinsTypes == CoinsSpec => []CoinsTypeOK
  <1>1. CoinsInv => CoinsTypeOK
    BY DEF CoinsInv
  <1> QED
    BY <1>1, CoinsInvariant, PTL

(* A send from picked coins that lands moves all of them, and no other.    *)
LEMMA PickedAreSpent ==
  ASSUME CoinsInv, NEW w \in Workers, Lands(w), call[w].at = "spending", call[w].seen # {}
  PROVE  {p \in Out(Coins) : coin'[p[1]] # coin[p[1]]} = call[w].seen
  <1>0. CoinsTyped /\ call[w] \in Call /\ call[w].inputs = call[w].seen
    BY DEF CoinsInv, CoinsTypeOK, CoinsTyped, SeenInv, SeenOK
  <1> DEFINE cs == {p[1] : p \in call[w].inputs}
  <1>1. /\ cs \subseteq Coins /\ Out(cs) = call[w].inputs
        /\ Spent(cs) /\ cs \subseteq Spendable
    BY <1>0, LandedCoins
  <1> HIDE DEF cs
  <1>2. \A c \in Coins : coin[c] \in [age: Age, gen: 0..MaxGen]
    BY <1>0 DEF CoinsTyped
  <1>3. \A c \in cs : coin'[c].age = "spent" /\ coin[c].age # "spent"
    BY <1>1, <1>2 DEF Spent, Spendable, Aged
  <1>4. \A c \in Coins \ cs : coin'[c] = coin[c]
    BY <1>1 DEF Spent
  <1>5. \A p \in Out(Coins) : coin'[p[1]] # coin[p[1]] <=> p[1] \in cs
    BY <1>3, <1>4 DEF Out
  <1>6. {p \in Out(Coins) : p[1] \in cs} = Out(cs)
    BY <1>1 DEF Out
  <1> QED
    BY <1>0, <1>1, <1>5, <1>6

(* A renewal round never contains a coin that had lapsed when the renewal  *)
(* read its coins, and a send from picked coins spends all of those        *)
(* outpoints and no other, or none                                         *)
(* (wallet.ts:523-532, 707-755, vtxo-state.ts:125-127).                    *)
THEOREM ChoicesStand == CoinsSpec => ChoiceStands
  <1>1. ASSUME CoinsInv', NEW w \in Workers, call'[w].at = "renewing"
        PROVE  call'[w].inputs \cap call'[w].seen = {}
    BY <1>1 DEF CoinsInv, SeenInv, SeenOK
  <1>2. CoinsInv /\ CoinsInv' /\ [CoinsNext]_walletVars =>
          [\A w \in Workers :
             /\ call'[w].at = "renewing" => call'[w].inputs \cap call'[w].seen = {}
             /\ Lands(w) /\ call[w].at = "spending" /\ call[w].seen # {}
                  => {p \in Out(Coins) : coin'[p[1]] # coin[p[1]]} = call[w].seen]_walletVars
    BY <1>1, PickedAreSpent
  <1> QED
    BY <1>2, CoinsInvariant, PTL DEF CoinsSpec, ChoiceStands
=============================================================================
