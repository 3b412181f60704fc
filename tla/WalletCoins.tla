----------------------------- MODULE WalletCoins -----------------------------
(***************************************************************************)
(* What the wallet does with its coins (wallet.ts, vtxo-state.ts,          *)
(* renewal.ts): sends, withdrawals, renewal, recovery, onboarding, and the *)
(* alarm's tick.  A coin of the operator's ages until it expires and is    *)
(* swept; a batch round gives it a new outpoint, its next generation.      *)
(* Calls interleave at their awaits, and the session may end under them:   *)
(* the SDK signs a round several times, each time only while the session   *)
(* lives, and what is fully signed may land long after it has ended.       *)
(* A coin counts for one unit of money; change is not followed.            *)
(***************************************************************************)
EXTENDS DelegationSession, FiniteSets

CONSTANTS
  Coins,     \* the wallet's coins
  Subdust,   \* those too small to be recovered alone
  Alarm,     \* the tick of the renewal alarm
  Calls,     \* other calls that may be under way at once
  MaxGen     \* bound: a coin of the last generation neither ages nor moves

ASSUME CoinsAssumption ==
  IsFiniteSet(Coins) /\ Subdust \subseteq Coins /\ MaxGen \in Nat

VARIABLES
  coin,     \* what the operator and the chain say of each coin
  call,     \* where each call is and what it has read
  warning   \* the outpoints the stored RenewalWarning counts

coinVars == <<coin, call, warning>>
walletVars == <<sessionVars, coinVars>>

Workers == Calls \cup {Alarm}

Age == {"deposit", "live", "soon", "expired", "swept", "spent"}
Outpoint == Coins \X (0..MaxGen)
Kind == {"tick", "send", "withdraw", "renewNow", "recoverNow", "onboardNow"}
Point == {"idle", "selecting", "reading", "balanced", "spending", "exiting", "boarding",
          "refreshing", "probing", "recovering", "choosing", "draining", "renewing",
          "summing", "warning"}
Call == [at: Point, kind: Kind \cup {None}, by: {0} \cup Sessions,
         seen: SUBSET Outpoint,     \* the coins picked, read as poisonous, or summed up
         inputs: SUBSET Outpoint,   \* the coins of its round
         signed: 0..2,              \* no signature of the round, the first, the last
         amount: Nat, counted: Nat] \* what is to be sent; the SDK's balance
NoCall == [at |-> "idle", kind |-> None, by |-> 0, seen |-> {}, inputs |-> {}, signed |-> 0,
           amount |-> 0, counted |-> 0]

CoinsTypeOK ==
  /\ SessionTypeOK
  /\ coin \in [Coins -> [age: Age, gen: 0..MaxGen]]
  /\ call \in [Workers -> Call]
  /\ warning \subseteq Outpoint

CoinsInit ==
  /\ SessionInit
  /\ coin \in [Coins -> [age: {"deposit", "live", "soon"}, gen: {0}]]
  /\ call = [w \in Workers |-> NoCall]
  /\ warning = {}

----------------------------------------------------------------------------
(* partitionVtxos, and what is read of it.                                 *)

Aged(ages) == {c \in Coins : coin[c].age \in ages}
Out(cs) == {<<c, coin[c].gen>> : c \in cs}

Spendable == Aged({"live", "soon"})
Lapsed == Aged({"expired", "swept"})
Renewable == Aged({"soon"})

\* Mutant of Poisonous: only swept coins are drained.
PoisonousSwept == Aged({"swept"})

\* hasRecoverableOrExpired: what a renewal round must not contain.
Poisonous == Lapsed

\* adjustBalanceForExpiry: the SDK counts expired coins not yet swept in its
\* balance; they are taken from preconfirmed first, then from settled.
Monus(m, n) == IF m > n THEN m - n ELSE 0
Available(preconfirmed, settled, expired) ==
  LET left == Monus(preconfirmed, expired)
  IN  left + Monus(settled, Monus(expired, preconfirmed - left))

----------------------------------------------------------------------------
(* Calls.                                                                  *)

By(w) == call[w].by
Becomes(w, new) == call' = [call EXCEPT ![w] = new]
Goes(w, where) == Becomes(w, [call[w] EXCEPT !.at = where, !.inputs = {}, !.signed = 0])
Over(w) == Becomes(w, NoCall)

Starts(w, kind, where, amount, picks) ==
  /\ session # 0 /\ call[w].at = "idle"
  /\ Becomes(w, [NoCall EXCEPT !.at = where, !.kind = kind, !.by = session,
                               !.amount = amount, !.seen = picks])
  /\ UNCHANGED <<sessionVars, coin, warning>>

\* A call finds its session over, or the SDK does when it asks for a signature.
FindsLocked(w) ==
  /\ call[w].at # "idle" /\ call[w].signed < 2 /\ ~Live(By(w))
  /\ Over(w)
  /\ UNCHANGED <<sessionVars, coin, warning>>

Amounts == 1..Cardinality(Coins)

\* Coins picked off a list made any time ago, which shows each coin once.
Listed(picks) ==
  \A p \in picks : /\ coin[p[1]].age # "deposit" /\ p[2] <= coin[p[1]].gen
                   /\ \A q \in picks : p[1] = q[1] => p = q

Send(w) ==
  \E amount \in Amounts, picks \in SUBSET Outpoint :
    /\ Listed(picks)
    /\ Starts(w, "send", IF picks = {} THEN "reading" ELSE "selecting", amount, picks)

\* Without an amount everything goes (Max).
Withdraw(w) ==
  \/ \E amount \in Amounts : Starts(w, "withdraw", "reading", amount, {})
  \/ Starts(w, "withdraw", "exiting", 0, {})

\* getBalance asks for the balance and for the coins; the answers come apart.
ReadsBalance(w) ==
  /\ call[w].at = "reading" /\ Live(By(w))
  /\ Becomes(w, [call[w] EXCEPT !.at = "balanced",
                                !.counted = Cardinality(Spendable \cup Aged({"expired"}))])
  /\ UNCHANGED <<sessionVars, coin, warning>>

ValidatesAmount(w) ==
  /\ call[w].at = "balanced" /\ Live(By(w))
  /\ IF call[w].amount > Available(call[w].counted, 0, Cardinality(Aged({"expired"}))) THEN Over(w)
     ELSE Becomes(w, [call[w] EXCEPT !.at = IF call[w].kind = "send" THEN "spending" ELSE "exiting",
                                     !.counted = 0])
  /\ UNCHANGED <<sessionVars, coin, warning>>

\* pickByOutpoints: any miss ends the send.
Found(w) == IF call[w].seen \subseteq Out(Spendable) THEN call[w].seen ELSE {}

PicksCoins(w) ==
  /\ call[w].at = "selecting" /\ Live(By(w))
  /\ IF Found(w) # {} /\ call[w].amount <= Cardinality(Found(w))
     THEN Becomes(w, [call[w] EXCEPT !.at = "spending", !.inputs = Found(w)])
     ELSE Over(w)
  /\ UNCHANGED <<sessionVars, coin, warning>>

OnboardNow(w) == Aged({"deposit"}) # {} /\ Starts(w, "onboardNow", "boarding", 0, {})

----------------------------------------------------------------------------
(* Recovery and renewal, by the user's button or by the tick's legs.       *)

RenewNow(w) == Starts(w, "renewNow", "choosing", 0, {})
RecoverNow(w) == Starts(w, "recoverNow", "probing", 0, {})

Tick(w) == Starts(w, "tick", "refreshing", 0, {})

\* The context and the fresh coins; their failure, or a timeout, ends the tick.
\* With delegation enabled the SDK renews: the tick only warns.
Refreshes(w) ==
  /\ call[w].at = "refreshing" /\ Live(By(w))
  /\ Goes(w, IF Enabled(By(w)) THEN "summing" ELSE "probing")
  /\ UNCHANGED <<sessionVars, coin, warning>>

\* The tick's legs are isolated: recovery ends, well or not, and renewal starts.
RecoveryEnds(w) == IF call[w].kind = "tick" THEN Goes(w, "choosing") ELSE Over(w)

RenewalEnds(w) ==
  IF call[w].kind = "tick"
  THEN Becomes(w, [call[w] EXCEPT !.at = "summing", !.seen = {}, !.inputs = {}, !.signed = 0])
  ELSE Over(w)

LegEnds(w) ==
  \/ call[w].at \in {"probing", "recovering"} /\ RecoveryEnds(w)
  \/ call[w].at \in {"choosing", "draining", "renewing"} /\ RenewalEnds(w)
  \/ call[w].at \notin {"probing", "recovering", "choosing", "draining", "renewing"} /\ Over(w)

Probes(w) ==
  /\ call[w].at = "probing" /\ Live(By(w))
  /\ IF Lapsed = {} THEN RecoveryEnds(w) ELSE Goes(w, "recovering")
  /\ UNCHANGED <<sessionVars, coin, warning>>

\* What recoverVtxos takes.
Recoverable == IF Lapsed \subseteq Subdust THEN {} ELSE Lapsed

ReadsCoins(w) ==
  /\ call[w].at = "choosing" /\ Live(By(w))
  /\ IF Renewable = {} THEN RenewalEnds(w)
     ELSE Becomes(w, [call[w] EXCEPT !.at = IF Poisonous = {} THEN "renewing" ELSE "draining",
                                     !.seen = Out(Lapsed)])
  /\ UNCHANGED <<sessionVars, coin, warning>>

SumsUp(w) ==
  /\ call[w].at = "summing" /\ Live(By(w))
  /\ Becomes(w, [call[w] EXCEPT !.at = "warning", !.seen = Out(Lapsed)])
  /\ UNCHANGED <<sessionVars, coin, warning>>

Warns(w) ==
  /\ call[w].at = "warning" /\ Live(By(w))
  /\ warning' = call[w].seen /\ Over(w)
  /\ UNCHANGED <<sessionVars, coin>>

----------------------------------------------------------------------------
(* Rounds.  What the SDK takes is read anew when it begins to sign, is     *)
(* accepted or not by the operator when it is fully signed, and may fail   *)
(* on the way.                                                             *)

Spends(w, cs) ==
  /\ call[w].at = "spending"
  /\ cs \subseteq Spendable /\ Cardinality(cs) >= call[w].amount
  /\ call[w].inputs # {} => Out(cs) = call[w].inputs

\* The scheduled window is checked first; fees may leave nothing to send.
Exits(w, cs) ==
  /\ call[w].at = "exiting"
  /\ cs \subseteq Spendable /\ Cardinality(cs) >= call[w].amount
  /\ call[w].amount = 0 => cs = Spendable

Boards(w, cs) == call[w].at = "boarding" /\ cs = Aged({"deposit"})
Recovers(w, cs) == call[w].at = "recovering" /\ cs = Recoverable

\* The recover-first drain.
Drains(w, cs) == call[w].at = "draining" /\ cs = Recoverable

\* renewVtxos takes no list of inputs: lapsed coins, if any, go with the others.
Renews(w, cs) == call[w].at = "renewing" /\ cs = Renewable \cup Lapsed

Takes(w, cs) ==
  Spends(w, cs) \/ Exits(w, cs) \/ Boards(w, cs) \/ Recovers(w, cs) \/ Drains(w, cs) \/ Renews(w, cs)

\* A drain with nothing to recover is done, and one with nothing but dust fails.
TakesNothing(w) ==
  /\ Takes(w, {}) /\ Live(By(w)) /\ call[w].signed = 0
  /\ IF call[w].at = "draining" /\ Lapsed = {} THEN Goes(w, "renewing") ELSE LegEnds(w)
  /\ UNCHANGED <<sessionVars, coin, warning>>

\* sessionIdentity: a signature is given only while the session lives.
Begins(w) ==
  /\ call[w].signed = 0 /\ Live(By(w))
  /\ \E cs \in (SUBSET Coins) \ {{}} :
       Takes(w, cs) /\ Becomes(w, [call[w] EXCEPT !.inputs = Out(cs), !.signed = 1])
  /\ UNCHANGED <<sessionVars, coin, warning>>

Signs(w) ==
  /\ call[w].signed = 1 /\ Live(By(w))
  /\ Becomes(w, [call[w] EXCEPT !.signed = 2])
  /\ UNCHANGED <<sessionVars, coin, warning>>

\* The operator takes no round with an input that is gone or in another state:
\* a renewal with a lapsed coin, or a send of one.
Valid(w) ==
  call[w].inputs \subseteq Out(IF call[w].at = "boarding" THEN Aged({"deposit"})
                               ELSE IF call[w].at \in {"recovering", "draining"} THEN Lapsed
                               ELSE Spendable)

Spent(cs) == coin' = [c \in Coins |-> IF c \in cs THEN [coin[c] EXCEPT !.age = "spent"] ELSE coin[c]]

\* A batch round: each coin comes back with a new outpoint.
Reissued(cs) ==
  /\ \A c \in cs : coin[c].gen < MaxGen
  /\ coin' = [c \in Coins |-> IF c \in cs THEN [age |-> "live", gen |-> coin[c].gen + 1] ELSE coin[c]]

\* A round that is fully signed needs its session no more.
Lands(w) ==
  /\ call[w].signed = 2 /\ Valid(w)
  /\ LET cs == {p[1] : p \in call[w].inputs}
     IN  IF call[w].at \in {"spending", "exiting"} THEN Spent(cs) ELSE Reissued(cs)
  /\ IF call[w].at = "draining" THEN Goes(w, "renewing") ELSE LegEnds(w)
  /\ UNCHANGED <<sessionVars, warning>>

Rejects(w) ==
  /\ call[w].signed = 2 /\ ~Valid(w)
  /\ LegEnds(w)
  /\ UNCHANGED <<sessionVars, coin, warning>>

\* Mutant of Fails: a leg that fails ends the tick.
FailsWhole(w) ==
  /\ call[w].at # "idle" /\ (Live(By(w)) \/ call[w].signed = 2)
  /\ Over(w)
  /\ UNCHANGED <<sessionVars, coin, warning>>

\* Whatever a call awaits may throw: the operator, the network, the storage or
\* the SDK's own checks.  Only the legs of a tick are caught.
Fails(w) ==
  /\ call[w].at # "idle" /\ (Live(By(w)) \/ call[w].signed = 2)
  /\ LegEnds(w)
  /\ UNCHANGED <<sessionVars, coin, warning>>

----------------------------------------------------------------------------
(* The world.                                                              *)

Ages(c) ==
  /\ \/ coin[c].age = "live" /\ coin[c].gen < MaxGen /\ coin' = [coin EXCEPT ![c].age = "soon"]
     \/ coin[c].age = "soon" /\ coin' = [coin EXCEPT ![c].age = "expired"]
     \/ coin[c].age = "expired" /\ coin' = [coin EXCEPT ![c].age = "swept"]
  /\ UNCHANGED <<sessionVars, call, warning>>

\* The worker dies, and what it has fully signed is with the operator.
CoinsDie ==
  /\ session' = 0
  /\ call' = [w \in Workers |-> IF call[w].signed = 2 THEN call[w] ELSE NoCall]
  /\ UNCHANGED <<started, base, stored, coin, warning>>

Proceeds(w) ==
  \/ FindsLocked(w) \/ ReadsBalance(w) \/ ValidatesAmount(w) \/ PicksCoins(w)
  \/ Refreshes(w) \/ Probes(w) \/ ReadsCoins(w) \/ SumsUp(w) \/ Warns(w)
  \/ TakesNothing(w) \/ Begins(w) \/ Signs(w) \/ Lands(w) \/ Rejects(w) \/ Fails(w)

CoinsSteps ==
  \/ \E w \in Calls : Send(w) \/ Withdraw(w) \/ OnboardNow(w) \/ RenewNow(w) \/ RecoverNow(w)
  \/ \E w \in Workers : Tick(w) \/ Proceeds(w)
  \/ \E c \in Coins : Ages(c)
  \/ (Opens \/ Ends \/ Saves) /\ UNCHANGED coinVars

CoinsNext == CoinsSteps \/ CoinsDie

CoinsSpec == CoinsInit /\ [][CoinsNext]_walletVars

\* The alarm ticks every minute, and what a tick awaits returns or fails;
\* nothing is asked of the other calls.
CoinsFairness == WF_walletVars(Tick(Alarm)) /\ WF_walletVars(Proceeds(Alarm))

----------------------------------------------------------------------------
(* Properties.                                                             *)

(* What was chosen is what is spent, or nothing.  A renewal round never    *)
(* contains a coin that had expired or been swept when the renewal read    *)
(* its coins, so that only one that lapses later can have the operator     *)
(* reject it, and a send from picked coins spends all of those outpoints   *)
(* and no other, or none, although they may have been renewed, spent or    *)
(* swept since the list was made, and between its signatures               *)
(* (wallet.ts:523-532, 707-755, vtxo-state.ts:125-127).                    *)
ChoiceStands ==
  [][\A w \in Workers :
       /\ call'[w].at = "renewing" => call'[w].inputs \cap call'[w].seen = {}
       /\ Lands(w) /\ call[w].at = "spending" /\ call[w].seen # {}
            => {p \in Out(Coins) : coin'[p[1]] # coin[p[1]]} = call[w].seen]_walletVars

Ordinary == session # 0 /\ ~Enabled(session)

\* Some await of the alarm's tick, at one of these points, throws for ever.
Throwing(points) == []<><<Fails(Alarm) /\ call[Alarm].at \in points>>_walletVars

(* An unlocked wallet without delegation gets expired and swept coins      *)
(* back, unless all there is to get back is dust (renewal.ts:133-140).     *)
Recovered ==
  \/ Throwing({"refreshing", "probing", "recovering"})
  \/ []<>(Ordinary => Lapsed \subseteq Subdust)

(* It renews the coins about to expire, though recovery throws, unless     *)
(* dust that cannot be recovered stands in the way of the drain            *)
(* (renewal.ts:142-149).                                                   *)
Renewed ==
  \/ Throwing({"refreshing", "choosing", "draining", "renewing"})
  \/ []<>(Ordinary => Renewable = {} \/ (Lapsed # {} /\ Lapsed \subseteq Subdust))

(* Though both legs throw, the expired and swept coins are warned of while *)
(* the wallet stays unlocked, and those that are back are warned of no     *)
(* more (renewal.ts:152-159).                                              *)
Warned ==
  \/ Throwing({"refreshing", "summing", "warning"})
  \/ []<>(session # 0 => warning = Out(Lapsed))

(* The alarm tends an unlocked wallet: each thing it does needs only its   *)
(* own awaits to stop throwing, whatever the others do                     *)
(* (renewal.ts:110-159).                                                   *)
Tended == Recovered /\ Renewed /\ Warned
=============================================================================
