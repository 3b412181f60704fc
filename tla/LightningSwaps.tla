--------------------------- MODULE LightningSwaps ---------------------------
(***************************************************************************)
(* Lightning deposits and payments (lightning.ts).  A swap is created with *)
(* Boltz and saved, one side locks money, and the swap is claimed, paid,   *)
(* refunded or expires.  A manager of the swap library follows the swaps   *)
(* while the wallet is unlocked; what it missed is reconciled at the next  *)
(* unlock.  The manager is built on the session's wallet, and like it may  *)
(* be finished after the session is over.                                  *)
(***************************************************************************)
EXTENDS SessionWallet, Naturals

CONSTANTS
  Managers,  \* bound: managers that may be under way at once
  Swaps,     \* the swaps that may be made
  Amount,    \* of the invoice to pay
  Fee        \* Boltz's fee when the user was given the quote

ASSUME LightningAssumption == Amount \in Nat \ {0} /\ Fee \in Nat

VARIABLES
  manager,   \* the swap runtimes being created and running
  watch,     \* the swaps the running manager follows
  deal,      \* what each call knows: whether it has the runtime, its swaps
  swap       \* each swap: what is true of it, and what is saved of it

lightningVars == <<manager, watch, deal, swap>>
walletVars == <<sessionWalletVars, lightningVars>>

\* A payment that is "failed" or "lockupFailed" has our money in the lockup, "back" has
\* it refunded; one that is "expired" is over without any.
Fate == {"none", "open", "locked", "done", "failed", "lockupFailed", "back", "expired"}

NoManager == [at |-> "none", own |-> FALSE]
NoDeal == [held |-> FALSE, swaps |-> {}]
NoSwap == [kind |-> None, fate |-> "none", saved |-> "none", refunded |-> FALSE,
           ask |-> 0, ours |-> FALSE]

NewSwap(kind, ask, ours) ==
  [kind |-> kind, fate |-> "open", saved |-> "open", refunded |-> FALSE, ask |-> ask, ours |-> ours]

TypeOK ==
  /\ SessionWalletTypeOK
  /\ manager \in [Managers -> [at: {"none", "creating", "alive"}, own: BOOLEAN]]
  /\ watch \subseteq Swaps
  /\ deal \in [Calls -> [held: BOOLEAN, swaps: SUBSET Swaps]]
  /\ swap \in [Swaps -> [kind: {"pay", "receive", None}, fate: Fate, saved: Fate \ {"back"},
                         refunded: BOOLEAN, ask: Nat, ours: BOOLEAN]]

Init ==
  /\ SessionWalletInit
  /\ manager = [m \in Managers |-> NoManager] /\ watch = {}
  /\ deal = [c \in Calls |-> NoDeal]
  /\ swap = [k \in Swaps |-> NoSwap]

----------------------------------------------------------------------------
(* What the repository says of a swap.                                     *)

Saved(k) == swap[k].saved
PaidFor(k) == swap[k].kind = "pay"

Refundable(k) == PaidFor(k) /\ Saved(k) \in {"failed", "lockupFailed"} /\ ~swap[k].refunded
Final(k) == Saved(k) \in {"none", "done", "failed", "expired"}
Followed == {k \in Swaps : ~Final(k) /\ ~swap[k].refunded}

\* hasPendingSwaps
HasPending == \E k \in Swaps : ~Final(k) \/ Refundable(k)

\* Mutant of Stranded: only what is still monitored is recovered.
StrandedMonitored == {k \in Swaps : Refundable(k) /\ ~Final(k)}

\* What no manager will follow: final when it starts, and not refunded.
Stranded == {k \in Swaps : Refundable(k) /\ Final(k)}

\* mapSubmarineStatus
PayStatus(k) ==
  IF swap[k].refunded THEN "refunded"
  ELSE CASE Saved(k) \in {"failed", "lockupFailed"} -> "refund-pending"
         [] Saved(k) = "done" -> "paid"
         [] OTHER -> "sending"

\* isReverseFailedStatus, which an expiry is too
ReverseFailed(k) == Saved(k) \in {"failed", "expired"}

\* Mutant of ReceiveStatus: failures are looked at before expiries.
ReceiveStatusFailed(k) ==
  CASE Saved(k) = "done" -> "done"
    [] ReverseFailed(k) -> "failed"
    [] OTHER -> IF Saved(k) = "locked" THEN "claiming" ELSE "waiting"

\* mapReverseStatus
ReceiveStatus(k) ==
  IF Saved(k) = "expired" THEN "expired"
  ELSE CASE Saved(k) = "done" -> "done"
         [] ReverseFailed(k) -> "failed"
         [] Saved(k) = "locked" -> "claiming"
         [] OTHER -> "waiting"

----------------------------------------------------------------------------
(* The runtime.                                                            *)

Memo == {m \in Managers : manager[m].own /\ manager[m].at # "none"}
Active == {m \in Memo : manager[m].at = "alive"}

Holds(c, held) == deal' = [deal EXCEPT ![c].held = held]
Forgets(c) == deal' = [deal EXCEPT ![c] = NoDeal]
Keeps ==
  /\ deal' = [c \in Calls |-> IF call'[c] = Idle THEN NoDeal ELSE deal[c]]
  /\ UNCHANGED <<manager, watch, swap>>

\* A swap's money moves.
Turns(k, fate) == swap' = [swap EXCEPT ![k].fate = fate]

\* A context was had, but its session may be over by now.
CallsRuntime(c) ==
  /\ Resumes(c, "asking") /\ call[c].kind # "snapshot"
  /\ UNCHANGED lightningVars

\* getRuntime joins the runtime there is, or creates one.
AsksRuntime(c) ==
  /\ At(c, "asking")
  /\ \/ /\ Memo = {} /\ Own(c)
        /\ \E m \in Managers : manager[m].at = "none"
        /\ manager' = [manager EXCEPT ![CHOOSE m \in Managers : manager[m].at = "none"] =
                         [at |-> "creating", own |-> TRUE]]
        /\ Goes(c, "joining")
     \/ Memo # {} /\ Goes(c, "joining") /\ UNCHANGED manager
  /\ UNCHANGED <<unlocked, build, fresh, synced, watch, deal, swap>>

\* Mutant of StillOurs: a runtime that is finished is used.
StillOursAny(m) == TRUE

\* createRuntime, after the await: no lock or switch landed meanwhile.
StillOurs(m) == manager[m].own

ManagerCreated(m) ==
  /\ manager[m].at = "creating"
  /\ manager' = [manager EXCEPT ![m] = IF StillOurs(m) THEN [@ EXCEPT !.at = "alive"] ELSE NoManager]
  /\ watch' = IF manager[m].own THEN Followed ELSE watch
  /\ UNCHANGED <<sessionWalletVars, deal, swap>>

\* A failed build clears the memo; its callers are told.
ManagerFails(m) ==
  /\ manager[m].at = "creating"
  /\ manager' = [manager EXCEPT ![m] = NoManager]
  /\ IF manager[m].own THEN WaitersGo("joining", "idle") ELSE UNCHANGED call
  /\ UNCHANGED <<unlocked, build, fresh, synced, watch, deal, swap>>

\* Mutant of SameSession: the runtime is whatever runs now.
SameSessionAny(c) == TRUE

\* sameSession: the runtime is the one of the caller's context.
SameSession(c) == Own(c)

GetsRuntime(c) ==
  /\ At(c, "joining") /\ Active # {} /\ SameSession(c)
  /\ Goes(c, IF call[c].kind = "reconcile" THEN "listing" ELSE "pricing")
  /\ Holds(c, TRUE)
  /\ UNCHANGED <<unlocked, build, fresh, synced, manager, watch, swap>>

\* assertRuntimeCurrent
Holding(c) == deal[c].held

\* The runtime the call holds has been disposed.
RuntimeGone(c) ==
  /\ call[c].at \in {"pricing", "sending", "listing", "updating", "sweeping"} /\ ~Holding(c)
  /\ Over(c) /\ Forgets(c)
  /\ UNCHANGED <<unlocked, build, fresh, synced, manager, watch, swap>>

----------------------------------------------------------------------------
(* A deposit or a payment.                                                 *)

\* payTotalSlack: ten sats or 0.1 per cent, rounded up.
Slack == IF (Amount + 999) \div 1000 > 10 THEN (Amount + 999) \div 1000 ELSE 10

\* getPayQuote, which the user confirms.
Quote == Amount + Fee

\* Bound: Boltz asks for as much as may be, or one sat more.
AskedPrices == {Quote + Slack, Quote + Slack + 1}

\* Mutant of Acceptable: the slack is one per cent.
AcceptablePercent(k) == swap'[k].ask <= Quote + Amount \div 100

Acceptable(k) == swap'[k].ask <= Quote + Slack

\* The limits are read; then a swap is asked for, if the runtime is still ours.
Prices(c) ==
  /\ At(c, "pricing") /\ Holding(c)
  /\ \/ Goes(c, "creating") /\ UNCHANGED deal
     \/ Over(c) /\ Forgets(c)
  /\ UNCHANGED <<unlocked, build, fresh, synced, manager, watch, swap>>

\* The library saves the swap before anyone sees it, also one asked for by a
\* session that has ended.  A deposit is done; a payment is checked.
SwapCreated(c, k) ==
  /\ At(c, "creating") /\ swap[k].fate = "none"
  /\ \/ /\ call[c].kind = "invoice"
        /\ swap' = [swap EXCEPT ![k] = NewSwap("receive", 0, FALSE)]
     \/ /\ call[c].kind = "pay"
        /\ \E ask \in AskedPrices, ours \in BOOLEAN :
             swap' = [swap EXCEPT ![k] = NewSwap("pay", ask, ours)]
  /\ watch' = IF Holding(c) THEN watch \cup {k} ELSE watch
  /\ IF call[c].kind = "pay" /\ Acceptable(k)
     THEN Goes(c, "verifying") /\ deal' = [deal EXCEPT ![c].swaps = {k}]
     ELSE Over(c) /\ Forgets(c)
  /\ UNCHANGED <<unlocked, build, fresh, synced, manager>>

SwapRefused(c) ==
  /\ At(c, "creating")
  /\ Over(c) /\ Forgets(c)
  /\ UNCHANGED <<unlocked, build, fresh, synced, manager, watch, swap>>

\* The lockup is rebuilt with our refund key: its address must be Boltz's.
Verified(c) == \A k \in deal[c].swaps : swap[k].ours

Verifies(c) ==
  /\ At(c, "verifying") /\ Own(c)
  /\ IF Verified(c)
     THEN Refreshes(c, TRUE, "sending") /\ UNCHANGED deal
     ELSE Over(c) /\ Forgets(c) /\ UNCHANGED <<unlocked, build, fresh, synced>>
  /\ UNCHANGED <<manager, watch, swap>>

\* Our money goes to the lockup also when Boltz has given the swap up by now.
Funded(k) ==
  CASE swap[k].fate = "open" -> "locked"
    [] swap[k].fate = "expired" -> "failed"
    [] OTHER -> swap[k].fate

Sends(c) ==
  /\ At(c, "sending") /\ Holding(c)
  /\ \/ swap' = [k \in Swaps |-> IF k \in deal[c].swaps
                                 THEN [swap[k] EXCEPT !.fate = Funded(k)] ELSE swap[k]]
     \/ UNCHANGED swap
  /\ Over(c) /\ Forgets(c)
  /\ UNCHANGED <<unlocked, build, fresh, synced, manager, watch>>

----------------------------------------------------------------------------
(* Reconciliation.                                                         *)

\* The unlock handler looks for pending swaps, whatever session lives by then.
UnlockHandled ==
  /\ Opens /\ HasIdle
  /\ call' = [call EXCEPT ![FirstIdle] = [kind |-> "reconcile", at |-> "probing", own |-> TRUE]]
  /\ UNCHANGED lightningVars

\* A session that opens with a new wallet, or after a switch or a rebuild, reconciles nothing.
Installed == Opens /\ UNCHANGED <<call, lightningVars>>

Probes(c) ==
  /\ At(c, "probing")
  /\ \/ HasPending /\ Asks(c, "reconcile")
     \/ ~(HasPending /\ unlocked) /\ Over(c) /\ UNCHANGED <<unlocked, build, fresh, synced>>
  /\ UNCHANGED lightningVars

\* The snapshot is read before the statuses are refreshed.
Lists(c) ==
  /\ At(c, "listing") /\ Holding(c)
  /\ Goes(c, IF Stranded = {} THEN "updating" ELSE "sweeping")
  /\ deal' = [deal EXCEPT ![c].swaps = Stranded]
  /\ UNCHANGED <<unlocked, build, fresh, synced, manager, watch, swap>>

\* recoverAllSubmarineFunds: each refund lands, or fails by itself.
SweepRefunds(c, k) ==
  /\ At(c, "sweeping") /\ Holding(c) /\ k \in deal[c].swaps
  /\ swap[k].fate \in {"failed", "lockupFailed"} /\ swap[k].ours
  /\ Turns(k, "back")
  /\ UNCHANGED <<sessionWalletVars, manager, watch, deal>>

SweepEnds(c) ==
  /\ At(c, "sweeping") /\ Holding(c)
  /\ swap' = [k \in Swaps |-> IF k \in deal[c].swaps /\ swap[k].fate = "back"
                               THEN [swap[k] EXCEPT !.refunded = TRUE] ELSE swap[k]]
  /\ Goes(c, "updating")
  /\ UNCHANGED <<unlocked, build, fresh, synced, manager, watch, deal>>

\* The status Boltz gives.  An unfunded payment expires with one that counts as failed.
Status(k) ==
  CASE swap[k].fate = "back" -> swap[k].saved
    [] swap[k].fate = "expired" /\ PaidFor(k) -> "failed"
    [] OTHER -> swap[k].fate

Updates(c) ==
  /\ At(c, "updating") /\ Holding(c)
  /\ swap' = [k \in Swaps |-> IF Final(k) THEN swap[k] ELSE [swap[k] EXCEPT !.saved = Status(k)]]
  /\ Over(c) /\ Forgets(c)
  /\ UNCHANGED <<unlocked, build, fresh, synced, manager, watch>>

----------------------------------------------------------------------------
(* The manager, Boltz and the operator.                                    *)

Hears(k) ==
  /\ k \in watch /\ Active # {} /\ ~Final(k) /\ Status(k) # Saved(k)
  /\ swap' = [swap EXCEPT ![k].saved = Status(k)]
  /\ \/ UNCHANGED watch
     \/ swap[k].fate = "expired" /\ watch' = watch \ {k}  \* nothing to refund, so far
  /\ UNCHANGED <<sessionWalletVars, manager, deal>>

Claims(k) ==
  /\ k \in watch /\ Active # {} /\ swap[k].kind = "receive"
  /\ swap[k].fate = "locked" /\ Saved(k) = "locked"
  /\ Turns(k, "done")
  /\ UNCHANGED <<sessionWalletVars, manager, watch, deal>>

\* The refund lands, and is saved after.
ManagerRefunds(k) ==
  /\ k \in watch /\ Active # {} /\ Refundable(k) /\ swap[k].ours
  /\ \/ swap[k].fate \in {"failed", "lockupFailed"} /\ Turns(k, "back")
     \/ swap[k].fate = "back" /\ swap' = [swap EXCEPT ![k].refunded = TRUE]
  /\ UNCHANGED <<sessionWalletVars, manager, watch, deal>>

Boltz(k) ==
  /\ \E fate \in Fate :
       /\ <<swap[k].kind, swap[k].fate, fate>> \in
            {<<"pay", "open", "expired">>, <<"pay", "locked", "done">>, <<"pay", "locked", "failed">>,
             <<"pay", "locked", "lockupFailed">>,
             <<"receive", "open", "locked">>, <<"receive", "open", "expired">>, <<"receive", "open", "failed">>,
             <<"receive", "locked", "expired">>, <<"receive", "locked", "failed">>}
       /\ Turns(k, fate)
  /\ UNCHANGED <<sessionWalletVars, manager, watch, deal>>

\* A lock, a switch or a rebuild: disposeSwaps goes with the session's end.
EndsAll ==
  /\ Ends
  /\ manager' = [m \in Managers |-> IF manager[m].at = "alive" THEN NoManager
                                     ELSE [manager[m] EXCEPT !.own = FALSE]]
  /\ watch' = {}
  /\ deal' = [c \in Calls |-> [deal[c] EXCEPT !.held = FALSE]]
  /\ UNCHANGED swap

WorkerDies ==
  /\ SessionWalletDies
  /\ manager' = [m \in Managers |-> NoManager] /\ watch' = {}
  /\ deal' = [c \in Calls |-> NoDeal]
  /\ UNCHANGED swap

CallSteps(c) ==
  \/ CallsRuntime(c) \/ AsksRuntime(c) \/ GetsRuntime(c) \/ RuntimeGone(c)
  \/ Prices(c) \/ SwapRefused(c) \/ Verifies(c) \/ Sends(c)
  \/ Probes(c) \/ Lists(c) \/ SweepEnds(c) \/ Updates(c)
  \/ \E k \in Swaps : SwapCreated(c, k) \/ SweepRefunds(c, k)

Next ==
  \/ \E c \in Calls : CallSteps(c)
  \/ \E m \in Managers : ManagerCreated(m) \/ ManagerFails(m)
  \/ \E k \in Swaps : Hears(k) \/ Claims(k) \/ ManagerRefunds(k) \/ Boltz(k)
  \/ \E kind \in {"pay", "invoice"} : HasIdle /\ Asks(FirstIdle, kind) /\ UNCHANGED lightningVars
  \/ SessionWalletSteps /\ Keeps
  \/ UnlockHandled \/ Installed \/ EndsAll \/ WorkerDies

Spec == Init /\ [][Next]_walletVars

(* Promises settle and timeouts ring.  What needs luck, an operator that   *)
(* answers or a session that lasts long enough, has it if it is tried      *)
(* again and again.  Whether sessions begin and end is for the user.       *)
Tries == \E c \in Calls : At(c, "probing") /\ HasPending
Succeeds == \E c \in Calls : call[c].at \in {"sweeping", "updating"}

Fairness ==
  /\ \A c \in Calls : WF_walletVars(CallSteps(c) \/ ((SnapshotRefreshes(c) \/ StaleRefreshEnds(c)
                                                        \/ FindsLocked(c)) /\ Keeps))
  /\ WF_walletVars(RefreshTimesOut /\ Keeps)
  /\ WF_walletVars((\E b \in Builds : BuildTimesOut(b)) /\ Keeps)
  /\ WF_walletVars(\E m \in Managers : manager[m].own /\ (ManagerCreated(m) \/ ManagerFails(m)))
  /\ []<>Tries => []<>Succeeds
  /\ \A k \in Swaps : /\ SF_walletVars(\E c \in Calls : SweepRefunds(c, k))
                       /\ SF_walletVars(Hears(k) \/ Claims(k) \/ ManagerRefunds(k))

FairSpec == Spec /\ Fairness

----------------------------------------------------------------------------
(* Properties.                                                             *)

(* A swap manager runs only for the live session, and only one does,       *)
(* although creating one outlasts locks and switches                       *)
(* (lightning.ts:65-69, 132-149).                                          *)
OneManager ==
  \A m \in Managers : manager[m].at = "alive" =>
    unlocked /\ manager[m].own /\ \A n \in Managers : manager[n].at = "alive" => n = m

\* Our money was sent to the lockup.
Paid(k) == PaidFor(k) /\ swap[k].fate \notin {"none", "open", "expired"}

(* What is locked for a payment is at most what the user confirmed and the *)
(* slack, and in a lockup that our key can refund                          *)
(* (lightning.ts:490-520).                                                 *)
PaidAsConfirmed ==
  \A k \in Swaps : Paid(k) =>
    /\ swap[k].ours
    /\ LET over == swap[k].ask - Quote IN over <= 10 \/ 1000 * (over - 1) < Amount

(* Swaps are asked for and paid by calls of the live session only, however *)
(* many awaits ago they had its context (lightning.ts:106-108, 538).       *)
InOwnSession ==
  [][/\ \A c \in Calls : At(c, "pricing") /\ call'[c].at = "creating" => Own(c)
     /\ \A k \in Swaps : ~Paid(k) /\ Paid(k)' =>
          \E c \in Calls : At(c, "sending") /\ Own(c) /\ k \in deal[c].swaps]_walletVars

(* No outcome is shown that did not come about, although what is saved may *)
(* lag behind: a payment is called paid or refunded, and a deposit done,   *)
(* expired, failed or under claim, only if it is, and a refund is promised *)
(* only for a payment that is not to succeed any more; it may have come    *)
(* back by then, or never have been funded (lightning.ts:329-350, 556-575).*)
StatusHonest ==
  \A k \in Swaps :
    IF PaidFor(k)
    THEN /\ PayStatus(k) = "refunded" => swap[k].fate = "back"
         /\ PayStatus(k) = "paid" => swap[k].fate = "done"
         /\ PayStatus(k) = "refund-pending" =>
              swap[k].fate \in {"failed", "lockupFailed", "back", "expired"}
    ELSE /\ ReceiveStatus(k) \in {"done", "expired", "failed"} => swap[k].fate = ReceiveStatus(k)
         /\ ReceiveStatus(k) = "claiming" => swap[k].fate \notin {"none", "open"}

\* The user unlocks the wallet again and again.
ComesBack == []<>(\E c \in Calls : At(c, "probing"))

(* The money of a payment that fails, or was sent when the swap was over   *)
(* already, comes back, whether the manager, or the worker with it, died   *)
(* before, within or after its refund (lightning.ts:218-236, 537-540).     *)
MoneyBack ==
  ComesBack => \A k \in Swaps : PaidFor(k) /\ swap[k].fate \in {"failed", "lockupFailed"} ~> swap[k].fate = "back"

(* A deposit that Boltz has funded is claimed unless Boltz takes it back,  *)
(* although nobody watches while the wallet is locked                      *)
(* (lightning.ts:48-54, 186-213).                                          *)
Received ==
  ComesBack => \A k \in Swaps :
    swap[k].kind = "receive" /\ swap[k].fate = "locked" ~>
      swap[k].fate \in {"done", "expired", "failed"}

(* What runs, runs for the live session: the wallet with its watchers, the *)
(* swap manager and the mark of a fresh sync are of that session, and of   *)
(* the first two there is one, although builds, managers and refreshes     *)
(* outlast their timeouts and their sessions                               *)
(* (wallet-runtime.ts:373-391, 441-447, lightning.ts:132-149).             *)
OneOfEach == OneWallet /\ OneManager /\ FreshIsSynced

(* Money that waits in a swap comes home to a wallet that is unlocked      *)
(* again and again: of failed payments, and of funded deposits.            *)
(* (lightning.ts:186-236).                                                 *)
MoneyComesHome == MoneyBack /\ Received
=============================================================================
