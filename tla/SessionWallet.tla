---------------------------- MODULE SessionWallet ----------------------------
(***************************************************************************)
(* The wallet of a session (wallet-runtime.ts): built once for the callers *)
(* that ask for it, refreshed once for those that ask at the same time,    *)
(* and disposed when the session ends.  Neither a build nor a refresh can  *)
(* be cancelled: each may end after its callers have given up on it, or    *)
(* after its session is over.                                              *)
(*                                                                         *)
(* Sessions are not numbered.  What is under way is marked as belonging to *)
(* the live session, the flag "own", which is the identity check           *)
(* "session === owner" of the code; the end of the session takes the mark  *)
(* from all of it.                                                         *)
(***************************************************************************)
CONSTANTS
  Calls,   \* bound: calls that may be under way at once
  Builds,  \* bound: wallet builds that may be under way at once
  None

VARIABLES
  unlocked,  \* whether there is a live session
  build,     \* the builds, and the wallets that came of them
  call,      \* the calls of the popup and of the worker itself
  fresh,     \* whether the session's last refresh is recent
  synced     \* history: whether the session's wallet was ever refreshed

sessionWalletVars == <<unlocked, build, call, fresh, synced>>

Kind == {"snapshot", "reconcile", "pay", "invoice"}
Stage == {"idle", "wallet", "refreshing"}                      \* of every call
         \cup {"probing", "asking", "joining", "listing", "sweeping", "updating"}
         \cup {"pricing", "creating", "verifying", "sending"}  \* of LightningSwaps

Idle == [kind |-> None, at |-> "idle", own |-> FALSE]
NoBuild == [at |-> "none", own |-> FALSE, late |-> FALSE]

SessionWalletTypeOK ==
  /\ unlocked \in BOOLEAN /\ fresh \in BOOLEAN /\ synced \in BOOLEAN
  /\ build \in [Builds -> [at: {"none", "creating", "alive"}, own: BOOLEAN, late: BOOLEAN]]
  /\ call \in [Calls -> [kind: Kind \cup {None}, at: Stage, own: BOOLEAN]]

SessionWalletInit ==
  /\ unlocked = FALSE /\ fresh = FALSE /\ synced = FALSE
  /\ build = [b \in Builds |-> NoBuild] /\ call = [c \in Calls |-> Idle]

----------------------------------------------------------------------------
(* Calls.                                                                  *)

At(c, where) == call[c].at = where
Own(c) == call[c].own
FirstIdle == CHOOSE c \in Calls : At(c, "idle")
HasIdle == \E c \in Calls : At(c, "idle")

Goes(c, where) == call' = [call EXCEPT ![c].at = where]
Over(c) == call' = [call EXCEPT ![c] = Idle]

\* Every caller of the session that waits at one place is answered at once.
WaitersGo(from, to) ==
  call' = [c \in Calls |-> IF Own(c) /\ At(c, from)
                           THEN IF to = "idle" THEN Idle ELSE [call[c] EXCEPT !.at = to]
                           ELSE call[c]]

\* A call of an ended session finds it out at the next check.
FindsLocked(c) ==
  /\ call[c].at \notin {"idle", "refreshing", "probing", "creating"} /\ ~Own(c)
  /\ Over(c)
  /\ UNCHANGED <<unlocked, build, fresh, synced>>

----------------------------------------------------------------------------
(* The build.                                                              *)

Wallet == {b \in Builds : build[b].at = "alive" /\ build[b].own}
Pending == {b \in Builds : build[b].at = "creating" /\ build[b].own /\ ~build[b].late}
Free == {b \in Builds : build[b].at = "none"}

\* acquireSessionWallet: the wallet, the build under way, or a new build.
Acquires ==
  \/ Wallet \cup Pending # {} /\ UNCHANGED build
  \/ /\ Wallet \cup Pending = {} /\ Free # {}
     /\ build' = [build EXCEPT ![CHOOSE b \in Free : TRUE] =
                    [at |-> "creating", own |-> TRUE, late |-> FALSE]]

Asks(c, kind) ==
  /\ unlocked /\ Acquires
  /\ call' = [call EXCEPT ![c] = [kind |-> kind, at |-> "wallet", own |-> TRUE]]
  /\ UNCHANGED <<unlocked, fresh, synced>>

\* A built wallet is kept by the session it was built for, unless its callers
\* were told that it timed out.
Current(b) == build[b].own /\ ~build[b].late

Built(b) ==
  /\ build[b].at = "creating"
  /\ build' = [build EXCEPT ![b] = IF Current(b) THEN [@ EXCEPT !.at = "alive"] ELSE NoBuild]
  /\ UNCHANGED <<unlocked, call, fresh, synced>>

\* The callers of a failed build are told; the next one starts another.
BuildFails(b) ==
  /\ build[b].at = "creating"
  /\ build' = [build EXCEPT ![b] = NoBuild]
  /\ IF b \in Pending THEN WaitersGo("wallet", "idle") ELSE UNCHANGED call
  /\ UNCHANGED <<unlocked, fresh, synced>>

BuildTimesOut(b) ==
  /\ b \in Pending
  /\ build' = [build EXCEPT ![b].late = TRUE]
  /\ WaitersGo("wallet", "idle")
  /\ UNCHANGED <<unlocked, fresh, synced>>

\* The caller has its SessionContext.
Resumes(c, where) ==
  /\ At(c, "wallet") /\ Own(c) /\ Wallet # {}
  /\ Goes(c, where)
  /\ UNCHANGED <<unlocked, build, fresh, synced>>

----------------------------------------------------------------------------
(* The refresh, one for all of the session's calls at "refreshing".        *)

\* ensureFreshVtxos; a caller that asks for maxAgeMs 0 is not content with fresh.
Refreshes(c, content, next) ==
  /\ Own(c)
  /\ Goes(c, IF content /\ fresh /\ ~\E d \in Calls : Own(d) /\ At(d, "refreshing")
             THEN next ELSE "refreshing")
  /\ UNCHANGED <<unlocked, build, fresh, synced>>

\* A snapshot's reads change nothing that is followed here: its call is over.
AfterRefresh(c) == IF call[c].kind = "pay" THEN [call[c] EXCEPT !.at = "sending"] ELSE Idle

Refreshed ==
  /\ \E c \in Calls : Own(c) /\ At(c, "refreshing")
  /\ call' = [c \in Calls |-> IF Own(c) /\ At(c, "refreshing") THEN AfterRefresh(c) ELSE call[c]]
  /\ fresh' = TRUE /\ synced' = TRUE
  /\ UNCHANGED <<unlocked, build>>

RefreshTimesOut ==
  /\ \E c \in Calls : Own(c) /\ At(c, "refreshing")
  /\ WaitersGo("refreshing", "idle")
  /\ UNCHANGED <<unlocked, build, fresh, synced>>

\* The refresh of an ended session ends: it does not count for the live one.
StaleRefreshEnds(c) ==
  /\ At(c, "refreshing") /\ ~Own(c)
  /\ Over(c)
  /\ UNCHANGED <<unlocked, build, fresh, synced>>

FreshnessEnds == fresh /\ fresh' = FALSE /\ UNCHANGED <<unlocked, build, call, synced>>

----------------------------------------------------------------------------
(* refreshWalletSnapshot, and the session's beginning and end.             *)

SnapshotRefreshes(c) == At(c, "wallet") /\ call[c].kind = "snapshot" /\ Wallet # {} /\ Refreshes(c, FALSE, "refreshing")

Opens == ~unlocked /\ unlocked' = TRUE /\ UNCHANGED <<build, fresh, synced>>

\* disposeRuntimeSession: the wallet goes now, a build when it is done.
Ends ==
  /\ unlocked /\ unlocked' = FALSE
  /\ build' = [b \in Builds |-> IF b \in Wallet THEN NoBuild ELSE [build[b] EXCEPT !.own = FALSE]]
  /\ call' = [c \in Calls |-> [call[c] EXCEPT !.own = FALSE]]
  /\ fresh' = FALSE /\ synced' = FALSE

SessionWalletDies ==
  /\ unlocked' = FALSE /\ fresh' = FALSE /\ synced' = FALSE
  /\ build' = [b \in Builds |-> NoBuild] /\ call' = [c \in Calls |-> Idle]

SessionWalletSteps ==
  \/ \E b \in Builds : Built(b) \/ BuildFails(b) \/ BuildTimesOut(b)
  \/ \E c \in Calls : SnapshotRefreshes(c) \/ StaleRefreshEnds(c) \/ FindsLocked(c)
  \/ HasIdle /\ Asks(FirstIdle, "snapshot")
  \/ Refreshed \/ RefreshTimesOut \/ FreshnessEnds

----------------------------------------------------------------------------
(* Properties.                                                             *)

(* A wallet with its watchers runs only for the live session, and only one *)
(* does, although builds outlast their timeouts and their sessions         *)
(* (wallet-runtime.ts:373-391).                                            *)
OneWallet ==
  \A b \in Builds : build[b].at = "alive" =>
    unlocked /\ build[b].own /\ \A d \in Builds : build[d].at = "alive" => d = b

(* The session counts as fresh only if its own wallet was refreshed, not   *)
(* one before it (wallet-runtime.ts:441-447).                              *)
FreshIsSynced == fresh => unlocked /\ synced
=============================================================================
