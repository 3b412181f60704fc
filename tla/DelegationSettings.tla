------------------------- MODULE DelegationSettings -------------------------
(***************************************************************************)
(* The delegation approval of a regtest wallet and the changes the user,   *)
(* or a policy mismatch, makes to it (delegation-settings.ts,              *)
(* delegation-session.ts, wallet-runtime.ts:338-345).  A change is checked *)
(* in a queue, ends the session, is saved, and a session with a new wallet *)
(* replaces the old one.                                                   *)
(***************************************************************************)
EXTENDS DelegationSession, Sequences

CONSTANT MaxChanges  \* bound: how many changes of the user's wait at once

ASSUME SettingsAssumption == MaxChanges \in Nat

VARIABLES
  fenced,   \* a rebuild holds the runtime
  terms,    \* what the delegate and the operator ask for, None when not free
  shown,    \* pendingApprovals: the terms the live session's wallet has under review
  screen,   \* the review the user has before him: its session and its terms
  agreed,   \* the delegates the user has said yes to
  pause,    \* of each session: how far its pause is; its provider is blocked once it is not "none"
  changes,  \* the configurationChange chain, its head being applied
  step      \* how far the head is

settingsVars == <<sessionVars, fenced, terms, shown, screen, agreed, pause, changes, step>>

\* policy: it is the pause a provider asked for.
Change == [by: Sessions, config: Config \ {None}, policy: BOOLEAN]

SettingsTypeOK ==
  /\ SessionTypeOK
  /\ fenced \in BOOLEAN /\ (fenced => session = 0)
  /\ terms \in Delegates \cup {None}
  /\ shown \in Delegates \cup {None}
  /\ screen \in [by: Sessions, delegate: Delegates] \cup {None}
  /\ agreed \subseteq Delegates
  /\ pause \in [Sessions -> {"none", "asked", "queued", "lost"}]
  /\ changes \in Seq(Change)
  /\ step \in {"waiting", "checked", "saving", "saved"}

SettingsInit ==
  /\ SessionInit
  /\ fenced = FALSE /\ terms \in Delegates
  /\ shown = None /\ screen = None
  /\ agreed = {d \in Delegates : stored # None /\ stored.delegate = d}
  /\ pause = [s \in Sessions |-> "none"] /\ changes = <<>> /\ step = "waiting"

Unlock ==
  /\ ~fenced /\ Opens
  /\ UNCHANGED <<fenced, terms, shown, screen, agreed, pause, changes, step>>

\* A lock ends the session, and takes the runtime from a rebuild.  The reviews of
\* its wallet can be reached no more.
LockNow == session' = 0 /\ shown' = None /\ fenced' = FALSE /\ UNCHANGED <<started, base>>

Lock ==
  /\ session # 0 \/ fenced
  /\ LockNow
  /\ UNCHANGED <<stored, terms, screen, agreed, pause, changes, step>>

\* The worker is stopped: only storage, and what is outside, survives.
SettingsDie ==
  /\ LockNow
  /\ pause' = [s \in Sessions |-> "none"] /\ changes' = <<>> /\ step' = "waiting"
  /\ UNCHANGED <<stored, terms, screen, agreed>>

TermsChange ==
  /\ terms' \in (Delegates \cup {None}) \ {terms}
  /\ UNCHANGED <<sessionVars, fenced, shown, screen, agreed, pause, changes, step>>

----------------------------------------------------------------------------
(* What is asked for.                                                      *)

Requests(config, policy) ==
  changes' = Append(changes, [by |-> session, config |-> config, policy |-> policy])

\* The answer may go to another page than the one the user looks at.
Preview ==
  /\ session # 0 /\ terms # None /\ shown # terms
  /\ shown' = terms
  /\ screen' \in {screen, [by |-> session, delegate |-> terms]}
  /\ UNCHANGED <<sessionVars, fenced, terms, agreed, pause, changes, step>>

\* Mutant of Reviewed: whatever review the wallet has, not the one named.
ReviewedAny(s) == shown # None

\* The review on the screen is the one this session's wallet still has, going by
\* its identifier, which its session and its terms stand for.
Reviewed(s) == screen # None /\ screen.by = s /\ screen.delegate = shown

Approve ==
  /\ session # 0 /\ screen # None /\ Reviewed(session) /\ Len(changes) < MaxChanges
  /\ agreed' = agreed \cup {screen.delegate}
  /\ Requests([delegate |-> shown, enabled |-> TRUE], FALSE)
  /\ shown' = None /\ screen' = None
  /\ UNCHANGED <<sessionVars, fenced, terms, pause, step>>

SetEnabled ==
  /\ session # 0 /\ stored # None /\ Len(changes) < MaxChanges
  /\ \E on \in BOOLEAN : Requests([stored EXCEPT !.enabled = on], FALSE)
  /\ UNCHANGED <<sessionVars, fenced, terms, shown, screen, agreed, pause, step>>

\* The provider blocks its session, whatever the terms become, and calls for a
\* pause, once; it checks before it signs, posts or settles.
RejectsPolicy ==
  /\ session # 0 /\ Enabled(session) /\ pause[session] = "none"
  /\ terms # base[session].delegate
  /\ pause' = [pause EXCEPT ![session] = "asked"]
  /\ UNCHANGED <<sessionVars, fenced, terms, shown, screen, agreed, changes, step>>

\* Mutant of PauseAsked: nothing joins the queue.
PauseForgotten(s) ==
  /\ pause[s] = "asked" /\ session = s
  /\ pause' = [pause EXCEPT ![s] = "queued"]
  /\ UNCHANGED <<sessionVars, fenced, terms, shown, screen, agreed, changes, step>>

\* pauseDelegationForSession, after its awaits; a session that is over has no more to ask.
PauseAsked(s) ==
  /\ pause[s] = "asked" /\ session = s
  /\ pause' = [pause EXCEPT ![s] = "queued"]
  /\ Requests([base[s] EXCEPT !.enabled = FALSE], TRUE)
  /\ UNCHANGED <<sessionVars, fenced, terms, shown, screen, agreed, step>>

\* The import or getSessionContext fails, which is a warning on the console.
PauseLost(s) ==
  /\ pause[s] = "asked" /\ session = s
  /\ pause' = [pause EXCEPT ![s] = "lost"]
  /\ UNCHANGED <<sessionVars, fenced, terms, shown, screen, agreed, changes, step>>

----------------------------------------------------------------------------
(* The queue of changes.                                                   *)

First == Head(changes)

Acceptable(config) ==
  IF config.enabled THEN terms = config.delegate
  ELSE stored # None /\ stored.delegate = config.delegate

\* Mutant of StillCurrent: any live session will do.
StillCurrentAny(change) == session # 0

StillCurrent(change) == Live(change.by)

ChangeChecked ==
  /\ changes # <<>> /\ step = "waiting"
  /\ StillCurrent(First) /\ Acceptable(First.config)
  /\ step' = "checked"
  /\ UNCHANGED <<sessionVars, fenced, terms, shown, screen, agreed, pause, changes>>

Dequeues == changes' = Tail(changes) /\ step' = "waiting"

\* Before the fence any change may fail: the delegate, the operator, or the stored
\* approval could not be read, or does not allow it.  Nobody asks for it again.
ChangeRefused ==
  /\ changes # <<>>
  /\ step = "waiting" \/ (step = "checked" /\ ~StillCurrent(First))
  /\ pause' = IF First.policy /\ StillCurrent(First)
              THEN [pause EXCEPT ![First.by] = "lost"] ELSE pause
  /\ Dequeues
  /\ UNCHANGED <<sessionVars, fenced, terms, shown, screen, agreed>>

\* beginRuntimeWalletRebuild: the old session is over before anything is saved.
ChangeBegins ==
  /\ changes # <<>> /\ step = "checked" /\ StillCurrent(First)
  /\ session' = 0 /\ shown' = None /\ fenced' = TRUE
  /\ step' = "saving"
  /\ UNCHANGED <<started, base, stored, terms, screen, agreed, pause, changes>>

ChangeSaved ==
  /\ step = "saving"
  /\ stored' = First.config
  /\ step' = "saved"
  /\ UNCHANGED <<session, started, base, fenced, terms, shown, screen, agreed, pause, changes>>

\* lockWallet in the catch clause locks whatever session there is by now.
CleansUp == LockNow /\ UNCHANGED stored

ChangeFails ==
  /\ step = "saving"
  /\ CleansUp /\ Dequeues
  /\ UNCHANGED <<terms, screen, agreed, pause>>

\* Mutant of ChangeInstalls: the old session gets the new configuration.
ChangeInstallsAgain ==
  /\ step = "saved"
  /\ IF fenced
     THEN /\ session' = First.by /\ fenced' = FALSE
          /\ base' = [base EXCEPT ![First.by] = stored]
          /\ UNCHANGED <<started, stored>>
     ELSE CleansUp
  /\ Dequeues
  /\ shown' = None /\ UNCHANGED <<terms, screen, agreed, pause>>

\* install() refuses when a lock has come between (and at the bound on sessions).
ChangeInstalls ==
  /\ step = "saved"
  /\ IF fenced /\ started < MaxSessions THEN Opens /\ fenced' = FALSE ELSE CleansUp
  /\ Dequeues
  /\ shown' = None /\ UNCHANGED <<terms, screen, agreed, pause>>

ChangeProgress ==
  \/ ChangeChecked
  \/ ChangeRefused
  \/ ChangeBegins
  \/ ChangeSaved
  \/ ChangeFails
  \/ ChangeInstalls

SettingsNext ==
  \/ Unlock \/ Lock \/ SettingsDie \/ TermsChange
  \/ Preview \/ Approve \/ SetEnabled \/ RejectsPolicy
  \/ \E s \in Sessions : PauseAsked(s) \/ PauseLost(s)
  \/ ChangeProgress

\* The head of the queue may be waiting for the operator's fees, which are asked
\* for without a timeout (delegation-policy.ts:41): they may never come.
AwaitsTerms == changes # <<>> /\ step = "waiting" /\ First.config.enabled

SettingsFairness ==
  /\ WF_settingsVars(~AwaitsTerms /\ ChangeProgress)
  /\ \A s \in Sessions : WF_settingsVars(PauseAsked(s) \/ PauseLost(s))

SettingsSpec == SettingsInit /\ [][SettingsNext]_settingsVars /\ SettingsFairness

----------------------------------------------------------------------------
(* Properties.                                                             *)

(* A change is saved only over the configuration its requester saw: two    *)
(* competing changes cannot silently overwrite one another                 *)
(* (delegation-session.ts:17-20).                                          *)
NoSilentOverwrite == [][stored' # stored => stored = base[First.by]]_settingsVars

(* What is stored names a delegate whose terms the user has reviewed and   *)
(* approved, whatever the delegate has advertised since                    *)
(* (delegation-settings.ts:159-162).                                       *)
ApprovedByUser == stored # None => stored.delegate \in agreed

(* The settings keep the promise of DelegationSession, when a session that *)
(* outlived the write of another configuration is taken for the ended one  *)
(* it is about to be (delegation-session.ts:66-72).                        *)
Promise == INSTANCE DelegationSession WITH
  session <- IF session # 0 /\ base[session] # stored THEN 0 ELSE session
SessionsAsPromised == Promise!SessionSpec

(* A session that met a policy mismatch is over in the end, or its pause   *)
(* has failed: that is reported, never tried again, and the provider stays *)
(* blocked.  A change in front of it in the queue whose question to the    *)
(* operator is never answered would keep the pause waiting, so there is to *)
(* be none for good (wallet-runtime.ts:332-361,                            *)
(* delegation-provider.ts:67-72, delegation-policy.ts:40-41).              *)
MismatchEnds ==
  []<>~AwaitsTerms =>
    \A s \in Sessions : pause[s] # "none" ~> session # s \/ pause[s] = "lost"
=============================================================================
