---------------------------- MODULE SiteRequests ----------------------------
(***************************************************************************)
(* What a web page can ask for: connect, disconnect and signatures         *)
(* (provider-handlers.ts), the grants that permit it (permissions.ts), and *)
(* the connection versions and Arkade approvals that a change of a grant   *)
(* takes away before it is written (arkade-approvals.ts).  The session is  *)
(* a number that every unlock makes new, the gate what Approvals promises  *)
(* of it: one request in flight, out of flight as soon as something ends   *)
(* it, and answered some time later.  A request is one task, split at its  *)
(* awaits.  Transactions and Completions are the tasks of ArkadeSigning.   *)
(***************************************************************************)
EXTENDS Naturals, Sequences

CONSTANTS
  Origins,        \* the sites
  Connects,       \* connect calls; each names the grant it may issue
  Signs,          \* signMessage and signPsbt calls
  Disconnects,    \* disconnect by a site, or revokeSite from the popup
  Transactions,   \* approveArkadeTransaction calls
  Completions,    \* signArkadeCheckpoints calls
  None,           \* the null of the TypeScript code
  StorageFails,   \* may a write of the grants, or of the request in flight, fail
  MaxSessions     \* bound: unlocks in one behaviour

Tasks == Connects \cup Signs \cup Disconnects \cup Transactions \cup Completions

ASSUME SiteAssumption ==
  /\ None \notin Connects \cup Tasks \cup Origins
  /\ Connects \cap (Signs \cup Disconnects \cup Transactions \cup Completions) = {}
  /\ Signs \cap (Disconnects \cup Transactions \cup Completions) = {}
  /\ Disconnects \cap (Transactions \cup Completions) = {}
  /\ Transactions \cap Completions = {}
  /\ StorageFails \in BOOLEAN
  /\ MaxSessions \in Nat

VARIABLES
  live,        \* the live session, 0 when locked
  sessions,    \* how many there have been
  prompt,      \* the task whose approval is in flight
  verdict,     \* what came of each task's approval
  grants,      \* chrome.storage.local "grants": the connect call that issued each
  mutations,   \* permissions.ts mutationTail: grant operations not yet over
  stage,       \* how far the first of them is
  connection,  \* arkade-approvals.ts connections
  arkade,      \* arkade-approvals.ts approvals: the transactions still in the map
  pc,          \* where each task is
  site,        \* who asked
  bound        \* the session each task has captured

sessionVars == <<live, sessions>>
promptVars == <<prompt, verdict>>
grantVars == <<grants, mutations, stage>>
authorityVars == <<connection, arkade>>
taskVars == <<pc, site, bound>>
siteVars == <<sessionVars, promptVars, grantVars, authorityVars, taskVars>>

Mutation == [op: {"grant", "revoke", "revokeIf"}, by: Connects \cup Disconnects]

SitePC == {"new", "checked", "inspecting", "prompted", "granting", "undoing", "connected",
           "failed", "thrown", "rejecting", "throwing", "revoking", "telling", "signed", "done",
           "granted", "reading", "rechecked", "authorizing", "authorized", "signing"}

Over == {"new", "connected", "failed", "thrown", "signed", "done"}

SiteTypeOK ==
  /\ live \in Nat
  /\ sessions \in 0..MaxSessions
  /\ prompt \in Tasks \cup {None}
  /\ verdict \in [Tasks -> {"none", "approved", "refused", "lost"}]
  /\ grants \in [Origins -> Connects \cup {None}]
  /\ mutations \in Seq(Mutation)
  /\ stage \in {"queued", "begun", "landed", "skipped", "failed"}
  /\ connection \in [Origins -> [version: Nat, pending: Nat]]
  /\ arkade \in SUBSET Transactions
  /\ pc \in [Tasks -> SitePC]
  /\ site \in [Tasks -> Origins \cup {None}]
  /\ \A t \in Tasks : pc[t] # "new" => site[t] \in Origins
  /\ bound \in [Tasks -> Nat]

\* The first worker.  Later ones start from what WorkerDies leaves.
SiteInit ==
  /\ live = 0
  /\ sessions = 0
  /\ prompt = None
  /\ verdict = [t \in Tasks |-> "none"]
  /\ grants = [o \in Origins |-> None]
  /\ mutations = <<>>
  /\ stage = "queued"
  /\ connection = [o \in Origins |-> [version |-> 0, pending |-> 0]]
  /\ arkade = {}
  /\ pc = [t \in Tasks |-> "new"]
  /\ site = [t \in Tasks |-> None]
  /\ bound = [t \in Tasks |-> 0]

----------------------------------------------------------------------------
(* Steps the handlers share.                                               *)

Goes(t, to) == pc' = [pc EXCEPT ![t] = to]

Asks(t, o, to) ==
  /\ pc[t] = "new"
  /\ site' = [site EXCEPT ![t] = o]
  /\ Goes(t, to)

\* beginArkadeConnectionChange: the approvals go before anything is written.
BeginChange(o) ==
  /\ connection' = [connection EXCEPT ![o] = [version |-> @.version + 1,
                                              pending |-> @.pending + 1]]
  /\ arkade' = {t \in arkade : site[t] # o}

EndChanges(o, n) == connection' = [connection EXCEPT ![o].pending = @ - n]

Enqueue(op, t) ==
  /\ mutations' = Append(mutations, [op |-> op, by |-> t])
  /\ UNCHANGED <<grants, stage>>

\* The first mutation is t's, and it is over.
Settled(op, t) ==
  /\ mutations # <<>>
  /\ Head(mutations) = [op |-> op, by |-> t]
  /\ stage \in {"landed", "skipped", "failed"}

Dequeue == mutations' = Tail(mutations) /\ stage' = "queued"

\* requestApproval, past its own BUSY check.
Prompts(t) ==
  /\ prompt = None
  /\ prompt' = t
  /\ Goes(t, "prompted")
  /\ UNCHANGED verdict

EndPrompt(v) ==
  /\ prompt' = None
  /\ verdict' = [verdict EXCEPT ![prompt] = v]

\* What a lock, a fence or a disconnect does to the request in flight, if it is theirs.
RefusePrompt(theirs) ==
  IF prompt \in theirs THEN EndPrompt("refused") ELSE UNCHANGED promptVars

Approved(t) == pc[t] = "prompted" /\ verdict[t] = "approved"

\* The answer is no; or the record of the request could not be written, and the
\* call throws although the request stays in flight.
Declined(t) ==
  /\ pc[t] = "prompted"
  /\ verdict[t] = "refused" \/ (StorageFails /\ prompt = t)

\* The record of the request could not be removed, so nobody has told its call.
Unanswered(t) == pc[t] = "prompted" /\ verdict[t] = "lost"

\* requireUnchangedContext and assertCurrent, in the continuation of their await.
InSession(t) == live # 0 /\ live = bound[t]

----------------------------------------------------------------------------
(* The user and the session.                                               *)

\* Mutant of Lock: the request in flight outlives the session.
LockKeepsPrompt ==
  /\ live # 0
  /\ live' = 0
  /\ arkade' = {}
  /\ UNCHANGED <<sessions, promptVars, grantVars, connection, taskVars>>

\* lockWallet, or the fence of a switch or a rebuild, up to its first await.
Lock ==
  /\ live # 0
  /\ live' = 0
  /\ arkade' = {}
  /\ RefusePrompt(Tasks)
  /\ UNCHANGED <<sessions, grantVars, connection, taskVars>>

\* A password, or the install that ends a fence.
Unlock ==
  /\ live = 0
  /\ sessions < MaxSessions
  /\ sessions' = sessions + 1
  /\ live' = sessions + 1
  /\ arkade' = {}
  /\ UNCHANGED <<promptVars, grantVars, connection, taskVars>>

\* A decision, a closed window, or a window that would not open.
UserDecides ==
  /\ prompt # None
  /\ pc[prompt] = "prompted"
  /\ \/ \E v \in {"approved", "refused"} : EndPrompt(v)
     \/ StorageFails /\ EndPrompt("lost")
  /\ UNCHANGED <<sessionVars, grantVars, authorityVars, taskVars>>

----------------------------------------------------------------------------
(* The queue of grant operations.  Nothing else writes the grants, so the  *)
(* read and the write of one operation come to one step; between them      *)
(* revokeGrantIfCurrent reports the change.                                *)

Writes(m) == [grants EXCEPT ![site[m.by]] = IF m.op = "grant" THEN m.by ELSE None]

\* Mutant of RevokeIfReads: whatever grant is stored is taken.
RevokeIfReadsAny ==
  /\ mutations # <<>>
  /\ Head(mutations).op = "revokeIf"
  /\ stage = "queued"
  /\ stage' = "begun"
  /\ BeginChange(site[Head(mutations).by])
  /\ UNCHANGED <<sessionVars, promptVars, grants, mutations, taskVars>>

\* Exactly the grant its call issued, or none.
RevokeIfReads ==
  /\ mutations # <<>>
  /\ Head(mutations).op = "revokeIf"
  /\ stage = "queued"
  /\ LET t == Head(mutations).by
     IN  IF grants[site[t]] = t
           THEN BeginChange(site[t]) /\ stage' = "begun"
           ELSE UNCHANGED authorityVars /\ stage' = "skipped"
  /\ UNCHANGED <<sessionVars, promptVars, grants, mutations, taskVars>>

MayWrite ==
  /\ mutations # <<>>
  /\ \/ stage = "queued" /\ Head(mutations).op # "revokeIf"
     \/ stage = "begun"

MutationLands ==
  /\ MayWrite
  /\ grants' = Writes(Head(mutations))
  /\ stage' = "landed"
  /\ UNCHANGED <<sessionVars, promptVars, mutations, authorityVars, taskVars>>

MutationFails ==
  /\ StorageFails
  /\ MayWrite
  /\ stage' = "failed"
  /\ UNCHANGED <<sessionVars, promptVars, grants, mutations, authorityVars, taskVars>>

----------------------------------------------------------------------------
(* connect.                                                                *)

\* A site that has a grant gets its accounts back without a prompt.
ConnectAsk(c, o) ==
  /\ Asks(c, o, IF grants[o] = None THEN "checked" ELSE "done")
  /\ UNCHANGED <<sessionVars, promptVars, grantVars, authorityVars, bound>>

ConnectPrompt(c) ==
  /\ pc[c] = "checked"
  /\ live # 0
  /\ bound' = [bound EXCEPT ![c] = live]
  /\ Prompts(c)
  /\ UNCHANGED <<sessionVars, grantVars, authorityVars, site>>

ConnectRefused(c) ==
  /\ \/ pc[c] = "checked"
     \/ Declined(c)
     \/ Approved(c) /\ ~InSession(c)
  /\ Goes(c, "failed")
  /\ UNCHANGED <<sessionVars, promptVars, grantVars, authorityVars, site, bound>>

\* Mutant of ConnectGrants: the grant is written without reporting a change.
ConnectGrantsQuietly(c) ==
  /\ Approved(c)
  /\ InSession(c)
  /\ Enqueue("grant", c)
  /\ Goes(c, "granting")
  /\ connection' = [connection EXCEPT ![site[c]].pending = @ + 1]
  /\ UNCHANGED <<sessionVars, promptVars, arkade, site, bound>>

ConnectGrants(c) ==
  /\ Approved(c)
  /\ InSession(c)
  /\ BeginChange(site[c])
  /\ Enqueue("grant", c)
  /\ Goes(c, "granting")
  /\ UNCHANGED <<sessionVars, promptVars, site, bound>>

\* Mutant of ConnectGranted: the session is not looked at again.
ConnectGrantedBlindly(c) ==
  /\ pc[c] = "granting"
  /\ Settled("grant", c)
  /\ EndChanges(site[c], 1)
  /\ Dequeue
  /\ Goes(c, IF stage = "failed" THEN "failed"
             ELSE IF InSession(c) THEN "connected" ELSE "failed")
  /\ UNCHANGED <<sessionVars, promptVars, grants, arkade, site, bound>>

\* A lock came while the grant was being written: take back this very grant.
ConnectGranted(c) ==
  /\ pc[c] = "granting"
  /\ Settled("grant", c)
  /\ EndChanges(site[c], 1)
  /\ stage' = "queued"
  /\ IF stage = "landed" /\ ~InSession(c)
       THEN /\ mutations' = Append(Tail(mutations), [op |-> "revokeIf", by |-> c])
            /\ Goes(c, "undoing")
       ELSE /\ mutations' = Tail(mutations)
            /\ Goes(c, IF stage = "landed" THEN "connected" ELSE "failed")
  /\ UNCHANGED <<sessionVars, promptVars, grants, arkade, site, bound>>

\* Mutant of ConnectUndone: a change that was begun is not finished.
ConnectUndoneOpen(c) ==
  /\ pc[c] = "undoing"
  /\ Settled("revokeIf", c)
  /\ Dequeue
  /\ Goes(c, IF stage = "failed" THEN "thrown" ELSE "failed")
  /\ UNCHANGED <<sessionVars, promptVars, grants, authorityVars, site, bound>>

ConnectUndone(c) ==
  /\ pc[c] = "undoing"
  /\ Settled("revokeIf", c)
  /\ EndChanges(site[c], IF stage = "skipped" THEN 0 ELSE 1)
  /\ Dequeue
  /\ Goes(c, IF stage = "failed" THEN "thrown" ELSE "failed")
  /\ UNCHANGED <<sessionVars, promptVars, grants, arkade, site, bound>>

----------------------------------------------------------------------------
(* disconnect and revokeSite.                                              *)

PromptsOf(o) == {t \in Tasks : site[t] = o}

\* The rejected request leaves flight; its call is told when its record is removed.
DisconnectAsk(d, o) ==
  /\ BeginChange(o)
  /\ \/ Asks(d, o, "rejecting") /\ RefusePrompt(PromptsOf(o))
     \/ StorageFails /\ prompt \in PromptsOf(o) /\ Asks(d, o, "throwing") /\ EndPrompt("lost")
  /\ UNCHANGED <<sessionVars, grantVars, bound>>

DisconnectRevokes(d) ==
  /\ pc[d] = "rejecting"
  /\ BeginChange(site[d])
  /\ Enqueue("revoke", d)
  /\ Goes(d, "revoking")
  /\ UNCHANGED <<sessionVars, promptVars, site, bound>>

\* The stored record of the rejected request could not be removed.
DisconnectThrows(d) ==
  /\ pc[d] = "throwing"
  /\ EndChanges(site[d], 1)
  /\ Goes(d, "done")
  /\ UNCHANGED <<sessionVars, promptVars, grantVars, arkade, site, bound>>

\* Mutant of DisconnectRevoked: a failed write blocks the queue.
DisconnectRevokedWritten(d) ==
  /\ pc[d] = "revoking"
  /\ Settled("revoke", d)
  /\ stage = "landed"
  /\ Dequeue
  /\ EndChanges(site[d], 1)
  /\ Goes(d, "telling")
  /\ UNCHANGED <<sessionVars, promptVars, grants, arkade, site, bound>>

DisconnectRevoked(d) ==
  /\ pc[d] = "revoking"
  /\ Settled("revoke", d)
  /\ Dequeue
  /\ IF stage = "landed"
       THEN EndChanges(site[d], 1) /\ Goes(d, "telling")
       ELSE EndChanges(site[d], 2) /\ Goes(d, "done")
  /\ UNCHANGED <<sessionVars, promptVars, grants, arkade, site, bound>>

DisconnectEnds(d) ==
  /\ pc[d] = "telling"
  /\ EndChanges(site[d], 1)
  /\ Goes(d, "done")
  /\ UNCHANGED <<sessionVars, promptVars, grantVars, arkade, site, bound>>

----------------------------------------------------------------------------
(* signMessage and signPsbt.  requireForSigning ends in the continuation   *)
(* of its only read.                                                       *)

RequireForSigning(o) == grants[o] # None /\ live # 0 /\ prompt = None

SignAsk(s, o) ==
  /\ RequireForSigning(o)
  /\ Asks(s, o, "checked")
  /\ UNCHANGED <<sessionVars, promptVars, grantVars, authorityVars, bound>>

\* signMessage prompts where it gets its context; signPsbt inspects first.
SignContext(s) ==
  /\ pc[s] = "checked"
  /\ live # 0
  /\ bound' = [bound EXCEPT ![s] = live]
  /\ \/ Prompts(s)
     \/ Goes(s, "inspecting") /\ UNCHANGED promptVars
  /\ UNCHANGED <<sessionVars, grantVars, authorityVars, site>>

SignInspected(s) ==
  /\ pc[s] = "inspecting"
  /\ InSession(s)
  /\ Prompts(s)
  /\ UNCHANGED <<sessionVars, grantVars, authorityVars, site, bound>>

SignRefused(s) ==
  /\ \/ pc[s] \in {"checked", "inspecting"}
     \/ Declined(s)
     \/ Approved(s) /\ ~InSession(s)
  /\ Goes(s, "done")
  /\ UNCHANGED <<sessionVars, promptVars, grantVars, authorityVars, site, bound>>

\* The check and the start of the signer are one continuation.
SignStarts(s) ==
  /\ Approved(s)
  /\ InSession(s)
  /\ Goes(s, "signed")
  /\ UNCHANGED <<sessionVars, promptVars, grantVars, authorityVars, site, bound>>

----------------------------------------------------------------------------
(* The worker is killed: of all this only the grants survive.              *)

WorkerDies ==
  /\ live' = 0
  /\ prompt' = None
  /\ mutations' = <<>>
  /\ stage' = "queued"
  /\ connection' = [o \in Origins |-> [version |-> 0, pending |-> 0]]
  /\ arkade' = {}
  /\ pc' = [t \in Tasks |-> IF pc[t] \in Over THEN pc[t] ELSE "done"]
  /\ UNCHANGED <<sessions, verdict, grants, site, bound>>

ConnectSteps(c) ==
  ConnectPrompt(c) \/ ConnectRefused(c) \/ ConnectGrants(c) \/ ConnectGranted(c)
    \/ ConnectUndone(c)

DisconnectSteps(d) ==
  DisconnectRevokes(d) \/ DisconnectThrows(d) \/ DisconnectRevoked(d) \/ DisconnectEnds(d)

SignSteps(s) == SignContext(s) \/ SignInspected(s) \/ SignRefused(s) \/ SignStarts(s)

QueueSteps == RevokeIfReads \/ MutationLands \/ MutationFails

SiteProgress ==
  \/ UserDecides
  \/ QueueSteps
  \/ \E c \in Connects : ConnectSteps(c)
  \/ \E d \in Disconnects : DisconnectSteps(d)
  \/ \E s \in Signs : SignSteps(s)

SiteAsks ==
  \E o \in Origins :
    \/ \E c \in Connects : ConnectAsk(c, o)
    \/ \E d \in Disconnects : DisconnectAsk(d, o)
    \/ \E s \in Signs : SignAsk(s, o)

SiteNext == SiteProgress \/ SiteAsks \/ Lock \/ Unlock \/ WorkerDies

SiteSpec == SiteInit /\ [][SiteNext]_siteVars

SiteFairSpec == SiteSpec /\ WF_siteVars(SiteProgress)

----------------------------------------------------------------------------
(* Properties.                                                             *)

(* A prompt is on display only while the session it was asked under lives: *)
(* a lock rejects the one in flight and no request that waited meanwhile   *)
(* opens one for the session that is gone (docs/ARCHITECTURE.md:244-250,   *)
(* provider-handlers.ts:144-148, 390-407).                                 *)
PromptInSession == prompt # None => InSession(prompt)

(* A connect that is refused leaves no grant behind, although its write    *)
(* may land after a lock has ended the session; only when the write that   *)
(* takes it back fails does the call throw that error instead              *)
(* (provider-handlers.ts:155-163).                                         *)
FailedConnectGrantsNothing ==
  \A c \in Connects, o \in Origins : pc[c] = "failed" => grants[o] # c

(* A grant whose call was told it is connected goes only by a disconnect   *)
(* of its site, never by the compensation of some other connect            *)
(* (permissions.ts:124-138).                                               *)
GrantGoesByDisconnect ==
  [][\A o \in Origins :
       grants[o] # None /\ pc[grants[o]] = "connected" /\ grants'[o] = None
         => \E d \in Disconnects : site[d] = o /\ pc[d] = "revoking"]_siteVars

(* Every change of a connection that was begun is finished on every path,  *)
(* failures included: a pending one would refuse the site's Arkade         *)
(* approvals for as long as the worker lives                               *)
(* (arkade-approvals.ts:27-39, permissions.ts:88-137).                     *)
ChangesAreFinished ==
  (\A t \in Tasks : pc[t] \in Over) => \A o \in Origins : connection[o].pending = 0

(* Every call of a site is answered, whatever the others do and wherever   *)
(* in the queue its grant waits, writes of the grants that fail included.  *)
(* One call is not: that whose prompt was ended by a decision or a         *)
(* disconnect whose removal of the stored record failed                    *)
(* (permissions.ts:52-59, approvals.ts:202-206, 216-218).                  *)
CallsReturn == <>[](\A t \in Tasks : pc[t] \in Over \/ Unanswered(t))

(* While a site's signature is asked for, the site is connected, or its    *)
(* disconnect is still to reject the request (approvals.ts:210-213:        *)
(* "a revocation must reject any pending request from that same origin").  *)
PromptsAreConnected ==
  prompt \in Signs =>
    \/ grants[site[prompt]] # None
    \/ \E d \in Disconnects : site[d] = site[prompt] /\ pc[d] = "rejecting"

\* The calls that come to the gate, and where each of them is.
Prompting == Connects \cup Signs \cup Transactions

Unasked == {"new", "checked", "granted", "inspecting", "reading", "rechecked"}

CallerOf(t) ==
  IF pc[t] \in Unasked THEN "idle" ELSE IF pc[t] = "prompted" THEN "waits" ELSE "back"

Gate == INSTANCE ApprovalGate
          WITH Requests <- Prompting, inFlight <- prompt,
               caller <- [t \in Prompting |-> CallerOf(t)], reliable <- ~StorageFails

(* What this module assumes of the gate is what the gate promises, and so  *)
(* what Approvals has been shown to do: no call prompts twice or over      *)
(* another one, and none goes on from its prompt before the request is out *)
(* of flight, unless its record could not be written (approvals.ts:17-25). *)
GateUsedAsPromised == Gate!Spec
=============================================================================
