# A TLA+ development of the Arkade wallet extension

This directory models the background part of the Arkade wallet extension: the service
worker that holds the keys, decides who may use them, spends, swaps and delegates coins,
and survives locks, network switches, closed windows, timeouts and its own death. TLC
checks the models on small instances; TLAPS proves the safety properties for every
instance.

## 1. The system

The extension has four places where code runs. The *service worker*
(`entrypoints/background.ts` and everything under `src/`) owns all authority. The
*popup* and the *approval window* are trusted pages that send it messages. A *content
script* and an *injected provider* relay the calls of a web page, which is not
trusted. There is one JavaScript thread in the worker, so code between two awaits is
atomic; everything hard happens because almost every handler awaits something
(storage, a key derivation, the operator, the user) and any other handler may run
meanwhile, and because the browser may kill the worker at any moment, which loses all
of memory and none of `chrome.storage.local`.

| Part | State | Operations | Hard because |
|---|---|---|---|
| `wallet-runtime.ts` | the live session, an epoch, the active network transition; per session the wallet, its build and its refresh | open, fence, install, abort, lock; build the wallet, capture a context, refresh | a lock may interrupt a transition; builds time out and finish later; contexts outlive sessions |
| `keystore.ts` | none of its own; the stored vault | create, import, unlock, prepare a switch | key derivations are awaited between a read and the write or open that relies on it |
| `network-switch.ts` | a queue of switches | authenticate, fence, write, install, clean up | the write may fail; a lock, an unlock or a crash may fall anywhere |
| `delegation-session.ts` | a queue of changes | fence, write the record, install the same identity | as above, and the wallet stays on its network |
| `session-lock.ts`, `auto-lock.ts` | a queue of alarm calls; the browser's alarm | lock, arm, clear | alarm calls settle long after the state changes that caused them |
| `storage.ts` | vault, network | read and write the pair | a crash between two writes |
| `approvals.ts` | the request in flight, its stored record | ask, decide, close, reject | five enders, two stores, windows that open and close by themselves |
| `permissions.ts`, `arkade-approvals.ts`, `provider-handlers.ts` | grants, connection versions, approved Arkade transactions | connect, disconnect, revoke, read, sign, approve, complete | a prompt lasts minutes; grant, session and connection may change within it |
| `lightning.ts` | the swap runtime, its generation; the stored swaps | build, dispose, invoice, pay, reconcile | a build may outlive the session it was for; funds move before the swap is done, while nobody watches |
| `delegation-*.ts` | approved delegate, submission records, the review in hand, a queue per wallet | review, approve, pause, submit, retry, settle, migrate | remote acceptance and the local record of it are two steps; a queue outlives its session |
| `wallet.ts`, `vtxo-state.ts`, `renewal.ts`, `wallet-cache.ts` | the SDK's coins, the public snapshot | read, send, classify, renew | selection against a moving coin set; a cached snapshot of another network |
| `psbt-inspect.ts`, `arkade-inspect.ts`, `wallet-scripts.ts` | none | say what a transaction does to the wallet; bind checkpoints to a payment; merge signatures | several totals, computed apart, over what others wrote |
| `crypto.ts`, `origin.ts`, `signing.ts` | none | pure functions and calls into the SDK | parsing and encodings |
| popup, approval page, provider bridge | view state, pending calls by id | render and relay | little |

How they interact: the message handlers of `background.ts` call `keystore`,
`network-switch` and `session-lock`; these call `wallet-runtime` for the session,
`approvals` and `lightning` to end what depended on the old session, `auto-lock` for
the alarm, `storage` for the vault, and `provider-handlers` to tell the sites.
`provider-handlers` captures a context from `wallet-runtime`, prompts through
`approvals`, and reads and writes grants through `permissions`, which reports every
change to `arkade-approvals`. A context carries the session's wallet, which the runtime
builds when it is first asked for; on it `lightning` builds its swap manager, the
delegation modules their queue, and the renewal alarm its tick. Each of these holds on to
the session it was made for and looks whether that is still the live one after every
await.

What makes each part correct is stated as the properties of section 4.

## 2. Modules

| Module | Models | Extends |
|---|---|---|
| `WalletRuntime` | the session, the epoch and the transition fence, as state and synchronous operations | |
| `WalletSession` | the asynchronous callers of the runtime: create, unlock, switch, rebuild, lock, alarm, crash | `WalletRuntime` |
| `SessionAuthority` | abstract: what the session code promises | |
| `ApprovalGate` | abstract: what the gate promises the handlers behind it | |
| `Approvals` | the approval gate and the window | |
| `SiteRequests` | connect, disconnect, revoke and the two simple signatures, over an abstract session and the abstract gate | |
| `ArkadeSigning` | approved Arkade transactions and their completions | `SiteRequests` |
| `PsbtInspection` | what the summary of a transaction says; own scripts | |
| `ArkadeInspection` | a payment with its checkpoints; the merge of signatures | `PsbtInspection` |
| `SessionWallet` | the builds and refreshes of a session's wallet | |
| `LightningSwaps` | the swap manager, invoices, payments, reconciliation | `SessionWallet` |
| `DelegationSession` | abstract: what the delegation settings promise the rest | |
| `DelegationSettings` | approvals, pauses, policy mismatches, the queue of changes | `DelegationSession` |
| `Delegation` | submissions, their records, catch-ups, settlements | `DelegationSession` |
| `DelegationMigration` | the reviewed transfer of ordinary coins to the delegation address | `Delegation` |
| `WalletCoins` | sends, withdrawals, renewal, recovery, onboarding, the alarm's tick | `DelegationSession` |
| `MC*` | the instances for TLC | their modules |
| `*Proofs` | theorems | their modules |

`Delegation` and `WalletCoins` rest on `DelegationSession`, the abstract settings, so what
they count on is exactly what `DelegationSettings` is shown to implement. `ApprovalGate`
stands between `Approvals`, which implements it, and `SiteRequests` and `ArkadeSigning`,
whose use of the gate is shown to be a behaviour of it.

### WalletRuntime and WalletSession

`session`, `epoch` and `transition` are the three module variables of
`wallet-runtime.ts`. The code tells one session, or one staged identity, from another
by object identity; the model gives each password entry an *authority* (the epoch of
the `openSession` that followed it), which an install passes on, and the history
variable `revoked` collects those some lock or lost transition has ended.

Every handler is a small state machine whose steps are the code between two awaits:
`opener[o]` is a create, import or unlock message, `switcher` the one switch
`transitionTail` lets run, `rebuilder` the one delegation change its queue lets run.
`alarmQueue` is `mutationTail` of `auto-lock.ts`, with the calls that have not settled;
`alarm` is the browser's, and survives `WorkerDies`. `told` records the authorities
whose end was reported to the sites as `disconnect`.

A failed await is a nondeterministic choice: a wrong password, a failed key
derivation, a failed storage write, a failed alarm call. Where two synchronous
operations of the runtime follow one another with nothing in between (abort and lock,
lock and abort), they are one operator, `AbortThenLock` and `LockThenAbort`.

### SessionAuthority

Six actions: an authority is granted, suspended, resumed, ended; the stored wallet is
rebound to another network, only while nobody is unlocked; the process restarts, which
holds nothing and remembers nothing. In between, an ended authority is never held again. `WalletSession` implements it under the mapping `Authority`: what the
abstract module calls suspended is a fence with a staged identity.

### ApprovalGate

A request is asked, ends, and is returned to its caller: three steps, of which others may
come between any two. At most one request is in flight, and a caller hears only when its
request no longer is. Where the storage area may fail (`reliable` is FALSE) a caller may
hear too early, when its own write throws, or be lost, when the removal throws that its
answer would have followed. When an ended request is heard of is not promised.

### Approvals

`inFlight` is the module variable, `record` the entry in `chrome.storage.session`.
Each request has two threads, the asker (`requestApproval`) and the settler (whichever
handler took it out of flight); `persist` has the storage call each of them is in. A
call is issued, lands in storage, and then returns, and calls of different threads land
in any order. `owing` are the requests whose closures a handler holds while it awaits
`clearInFlight()`, `settled` those whose promise is settled. `window` and `page` are
the browser's window and what the page in it got from `getPendingRequest`. `mishaps` is
chosen at the start: whether storage calls may fail, and whether a window may be closed
before the call that opened it has returned. `Approvals` implements `ApprovalGate` with
`CallerOf`: a caller waits while its request is in flight, its promise is settled, a
handler holds its closure or `requestApproval` is about to throw; one that awaits the
decision without any of these is lost.

### SiteRequests

A *task* is one call of a site (or one `revokeSite` from the popup), with a program
counter, the site that asked and, in `bound`, the session it has captured. The other
parts appear as what they promise. The session is a number that every unlock makes
new: 0 when locked or fenced, and a task goes on only `InSession`, which is
`requireUnchangedContext` and `assertCurrent` in the continuation of their await. Of
the gate there is the request in flight (`prompt`) and what came of each task's approval
(`verdict`); its window is `Approvals`' business. Of its storage there is this: where
`StorageFails`, a call whose record cannot be written throws while its request stays in
flight (`Declined`), and one whose record cannot be removed after its prompt has ended is
never told, since `resolveApproval` and `rejectApprovalForOrigin` await the removal before
they settle its promise (`Unanswered`; the disconnect itself throws and finishes its
change). A lock rejects first and removes after, so it loses nobody. `GateUsedAsPromised`
says that this is a use of `ApprovalGate`, whose storage is reliable just when this
module's is.

`grants` is the stored object, a grant being named by the connect call that issued it;
`mutations` is `mutationTail` of `permissions.ts`, with `stage` saying how far the first
operation is: `begun` when `revokeGrantIfCurrent` has reported its change and not yet
written, then `landed`, `skipped` or `failed`. A connect whose write lands after a lock
joins the queue again to take back its own grant, and only that. `connection` is the
version and the number of open changes of each site (`arkade-approvals.ts`), `arkade`
the keys of the approvals map. `WorkerDies` keeps the grants and loses everything else;
calls under way end without an answer.

### ArkadeSigning

Adds what an approval holds (`approval`: the grant and version it was asked under,
whether it expires, is ready, is busy, what it was completed with), the approval and the
checkpoints each completion names, and `todo`, the signatures and checks a handler still
has before it. Every one of them starts with an authorization in two steps, as in the
code: the grant is read from storage (`ReadsGrant`), and in a later continuation the
session, the connection version and the map are looked at (`Authorized`), together with
the action that relies on them.

### PsbtInspection and ArkadeInspection

The inspections are pure functions of what is submitted, so the modules are operators
over one variable, `submission`. A script is its set of tapscript leaves, a leaf its type
and its signers, since an output key commits to exactly one tree. `Rebuilt`, `Owned` and
`OwnScripts` are `wallet-scripts.ts`: a stored contract counts only when its script is
the one its parameters build. `DecodeOutputs`, `Role`, `Committed`, `SignInputs`, `Flags`
and `InspectPsbt` follow `psbt-inspect.ts`; `Binds`, `CheckpointsComplete`,
`InspectLinked` and `PrepareCheckpoints` follow `arkade-inspect.ts`. A record `accepted`
stands for not throwing.

### SessionWallet and LightningSwaps

`build`, `call` and `fresh` are the session's `walletPromise`, its callers and
`lastRefreshAt`. Sessions are not numbered here: everything under way carries a flag
`own`, the code's check `session === owner`, which the end of a session takes from all
of it. A build or a refresh cannot be cancelled. `BuildTimesOut` and `RefreshTimesOut`
answer the callers and leave the work going on; `Built` then disposes of a wallet
that came too late or for a session that is gone.

`manager[m]` is a swap runtime that is being created or runs, `watch` the swaps it
follows. `swap[k]` has both what is true of a swap (`fate`) and what the repository says
(`saved`, `refunded`): the two drift apart whenever nobody watches. A payment is priced,
created, verified against the quote and the wallet's own key, and sent, each after an
await; `reconcile` lists the stranded swaps, refunds them and refreshes the statuses.
Boltz, the operator and the swap library are external: `Boltz(k)` moves a fate, `Hears`,
`Claims` and `ManagerRefunds` are what the library does while it runs. `payInvoice` does
not look at its swap again before it sends: `Funded` says what that does, and money sent to
a swap that had expired by then is money to be refunded. Only an `unlock` message looks for
swaps to reconcile (`UnlockHandled`); a session that a create, an import, a switch or a
rebuild installs does not (`Installed`). `ReceiveStatus` and `PayStatus` are the two status
maps, branch by branch.

### DelegationSession, DelegationSettings

The abstract module has three actions: a session opens with the configuration stored,
ends, or a configuration is saved, and then no session is live. `DelegationSettings` has
the review the live session's wallet has (`shown`), the one the user has before him, with
its session (`screen`), what he has agreed to (`agreed`), the queue of changes with the
step its head is at, the fence of the rebuild, and how far the pause of each session is
(`pause`): asked for by a provider that met other terms, queued, or lost. It is lost when
an await before the fence rejects, whatever the reason, or the queued change is refused;
the code reports that and does not try again, and the provider stays blocked. A user's
`Approve` names the review on his screen, and the wallet compares it with the one it has.
The model lets a user unlock at any time under a fence, more than the code does. In between a change's fence and its write a user
may lock and unlock; the write then falls under a session that was opened with the older
configuration, and `applyConfiguration` locks it in the same breath. The mapping of
`SessionsAsPromised` lets that session end with the write.

### Delegation and DelegationMigration

Per session, `jobs` is the promise chain of its wallet's submissions with the step its
head is at, `pick` what it has picked and been told, `known` `acceptedInSession`. `wire`
has the requests that were posted and which the delegate has not yet taken, `held` what
it has accepted, `records` what is stored. A locked session's queue runs on: its checks
stop it, but an answer under way still arrives and is recorded. Time is two events: a
cooldown ends, a batch expires. `coin` says what the operator and the chain say.

`DelegationMigration` adds `entry`, the review each wallet has in hand, and `review`, how
far each is. A preparation that finds another one has been stored or executed meanwhile
gives up; the transfer looks at approval, terms and inputs again before it spends.

### WalletCoins

`coin[c]` has an age (deposit, live, about to expire, expired, swept, spent) and a
generation, which is its outpoint. `call[w]` is a call and what it has read. The tick of
the alarm is a worker of its own: the context and the refresh, which nothing catches, then the
two legs, recovery and renewal, each caught, then summary and warning. Any await of any call
may throw (`Fails`): in a leg that ends the leg, elsewhere the call.

A send, a settle or an exit is a *round* in four steps. `Begins` reads what the SDK takes
and makes the first signature, `Signs` the last; both need the session of the call, as
`session-identity.ts` has it. A round that is fully signed needs no session any more: it
`Lands`, or the operator `Rejects` it because an input is gone or in another state, whatever
was locked, opened or killed meanwhile. What is read comes from the operator and is true
when it is read. A coin counts for one unit of money, and change is not followed.

## 3. Runs

| Run | Question | States |
|---|---|---|
| `session` | do locks stay final, is the vault readable, does a transition keep its fence, is every end reported, is `SessionAuthority` implemented, does every fence come down and an unused wallet lock | 1,106,534 |
| `unlock_straddles_switch` | can a session open on a network the vault has left (violated) | violation |
| `two_creators` | is a mnemonic kept once it was shown (violated) | violation |
| `approvals` | does the record follow the request, is `ApprovalGate` implemented, does every request end; with and without storage failures and early closes | 197,059 |
| `early_close` | is a closed window always an answer (violated) | violation |
| `sites` | do prompts belong to the live session, do refused connects leave nothing, does compensation spare other grants, is every change finished and every call answered that a failed removal has not lost | 1,219,229 |
| `prompt_after_revoke` | do signature prompts open for connected sites only (violated) | violation |
| `arkade` | is anything signed on authority that is gone, do retries agree, do approvals end; at the start, is every submission shown for what it is and completed with signatures only | 788,556 |
| `delegation` | is what is posted, settled, moved and shown covered by what was approved and accepted, and accepted work recorded in the end | 111,102 |
| `delegation_settings` | is the stored configuration what a user approved, is a newer one never overwritten unseen, is `DelegationSession` implemented, does a session that met other terms end, or report that its pause failed | 583,083 |
| `coins` | do renewals start clean, are picked coins spent as picked, is an unlocked wallet tended | 559,571 |
| `lightning` | do one wallet and one manager run, is what is paid confirmed and refundable, does every outcome shown exist, does money come home | 108,195 |

The state counts are those of distinct states. The type invariants of the components are
theorems (section 5), so the configurations do not list them.

## 4. Properties

**Session.** `VaultReadable`: the vault is always bound to the stored network.
`FenceOwned`: a transition finds the runtime it fenced, so `install()` never throws.
`RevokedStaysRevoked`: a lock is final. `DisconnectTold`: the end of a session is
reported. `ImplementsAuthority`: the refinement. `LocksInTheEnd`: every fence comes down
and a wallet nobody uses ends up locked, whichever alarm calls failed or were reordered.

**Gate.** `RecordFollows`: when the writes are over the record is the request in flight.
`GateKept`: the refinement of `ApprovalGate`, by which one request is in flight at a time,
none twice, and nobody hears too early or waits for an answer nobody can give. The last two
need a storage that does not fail: the code gives the gate up, or forgets to, when a
record cannot be written or removed. `Answered`: where nothing goes wrong every request
ends.

**Sites.** `PromptInSession`: no prompt outlives its session. `FailedConnectGrantsNothing`:
a refused connect leaves no grant, wherever in its write the lock fell.
`GrantGoesByDisconnect`: compensation never takes another call's grant.
`ChangesAreFinished`: every change of a connection that is begun is finished, once.
`CallsReturn`: every call is answered, writes of the grants that fail included, but the one
whose prompt was ended by a handler that then failed to remove its record.

**Arkade.** `ApprovalsBound`: what is in the map belongs to the stored grant and the live
session, although nothing but the order of steps keeps it so, and no failed handler
leaves an approval behind or busy. `SignedUnderGrant`: the same of every signature that
is started and every answer, at the moment it happens. `OneAnswer`: retries of a
completion get one result. `ApprovalsEnd`: authority without a prompt ends.

**Inspection.** `MoneyAccounted`: what leaves the wallet is no more than what is shown as
paid and as the fee, unless an unreadable output is warned of; a payment of everything
is called a sweep; the fee of a payment is what the original coins lose; the wallet signs
just the inputs whose checkpoints it signs. `OwnIsOwn`: only what the wallet can spend
with the operator is called its own.
`OnlySignaturesAdded`: what comes back of an approved payment adds signatures to it.

**Wallet and swaps.** `OneOfEach`: one wallet and one manager at most run, for the live
session, which counts as fresh only by its own refresh. `PaidAsConfirmed`: what is locked
is what the user confirmed, within the slack, and refundable by our key. `StatusHonest`:
no outcome is shown that did not come about, though what is saved may lag behind: paid,
refunded, done, expired and failed are shown only of swaps that are, a claim only of a
funded deposit, and a refund is promised only for a payment that cannot succeed any more,
whether it has come back by then or was never funded. `InOwnSession`: swaps are asked for and paid for
the live session only. `MoneyComesHome`: the money of failed payments, of those sent when
their swap was over already, and of funded deposits reaches a wallet that is unlocked again
and again.

**Settings.** `ApprovedByUser`: what is stored was reviewed and agreed to.
`NoSilentOverwrite`: a change is saved only over the configuration its requester saw.
`SessionsAsPromised`: the refinement of `DelegationSession`. `MismatchEnds`: a session
that met other terms is over in the end, or its pause has failed and that was reported,
unless an enabling change ahead of the pause waits for ever for the operator's fees, which
are asked for without a timeout (`AwaitsTerms`).

**Delegation.** `ShownHonestly`: what is shown as delegated was accepted. `PostedOnce`: what
the session knows to be accepted is not posted again. `PostedUnderApproval`,
`MovedUnderApproval`: nothing is posted, and no coin moved, but under the delegation then
stored, by a live session, and for the review in hand. `SettleSparesAccepted`: the
wallet's automation leaves the delegate's coins to the delegate. `AcceptanceSaved`: a
record whose write failed is written in the end. `LeftoversSettle`: expired coins are
recovered, records of spent ones forgotten.

**Coins.** `ChoiceStands`: a renewal round starts clean, and a send from picked coins
spends those or nothing, although coins and sessions change between the choice, the
signatures and the landing of a round. `Tended`: an unlocked wallet gets lapsed coins back,
renews those about to lapse, and warns of exactly what is lapsed. Each of the three needs
only that its own awaits do not throw for ever (`Throwing`): the warning comes though both
legs fail every time, the renewal though recovery does; none of them comes while the
refresh before them fails. That a signature is made only in its session is the first line
of every signing method and the guard of two actions here, so it is no property of its own.

### Bounds

Two networks are enough to be on the wrong one. Two unlock messages and a create
overlap with one switch and one rebuild, which the code's own queues keep to one at a
time. `MaxRequests = 4` allows four messages or crashes in a behaviour: a session is
opened, fenced, locked under the fence and opened again within that, and the alarm and
all failures are free. Two creators are used only where the question is about them.
Two requests fill the gate and compete for it.

`sites` has two sites, two connects and a signature, which compete for the prompt, and
a disconnect; the queue of grants is then up to three deep, with one operation of each
kind, and every write may fail. `arkade` has one transaction with one checkpoint and two
completions, a disconnect, and two connects, so that the site may come back with another
grant. Two sessions (`MaxSessions`) are the least in which one can be mistaken for
another. The inspections of that run are made at its start, over the sets `MCInputs`,
`MCOutputs`, `MCSpends`, `MCPayments` and `MCCompleted`: an own and a shared coin, inputs
that misstate their leaf or tree, outputs of every kind, checkpoints and payments that
misstate an amount. All three properties of the inspections are proved for any set.

`delegation` has one coin, one session, two reviews and up to three queued jobs, so that
catch-up, event and settlement meet in a queue. A review starts only where there is
something to move, and beside one a queue holds a single job. `Reopens` opens a session
only when what an older one left has nothing left to do but hear answers. Recovery by a
later session is therefore not run to its end; that nothing is posted, settled or moved
wrongly by any number of sessions is what the theorems say.
`delegation_settings` has two delegates, two sessions and two changes: two competing
changes of one session, or one each. `coins` has two coins, one of them dust, one more
generation, one call beside the alarm's, and a second session only for what the first
one left under way; coins picked are sent whole, and deposits and second sessions come only
without delegation. `lightning` has two calls, builds and managers, one swap, an amount
at which one per cent and the slack differ (10001), and a price at the slack and one
above it; leftovers of an ended session are followed in behaviours before the swap is
made, and the swap in those without leftovers.

Where calls or reviews are interchangeable, they start in one order (`InOrder`,
`FirstIdle`); a declared symmetry would be unsound for liveness.

### Fairness

Liveness assumes weak fairness of `Progress`: storage, alarm and disposal promises
settle, an armed alarm fires in the end, and a handler whose promise has settled goes
on. It assumes nothing of the user but, in `GateProgress`, that a prompt is answered or
its window closed; and no crash is prevented. `SiteProgress` and `ArkadeProgress` are the
same for the calls of sites: storage operations, inspections and signers settle, a prompt
is answered, and the timer of an approval goes off. The browser guarantees that much: a
promise of an extension API settles or the worker is gone.

Remote work may fail as often as it likes. `WalletCoins` assumes only that the alarm rings
and that what its tick awaits returns or throws; `Tended` has the awaits that throw for
ever as its exceptions. `DelegationSettings` assumes that a change goes on unless it waits
for the operator's fees, and that a pause asked for is queued or fails.

Elsewhere liveness assumes luck in the end and says so: what is tried again and again
succeeds once (strong fairness). In
`Delegation` the catch-up, the automation's choice and its settlement; in
`LightningSwaps` the manager's and the sweep's refunds, and `[]<>Tries => []<>Succeeds`
for the reconciliation. A reconciliation that failed is tried again only at the next
unlock, so `MoneyComesHome` assumes `ComesBack`, a user who unlocks again and again.
Unlocks, locks, payments and reviews are otherwise never assumed.

## 5. Proofs

`WalletSessionProofs` proves, for any networks, callers and bound:

- `TypeCorrect`: the type invariant;
- `FenceHolds` and `FenceStaysOwned`, from the inductive `FenceInv`: the property of the
  runtime alone is not inductive, since a prepared switch relies on the version it
  has captured and the coordinators on the fence they raised, so the invariant ties
  the program counters of both to `transition.owner` and `transition.fence`;
- `LocksAreFinal`, from `AuthorityInv`: authorities are epochs, so none above the
  current epoch was revoked, and one that is live, fenced or staged was not either;
- `VaultStaysReadable`: with at most one creator the stored pair stays bound. A switch
  writes a vault it decrypted earlier, so the invariant says what else may write in
  the meantime: nothing, unless a second create overlaps;
- `EndsAreTold`, from `ToldInv`: an abort after a failed write reports the lost session
  one step before it gives the fence up, so what the fence had taken is told by then;
- `Implementation`: the refinement of `SessionAuthority`. Every step grants, suspends,
  resumes, ends, rebinds or restarts, or is unseen; lemmas say which of these a lock, an
  install and a fence can be. That an ended authority cannot be granted again is where
  `AuthorityInv` is needed, that a rebinding finds nobody unlocked where `FenceInv` is.

`ApprovalsProofs` proves `GateTypes`; `RecordIsFollowed`, from an invariant about the last
write to land; and `GateIsKept`, the refinement of `ApprovalGate`, from `GateInv`: what is in
flight is awaited, unanswered and nobody else's to settle, and a handler at work has an
answer to give or has given it. Without the second half a lost caller could be found
again. Every step asks, ends, returns, loses or restarts, or is about records, windows and
pages, of which the abstract gate knows nothing. That storage does not fail is a condition
within the properties, so the theorems hold of every behaviour.

`SiteRequestsProofs` proves `SiteTypes` and every property of the run `sites` but
`CallsReturn`, for any number of sites and calls and any failures, from `SiteInv`:

- `QueueInv`: each queued operation belongs to a call that waits for it, and no call has
  two;
- `CountInv`: the open changes of a connection are as many as the disconnects of the site
  that are under way plus the grant operations that have begun one. Type correctness
  rests on it: the number never goes below zero;
- `PromptInv`: the call in flight is at its prompt, undecided, in its session, and no
  call has a decision before it asked;
- `GrantInv`: a stored grant belongs to a connect that is still writing it, is taking it
  back, has returned it or was cut off; and a compensation that has begun is about the
  very grant that is stored. The second half is what makes the compensation safe, and it
  is inductive only because the queue lets nothing else write in between.

`SitesUseTheGate` and, with the Arkade approvals among the requests, `ArkadeUsesTheGate` show
the other side of `ApprovalGate`, from `PromptInv`: a call leaves its prompt only by a
decision, or because its record could not be written, and the call in flight has none.

`ArkadeSigningProofs` proves `ArkadeTypes`, `ApprovalsAreBound`, `OneAnswerEach` and
`SignaturesUnderGrant`. The steps of `ArkadeSigning` keep `SiteInv`; on top of it
`ArkadeInv` has:

- `ConnectionInv`: an approval on its way into the map, whose connection has still the
  version it was asked under, has the stored grant; one in the map always has. This is why the
  map needs no look at the grants: a grant is written only while a change is open
  (`CountInv`), and a change that begins clears the map of its site and makes a new version;
- `MapInv`: whose approval is in the map, and that it was approved in the live session;
- `BusyInv`: a completion at work has its approval to itself, and one that is busy has such
  a completion;
- `AnswerInv`: what was answered is what the approval has on record, and a retry that is let
  through asks for that same.

It also proves all three properties of the inspections, for any stored contracts, inputs,
outputs, checkpoints and signatures. `OwnIsTrue` rests on own scripts being rebuilt with our
key. `CompletionsOnlyAdd` rests on this: ids tell checkpoints apart, so what is found under
an id is the one submission of it, and the merge keeps one signature of each key, the
approved one first.

`MoneyIsAccounted` is about sums, which the modules take with folds over sets. A fold is
defined by CHOOSE over all the functions that compute it, so the proof begins by showing
that there is one: `PartialSums`, over the subsets of a finite set, by the least subset that
would have none (`SubsetInduction`, stated of a set of subsets and so without an
operator). From it come the facts everything else uses, in `SumFacts`: a sum over the
empty set is 0, and taking an element out takes its value off. Sums over a set may be split,
renamed along a bijection and bounded (`SumSplit`, `SumRenamed`, `SumNatural`). With these
the signed amounts of a transaction fall into what comes back, what is paid and the fee.
`PaymentShown` adds the checkpoints: each input of a payment spends one, no two the same
(`OneCheckpointEach`), so the sum over the inputs is, renamed, the sum over the coins the
checkpoints spend, for sequences of any length.

`InspectionAssumption` says which forms an output has and that amounts are naturals, as in
the eight unsigned bytes they are read from; `CheckpointsAssumption` that a checkpoint is
a record of the stated form and that a PSBT holds one signature of a key.

`LightningSwapsProofs` proves, for any number of calls, builds, managers and swaps and
any amount and fee, from two inductive invariants over `EveryType`:

- `Owned`: no mark of a session outlasts it. Calls, builds and managers that are marked
  as its own are the live session's, at most one build or manager is being waited for
  or running, and the session is fresh only when it was synced. From it `NothingOutlives`;
- `SwapsSound`: what a call has checked still holds when it acts on it. A swap that is
  about to be paid was accepted at its price and its lockup is ours; what is saved of a
  swap has once been true of it, or became so when it was funded late. From it
  `PaymentsAsConfirmed`, `StatusTrue` and `SwapsInOwnSession`.

`DelegationSettingsProofs` proves `SettingsTypes`, `ApprovalStands`, `NothingOverwritten`
and `PromiseKept`, for any delegates, sessions and changes that wait, from:

- `NumberInv`: who asked for a change was opened before, and a change that is being applied
  is the head of the queue;
- `AgreedInv`: not only what is stored, but what any session was built with and any change
  asks for, names a delegate the user agreed to. A pause takes over an earlier
  configuration, so the property alone is not inductive;
- `StoredInv`: a live session runs with what is stored, and the one whose change is about to
  be saved was built with what is stored. It fails only between a write and the lock
  that follows, which is what the mapping of the refinement is for;
- `PauseInv`: a session whose pause has been asked for was opened with a delegation to pause.

`DelegationProofs` proves `DelegationTypes`, `StatusIsHonest`, `PostsOnce`,
`PostsUnderApproval`, `SettlementsSpare` and `MovesUnderApproval`, for any coins, sessions,
reviews and queues of any length, from `MigrationInv`:

- `CurrentInv`: the live session is the last one and was built with what is stored;
- `HeardInv`: what a session knows to be accepted, what its job was told and what is
  recorded as delegated was accepted by the delegate. The record can outlive the session
  that wrote it, so it speaks of some session and the other two of their own;
- `PendingInv`: what a job is about to post is not known to be accepted. It is kept by the
  queue, since another job of the same session may not answer in between;
- `ReviewInv`: a transfer that has begun is the review its session has in hand, of a session
  that enabled delegation; a review prepared after another was executed found that
  one over.

`WalletCoinsProofs` proves `CoinsTypes` and `ChoicesStand`, for any calls and any finite set
of coins, from `SeenInv`: what a renewal saw lapsed is lapsed still, under the same
outpoint, or has a new one, and when its round begins all of it has a new one; the inputs
of a send from picked coins are the coins picked. Both last through the steps of a round,
so they hold where it lands. Finiteness is used for amounts alone, which are sums over coins and have to be
numbers.

The theorems assume what the modules state about their constants: `NoneAssumption`,
`CallerAssumption`, `VaultAssumption`, `GateAssumption`, `SiteAssumption`,
`ArkadeAssumption`, `InspectionAssumption`, `CheckpointsAssumption`, `LightningAssumption`,
`SessionAssumption`, `SettingsAssumption`, `DelegationAssumption`, `MigrationAssumption` and
`CoinsAssumption` (kinds of calls are disjoint, `None` is none of them, bounds and amounts
are numbers, the coins are finitely many), and what their own ASSUME says.

Checked by TLC only: liveness (`LocksInTheEnd`, `Answered`, `CallsReturn`, `ApprovalsEnd`,
`MismatchEnds`, `AcceptanceSaved`, `LeftoversSettle`, `Tended`, `MoneyComesHome`), which
needs fairness and ENABLED, out of the prover's reach; and the four properties that do not
hold.

## 6. Where the code and its documents disagree

Four runs end in a violation on purpose; each checks one sentence of the code's own
comments, errors or tests. `PROJECT.json` quotes them.

1. An unlock may open a session on the network the vault has left.
2. Two overlapping creates replace a mnemonic.
3. A window closed before its id is known leaves its request in flight.
4. A site that is disconnected while its signature request is between its grant check
   and its prompt gets the prompt all the same.

Some things were met while modelling that no document denies, and a reader of the code
should know:

- A removal of the stored request that throws leaves the site's call waiting for ever: the
  request is out of flight, but its promise is settled only after the removal
  (`approvals.ts:204-205`, `217-218`).
- The pause after a policy mismatch is asked for once. If it fails before its fence nobody
  tries again; the provider stays blocked, and the session stays (`wallet-runtime.ts:356-361`).
- A payment is sent to its lockup whatever has become of its swap (`lightning.ts:538-540`).

- Swept coins that are dust together cannot be recovered, and then the drain before a
  renewal fails and the renewal does not run (`wallet.ts:741-751`, `renewal.ts:146`).
  `Renewed` has that as its exception.
- A reconciliation that fails is not retried within its session (`lightning.ts:186-213`).
- The manager may begin to refund a swap between its start and the sweep's list; both then
  try (`lightning.ts:240`). The lockup can be spent once, so the second finds nothing.
- The exit path of a coin of the wallet alone is not flagged: the flag is read from the
  details that only inputs signed with others carry (`psbt-inspect.ts:565-572`), though
  the comment there speaks of "an input we sign".

## 7. Plan

Done: every module of section 2; proofs of every safety property, action property and
refinement the runs check. Left, in this order:

1. For liveness, the safety part of each: that a call which has not returned has a step
   left to take.
2. The reads behind the popup (`handleGetAccounts`, the histories), which change nothing, as
   operators over the state, with what they may show in which session.
3. Change: `WalletCoins` counts coins, and follows no amounts through a send.

## 8. Not modelled

Of the components that are modelled, the parsing of bytes, the encoding of addresses, the
checks of versions, locktimes and sequences, the HTTP transport to the delegate, and the
computation of fees are left out: they are unit-testable functions whose results the
models choose freely. So are the handlers that only read (`handleGetAccounts`,
`handleIsConnected`, `handleGetNetwork`, the histories): they change nothing and return
what they find. The settle delay of the approval page's buttons is a matter of rendering.

The cached public snapshot is written by one call and read by another, and nothing that is
followed depends on it. The heartbeat that keeps the worker alive only postpones a death
the models allow at any time. Cryptography and signing are calls into WebCrypto and the
SDK; of encryption the models keep that a vault is bound to its network. Origins are URL
parsing. The provider bridge relays messages by a correlation id. The popup holds no state
the rest depends on. Formatting, configuration, build and development tools have no
run-time state.
