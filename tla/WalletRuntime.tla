--------------------------- MODULE WalletRuntime ---------------------------
(***************************************************************************)
(* The live session of the wallet, as src/src/wallet-runtime.ts keeps it:  *)
(* one module-level session, an epoch counter, and at most one network     *)
(* transition, the fence that stands between a revoked session and the     *)
(* session a switch or a rebuild installs in its place.                    *)
(*                                                                         *)
(* The module has the runtime's state and its synchronous operations.  The *)
(* callers that interleave them are in WalletSession (passwords, storage,  *)
(* alarms) and SessionWallet (wallet builds and contexts).                 *)
(*                                                                         *)
(* A history variable names what the code expresses by object identity.    *)
(* Every session descends from one password entry; its "authority" is the  *)
(* epoch of the openSession that followed that entry, and an install keeps *)
(* it.  "revoked" holds the authorities some lock or lost transition has    *)
(* ended.  Authority 0 stands for no authority.                            *)
(***************************************************************************)
EXTENDS Naturals

CONSTANTS
  Networks,   \* the operator networks a vault can be bound to
  None        \* the null of the TypeScript code

VARIABLES
  session,     \* RuntimeSession | null
  epoch,       \* bumped by every open, fence, install and plain lock
  transition,  \* ActiveNetworkTransition | null
  revoked      \* history: authorities that have been ended

runtimeVars == <<session, epoch, transition, revoked>>

Owners == {"switch", "rebuild"}

Session == [epoch: Nat, network: Networks, auth: Nat]

Version == [epoch: Nat, network: Networks \cup {None}]

Transition == [owner: Owners, fence: Nat, had: Nat, staged: Nat,
               target: Networks, cancelled: BOOLEAN]

ASSUME NoneAssumption ==
  /\ None \notin Networks
  /\ None \notin Session
  /\ None \notin Transition

RuntimeTypeOK ==
  /\ session \in Session \cup {None}
  /\ epoch \in Nat
  /\ transition \in Transition \cup {None}
  /\ revoked \in SUBSET Nat

RuntimeInit ==
  /\ session = None
  /\ epoch = 0
  /\ transition = None
  /\ revoked = {}

----------------------------------------------------------------------------
(* What the other modules can ask of the runtime.                          *)

Unlocked == session # None

Fenced == transition # None

RuntimeVersion ==
  [epoch |-> epoch, network |-> IF Unlocked THEN session.network ELSE None]

LiveAuthority == IF Unlocked THEN session.auth ELSE 0

\* The authority a fence has taken from the session and may still give back.
FencedAuthority == IF Fenced THEN transition.had ELSE 0

\* Mutant of StagedAuthority: a locked source stages an identity too.
StagedEvenLocked(source) == IF Unlocked THEN session.auth ELSE epoch + 1

\* A prepared switch stages an identity only when its source was unlocked.
StagedAuthority(source) == IF source.network = None THEN 0 ELSE LiveAuthority

\* Mutant of MayPrepare: preparing does not look at the active transition.
MayPrepareFenced(source) == RuntimeVersion = source

MayPrepare(source) == ~Fenced /\ RuntimeVersion = source

MayBegin(source) == RuntimeVersion = source

\* install() of a transition that still owns the fence it raised.
MayInstall(owner) ==
  /\ Fenced
  /\ transition.owner = owner
  /\ ~Unlocked
  /\ epoch = transition.fence

----------------------------------------------------------------------------
(* The synchronous operations.                                             *)

EndAuthorities(auths) == revoked' = revoked \cup (auths \ {0})

CreateSession(network, auth) ==
  /\ epoch' = epoch + 1
  /\ session' = [epoch |-> epoch + 1, network |-> network, auth |-> auth]

OpenSession(network) ==
  /\ ~Fenced
  /\ CreateSession(network, epoch + 1)
  /\ UNCHANGED <<transition, revoked>>

BeginTransition(owner, source, staged, target) ==
  /\ MayBegin(source)
  /\ session' = None
  /\ epoch' = epoch + 1
  /\ transition' = [owner |-> owner, fence |-> epoch + 1, had |-> LiveAuthority,
                    staged |-> staged, target |-> target, cancelled |-> FALSE]
  /\ UNCHANGED revoked

Install(owner) ==
  /\ MayInstall(owner)
  /\ transition' = None
  /\ IF transition.staged = 0
       THEN UNCHANGED <<session, epoch>>
       ELSE CreateSession(transition.target, transition.staged)
  /\ UNCHANGED revoked

\* abort() gives up the fence; whatever it had taken is not given back.
Abort(owner) ==
  /\ transition' = IF Fenced /\ transition.owner = owner THEN None ELSE transition
  /\ EndAuthorities({FencedAuthority})
  /\ UNCHANGED <<session, epoch>>

\* Mutant of BeginLock: a lock under a fence does not cancel the staged identity.
BeginLockKeepsStaged ==
  /\ session' = None
  /\ transition' = IF Fenced THEN [transition EXCEPT !.cancelled = TRUE] ELSE None
  /\ epoch' = IF Fenced THEN epoch ELSE epoch + 1
  /\ EndAuthorities({LiveAuthority, FencedAuthority})

\* A lock under a fence cancels the staged identity and leaves the fence, and
\* therefore the epoch, to the transition's owner.
BeginLock ==
  /\ session' = None
  /\ transition' = IF Fenced THEN [transition EXCEPT !.staged = 0, !.cancelled = TRUE]
                             ELSE None
  /\ epoch' = IF Fenced THEN epoch ELSE epoch + 1
  /\ EndAuthorities({LiveAuthority, FencedAuthority})

\* beginSessionLock and abort() by a transition's owner with nothing in between:
\* the rebuild locks under its fence, a switch that could not install aborts first.
CancelOthers(owner) ==
  IF Fenced /\ transition.owner # owner
    THEN [transition EXCEPT !.staged = 0, !.cancelled = TRUE] ELSE None

LockThenAbort(owner) ==
  /\ session' = None
  /\ transition' = CancelOthers(owner)
  /\ epoch' = IF Fenced THEN epoch ELSE epoch + 1
  /\ EndAuthorities({LiveAuthority, FencedAuthority})

AbortThenLock(owner) ==
  /\ session' = None
  /\ transition' = CancelOthers(owner)
  /\ epoch' = IF transition' = None THEN epoch + 1 ELSE epoch
  /\ EndAuthorities({LiveAuthority, FencedAuthority})

\* install() finds its identity cancelled and only drops the fence; the lock that
\* follows finds no session.
InstallNothingThenLock(owner) ==
  /\ MayInstall(owner)
  /\ transition.staged = 0
  /\ transition' = None
  /\ epoch' = epoch + 1
  /\ EndAuthorities({FencedAuthority})
  /\ UNCHANGED session

\* Mutant of LockedAuthority: a fenced session counts as locked already.
LockedLiveOnly == LiveAuthority

\* The authority whose end a lock reports, 0 when there is nothing to report.
LockedAuthority ==
  IF Fenced THEN (IF transition.cancelled THEN 0 ELSE transition.had)
            ELSE LiveAuthority

\* The worker dies: module state is gone, and with it every captured context.
LoseRuntime ==
  /\ session' = None
  /\ epoch' = 0
  /\ transition' = None
  /\ revoked' = {}

----------------------------------------------------------------------------
(* While a transition is active no session is live and the epoch is the    *)
(* one the fence set, so that install() (wallet-runtime.ts:212-219) always *)
(* finds the runtime it fenced.                                            *)
FenceHeld == Fenced => ~Unlocked /\ epoch = transition.fence

(* A lock is final: no identity that a lock or a failed write has ended    *)
(* is live again or waiting to be installed                                *)
(* (wallet-runtime.ts:193-203, 273-288).                                   *)
RevokedStaysRevoked ==
  /\ LiveAuthority \notin revoked
  /\ Fenced => transition.staged \notin revoked
============================================================================
