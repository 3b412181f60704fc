--------------------------- MODULE WalletSession ---------------------------
(***************************************************************************)
(* The life of a wallet session across its asynchronous callers: creating  *)
(* and unlocking a vault (keystore.ts), network switches                   *)
(* (network-switch.ts), delegation rebuilds (delegation-session.ts), locks *)
(* (session-lock.ts), the idle alarm (auto-lock.ts) and the death of the   *)
(* service worker.  Each caller is split at its awaits; between two of its *)
(* steps any other caller may run.                                         *)
(***************************************************************************)
EXTENDS WalletRuntime, Sequences

CONSTANTS
  Unlockers,    \* unlock messages that may be in progress at one time
  Creators,     \* createWallet / importWallet messages, each with its mnemonic
  Regtest,      \* the default network, and the only one with delegation
  MaxRequests   \* bound: requests and crashes in one behaviour

ASSUME CallerAssumption ==
  /\ Regtest \in Networks
  /\ Unlockers \cap Creators = {}
  /\ None \notin Creators
  /\ MaxRequests \in Nat

VARIABLES
  vault,        \* chrome.storage.local "vault": whose mnemonic, bound to which network
  network,      \* chrome.storage.local "network"
  alarm,        \* is the browser's idle alarm set
  ringing,      \* an alarm event dispatched but not yet handled
  alarmQueue,   \* auto-lock.ts mutationTail: alarm calls not yet settled
  opener,       \* the create, import and unlock handlers
  switcher,     \* the one network switch that transitionTail lets run
  rebuilder,    \* the one delegation change its queue lets run
  told,         \* history: authorities whose end sites were told of
  requests      \* how much of MaxRequests is used up

storageVars == <<vault, network>>
alarmVars == <<alarm, ringing, alarmQueue>>
siteVars == <<told>>
vars == <<runtimeVars, storageVars, alarmVars, opener, switcher, rebuilder,
          siteVars, requests>>

Openers == Unlockers \cup Creators

Vault == [phrase: Creators, aad: Networks]

ASSUME VaultAssumption == None \notin Vault

OpenerPC == {"idle", "decrypting", "checked", "encrypting", "written",
             "opened", "arming", "armFailed"}

SwitcherPC == {"idle", "reading", "reencrypting", "prepared", "writing", "written",
               "arming", "armFailed", "settling", "writeFailed", "aborting"}

RebuilderPC == {"idle", "queued", "saving"}

\* Alarm calls whose outcome only their own caller looks at are by "other".
AlarmCall == [op: {"arm", "clear"}, by: Openers \cup {"switch", "other"}]

TypeOK ==
  /\ RuntimeTypeOK
  /\ vault \in Vault \cup {None}
  /\ network \in Networks
  /\ alarm \in BOOLEAN
  /\ ringing \in BOOLEAN
  /\ alarmQueue \in Seq(AlarmCall)
  /\ opener \in [Openers -> [pc: OpenerPC, network: Networks]]
  /\ switcher \in [pc: SwitcherPC, target: Networks, source: Version, staged: Nat,
                   phrase: Creators \cup {None}]
  /\ switcher.pc \notin {"idle", "reading"} => switcher.phrase \in Creators
  /\ rebuilder \in [pc: RebuilderPC, epoch: Nat]
  /\ told \in SUBSET Nat
  /\ requests \in 0..MaxRequests

IdleOpener == [pc |-> "idle", network |-> Regtest]

IdleSwitcher == [pc |-> "idle", target |-> Regtest,
                 source |-> [epoch |-> 0, network |-> None], staged |-> 0,
                 phrase |-> None]

IdleRebuilder == [pc |-> "idle", epoch |-> 0]

\* A worker starting over whatever an earlier one stored, alarm included.
Init ==
  /\ RuntimeInit
  /\ network \in Networks
  /\ vault \in {None} \cup [phrase: Creators, aad: {network}]
  /\ vault = None => network = Regtest
  /\ alarm \in BOOLEAN
  /\ vault = None => ~alarm
  /\ ringing = FALSE
  /\ alarmQueue = <<>>
  /\ opener = [o \in Openers |-> IdleOpener]
  /\ switcher = IdleSwitcher
  /\ rebuilder = IdleRebuilder
  /\ told = {}
  /\ requests = 0

----------------------------------------------------------------------------
(* Steps the handlers share.                                               *)

Request == requests < MaxRequests /\ requests' = requests + 1

Opener(o, pc) == opener' = [opener EXCEPT ![o].pc = pc]

\* "disconnect" to the connected sites; authority 0 is nothing to report.
TellSites(auth) == told' = told \cup ({auth} \ {0})

Enqueue(op, by) == alarmQueue' = Append(alarmQueue, [op |-> op, by |-> by])

\* lockWallet up to its first await; the rest of it changes no state here.
LockWallet ==
  /\ BeginLock
  /\ Enqueue("clear", "other")
  /\ TellSites(LockedAuthority)

----------------------------------------------------------------------------
(* Creating and importing a wallet.                                        *)

CreateCheck(c) ==
  /\ Request
  /\ opener[c].pc = "idle"
  /\ vault = None
  /\ Opener(c, "checked")
  /\ UNCHANGED <<runtimeVars, storageVars, alarmVars, switcher, rebuilder, siteVars>>

CreateReadNetwork(c) ==
  /\ opener[c].pc = "checked"
  /\ opener' = [opener EXCEPT ![c] = [pc |-> "encrypting", network |-> network]]
  /\ UNCHANGED <<runtimeVars, storageVars, alarmVars, switcher, rebuilder, siteVars,
                 requests>>

CreateStored(c) ==
  /\ opener[c].pc = "encrypting"
  /\ vault' = [phrase |-> c, aad |-> opener[c].network]
  /\ Opener(c, "written")
  /\ UNCHANGED <<runtimeVars, network, alarmVars, switcher, rebuilder, siteVars, requests>>

CreateFails(c) ==
  /\ opener[c].pc = "encrypting"
  /\ Opener(c, "idle")
  /\ UNCHANGED <<runtimeVars, storageVars, alarmVars, switcher, rebuilder, siteVars,
                 requests>>

\* openSession throws under a fence; the stored vault stays.
CreateOpen(c) ==
  /\ opener[c].pc = "written"
  /\ IF Fenced
       THEN Opener(c, "idle") /\ UNCHANGED runtimeVars
       ELSE OpenSession(opener[c].network) /\ Opener(c, "opened")
  /\ UNCHANGED <<storageVars, alarmVars, switcher, rebuilder, siteVars, requests>>

----------------------------------------------------------------------------
(* Unlocking.                                                              *)

UnlockRead(u) ==
  /\ Request
  /\ opener[u].pc = "idle"
  /\ vault # None
  /\ vault.aad = network
  /\ opener' = [opener EXCEPT ![u] = [pc |-> "decrypting", network |-> network]]
  /\ UNCHANGED <<runtimeVars, storageVars, alarmVars, switcher, rebuilder, siteVars>>

\* A wrong password, or the throws of unlock() and openSession().
UnlockRefused(u) ==
  /\ opener[u].pc = "decrypting"
  /\ Opener(u, "idle")
  /\ UNCHANGED <<runtimeVars, storageVars, alarmVars, switcher, rebuilder, siteVars,
                 requests>>

UnlockAlready(u) ==
  /\ opener[u].pc = "decrypting"
  /\ Unlocked
  /\ session.network = opener[u].network
  /\ Opener(u, "opened")
  /\ UNCHANGED <<runtimeVars, storageVars, alarmVars, switcher, rebuilder, siteVars,
                 requests>>

UnlockOpen(u) ==
  /\ opener[u].pc = "decrypting"
  /\ ~Unlocked
  /\ OpenSession(opener[u].network)
  /\ Opener(u, "opened")
  /\ UNCHANGED <<storageVars, alarmVars, switcher, rebuilder, siteVars, requests>>

\* armNewSession, after create, import and unlock alike.
ArmNewSession(o) ==
  /\ opener[o].pc = "opened"
  /\ Enqueue("arm", o)
  /\ Opener(o, "arming")
  /\ UNCHANGED <<runtimeVars, storageVars, alarm, ringing, switcher, rebuilder, siteVars,
                 requests>>

ArmFailedLock(o) ==
  /\ opener[o].pc = "armFailed"
  /\ LockWallet
  /\ Opener(o, "idle")
  /\ UNCHANGED <<storageVars, alarm, ringing, switcher, rebuilder, requests>>

----------------------------------------------------------------------------
(* Locking, and the idle alarm.                                            *)

UserLock ==
  /\ Request
  /\ LockWallet
  /\ UNCHANGED <<storageVars, alarm, ringing, opener, switcher, rebuilder>>

AlarmFires ==
  /\ alarm
  /\ alarm' = FALSE
  /\ ringing' = TRUE
  /\ UNCHANGED <<runtimeVars, storageVars, alarmQueue, opener, switcher, rebuilder,
                 siteVars, requests>>

IdleLock ==
  /\ ringing
  /\ ringing' = FALSE
  /\ LockWallet
  /\ UNCHANGED <<storageVars, alarm, opener, switcher, rebuilder, requests>>

\* getPopupContext: trusted activity extends the deadline.
PopupTouch ==
  /\ Request
  /\ Unlocked
  /\ Enqueue("arm", "other")
  /\ UNCHANGED <<runtimeVars, storageVars, alarm, ringing, opener, switcher, rebuilder,
                 siteVars>>

\* Where a caller goes when its own arm call settles.
ResumeArming(call, openerNext, switcherNext) ==
  /\ opener' = [o \in Openers |->
                 IF call = [op |-> "arm", by |-> o] /\ opener[o].pc = "arming"
                   THEN [opener[o] EXCEPT !.pc = openerNext] ELSE opener[o]]
  /\ switcher' = IF call = [op |-> "arm", by |-> "switch"] /\ switcher.pc = "arming"
                   THEN [switcher EXCEPT !.pc = switcherNext] ELSE switcher

AlarmCallDone ==
  /\ alarmQueue # <<>>
  /\ alarmQueue' = Tail(alarmQueue)
  /\ alarm' = (Head(alarmQueue).op = "arm")
  /\ ResumeArming(Head(alarmQueue), "idle", "settling")
  /\ UNCHANGED <<runtimeVars, storageVars, ringing, rebuilder, siteVars, requests>>

AlarmCallFails ==
  /\ alarmQueue # <<>>
  /\ alarmQueue' = Tail(alarmQueue)
  /\ ResumeArming(Head(alarmQueue), "armFailed", "armFailed")
  /\ UNCHANGED <<runtimeVars, storageVars, alarm, ringing, rebuilder, siteVars, requests>>

----------------------------------------------------------------------------
(* Switching the network.                                                  *)

SwitchStart(target) ==
  /\ Request
  /\ switcher.pc = "idle"
  /\ switcher' = [IdleSwitcher EXCEPT !.pc = "reading", !.target = target,
                                      !.source = RuntimeVersion]
  /\ UNCHANGED <<runtimeVars, storageVars, alarmVars, opener, rebuilder, siteVars>>

SwitchAuthenticates ==
  /\ vault # None
  /\ vault.aad = network
  /\ switcher.source.network \in {None, network}
  /\ switcher.target # network

SwitchRead ==
  /\ switcher.pc = "reading"
  /\ SwitchAuthenticates
  /\ switcher' = [switcher EXCEPT !.pc = "reencrypting", !.phrase = vault.phrase]
  /\ UNCHANGED <<runtimeVars, storageVars, alarmVars, opener, rebuilder, siteVars,
                 requests>>

\* Everything that ends a switch before its fence: nothing has changed yet.
SwitchRefused ==
  /\ \/ switcher.pc = "reading" /\ ~SwitchAuthenticates
     \/ switcher.pc = "reencrypting"
     \/ switcher.pc = "prepared" /\ ~MayBegin(switcher.source)
  /\ switcher' = IdleSwitcher
  /\ UNCHANGED <<runtimeVars, storageVars, alarmVars, opener, rebuilder, siteVars,
                 requests>>

SwitchPrepare ==
  /\ switcher.pc = "reencrypting"
  /\ MayPrepare(switcher.source)
  /\ switcher' = [switcher EXCEPT !.pc = "prepared",
                                  !.staged = StagedAuthority(switcher.source)]
  /\ UNCHANGED <<runtimeVars, storageVars, alarmVars, opener, rebuilder, siteVars,
                 requests>>

SwitchBegin ==
  /\ switcher.pc = "prepared"
  /\ BeginTransition("switch", switcher.source, switcher.staged, switcher.target)
  /\ switcher' = [switcher EXCEPT !.pc = "writing"]
  /\ Enqueue("clear", "switch")
  /\ UNCHANGED <<storageVars, alarm, ringing, opener, rebuilder, siteVars, requests>>

\* Mutant of SwitchStored: two writes instead of one, and the first is the network.
SwitchStoredApart ==
  /\ switcher.pc = "writing"
  /\ IF network # switcher.target
       THEN network' = switcher.target /\ UNCHANGED <<vault, switcher>>
       ELSE /\ vault' = [phrase |-> switcher.phrase, aad |-> switcher.target]
            /\ switcher' = [switcher EXCEPT !.pc = "written"]
            /\ UNCHANGED network
  /\ UNCHANGED <<runtimeVars, alarmVars, opener, rebuilder, siteVars, requests>>

\* One storage write binds the vault to the target and names the target current.
SwitchStored ==
  /\ switcher.pc = "writing"
  /\ vault' = [phrase |-> switcher.phrase, aad |-> switcher.target]
  /\ network' = switcher.target
  /\ switcher' = [switcher EXCEPT !.pc = "written"]
  /\ UNCHANGED <<runtimeVars, alarmVars, opener, rebuilder, siteVars, requests>>

SwitchWriteFails ==
  /\ switcher.pc = "writing"
  /\ switcher' = [switcher EXCEPT !.pc = "writeFailed"]
  /\ UNCHANGED <<runtimeVars, storageVars, alarmVars, opener, rebuilder, siteVars,
                 requests>>

InstallArmed ==
  /\ Install("switch")
  /\ IF transition.staged = 0
       THEN switcher' = [switcher EXCEPT !.pc = "settling"] /\ UNCHANGED alarmQueue
       ELSE switcher' = [switcher EXCEPT !.pc = "arming"] /\ Enqueue("arm", "switch")
  /\ UNCHANGED siteVars

\* install() threw: the fence was lost to somebody else.  Abort, then lock.
InstallThrew ==
  /\ AbortThenLock("switch")
  /\ switcher' = [switcher EXCEPT !.pc = "settling"]
  /\ Enqueue("clear", "other")
  /\ TellSites(LockedAuthority)

SwitchInstall ==
  /\ switcher.pc = "written"
  /\ IF MayInstall("switch") THEN InstallArmed ELSE InstallThrew
  /\ UNCHANGED <<storageVars, alarm, ringing, opener, rebuilder, requests>>

SwitchArmFailedLock ==
  /\ switcher.pc = "armFailed"
  /\ LockWallet
  /\ switcher' = [switcher EXCEPT !.pc = "settling"]
  /\ UNCHANGED <<storageVars, alarm, ringing, opener, rebuilder, requests>>

\* The switch's own alarm clear is part of the cleanup it awaits.
CleanupSettled ==
  \A i \in 1..Len(alarmQueue) : alarmQueue[i] # [op |-> "clear", by |-> "switch"]

SwitchSettles ==
  /\ switcher.pc = "settling"
  /\ CleanupSettled
  /\ switcher' = IdleSwitcher
  /\ UNCHANGED <<runtimeVars, storageVars, alarmVars, opener, rebuilder, siteVars,
                 requests>>

\* Mutant of SwitchTellsLoss: after a failed write the fence is forgotten.
SwitchTellsLossOnly ==
  /\ switcher.pc = "writeFailed"
  /\ CleanupSettled
  /\ switcher' = IdleSwitcher
  /\ TellSites(FencedAuthority)
  /\ UNCHANGED <<runtimeVars, storageVars, alarmVars, opener, rebuilder, requests>>

SwitchTellsLoss ==
  /\ switcher.pc = "writeFailed"
  /\ CleanupSettled
  /\ switcher' = [switcher EXCEPT !.pc = "aborting"]
  /\ TellSites(FencedAuthority)
  /\ UNCHANGED <<runtimeVars, storageVars, alarmVars, opener, rebuilder, requests>>

SwitchAborts ==
  /\ switcher.pc = "aborting"
  /\ Abort("switch")
  /\ switcher' = IdleSwitcher
  /\ UNCHANGED <<storageVars, alarmVars, opener, rebuilder, siteVars, requests>>

----------------------------------------------------------------------------
(* Rebuilding the wallet for a delegation change.                          *)

\* The request keeps the context it came with while it waits its turn.
RebuildAsk ==
  /\ Request
  /\ rebuilder.pc = "idle"
  /\ Unlocked
  /\ rebuilder' = [pc |-> "queued", epoch |-> session.epoch]
  /\ UNCHANGED <<runtimeVars, storageVars, alarmVars, opener, switcher, siteVars>>

RebuildRefused ==
  /\ rebuilder.pc = "queued"
  /\ rebuilder' = IdleRebuilder
  /\ UNCHANGED <<runtimeVars, storageVars, alarmVars, opener, switcher, siteVars,
                 requests>>

RebuildBegin ==
  /\ rebuilder.pc = "queued"
  /\ Unlocked
  /\ session.epoch = rebuilder.epoch
  /\ session.network = Regtest
  /\ ~Fenced
  /\ BeginTransition("rebuild", RuntimeVersion, session.auth, session.network)
  /\ rebuilder' = [rebuilder EXCEPT !.pc = "saving"]
  /\ UNCHANGED <<storageVars, alarmVars, opener, switcher, siteVars, requests>>

\* The delegation record is stored and the same identity comes back.
RebuildInstall ==
  /\ rebuilder.pc = "saving"
  /\ Fenced
  /\ transition.staged # 0
  /\ Install("rebuild")
  /\ rebuilder' = IdleRebuilder
  /\ UNCHANGED <<storageVars, alarmVars, opener, switcher, siteVars, requests>>

\* A failed write, or install() refused: lock while the fence can still report it.
RebuildFails ==
  /\ rebuilder.pc = "saving"
  /\ LockThenAbort("rebuild")
  /\ Enqueue("clear", "other")
  /\ TellSites(LockedAuthority)
  /\ rebuilder' = IdleRebuilder
  /\ UNCHANGED <<storageVars, alarm, ringing, opener, switcher, requests>>

\* A lock came first: install() drops the fence and returns false, then lockWallet
\* finds nothing left to lock.
RebuildCancelled ==
  /\ rebuilder.pc = "saving"
  /\ InstallNothingThenLock("rebuild")
  /\ Enqueue("clear", "other")
  /\ rebuilder' = IdleRebuilder
  /\ UNCHANGED <<storageVars, alarm, ringing, opener, switcher, siteVars, requests>>

----------------------------------------------------------------------------
(* The service worker is killed; storage and the browser's alarm survive.  *)

WorkerDies ==
  /\ Request
  /\ LoseRuntime
  /\ alarmQueue' = <<>>
  /\ ringing' \in {FALSE, ringing}
  /\ opener' = [o \in Openers |-> IdleOpener]
  /\ switcher' = IdleSwitcher
  /\ rebuilder' = IdleRebuilder
  /\ told' = {}
  /\ UNCHANGED <<storageVars, alarm>>

CreateSteps(c) ==
  CreateReadNetwork(c) \/ CreateStored(c) \/ CreateFails(c) \/ CreateOpen(c)

UnlockSteps(u) == UnlockRefused(u) \/ UnlockAlready(u) \/ UnlockOpen(u)

ArmSteps(o) == ArmNewSession(o) \/ ArmFailedLock(o)

AlarmSteps == AlarmFires \/ IdleLock \/ AlarmCallDone \/ AlarmCallFails

SwitchSteps ==
  \/ SwitchRead \/ SwitchRefused \/ SwitchPrepare \/ SwitchBegin
  \/ SwitchStored \/ SwitchWriteFails \/ SwitchInstall \/ SwitchArmFailedLock
  \/ SwitchSettles \/ SwitchTellsLoss \/ SwitchAborts

RebuildSteps ==
  RebuildRefused \/ RebuildBegin \/ RebuildInstall \/ RebuildFails \/ RebuildCancelled

\* What goes on without anybody asking for anything new.
Progress ==
  \/ \E c \in Creators : CreateSteps(c)
  \/ \E u \in Unlockers : UnlockSteps(u)
  \/ \E o \in Openers : ArmSteps(o)
  \/ AlarmSteps
  \/ SwitchSteps
  \/ RebuildSteps

Ask ==
  \/ \E c \in Creators : CreateCheck(c)
  \/ \E u \in Unlockers : UnlockRead(u)
  \/ UserLock
  \/ PopupTouch
  \/ \E target \in Networks : SwitchStart(target)
  \/ RebuildAsk

Next == Progress \/ Ask \/ WorkerDies

Spec == Init /\ [][Next]_vars

\* Storage, alarm and disposal promises settle, and an armed alarm fires in the end.
FairSpec == Spec /\ WF_vars(Progress)

----------------------------------------------------------------------------
(* Properties.                                                             *)

(* The stored vault can always be decrypted on the stored network: no      *)
(* switch, failure or crash, at any point, separates the pair that         *)
(* setVaultAndNetwork writes (storage.ts:55-67, keystore.ts:63-74).        *)
VaultReadable == vault # None => vault.aad = network

(* Whoever raised the fence still owns it until it installs or aborts, so  *)
(* install() never throws and the handlers of a thrown install             *)
(* (network-switch.ts:70-77) never run.                                    *)
FenceOwned ==
  /\ switcher.pc \in {"writing", "written", "writeFailed", "aborting"}
       => MayInstall("switch")
  /\ rebuilder.pc = "saving" => MayInstall("rebuild")

(* Every authority a lock or a lost write has ended was reported to the    *)
(* connected sites (session-lock.ts:20-22, network-switch.ts:57,           *)
(* delegation-session.ts:65-68).                                           *)
DisconnectTold == revoked \subseteq told

(* The live session is on the stored network.  unlock() treats anything    *)
(* else as an error (keystore.ts:148-151).                                 *)
SessionOnStoredNetwork == Unlocked => session.network = network

(* createWallet and importWallet refuse when a vault already exists        *)
(* (keystore.ts:120, 130): a stored mnemonic is never replaced.            *)
VaultKept ==
  [][vault # None => vault' # None /\ vault'.phrase = vault.phrase]_vars

(* The session code keeps the promise SessionAuthority states: a lock,     *)
(* whatever it interrupts, is final, and the network never changes under a *)
(* live session.                                                           *)
Authority == INSTANCE SessionAuthority WITH
  mode <- IF Unlocked THEN "unlocked"
          ELSE IF Fenced /\ transition.staged # 0 THEN "fenced" ELSE "locked",
  holder <- IF Unlocked THEN session.auth
            ELSE IF Fenced THEN transition.staged ELSE 0,
  ended <- revoked,
  stored <- network

ImplementsAuthority == Authority!Spec

(* When the user asks for nothing more, whatever fails on the way, every   *)
(* network transition ends, since unlock is refused meanwhile, and the     *)
(* wallet ends up locked and stays locked (wallet-runtime.ts:131,          *)
(* background.ts:99, 420-427).                                             *)
LocksInTheEnd == <>[](~Unlocked /\ ~Fenced)
============================================================================
