------------------------ MODULE WalletSessionProofs ------------------------
(***************************************************************************)
(* Proofs about WalletSession, for any networks, callers and number of     *)
(* requests.  TLC checks the same formulas on the instance of              *)
(* MCWalletSession.                                                        *)
(***************************************************************************)
EXTENDS WalletSession, TLAPS

FencedPC == {"writing", "written", "writeFailed", "aborting"}

----------------------------------------------------------------------------
(* Type correctness.  The lemmas say what the runtime's operations and the *)
(* alarm queue keep; the theorem has one step per group of handlers.       *)

(* The authority a lock or an abort ends is a number, so the history stays *)
(* a set of numbers.                                                       *)
LEMMA AuthorityTypes ==
  ASSUME RuntimeTypeOK
  PROVE  /\ LiveAuthority \in Nat
         /\ FencedAuthority \in Nat
         /\ LockedAuthority \in Nat
         /\ RuntimeVersion \in Version
  BY NoneAssumption DEF RuntimeTypeOK, LiveAuthority, FencedAuthority, LockedAuthority,
     RuntimeVersion, Version, Unlocked, Fenced, Session, Transition

(* Every operation of the runtime keeps the runtime well typed.            *)
LEMMA RuntimeTypes ==
  ASSUME RuntimeTypeOK
  PROVE  /\ \A n \in Networks : OpenSession(n) => RuntimeTypeOK'
         /\ \A o \in Owners, v \in Version, a \in Nat, n \in Networks :
              BeginTransition(o, v, a, n) => RuntimeTypeOK'
         /\ \A o \in Owners :
              \/ Install(o) \/ Abort(o) \/ LockThenAbort(o) \/ AbortThenLock(o)
              \/ InstallNothingThenLock(o)
              => RuntimeTypeOK'
         /\ BeginLock => RuntimeTypeOK'
         /\ LoseRuntime => RuntimeTypeOK'
         /\ UNCHANGED runtimeVars => RuntimeTypeOK'
  <1> /\ LiveAuthority \in Nat
      /\ FencedAuthority \in Nat
    BY AuthorityTypes
  <1>1. \A n \in Networks : OpenSession(n) => RuntimeTypeOK'
    BY DEF RuntimeTypeOK, OpenSession, CreateSession, Session
  <1>2. \A o \in Owners, v \in Version, a \in Nat, n \in Networks :
          BeginTransition(o, v, a, n) => RuntimeTypeOK'
    BY DEF RuntimeTypeOK, BeginTransition, Transition
  <1>3. \A o \in Owners : Install(o) => RuntimeTypeOK'
    BY NoneAssumption DEF RuntimeTypeOK, Install, MayInstall, Fenced, CreateSession, Session, Transition
  <1>4. \A o \in Owners : Abort(o) => RuntimeTypeOK'
    BY DEF RuntimeTypeOK, Abort, EndAuthorities
  <1>5. Fenced => [transition EXCEPT !.staged = 0, !.cancelled = TRUE] \in Transition
    BY DEF RuntimeTypeOK, Fenced, Transition
  <1>6. \A o \in Owners : LockThenAbort(o) => RuntimeTypeOK'
    BY <1>5 DEF RuntimeTypeOK, LockThenAbort, CancelOthers, EndAuthorities
  <1>7. \A o \in Owners : AbortThenLock(o) => RuntimeTypeOK'
    BY <1>5 DEF RuntimeTypeOK, AbortThenLock, CancelOthers, EndAuthorities
  <1>8. BeginLock => RuntimeTypeOK'
    BY <1>5 DEF RuntimeTypeOK, BeginLock, EndAuthorities
  <1>9. LoseRuntime => RuntimeTypeOK'
    BY DEF RuntimeTypeOK, LoseRuntime
  <1>10. UNCHANGED runtimeVars => RuntimeTypeOK'
    BY DEF RuntimeTypeOK, runtimeVars
  <1>11. \A o \in Owners : InstallNothingThenLock(o) => RuntimeTypeOK'
    BY DEF RuntimeTypeOK, InstallNothingThenLock, EndAuthorities
  <1> QED BY <1>1, <1>2, <1>3, <1>4, <1>6, <1>7, <1>8, <1>9, <1>10, <1>11

(* What the handlers share keeps its own part of the state well typed.     *)
LEMMA SharedTypes ==
  ASSUME TypeOK
  PROVE  /\ \A op \in {"arm", "clear"}, by \in Openers \cup {"switch", "other"} :
              Enqueue(op, by) => alarmQueue' \in Seq(AlarmCall)
         /\ alarmQueue # <<>> => /\ Tail(alarmQueue) \in Seq(AlarmCall)
                                 /\ Head(alarmQueue) \in AlarmCall
         /\ \A auth \in Nat : TellSites(auth) => /\ told' \in SUBSET Nat
         /\ \A o \in Openers, pc \in OpenerPC :
              Opener(o, pc) => opener' \in [Openers -> [pc: OpenerPC, network: Networks]]
         /\ Request => requests' \in 0..MaxRequests
         /\ LockWallet => /\ RuntimeTypeOK'
                          /\ alarmQueue' \in Seq(AlarmCall)
                          /\ told' \in SUBSET Nat
  <1>1. \A op \in {"arm", "clear"}, by \in Openers \cup {"switch", "other"} :
          Enqueue(op, by) => alarmQueue' \in Seq(AlarmCall)
    BY DEF TypeOK, Enqueue, AlarmCall
  <1>2. alarmQueue # <<>> => /\ Tail(alarmQueue) \in Seq(AlarmCall)
                             /\ Head(alarmQueue) \in AlarmCall
    BY DEF TypeOK
  <1>3. \A auth \in Nat : TellSites(auth) => /\ told' \in SUBSET Nat
    BY DEF TypeOK, TellSites
  <1>4. \A o \in Openers, pc \in OpenerPC :
          Opener(o, pc) => opener' \in [Openers -> [pc: OpenerPC, network: Networks]]
    BY DEF TypeOK, Opener
  <1>5. Request => requests' \in 0..MaxRequests
    BY CallerAssumption DEF TypeOK, Request
  <1>6. LockWallet => /\ RuntimeTypeOK'
                      /\ alarmQueue' \in Seq(AlarmCall)
                      /\ told' \in SUBSET Nat
    BY <1>1, <1>3, AuthorityTypes, RuntimeTypes DEF TypeOK, LockWallet
  <1> QED BY <1>1, <1>2, <1>3, <1>4, <1>5, <1>6

(* Type correctness of every reachable state.                              *)
THEOREM TypeCorrect == Spec => []TypeOK
  <1>1. Init => TypeOK
    <2> SUFFICES ASSUME Init PROVE TypeOK
      OBVIOUS
    <2>1. RuntimeTypeOK
      BY DEF Init, RuntimeInit, RuntimeTypeOK
    <2>2. vault \in Vault \cup {None} /\ network \in Networks
      BY DEF Init, Vault
    <2>3. /\ opener \in [Openers -> [pc: OpenerPC, network: Networks]]
          /\ rebuilder \in [pc: RebuilderPC, epoch: Nat]
      BY CallerAssumption
         DEF Init, IdleOpener, IdleRebuilder, OpenerPC, RebuilderPC
    <2>4. /\ switcher \in [pc: SwitcherPC, target: Networks, source: Version,
                           staged: Nat, phrase: Creators \cup {None}]
          /\ switcher.pc = "idle"
      BY CallerAssumption DEF Init, IdleSwitcher, SwitcherPC, Version
    <2>5. alarmQueue \in Seq(AlarmCall)
      BY DEF Init
    <2>6. requests \in 0..MaxRequests
      BY CallerAssumption DEF Init
    <2>7. alarm \in BOOLEAN /\ ringing \in BOOLEAN
      BY Zenon DEF Init
    <2>8. told \in SUBSET Nat
      BY DEF Init
    <2> QED BY <2>1, <2>2, <2>3, <2>4, <2>5, <2>6, <2>7, <2>8 DEF TypeOK
  <1>2. TypeOK /\ [Next]_vars => TypeOK'
    <2> SUFFICES ASSUME TypeOK, [Next]_vars
                 PROVE  TypeOK'
      OBVIOUS
    <2> RuntimeTypeOK
      BY DEF TypeOK
    <2> USE RuntimeTypes, SharedTypes
    <2> USE DEF Openers, OpenerPC
    <2>1. ASSUME NEW c \in Creators, CreateCheck(c) \/ CreateSteps(c)
          PROVE  TypeOK'
      <3>1. CASE CreateCheck(c)
        BY <3>1 DEF TypeOK, CreateCheck, storageVars, alarmVars, siteVars
      <3>2. CASE CreateReadNetwork(c)
        BY <3>2 DEF TypeOK, CreateReadNetwork, storageVars, alarmVars, siteVars
      <3>3. CASE CreateStored(c)
        <4>1. vault' \in Vault
          BY <3>3 DEF TypeOK, CreateStored, Vault
        <4> QED BY <3>3, <4>1 DEF TypeOK, CreateStored, alarmVars, siteVars
      <3>4. CASE CreateFails(c)
        BY <3>4 DEF TypeOK, CreateFails, storageVars, alarmVars, siteVars
      <3>5. CASE CreateOpen(c)
        <4>1. opener[c].network \in Networks
          BY DEF TypeOK
        <4> QED BY <3>5, <4>1 DEF TypeOK, CreateOpen, storageVars, alarmVars, siteVars
      <3> QED BY <2>1, <3>1, <3>2, <3>3, <3>4, <3>5 DEF CreateSteps
    <2>2. ASSUME NEW u \in Unlockers, UnlockRead(u) \/ UnlockSteps(u)
          PROVE  TypeOK'
      <3>1. CASE UnlockRead(u)
        BY <3>1 DEF TypeOK, UnlockRead, storageVars, alarmVars, siteVars
      <3>2. CASE UnlockRefused(u)
        BY <3>2 DEF TypeOK, UnlockRefused, storageVars, alarmVars, siteVars
      <3>3. CASE UnlockAlready(u)
        BY <3>3 DEF TypeOK, UnlockAlready, storageVars, alarmVars, siteVars
      <3>4. CASE UnlockOpen(u)
        <4>1. opener[u].network \in Networks
          BY DEF TypeOK
        <4> QED BY <3>4, <4>1 DEF TypeOK, UnlockOpen, storageVars, alarmVars, siteVars
      <3> QED BY <2>2, <3>1, <3>2, <3>3, <3>4 DEF UnlockSteps
    <2>3. ASSUME NEW o \in Openers, ArmSteps(o)
          PROVE  TypeOK'
      <3>1. CASE ArmNewSession(o)
        BY <3>1 DEF TypeOK, ArmNewSession, storageVars, siteVars
      <3>2. CASE ArmFailedLock(o)
        BY <3>2 DEF TypeOK, ArmFailedLock, storageVars
      <3> QED BY <2>3, <3>1, <3>2 DEF ArmSteps
    <2>4. CASE AlarmSteps
      <3>1. CASE AlarmFires
        BY <3>1 DEF TypeOK, AlarmFires, storageVars, siteVars
      <3>2. CASE IdleLock
        BY <3>2 DEF TypeOK, IdleLock, storageVars
      <3>3. ASSUME NEW call, NEW pc \in {"idle", "armFailed"},
                   NEW spc \in {"settling", "armFailed"}, ResumeArming(call, pc, spc)
            PROVE  /\ opener' \in [Openers -> [pc: OpenerPC, network: Networks]]
                   /\ switcher' \in [pc: SwitcherPC, target: Networks, source: Version,
                                     staged: Nat, phrase: Creators \cup {None}]
                   /\ switcher'.pc \notin {"idle", "reading"} => switcher'.phrase \in Creators
        <4>1. opener' \in [Openers -> [pc: OpenerPC, network: Networks]]
          BY <3>3 DEF TypeOK, ResumeArming
        <4>2. spc \in SwitcherPC
          BY DEF SwitcherPC
        <4>3. CASE switcher' = switcher
          BY <4>1, <4>3 DEF TypeOK
        <4>4. CASE switcher' = [switcher EXCEPT !.pc = spc] /\ switcher.pc = "arming"
          BY <4>1, <4>2, <4>4 DEF TypeOK
        <4> QED BY <3>3, <4>3, <4>4 DEF ResumeArming
      <3>4. CASE AlarmCallDone
        BY <3>3, <3>4 DEF TypeOK, AlarmCallDone, storageVars, siteVars
      <3>5. CASE AlarmCallFails
        BY <3>3, <3>5 DEF TypeOK, AlarmCallFails, storageVars, siteVars
      <3> QED BY <2>4, <3>1, <3>2, <3>4, <3>5 DEF AlarmSteps
    <2>5. CASE SwitchSteps \/ \E target \in Networks : SwitchStart(target)
      <3> DEFINE Switcher == [pc: SwitcherPC, target: Networks, source: Version,
                              staged: Nat, phrase: Creators \cup {None}]
                 SwitcherTyped ==
                   /\ switcher \in Switcher
                   /\ switcher.pc \notin {"idle", "reading"} => switcher.phrase \in Creators
      <3>a. switcher \in Switcher /\ IdleSwitcher \in Switcher /\ IdleSwitcher.pc = "idle"
        BY CallerAssumption DEF TypeOK, IdleSwitcher, SwitcherPC, Version
      <3>b. ASSUME NEW pc \in SwitcherPC, switcher' = [switcher EXCEPT !.pc = pc],
                   switcher.pc \notin {"idle", "reading"}
            PROVE  SwitcherTyped'
        BY <3>a, <3>b DEF TypeOK
      <3>c. ASSUME switcher' = IdleSwitcher
            PROVE  SwitcherTyped'
        BY <3>a, <3>c
      <3>1. ASSUME NEW target \in Networks, SwitchStart(target)
            PROVE  TypeOK'
        <4>1. SwitcherTyped'
          BY <3>1, <3>a, AuthorityTypes DEF SwitchStart, SwitcherPC
        <4> QED BY <3>1, <4>1 DEF TypeOK, SwitchStart, storageVars, alarmVars, siteVars
      <3>2. CASE SwitchRead
        <4>1. SwitcherTyped'
          BY <3>2, <3>a DEF SwitchRead, SwitchAuthenticates, SwitcherPC, TypeOK, Vault
        <4> QED BY <3>2, <4>1 DEF TypeOK, SwitchRead, storageVars, alarmVars, siteVars
      <3>3. CASE SwitchRefused
        BY <3>3, <3>c DEF TypeOK, SwitchRefused, storageVars, alarmVars, siteVars
      <3>4. CASE SwitchPrepare
        <4>1. SwitcherTyped'
          BY <3>4, <3>a, AuthorityTypes DEF SwitchPrepare, StagedAuthority, SwitcherPC, TypeOK
        <4> QED BY <3>4, <4>1 DEF TypeOK, SwitchPrepare, storageVars, alarmVars, siteVars
      <3>5. CASE SwitchBegin
        <4>1. SwitcherTyped'
          BY <3>5, <3>b DEF SwitchBegin, SwitcherPC
        <4>2. RuntimeTypeOK'
          BY <3>5, <3>a DEF SwitchBegin, Owners
        <4>3. alarmQueue' \in Seq(AlarmCall)
          BY <3>5 DEF SwitchBegin
        <4> QED BY <3>5, <4>1, <4>2, <4>3 DEF TypeOK, SwitchBegin, storageVars, siteVars
      <3>6. CASE SwitchStored
        <4>1. SwitcherTyped'
          BY <3>6, <3>b DEF SwitchStored, SwitcherPC
        <4>2. vault' \in Vault /\ network' \in Networks
          BY <3>6, <3>a DEF TypeOK, SwitchStored, Vault
        <4> QED BY <3>6, <4>1, <4>2 DEF TypeOK, SwitchStored, alarmVars, siteVars
      <3>7. CASE SwitchWriteFails
        <4>1. SwitcherTyped'
          BY <3>7, <3>b DEF SwitchWriteFails, SwitcherPC
        <4> QED BY <3>7, <4>1 DEF TypeOK, SwitchWriteFails, storageVars, alarmVars, siteVars
      <3>8. CASE SwitchInstall
        <4>1. CASE InstallArmed
          <5>1. RuntimeTypeOK'
            BY <4>1 DEF InstallArmed, Owners
          <5>2. SwitcherTyped' /\ alarmQueue' \in Seq(AlarmCall)
            BY <3>8, <4>1, <3>b DEF SwitchInstall, InstallArmed, SwitcherPC, TypeOK
          <5> QED BY <3>8, <4>1, <5>1, <5>2
                  DEF TypeOK, SwitchInstall, InstallArmed, storageVars, siteVars
        <4>2. CASE InstallThrew
          <5>1. RuntimeTypeOK'
            BY <4>2 DEF InstallThrew, Owners
          <5>2. SwitcherTyped' /\ alarmQueue' \in Seq(AlarmCall)
            BY <3>8, <4>2, <3>b DEF SwitchInstall, InstallThrew, SwitcherPC
          <5>3. told' \in SUBSET Nat
            BY <4>2, AuthorityTypes DEF InstallThrew
          <5> QED BY <3>8, <5>1, <5>2, <5>3 DEF TypeOK, SwitchInstall, storageVars
        <4> QED BY <3>8, <4>1, <4>2 DEF SwitchInstall
      <3>9. CASE SwitchArmFailedLock
        <4>1. SwitcherTyped'
          BY <3>9, <3>b DEF SwitchArmFailedLock, SwitcherPC
        <4> QED BY <3>9, <4>1 DEF TypeOK, SwitchArmFailedLock, storageVars
      <3>10. CASE SwitchSettles
        BY <3>10, <3>c DEF TypeOK, SwitchSettles, storageVars, alarmVars, siteVars
      <3>11. CASE SwitchTellsLoss
        <4>1. SwitcherTyped'
          BY <3>11, <3>b DEF SwitchTellsLoss, SwitcherPC
        <4>2. told' \in SUBSET Nat
          BY <3>11, AuthorityTypes DEF SwitchTellsLoss
        <4> QED BY <3>11, <4>1, <4>2 DEF TypeOK, SwitchTellsLoss, storageVars, alarmVars
      <3>12. CASE SwitchAborts
        <4>1. RuntimeTypeOK'
          BY <3>12 DEF SwitchAborts, Owners
        <4> QED BY <3>12, <3>c, <4>1 DEF TypeOK, SwitchAborts, storageVars, alarmVars, siteVars
      <3> QED BY <2>5, <3>1, <3>2, <3>3, <3>4, <3>5, <3>6, <3>7, <3>8, <3>9, <3>10, <3>11,
                 <3>12 DEF SwitchSteps
    <2>6. CASE RebuildSteps \/ RebuildAsk
      <3>a. \A pc \in RebuilderPC : [rebuilder EXCEPT !.pc = pc] \in [pc: RebuilderPC, epoch: Nat]
        BY DEF TypeOK
      <3>b. IdleRebuilder \in [pc: RebuilderPC, epoch: Nat]
        BY DEF IdleRebuilder, RebuilderPC
      <3>c. Unlocked => session \in Session
        BY DEF RuntimeTypeOK, Unlocked
      <3>1. CASE RebuildAsk
        <4>1. rebuilder' \in [pc: RebuilderPC, epoch: Nat]
          BY <3>1, <3>c DEF RebuildAsk, RebuilderPC, Session
        <4> QED BY <3>1, <4>1 DEF TypeOK, RebuildAsk, storageVars, alarmVars, siteVars
      <3>2. CASE RebuildRefused
        BY <3>2, <3>b DEF TypeOK, RebuildRefused, storageVars, alarmVars, siteVars
      <3>3. CASE RebuildBegin
        <4>1. RuntimeTypeOK'
          BY <3>3, <3>c, AuthorityTypes DEF RebuildBegin, Owners, Session
        <4>2. rebuilder' \in [pc: RebuilderPC, epoch: Nat]
          BY <3>3, <3>a DEF RebuildBegin, RebuilderPC
        <4> QED BY <3>3, <4>1, <4>2 DEF TypeOK, RebuildBegin, storageVars, alarmVars, siteVars
      <3>4. CASE RebuildInstall
        <4>1. RuntimeTypeOK'
          BY <3>4 DEF RebuildInstall, Owners
        <4> QED BY <3>4, <4>1, <3>b DEF TypeOK, RebuildInstall, storageVars, alarmVars, siteVars
      <3>5. CASE RebuildFails
        <4>1. RuntimeTypeOK' /\ alarmQueue' \in Seq(AlarmCall)
          BY <3>5 DEF RebuildFails, Owners
        <4>2. told' \in SUBSET Nat
          BY <3>5, AuthorityTypes DEF RebuildFails
        <4> QED BY <3>5, <4>1, <4>2, <3>b DEF TypeOK, RebuildFails, storageVars
      <3>6. CASE RebuildCancelled
        <4>1. RuntimeTypeOK'
          BY <3>6 DEF RebuildCancelled, Owners
        <4>2. alarmQueue' \in Seq(AlarmCall)
          BY <3>6 DEF RebuildCancelled
        <4> QED BY <3>6, <4>1, <4>2, <3>b DEF TypeOK, RebuildCancelled, storageVars, siteVars
      <3> QED BY <2>6, <3>1, <3>2, <3>3, <3>4, <3>5, <3>6 DEF RebuildSteps
    <2>7. CASE UserLock
      BY <2>7 DEF TypeOK, UserLock, storageVars
    <2>8. CASE PopupTouch
      BY <2>8 DEF TypeOK, PopupTouch, storageVars, siteVars
    <2>9. CASE WorkerDies
      <3>1. /\ alarmQueue' \in Seq(AlarmCall)
            /\ opener' \in [Openers -> [pc: OpenerPC, network: Networks]]
            /\ rebuilder' \in [pc: RebuilderPC, epoch: Nat]
        BY <2>9, CallerAssumption DEF WorkerDies, IdleOpener, IdleRebuilder, RebuilderPC, AlarmCall
      <3>2. /\ switcher' \in [pc: SwitcherPC, target: Networks, source: Version,
                               staged: Nat, phrase: Creators \cup {None}]
            /\ switcher'.pc = "idle"
        BY <2>9, CallerAssumption DEF WorkerDies, IdleSwitcher, SwitcherPC, Version
      <3> QED BY <2>9, <3>1, <3>2 DEF TypeOK, WorkerDies, storageVars
    <2>10. CASE UNCHANGED vars
      <3>1. UNCHANGED <<runtimeVars, storageVars, alarmVars, siteVars>>
        BY <2>10 DEF vars
      <3>2. UNCHANGED runtimeVars => RuntimeTypeOK'
        OBVIOUS
      <3> QED BY <2>10, <3>1, <3>2 DEF TypeOK, vars, storageVars, alarmVars, siteVars
    <2> QED BY <2>1, <2>2, <2>3, <2>4, <2>5, <2>6, <2>7, <2>8, <2>9, <2>10
            DEF Next, Progress, Ask
  <1> QED BY <1>1, <1>2, PTL DEF Spec
----------------------------------------------------------------------------
(* The fence.  FenceHeld is not inductive: a second transition could begin *)
(* over the first.  What rules it out is that a prepared switch is tied to *)
(* a version of the runtime that no fence has had since.                   *)

FenceInv ==
  /\ FenceHeld
  /\ Fenced => \/ /\ transition.owner = "switch"
                  /\ switcher.pc \in FencedPC
                  /\ rebuilder.pc # "saving"
               \/ /\ transition.owner = "rebuild"
                  /\ switcher.pc \notin FencedPC
                  /\ rebuilder.pc = "saving"
  /\ switcher.pc \in FencedPC \/ rebuilder.pc = "saving" => Fenced
  /\ switcher.pc = "prepared" => /\ switcher.source.epoch <= epoch
                                 /\ switcher.source.epoch = epoch => ~Fenced

(* Ended authorities are behind the epoch, so the next session gets a      *)
(* fresh one; a fence holds back what its session had, unless a lock has   *)
(* already ended it.                                                       *)
AuthorityInv ==
  /\ RevokedStaysRevoked
  /\ 0 \notin revoked
  /\ \A a \in revoked : a <= epoch
  /\ Unlocked => session.auth # 0 /\ session.auth <= epoch
  /\ Fenced => /\ transition.had <= epoch
               /\ transition.staged = IF transition.cancelled THEN 0 ELSE transition.had
               /\ transition.cancelled => transition.had \in revoked \cup {0}
  /\ switcher.pc = "prepared" /\ MayBegin(switcher.source)
       => switcher.staged = LiveAuthority

(* The handlers that leave the runtime, the switch and the rebuild alone.  *)
QuietStep ==
  \/ \E c \in Creators : CreateCheck(c) \/ CreateReadNetwork(c) \/ CreateStored(c) \/ CreateFails(c)
  \/ \E u \in Unlockers : UnlockRead(u) \/ UnlockRefused(u) \/ UnlockAlready(u)
  \/ \E o \in Openers : ArmNewSession(o)
  \/ AlarmFires
  \/ PopupTouch
  \/ UNCHANGED vars

\* Those that lock and do nothing else to them.
LockStep ==
  /\ LockWallet
  /\ UNCHANGED <<network, rebuilder>>
  /\ switcher' = switcher \/ (switcher.pc = "armFailed" /\ switcher'.pc = "settling")

\* An alarm call answered: at most the switch moves on to settling its cleanup.
AnswerStep ==
  /\ UNCHANGED <<runtimeVars, network, rebuilder, told>>
  /\ switcher' = switcher \/ (switcher.pc = "arming" /\ switcher'.pc \in {"settling", "armFailed"})

OpenStep ==
  /\ \E n \in Networks : OpenSession(n)
  /\ UNCHANGED <<network, switcher, rebuilder, told>>

(* Every step is one of the above, or a step of the switch, of the rebuild *)
(* or a crash.                                                             *)
LEMMA StepCases ==
  ASSUME TypeOK, [Next]_vars
  PROVE  \/ UNCHANGED <<runtimeVars, network, switcher, rebuilder, told>>
         \/ LockStep
         \/ AnswerStep
         \/ OpenStep
         \/ SwitchSteps
         \/ \E target \in Networks : SwitchStart(target)
         \/ RebuildSteps
         \/ RebuildAsk
         \/ WorkerDies
  <1>1. CASE QuietStep
    BY <1>1 DEF QuietStep, CreateCheck, CreateReadNetwork, CreateStored, CreateFails, UnlockRead,
       UnlockRefused, UnlockAlready, ArmNewSession, AlarmFires, PopupTouch, vars, storageVars, siteVars
  <1>2. ASSUME NEW c \in Creators, CreateOpen(c)
        PROVE  OpenStep \/ UNCHANGED <<runtimeVars, network, switcher, rebuilder, told>>
    BY <1>2 DEF CreateOpen, OpenStep, TypeOK, Openers, storageVars, siteVars
  <1>3. ASSUME NEW u \in Unlockers, UnlockOpen(u)
        PROVE  OpenStep
    BY <1>3 DEF UnlockOpen, OpenStep, TypeOK, Openers, storageVars, siteVars
  <1>4. ASSUME NEW o \in Openers, ArmFailedLock(o)
        PROVE  LockStep
    BY <1>4 DEF ArmFailedLock, LockStep, storageVars
  <1>5. IdleLock \/ UserLock => LockStep
    BY DEF IdleLock, UserLock, LockStep, storageVars
  <1>6. AlarmCallDone \/ AlarmCallFails => AnswerStep
    BY DEF AlarmCallDone, AlarmCallFails, ResumeArming, AnswerStep, TypeOK, storageVars, siteVars
  <1> QED
    BY <1>1, <1>2, <1>3, <1>4, <1>5, <1>6
       DEF Next, Progress, Ask, CreateSteps, UnlockSteps, ArmSteps, AlarmSteps, QuietStep

(* A fence is up after BeginTransition, and a lock leaves it up.           *)
LEMMA BeginFences ==
  ASSUME RuntimeTypeOK, NEW o \in Owners, NEW v \in Version, NEW a \in Nat,
         NEW n \in Networks, BeginTransition(o, v, a, n)
  PROVE  /\ Fenced'
         /\ transition' = [owner |-> o, fence |-> epoch + 1, had |-> LiveAuthority,
                           staged |-> a, target |-> n, cancelled |-> FALSE]
  <1>1. LiveAuthority \in Nat
    BY AuthorityTypes
  <1>2. transition' \in Transition
    BY <1>1 DEF BeginTransition, Transition, RuntimeTypeOK
  <1> QED BY <1>2, NoneAssumption DEF BeginTransition, Fenced

\* A lock leaves the fence to the transition that holds it.
LEMMA LockKeepsFence ==
  ASSUME RuntimeTypeOK, Fenced, BeginLock
  PROVE  /\ Fenced'
         /\ transition' = [transition EXCEPT !.staged = 0, !.cancelled = TRUE]
         /\ transition \in Transition
  <1>1. transition \in Transition
    BY DEF RuntimeTypeOK, Fenced
  <1>2. transition' \in Transition
    BY <1>1 DEF BeginLock, Transition
  <1> QED BY <1>1, <1>2, NoneAssumption DEF BeginLock, Fenced

(* The fence of every reachable state is held by whoever raised it.        *)
THEOREM FenceInvariant == Spec => []FenceInv
  <1>1. Init => FenceInv
    BY DEF Init, RuntimeInit, FenceInv, FenceHeld, FencedPC, Fenced, IdleSwitcher, IdleRebuilder
  <1>2. TypeOK /\ FenceInv /\ [Next]_vars => FenceInv'
    <2> SUFFICES ASSUME TypeOK, FenceInv, [Next]_vars
                 PROVE  FenceInv'
      OBVIOUS
    <2> USE DEF FenceInv, FenceHeld, FencedPC, Fenced, Unlocked
    <2>0. /\ epoch \in Nat
          /\ switcher.source.epoch \in Nat
          /\ Fenced => transition \in Transition
          /\ Unlocked => session \in Session
      BY DEF TypeOK, RuntimeTypeOK, Version
    <2>1. CASE UNCHANGED <<runtimeVars, network, switcher, rebuilder, told>>
      BY <2>1 DEF runtimeVars
    <2>2. CASE LockStep
      <3>1. CASE Fenced
        <4>1. BeginLock /\ RuntimeTypeOK
          BY <2>2 DEF LockStep, LockWallet, TypeOK
        <4>2. /\ Fenced'
              /\ transition'.owner = transition.owner
              /\ transition'.fence = transition.fence
          BY <3>1, <4>1, LockKeepsFence DEF Transition
        <4> QED BY <2>0, <2>2, <3>1, <4>2 DEF LockStep, LockWallet, BeginLock
      <3>2. CASE ~Fenced
        BY <2>0, <2>2, <3>2 DEF LockStep, LockWallet, BeginLock
      <3> QED BY <3>1, <3>2
    <2>3. CASE AnswerStep
      BY <2>3 DEF AnswerStep, runtimeVars
    <2>4. CASE OpenStep
      BY <2>0, <2>4 DEF OpenStep, OpenSession, CreateSession
    <2>5. ASSUME NEW target \in Networks, SwitchStart(target)
          PROVE  FenceInv'
      BY <2>5 DEF SwitchStart, IdleSwitcher, runtimeVars
    <2>6. CASE SwitchSteps
      <3>1. CASE SwitchRead
        BY <3>1 DEF SwitchRead, runtimeVars, TypeOK
      <3>a. CASE SwitchRefused
        BY <3>a DEF SwitchRefused, MayBegin, IdleSwitcher, runtimeVars
      <3>b. CASE SwitchStored \/ SwitchWriteFails
        BY <3>b DEF SwitchStored, SwitchWriteFails, runtimeVars, TypeOK
      <3>c. CASE SwitchSettles
        BY <3>c DEF SwitchSettles, IdleSwitcher, runtimeVars
      <3>d. CASE SwitchTellsLoss
        BY <3>d DEF SwitchTellsLoss, runtimeVars, TypeOK
      <3>2. CASE SwitchPrepare
        BY <2>0, <3>2 DEF SwitchPrepare, MayPrepare, RuntimeVersion, runtimeVars, TypeOK
      <3>3. CASE SwitchBegin
        <4>1. ~Fenced
          BY <3>3 DEF SwitchBegin, BeginTransition, MayBegin, RuntimeVersion
        <4>2. /\ Fenced'
              /\ transition'.owner = "switch"
              /\ transition'.fence = epoch + 1
          BY <3>3, BeginFences DEF SwitchBegin, TypeOK, Owners
        <4>3. /\ epoch' = epoch + 1
              /\ ~Unlocked'
              /\ switcher'.pc = "writing"
              /\ rebuilder' = rebuilder
          BY <3>3 DEF SwitchBegin, BeginTransition, TypeOK
        <4> QED BY <4>1, <4>2, <4>3
      <3>4. CASE SwitchInstall
        <4>1. MayInstall("switch")
          BY <3>4 DEF SwitchInstall, MayInstall
        <4>2. /\ Install("switch")
              /\ switcher'.pc \in {"settling", "arming"}
              /\ rebuilder' = rebuilder
          BY <3>4, <4>1 DEF SwitchInstall, InstallArmed, TypeOK
        <4> QED BY <4>1, <4>2 DEF Install, MayInstall
      <3>5. CASE SwitchArmFailedLock
        <4>1. LockStep
          BY <3>5 DEF SwitchArmFailedLock, LockStep, storageVars, TypeOK
        <4> QED BY <4>1, <2>2
      <3>6. CASE SwitchAborts
        <4>1. /\ transition' = None
              /\ switcher'.pc = "idle"
              /\ rebuilder' = rebuilder
          BY <3>6 DEF SwitchAborts, Abort, IdleSwitcher
        <4> QED BY <3>6, <4>1 DEF SwitchAborts
      <3> QED BY <2>6, <3>1, <3>2, <3>3, <3>4, <3>5, <3>6, <3>a, <3>b, <3>c, <3>d DEF SwitchSteps
    <2>7. CASE RebuildSteps
      <3>1. CASE RebuildRefused
        BY <3>1 DEF RebuildRefused, IdleRebuilder, runtimeVars
      <3>2. CASE RebuildBegin
        <4>1. session.auth \in Nat /\ session.network \in Networks
          BY <2>0, <3>2 DEF RebuildBegin, Session
        <4>2. /\ Fenced'
              /\ transition'.owner = "rebuild"
              /\ transition'.fence = epoch + 1
          BY <3>2, <4>1, BeginFences, AuthorityTypes DEF RebuildBegin, TypeOK, Owners
        <4>3. /\ epoch' = epoch + 1
              /\ ~Unlocked'
              /\ rebuilder'.pc = "saving"
              /\ switcher' = switcher
          BY <3>2 DEF RebuildBegin, BeginTransition, TypeOK
        <4> QED BY <2>0, <3>2, <4>2, <4>3 DEF RebuildBegin
      <3>3. CASE RebuildInstall
        BY <2>0, <3>3 DEF RebuildInstall, Install, MayInstall, CreateSession, IdleRebuilder
      <3>4. CASE RebuildFails
        BY <2>0, <3>4 DEF RebuildFails, LockThenAbort, CancelOthers, IdleRebuilder
      <3>5. CASE RebuildCancelled
        BY <2>0, <3>5 DEF RebuildCancelled, InstallNothingThenLock, MayInstall, IdleRebuilder
      <3> QED BY <2>7, <3>1, <3>2, <3>3, <3>4, <3>5 DEF RebuildSteps
    <2>8. CASE RebuildAsk
      BY <2>8 DEF RebuildAsk, runtimeVars
    <2>9. CASE WorkerDies
      BY <2>9 DEF WorkerDies, LoseRuntime, IdleSwitcher, IdleRebuilder
    <2> QED BY StepCases, <2>1, <2>2, <2>3, <2>4, <2>5, <2>6, <2>7, <2>8, <2>9
  <1> QED BY <1>1, <1>2, TypeCorrect, PTL DEF Spec

(* While a transition is active no session is live and the epoch is the    *)
(* one its fence set (wallet-runtime.ts:206-225).                          *)
THEOREM FenceHolds == Spec => []FenceHeld
  <1>1. FenceInv => FenceHeld
    BY DEF FenceInv
  <1> QED BY <1>1, FenceInvariant, PTL

(* install() never throws: a switch or a rebuild that raised the fence     *)
(* still owns it when it installs (network-switch.ts:62-77).               *)
THEOREM FenceStaysOwned == Spec => []FenceOwned
  <1>1. FenceInv => FenceOwned
    BY DEF FenceInv, FenceHeld, FencedPC, FenceOwned, MayInstall
  <1> QED BY <1>1, FenceInvariant, PTL
----------------------------------------------------------------------------
(* Ended authorities stay ended.                                           *)

(* A lock ends what was live or fenced, and leaves nothing to install.     *)
LEMMA LockEnds ==
  ASSUME TypeOK, FenceInv, AuthorityInv, BeginLock,
         switcher'.pc = "prepared" => switcher' = switcher
  PROVE  AuthorityInv'
  <1> USE DEF AuthorityInv, RevokedStaysRevoked, Unlocked, LiveAuthority, MayBegin, RuntimeVersion
  <1>0. /\ epoch \in Nat
        /\ RuntimeTypeOK
        /\ Fenced => transition \in Transition /\ ~Unlocked
        /\ Unlocked => session \in Session
        /\ switcher.source \in Version
    BY DEF TypeOK, RuntimeTypeOK, Fenced, FenceInv, FenceHeld, Version
  <1>1. CASE Fenced
    <2>1. /\ Fenced'
          /\ transition' = [transition EXCEPT !.staged = 0, !.cancelled = TRUE]
      BY <1>0, <1>1, LockKeepsFence
    <2>2. /\ session = None /\ session' = None
          /\ epoch' = epoch
          /\ revoked' = revoked \cup ({transition.had} \ {0})
      BY <1>0, <1>1 DEF BeginLock, EndAuthorities, FencedAuthority
    <2>3. /\ transition'.staged = 0
          /\ transition'.had = transition.had
          /\ transition'.cancelled = TRUE
          /\ transition.had \in Nat
      BY <1>0, <1>1, <2>1 DEF Transition
    <2> QED BY <1>0, <1>1, <2>1, <2>2, <2>3 DEF FenceInv
  <1>2. CASE ~Fenced
    <2>1. /\ ~Fenced'
          /\ session' = None
          /\ epoch' = epoch + 1
          /\ revoked' = revoked \cup ({LiveAuthority} \ {0})
      BY <1>2 DEF BeginLock, EndAuthorities, FencedAuthority, Fenced
    <2>2. LiveAuthority \in Nat /\ LiveAuthority <= epoch
      BY <1>0, <1>2 DEF Session
    <2>3. /\ RevokedStaysRevoked'
          /\ (0 \notin revoked)'
          /\ (\A a \in revoked : a <= epoch)'
      BY <1>0, <1>2, <2>1, <2>2, AuthorityTypes DEF RuntimeTypeOK
    <2>4. switcher'.pc = "prepared" => ~MayBegin(switcher.source)'
      BY <1>0, <2>1 DEF FenceInv, Version
    <2> QED BY <2>1, <2>3, <2>4
  <1> QED BY <1>1, <1>2

(* An install brings back at most what its fence had taken.                *)
LEMMA InstallRestores ==
  ASSUME TypeOK, FenceInv, AuthorityInv, NEW o \in Owners, Install(o),
         switcher'.pc = "prepared" => switcher' = switcher /\ switcher.source.epoch < epoch
  PROVE  AuthorityInv'
  <1> USE DEF AuthorityInv, RevokedStaysRevoked, Unlocked, LiveAuthority, MayBegin, RuntimeVersion
  <1>1. /\ epoch \in Nat
        /\ transition \in Transition
        /\ Fenced /\ session = None
        /\ ~Fenced'
        /\ revoked' = revoked
    BY DEF TypeOK, RuntimeTypeOK, Install, MayInstall, Fenced
  <1>2. switcher.source.epoch \in Nat
    BY DEF TypeOK, Version
  <1>3. CASE transition.staged = 0
    BY <1>1, <1>2, <1>3 DEF Install
  <1>4. CASE transition.staged # 0
    <2>1. /\ epoch' = epoch + 1
          /\ session' = [epoch |-> epoch + 1, network |-> transition.target,
                         auth |-> transition.staged]
      BY <1>4 DEF Install, CreateSession
    <2>2. session' \in Session
      BY <1>1, <2>1 DEF Session, Transition
    <2>3. session' # None
      BY <2>2, NoneAssumption
    <2>4. switcher'.pc = "prepared" => ~MayBegin(switcher.source)'
      BY <1>1, <1>2, <2>1
    <2>5. /\ transition.staged \in Nat
          /\ transition.staged <= epoch
          /\ transition.staged \notin revoked
      BY <1>1, <1>4 DEF Transition
    <2>6. /\ session'.auth = transition.staged
          /\ LiveAuthority' = transition.staged
      BY <2>1, <2>3
    <2>7. \A a \in revoked : a \in Nat
      BY DEF TypeOK, RuntimeTypeOK
    <2> QED BY <1>1, <1>4, <2>1, <2>3, <2>4, <2>5, <2>6, <2>7
  <1> QED BY <1>3, <1>4

(* What a fence holds back is live again at most once, and never after a   *)
(* lock; fresh sessions have fresh authorities.                            *)
THEOREM AuthorityInvariant == Spec => []AuthorityInv
  <1>1. Init => AuthorityInv
    BY DEF Init, RuntimeInit, AuthorityInv, RevokedStaysRevoked, Fenced, Unlocked,
           LiveAuthority, IdleSwitcher
  <1>2. TypeOK /\ FenceInv /\ AuthorityInv /\ [Next]_vars => AuthorityInv'
    <2> SUFFICES ASSUME TypeOK, FenceInv, AuthorityInv, [Next]_vars
                 PROVE  AuthorityInv'
      OBVIOUS
    <2> USE DEF AuthorityInv, RevokedStaysRevoked, Fenced, Unlocked, LiveAuthority,
                MayBegin, RuntimeVersion
    <2>0. /\ epoch \in Nat
          /\ revoked \in SUBSET Nat
          /\ switcher.source \in Version
          /\ Fenced => transition \in Transition
          /\ Unlocked => session \in Session
          /\ Fenced => ~Unlocked
      BY DEF TypeOK, RuntimeTypeOK, Version, FenceInv, FenceHeld
    <2>1. CASE UNCHANGED <<runtimeVars, network, switcher, rebuilder, told>>
      BY <2>1 DEF runtimeVars
    <2>2. CASE LockStep
      <3>1. /\ BeginLock
            /\ switcher'.pc = "prepared" => switcher' = switcher
        BY <2>2 DEF LockStep, LockWallet
      <3> QED BY <2>0, <3>1, LockEnds DEF TypeOK
    <2>3. CASE AnswerStep
      BY <2>3 DEF AnswerStep, runtimeVars
    <2>4. CASE OpenStep
      <3>1. PICK n \in Networks : OpenSession(n)
        BY <2>4 DEF OpenStep
      <3>2. /\ session' = [epoch |-> epoch + 1, network |-> n, auth |-> epoch + 1]
            /\ epoch' = epoch + 1
            /\ ~Fenced
            /\ UNCHANGED <<transition, revoked, switcher>>
        BY <2>4, <3>1 DEF OpenStep, OpenSession, CreateSession
      <3>3. session' \in Session
        BY <2>0, <3>2 DEF Session
      <3> QED BY <2>0, <3>2, <3>3, NoneAssumption DEF FenceInv, Version
    <2>5. ASSUME NEW target \in Networks, SwitchStart(target)
          PROVE  AuthorityInv'
      BY <2>5 DEF SwitchStart, IdleSwitcher, runtimeVars
    <2>6. CASE SwitchSteps
      <3>1. CASE SwitchRead
        BY <3>1 DEF SwitchRead, runtimeVars, TypeOK
      <3>2. CASE SwitchRefused
        BY <3>2 DEF SwitchRefused, IdleSwitcher, runtimeVars
      <3>3. CASE SwitchPrepare
        BY <2>0, <3>3, NoneAssumption
           DEF SwitchPrepare, MayPrepare, StagedAuthority, runtimeVars, TypeOK, Version, Session
      <3>4. CASE SwitchBegin
        <4>1. transition' = [owner |-> "switch", fence |-> epoch + 1, had |-> LiveAuthority,
                             staged |-> LiveAuthority, target |-> switcher.target,
                             cancelled |-> FALSE]
          BY <3>4 DEF SwitchBegin, BeginTransition
        <4>2. /\ session' = None
              /\ epoch' = epoch + 1
              /\ revoked' = revoked
              /\ switcher'.pc = "writing"
          BY <3>4 DEF SwitchBegin, BeginTransition, TypeOK
        <4> QED BY <2>0, <4>1, <4>2, AuthorityTypes DEF TypeOK
      <3>5. CASE SwitchStored \/ SwitchWriteFails
        BY <3>5 DEF SwitchStored, SwitchWriteFails, runtimeVars, TypeOK
      <3>6. CASE SwitchInstall
        <4>1. /\ Install("switch")
              /\ switcher'.pc # "prepared"
          BY <3>6 DEF SwitchInstall, InstallArmed, TypeOK, FenceInv, FencedPC, MayInstall, FenceHeld
        <4> QED BY <4>1, InstallRestores DEF Owners
      <3>7. CASE SwitchArmFailedLock
        <4>1. BeginLock /\ switcher'.pc # "prepared"
          BY <3>7 DEF SwitchArmFailedLock, LockWallet, TypeOK
        <4> QED BY <2>0, <4>1, LockEnds DEF TypeOK
      <3>8. CASE SwitchSettles
        BY <3>8 DEF SwitchSettles, IdleSwitcher, runtimeVars
      <3>9. CASE SwitchTellsLoss
        BY <3>9 DEF SwitchTellsLoss, runtimeVars, TypeOK
      <3>10. CASE SwitchAborts
        <4>1. /\ transition' = None
              /\ UNCHANGED <<session, epoch>>
              /\ session = None
              /\ revoked' = revoked \cup ({transition.had} \ {0})
              /\ switcher'.pc = "idle"
          BY <2>0, <3>10 DEF SwitchAborts, Abort, EndAuthorities, FencedAuthority, IdleSwitcher,
             FenceInv, FencedPC
        <4> QED BY <2>0, <3>10, <4>1 DEF SwitchAborts, FenceInv, FencedPC, Transition
      <3> QED BY <2>6, <3>1, <3>2, <3>3, <3>4, <3>5, <3>6, <3>7, <3>8, <3>9, <3>10 DEF SwitchSteps
    <2>7. CASE RebuildSteps
      <3>1. switcher' = switcher
        BY <2>7 DEF RebuildSteps, RebuildRefused, RebuildBegin, RebuildInstall, RebuildFails,
           RebuildCancelled
      <3>2. CASE RebuildRefused
        BY <3>1, <3>2 DEF RebuildRefused, runtimeVars
      <3>3. CASE RebuildBegin
        <4>1. transition' = [owner |-> "rebuild", fence |-> epoch + 1, had |-> session.auth,
                             staged |-> session.auth, target |-> session.network,
                             cancelled |-> FALSE]
          BY <3>3 DEF RebuildBegin, BeginTransition
        <4>2. /\ session' = None
              /\ epoch' = epoch + 1
              /\ revoked' = revoked
              /\ Unlocked
          BY <3>3 DEF RebuildBegin, BeginTransition
        <4> QED BY <2>0, <3>1, <4>1, <4>2 DEF FenceInv, Session
      <3>4. CASE RebuildInstall
        <4>1. Install("rebuild")
          BY <3>4 DEF RebuildInstall
        <4>2. Fenced /\ (switcher.pc = "prepared" => switcher.source.epoch < epoch)
          BY <2>0, <4>1 DEF Install, MayInstall, FenceInv, Version
        <4> QED BY <3>1, <4>1, <4>2, InstallRestores DEF Owners
      <3>5. CASE RebuildFails \/ RebuildCancelled
        <4>1. Fenced /\ transition.owner = "rebuild"
          BY <3>5 DEF RebuildFails, RebuildCancelled, FenceInv
        <4>2. /\ transition' = None
              /\ epoch' \in {epoch, epoch + 1}
              /\ session = None /\ session' = None
          BY <2>0, <3>5, <4>1 DEF RebuildFails, RebuildCancelled, LockThenAbort, CancelOthers,
             InstallNothingThenLock
        <4>3. revoked' = revoked \cup ({transition.had} \ {0})
          BY <2>0, <3>5, <4>1 DEF RebuildFails, RebuildCancelled, LockThenAbort,
             InstallNothingThenLock, EndAuthorities, FencedAuthority
        <4>4. transition.had \in Nat /\ transition.had <= epoch
          BY <2>0, <4>1 DEF Transition
        <4>5. switcher.pc = "prepared" => switcher.source.epoch < epoch
          BY <2>0, <4>1 DEF FenceInv, Version
        <4> QED BY <2>0, <3>1, <4>2, <4>3, <4>4, <4>5 DEF Version
      <3> QED BY <2>7, <3>2, <3>3, <3>4, <3>5 DEF RebuildSteps
    <2>8. CASE RebuildAsk
      BY <2>8 DEF RebuildAsk, runtimeVars
    <2>9. CASE WorkerDies
      BY <2>9 DEF WorkerDies, LoseRuntime, IdleSwitcher
    <2> QED BY StepCases, <2>1, <2>2, <2>3, <2>4, <2>5, <2>6, <2>7, <2>8, <2>9
  <1> QED BY <1>1, <1>2, TypeCorrect, FenceInvariant, PTL DEF Spec

(* A lock is final: an identity that a lock or a lost write has ended is   *)
(* never live again nor waiting to be installed                            *)
(* (wallet-runtime.ts:193-203, 273-288).                                   *)
THEOREM LocksAreFinal == Spec => []RevokedStaysRevoked
  <1>1. AuthorityInv => RevokedStaysRevoked
    BY DEF AuthorityInv
  <1> QED BY <1>1, AuthorityInvariant, PTL
----------------------------------------------------------------------------
(* The stored vault, when one wallet is created at a time.  TwoCreators.cfg *)
(* shows what two at a time can do.                                        *)

CreatorWaits(c) ==
  /\ opener[c].pc \in {"checked", "encrypting"} => vault = None
  /\ opener[c].pc = "encrypting" => opener[c].network = network

VaultInv ==
  /\ VaultReadable
  /\ switcher.pc \in {"reencrypting", "prepared", "writing"} => vault # None
  /\ \A c \in Creators : CreatorWaits(c)

\* The handlers that keep storage and start neither a create nor a switch.
StorageQuietStep ==
  /\ UNCHANGED storageVars
  /\ \A c \in Creators : \/ opener'[c] = opener[c]
                          \/ opener'[c].pc \notin {"checked", "encrypting"}
  /\ switcher'.pc \in {"reencrypting", "prepared", "writing"}
       => \/ switcher.pc \in {"reencrypting", "prepared", "writing"}
          \/ vault # None

\* A step that leaves storage alone keeps the vault.
LEMMA StorageQuiet ==
  ASSUME VaultInv, StorageQuietStep
  PROVE  VaultInv'
  BY DEF VaultInv, VaultReadable, CreatorWaits, StorageQuietStep, storageVars

(* A live or dead wallet, its vault can be read on the stored network      *)
(* (storage.ts:55-67, keystore.ts:63-74).                                  *)
THEOREM VaultStaysReadable ==
  ASSUME \A c, d \in Creators : c = d
  PROVE  Spec => []VaultReadable
  <1>1. Init => VaultInv
    BY DEF Init, VaultInv, VaultReadable, CreatorWaits, IdleOpener, IdleSwitcher, Openers
  <1>2. TypeOK /\ VaultInv /\ [Next]_vars => VaultInv'
    <2> SUFFICES ASSUME TypeOK, VaultInv, [Next]_vars
                 PROVE  VaultInv'
      OBVIOUS
    <2>1. ASSUME NEW c \in Creators, CreateCheck(c) \/ CreateReadNetwork(c)
          PROVE  VaultInv'
      <3>1. /\ UNCHANGED <<storageVars, switcher>>
            /\ opener[c].pc \in {"idle", "checked"}
            /\ opener[c].pc = "idle" => vault = None
            /\ opener'[c].pc = "encrypting" => opener'[c].network = network
            /\ \A d \in Creators : d = c
        BY <2>1 DEF CreateCheck, CreateReadNetwork, Opener, TypeOK, Openers
      <3> QED BY <3>1 DEF VaultInv, VaultReadable, CreatorWaits, storageVars
    <2>2. ASSUME NEW c \in Creators, CreateStored(c)
          PROVE  VaultInv'
      <3>1. /\ vault' = [phrase |-> c, aad |-> network]
            /\ UNCHANGED <<network, switcher>>
            /\ opener'[c].pc = "written"
            /\ \A d \in Creators : d = c
        BY <2>2 DEF CreateStored, Opener, TypeOK, Openers, VaultInv, CreatorWaits
      <3>2. vault' \in Vault
        BY <3>1 DEF Vault, TypeOK
      <3>3. vault' # None
        BY <3>2, VaultAssumption
      <3> QED BY <3>1, <3>3 DEF VaultInv, VaultReadable, CreatorWaits
    <2>3. ASSUME NEW c \in Creators, CreateFails(c) \/ CreateOpen(c)
          PROVE  VaultInv'
      <3>1. StorageQuietStep
        BY <2>3 DEF StorageQuietStep, CreateFails, CreateOpen, Opener, TypeOK, Openers, storageVars
      <3> QED BY <3>1, StorageQuiet
    <2>4. ASSUME NEW u \in Unlockers, UnlockRead(u) \/ UnlockSteps(u)
          PROVE  VaultInv'
      <3>1. \A c \in Creators : c # u
        BY CallerAssumption
      <3>2. StorageQuietStep
        BY <2>4, <3>1 DEF StorageQuietStep, UnlockSteps, UnlockRead, UnlockRefused, UnlockAlready,
           UnlockOpen, Opener, TypeOK, Openers, storageVars
      <3> QED BY <3>2, StorageQuiet
    <2>5. ASSUME NEW o \in Openers, ArmSteps(o)
          PROVE  VaultInv'
      <3>1. StorageQuietStep
        BY <2>5 DEF StorageQuietStep, ArmSteps, ArmNewSession, ArmFailedLock, Opener, TypeOK,
           Openers, storageVars
      <3> QED BY <3>1, StorageQuiet
    <2>6. CASE AlarmFires \/ IdleLock \/ UserLock \/ PopupTouch
      <3>1. StorageQuietStep
        BY <2>6 DEF StorageQuietStep, AlarmFires, IdleLock, UserLock, PopupTouch, storageVars
      <3> QED BY <3>1, StorageQuiet
    <2>7. CASE AlarmCallDone \/ AlarmCallFails
      <3>1. UNCHANGED storageVars
        BY <2>7 DEF AlarmCallDone, AlarmCallFails
      <3>2. \A c \in Creators : \/ opener'[c] = opener[c]
                               \/ opener'[c].pc \notin {"checked", "encrypting"}
        BY <2>7 DEF AlarmCallDone, AlarmCallFails, ResumeArming, TypeOK, Openers
      <3>3. switcher'.pc \in {"settling", "armFailed"} \/ switcher' = switcher
        BY <2>7 DEF AlarmCallDone, AlarmCallFails, ResumeArming, TypeOK
      <3> QED BY <3>1, <3>2, <3>3, StorageQuiet DEF StorageQuietStep
    <2>8. CASE \E target \in Networks : SwitchStart(target)
      <3>1. StorageQuietStep
        BY <2>8 DEF StorageQuietStep, SwitchStart, IdleSwitcher, storageVars
      <3> QED BY <3>1, StorageQuiet
    <2>9. CASE SwitchStored
      <3>1. /\ vault' = [phrase |-> switcher.phrase, aad |-> switcher.target]
            /\ network' = switcher.target
            /\ switcher'.pc = "written"
            /\ UNCHANGED opener
            /\ vault # None
        BY <2>9 DEF SwitchStored, TypeOK, VaultInv
      <3>2. vault' # None
        BY <2>9, <3>1, VaultAssumption DEF SwitchStored, Vault, TypeOK
      <3> QED BY <3>1, <3>2 DEF VaultInv, VaultReadable, CreatorWaits
    <2>10. CASE SwitchSteps /\ ~SwitchStored
      <3>1. UNCHANGED <<storageVars, opener>>
        BY <2>10 DEF SwitchSteps, SwitchRead, SwitchRefused, SwitchPrepare, SwitchBegin,
           SwitchWriteFails, SwitchInstall, SwitchArmFailedLock, SwitchSettles, SwitchTellsLoss,
           SwitchAborts
      <3>2. CASE SwitchRead \/ SwitchPrepare \/ SwitchBegin
        <4>1. switcher.pc \in {"reencrypting", "prepared"} \/ vault # None
          BY <3>2 DEF SwitchRead, SwitchAuthenticates, SwitchPrepare, SwitchBegin
        <4> QED BY <3>1, <4>1, StorageQuiet DEF StorageQuietStep
      <3>3. CASE SwitchRefused \/ SwitchWriteFails \/ SwitchSettles \/ SwitchTellsLoss \/ SwitchAborts
        <4>1. switcher'.pc \in {"idle", "writeFailed", "aborting"}
          BY <3>3 DEF SwitchRefused, SwitchWriteFails, SwitchSettles, SwitchTellsLoss, SwitchAborts,
             IdleSwitcher, TypeOK
        <4> QED BY <3>1, <4>1, StorageQuiet DEF StorageQuietStep
      <3>4. CASE SwitchInstall \/ SwitchArmFailedLock
        <4>1. switcher'.pc \in {"settling", "arming"}
          BY <3>4 DEF SwitchInstall, InstallArmed, InstallThrew, SwitchArmFailedLock, TypeOK
        <4> QED BY <3>1, <4>1, StorageQuiet DEF StorageQuietStep
      <3> QED BY <2>10, <3>2, <3>3, <3>4 DEF SwitchSteps
    <2>11. CASE RebuildSteps \/ RebuildAsk
      <3>1. StorageQuietStep
        BY <2>11 DEF StorageQuietStep, RebuildSteps, RebuildAsk, RebuildRefused, RebuildBegin,
           RebuildInstall, RebuildFails, RebuildCancelled, storageVars
      <3> QED BY <3>1, StorageQuiet
    <2>12. CASE WorkerDies
      <3>1. StorageQuietStep
        BY <2>12 DEF StorageQuietStep, WorkerDies, IdleOpener, IdleSwitcher, Openers, storageVars
      <3> QED BY <3>1, StorageQuiet
    <2>13. CASE UNCHANGED vars
      <3>1. StorageQuietStep
        BY <2>13 DEF StorageQuietStep, vars, storageVars
      <3> QED BY <3>1, StorageQuiet
    <2> QED BY <2>1, <2>2, <2>3, <2>4, <2>5, <2>6, <2>7, <2>8, <2>9, <2>10, <2>11, <2>12, <2>13
            DEF Next, Progress, Ask, CreateSteps, AlarmSteps
  <1>3. VaultInv => VaultReadable
    BY DEF VaultInv
  <1> QED BY <1>1, <1>2, <1>3, TypeCorrect, PTL DEF Spec
----------------------------------------------------------------------------
(* Sites hear of every end.                                                *)

(* A switch whose write failed reports the loss a step before it gives the *)
(* fence up; meanwhile what the fence had taken is reported already.       *)
ToldInv ==
  /\ DisconnectTold
  /\ switcher.pc = "aborting" => transition.had \in told \cup {0}

\* What the locks and the rebuild report is what they end.
Reported ==
  /\ told' = told \cup ({LockedAuthority} \ {0})
  /\ revoked' = revoked \cup ({LiveAuthority, FencedAuthority} \ {0})

(* A lock reports all it ends: under a fence nothing is live, and a fence  *)
(* that was cancelled before has had its authority reported.               *)
LEMMA ReportsEnds ==
  ASSUME TypeOK, FenceInv, AuthorityInv, ToldInv, Reported
  PROVE  DisconnectTold' /\ told \subseteq told'
  <1>1. /\ Fenced => transition \in Transition /\ LiveAuthority = 0
        /\ Fenced /\ transition.cancelled => transition.had \in told \cup {0}
    BY DEF TypeOK, RuntimeTypeOK, FenceInv, FenceHeld, Fenced, LiveAuthority, AuthorityInv,
       ToldInv, DisconnectTold
  <1>2. ({LiveAuthority, FencedAuthority} \ {0}) \subseteq told'
    BY <1>1 DEF Reported, LockedAuthority, FencedAuthority, Transition
  <1> QED BY <1>2 DEF Reported, ToldInv, DisconnectTold

(* Every step that ends an authority reports it, or finds it reported.     *)
THEOREM ToldInvariant == Spec => []ToldInv
  <1>1. Init => ToldInv
    BY DEF Init, RuntimeInit, ToldInv, DisconnectTold, IdleSwitcher
  <1>2. TypeOK /\ FenceInv /\ AuthorityInv /\ ToldInv /\ [Next]_vars => ToldInv'
    <2> SUFFICES ASSUME TypeOK, FenceInv, AuthorityInv, ToldInv, [Next]_vars
                 PROVE  ToldInv'
      OBVIOUS
    <2>0. /\ Fenced => transition \in Transition
          /\ switcher.pc = "aborting" => Fenced
      BY DEF TypeOK, RuntimeTypeOK, Fenced, FenceInv, FencedPC
    <2>1. CASE UNCHANGED <<runtimeVars, network, switcher, rebuilder, told>>
      BY <2>1 DEF ToldInv, DisconnectTold, runtimeVars
    <2>2. ASSUME BeginLock, Reported, switcher'.pc = "aborting" => switcher' = switcher
          PROVE  ToldInv'
      <3>1. CASE switcher.pc = "aborting"
        <4>1. transition' = [transition EXCEPT !.staged = 0, !.cancelled = TRUE]
          BY <2>0, <2>2, <3>1, LockKeepsFence DEF TypeOK
        <4>2. transition'.had = transition.had
          BY <2>0, <3>1, <4>1 DEF Transition
        <4> QED BY <2>2, <3>1, <4>2, ReportsEnds DEF ToldInv
      <3>2. CASE switcher.pc # "aborting"
        BY <2>2, <3>2, ReportsEnds DEF ToldInv
      <3> QED BY <3>1, <3>2
    <2>3. LockWallet => BeginLock /\ Reported
      BY DEF LockWallet, BeginLock, EndAuthorities, TellSites, Reported
    <2>4. CASE LockStep
      BY <2>2, <2>3, <2>4 DEF LockStep
    <2>5. CASE AnswerStep
      BY <2>5 DEF AnswerStep, runtimeVars, ToldInv, DisconnectTold
    <2>6. CASE OpenStep
      BY <2>6 DEF OpenStep, OpenSession, ToldInv, DisconnectTold
    <2>7. ASSUME NEW target \in Networks, SwitchStart(target)
          PROVE  ToldInv'
      BY <2>7 DEF SwitchStart, IdleSwitcher, runtimeVars, siteVars, ToldInv, DisconnectTold
    <2>8. CASE SwitchSteps
      <3>1. CASE SwitchRead \/ SwitchRefused \/ SwitchPrepare \/ SwitchStored \/ SwitchWriteFails
                 \/ SwitchSettles
        <4>1. UNCHANGED <<revoked, told>>
          BY <3>1 DEF SwitchRead, SwitchRefused, SwitchPrepare, SwitchStored, SwitchWriteFails,
             SwitchSettles, runtimeVars, siteVars
        <4>2. switcher'.pc # "aborting"
          <5>1. CASE SwitchRead \/ SwitchPrepare \/ SwitchStored \/ SwitchWriteFails
            BY <5>1 DEF SwitchRead, SwitchPrepare, SwitchStored, SwitchWriteFails, TypeOK
          <5>2. CASE SwitchRefused \/ SwitchSettles
            BY <5>2 DEF SwitchRefused, SwitchSettles, IdleSwitcher
          <5> QED BY <3>1, <5>1, <5>2
        <4> QED BY <4>1, <4>2 DEF ToldInv, DisconnectTold
      <3>2. CASE SwitchBegin
        BY <3>2 DEF SwitchBegin, BeginTransition, TypeOK, siteVars, ToldInv, DisconnectTold
      <3>3. CASE SwitchInstall
        BY <3>3 DEF SwitchInstall, InstallArmed, Install, TypeOK, FenceInv, FencedPC, FenceHeld,
           MayInstall, siteVars, ToldInv, DisconnectTold
      <3>4. CASE SwitchArmFailedLock
        BY <2>2, <2>3, <3>4 DEF SwitchArmFailedLock, TypeOK
      <3>5. CASE SwitchTellsLoss
        <4>1. Fenced /\ told' = told \cup ({transition.had} \ {0})
          BY <3>5 DEF SwitchTellsLoss, TellSites, FencedAuthority, FenceInv, FencedPC
        <4> QED BY <3>5, <4>1 DEF SwitchTellsLoss, runtimeVars, ToldInv, DisconnectTold
      <3>6. CASE SwitchAborts
        BY <2>0, <3>6 DEF SwitchAborts, Abort, EndAuthorities, FencedAuthority, IdleSwitcher,
           siteVars, ToldInv, DisconnectTold
      <3> QED BY <2>8, <3>1, <3>2, <3>3, <3>4, <3>5, <3>6 DEF SwitchSteps
    <2>9. CASE RebuildSteps
      <3>1. CASE RebuildRefused \/ RebuildBegin \/ RebuildInstall
        BY <3>1, <2>0 DEF RebuildRefused, RebuildBegin, RebuildInstall, BeginTransition, Install,
           MayBegin, Unlocked, Fenced, FenceInv, FencedPC, FenceHeld, runtimeVars, siteVars, ToldInv, DisconnectTold
      <3>2. CASE RebuildFails
        <4>1. Reported /\ switcher' = switcher /\ switcher.pc \notin FencedPC
          BY <3>2 DEF RebuildFails, LockThenAbort, EndAuthorities, TellSites, Reported, FenceInv
        <4> QED BY <4>1, ReportsEnds DEF ToldInv, FencedPC
      <3>3. CASE RebuildCancelled
        <4>1. /\ Fenced /\ transition.staged = 0
              /\ revoked' = revoked \cup ({transition.had} \ {0})
              /\ told' = told /\ switcher' = switcher /\ switcher.pc \notin FencedPC
          BY <3>3 DEF RebuildCancelled, InstallNothingThenLock, MayInstall, EndAuthorities,
             FencedAuthority, FenceInv, siteVars
        <4>2. transition.had \in revoked \cup {0}
          BY <2>0, <4>1 DEF AuthorityInv, Transition
        <4> QED BY <4>1, <4>2 DEF ToldInv, DisconnectTold, FencedPC
      <3> QED BY <2>9, <3>1, <3>2, <3>3 DEF RebuildSteps
    <2>10. CASE RebuildAsk
      BY <2>10 DEF RebuildAsk, runtimeVars, siteVars, ToldInv, DisconnectTold
    <2>11. CASE WorkerDies
      BY <2>11 DEF WorkerDies, LoseRuntime, IdleSwitcher, ToldInv, DisconnectTold
    <2> QED BY StepCases, <2>1, <2>4, <2>5, <2>6, <2>7, <2>8, <2>9, <2>10, <2>11
  <1> QED BY <1>1, <1>2, TypeCorrect, FenceInvariant, AuthorityInvariant, PTL DEF Spec

(* No session ends behind the back of a connected site: whatever ended it, *)
(* a lock, a failed write or a rebuild, its end was reported               *)
(* (session-lock.ts:20-22, network-switch.ts:57, delegation-session.ts:65-68). *)
THEOREM EndsAreTold == Spec => []DisconnectTold
  <1>1. ToldInv => DisconnectTold
    BY DEF ToldInv
  <1> QED BY <1>1, ToldInvariant, PTL
----------------------------------------------------------------------------
(* The refinement of SessionAuthority.                                     *)

Mode == IF Unlocked THEN "unlocked"
        ELSE IF Fenced /\ transition.staged # 0 THEN "fenced" ELSE "locked"

Holder == IF Unlocked THEN session.auth ELSE IF Fenced THEN transition.staged ELSE 0

\* What an authority can go through in one step.
Granted == /\ Mode # "fenced" /\ Mode' = "unlocked"
           /\ Holder' \in Nat \ (revoked \cup {0, Holder})
           /\ UNCHANGED <<revoked, network>>

Suspended == Mode = "unlocked" /\ Mode' = "fenced" /\ UNCHANGED <<Holder, revoked, network>>

Resumed == Mode = "fenced" /\ Mode' = "unlocked" /\ UNCHANGED <<Holder, revoked, network>>

Ended == /\ Mode # "locked" /\ Mode' = "locked" /\ Holder' = 0
         /\ revoked' = revoked \cup {Holder} /\ UNCHANGED network

Rebound == Mode # "unlocked" /\ network' \in Networks /\ UNCHANGED <<Mode, Holder, revoked>>

Restarted == Mode' = "locked" /\ Holder' = 0 /\ revoked' = {} /\ UNCHANGED network

Kept == UNCHANGED <<Mode, Holder, revoked, network>>

AuthorityMove ==
  Granted \/ Suspended \/ Resumed \/ Ended \/ Rebound \/ Restarted \/ Kept

(* These are the steps of SessionAuthority under the mapping Authority.    *)
LEMMA MovesAreSteps == AuthorityMove => [Authority!Next]_(Authority!authorityVars)
  BY DEF AuthorityMove, Granted, Suspended, Resumed, Ended, Rebound, Restarted, Kept, Mode, Holder,
         Authority!Next, Authority!Grant, Authority!Suspend, Authority!Resume, Authority!End,
         Authority!Rebind, Authority!Restart, Authority!authorityVars

(* What locks end is what is held, and they leave nothing that could be    *)
(* resumed.                                                                *)
LEMMA LocksEnd ==
  ASSUME TypeOK, FenceInv, AuthorityInv, UNCHANGED network, session' = None,
         Fenced' => transition'.staged = 0,
         revoked' = revoked \cup ({LiveAuthority, FencedAuthority} \ {0})
  PROVE  Ended \/ Kept
  <1> USE DEF Ended, Kept, Mode, Holder, Unlocked, LiveAuthority
  <1>1. Mode' = "locked" /\ Holder' = 0
    OBVIOUS
  <1>2. CASE Unlocked
    <2>1. ~Fenced /\ session.auth # 0
      BY <1>2 DEF FenceInv, FenceHeld, AuthorityInv
    <2> QED BY <1>1, <1>2, <2>1 DEF FencedAuthority
  <1>3. CASE ~Unlocked /\ Fenced
    <2>1. transition \in Transition
      BY <1>3 DEF TypeOK, RuntimeTypeOK, Fenced
    <2>2. /\ transition.staged = IF transition.cancelled THEN 0 ELSE transition.had
          /\ transition.cancelled => transition.had \in revoked \cup {0}
      BY <1>3 DEF AuthorityInv
    <2>3. revoked' = revoked \cup ({transition.had} \ {0})
      BY <1>3 DEF FencedAuthority
    <2> QED BY <1>1, <1>3, <2>1, <2>2, <2>3 DEF Transition
  <1>4. CASE ~Unlocked /\ ~Fenced
    BY <1>1, <1>4 DEF FencedAuthority
  <1> QED BY <1>2, <1>3, <1>4

(* An install resumes what was suspended, and nothing else.                *)
LEMMA InstallsResume ==
  ASSUME TypeOK, NEW o \in Owners, Install(o), UNCHANGED network
  PROVE  Resumed \/ Kept
  <1> USE DEF Resumed, Kept, Mode, Holder, Unlocked
  <1>1. /\ Fenced /\ session = None /\ ~Fenced' /\ revoked' = revoked
        /\ transition \in Transition /\ epoch \in Nat
    BY DEF TypeOK, RuntimeTypeOK, Install, MayInstall, Fenced
  <1>2. CASE transition.staged = 0
    BY <1>1, <1>2 DEF Install
  <1>3. CASE transition.staged # 0
    <2>1. session' = [epoch |-> epoch + 1, network |-> transition.target, auth |-> transition.staged]
      BY <1>3 DEF Install, CreateSession
    <2>2. session' \in Session
      BY <1>1, <2>1 DEF Session, Transition
    <2>3. session' # None /\ session'.auth = transition.staged
      BY <2>1, <2>2, NoneAssumption
    <2> QED BY <1>1, <1>3, <2>3
  <1> QED BY <1>2, <1>3

(* Beginning a transition suspends the live authority, if there is one.    *)
LEMMA BeginsSuspend ==
  ASSUME TypeOK, AuthorityInv, NEW o \in Owners, NEW v \in Version, NEW n \in Networks,
         ~Fenced, BeginTransition(o, v, LiveAuthority, n), UNCHANGED network
  PROVE  Suspended \/ Kept
  <1>1. LiveAuthority \in Nat /\ RuntimeTypeOK
    BY AuthorityTypes DEF TypeOK
  <1>2. Fenced' /\ transition'.staged = LiveAuthority
    BY <1>1, BeginFences
  <1>3. session' = None /\ revoked' = revoked
    BY DEF BeginTransition
  <1>4. Unlocked => LiveAuthority = session.auth /\ session.auth # 0
    BY DEF LiveAuthority, AuthorityInv
  <1>5. ~Unlocked => LiveAuthority = 0
    BY DEF LiveAuthority
  <1> QED BY <1>2, <1>3, <1>4, <1>5 DEF Suspended, Kept, Mode, Holder, Unlocked

(* The session code keeps the promise of SessionAuthority: each of its     *)
(* steps is a step of it or changes nothing it speaks of                   *)
(* (wallet-runtime.ts:115-288).                                            *)
THEOREM Implementation == Spec => ImplementsAuthority
  <1>1. Init => Authority!Init
    BY DEF Init, RuntimeInit, Authority!Init, Unlocked, Fenced
  <1>2. TypeOK /\ FenceInv /\ AuthorityInv /\ [Next]_vars
          => [Authority!Next]_(Authority!authorityVars)
    <2> SUFFICES ASSUME TypeOK, FenceInv, AuthorityInv, [Next]_vars
                 PROVE  AuthorityMove
      BY MovesAreSteps
    <2> USE DEF AuthorityMove
    <2>0. /\ Fenced => transition \in Transition /\ session = None
          /\ switcher.target \in Networks /\ switcher.source \in Version
      BY DEF TypeOK, RuntimeTypeOK, Fenced, Unlocked, FenceInv, FenceHeld
    <2>1. UNCHANGED <<runtimeVars, network>> => Kept
      BY DEF Kept, Mode, Holder, Unlocked, Fenced, runtimeVars
    <2>2. ASSUME BeginLock, UNCHANGED network
          PROVE  Ended \/ Kept
      <3>1. Fenced' => transition'.staged = 0
        <4>1. CASE Fenced
          BY <2>0, <2>2, <4>1, LockKeepsFence DEF TypeOK, Transition
        <4>2. CASE ~Fenced
          BY <2>2, <4>2 DEF BeginLock, Fenced
        <4> QED BY <4>1, <4>2
      <3> QED BY <2>2, <3>1, LocksEnd DEF BeginLock, EndAuthorities
    <2>3. CASE UNCHANGED <<runtimeVars, network, switcher, rebuilder, told>>
      BY <2>1, <2>3
    <2>4. CASE LockStep
      BY <2>2, <2>4 DEF LockStep, LockWallet
    <2>5. CASE AnswerStep
      BY <2>1, <2>5 DEF AnswerStep
    <2>6. CASE OpenStep
      <3>1. PICK n \in Networks : OpenSession(n)
        BY <2>6 DEF OpenStep
      <3>2. /\ session' = [epoch |-> epoch + 1, network |-> n, auth |-> epoch + 1]
            /\ ~Fenced /\ epoch \in Nat
            /\ UNCHANGED <<transition, revoked, network>>
        BY <2>6, <3>1 DEF OpenStep, OpenSession, CreateSession, TypeOK, RuntimeTypeOK
      <3>3. session' \in Session
        BY <3>2 DEF Session
      <3>4. session' # None /\ session'.auth = epoch + 1
        BY <3>2, <3>3, NoneAssumption
      <3>5. \A a \in revoked : a <= epoch /\ a \in Nat
        BY DEF AuthorityInv, TypeOK, RuntimeTypeOK
      <3>6. Holder \in Nat /\ Holder <= epoch
        BY <3>2 DEF Holder, AuthorityInv, TypeOK, RuntimeTypeOK, Unlocked, Session
      <3>7. epoch + 1 \in Nat \ (revoked \cup {0, Holder})
        BY <3>2, <3>5, <3>6
      <3>8. Mode # "fenced" /\ Mode' = "unlocked" /\ Holder' = epoch + 1
        BY <3>2, <3>4 DEF Mode, Holder, Unlocked
      <3> QED BY <3>2, <3>7, <3>8 DEF Granted
    <2>7. ASSUME NEW target \in Networks, SwitchStart(target)
          PROVE  AuthorityMove
      BY <2>1, <2>7 DEF SwitchStart, storageVars
    <2>8. CASE SwitchSteps
      <3>1. CASE SwitchRead \/ SwitchRefused \/ SwitchPrepare \/ SwitchWriteFails \/ SwitchSettles
                 \/ SwitchTellsLoss
        BY <2>1, <3>1 DEF SwitchRead, SwitchRefused, SwitchPrepare, SwitchWriteFails,
           SwitchSettles, SwitchTellsLoss, storageVars
      <3>2. CASE SwitchBegin
        <4>1. ~Fenced /\ switcher.staged = LiveAuthority
          BY <3>2 DEF SwitchBegin, BeginTransition, MayBegin, RuntimeVersion, FenceInv, AuthorityInv,
             TypeOK, Version
        <4> QED BY <2>0, <3>2, <4>1, BeginsSuspend DEF SwitchBegin, Owners, storageVars
      <3>3. CASE SwitchStored
        <4>1. UNCHANGED runtimeVars /\ network' \in Networks /\ session = None
          BY <2>0, <3>3 DEF SwitchStored, FenceInv, FencedPC
        <4> QED BY <4>1 DEF Rebound, Mode, Holder, Unlocked, Fenced, runtimeVars
      <3>4. CASE SwitchInstall
        <4>1. Install("switch") /\ UNCHANGED network
          BY <3>4 DEF SwitchInstall, InstallArmed, FenceInv, FencedPC, MayInstall, FenceHeld,
             storageVars
        <4> QED BY <4>1, InstallsResume DEF Owners
      <3>5. CASE SwitchArmFailedLock
        BY <2>2, <3>5 DEF SwitchArmFailedLock, LockWallet, storageVars
      <3>6. CASE SwitchAborts
        <4>1. /\ transition' = None /\ session' = None /\ session = None
              /\ revoked' = revoked \cup ({FencedAuthority} \ {0})
              /\ UNCHANGED network
          BY <2>0, <3>6 DEF SwitchAborts, Abort, EndAuthorities, FenceInv, FencedPC, storageVars
        <4> QED BY <4>1, LocksEnd DEF LiveAuthority, Unlocked, Fenced
      <3> QED BY <2>8, <3>1, <3>2, <3>3, <3>4, <3>5, <3>6 DEF SwitchSteps
    <2>9. CASE RebuildSteps
      <3>1. CASE RebuildRefused
        BY <2>1, <3>1 DEF RebuildRefused, storageVars
      <3>2. CASE RebuildBegin
        <4>1. /\ ~Fenced /\ session.auth = LiveAuthority /\ UNCHANGED network
              /\ BeginTransition("rebuild", RuntimeVersion, session.auth, session.network)
          BY <3>2 DEF RebuildBegin, LiveAuthority, storageVars
        <4>2. RuntimeVersion \in Version /\ session.network \in Networks
          BY <3>2 DEF RebuildBegin, RuntimeVersion, Version, TypeOK, RuntimeTypeOK, Unlocked, Session
        <4> QED BY <4>1, <4>2, BeginsSuspend DEF Owners
      <3>3. CASE RebuildInstall
        BY <3>3, InstallsResume DEF RebuildInstall, Owners, storageVars
      <3>4. CASE RebuildFails \/ RebuildCancelled
        <4>1. /\ transition' = None /\ session' = None /\ session = None
              /\ revoked' = revoked \cup ({FencedAuthority} \ {0})
              /\ UNCHANGED network
          BY <2>0, <3>4 DEF RebuildFails, RebuildCancelled, LockThenAbort, CancelOthers,
             InstallNothingThenLock, EndAuthorities, LiveAuthority, Unlocked, FenceInv, storageVars
        <4> QED BY <4>1, LocksEnd DEF LiveAuthority, Unlocked, Fenced
      <3> QED BY <2>9, <3>1, <3>2, <3>3, <3>4 DEF RebuildSteps
    <2>10. CASE RebuildAsk
      BY <2>1, <2>10 DEF RebuildAsk, storageVars
    <2>11. CASE WorkerDies
      BY <2>11 DEF WorkerDies, LoseRuntime, Restarted, Mode, Holder, Unlocked, Fenced, storageVars
    <2> QED BY StepCases, <2>3, <2>4, <2>5, <2>6, <2>7, <2>8, <2>9, <2>10, <2>11
  <1> QED BY <1>1, <1>2, TypeCorrect, FenceInvariant, AuthorityInvariant, PTL
          DEF Spec, ImplementsAuthority, Authority!Spec
============================================================================
