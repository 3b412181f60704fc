---------------------- MODULE DelegationSettingsProofs ----------------------
(***************************************************************************)
(* What holds of the delegation settings for any set of delegates, any     *)
(* number of sessions and any number of changes that wait.                 *)
(***************************************************************************)
EXTENDS DelegationSettings, SequenceTheorems, TLAPS

(* A session is asked about by the number it was opened with, and a change *)
(* that is being applied stands at the head of the queue.                  *)
NumberInv ==
  /\ session # 0 => session = started
  /\ \A i \in DOMAIN changes : changes[i].by \in 1..started
  /\ step # "waiting" => changes # <<>>

(* Every configuration there is, saved, built with or asked for, names a   *)
(* delegate the user has agreed to.                                        *)
AgreedInv ==
  /\ stored # None => stored.delegate \in agreed
  /\ \A s \in Sessions : base[s] # None => base[s].delegate \in agreed
  /\ \A i \in DOMAIN changes : changes[i].config.delegate \in agreed

(* Until something is saved a live session, and the one whose change is    *)
(* about to be saved, was built with what is stored.                       *)
StoredInv ==
  /\ session # 0 /\ step # "saved" => base[session] = stored
  /\ step = "saving" => base[First.by] = stored

(* A session that asks for a pause was opened with delegation switched on. *)
PauseInv ==
  \A s \in Sessions : pause[s] = "asked" => s \in 1..started /\ base[s] # None

SettingsInv == SettingsTypeOK /\ NumberInv /\ AgreedInv /\ StoredInv /\ PauseInv

----------------------------------------------------------------------------
(* Configurations.                                                         *)

(* What names a delegate is a configuration, and not the lack of one.      *)
LEMMA Chosen ==
  ASSUME NEW d \in Delegates, NEW on \in BOOLEAN
  PROVE  [delegate |-> d, enabled |-> on] \in Config \ {None}
  BY SessionAssumption DEF Config

(* One that is switched on or off names the same delegate.                 *)
LEMMA Toggled ==
  ASSUME NEW config \in Config, config # None, NEW on \in BOOLEAN
  PROVE  /\ [config EXCEPT !.enabled = on] \in Config \ {None}
         /\ [config EXCEPT !.enabled = on].delegate = config.delegate
  BY SessionAssumption DEF Config

----------------------------------------------------------------------------
(* The queue.                                                              *)

(* A queue that has a head has it first, and keeps the others when it goes.*)
LEMMA HeadOfQueue ==
  ASSUME changes \in Seq(Change), changes # <<>>
  PROVE  /\ 1 \in DOMAIN changes /\ First = changes[1] /\ First \in Change
         /\ Tail(changes) \in Seq(Change)
         /\ \A i \in DOMAIN Tail(changes) :
              i + 1 \in DOMAIN changes /\ Tail(changes)[i] = changes[i + 1]
  BY HeadTailProperties DEF First

(* A change that is asked for is the last of a queue that keeps the others.*)
LEMMA Requested ==
  ASSUME changes \in Seq(Change), session \in Sessions,
         NEW config \in Config \ {None}, NEW policy \in BOOLEAN, Requests(config, policy)
  PROVE  /\ changes' \in Seq(Change) /\ changes' # <<>>
         /\ \A i \in DOMAIN changes' :
              \/ i \in DOMAIN changes /\ changes'[i] = changes[i]
              \/ changes'[i] = [by |-> session, config |-> config, policy |-> policy]
         /\ changes # <<>> => First' = First
  <1> DEFINE new == [by |-> session, config |-> config, policy |-> policy]
  <1>1. new \in Change
    BY DEF Change
  <1>2. changes' = Append(changes, new)
    BY DEF Requests
  <1> HIDE DEF new
  <1>3. /\ changes' \in Seq(Change) /\ changes' # <<>> /\ Len(changes') = Len(changes) + 1
        /\ \A i \in 1..Len(changes) : changes'[i] = changes[i]
        /\ changes'[Len(changes) + 1] = new
    BY <1>1, <1>2, AppendProperties
  <1>4. /\ DOMAIN changes = 1..Len(changes) /\ DOMAIN changes' = 1..Len(changes')
        /\ Len(changes) \in Nat
    BY <1>3, LenProperties
  <1>5. \A i \in DOMAIN changes' : i \in DOMAIN changes \/ i = Len(changes) + 1
    BY <1>3, <1>4
  <1>6. changes # <<>> => First' = First
    BY <1>3, <1>4, HeadTailProperties DEF First
  <1> QED
    BY <1>3, <1>4, <1>5, <1>6 DEF new

(* What an ask keeps, given that the one who asks is live and that the     *)
(* delegate it names has been agreed to.                                   *)
LEMMA Asked ==
  ASSUME SettingsInv, session # 0, NEW config \in Config \ {None}, NEW policy \in BOOLEAN,
         Requests(config, policy),
         config.delegate \in agreed', agreed \subseteq agreed',
         UNCHANGED <<sessionVars, step>>
  PROVE  changes' \in Seq(Change) /\ NumberInv' /\ AgreedInv' /\ StoredInv'
  <1> USE SessionAssumption
  <1>1. session \in Sessions /\ session \in 1..started /\ changes \in Seq(Change)
    BY DEF SettingsInv, SettingsTypeOK, SessionTypeOK, Sessions
  <1> HIDE DEF SettingsInv
  <1>2. /\ changes' \in Seq(Change) /\ changes' # <<>>
        /\ \A i \in DOMAIN changes' :
             \/ i \in DOMAIN changes /\ changes'[i] = changes[i]
             \/ changes'[i] = [by |-> session, config |-> config, policy |-> policy]
        /\ changes # <<>> => First' = First
    BY <1>1, Requested
  <1>3. NumberInv'
    BY <1>1, <1>2 DEF SettingsInv, NumberInv, sessionVars
  <1>4. AgreedInv'
    BY <1>2 DEF SettingsInv, AgreedInv, sessionVars
  <1>5. StoredInv'
    BY <1>2 DEF SettingsInv, NumberInv, StoredInv, sessionVars
  <1> QED
    BY <1>2, <1>3, <1>4, <1>5

(* A queue that loses its head keeps what holds of the others.             *)
LEMMA Dequeued ==
  ASSUME SettingsInv, changes # <<>>, Dequeues
  PROVE  /\ changes' \in Seq(Change) /\ step' = "waiting"
         /\ \A i \in DOMAIN changes' :
              changes'[i].by \in 1..started /\ changes'[i].config.delegate \in agreed
  <1>1. /\ changes' \in Seq(Change)
        /\ \A i \in DOMAIN changes' : i + 1 \in DOMAIN changes /\ changes'[i] = changes[i + 1]
    BY HeadOfQueue DEF SettingsInv, SettingsTypeOK, Dequeues
  <1> QED
    BY <1>1 DEF SettingsInv, NumberInv, AgreedInv, Dequeues

----------------------------------------------------------------------------
(* What an action keeps.                                                   *)

(* A session that opens is the last one, and was built with what is stored.*)
LEMMA Opened ==
  ASSUME SettingsInv, Opens
  PROVE  /\ SessionTypeOK' /\ session' = started' /\ session' # 0 /\ started' = started + 1
         /\ base'[session'] = stored /\ stored' = stored
         /\ \A s \in Sessions : base'[s] = base[s] \/ base'[s] = stored
         /\ \A s \in 1..started : base'[s] = base[s]
  <1> USE SessionAssumption
  <1>1. started + 1 \in Sessions /\ started \in Nat
    BY DEF SettingsInv, SettingsTypeOK, SessionTypeOK, Opens, Sessions
  <1> QED
    BY <1>1 DEF SettingsInv, SettingsTypeOK, SessionTypeOK, Opens, Sessions

(* The wallet is locked, or the worker dies, and nothing is saved.         *)
LEMMA NoSession ==
  ASSUME SettingsInv, LockNow, UNCHANGED <<stored, agreed>>,
         \/ UNCHANGED <<changes, step>>
         \/ changes' = <<>> /\ step' = "waiting"
         \/ changes # <<>> /\ Dequeues
  PROVE  SessionTypeOK' /\ changes' \in Seq(Change) /\ NumberInv' /\ AgreedInv' /\ StoredInv'
  <1> USE SessionAssumption
  <1>1. SessionTypeOK'
    BY DEF SettingsInv, SettingsTypeOK, SessionTypeOK, LockNow
  <1>2. CASE UNCHANGED <<changes, step>>
    BY <1>1, <1>2
    DEF SettingsInv, SettingsTypeOK, NumberInv, AgreedInv, StoredInv, LockNow, First
  <1>3. CASE changes' = <<>> /\ step' = "waiting"
    BY <1>1, <1>3, EmptySeq
    DEF SettingsInv, SettingsTypeOK, NumberInv, AgreedInv, StoredInv, LockNow
  <1>4. CASE changes # <<>> /\ Dequeues
    BY <1>1, <1>4, Dequeued
    DEF SettingsInv, SettingsTypeOK, NumberInv, AgreedInv, StoredInv, LockNow
  <1> QED
    BY <1>2, <1>3, <1>4

(* All of it holds before a session was opened.                            *)
LEMMA SettingsBegin == SettingsInit => SettingsInv
  <1> SUFFICES ASSUME SettingsInit PROVE SettingsInv
    OBVIOUS
  <1> USE SessionAssumption DEF SettingsInit, SessionInit
  <1>a. SessionTypeOK
    BY DEF SessionTypeOK, Config
  <1>b. changes \in Seq(Change)
    BY EmptySeq
  <1>1. SettingsTypeOK
    BY <1>a, <1>b DEF SettingsTypeOK
  <1>2. NumberInv /\ StoredInv
    BY DEF NumberInv, StoredInv
  <1>3. AgreedInv
    BY DEF AgreedInv, Sessions, Config
  <1>4. PauseInv
    BY DEF PauseInv
  <1> QED
    BY <1>1, <1>2, <1>3, <1>4 DEF SettingsInv

(* A session asks for its pause once it met terms that are not its own, and *)
(* what a session was built with stays as it is.                           *)
LEMMA PausesAsked == SettingsInv /\ [SettingsNext]_settingsVars => PauseInv'
  <1> SUFFICES ASSUME SettingsInv, [SettingsNext]_settingsVars PROVE PauseInv'
    OBVIOUS
  <1> USE SessionAssumption
  <1>1. SettingsTypeOK /\ SessionTypeOK /\ PauseInv
    BY DEF SettingsInv, SettingsTypeOK
  <1>2. CASE RejectsPolicy
    <2>1. session = started /\ session \in 1..started /\ base[session] # None
      BY <1>1, <1>2 DEF RejectsPolicy, Enabled, SettingsInv, NumberInv, SessionTypeOK
    <2> QED
      BY <1>1, <1>2, <2>1 DEF RejectsPolicy, PauseInv, SettingsTypeOK, sessionVars
  <1>3. ASSUME \A s \in Sessions : pause'[s] = "asked" => pause[s] = "asked",
               UNCHANGED <<started, base>>
        PROVE  PauseInv'
    BY <1>1, <1>3 DEF PauseInv
  <1>4. ASSUME Opens, UNCHANGED pause PROVE PauseInv'
    <2>1. started' = started + 1 /\ started \in Nat /\ \A s \in 1..started : base'[s] = base[s]
      BY <1>1, <1>4, Opened DEF SessionTypeOK
    <2> QED
      BY <1>1, <1>4, <2>1 DEF PauseInv
  <1>5. CASE \/ Lock \/ SettingsDie \/ TermsChange \/ Preview \/ Approve \/ SetEnabled
             \/ ChangeChecked \/ ChangeBegins \/ ChangeSaved \/ ChangeFails \/ UNCHANGED settingsVars
    BY <1>1, <1>3, <1>5
    DEF Lock, LockNow, SettingsDie, TermsChange, Preview, Approve, SetEnabled, ChangeChecked,
        ChangeBegins, ChangeSaved, ChangeFails, CleansUp, settingsVars, sessionVars
  <1>6. CASE ChangeRefused \/ \E s \in Sessions : PauseAsked(s) \/ PauseLost(s)
    BY <1>1, <1>3, <1>6
    DEF ChangeRefused, PauseAsked, PauseLost, SettingsTypeOK, sessionVars
  <1>7. CASE Unlock \/ ChangeInstalls
    BY <1>3, <1>4, <1>7 DEF Unlock, ChangeInstalls, CleansUp, LockNow
  <1> QED
    BY <1>2, <1>5, <1>6, <1>7 DEF SettingsNext, ChangeProgress

(* Every step of the settings keeps the invariant.                         *)
LEMMA SettingsStep == SettingsInv /\ [SettingsNext]_settingsVars => SettingsInv'
  <1> SUFFICES ASSUME SettingsInv, [SettingsNext]_settingsVars PROVE SettingsInv'
    OBVIOUS
  <1> USE SessionAssumption
  <1> DEFINE Others ==
        /\ fenced \in BOOLEAN /\ (fenced => session = 0)
        /\ terms \in Delegates \cup {None}
        /\ shown \in Delegates \cup {None}
        /\ screen \in [by: Sessions, delegate: Delegates] \cup {None}
        /\ agreed \subseteq Delegates
        /\ pause \in [Sessions -> {"none", "asked", "queued", "lost"}]
        /\ step \in {"waiting", "checked", "saving", "saved"}
  <1>0. SettingsTypeOK /\ SessionTypeOK /\ Others /\ changes \in Seq(Change)
    BY DEF SettingsInv, SettingsTypeOK
  <1>a. ASSUME SessionTypeOK', Others', changes' \in Seq(Change),
               NumberInv', AgreedInv', StoredInv'
        PROVE  SettingsInv'
    BY <1>a, PausesAsked DEF SettingsInv, SettingsTypeOK
  <1>1. CASE Unlock
    <2>1. /\ SessionTypeOK' /\ session' = started' /\ session' # 0 /\ started' = started + 1
          /\ base'[session'] = stored /\ stored' = stored
          /\ \A s \in Sessions : base'[s] = base[s] \/ base'[s] = stored
          /\ \A s \in 1..started : base'[s] = base[s]
      BY <1>1, Opened DEF Unlock
    <2>2. Others' /\ changes' \in Seq(Change)
      BY <1>0, <1>1 DEF Unlock
    <2>3. NumberInv' /\ AgreedInv'
      BY <1>1, <2>1, <1>0 DEF Unlock, SettingsInv, NumberInv, AgreedInv, SessionTypeOK
    <2>4. step = "saving" => First.by \in 1..started
      BY <1>0, HeadOfQueue DEF SettingsInv, NumberInv
    <2>5. StoredInv'
      BY <1>1, <2>1, <2>4 DEF Unlock, SettingsInv, StoredInv, First
    <2> QED
      BY <1>a, <2>1, <2>2, <2>3, <2>5
  <1>2. CASE Lock
    <2>1. Others'
      BY <1>0, <1>2 DEF Lock, LockNow
    <2> QED
      BY <1>a, <1>2, <2>1, NoSession DEF Lock
  <1>3. CASE SettingsDie
    <2>1. Others'
      BY <1>0, <1>3 DEF SettingsDie, LockNow
    <2> QED
      BY <1>a, <1>3, <2>1, NoSession DEF SettingsDie
  <1>4. CASE \/ TermsChange \/ Preview \/ RejectsPolicy \/ UNCHANGED settingsVars
             \/ \E s \in Sessions : PauseLost(s)
    <2>1. UNCHANGED <<session, started, base, stored, fenced, agreed, changes, step>>
      BY <1>4 DEF TermsChange, Preview, RejectsPolicy, PauseLost, settingsVars, sessionVars
    <2>2. ASSUME TermsChange \/ Preview \/ UNCHANGED settingsVars PROVE Others'
      <3>1. session # 0 => session \in Sessions
        BY <1>0 DEF SessionTypeOK, Sessions
      <3> QED
        BY <1>0, <2>1, <2>2, <3>1 DEF TermsChange, Preview, settingsVars
    <2>4. ASSUME RejectsPolicy \/ \E s \in Sessions : PauseLost(s) PROVE Others'
      BY <1>0, <2>1, <2>4 DEF RejectsPolicy, PauseLost
    <2>5. Others'
      BY <1>4, <2>2, <2>4
    <2>3. SessionTypeOK' /\ NumberInv' /\ AgreedInv' /\ StoredInv'
      BY <2>1 DEF SettingsInv, SettingsTypeOK, SessionTypeOK, NumberInv, AgreedInv, StoredInv, First
    <2> QED
      BY <1>0, <1>a, <2>1, <2>3, <2>5
  <1>5. CASE Approve
    <2> DEFINE config == [delegate |-> shown, enabled |-> TRUE]
    <2>2. /\ config \in Config \ {None} /\ config.delegate = screen.delegate
          /\ screen.delegate \in Delegates
      <3>1. shown = screen.delegate /\ screen.delegate \in Delegates
        BY <1>0, <1>5 DEF Approve, Reviewed
      <3>2. config \in Config \ {None} /\ config.delegate = shown
        BY <3>1, Chosen
      <3> QED
        BY <3>1, <3>2
    <2>3. Others' /\ SessionTypeOK'
      BY <1>0, <1>5, <2>2 DEF Approve, SessionTypeOK, sessionVars
    <2>4. /\ Requests(config, FALSE) /\ config.delegate \in agreed' /\ agreed \subseteq agreed'
          /\ session # 0 /\ UNCHANGED <<sessionVars, step>>
      BY <1>5, <2>2 DEF Approve
    <2> HIDE DEF config
    <2> QED
      BY <1>a, <2>2, <2>3, <2>4, Asked
  <1>6. CASE SetEnabled
    <2>1. PICK on \in BOOLEAN : Requests([stored EXCEPT !.enabled = on], FALSE)
      BY <1>6 DEF SetEnabled
    <2> DEFINE config == [stored EXCEPT !.enabled = on]
    <2>2. config \in Config \ {None} /\ config.delegate = stored.delegate
      BY <1>0, <1>6, Toggled DEF SetEnabled, SessionTypeOK
    <2>5. Requests(config, FALSE)
      BY <2>1
    <2>3. /\ config.delegate \in agreed' /\ agreed \subseteq agreed'
          /\ session # 0 /\ UNCHANGED <<sessionVars, step>>
      BY <1>6, <2>2 DEF SetEnabled, SettingsInv, AgreedInv
    <2>4. Others' /\ SessionTypeOK'
      BY <1>0, <1>6 DEF SetEnabled, SessionTypeOK, sessionVars
    <2> HIDE DEF config
    <2> QED
      BY <1>a, <2>2, <2>3, <2>4, <2>5, Asked
  <1>7. ASSUME NEW s \in Sessions, PauseAsked(s) PROVE SettingsInv'
    <2> DEFINE config == [base[s] EXCEPT !.enabled = FALSE]
    <2>1. s = session /\ session # 0
      BY <1>7 DEF PauseAsked, Sessions
    <2>2. base[s] # None
      BY <1>7 DEF PauseAsked, SettingsInv, PauseInv
    <2>3. config \in Config \ {None} /\ config.delegate = base[s].delegate
      BY <1>0, <2>2, Toggled DEF SessionTypeOK
    <2>6. Requests(config, TRUE)
      BY <1>7 DEF PauseAsked
    <2>4. /\ config.delegate \in agreed' /\ agreed \subseteq agreed'
          /\ UNCHANGED <<sessionVars, step>>
      BY <1>7, <2>2, <2>3 DEF PauseAsked, SettingsInv, AgreedInv
    <2>5. Others' /\ SessionTypeOK'
      BY <1>0, <1>7 DEF PauseAsked, SessionTypeOK, sessionVars
    <2> HIDE DEF config
    <2> QED
      BY <1>a, <2>1, <2>3, <2>4, <2>5, <2>6, Asked
  <1>8. CASE ChangeChecked
    <2>1. Others' /\ SessionTypeOK'
      BY <1>0, <1>8 DEF ChangeChecked, SessionTypeOK, sessionVars
    <2>2. NumberInv' /\ AgreedInv' /\ StoredInv'
      BY <1>8
      DEF ChangeChecked, SettingsInv, NumberInv, AgreedInv, StoredInv, sessionVars
    <2> QED
      BY <1>0, <1>8, <1>a, <2>1, <2>2 DEF ChangeChecked
  <1>9. CASE ChangeRefused
    <2>1. changes' \in Seq(Change) /\ step' = "waiting"
          /\ \A i \in DOMAIN changes' :
               changes'[i].by \in 1..started /\ changes'[i].config.delegate \in agreed
      BY <1>9, Dequeued DEF ChangeRefused
    <2>5. pause' \in [Sessions -> {"none", "asked", "queued", "lost"}]
      BY <1>0, <1>9 DEF ChangeRefused
    <2>2. Others' /\ SessionTypeOK'
      BY <1>0, <1>9, <2>1, <2>5 DEF ChangeRefused, SessionTypeOK, sessionVars
    <2>3. step # "saved"
      BY <1>9 DEF ChangeRefused
    <2>4. NumberInv' /\ AgreedInv' /\ StoredInv'
      BY <1>9, <2>1, <2>3
      DEF ChangeRefused, SettingsInv, NumberInv, AgreedInv, StoredInv, sessionVars
    <2> QED
      BY <1>a, <2>1, <2>2, <2>4
  <1>10. CASE ChangeBegins
    <2>1. First.by = session /\ First.by \in 1..started
      BY <1>0, <1>10, HeadOfQueue DEF ChangeBegins, StillCurrent, Live, SettingsInv, NumberInv
    <2>2. Others' /\ SessionTypeOK'
      BY <1>0, <1>10 DEF ChangeBegins, SessionTypeOK
    <2>3. NumberInv' /\ AgreedInv'
      BY <1>10 DEF ChangeBegins, SettingsInv, NumberInv, AgreedInv
    <2>4. base[First.by] = stored
      BY <1>0, <1>10, <2>1 DEF ChangeBegins, SettingsInv, StoredInv, SessionTypeOK
    <2>5. StoredInv'
      BY <1>10, <2>4 DEF ChangeBegins, StoredInv, First
    <2> QED
      BY <1>0, <1>10, <1>a, <2>2, <2>3, <2>5 DEF ChangeBegins
  <1>11. CASE ChangeSaved
    <2>1. First \in Change /\ First.config.delegate \in agreed
      BY <1>0, <1>11, HeadOfQueue DEF ChangeSaved, SettingsInv, NumberInv, AgreedInv
    <2>2. Others' /\ SessionTypeOK'
      BY <1>0, <1>11, <2>1 DEF ChangeSaved, SessionTypeOK, Change
    <2>3. NumberInv' /\ AgreedInv' /\ StoredInv'
      BY <1>11, <2>1 DEF ChangeSaved, SettingsInv, NumberInv, AgreedInv, StoredInv
    <2> QED
      BY <1>0, <1>11, <1>a, <2>2, <2>3 DEF ChangeSaved
  <1>12. ASSUME CleansUp, Dequeues, changes # <<>>,
                UNCHANGED <<terms, screen, agreed, pause>>
         PROVE  SettingsInv'
    <2>1. LockNow /\ UNCHANGED <<stored, agreed>>
      BY <1>12 DEF CleansUp
    <2>3. Others'
      BY <1>0, <1>12, <2>1 DEF LockNow, Dequeues
    <2> QED
      BY <1>a, <1>12, <2>1, <2>3, NoSession
  <1>13. ASSUME ChangeInstalls, Opens, fenced' = FALSE
         PROVE  SettingsInv'
    <2>1. /\ SessionTypeOK' /\ session' = started' /\ session' # 0 /\ started' = started + 1
          /\ base'[session'] = stored /\ stored' = stored
          /\ \A s \in Sessions : base'[s] = base[s] \/ base'[s] = stored
      BY <1>13, Opened
    <2>2. changes # <<>>
      BY <1>13 DEF ChangeInstalls, SettingsInv, NumberInv
    <2>3. /\ changes' \in Seq(Change) /\ step' = "waiting"
          /\ \A i \in DOMAIN changes' :
               changes'[i].by \in 1..started /\ changes'[i].config.delegate \in agreed
      BY <1>13, <2>2, Dequeued DEF ChangeInstalls
    <2>4. Others'
      BY <1>0, <1>13, <2>3 DEF ChangeInstalls
    <2>5. NumberInv' /\ AgreedInv' /\ StoredInv'
      BY <1>0, <1>13, <2>1, <2>3
      DEF ChangeInstalls, SettingsInv, NumberInv, AgreedInv, StoredInv, SessionTypeOK
    <2> QED
      BY <1>a, <2>1, <2>3, <2>4, <2>5
  <1>14. CASE ChangeInstalls
    BY <1>12, <1>13, <1>14 DEF ChangeInstalls, SettingsInv, NumberInv
  <1>15. CASE ChangeFails
    BY <1>12, <1>15 DEF ChangeFails, SettingsInv, NumberInv
  <1> QED
    BY <1>1, <1>2, <1>3, <1>4, <1>5, <1>6, <1>7, <1>8, <1>9, <1>10, <1>11, <1>14, <1>15
    DEF SettingsNext, ChangeProgress

(* The inductive invariant of the settings.                                *)
THEOREM SettingsInvariant == SettingsSpec => []SettingsInv
  BY SettingsBegin, SettingsStep, PTL DEF SettingsSpec

(* The settings keep their types.                                          *)
THEOREM SettingsTypes == SettingsSpec => []SettingsTypeOK
  BY SettingsInvariant, PTL DEF SettingsInv

(* What is stored names a delegate whose terms the user has approved       *)
(* (delegation-settings.ts:159-162).                                       *)
THEOREM ApprovalStands == SettingsSpec => []ApprovedByUser
  <1>1. SettingsInv => ApprovedByUser
    BY DEF SettingsInv, AgreedInv, ApprovedByUser
  <1> QED
    BY <1>1, SettingsInvariant, PTL

----------------------------------------------------------------------------
(* What is saved, and when.                                                *)

(* Only the head of the queue writes, and what it writes over is what its  *)
(* session was built with.                                                 *)
LEMMA OnlyTheHeadWrites ==
  ASSUME SettingsInv, [SettingsNext]_settingsVars, stored' # stored
  PROVE  ChangeSaved /\ stored = base[First.by]
  <1>1. ChangeSaved
    BY DEF SettingsNext, ChangeProgress, Unlock, Opens, Lock, SettingsDie, TermsChange, Preview,
           Approve, SetEnabled, RejectsPolicy, ChangeChecked, ChangeRefused, ChangeBegins,
           ChangeFails, ChangeInstalls, CleansUp, PauseAsked, PauseLost, settingsVars, sessionVars
  <1> QED
    BY <1>1 DEF ChangeSaved, SettingsInv, StoredInv

(* A change is saved only over the configuration its requester saw: two    *)
(* competing changes cannot silently overwrite one another                 *)
(* (delegation-session.ts:17-20).                                          *)
THEOREM NothingOverwritten == SettingsSpec => NoSilentOverwrite
  <1>1. SettingsInv /\ [SettingsNext]_settingsVars
        => [stored' # stored => stored = base[First.by]]_settingsVars
    BY OnlyTheHeadWrites
  <1> QED
    BY <1>1, SettingsInvariant, PTL DEF SettingsSpec, NoSilentOverwrite

----------------------------------------------------------------------------
(* The refinement: a session that outlived the write of another            *)
(* configuration counts as ended.                                          *)

Counted == IF session # 0 /\ base[session] # stored THEN 0 ELSE session

PromisedVars == <<Counted, started, base, stored>>

(* What the abstract actions come to under the mapping.                    *)
LEMMA PromiseMeans ==
  /\ Promise!SessionInit <=>
       /\ Counted = 0 /\ started = 0
       /\ base = [s \in Sessions |-> None] /\ stored \in Config
  /\ Promise!Opens <=>
       /\ Counted = 0 /\ started < MaxSessions
       /\ Counted' = started + 1 /\ started' = started + 1
       /\ base' = [base EXCEPT ![started + 1] = stored]
       /\ UNCHANGED stored
  /\ Promise!Ends <=> Counted # 0 /\ Counted' = 0 /\ UNCHANGED <<started, base, stored>>
  /\ Promise!Saves <=>
       Counted' = 0 /\ stored' \in Config \ {None} /\ UNCHANGED <<started, base>>
  /\ Promise!SessionNext <=> Promise!Opens \/ Promise!Ends \/ Promise!Saves
  BY DEF Promise!SessionInit, Promise!Opens, Promise!Ends, Promise!Saves, Promise!SessionNext,
         Promise!Sessions, Promise!Config, Counted, Sessions, Config

(* A session that opens is counted: it was built with what is stored.      *)
LEMMA OpeningCounts ==
  ASSUME SettingsInv, Opens
  PROVE  Promise!Opens
  <1>1. Counted = 0
    BY DEF Opens, Counted
  <1>2. session' # 0 /\ base'[session'] = stored'
    BY Opened
  <1>3. Counted' = session'
    BY <1>2 DEF Counted
  <1> QED
    BY <1>1, <1>3, PromiseMeans DEF Opens

(* A session that ends, or that was not counted, is no more than an end.   *)
LEMMA EndingCounts ==
  ASSUME session' = 0, UNCHANGED <<started, base, stored>>
  PROVE  Promise!Ends \/ UNCHANGED PromisedVars
  <1>1. Counted' = 0
    BY DEF Counted
  <1> QED
    BY <1>1, PromiseMeans DEF PromisedVars

(* What moves none of the four variables is a stutter.                     *)
LEMMA RestStutters ==
  ASSUME UNCHANGED sessionVars
  PROVE  UNCHANGED PromisedVars
  BY DEF sessionVars, PromisedVars, Counted

(* What is saved leaves no session that counts, unless it says what was    *)
(* stored already.                                                         *)
LEMMA SavingCounts ==
  ASSUME SettingsInv, ChangeSaved
  PROVE  Promise!Saves \/ UNCHANGED PromisedVars
  <1>1. stored' \in Config \ {None}
    BY HeadOfQueue DEF SettingsInv, SettingsTypeOK, NumberInv, ChangeSaved, Change
  <1>2. UNCHANGED <<session, started, base>> /\ step = "saving"
    BY DEF ChangeSaved
  <1>3. CASE stored' = stored
    BY <1>2, <1>3, RestStutters DEF sessionVars
  <1>4. CASE stored' # stored
    <2>1. session # 0 => base[session] = stored
      BY <1>2 DEF SettingsInv, StoredInv
    <2>2. Counted' = 0
      BY <1>2, <1>4, <2>1 DEF Counted
    <2> QED
      BY <1>1, <1>2, <2>2, PromiseMeans
  <1> QED
    BY <1>3, <1>4

(* The settings begin as they promise to.                                  *)
LEMMA PromiseBegins == SettingsInit => Promise!SessionInit
  BY PromiseMeans DEF SettingsInit, SessionInit, Counted

(* Every step of the settings is one that was promised, or a stutter.      *)
LEMMA PromiseStep ==
  ASSUME SettingsInv, [SettingsNext]_settingsVars
  PROVE  [Promise!SessionNext]_(Promise!sessionVars)
  <1>a. ASSUME Promise!Opens \/ Promise!Ends \/ Promise!Saves \/ UNCHANGED PromisedVars
        PROVE  [Promise!SessionNext]_(Promise!sessionVars)
    BY <1>a, PromiseMeans DEF Promise!sessionVars, PromisedVars, Counted
  <1>1. CASE Unlock
    BY <1>1, <1>a, OpeningCounts DEF Unlock
  <1>2. CASE Lock \/ SettingsDie \/ ChangeFails \/ ChangeBegins
    BY <1>2, <1>a, EndingCounts DEF Lock, SettingsDie, ChangeFails, ChangeBegins, CleansUp, LockNow
  <1>3. CASE ChangeInstalls
    BY <1>3, <1>a, OpeningCounts, EndingCounts DEF ChangeInstalls, CleansUp, LockNow
  <1>4. CASE ChangeSaved
    BY <1>4, <1>a, SavingCounts
  <1>5. CASE \/ TermsChange \/ Preview \/ Approve \/ SetEnabled \/ RejectsPolicy
             \/ ChangeChecked \/ ChangeRefused \/ UNCHANGED settingsVars
             \/ \E s \in Sessions : PauseAsked(s) \/ PauseLost(s)
    <2>1. UNCHANGED sessionVars
      BY <1>5 DEF TermsChange, Preview, Approve, SetEnabled, RejectsPolicy, ChangeChecked,
                  ChangeRefused, PauseAsked, PauseLost, settingsVars
    <2> QED
      BY <1>a, <2>1, RestStutters
  <1> QED
    BY <1>1, <1>2, <1>3, <1>4, <1>5 DEF SettingsNext, ChangeProgress

(* The settings keep the promise of DelegationSession: a live session runs *)
(* with the configuration that is stored, and a configuration is stored    *)
(* only while no session is live (delegation-session.ts:66-72).            *)
THEOREM PromiseKept == SettingsSpec => SessionsAsPromised
  BY PromiseBegins, PromiseStep, SettingsInvariant, PTL
  DEF SettingsSpec, SessionsAsPromised, Promise!SessionSpec
=============================================================================
