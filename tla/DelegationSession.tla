-------------------------- MODULE DelegationSession --------------------------
(***************************************************************************)
(* What the rest of the wallet may count on from the delegation settings:  *)
(* a live session runs with the configuration that is stored, and a        *)
(* configuration is stored only while no session is live.  A session is    *)
(* known by its number, which also stands for its wallet.                  *)
(* DelegationSettings is shown to implement this.                          *)
(***************************************************************************)
EXTENDS Naturals

CONSTANTS
  Delegates,   \* the terms a delegate may advertise: key, address, no fee
  None,
  MaxSessions  \* bound: how many sessions are opened

ASSUME SessionAssumption ==
  /\ None \notin Delegates /\ None \notin [delegate: Delegates, enabled: BOOLEAN]
  /\ MaxSessions \in Nat \ {0}

VARIABLES
  session,  \* the live session, 0 when there is none
  started,  \* how many sessions were opened
  base,     \* the configuration each session's wallet was built with
  stored    \* the saved DelegationConfig

sessionVars == <<session, started, base, stored>>

Sessions == 1..MaxSessions
Config == [delegate: Delegates, enabled: BOOLEAN] \cup {None}

SessionTypeOK ==
  /\ started \in 0..MaxSessions /\ session \in 0..started
  /\ base \in [Sessions -> Config] /\ stored \in Config

SessionInit ==
  /\ session = 0 /\ started = 0
  /\ base = [s \in Sessions |-> None] /\ stored \in Config

Live(s) == s = session
Enabled(s) == base[s] # None /\ base[s].enabled

\* A wallet is built for a new session, with the configuration then stored.
Opens ==
  /\ session = 0 /\ started < MaxSessions
  /\ session' = started + 1 /\ started' = started + 1
  /\ base' = [base EXCEPT ![started + 1] = stored]
  /\ UNCHANGED stored

Ends == session # 0 /\ session' = 0 /\ UNCHANGED <<started, base, stored>>

Saves ==
  /\ session' = 0
  /\ stored' \in Config \ {None}
  /\ UNCHANGED <<started, base>>

SessionNext == Opens \/ Ends \/ Saves

SessionSpec == SessionInit /\ [][SessionNext]_sessionVars
=============================================================================
