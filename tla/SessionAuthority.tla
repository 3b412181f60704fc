-------------------------- MODULE SessionAuthority --------------------------
(***************************************************************************)
(* What the session code promises, with no epochs, fences or files.  A     *)
(* password entry grants an authority.  An authority can be suspended and  *)
(* resumed, but once it has ended it is never held again; the network the  *)
(* wallet is stored under changes only while nobody is unlocked.           *)
(* (docs/ARCHITECTURE.md:223-250.)                                         *)
(***************************************************************************)
EXTENDS Naturals

CONSTANT Networks

VARIABLES
  mode,     \* "locked", "unlocked", or "fenced": suspended by a transition
  holder,   \* the authority held or suspended, 0 when locked
  ended,    \* the authorities that have been ended
  stored    \* the network of the stored wallet

authorityVars == <<mode, holder, ended, stored>>

Init ==
  /\ mode = "locked"
  /\ holder = 0
  /\ ended = {}
  /\ stored \in Networks

Grant ==
  /\ mode # "fenced"
  /\ mode' = "unlocked"
  /\ holder' \in Nat \ (ended \cup {0, holder})
  /\ UNCHANGED <<ended, stored>>

Suspend ==
  /\ mode = "unlocked"
  /\ mode' = "fenced"
  /\ UNCHANGED <<holder, ended, stored>>

Resume ==
  /\ mode = "fenced"
  /\ mode' = "unlocked"
  /\ UNCHANGED <<holder, ended, stored>>

End ==
  /\ mode # "locked"
  /\ mode' = "locked"
  /\ holder' = 0
  /\ ended' = ended \cup {holder}
  /\ UNCHANGED stored

Rebind ==
  /\ mode # "unlocked"
  /\ stored' \in Networks
  /\ UNCHANGED <<mode, holder, ended>>

\* The process starts over: nothing is held and nothing is remembered.
Restart ==
  /\ mode' = "locked"
  /\ holder' = 0
  /\ ended' = {}
  /\ UNCHANGED stored

Next == Grant \/ Suspend \/ Resume \/ End \/ Rebind \/ Restart

Spec == Init /\ [][Next]_authorityVars
============================================================================
