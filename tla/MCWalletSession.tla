-------------------------- MODULE MCWalletSession --------------------------
(* A small instance of WalletSession for TLC. *)
EXTENDS WalletSession

\* Unlock handlers are interchangeable, so a new one takes the first idle name;
\* declaring the symmetry instead would not be sound for liveness.
FirstIdle ==
  LET first == CHOOSE u \in Unlockers : TRUE
  IN  \A u \in Unlockers \ {first} :
        opener[u].pc = "idle" /\ opener'[u].pc # "idle" => opener[first].pc # "idle"

MCNext == Next /\ FirstIdle

MCSpec == Init /\ [][MCNext]_vars /\ WF_vars(Progress)
============================================================================
