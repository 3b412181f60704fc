------------------------ MODULE MCDelegationSettings ------------------------
(* Model-checking instances of DelegationSettings. *)
EXTENDS DelegationSettings
=============================================================================
