--------------------------- MODULE MCSiteRequests ---------------------------
(* SiteRequests for TLC. *)
EXTENDS SiteRequests

First(S) == CHOOSE x \in S : TRUE

\* Calls of a kind, and the sites, are interchangeable, so they are used in one
\* order; declaring the symmetry instead would not be sound for liveness.
InOrder ==
  /\ \A t \in Connects \ {First(Connects)} :
       pc[t] = "new" /\ pc'[t] # "new" => pc[First(Connects)] # "new"
  /\ (\A t \in Tasks : pc[t] = "new") =>
       \A t \in Tasks : pc'[t] # "new" => site'[t] = First(Origins)

MCNext == SiteNext /\ InOrder

MCSpec == SiteInit /\ [][MCNext]_siteVars /\ WF_siteVars(SiteProgress)
=============================================================================
