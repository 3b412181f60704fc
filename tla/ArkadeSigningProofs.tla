------------------------- MODULE ArkadeSigningProofs -------------------------
(***************************************************************************)
(* What an Arkade approval is worth while it is in the map, for any number *)
(* of sites, transactions and completions.  The steps of ArkadeSigning     *)
(* keep the invariant of SiteRequests; on top of it the inductive          *)
(* invariant says why the map needs no look at the grants: a grant is      *)
(* written only while a change of its connection is open, and a change     *)
(* that begins takes the approvals of its site out of the map and leaves   *)
(* those on their way into it with an old version.  And what holds of the  *)
(* inspection that comes before an approval, whatever is inspected.        *)
(***************************************************************************)
EXTENDS ArkadeSigning, ArkadeInspection, SiteRequestsProofs, FiniteSetTheorems

\* On its way to the prompt, or under an approval at work.
Asked == {"checked", "granted", "inspecting", "reading", "rechecked"}

Working == {"authorizing", "authorized", "signing"}

\* An approval on its way into the map knows whether a change began meanwhile.
ConnectionInv ==
  \A t \in Transactions :
    /\ pc[t] \in Asked =>
         /\ approval[t].version <= connection[site[t]].version
         /\ approval[t].version = connection[site[t]].version =>
              /\ connection[site[t]].pending = 0
              /\ pc[t] = "rechecked" => grants[site[t]] = approval[t].grant
    /\ t \in arkade => SameConnection(t) /\ grants[site[t]] = approval[t].grant

\* Whose approval is in the map, and whose is ready for completions.
MapInv ==
  /\ \A t \in arkade :
       /\ InSession(t)
       /\ pc[t] \in Working \cup {"prompted", "signed"}
       /\ pc[t] = "signed" => approval[t].ready
  /\ \A t \in Transactions :
       /\ pc[t] \in Asked \cup Working \cup {"new", "prompted", "signed", "done"}
       /\ approval[t].ready => pc[t] = "signed"
       /\ approval[t].busy => approval[t].ready
       /\ pc[t] \in Working \cup {"signed"} => verdict[t] = "approved"

\* A completion at work has its approval to itself.
BusyInv ==
  /\ \A c \in Completions :
       /\ pc[c] \in Working \cup {"new", "signed", "done"}
       /\ pc[c] \in Working =>
            /\ target[c] \in Transactions /\ site[target[c]] = site[c]
            /\ approval[target[c]].ready /\ approval[target[c]].busy
  /\ \A c, d \in Completions :
       pc[c] \in Working /\ pc[d] \in Working /\ target[c] = target[d] => c = d
  /\ \A t \in arkade :
       approval[t].busy => \E c \in Completions : target[c] = t /\ pc[c] \in Working

\* What has been answered is what the approval has on record.
AnswerInv ==
  \A c \in Completions :
    /\ pc[c] \in Working =>
         /\ request[c] \in Requests
         /\ todo[c] = <<"prepare">> \/ approval[target[c]].completed \in {None, request[c]}
    /\ answer[c] # None =>
         /\ pc[c] = "signed" /\ target[c] \in Transactions
         /\ approval[target[c]].completed = answer[c]

ArkadeInv ==
  ArkadeTypeOK /\ SiteInv /\ ConnectionInv /\ MapInv /\ BusyInv /\ AnswerInv

----------------------------------------------------------------------------
(* A step of a transaction or a completion, as SiteRequests sees it.       *)

HandlerStep(k) ==
  \/ k \in Transactions /\ (ApproveSteps(k) \/ \E o \in Origins : ApproveAsk(k, o))
  \/ k \in Completions /\ (\/ Prepares(k) \/ Releases(k)
                           \/ \E o \in Origins, t \in Transactions : CompleteAsk(k, o, t))
  \/ HandlerSteps(k)

Moves(k) ==
  /\ UNCHANGED <<sessionVars, grantVars, connection>>
  /\ arkade' \in SUBSET Transactions
  /\ pc' \in [Tasks -> SitePC] /\ pc'[k] # "new"
  /\ site' \in [Tasks -> Origins \cup {None}] /\ site'[k] \in Origins
  /\ bound' \in [Tasks -> Nat]
  /\ \A u \in Tasks \ {k} : pc'[u] = pc[u] /\ site'[u] = site[u] /\ bound'[u] = bound[u]
  /\ pc[k] # "new" => site'[k] = site[k]
  /\ pc[k] # "granted" => bound' = bound
  /\ \/ /\ k \in Transactions /\ pc[k] \in Unasked /\ InSession(k)
        /\ Prompts(k) /\ bound' = bound
     \/ /\ UNCHANGED promptVars /\ (k # prompt \/ Abandoned(k)') /\ pc'[k] # "prompted"
        /\ (pc'[k] \in Unasked => pc[k] \in Unasked)

\* A step is one of the sites', of an approval's clock, or of a handler.
LEMMA NextCases ==
  ASSUME [Next]_vars
  PROVE  \/ [SiteNext]_siteVars /\ UNCHANGED arkadeVars
         \/ \E t \in Transactions : Expires(t)
         \/ \E k \in Handlers : HandlerStep(k)
  BY DEF Next, vars, ArkadeProgress, ArkadeAsks, SiteNext, HandlerStep, Handlers

\* How a handler gets from one place to the next.
LEMMA Goings ==
  ASSUME SiteTypeOK, NEW k \in Tasks, NEW to \in SitePC \ {"new"}, Goes(k, to)
  PROVE  /\ pc' \in [Tasks -> SitePC] /\ pc'[k] = to /\ pc'[k] # "new"
         /\ \A u \in Tasks \ {k} : pc'[u] = pc[u]
  BY DEF SiteTypeOK, Goes

\* Every step of a handler is a move, in the terms of SiteRequests.
LEMMA Moved ==
  ASSUME ArkadeTypeOK, SiteInv, NEW k \in Handlers, HandlerStep(k)
  PROVE  Moves(k)
  <1>0. SiteTypeOK /\ k \in Tasks /\ k \notin Connects \cup Signs \cup Disconnects
        /\ k # None /\ (pc[k] # "new" => site[k] \in Origins)
    BY SiteAssumption DEF SiteInv, Handlers, Tasks, SiteTypeOK
  <1>1. ASSUME pc[k] # "new", UNCHANGED <<sessionVars, promptVars, grantVars, connection, site>>,
               arkade' \in SUBSET Transactions,
               bound' = bound \/ (pc[k] = "granted" /\ bound' = [bound EXCEPT ![k] = live]),
               NEW to \in SitePC \ {"new", "prompted"}, Goes(k, to),
               k # prompt \/ (StorageFails /\ to = "done"),
               to \in Unasked => pc[k] \in Unasked
        PROVE  Moves(k)
    <2>1. bound' \in [Tasks -> Nat] /\ (\A u \in Tasks \ {k} : bound'[u] = bound[u])
          /\ (pc[k] # "granted" => bound' = bound)
      <3>1. bound \in [Tasks -> Nat] /\ live \in Nat
        BY <1>0 DEF SiteTypeOK
      <3>2. bound' = bound \/ (pc[k] = "granted" /\ bound' = [bound EXCEPT ![k] = live])
        BY <1>1
      <3> QED BY <3>1, <3>2
    <2>2. /\ pc' \in [Tasks -> SitePC] /\ pc'[k] = to
          /\ \A u \in Tasks \ {k} : pc'[u] = pc[u]
      BY <1>0, <1>1, Goings
    <2>3. site' \in [Tasks -> Origins \cup {None}] /\ site' = site
      BY <1>0, <1>1 DEF SiteTypeOK
    <2>4. k # prompt \/ Abandoned(k)'
      BY <1>1, <2>2 DEF Abandoned
    <2> QED BY <1>0, <1>1, <2>1, <2>2, <2>3, <2>4 DEF Moves
  <1>2. ASSUME NEW o \in Origins, NEW to \in {"checked", "authorizing"}, Asks(k, o, to),
               UNCHANGED <<sessionVars, promptVars, grantVars, authorityVars, bound>>
        PROVE  Moves(k)
    <2>1. pc[k] = "new" /\ site' = [site EXCEPT ![k] = o] /\ pc' = [pc EXCEPT ![k] = to]
      BY <1>2 DEF Asks, Goes
    <2>2. k # prompt /\ to \in SitePC
      BY <1>0, <2>1 DEF SiteInv, PromptInv, Abandoned, SitePC
    <2>3. /\ pc' \in [Tasks -> SitePC] /\ pc'[k] = to
          /\ site' \in [Tasks -> Origins \cup {None}] /\ site'[k] = o
          /\ \A u \in Tasks \ {k} : pc'[u] = pc[u] /\ site'[u] = site[u]
      BY <1>0, <2>1, <2>2 DEF SiteTypeOK
    <2>4. arkade' \in SUBSET Transactions /\ bound' \in [Tasks -> Nat] /\ bound' = bound
          /\ connection' = connection
      BY <1>0, <1>2 DEF SiteTypeOK, authorityVars
    <2>5. pc[k] \in Unasked
      BY <2>1 DEF Unasked
    <2> QED BY <1>2, <2>1, <2>2, <2>3, <2>4, <2>5 DEF Moves
  <1>3. /\ arkade \in SUBSET Transactions
        /\ prompt = k => pc[k] \in {"prompted", "failed", "done"} /\ verdict[k] = "none"
    BY <1>0 DEF SiteInv, PromptInv, Abandoned, SiteTypeOK, Tasks
  <1>4. CASE k \in Transactions /\ ApprovePrompts(k)
    <2>1. pc[k] = "rechecked" /\ Prompts(k) /\ InSession(k) /\ arkade' = arkade \cup {k}
          /\ UNCHANGED <<sessionVars, grantVars, connection, site, bound>>
      BY <1>4 DEF ApprovePrompts
    <2>2. pc' \in [Tasks -> SitePC] /\ pc'[k] = "prompted" /\ \A u \in Tasks \ {k} : pc'[u] = pc[u]
      BY <1>0, <2>1, Goings DEF Prompts, SitePC
    <2> QED BY <1>0, <1>3, <1>4, <2>1, <2>2 DEF Moves, SiteTypeOK, Unasked
  <1>5. CASE k \in Transactions /\ \E o \in Origins : ApproveAsk(k, o)
    BY <1>2, <1>5 DEF ApproveAsk
  <1>6. CASE k \in Completions /\ \E o \in Origins, t \in Transactions : CompleteAsk(k, o, t)
    BY <1>2, <1>6 DEF CompleteAsk
  <1>7. CASE ApproveReadsGrant(k) \/ ApproveContext(k) \/ ApproveInspected(k) \/ ApproveRereads(k)
    BY <1>1, <1>3, <1>7 DEF ApproveReadsGrant, ApproveContext, ApproveInspected, ApproveRereads,
       authorityVars, SitePC, Unasked
  <1>8. CASE ApproveApproved(k)
    BY <1>1, <1>3, <1>8 DEF ApproveApproved, Approved, Declined, authorityVars, SitePC, Unasked
  <1>9. ASSUME NEW dropped, Fails(k, dropped), pc[k] # "new", k # prompt \/ StorageFails,
               UNCHANGED <<sessionVars, promptVars, grantVars, connection, site, bound>>
        PROVE  Moves(k)
    BY <1>1, <1>3, <1>9 DEF Fails, SitePC, Unasked
  <1>10. CASE ApproveFails(k) \/ HandlerFails(k)
    <2>1. /\ Fails(k, {}) /\ pc[k] # "new" /\ (k # prompt \/ StorageFails)
          /\ UNCHANGED <<sessionVars, promptVars, grantVars, connection, site, bound>>
      BY <1>3, <1>10 DEF ApproveFails, HandlerFails, Declined
    <2> QED BY <1>9, <2>1
  <1>11. CASE ReadsGrant(k)
    <2>1. pc[k] = "authorizing" /\ k # prompt
      BY <1>3, <1>11 DEF ReadsGrant
    <2>2. CASE grants[site[k]] = approval[Of(k)].grant
      BY <1>1, <1>3, <1>11, <2>1, <2>2 DEF ReadsGrant, SitePC, Unasked
    <2>3. CASE grants[site[k]] # approval[Of(k)].grant
      BY <1>9, <1>11, <2>1, <2>3 DEF ReadsGrant
    <2> QED BY <2>2, <2>3
  <1>12. CASE StartsSigner(k) \/ SignerEnds(k) \/ Checks(k) \/ Stages(k) \/ ReleasesAll(k)
              \/ Prepares(k) \/ Releases(k)
    BY <1>1, <1>3, <1>12 DEF StartsSigner, SignerEnds, Checks, Stages, ReleasesAll, Prepares, Releases,
       Authorized, authorityVars, SitePC, Unasked
  <1> QED
    BY <1>4, <1>5, <1>6, <1>7, <1>8, <1>10, <1>11, <1>12 DEF HandlerStep, ApproveSteps, HandlerSteps

\* A handler that moves keeps what holds of the sites.
LEMMA SiteAfterMove ==
  ASSUME SiteInv, NEW k \in Handlers, Moves(k)
  PROVE  SiteInv'
  <1> USE SiteAssumption DEF Tasks
  <1>0. /\ SiteTypeOK /\ QueueInv /\ CountInv /\ PromptInv /\ GrantInv
        /\ k \in Tasks /\ k \notin Connects \cup Disconnects
        /\ UNCHANGED <<live, sessions, grants, mutations, stage, connection>>
        /\ \A u \in Tasks \ {k} : pc'[u] = pc[u] /\ site'[u] = site[u] /\ bound'[u] = bound[u]
    BY DEF SiteInv, Moves, Handlers, sessionVars, grantVars
  <1>1. \A u \in Connects \cup Disconnects : pc'[u] = pc[u] /\ site'[u] = site[u]
    BY <1>0
  <1>2. QueueInv'
    BY <1>0, <1>1, QueueKept
  <1>3. CountInv'
    BY <1>0, <1>1, CountUntouched
  <1>4. GrantInv'
    BY <1>0, <1>1, GrantKept
  <1>5. PromptInv'
    <2>1. CASE Prompts(k) /\ pc[k] \in Unasked /\ InSession(k) /\ bound' = bound
      <3>1. InSession(k)'
        BY <1>0, <2>1 DEF InSession
      <3> QED BY <1>0, <2>1, <3>1, PromptShown
    <2>2. CASE UNCHANGED promptVars /\ (k # prompt \/ Abandoned(k)') /\ (pc'[k] \in Unasked => pc[k] \in Unasked)
      <3>1. k = prompt => bound'[k] = bound[k]
        <4>1. k = prompt => pc[k] # "granted"
          BY <1>0, SiteAssumption DEF PromptInv, Abandoned
        <4> QED BY <4>1 DEF Moves
      <3> QED BY <1>0, <2>2, <3>1, PromptKept
    <2> QED BY <2>1, <2>2 DEF Moves
  <1>6. SiteTypeOK'
    <2>1. prompt' \in Tasks \cup {None} /\ verdict' \in [Tasks -> {"none", "approved", "refused", "lost"}]
      BY <1>0 DEF Moves, Prompts, promptVars, SiteTypeOK
    <2> QED BY <1>0, <2>1 DEF SiteTypeOK, Moves
  <1> QED BY <1>2, <1>3, <1>4, <1>5, <1>6 DEF SiteInv

\* So does every step of the sites.
LEMMA SiteStep ==
  ASSUME SiteInv, [SiteNext]_siteVars
  PROVE  SiteInv'
  BY QueueStep, CountStep, TypeStep, PromptStep, GrantStep DEF SiteInv

\* So does an approval that expires.
LEMMA SiteAfterExpiry ==
  ASSUME SiteInv, NEW t \in Transactions, Expires(t)
  PROVE  SiteInv'
  <1>1. /\ UNCHANGED <<live, sessions, prompt, verdict, grants, mutations, stage, connection, pc, site, bound>>
        /\ arkade' = arkade \ {t}
    BY DEF Expires, sessionVars, promptVars, grantVars, taskVars
  <1>2. QueueInv' /\ CountInv' /\ PromptInv' /\ GrantInv'
    <2>1. QueueInv' /\ CountInv'
      BY <1>1 DEF SiteInv, QueueInv, Awaited, CountInv, Own, Inner, Owns, Holds, Undoing
    <2>2. PromptInv' /\ GrantInv'
      BY <1>1 DEF SiteInv, PromptInv, Abandoned, InSession, GrantInv
    <2> QED BY <2>1, <2>2
  <1> QED BY <1>1, <1>2 DEF SiteInv, SiteTypeOK

----------------------------------------------------------------------------
(* What the steps of the others do to the approvals.                       *)

\* A change of o's connection begins, and its approvals go; or some come to
\* an end, of which at least one was open; or there is no change.
Changed(o) ==
  \/ connection'[o] = connection[o]
  \/ /\ connection'[o].version = connection[o].version + 1
     /\ \A t \in arkade' : site[t] # o
  \/ connection'[o].version = connection[o].version /\ connection[o].pending >= 1

\* Whoever may write the grants has a change open.
LEMMA WritesAreChanges ==
  ASSUME SiteInv, MayWrite
  PROVE  \E o \in Origins : o = site[Head(mutations).by] /\ connection[o].pending >= 1
  <1>1. Head(mutations) \in Mutation /\ Awaited(Head(mutations)) /\ mutations # <<>>
    BY HeadAndTail DEF MayWrite, SiteInv, SiteTypeOK, QueueInv
  <1>2. Head(mutations).by \in Connects \cup Disconnects /\ Holds(Head(mutations).by)
    BY <1>1 DEF MayWrite, Awaited, Holds, Undoing, Mutation
  <1>3. PICK o \in Origins : o = site[Head(mutations).by]
    BY <1>1 DEF Awaited, SiteInv, SiteTypeOK, Tasks
  <1>4. Inner(o) # {}
    BY <1>2, <1>3 DEF Inner
  <1> QED BY <1>3, <1>4, Pending DEF SiteInv

\* A site's grant is written only while a change of it is open.
LEMMA GrantsChange ==
  ASSUME SiteInv, [SiteNext]_siteVars, NEW o \in Origins, grants'[o] # grants[o]
  PROVE  connection[o].pending >= 1 /\ connection' = connection
  <1>1. MutationLands
    BY DEF SiteNext, SiteProgress, QueueSteps, SiteAsks, ConnectSteps, DisconnectSteps, SignSteps,
       UserDecides, RevokeIfReads, MutationFails, Lock, Unlock, WorkerDies, ConnectPrompt, ConnectRefused,
       ConnectGrants, ConnectGranted, ConnectUndone, DisconnectRevokes, DisconnectThrows, DisconnectRevoked,
       DisconnectEnds, SignContext, SignInspected, SignRefused, SignStarts, ConnectAsk, DisconnectAsk,
       SignAsk, Enqueue, grantVars, siteVars
  <1>2. grants' = Writes(Head(mutations)) /\ MayWrite /\ connection' = connection
    BY <1>1 DEF MutationLands, authorityVars
  <1>3. o = site[Head(mutations).by]
    BY <1>2 DEF Writes, SiteInv, SiteTypeOK
  <1> QED BY <1>2, <1>3, WritesAreChanges

\* A change that begins ends the approvals of its site.
LEMMA Begins ==
  ASSUME SiteTypeOK, NEW p \in Origins, BeginChange(p)
  PROVE  arkade' \subseteq arkade /\ \A o \in Origins : Changed(o)
  BY Begun DEF Changed

\* Changes that end were open.
LEMMA Finishes ==
  ASSUME SiteTypeOK, SiteTypeOK', NEW p \in Origins, NEW n \in Nat, EndChanges(p, n)
  PROVE  \A o \in Origins : Changed(o)
  <1>1. /\ connection'[p].pending = connection[p].pending - n
        /\ connection'[p].version = connection[p].version
        /\ \A o \in Origins \ {p} : connection'[o] = connection[o]
    BY Ended
  <1>2. connection[p] \in [version: Nat, pending: Nat] /\ connection'[p] \in [version: Nat, pending: Nat]
    BY DEF SiteTypeOK
  <1>3. CASE n = 0
    <2>1. connection'[p] = connection[p]
      BY <1>1, <1>2, <1>3
    <2> QED BY <1>1, <2>1 DEF Changed
  <1>4. CASE n # 0
    BY <1>1, <1>2, <1>4 DEF Changed
  <1> QED BY <1>3, <1>4

\* Every step but the worker's death, for the handlers of Arkade payments.
LEMMA Others ==
  ASSUME SiteInv, [SiteNext]_siteVars, ~WorkerDies
  PROVE  /\ \A k \in Handlers : pc'[k] = pc[k] /\ site'[k] = site[k] /\ bound'[k] = bound[k]
         /\ \A k \in Handlers : pc[k] \notin {"prompted", "failed", "done"} => verdict'[k] = verdict[k]
         /\ arkade' \subseteq arkade
         /\ live' = live \/ arkade' = {}
         /\ \A o \in Origins : Changed(o)
  <1> USE SiteAssumption DEF Tasks, Handlers
  <1>0. SiteTypeOK /\ SiteTypeOK'
    BY SiteStep DEF SiteInv
  <1>t. \A k \in Handlers : k \in Tasks /\ k \notin Connects \cup Signs \cup Disconnects
    OBVIOUS
  <1>p. prompt # None => prompt \in Tasks /\ pc[prompt] \in {"prompted", "failed", "done"}
    BY DEF SiteInv, PromptInv, Abandoned
  <1>1. CASE UNCHANGED siteVars \/ Lock \/ Unlock \/ UserDecides \/ MutationLands \/ MutationFails
    <2>1. UNCHANGED <<pc, site, bound, connection>> /\ arkade' \subseteq arkade
          /\ (live' = live \/ arkade' = {})
      BY <1>1 DEF siteVars, sessionVars, authorityVars, taskVars, Lock, Unlock, UserDecides,
         MutationLands, MutationFails
    <2>2. \A k \in Handlers : pc[k] \notin {"prompted", "failed", "done"} => verdict'[k] = verdict[k]
      <3>1. verdict' = verdict \/ \E d \in {"approved", "refused", "lost"} : verdict' = [verdict EXCEPT ![prompt] = d]
        BY <1>1 DEF siteVars, promptVars, Lock, RefusePrompt, EndPrompt, Unlock, UserDecides, MutationLands,
           MutationFails
      <3> QED BY <1>0, <1>t, <1>p, <3>1 DEF SiteTypeOK
    <2> QED BY <2>1, <2>2 DEF Changed
  <1>2. CASE RevokeIfReads
    <2>1. Head(mutations) \in Mutation /\ Awaited(Head(mutations))
      BY <1>0, <1>2, HeadAndTail DEF RevokeIfReads, SiteTypeOK, SiteInv, QueueInv
    <2>2. PICK o \in Origins : o = site[Head(mutations).by]
      BY <1>0, <2>1 DEF Awaited, SiteTypeOK
    <2>3. UNCHANGED <<pc, site, bound, live, verdict>> /\ (BeginChange(o) \/ UNCHANGED authorityVars)
      BY <1>2, <2>2 DEF RevokeIfReads, BeginChange, sessionVars, promptVars, taskVars
    <2> QED BY <1>0, <2>3, Begins DEF authorityVars, Changed
  <1>3. ASSUME NEW k \in Connects \cup Signs \cup Disconnects,
               \A u \in Tasks \ {k} : pc'[u] = pc[u] /\ site'[u] = site[u] /\ bound'[u] = bound[u]
        PROVE  \A u \in Handlers : pc'[u] = pc[u] /\ site'[u] = site[u] /\ bound'[u] = bound[u]
    BY <1>t, <1>3
  <1>4. ASSUME NEW c \in Connects, ConnectSteps(c)
        PROVE  /\ \A u \in Handlers : pc'[u] = pc[u] /\ site'[u] = site[u] /\ bound'[u] = bound[u]
               /\ UNCHANGED <<verdict, live>> /\ arkade' \subseteq arkade
               /\ \A o \in Origins : Changed(o)
    <2>1. /\ \A u \in Tasks \ {c} : pc'[u] = pc[u] /\ site'[u] = site[u] /\ bound'[u] = bound[u]
          /\ UNCHANGED <<verdict, live>>
      BY <1>0, <1>4 DEF SiteTypeOK, ConnectSteps, ConnectPrompt, ConnectRefused, ConnectGrants, ConnectGranted,
         ConnectUndone, Prompts, Goes, sessionVars, promptVars
    <2>2. PICK o \in Origins : o = site[c]
      <3>1. pc[c] # "new"
        BY <1>4 DEF ConnectSteps, ConnectPrompt, ConnectRefused, ConnectGrants, ConnectGranted, ConnectUndone, Approved, Declined
      <3> QED BY <1>0, <3>1 DEF SiteTypeOK
    <2>3. \/ UNCHANGED authorityVars
          \/ BeginChange(o)
          \/ arkade' = arkade /\ \E n \in Nat : EndChanges(o, n)
      <3>1. CASE ConnectPrompt(c) \/ ConnectRefused(c) \/ ConnectGrants(c)
        BY <2>2, <3>1 DEF ConnectPrompt, ConnectRefused, ConnectGrants, BeginChange
      <3>2. CASE ConnectGranted(c) \/ ConnectUndone(c)
        <4>1. arkade' = arkade /\ \E n \in {0, 1} : EndChanges(o, n)
          BY <2>2, <3>2 DEF ConnectGranted, ConnectUndone, EndChanges
        <4> QED BY <4>1
      <3> QED BY <1>4, <3>1, <3>2 DEF ConnectSteps
    <2>4. arkade' \subseteq arkade /\ \A p \in Origins : Changed(p)
      BY <1>0, <2>3, Begins, Finishes DEF authorityVars, Changed
    <2> QED BY <1>3, <2>1, <2>4
  <1>5. ASSUME NEW d \in Disconnects, DisconnectSteps(d)
        PROVE  /\ \A u \in Handlers : pc'[u] = pc[u] /\ site'[u] = site[u] /\ bound'[u] = bound[u]
               /\ UNCHANGED <<verdict, live>> /\ arkade' \subseteq arkade
               /\ \A o \in Origins : Changed(o)
    <2>1. /\ \A u \in Tasks \ {d} : pc'[u] = pc[u] /\ site'[u] = site[u] /\ bound'[u] = bound[u]
          /\ UNCHANGED <<verdict, live>>
      BY <1>0, <1>5 DEF SiteTypeOK, DisconnectSteps, DisconnectRevokes, DisconnectThrows, DisconnectRevoked,
         DisconnectEnds, Goes, sessionVars, promptVars
    <2>2. PICK o \in Origins : o = site[d]
      <3>1. pc[d] # "new"
        BY <1>5 DEF DisconnectSteps, DisconnectRevokes, DisconnectThrows, DisconnectRevoked, DisconnectEnds
      <3> QED BY <1>0, <3>1 DEF SiteTypeOK
    <2>3. BeginChange(o) \/ (arkade' = arkade /\ \E n \in {1, 2} : EndChanges(o, n))
      BY <1>5, <2>2 DEF DisconnectSteps, DisconnectRevokes, DisconnectThrows, DisconnectRevoked,
         DisconnectEnds, BeginChange, EndChanges
    <2>4. arkade' \subseteq arkade /\ \A p \in Origins : Changed(p)
      BY <1>0, <2>3, Begins, Finishes
    <2> QED BY <1>3, <2>1, <2>4
  <1>6. ASSUME NEW s \in Signs, SignSteps(s)
        PROVE  /\ \A u \in Handlers : pc'[u] = pc[u] /\ site'[u] = site[u] /\ bound'[u] = bound[u]
               /\ UNCHANGED <<verdict, live, connection, arkade>>
    <2>1. \A u \in Tasks \ {s} : pc'[u] = pc[u] /\ site'[u] = site[u] /\ bound'[u] = bound[u]
      BY <1>0, <1>6 DEF SiteTypeOK, SignSteps, SignContext, SignInspected, SignRefused, SignStarts, Prompts, Goes
    <2> QED BY <1>3, <1>6, <2>1 DEF SignSteps, SignContext, SignInspected, SignRefused, SignStarts,
            Prompts, sessionVars, promptVars, authorityVars
  <1>7. ASSUME NEW o \in Origins, NEW t \in Tasks, t \in Connects \cup Signs, ConnectAsk(t, o) \/ SignAsk(t, o)
        PROVE  /\ \A u \in Handlers : pc'[u] = pc[u] /\ site'[u] = site[u] /\ bound'[u] = bound[u]
               /\ UNCHANGED <<verdict, live, connection, arkade>>
    <2>1. \A u \in Tasks \ {t} : pc'[u] = pc[u] /\ site'[u] = site[u] /\ bound'[u] = bound[u]
      BY <1>0, <1>7 DEF SiteTypeOK, ConnectAsk, SignAsk, Asks, Goes
    <2> QED BY <1>3, <1>7, <2>1 DEF ConnectAsk, SignAsk, sessionVars, promptVars, authorityVars
  <1>8. ASSUME NEW o \in Origins, NEW d \in Disconnects, DisconnectAsk(d, o)
        PROVE  /\ \A u \in Handlers : pc'[u] = pc[u] /\ site'[u] = site[u] /\ bound'[u] = bound[u]
               /\ \A k \in Handlers : pc[k] \notin {"prompted", "failed", "done"} => verdict'[k] = verdict[k]
               /\ live' = live /\ arkade' \subseteq arkade /\ \A p \in Origins : Changed(p)
    <2>1. \A u \in Tasks \ {d} : pc'[u] = pc[u] /\ site'[u] = site[u] /\ bound'[u] = bound[u]
      BY <1>0, <1>8 DEF SiteTypeOK, DisconnectAsk, Asks, Goes
    <2>2. verdict' = verdict \/ \E v \in {"refused", "lost"} : verdict' = [verdict EXCEPT ![prompt] = v]
      BY <1>8 DEF DisconnectAsk, RefusePrompt, EndPrompt, promptVars
    <2>3. \A k \in Handlers : pc[k] \notin {"prompted", "failed", "done"} => verdict'[k] = verdict[k]
      BY <1>0, <1>t, <1>p, <2>2 DEF SiteTypeOK
    <2>4. BeginChange(o) /\ live' = live
      BY <1>8 DEF DisconnectAsk, sessionVars
    <2> QED BY <1>0, <1>3, <2>1, <2>3, <2>4, Begins
  <1>9. CASE SiteAsks
    <2>1. ASSUME NEW o \in Origins, NEW t \in Connects \cup Signs, ConnectAsk(t, o) \/ SignAsk(t, o)
          PROVE  /\ \A u \in Handlers : pc'[u] = pc[u] /\ site'[u] = site[u] /\ bound'[u] = bound[u]
                 /\ UNCHANGED <<verdict, live, connection, arkade>>
      BY <1>7, <2>1
    <2>2. CASE \E o \in Origins, t \in Connects \cup Signs : ConnectAsk(t, o) \/ SignAsk(t, o)
      BY <2>1, <2>2 DEF Changed
    <2>3. CASE \E o \in Origins, d \in Disconnects : DisconnectAsk(d, o)
      BY <1>8, <2>3
    <2> QED BY <1>9, <2>2, <2>3 DEF SiteAsks
  <1>10. CASE SiteProgress
    <2>1. CASE \E c \in Connects : ConnectSteps(c)
      BY <1>4, <2>1
    <2>2. CASE \E d \in Disconnects : DisconnectSteps(d)
      BY <1>5, <2>2
    <2>3. CASE \E s \in Signs : SignSteps(s)
      BY <1>6, <2>3 DEF Changed
    <2> QED BY <1>1, <1>2, <1>10, <2>1, <2>2, <2>3 DEF SiteProgress, QueueSteps
  <1> QED BY <1>1, <1>9, <1>10 DEF SiteNext

----------------------------------------------------------------------------
(* The steps of the others, and the worker's death.                        *)

\* The others keep an approval with its connection.
LEMMA ConnectionOthers ==
  ASSUME ArkadeInv, [SiteNext]_siteVars, UNCHANGED arkadeVars
  PROVE  ConnectionInv'
  <1> USE DEF arkadeVars
  <1>1. SiteTypeOK /\ \A t \in Transactions : t \in Handlers /\ t \in Tasks
    BY DEF ArkadeInv, SiteInv, Handlers, Tasks
  <1>2. CASE WorkerDies
    <2>1. arkade' = {} /\ \A t \in Transactions : pc'[t] \notin Asked
      BY <1>1, <1>2 DEF WorkerDies, Asked, Over, SiteTypeOK
    <2> QED BY <2>1 DEF ConnectionInv
  <1>3. CASE ~WorkerDies
    <2> SUFFICES ASSUME NEW t \in Transactions
                 PROVE  (/\ pc[t] \in Asked =>
                              /\ approval[t].version <= connection[site[t]].version
                              /\ approval[t].version = connection[site[t]].version =>
                                   /\ connection[site[t]].pending = 0
                                   /\ pc[t] = "rechecked" => grants[site[t]] = approval[t].grant
                         /\ t \in arkade => SameConnection(t) /\ grants[site[t]] = approval[t].grant)'
      BY DEF ConnectionInv
    <2>1. /\ pc'[t] = pc[t] /\ site'[t] = site[t] /\ approval' = approval /\ arkade' \subseteq arkade
          /\ \A o \in Origins : Changed(o)
      BY <1>1, <1>3, Others DEF ArkadeInv
    <2>2. approval[t].version \in Nat
      BY DEF ArkadeInv, ArkadeTypeOK, Approval
    <2>3. CASE pc[t] \in Asked \/ t \in arkade
      <3>1. PICK o \in Origins : o = site[t]
        <4>1. pc[t] # "new"
          BY <2>3 DEF Asked, Working, ArkadeInv, MapInv
        <4> QED BY <1>1, <4>1 DEF SiteTypeOK
      <3>2. connection[o].version \in Nat /\ connection[o].pending \in Nat
        BY <1>1 DEF SiteTypeOK
      <3>3. CASE connection'[o] = connection[o] /\ grants'[o] = grants[o]
        BY <2>1, <3>1, <3>3 DEF ArkadeInv, ConnectionInv, SameConnection
      <3>4. CASE connection'[o] = connection[o] /\ connection[o].pending >= 1
        BY <2>1, <2>2, <3>1, <3>2, <3>4 DEF ArkadeInv, ConnectionInv, SameConnection
      <3>5. CASE connection'[o].version = connection[o].version + 1 /\ \A u \in arkade' : site[u] # o
        BY <2>1, <2>2, <3>1, <3>2, <3>5 DEF ArkadeInv, ConnectionInv, SameConnection
      <3>6. CASE connection'[o].version = connection[o].version /\ connection[o].pending >= 1
        BY <2>1, <2>2, <3>1, <3>2, <3>6 DEF ArkadeInv, ConnectionInv, SameConnection
      <3>7. grants'[o] # grants[o] => connection' = connection /\ connection[o].pending >= 1
        BY GrantsChange DEF ArkadeInv
      <3> QED BY <2>1, <3>3, <3>4, <3>5, <3>6, <3>7 DEF Changed
    <2>4. CASE ~(pc[t] \in Asked \/ t \in arkade)
      BY <2>1, <2>4
    <2> QED BY <2>3, <2>4
  <1> QED BY <1>2, <1>3

\* They keep the rest of the invariant.
LEMMA RestOthers ==
  ASSUME ArkadeInv, [SiteNext]_siteVars, UNCHANGED arkadeVars
  PROVE  ArkadeTypeOK' /\ MapInv' /\ BusyInv' /\ AnswerInv'
  <1> USE DEF arkadeVars
  <1>1. SiteTypeOK /\ SiteTypeOK' /\ \A k \in Handlers : k \in Tasks
    BY SiteStep DEF ArkadeInv, SiteInv, Handlers, Tasks
  <1>h. \A k \in Transactions \cup Completions : k \in Handlers
    BY DEF Handlers
  <1>2. CASE WorkerDies
    <2>1. /\ arkade' = {} /\ verdict' = verdict
          /\ \A k \in Handlers : pc'[k] = IF pc[k] \in Over THEN pc[k] ELSE "done"
      BY <1>1, <1>2 DEF WorkerDies
    <2>2. ArkadeTypeOK'
      BY <1>1, <1>h, <2>1 DEF ArkadeInv, ArkadeTypeOK, Over
    <2>3. MapInv'
      BY <1>h, <2>1 DEF ArkadeInv, MapInv, Over, Asked, Working
    <2>4. BusyInv' /\ AnswerInv'
      BY <1>h, <2>1 DEF ArkadeInv, BusyInv, AnswerInv, Over, Working
    <2> QED BY <2>2, <2>3, <2>4
  <1>3. CASE ~WorkerDies
    <2>1. /\ \A k \in Handlers : pc'[k] = pc[k] /\ site'[k] = site[k] /\ bound'[k] = bound[k]
          /\ \A k \in Handlers : pc[k] \notin {"prompted", "failed", "done"} => verdict'[k] = verdict[k]
          /\ arkade' \subseteq arkade
          /\ live' = live \/ arkade' = {}
      BY <1>3, Others DEF ArkadeInv
    <2>2. ArkadeTypeOK'
      BY <1>1, <1>h, <2>1 DEF ArkadeInv, ArkadeTypeOK
    <2>3. MapInv'
      BY <1>h, <1>1, <2>1 DEF ArkadeInv, MapInv, InSession, SiteTypeOK, Working
    <2>4. BusyInv' /\ AnswerInv'
      BY <1>h, <1>1, <2>1 DEF ArkadeInv, BusyInv, AnswerInv, SiteTypeOK
    <2> QED BY <2>2, <2>3, <2>4
  <1> QED BY <1>2, <1>3

\* An approval that expires leaves the map, and nothing else.
LEMMA Expiry ==
  ASSUME ArkadeInv, NEW t \in Transactions, Expires(t)
  PROVE  ArkadeInv'
  <1>1. /\ UNCHANGED <<live, grants, connection, verdict, pc, site, bound, approval, target, request, todo, answer>>
        /\ arkade' = arkade \ {t}
    BY DEF Expires, sessionVars, promptVars, grantVars, taskVars, arkadeVars
  <1>2. SiteInv'
    BY SiteAfterExpiry DEF ArkadeInv
  <1>3. ConnectionInv' /\ MapInv'
    BY <1>1 DEF ArkadeInv, ConnectionInv, SameConnection, MapInv, InSession
  <1>4. BusyInv' /\ AnswerInv'
    BY <1>1 DEF ArkadeInv, BusyInv, AnswerInv
  <1>5. ArkadeTypeOK'
    BY <1>1, <1>2 DEF ArkadeInv, ArkadeTypeOK, SiteInv
  <1> QED BY <1>2, <1>3, <1>4, <1>5 DEF ArkadeInv

----------------------------------------------------------------------------
(* The steps of a transaction up to its prompt.                            *)

Rest == ConnectionInv /\ MapInv /\ BusyInv /\ AnswerInv

\* What Moves says of the others, in the words of the proofs below.
LEMMA Alone ==
  ASSUME ArkadeInv, NEW k \in Handlers, Moves(k)
  PROVE  /\ UNCHANGED <<live, grants, connection>>
         /\ \A u \in Handlers \ {k} : pc'[u] = pc[u] /\ site'[u] = site[u] /\ bound'[u] = bound[u]
         /\ UNCHANGED verdict
         /\ k \in Tasks /\ (pc[k] # "new" => site'[k] = site[k] /\ site[k] \in Origins)
         /\ \A u \in Handlers : u \in Tasks
         /\ SiteTypeOK
  BY DEF Moves, sessionVars, grantVars, promptVars, Prompts, Handlers, Tasks, ArkadeInv, SiteInv, SiteTypeOK

\* A request that is not yet in the map goes on.
LEMMA AsksOn ==
  ASSUME ArkadeInv, NEW t \in Transactions, Moves(t),
         \/ \E o \in Origins : ApproveAsk(t, o)
         \/ ApproveReadsGrant(t) \/ ApproveContext(t) \/ ApproveInspected(t) \/ ApproveRereads(t)
  PROVE  Rest'
  <1> DEFINE Step1 == \E o \in Origins : ApproveAsk(t, o)
  <1>0. t \in Handlers
    BY DEF Handlers
  <1>1. /\ UNCHANGED <<live, grants, connection, verdict>>
        /\ \A u \in Handlers \ {t} : pc'[u] = pc[u] /\ site'[u] = site[u] /\ bound'[u] = bound[u]
        /\ t \in Tasks /\ (pc[t] # "new" => site'[t] = site[t] /\ site[t] \in Origins) /\ SiteTypeOK
    BY <1>0, Alone
  <1>2. /\ pc[t] \in {"new", "checked", "granted", "inspecting", "reading"} /\ pc'[t] \in Asked
        /\ UNCHANGED <<arkade, target, request, todo, answer>>
    BY <1>1 DEF ApproveAsk, ApproveReadsGrant, ApproveContext, ApproveInspected, ApproveRereads, Asks, Goes,
       SiteTypeOK, Asked, authorityVars, arkadeVars
  <1>3. /\ \A u \in Transactions \ {t} : approval'[u] = approval[u]
        /\ approval'[t].ready = approval[t].ready /\ approval'[t].busy = approval[t].busy
        /\ approval'[t].completed = approval[t].completed
        /\ pc[t] # "new" => approval'[t].version = approval[t].version
    BY <1>1, <1>2 DEF ApproveAsk, ApproveReadsGrant, ApproveContext, ApproveInspected, ApproveRereads, Asks,
       ArkadeInv, ArkadeTypeOK, Approval, arkadeVars
  <1>4. t \notin arkade /\ ~approval[t].ready
    BY <1>2 DEF ArkadeInv, MapInv, Working
  <1>5. \A u \in Handlers \ {t} : u \notin arkade \/ u \in Transactions
    BY DEF ArkadeInv, SiteInv, SiteTypeOK
  <1>6. MapInv'
    <2>1. arkade \subseteq Transactions \ {t}
      BY <1>1, <1>4 DEF SiteTypeOK
    <2>2. \A u \in Transactions \ {t} : u \in Handlers
      BY DEF Handlers
    <2> QED BY <1>1, <1>2, <1>3, <1>4, <2>1, <2>2 DEF ArkadeInv, MapInv, InSession, Asked, Working
  <1>7. BusyInv' /\ AnswerInv'
    <2>1. \A c \in Completions : c \in Handlers \ {t} /\ pc'[c] = pc[c] /\ site'[c] = site[c]
      BY <1>1, SiteAssumption DEF Handlers
    <2>2. \A c \in Completions : pc[c] \in Working =>
            target[c] \in Transactions \ {t} /\ site'[target[c]] = site[target[c]]
      BY <1>1, <1>4 DEF ArkadeInv, BusyInv, Handlers
    <2>3. \A u \in arkade : u \in Transactions \ {t}
      BY <1>1, <1>4 DEF SiteTypeOK
    <2>5. \A u \in arkade' : approval'[u].busy => \E c \in Completions : target'[c] = u /\ pc'[c] \in Working
      BY <1>2, <1>3, <2>1, <2>3 DEF ArkadeInv, BusyInv
    <2>6. \A c \in Completions : pc[c] \in Working =>
            approval'[target[c]].ready /\ approval'[target[c]].busy /\ site[target[c]] = site[c]
      BY <1>3, <2>2 DEF ArkadeInv, BusyInv
    <2>7. BusyInv'
      BY <1>2, <2>1, <2>2, <2>5, <2>6 DEF ArkadeInv, BusyInv
    <2>4. AnswerInv'
      BY <1>2, <1>3, <2>1, <2>2 DEF ArkadeInv, AnswerInv
    <2> QED BY <2>4, <2>7
  <1>8. ConnectionInv'
    <2>1. ASSUME NEW u \in Transactions \ {t}
          PROVE  (/\ pc[u] \in Asked =>
                       /\ approval[u].version <= connection[site[u]].version
                       /\ approval[u].version = connection[site[u]].version =>
                            /\ connection[site[u]].pending = 0
                            /\ pc[u] = "rechecked" => grants[site[u]] = approval[u].grant
                  /\ u \in arkade => SameConnection(u) /\ grants[site[u]] = approval[u].grant)'
      <3>1. u \in Handlers \ {t}
        BY DEF Handlers
      <3> QED BY <1>1, <1>2, <1>3, <3>1 DEF ArkadeInv, ConnectionInv, SameConnection
    <2>2. /\ approval'[t].version <= connection[site'[t]].version
          /\ approval'[t].version = connection[site'[t]].version =>
               /\ connection[site'[t]].pending = 0
               /\ pc'[t] = "rechecked" => grants[site'[t]] = approval'[t].grant
      <3>1. CASE Step1
        <4>1. PICK o \in Origins : ApproveAsk(t, o)
          BY <3>1
        <4>2. site'[t] = o /\ pc'[t] = "checked" /\ connection[o].pending = 0
              /\ approval'[t].version = connection[o].version /\ connection[o].version \in Nat
          BY <1>1, <4>1 DEF ApproveAsk, Asks, Goes, SiteTypeOK, ArkadeInv, ArkadeTypeOK, Approval
        <4> QED BY <4>2
      <3>2. CASE ~Step1
        <4>1. pc[t] \in Asked /\ pc[t] # "new"
          BY <3>2 DEF ApproveReadsGrant, ApproveContext, ApproveInspected, ApproveRereads, Asked
        <4>2. pc'[t] = "rechecked" => grants[site[t]] = approval[t].grant /\ approval' = approval
          BY <1>1, <3>2 DEF ApproveReadsGrant, ApproveContext, ApproveInspected, ApproveRereads, Goes,
             SiteTypeOK, arkadeVars
        <4> QED BY <1>1, <1>3, <4>1, <4>2 DEF ArkadeInv, ConnectionInv
      <3> QED BY <3>1, <3>2
    <2> QED BY <1>1, <1>2, <1>4, <2>1, <2>2 DEF ConnectionInv
  <1> QED BY <1>6, <1>7, <1>8 DEF Rest

\* It is prompted for, and an approval of it enters the map.
LEMMA IntoTheMap ==
  ASSUME ArkadeInv, NEW t \in Transactions, Moves(t), ApprovePrompts(t) \/ ApproveApproved(t)
  PROVE  Rest'
  <1>0. t \in Handlers
    BY DEF Handlers
  <1>1. /\ UNCHANGED <<live, grants, connection, verdict>>
        /\ \A u \in Handlers \ {t} : pc'[u] = pc[u] /\ site'[u] = site[u] /\ bound'[u] = bound[u]
        /\ t \in Tasks /\ (pc[t] # "new" => site'[t] = site[t] /\ site[t] \in Origins) /\ SiteTypeOK
    BY <1>0, Alone
  <1>2. /\ UNCHANGED <<target, request, answer, site, bound>>
        /\ \A c \in Completions : todo'[c] = todo[c]
        /\ \A u \in Transactions :
             /\ approval'[u].ready = approval[u].ready /\ approval'[u].busy = approval[u].busy
             /\ approval'[u].completed = approval[u].completed
             /\ approval'[u].version = approval[u].version /\ approval'[u].grant = approval[u].grant
        /\ \/ pc[t] = "rechecked" /\ pc'[t] = "prompted" /\ arkade' = arkade \cup {t}
                /\ InSession(t) /\ SameConnection(t)
           \/ pc[t] = "prompted" /\ pc'[t] = "authorizing" /\ arkade' = arkade /\ verdict[t] = "approved"
    <2>1. CASE ApprovePrompts(t)
      BY <1>1, <2>1 DEF ApprovePrompts, Prompts, Goes, SiteTypeOK, arkadeVars
    <2>2. CASE ApproveApproved(t)
      <3>1. \A c \in Completions : todo'[c] = todo[c]
        BY <1>0, <2>2, SiteAssumption DEF ApproveApproved, ArkadeInv, ArkadeTypeOK, Handlers
      <3> QED BY <1>1, <2>2, <3>1 DEF ApproveApproved, Approved, Declined, Goes, SiteTypeOK, ArkadeInv, ArkadeTypeOK, Approval,
              authorityVars
    <2> QED BY <2>1, <2>2
  <1>3. ~approval[t].ready /\ arkade \subseteq Transactions /\ arkade' \subseteq arkade \cup {t}
        /\ (pc[t] = "rechecked" => t \notin arkade)
    BY <1>1, <1>2 DEF ArkadeInv, MapInv, SiteTypeOK, Working
  <1>h. \A u \in Transactions \ {t} : pc'[u] = pc[u]
    BY <1>1 DEF Handlers
  <1>4. MapInv'
    BY <1>1, <1>2, <1>3, <1>h DEF ArkadeInv, MapInv, InSession, Asked, Working
  <1>5. ConnectionInv'
    BY <1>1, <1>2, <1>3, <1>h DEF ArkadeInv, ConnectionInv, SameConnection, Asked
  <1>6. BusyInv' /\ AnswerInv'
    <2>1. \A c \in Completions : pc'[c] = pc[c]
      BY <1>1, SiteAssumption DEF Handlers
    <2>2. AnswerInv'
      BY <1>2, <2>1 DEF ArkadeInv, AnswerInv, BusyInv
    <2>3. \A u \in arkade' : approval'[u].busy => \E c \in Completions : target'[c] = u /\ pc'[c] \in Working
      <3>1. ~approval[t].busy
        BY <1>3 DEF ArkadeInv, MapInv
      <3> QED BY <1>2, <1>3, <2>1, <3>1 DEF ArkadeInv, BusyInv
    <2>4. BusyInv'
      BY <1>2, <2>1, <2>3 DEF ArkadeInv, BusyInv
    <2> QED BY <2>2, <2>4
  <1> QED BY <1>4, <1>5, <1>6 DEF Rest

----------------------------------------------------------------------------
(* The steps under an approval.                                            *)

\* A transaction fails before it was ready, a completion gives its approval back.
LEMMA Failure ==
  ASSUME ArkadeInv, NEW k \in Handlers, Moves(k), NEW dropped, Fails(k, dropped),
         pc[k] \in Asked \cup Working \cup {"prompted"}, UNCHANGED <<target, request, todo, answer>>
  PROVE  Rest'
  <1>1. /\ UNCHANGED <<live, grants, connection, verdict>>
        /\ \A u \in Handlers \ {k} : pc'[u] = pc[u] /\ site'[u] = site[u] /\ bound'[u] = bound[u]
        /\ k \in Tasks /\ site'[k] = site[k] /\ SiteTypeOK
    BY Alone DEF Asked, Working
  <1>2. /\ pc'[k] = "done" /\ arkade' \subseteq arkade
        /\ k \in Transactions => k \notin arkade' /\ approval' = approval
        /\ k \in Completions => approval' = [approval EXCEPT ![target[k]].busy = FALSE]
    BY <1>1, SiteAssumption DEF Fails, Goes, SiteTypeOK, Of
  <1>h. \A u \in Transactions : (u \in Handlers \ {k} \/ u = k) /\ u \notin Completions
    BY SiteAssumption DEF Handlers
  <1>a. arkade \subseteq Transactions /\ approval \in [Transactions -> Approval]
    BY <1>1 DEF SiteTypeOK, ArkadeInv, ArkadeTypeOK
  <1>3. /\ approval' \in [Transactions -> Approval]
        /\ \A u \in Transactions :
             /\ approval'[u].ready = approval[u].ready /\ approval'[u].completed = approval[u].completed
             /\ approval'[u].version = approval[u].version /\ approval'[u].grant = approval[u].grant
             /\ approval'[u].busy = (approval[u].busy /\ (k \in Completions => u # target[k]))
    <2>1. CASE k \in Transactions
      BY <1>2, <1>a, <1>h, <2>1 DEF Approval
    <2>2. CASE k \in Completions
      <3>1. target[k] \in Transactions
        BY <2>2 DEF ArkadeInv, BusyInv, Asked
      <3>2. approval' = [approval EXCEPT ![target[k]].busy = FALSE]
        BY <1>2, <2>2
      <3>3. \A u \in Transactions \ {target[k]} : approval'[u] = approval[u] /\ approval[u] \in Approval
        BY <1>a, <3>2
      <3>4. approval'[target[k]] = [approval[target[k]] EXCEPT !.busy = FALSE] /\ approval[target[k]] \in Approval
        BY <1>a, <3>1, <3>2
      <3>5. approval' \in [Transactions -> Approval]
        BY <1>a, <3>1, <3>2 DEF Approval
      <3> QED BY <2>2, <3>1, <3>3, <3>4, <3>5 DEF Approval
    <2> QED BY <2>1, <2>2 DEF Handlers
  <1>4. ConnectionInv'
    BY <1>1, <1>2, <1>3, <1>h, <1>a DEF ArkadeInv, ConnectionInv, SameConnection, Asked
  <1>5. MapInv'
    <2>1. k \in Transactions => ~approval[k].ready
      BY DEF ArkadeInv, MapInv, Asked, Working
    <2>2. \A u \in arkade' : u \in Transactions /\ u # k
      BY <1>2, <1>a, <1>h DEF Handlers
    <2>3. \A u \in arkade' : (InSession(u) /\ pc[u] \in Working \cup {"prompted", "signed"}
                               /\ (pc[u] = "signed" => approval[u].ready))'
      BY <1>1, <1>2, <1>3, <1>h, <2>2 DEF ArkadeInv, MapInv, InSession
    <2>4. ASSUME NEW u \in Transactions
          PROVE  (/\ pc[u] \in Asked \cup Working \cup {"new", "prompted", "signed", "done"}
                  /\ approval[u].ready => pc[u] = "signed"
                  /\ approval[u].busy => approval[u].ready
                  /\ pc[u] \in Working \cup {"signed"} => verdict[u] = "approved")'
      <3>1. approval'[u].busy => approval[u].busy
        BY <1>3
      <3> QED BY <1>1, <1>2, <1>3, <1>h, <2>1, <3>1 DEF ArkadeInv, MapInv, Working
    <2> QED BY <2>3, <2>4 DEF MapInv
  <1>6. BusyInv'
    <2>1. \A c \in Completions : c = k \/ (pc'[c] = pc[c] /\ site'[c] = site[c])
      BY <1>1 DEF Handlers
    <2>2. \A u \in Transactions : site'[u] = site[u]
      BY <1>1, <1>h
    <2>3. \A c \in Completions : pc'[c] \in Working => c # k /\ pc[c] \in Working
      BY <1>2, <2>1 DEF Working
    <2>4. ASSUME NEW c \in Completions
          PROVE  (/\ pc[c] \in Working \cup {"new", "signed", "done"}
                  /\ pc[c] \in Working =>
                       /\ target[c] \in Transactions /\ site[target[c]] = site[c]
                       /\ approval[target[c]].ready /\ approval[target[c]].busy)'
      <3>1. pc'[c] \in Working \cup {"new", "signed", "done"}
        BY <1>2, <2>1 DEF ArkadeInv, BusyInv
      <3>2. ASSUME pc'[c] \in Working
            PROVE  /\ target[c] \in Transactions /\ site'[target[c]] = site'[c]
                   /\ approval'[target[c]].ready /\ approval'[target[c]].busy
        <4>1. c # k /\ pc[c] \in Working /\ site'[c] = site[c]
          BY <2>1, <2>3, <3>2
        <4>2. target[c] \in Transactions /\ site[target[c]] = site[c]
              /\ approval[target[c]].ready /\ approval[target[c]].busy
          BY <4>1 DEF ArkadeInv, BusyInv
        <4>3. k \in Completions => target[c] # target[k]
          <5>1. k \in Completions => pc[k] \in Working
            BY DEF ArkadeInv, BusyInv, Asked
          <5> QED BY <4>1, <5>1 DEF ArkadeInv, BusyInv
        <4> QED BY <1>3, <2>2, <4>1, <4>2, <4>3
      <3> QED BY <3>1, <3>2
    <2>5. ASSUME NEW u \in arkade', approval'[u].busy
          PROVE  \E c \in Completions : target'[c] = u /\ pc'[c] \in Working
      <3>1. u \in arkade /\ approval[u].busy /\ (k \in Completions => u # target[k])
        BY <1>2, <1>3, <1>a, <2>5
      <3>2. PICK c \in Completions : target[c] = u /\ pc[c] \in Working
        BY <3>1 DEF ArkadeInv, BusyInv
      <3> QED BY <2>1, <3>1, <3>2
    <2> QED BY <2>3, <2>4, <2>5 DEF ArkadeInv, BusyInv
  <1>7. AnswerInv'
    <2>1. \A c \in Completions : (c = k \/ pc'[c] = pc[c]) /\ (pc'[c] \in Working => c # k)
      BY <1>1, <1>2 DEF Handlers, Working
    <2>2. \A c \in Completions : pc[c] \in Working => target[c] \in Transactions
      BY DEF ArkadeInv, BusyInv
    <2>3. k \in Completions => answer[k] = None
      BY DEF ArkadeInv, AnswerInv, Asked, Working
    <2> QED BY <1>3, <2>1, <2>2, <2>3 DEF ArkadeInv, AnswerInv
  <1> QED BY <1>4, <1>5, <1>6, <1>7 DEF Rest

\* A handler goes on and the approvals stay as they are.
LEMMA Onward ==
  ASSUME ArkadeInv, NEW k \in Handlers, Moves(k), pc[k] \in Working, pc'[k] \in Working,
         UNCHANGED <<arkade, approval, target, request, answer>>,
         \A c \in Completions \ {k} : todo'[c] = todo[c],
         k \in Completions =>
           \/ todo'[k] = todo[k]
           \/ todo[k] # <<"prepare">>
           \/ approval[target[k]].completed \in {None, request[k]}
  PROVE  Rest'
  <1>1. /\ UNCHANGED <<live, grants, connection, verdict, bound>>
        /\ \A u \in Handlers : /\ (u = k \/ pc'[u] = pc[u]) /\ site'[u] = site[u]
                               /\ (pc'[u] \in Working <=> pc[u] \in Working)
        /\ k \in Tasks /\ SiteTypeOK
    <2>1. bound' = bound
      BY DEF Moves, Working
    <2> QED BY <2>1, Alone DEF Working
  <1>2. /\ \A t \in Transactions : (t = k \/ pc'[t] = pc[t]) /\ site'[t] = site[t] /\ (pc'[t] \in Working <=> pc[t] \in Working)
        /\ \A c \in Completions : (c = k \/ pc'[c] = pc[c]) /\ site'[c] = site[c] /\ (pc'[c] \in Working <=> pc[c] \in Working)
        /\ arkade \subseteq Transactions
    BY <1>1 DEF Handlers, SiteTypeOK
  <1>3. ConnectionInv'
    BY <1>1, <1>2 DEF ArkadeInv, ConnectionInv, SameConnection, Asked, Working
  <1>4. MapInv'
    BY <1>1, <1>2 DEF ArkadeInv, MapInv, InSession, Working
  <1>5. BusyInv'
    <2>1. \A c \in Completions : pc[c] \in Working => target[c] \in Transactions
      BY DEF ArkadeInv, BusyInv
    <2> QED BY <1>1, <1>2, <2>1 DEF ArkadeInv, BusyInv, Working
  <1>6. AnswerInv'
    <2>1. \A c \in Completions : pc[c] \in Working => answer[c] = None
      BY DEF ArkadeInv, AnswerInv, Working
    <2>2. \A c \in Completions : answer[c] # None => c # k
      BY <2>1
    <2>3. \A c \in Completions :
            pc'[c] \in Working =>
              /\ request[c] \in Requests
              /\ todo'[c] = <<"prepare">> \/ approval[target[c]].completed \in {None, request[c]}
      BY <1>2 DEF ArkadeInv, AnswerInv
    <2> QED BY <1>2, <2>2, <2>3 DEF ArkadeInv, AnswerInv
  <1> QED BY <1>3, <1>4, <1>5, <1>6 DEF Rest

\* A completion takes the approval for itself.
LEMMA Taken ==
  ASSUME ArkadeInv, NEW c \in Completions, Moves(c), NEW o \in Origins, NEW t \in Transactions,
         CompleteAsk(c, o, t)
  PROVE  Rest'
  <1>0. c \in Handlers /\ c \notin Transactions
    BY SiteAssumption DEF Handlers
  <1>1. /\ UNCHANGED <<live, grants, connection, verdict, bound, arkade, answer>>
        /\ \A u \in Handlers \ {c} : pc'[u] = pc[u] /\ site'[u] = site[u]
        /\ c \in Tasks /\ SiteTypeOK
    BY <1>0, Alone DEF CompleteAsk, authorityVars
  <1>2. /\ pc[c] = "new" /\ pc'[c] = "authorizing" /\ site'[c] = o
        /\ t \in arkade /\ approval[t].ready /\ ~approval[t].busy /\ site[t] = o
        /\ approval' = [approval EXCEPT ![t].busy = TRUE]
        /\ target' = [target EXCEPT ![c] = t]
        /\ \E r \in Requests : request' = [request EXCEPT ![c] = r]
        /\ todo' = [todo EXCEPT ![c] = <<"prepare">>]
    BY <1>1 DEF CompleteAsk, Asks, Goes, SiteTypeOK
  <1>3. /\ approval \in [Transactions -> Approval] /\ target \in [Completions -> Transactions \cup {None}]
        /\ request \in [Completions -> Requests \cup {None}] /\ c \in DOMAIN todo
        /\ arkade \subseteq Transactions
    BY <1>0, <1>1 DEF ArkadeInv, ArkadeTypeOK, SiteTypeOK
  <1>4. /\ \A u \in Transactions :
             /\ approval'[u].ready = approval[u].ready /\ approval'[u].completed = approval[u].completed
             /\ approval'[u].version = approval[u].version /\ approval'[u].grant = approval[u].grant
             /\ u # t => approval'[u].busy = approval[u].busy
        /\ approval'[t].busy
    BY <1>2, <1>3 DEF Approval
  <1>5. /\ target'[c] = t /\ request'[c] \in Requests /\ todo'[c] = <<"prepare">>
        /\ \A d \in Completions \ {c} : target'[d] = target[d] /\ request'[d] = request[d] /\ todo'[d] = todo[d]
    BY <1>2, <1>3
  <1>h. /\ \A u \in Transactions : pc'[u] = pc[u] /\ site'[u] = site[u]
        /\ \A d \in Completions \ {c} : pc'[d] = pc[d] /\ site'[d] = site[d]
    BY <1>0, <1>1 DEF Handlers
  <1>6. ConnectionInv'
    BY <1>1, <1>4, <1>h DEF ArkadeInv, ConnectionInv, SameConnection
  <1>7. MapInv'
    BY <1>1, <1>2, <1>3, <1>4, <1>h DEF ArkadeInv, MapInv, InSession
  <1>8. \A d \in Completions : pc[d] \in Working => d # c /\ target[d] \in Transactions \ {t}
    BY <1>2 DEF ArkadeInv, BusyInv, Working
  <1>9. BusyInv'
    <2>1. ASSUME NEW d \in Completions
          PROVE  (/\ pc[d] \in Working \cup {"new", "signed", "done"}
                  /\ pc[d] \in Working =>
                       /\ target[d] \in Transactions /\ site[target[d]] = site[d]
                       /\ approval[target[d]].ready /\ approval[target[d]].busy)'
      <3>1. CASE d = c
        BY <1>2, <1>4, <1>5, <1>h, <3>1 DEF Working
      <3>2. CASE d # c
        BY <1>4, <1>5, <1>8, <1>h, <3>2 DEF ArkadeInv, BusyInv
      <3> QED BY <3>1, <3>2
    <2>2. ASSUME NEW d \in Completions, NEW e \in Completions,
                 pc'[d] \in Working, pc'[e] \in Working, target'[d] = target'[e]
          PROVE  d = e
      BY <1>5, <1>8, <1>h, <2>2 DEF ArkadeInv, BusyInv
    <2>3. ASSUME NEW u \in arkade', approval'[u].busy
          PROVE  \E d \in Completions : target'[d] = u /\ pc'[d] \in Working
      <3>1. CASE u = t
        BY <1>2, <1>5, <3>1 DEF Working
      <3>2. CASE u # t
        <4>1. u \in arkade /\ approval[u].busy
          BY <1>1, <1>3, <1>4, <2>3, <3>2
        <4>2. PICK d \in Completions : target[d] = u /\ pc[d] \in Working
          BY <4>1 DEF ArkadeInv, BusyInv
        <4> QED BY <1>5, <1>8, <1>h, <4>2
      <3> QED BY <3>1, <3>2
    <2> QED BY <2>1, <2>2, <2>3 DEF BusyInv
  <1>10. AnswerInv'
    <2>1. answer[c] = None
      BY <1>2 DEF ArkadeInv, AnswerInv
    <2> QED BY <1>1, <1>2, <1>4, <1>5, <1>8, <1>h, <2>1 DEF ArkadeInv, AnswerInv
  <1> QED BY <1>6, <1>7, <1>9, <1>10 DEF Rest

\* Authorized and Step, of a completion at work.
LEMMA Completing ==
  ASSUME ArkadeInv, NEW c \in Completions, Authorized(c)
  PROVE  /\ c \in Handlers /\ c \notin Transactions /\ Of(c) = target[c]
         /\ pc[c] = "authorized" /\ pc[c] \in Working
         /\ target[c] \in Transactions /\ target[c] \in arkade
         /\ site[target[c]] = site[c] /\ request[c] \in Requests /\ answer[c] = None
         /\ pc[target[c]] = "signed"
  <1>1. c \in Handlers /\ c \notin Transactions /\ Of(c) = target[c]
    BY SiteAssumption DEF Handlers, Of
  <1>2. pc[c] = "authorized" /\ pc[c] \in Working /\ target[c] \in arkade
    BY <1>1 DEF Authorized, Working
  <1> QED BY <1>1, <1>2 DEF ArkadeInv, BusyInv, MapInv, AnswerInv

\* A transaction has handed its approval to the site, or used it up.
LEMMA Handed ==
  ASSUME ArkadeInv, NEW t \in Transactions, Moves(t), Stages(t) \/ ReleasesAll(t)
  PROVE  Rest'
  <1>0. t \in Handlers /\ t \notin Completions
    BY SiteAssumption DEF Handlers
  <1>1. /\ UNCHANGED <<live, grants, connection, verdict, target, request, answer>>
        /\ \A u \in Handlers \ {t} : pc'[u] = pc[u]
        /\ site' = site /\ bound' = bound
        /\ t \in Tasks /\ SiteTypeOK
    BY <1>0, Alone DEF Stages, ReleasesAll
  <1>2. /\ pc[t] = "authorized" /\ pc'[t] = "signed"
        /\ \A c \in Completions : todo'[c] = todo[c]
        /\ \/ approval' = [approval EXCEPT ![t].ready = TRUE] /\ arkade' = arkade
           \/ approval' = approval /\ arkade' = arkade \ {t}
    <2>1. pc[t] = "authorized" /\ pc' = [pc EXCEPT ![t] = "signed"]
      BY DEF Stages, ReleasesAll, Authorized, Goes
    <2>2. \A c \in Completions : todo'[c] = todo[c]
      BY <1>0 DEF Stages, ReleasesAll, StepDone, ArkadeInv, ArkadeTypeOK, Handlers
    <2>3. \/ approval' = [approval EXCEPT ![t].ready = TRUE] /\ arkade' = arkade
          \/ approval' = approval /\ arkade' = arkade \ {t}
      BY DEF Stages, ReleasesAll, authorityVars
    <2> QED BY <1>1, <2>1, <2>2, <2>3 DEF SiteTypeOK
  <1>3. arkade' \subseteq arkade /\ arkade \subseteq Transactions
    BY <1>1, <1>2 DEF SiteTypeOK
  <1>4. \A u \in Transactions :
          /\ approval'[u].completed = approval[u].completed /\ approval'[u].busy = approval[u].busy
          /\ approval'[u].version = approval[u].version /\ approval'[u].grant = approval[u].grant
          /\ u # t => approval'[u].ready = approval[u].ready
          /\ approval[u].ready => approval'[u].ready
          /\ t \in arkade' => approval'[t].ready
    BY <1>2 DEF ArkadeInv, ArkadeTypeOK, Approval
  <1>h. /\ \A u \in Transactions \ {t} : pc'[u] = pc[u]
        /\ \A c \in Completions : pc'[c] = pc[c]
    BY <1>0, <1>1 DEF Handlers
  <1>5. ConnectionInv'
    BY <1>1, <1>2, <1>3, <1>4, <1>h DEF ArkadeInv, ConnectionInv, SameConnection, Asked
  <1>6. MapInv'
    <2>1. \A u \in arkade' : (InSession(u) /\ pc[u] \in Working \cup {"prompted", "signed"}
                               /\ (pc[u] = "signed" => approval[u].ready))'
      BY <1>1, <1>2, <1>3, <1>4, <1>h DEF ArkadeInv, MapInv, InSession
    <2>2. \A u \in Transactions :
            (/\ pc[u] \in Asked \cup Working \cup {"new", "prompted", "signed", "done"}
             /\ approval[u].ready => pc[u] = "signed"
             /\ approval[u].busy => approval[u].ready
             /\ pc[u] \in Working \cup {"signed"} => verdict[u] = "approved")'
      BY <1>1, <1>2, <1>4, <1>h DEF ArkadeInv, MapInv, Working
    <2> QED BY <2>1, <2>2 DEF MapInv
  <1>7. \A c \in Completions : pc[c] \in Working => target[c] \in Transactions
    BY DEF ArkadeInv, BusyInv
  <1>8. BusyInv'
    BY <1>1, <1>3, <1>4, <1>7, <1>h DEF ArkadeInv, BusyInv
  <1>9. AnswerInv'
    BY <1>1, <1>2, <1>4, <1>7, <1>h DEF ArkadeInv, AnswerInv
  <1> QED BY <1>5, <1>6, <1>8, <1>9 DEF Rest

\* A completion is answered, and gives its approval back.
LEMMA AnsweredIs ==
  ASSUME ArkadeInv, NEW c \in Completions, Moves(c), Releases(c)
  PROVE  Rest'
  <1>0. /\ c \in Handlers /\ c \notin Transactions /\ Of(c) = target[c]
        /\ pc[c] = "authorized" /\ pc[c] \in Working
        /\ target[c] \in Transactions /\ target[c] \in arkade
        /\ site[target[c]] = site[c] /\ request[c] \in Requests /\ answer[c] = None
    BY Completing DEF Releases
  <1> DEFINE t == target[c]
  <1>1. /\ UNCHANGED <<live, grants, connection, verdict, arkade, target, request>>
        /\ \A u \in Handlers \ {c} : pc'[u] = pc[u]
        /\ site' = site /\ bound' = bound
        /\ c \in Tasks /\ SiteTypeOK
    BY <1>0, Alone DEF Releases, authorityVars
  <1>2. /\ pc'[c] = "signed"
        /\ answer'[c] = request[c] /\ \A d \in Completions \ {c} : answer'[d] = answer[d]
        /\ \A d \in Completions \ {c} : todo'[d] = todo[d]
        /\ todo[c] # <<"prepare">>
        /\ approval' = [approval EXCEPT ![t].completed = request[c], ![t].busy = FALSE]
    BY <1>0, <1>1 DEF Releases, Goes, Step, StepDone, SiteTypeOK, ArkadeInv, ArkadeTypeOK, Handlers
  <1>3. approval \in [Transactions -> Approval] /\ arkade \subseteq Transactions
    BY <1>1 DEF SiteTypeOK, ArkadeInv, ArkadeTypeOK
  <1>4. /\ \A u \in Transactions :
             /\ approval'[u].ready = approval[u].ready
             /\ approval'[u].version = approval[u].version /\ approval'[u].grant = approval[u].grant
             /\ u # t => approval'[u].completed = approval[u].completed /\ approval'[u].busy = approval[u].busy
        /\ approval'[t].completed = request[c] /\ ~approval'[t].busy
    <2>1. \A u \in Transactions \ {t} : approval'[u] = approval[u]
      BY <1>2, <1>3
    <2>2. approval'[t] = [[approval[t] EXCEPT !.completed = request[c]] EXCEPT !.busy = FALSE]
          /\ approval[t] \in Approval
      BY <1>0, <1>2, <1>3
    <2>3. /\ approval'[t].ready = approval[t].ready /\ approval'[t].version = approval[t].version
          /\ approval'[t].grant = approval[t].grant
          /\ approval'[t].completed = request[c] /\ ~approval'[t].busy
      BY <2>2 DEF Approval
    <2> HIDE DEF t
    <2> QED BY <2>1, <2>3
  <1>5. approval[t].completed \in {None, request[c]}
    BY <1>0, <1>2 DEF ArkadeInv, AnswerInv
  <1>h. /\ \A u \in Transactions : pc'[u] = pc[u]
        /\ \A d \in Completions \ {c} : pc'[d] = pc[d]
    BY <1>0, <1>1 DEF Handlers
  <1>6. \A d \in Completions : pc'[d] \in Working =>
          d # c /\ pc[d] \in Working /\ target[d] \in Transactions \ {t}
    BY <1>0, <1>2, <1>h DEF ArkadeInv, BusyInv, Working
  <1> HIDE DEF t
  <1>7. ConnectionInv'
    BY <1>1, <1>3, <1>4, <1>h DEF ArkadeInv, ConnectionInv, SameConnection
  <1>8. MapInv'
    <2>1. \A u \in Transactions : approval'[u].busy => approval[u].busy
      BY <1>4
    <2> QED BY <1>1, <1>3, <1>4, <1>h, <2>1 DEF ArkadeInv, MapInv, InSession
  <1>9. BusyInv'
    <2>1. ASSUME NEW d \in Completions
          PROVE  (/\ pc[d] \in Working \cup {"new", "signed", "done"}
                  /\ pc[d] \in Working =>
                       /\ target[d] \in Transactions /\ site[target[d]] = site[d]
                       /\ approval[target[d]].ready /\ approval[target[d]].busy)'
      <3>1. pc'[d] \in Working \cup {"new", "signed", "done"}
        BY <1>2, <1>h DEF ArkadeInv, BusyInv
      <3>2. ASSUME pc'[d] \in Working
            PROVE  /\ target[d] \in Transactions /\ site[target[d]] = site[d]
                   /\ approval'[target[d]].ready /\ approval'[target[d]].busy
        BY <1>4, <1>6, <3>2 DEF ArkadeInv, BusyInv
      <3> QED BY <1>1, <3>1, <3>2
    <2>2. \A d, e \in Completions :
            pc'[d] \in Working /\ pc'[e] \in Working /\ target'[d] = target'[e] => d = e
      BY <1>1, <1>6 DEF ArkadeInv, BusyInv
    <2>3. ASSUME NEW u \in arkade', approval'[u].busy
          PROVE  \E d \in Completions : target'[d] = u /\ pc'[d] \in Working
      <3>1. u \in arkade /\ u # t /\ approval[u].busy
        BY <1>1, <1>3, <1>4, <2>3
      <3>2. PICK d \in Completions : target[d] = u /\ pc[d] \in Working
        BY <3>1 DEF ArkadeInv, BusyInv
      <3> QED BY <1>1, <1>h, <3>1, <3>2 DEF t
    <2> QED BY <2>1, <2>2, <2>3 DEF BusyInv
  <1>10. AnswerInv'
    <2>1. ASSUME NEW d \in Completions, pc'[d] \in Working
          PROVE  /\ request'[d] \in Requests
                 /\ todo'[d] = <<"prepare">> \/ approval'[target'[d]].completed \in {None, request'[d]}
      <3>1. d # c /\ pc[d] \in Working /\ target[d] \in Transactions \ {t}
        BY <1>6, <2>1
      <3>2. /\ request[d] \in Requests
            /\ todo[d] = <<"prepare">> \/ approval[target[d]].completed \in {None, request[d]}
        BY <3>1 DEF ArkadeInv, AnswerInv
      <3> QED BY <1>1, <1>2, <1>4, <3>1, <3>2
    <2>2. ASSUME NEW d \in Completions, answer'[d] # None
          PROVE  /\ pc'[d] = "signed" /\ target'[d] \in Transactions
                 /\ approval'[target'[d]].completed = answer'[d]
      <3>1. CASE d = c
        BY <1>0, <1>1, <1>2, <1>4, <3>1 DEF t
      <3>2. CASE d # c
        <4>1. answer'[d] = answer[d] /\ pc[d] = "signed" /\ target[d] \in Transactions
              /\ approval[target[d]].completed = answer[d] /\ answer[d] # None
          BY <1>2, <2>2, <3>2 DEF ArkadeInv, AnswerInv
        <4> QED BY <1>1, <1>4, <1>5, <1>h, <3>2, <4>1
      <3> QED BY <3>1, <3>2
    <2> QED BY <2>1, <2>2 DEF AnswerInv
  <1> QED BY <1>7, <1>8, <1>9, <1>10 DEF Rest

----------------------------------------------------------------------------
(* Every step.                                                             *)

\* What a completion has to do is a sequence of its steps.
LEMMA SignEachIs ==
  /\ SignEach \o <<"release">> \in Seq({"sign", "check", "stage", "prepare", "release"})
  /\ <<"sign", "check">> \o SignEach \o <<"release">> \in Seq({"sign", "check", "stage", "prepare", "release"})
  /\ SignEach \o <<"release">> # <<"prepare">>
  <1> DEFINE Steps == {"sign", "check", "stage", "prepare", "release"}
  <1>1. SignEach \in Seq(Steps) /\ <<"release">> \in Seq(Steps) /\ <<"sign", "check">> \in Seq(Steps)
    BY ArkadeAssumption DEF SignEach
  <1>2. Len(SignEach) = Checkpoints /\ Len(<<"release">>) = 1 /\ Len(<<"prepare">>) = 1
    BY ArkadeAssumption DEF SignEach
  <1>3. Len(SignEach \o <<"release">>) = Checkpoints + 1
    BY <1>1, <1>2
  <1>4. SignEach \o <<"release">> # <<"prepare">>
    BY <1>2, <1>3, ArkadeAssumption
  <1>5. /\ SignEach \o <<"release">> \in Seq(Steps)
        /\ <<"sign", "check">> \o SignEach \in Seq(Steps)
    BY <1>1
  <1>6. <<"sign", "check">> \o SignEach \o <<"release">> \in Seq(Steps)
    BY <1>1, <1>5
  <1> QED BY <1>4, <1>5, <1>6

\* Every step of a handler keeps the rest of the invariant.
LEMMA HandlerRest ==
  ASSUME ArkadeInv, NEW k \in Handlers, HandlerStep(k), Moves(k)
  PROVE  Rest'
  <1>0. SiteTypeOK /\ pc \in [Tasks -> SitePC] /\ k \in Tasks /\ todo \in [Handlers -> Seq({"sign", "check", "stage", "prepare", "release"})]
        /\ k \in Handlers
    BY DEF ArkadeInv, ArkadeTypeOK, SiteTypeOK, Handlers, Tasks
  <1>h. k \in Transactions \/ k \in Completions
    BY DEF Handlers
  <1>1. CASE k \in Transactions /\ (ApproveReadsGrant(k) \/ ApproveContext(k) \/ ApproveInspected(k)
                                      \/ ApproveRereads(k) \/ \E o \in Origins : ApproveAsk(k, o))
    BY <1>1, AsksOn
  <1>2. CASE k \in Transactions /\ (ApprovePrompts(k) \/ ApproveApproved(k))
    BY <1>2, IntoTheMap
  <1>3. CASE k \in Transactions /\ (Stages(k) \/ ReleasesAll(k))
    BY <1>3, Handed
  <1>4. CASE k \in Completions /\ Releases(k)
    BY <1>4, AnsweredIs
  <1>5. CASE k \in Completions /\ \E o \in Origins, t \in Transactions : CompleteAsk(k, o, t)
    BY <1>5, Taken
  <1>6. CASE (k \in Transactions /\ ApproveFails(k)) \/ HandlerFails(k)
    <2>1. /\ Fails(k, {}) /\ pc[k] \in Asked \cup Working \cup {"prompted"}
          /\ UNCHANGED <<target, request, todo, answer>>
      BY <1>6 DEF ApproveFails, HandlerFails, Declined, Asked, Working
    <2> QED BY <2>1, Failure
  <1>7. CASE ReadsGrant(k)
    <2>1. pc[k] \in Working /\ UNCHANGED <<target, request, todo, answer>>
      BY <1>7 DEF ReadsGrant, Working
    <2>2. CASE Fails(k, {Of(k)})
      BY <2>1, <2>2, Failure
    <2>3. CASE Goes(k, "authorized") /\ UNCHANGED <<arkade, approval>>
      <3>1. pc'[k] \in Working
        BY <1>0, <2>3 DEF Goes, Working
      <3> QED BY <2>1, <2>3, <3>1, Onward
    <2> QED BY <1>7, <2>2, <2>3 DEF ReadsGrant
  <1>8. CASE StartsSigner(k) \/ SignerEnds(k) \/ Checks(k)
    <2>1. /\ pc[k] \in Working /\ UNCHANGED <<arkade, approval, target, request, answer>>
          /\ Goes(k, "signing") \/ Goes(k, "authorizing")
      BY <1>8 DEF StartsSigner, SignerEnds, Checks, Authorized, authorityVars, arkadeVars, Working
    <2>2. pc'[k] \in Working
      BY <1>0, <2>1 DEF Goes, Working
    <2>3. todo' = todo \/ (todo' = [todo EXCEPT ![k] = Tail(@)] /\ todo[k] # <<"prepare">>)
      BY <1>8 DEF StartsSigner, SignerEnds, Checks, Step, StepDone, arkadeVars
    <2>4. \A c \in Completions \ {k} : todo'[c] = todo[c]
      BY <1>0, <2>3 DEF Handlers
    <2> QED BY <2>1, <2>2, <2>3, <2>4, Onward
  <1>9. CASE k \in Completions /\ Prepares(k)
    <2>1. /\ pc[k] \in Working /\ UNCHANGED <<arkade, approval, target, request, answer>>
          /\ Goes(k, "authorizing") /\ approval[target[k]].completed \in {None, request[k]}
          /\ \A c \in Completions \ {k} : todo'[c] = todo[c]
      BY <1>0, <1>9 DEF Prepares, Authorized, authorityVars, Working, Handlers
    <2>2. pc'[k] \in Working
      BY <1>0, <2>1 DEF Goes, Working
    <2> QED BY <2>1, <2>2, Onward
  <1> QED
    BY <1>h, <1>1, <1>2, <1>3, <1>4, <1>5, <1>6, <1>7, <1>8, <1>9
    DEF HandlerStep, ApproveSteps, HandlerSteps

\* What a write of one field of one approval leaves.
LEMMA Updated ==
  ASSUME NEW f \in [Transactions -> Approval], NEW t, NEW a, t \in Transactions => a \in Approval
  PROVE  /\ [f EXCEPT ![t] = a] \in [Transactions -> Approval]
         /\ \A u \in Transactions : [f EXCEPT ![t] = a][u] = IF u = t THEN a ELSE f[u]
  OBVIOUS

\* What each field's write leaves of an approval.
LEMMA Fields ==
  ASSUME NEW a \in Approval
  PROVE  /\ \A v \in Nat : LET x == [a EXCEPT !.version = v] IN x \in Approval /\ x.grant = a.grant
         /\ \A g \in Connects : LET x == [a EXCEPT !.grant = g] IN x \in Approval /\ x.grant = g
         /\ LET x == [a EXCEPT !.expiring = TRUE] IN x \in Approval /\ x.grant = a.grant
         /\ LET x == [a EXCEPT !.ready = TRUE] IN x \in Approval /\ x.grant = a.grant
         /\ \A b \in BOOLEAN : LET x == [a EXCEPT !.busy = b] IN x \in Approval /\ x.grant = a.grant
         /\ \A r \in Requests : LET x == [[a EXCEPT !.completed = r] EXCEPT !.busy = FALSE]
                                IN  x \in Approval /\ x.grant = a.grant
  BY DEF Approval

\* Every step of a handler keeps the types.
LEMMA HandlerTypes ==
  ASSUME ArkadeInv, NEW k \in Handlers, HandlerStep(k), Moves(k)
  PROVE  ArkadeTypeOK'
  <1> DEFINE Steps == {"sign", "check", "stage", "prepare", "release"}
  <1>0. /\ SiteTypeOK /\ SiteTypeOK' /\ k \in Tasks
        /\ approval \in [Transactions -> Approval]
        /\ target \in [Completions -> Transactions \cup {None}]
        /\ request \in [Completions -> Requests \cup {None}]
        /\ todo \in [Handlers -> Seq(Steps)]
        /\ answer \in [Completions -> Requests \cup {None}]
        /\ \A u \in Handlers \ {k} : pc'[u] = pc[u]
    BY SiteAfterMove, Alone DEF ArkadeInv, ArkadeTypeOK, SiteInv
  <1>h. k \in Transactions \/ k \in Completions
    BY DEF Handlers
  <1>1. todo' \in [Handlers -> Seq(Steps)]
    <2>1. \/ todo' = todo
          \/ todo[k] # <<>> /\ todo' = [todo EXCEPT ![k] = Tail(@)]
          \/ \E s \in {<<"prepare">>, <<"sign", "stage">>, <<"release">>, SignEach \o <<"release">>,
                       <<"sign", "check">> \o SignEach \o <<"release">>} : todo' = [todo EXCEPT ![k] = s]
      BY DEF HandlerStep, ApproveSteps, HandlerSteps, ApproveAsk, ApproveReadsGrant, ApproveContext,
         ApproveInspected, ApproveRereads, ApprovePrompts, ApproveApproved, ApproveFails, CompleteAsk,
         ReadsGrant, StartsSigner, SignerEnds, Checks, Stages, ReleasesAll, Prepares, Releases, HandlerFails,
         Step, StepDone, arkadeVars
    <2>2. {<<"prepare">>, <<"sign", "stage">>, <<"release">>, SignEach \o <<"release">>,
           <<"sign", "check">> \o SignEach \o <<"release">>} \subseteq Seq(Steps)
      BY SignEachIs
    <2>3. todo[k] # <<>> => Tail(todo[k]) \in Seq(Steps)
      BY <1>0, HeadAndTail
    <2> QED BY <1>0, <2>1, <2>2, <2>3
  <1>2. target' \in [Completions -> Transactions \cup {None}] /\ request' \in [Completions -> Requests \cup {None}]
    <2>1. \/ UNCHANGED <<target, request>>
          \/ \E t \in Transactions, r \in Requests :
               target' = [target EXCEPT ![k] = t] /\ request' = [request EXCEPT ![k] = r]
      BY DEF HandlerStep, ApproveSteps, HandlerSteps, ApproveAsk, ApproveReadsGrant, ApproveContext,
         ApproveInspected, ApproveRereads, ApprovePrompts, ApproveApproved, ApproveFails, CompleteAsk,
         ReadsGrant, StartsSigner, SignerEnds, Checks, Stages, ReleasesAll, Prepares, Releases, HandlerFails,
         arkadeVars
    <2> QED BY <1>0, <2>1
  <1>3. answer' \in [Completions -> Requests \cup {None}]
    <2>1. answer' = answer \/ (k \in Completions /\ answer' = [answer EXCEPT ![k] = request[k]])
      BY DEF HandlerStep, ApproveSteps, HandlerSteps, ApproveAsk, ApproveReadsGrant, ApproveContext,
         ApproveInspected, ApproveRereads, ApprovePrompts, ApproveApproved, ApproveFails, CompleteAsk,
         ReadsGrant, StartsSigner, SignerEnds, Checks, Stages, ReleasesAll, Prepares, Releases, HandlerFails,
         arkadeVars
    <2> QED BY <1>0, <2>1
  <1>4. /\ approval' \in [Transactions -> Approval]
        /\ \A t \in Transactions : approval[t].grant \in Connects => approval'[t].grant \in Connects
        /\ k \in Transactions /\ pc'[k] \notin {"new", "checked", "done"} => approval'[k].grant \in Connects
    <2>0. ASSUME NEW t, NEW a, approval' = [approval EXCEPT ![t] = a],
                 t \in Transactions => a \in Approval /\ (approval[t].grant \in Connects => a.grant \in Connects),
                 k \in Transactions /\ pc'[k] \notin {"new", "checked", "done"} =>
                   pc[k] \notin {"new", "checked", "done"} \/ (t = k /\ a.grant \in Connects)
          PROVE  /\ approval' \in [Transactions -> Approval]
                 /\ \A u \in Transactions : approval[u].grant \in Connects => approval'[u].grant \in Connects
                 /\ k \in Transactions /\ pc'[k] \notin {"new", "checked", "done"} => approval'[k].grant \in Connects
      <3>1. /\ approval' \in [Transactions -> Approval]
            /\ \A u \in Transactions : approval'[u] = IF u = t THEN a ELSE approval[u]
        BY <1>0, <2>0, Updated
      <3> QED BY <2>0, <3>1 DEF ArkadeInv, ArkadeTypeOK
    <2>f. \A t \in Transactions : approval[t] \in Approval
      BY <1>0
    <2>1. CASE k \in Transactions /\ \E o \in Origins : ApproveAsk(k, o)
      <3>1. PICK o \in Origins : approval' = [approval EXCEPT ![k].version = connection[o].version]
                                 /\ pc' = [pc EXCEPT ![k] = "checked"]
        BY <2>1 DEF ApproveAsk, Asks, Goes
      <3> DEFINE a == [approval[k] EXCEPT !.version = connection[o].version]
      <3>2. connection[o].version \in Nat /\ pc'[k] = "checked"
        BY <1>0, <3>1 DEF SiteTypeOK
      <3>3. a \in Approval /\ a.grant = approval[k].grant
        BY <2>1, <2>f, <3>2, Fields
      <3>4. approval' = [approval EXCEPT ![k] = a]
        BY <3>1
      <3> QED BY <2>0, <3>2, <3>3, <3>4
    <2>2. CASE k \in Transactions /\ ApproveReadsGrant(k)
      <3> DEFINE a == [approval[k] EXCEPT !.grant = grants[site[k]]]
      <3>1. grants[site[k]] \in Connects
        BY <1>0, <2>2 DEF ApproveReadsGrant, SiteTypeOK
      <3>2. a \in Approval
        BY <2>2, <2>f, <3>1, Fields
      <3>3. a.grant \in Connects
        BY <2>2, <2>f, <3>1, Fields
      <3>4. approval' = [approval EXCEPT ![k] = a]
        BY <2>2 DEF ApproveReadsGrant
      <3> HIDE DEF a
      <3> QED BY <2>0, <3>2, <3>3, <3>4
    <2>3. CASE k \in Transactions /\ (ApproveContext(k) \/ ApproveInspected(k) \/ ApproveRereads(k)
                                        \/ ApprovePrompts(k))
      BY <1>0, <2>3 DEF ApproveContext, ApproveInspected, ApproveRereads, ApprovePrompts, arkadeVars,
         ArkadeInv, ArkadeTypeOK
    <2>4. CASE k \in Transactions /\ ApproveApproved(k)
      <3> DEFINE a == [approval[k] EXCEPT !.expiring = TRUE]
      <3>1. pc[k] \notin {"new", "checked", "done"} /\ approval' = [approval EXCEPT ![k] = a]
        BY <2>4 DEF ApproveApproved, Approved, Declined
      <3>2. a \in Approval /\ a.grant = approval[k].grant
        BY <2>4, <2>f, Fields
      <3> HIDE DEF a
      <3> QED BY <2>0, <3>1, <3>2
    <2>5. ASSUME NEW dropped, Fails(k, dropped)
          PROVE  /\ approval' \in [Transactions -> Approval]
                 /\ \A t \in Transactions : approval[t].grant \in Connects => approval'[t].grant \in Connects
                 /\ pc'[k] = "done"
      <3>1. pc'[k] = "done"
        BY <1>0, <2>5 DEF Fails, Goes, SiteTypeOK
      <3>2. CASE k \in Completions
        <4> DEFINE a == [approval[Of(k)] EXCEPT !.busy = FALSE]
        <4>1. approval' = [approval EXCEPT ![Of(k)] = a]
          BY <2>5, <3>2 DEF Fails
        <4>2. Of(k) \in Transactions => a \in Approval /\ a.grant = approval[Of(k)].grant
          BY <2>f, Fields
        <4> HIDE DEF a
        <4> QED BY <2>0, <3>1, <4>1, <4>2
      <3>3. CASE k \notin Completions
        BY <1>0, <2>5, <3>1, <3>3 DEF Fails
      <3> QED BY <3>2, <3>3
    <2>6. CASE (k \in Transactions /\ ApproveFails(k)) \/ HandlerFails(k)
      BY <2>5, <2>6 DEF ApproveFails, HandlerFails
    <2>7. CASE ReadsGrant(k)
      <3>1. CASE Fails(k, {Of(k)})
        BY <2>5, <3>1
      <3>2. CASE UNCHANGED approval
        BY <1>0, <2>7, <3>2 DEF ReadsGrant, ArkadeInv, ArkadeTypeOK
      <3> QED BY <2>7, <3>1, <3>2 DEF ReadsGrant
    <2>8. CASE StartsSigner(k) \/ SignerEnds(k) \/ Checks(k) \/ (k \in Transactions /\ (Stages(k) \/ ReleasesAll(k)))
      <3>1. pc[k] \notin {"new", "checked", "done"}
        BY <2>8 DEF StartsSigner, SignerEnds, Checks, Stages, ReleasesAll, Authorized
      <3>2. CASE approval' = approval
        BY <1>0, <3>1, <3>2 DEF ArkadeInv, ArkadeTypeOK
      <3>3. CASE k \in Transactions /\ Stages(k)
        <4> DEFINE a == [approval[k] EXCEPT !.ready = TRUE]
        <4>1. approval' = [approval EXCEPT ![k] = a]
          BY <3>3 DEF Stages
        <4>2. a \in Approval /\ a.grant = approval[k].grant
          BY <2>f, <3>3, Fields
        <4> HIDE DEF a
        <4> QED BY <2>0, <3>1, <4>1, <4>2
      <3> QED BY <2>8, <3>2, <3>3 DEF StartsSigner, SignerEnds, Checks, ReleasesAll, arkadeVars
    <2>9. CASE k \in Completions /\ (Prepares(k) \/ Releases(k) \/ \E o \in Origins, t \in Transactions : CompleteAsk(k, o, t))
      <3>1. k \notin Transactions
        BY <2>9, SiteAssumption
      <3>2. CASE Prepares(k)
        BY <1>0, <3>1, <3>2 DEF Prepares
      <3>3. CASE Releases(k)
        <4> DEFINE t == target[k]
                   a == [[approval[t] EXCEPT !.completed = request[k]] EXCEPT !.busy = FALSE]
        <4>1. t \in Transactions /\ request[k] \in Requests
          BY <2>9, <3>3, Completing DEF Releases
        <4>2. approval' = [[approval EXCEPT ![t].completed = request[k]] EXCEPT ![t].busy = FALSE]
          BY <3>3 DEF Releases
        <4>3. approval' = [approval EXCEPT ![t] = a]
          BY <1>0, <4>1, <4>2
        <4>4. a \in Approval /\ a.grant = approval[t].grant
          BY <2>f, <4>1, Fields
        <4> HIDE DEF a, t
        <4> QED BY <2>0, <3>1, <4>1, <4>3, <4>4
      <3>4. ASSUME NEW o \in Origins, NEW t \in Transactions, CompleteAsk(k, o, t)
            PROVE  /\ approval' \in [Transactions -> Approval]
                   /\ \A u \in Transactions : approval[u].grant \in Connects => approval'[u].grant \in Connects
        <4> DEFINE a == [approval[t] EXCEPT !.busy = TRUE]
        <4>1. approval' = [approval EXCEPT ![t] = a]
          BY <3>4 DEF CompleteAsk
        <4>2. a \in Approval /\ a.grant = approval[t].grant
          BY <2>f, Fields
        <4> HIDE DEF a
        <4> QED BY <2>0, <3>1, <4>1, <4>2
      <3> QED BY <2>9, <3>1, <3>2, <3>3, <3>4
    <2> QED BY <2>1, <2>2, <2>3, <2>4, <2>6, <2>7, <2>8, <2>9 DEF HandlerStep, ApproveSteps, HandlerSteps
  <1>5. ASSUME NEW t \in Transactions, pc'[t] \notin {"new", "checked", "done"}
        PROVE  approval'[t].grant \in Connects
    BY <1>0, <1>4, <1>5 DEF ArkadeInv, ArkadeTypeOK, Handlers
  <1> QED BY <1>0, <1>1, <1>2, <1>3, <1>4, <1>5 DEF ArkadeTypeOK

----------------------------------------------------------------------------
(* The theorems.                                                           *)

\* The invariant is inductive.
THEOREM ArkadeInvariant == Spec => []ArkadeInv
  <1>1. ArkadeInit => ArkadeInv
    <2> SUFFICES ASSUME ArkadeInit PROVE ArkadeInv
      OBVIOUS
    <2>1. SiteInv
      BY SiteBegins DEF ArkadeInit
    <2>2. \A k \in Handlers : k \in Tasks /\ pc[k] = "new"
      BY DEF ArkadeInit, SiteInit, Handlers, Tasks
    <2>3. ArkadeTypeOK
      <3>1. <<>> \in Seq({"sign", "check", "stage", "prepare", "release"})
        OBVIOUS
      <3> QED BY <2>1, <2>2, <3>1 DEF ArkadeInit, ArkadeTypeOK, SiteInv, Approval, Handlers
    <2>4. arkade = {} /\ (\A t \in Transactions : pc[t] = "new" /\ ~approval[t].ready /\ ~approval[t].busy)
          /\ \A c \in Completions : pc[c] = "new" /\ answer[c] = None
      BY <2>2 DEF ArkadeInit, SiteInit, Handlers
    <2> QED BY <2>1, <2>3, <2>4 DEF ArkadeInv, ConnectionInv, MapInv, BusyInv, AnswerInv, Asked, Working
  <1>2. ArkadeInv /\ [Next]_vars => ArkadeInv'
    <2> SUFFICES ASSUME ArkadeInv, [Next]_vars PROVE ArkadeInv'
      OBVIOUS
    <2>1. CASE [SiteNext]_siteVars /\ UNCHANGED arkadeVars
      <3>1. SiteInv'
        BY <2>1, SiteStep DEF ArkadeInv
      <3> QED BY <2>1, <3>1, ConnectionOthers, RestOthers DEF ArkadeInv
    <2>2. CASE \E t \in Transactions : Expires(t)
      BY <2>2, Expiry
    <2>3. ASSUME NEW k \in Handlers, HandlerStep(k) PROVE ArkadeInv'
      <3>1. Moves(k)
        BY <2>3, Moved DEF ArkadeInv
      <3>2. SiteInv' /\ ArkadeTypeOK' /\ Rest'
        BY <2>3, <3>1, SiteAfterMove, HandlerTypes, HandlerRest DEF ArkadeInv
      <3> QED BY <3>2 DEF ArkadeInv, Rest
    <2> QED BY <2>1, <2>2, <2>3, NextCases
  <1> QED BY <1>1, <1>2, PTL DEF Spec

(* Every variable keeps its type: among the rest no approval leaves its    *)
(* first read without a grant, and no handler is left with a step it does  *)
(* not know (provider-handlers.ts:421-592).                                *)
THEOREM ArkadeTypes == Spec => []ArkadeTypeOK
  <1>1. ArkadeInv => ArkadeTypeOK
    BY DEF ArkadeInv
  <1> QED BY <1>1, ArkadeInvariant, PTL

(* What is in the map belongs to the grant that is stored and to the       *)
(* session that lives, has its handler or was handed to the site, and is   *)
(* busy only while a completion works on it, for any number of sites and   *)
(* calls and however their steps interleave (arkade-approvals.ts:26-34,    *)
(* provider-handlers.ts:503-505, 547-549).                                 *)
THEOREM ApprovalsAreBound == Spec => []ApprovalsBound
  <1>1. ArkadeInv => ApprovalsBound
    <2> SUFFICES ASSUME ArkadeInv, NEW t \in arkade
                 PROVE  /\ grants[site[t]] = approval[t].grant /\ InSession(t)
                        /\ approval[t].ready \/ pc[t] \notin Over
                        /\ approval[t].busy => \E c \in Completions : target[c] = t /\ pc[c] \notin Over
      BY DEF ApprovalsBound
    <2>1. t \in Transactions
      BY DEF ArkadeInv, SiteInv, SiteTypeOK
    <2>2. grants[site[t]] = approval[t].grant
      BY <2>1 DEF ArkadeInv, ConnectionInv
    <2>3. InSession(t) /\ (approval[t].ready \/ pc[t] \notin Over)
      BY DEF ArkadeInv, MapInv, Over, Working
    <2>4. approval[t].busy => \E c \in Completions : target[c] = t /\ pc[c] \notin Over
      BY DEF ArkadeInv, BusyInv, Over, Working
    <2> QED BY <2>2, <2>3, <2>4
  <1> QED BY <1>1, ArkadeInvariant, PTL

(* All completions answered under one approval were answered for the same  *)
(* checkpoints: whoever comes second finds what the first has on record    *)
(* (provider-handlers.ts:533-549, docs/ARKADE-SIGNING.md:73-76).           *)
THEOREM OneAnswerEach == Spec => []OneAnswer
  <1>1. ArkadeInv => OneAnswer
    BY DEF ArkadeInv, AnswerInv, OneAnswer
  <1> QED BY <1>1, ArkadeInvariant, PTL

(* No signature is started and no answer released unless the grant and the *)
(* session the user approved it in still hold in that very step, although  *)
(* the step itself looks at no grant (provider-handlers.ts:567-592).       *)
THEOREM SignaturesUnderGrant == Spec => SignedUnderGrant
  <1> DEFINE A == \A k \in Handlers :
                    pc'[k] # pc[k] /\ pc'[k] \in {"signing", "signed"}
                      => /\ grants[site[k]] = approval[Of(k)].grant
                         /\ InSession(Of(k))
                         /\ verdict[Of(k)] = "approved"
  <1>1. ArkadeInv /\ [Next]_vars => [A]_vars
    <2> SUFFICES ASSUME ArkadeInv, [Next]_vars, NEW k \in Handlers,
                        pc'[k] # pc[k], pc'[k] \in {"signing", "signed"}
                 PROVE  /\ grants[site[k]] = approval[Of(k)].grant
                        /\ InSession(Of(k))
                        /\ verdict[Of(k)] = "approved"
      OBVIOUS
    <2>0. SiteTypeOK /\ k \in Tasks
      BY DEF ArkadeInv, SiteInv, Handlers, Tasks
    <2>1. HandlerStep(k)
      <3>1. CASE [SiteNext]_siteVars
        <4>1. CASE WorkerDies
          BY <2>0, <4>1 DEF WorkerDies
        <4>2. CASE ~WorkerDies
          BY <3>1, <4>2, Others DEF ArkadeInv
        <4> QED BY <4>1, <4>2
      <3>2. CASE \E t \in Transactions : Expires(t)
        BY <3>2 DEF Expires, taskVars
      <3>3. ASSUME NEW j \in Handlers, HandlerStep(j), j # k PROVE FALSE
        BY <3>3, Moved, Alone DEF ArkadeInv
      <3> QED BY <3>1, <3>2, <3>3, NextCases
    <2>2. Authorized(k)
      <3>1. StartsSigner(k) \/ Stages(k) \/ ReleasesAll(k) \/ Releases(k)
        BY <2>0, <2>1 DEF HandlerStep, ApproveSteps, HandlerSteps, ApproveAsk, ApproveReadsGrant, ApproveContext,
           ApproveInspected, ApproveRereads, ApprovePrompts, ApproveApproved, ApproveFails, CompleteAsk,
           ReadsGrant, SignerEnds, Checks, Prepares, HandlerFails, Fails, Prompts, Asks, Goes, SiteTypeOK
      <3> QED BY <3>1 DEF StartsSigner, Stages, ReleasesAll, Releases
    <2>3. CASE k \in Transactions
      <3>1. Of(k) = k /\ k \in arkade /\ InSession(k) /\ pc[k] = "authorized"
        BY <2>2, <2>3 DEF Authorized, Of
      <3> QED BY <2>3, <3>1 DEF ArkadeInv, ConnectionInv, MapInv, Working
    <2>4. CASE k \in Completions
      <3>1. Of(k) = target[k] /\ target[k] \in Transactions /\ target[k] \in arkade
            /\ site[target[k]] = site[k] /\ pc[target[k]] = "signed"
        BY <2>2, <2>4, Completing
      <3>2. InSession(Of(k))
        BY <2>2 DEF Authorized
      <3> QED BY <3>1, <3>2 DEF ArkadeInv, ConnectionInv, MapInv
    <2> QED BY <2>3, <2>4 DEF Handlers
  <1>2. Spec => [][A]_vars
    BY <1>1, ArkadeInvariant, PTL DEF Spec
  <1> QED BY <1>2 DEF SignedUnderGrant

(* The Arkade approvals use the gate as the other requests of the sites    *)
(* do: with them too it is the gate that Approvals implements              *)
(* (approvals.ts:17-25, provider-handlers.ts:475-505).                     *)
THEOREM ArkadeUsesTheGate == Spec => GateUsedAsPromised
  <1>1. ArkadeInit => Gate!Init
    BY SiteAssumption DEF ArkadeInit, SiteInit, Gate!Init, CallerOf, Unasked, Prompting, Tasks
  <1>2. ArkadeInv /\ [Next]_vars => GateStep
    <2> SUFFICES ASSUME ArkadeInv, [Next]_vars PROVE GateStep
      OBVIOUS
    <2>1. CASE [SiteNext]_siteVars
      BY <2>1, SitesStepGate DEF ArkadeInv
    <2>2. CASE \E t \in Transactions : Expires(t)
      BY <2>2, GateRests DEF Expires, promptVars, taskVars, CallerOf
    <2>3. ASSUME NEW k \in Handlers, HandlerStep(k) PROVE GateStep
      <3>1. Moves(k) /\ SiteTypeOK /\ k \in Tasks
        BY <2>3, Moved DEF ArkadeInv, SiteInv, Handlers, Tasks
      <3>2. CASE k \in Transactions /\ Prompts(k) /\ pc[k] \in Unasked
        BY <3>1, <3>2, GateEntered DEF Prompting
      <3>3. CASE UNCHANGED promptVars /\ (k # prompt \/ Abandoned(k)') /\ pc'[k] # "prompted"
                 /\ (pc'[k] \in Unasked => pc[k] \in Unasked)
        BY <3>1, <3>3, GateLeft DEF Moves, Abandoned, promptVars
      <3> QED BY <3>1, <3>2, <3>3 DEF Moves
    <2> QED BY <2>1, <2>2, <2>3, NextCases
  <1> QED BY <1>1, <1>2, ArkadeInvariant, PTL DEF Spec, GateUsedAsPromised, Gate!Spec, GateStep

----------------------------------------------------------------------------
(* The inspection of what is to be signed, whatever transactions,          *)
(* contracts and checkpoints there are.  No property of it speaks of two   *)
(* submissions, so the state adds nothing: each is proved of a single      *)
(* submission first.                                                       *)

Spendable(script) == \E leaf \in script : OursAlone(leaf)

(* A script that the wallet takes for its own was built for its key        *)
(* (wallet-scripts.ts:8-28).                                               *)
LEMMA OwnScriptsSpendable ==
  ASSUME NEW script \in OwnScripts
  PROVE  Spendable(script)
<1> DEFINE leaf == Leaf("csv-multisig", <<Us>>)
<1>1. OursAlone(leaf)
  <2>1. Signers(leaf) = {Us}
    BY DEF Signers, Leaf
  <2> QED BY <2>1 DEF OursAlone
<1>2. \A c : c.owner = Us => leaf \in Rebuilt(c)
  BY DEF Rebuilt
<1>3. \E c : c.owner = Us /\ script = Rebuilt(c)
  <2>1. CASE script = Rebuilt([type |-> "default", owner |-> Us])
    BY <2>1
  <2>2. CASE \E c \in Contracts : Owned(c) /\ script = c.script
    BY <2>2 DEF Owned
  <2> QED BY <2>1, <2>2 DEF OwnScripts
<1> QED BY <1>1, <1>2, <1>3 DEF Spendable

(* An input that is called own is a coin that the wallet can spend: it has *)
(* an own script, or a leaf it commits to is ours alone                    *)
(* (psbt-inspect.ts:325-400).                                              *)
LEMMA OwnInputsSpendable ==
  ASSUME NEW in, Role(in) = "own"
  PROVE  Spendable(in.script)
<1>1. CASE in.leaf = NoLeaf /\ in.known /\ in.script \in OwnScripts
  BY <1>1, OwnScriptsSpendable
<1>2. CASE ~(in.leaf = NoLeaf /\ in.known /\ in.script \in OwnScripts)
  <2>1. in.leaf # NoLeaf /\ CanSign(in) /\ OursAlone(in.leaf)
    BY <1>2 DEF Role
  <2>2. in.leaf \in in.script
    BY <2>1 DEF CanSign, Committed
  <2> QED BY <2>1, <2>2 DEF Spendable
<1> QED BY <1>1, <1>2

SignedSats(tx, indexes) ==
  SumOver(DOMAIN SignInputs(tx, indexes), LAMBDA i : SignInputs(tx, indexes)[i].amount)

InSats(tx) == SumOver(DOMAIN tx.ins, LAMBDA i : tx.ins[i].amount)

OutSats(tx) == SumOver(DOMAIN tx.outs, LAMBDA j : tx.outs[j].amount)

SatsOf(outs, J) == SumOver(J, LAMBDA j : outs[j].amount)

(* What an accepted summary says of a transaction is what was found out    *)
(* about it (psbt-inspect.ts:213-260).                                     *)
LEMMA SummaryParts ==
  ASSUME NEW tx, NEW indexes, NEW allowHighFee, NEW subdust,
         InspectPsbt(tx, indexes, allowHighFee, subdust).accepted
  PROVE  LET s == InspectPsbt(tx, indexes, allowHighFee, subdust)
             outs == DecodeOutputs(tx, subdust)
             leaving == SignedSats(tx, indexes) - SatsOf(outs, OwnChange(outs))
         IN /\ Acceptable(tx, indexes, allowHighFee, subdust, SignInputs(tx, indexes))
            /\ s.signInputs = SignInputs(tx, indexes)
            /\ s.outputs = outs
            /\ s.totalLeaving = IF leaving < 0 THEN 0 ELSE leaving
            /\ s.totalToExternal = SatsOf(outs, Payouts(outs))
            /\ s.fee = FeeOf(tx)
            /\ s.feeKnown = FeeKnown(tx)
            /\ s.flags = Flags(tx, outs, SignInputs(tx, indexes))
<1>1. Acceptable(tx, indexes, allowHighFee, subdust, SignInputs(tx, indexes))
  BY Zenon DEF InspectPsbt, Rejected
<1> QED BY <1>1 DEF InspectPsbt, SignedSats, SatsOf

(* Nothing that an inspection calls the wallet's own is another's, whatever *)
(* the request states (psbt-inspect.ts:349-386).                           *)
THEOREM OwnIsTrue == InspectionSpec => []OwnIsOwn
<1>1. OwnIsOwn
  <2> SUFFICES ASSUME NEW indexes \in SUBSET (1..3), NEW allowHighFee \in BOOLEAN,
                      NEW subdust \in BOOLEAN,
                      InspectPsbt(submission.tx, indexes, allowHighFee, subdust).accepted
               PROVE  LET s == InspectPsbt(submission.tx, indexes, allowHighFee, subdust)
                          tx == submission.tx IN
                        /\ \A i \in DOMAIN s.signInputs :
                             s.signInputs[i].role = "own" => Spendable(tx.ins[i].script)
                        /\ \A j \in DOMAIN s.outputs :
                             s.outputs[j].own => Spendable(tx.outs[j].script)
    BY Zenon DEF OwnIsOwn, Promises, Spendable
  <2> DEFINE tx == submission.tx
             s == InspectPsbt(tx, indexes, allowHighFee, subdust)
  <2>1. /\ s.signInputs = SignInputs(tx, indexes)
        /\ s.outputs = DecodeOutputs(tx, subdust)
    BY SummaryParts
  <2> HIDE DEF s
  <2>2. ASSUME NEW i \in DOMAIN s.signInputs, s.signInputs[i].role = "own"
        PROVE  Spendable(tx.ins[i].script)
    BY <2>1, <2>2, OwnInputsSpendable DEF SignInputs, ClassifyInput
  <2>3. ASSUME NEW j \in DOMAIN s.outputs, s.outputs[j].own
        PROVE  Spendable(tx.outs[j].script)
    <3>1. j \in DOMAIN tx.outs /\ s.outputs[j] = Decoded(tx.outs[j], subdust)
      BY <2>1 DEF DecodeOutputs
    <3>2. tx.outs[j].script \in OwnScripts
      <4>1. Decoded(tx.outs[j], subdust).own
              = (Kind(tx.outs[j], subdust) # "op_return" /\ tx.outs[j].script \in OwnScripts)
        BY DEF Decoded
      <4> HIDE DEF tx
      <4> QED BY Zenon, <2>3, <3>1, <4>1
    <3> QED BY Zenon, <3>2, OwnScriptsSpendable
  <2> QED BY <2>2, <2>3 DEF s
<1> QED BY <1>1, PTL
(***************************************************************************)
(* Completed checkpoints.                                                  *)
(***************************************************************************)

(* Signing a checkpoint changes its signatures only.                       *)
LEMMA SigningKeepsTheRest ==
  ASSUME NEW cp, IsCheckpoint(cp), NEW sigs
  PROVE  /\ Signed(cp, sigs).in.sigs = sigs
         /\ Signed(cp, sigs).in.leaf = cp.in.leaf
         /\ Signed(Signed(cp, sigs), cp.in.sigs) = cp
         /\ OnePerKey(sigs) => IsCheckpoint(Signed(cp, sigs))
<1> DEFINE Rec(f, k, s, a, t, l, o, g, out, sel) ==
             [from |-> f, in |-> [known |-> k, script |-> s, amount |-> a, tree |-> t,
                                  leaf |-> l, open |-> o, sigs |-> g],
              out |-> out, selected |-> sel]
<1>1. ASSUME NEW f, NEW k, NEW s, NEW a, NEW t, NEW l, NEW o, NEW g, NEW out, NEW sel, NEW h
      PROVE  Signed(Rec(f, k, s, a, t, l, o, g, out, sel), h)
               = Rec(f, k, s, a, t, l, o, h, out, sel)
  BY DEF Signed
<1>2. PICK f, k, s, a, t, l, o, g, out, sel : cp = Rec(f, k, s, a, t, l, o, g, out, sel)
  <2>1. cp = Rec(cp.from, cp.in.known, cp.in.script, cp.in.amount, cp.in.tree, cp.in.leaf,
                 cp.in.open, cp.in.sigs, cp.out, cp.selected)
    BY Zenon DEF IsCheckpoint
  <2> QED BY Zenon, <2>1
<1>3. Signed(cp, sigs) = Rec(f, k, s, a, t, l, o, sigs, out, sel)
  <2> HIDE DEF Rec
  <2> QED BY SMT, <1>1, <1>2
<1>4. cp.in.sigs = g /\ cp.in.leaf = l
  BY <1>2
<1>5. Signed(Signed(cp, sigs), g) = cp
  <2> HIDE DEF Rec
  <2> QED BY SMT, <1>1, <1>2, <1>3
<1>6. OnePerKey(sigs) => IsCheckpoint(Rec(f, k, s, a, t, l, o, sigs, out, sel))
  <2> DEFINE r == Rec(f, k, s, a, t, l, o, sigs, out, sel)
  <2>1. r = [from |-> r.from, in |-> r.in, out |-> r.out, selected |-> r.selected]
    OBVIOUS
  <2>2. r.in = [known |-> r.in.known, script |-> r.in.script, amount |-> r.in.amount,
                tree |-> r.in.tree, leaf |-> r.in.leaf, open |-> r.in.open,
                sigs |-> r.in.sigs]
    OBVIOUS
  <2>3. r.in.sigs = sigs
    OBVIOUS
  <2> HIDE DEF r
  <2> QED BY Zenon, <2>1, <2>2, <2>3 DEF IsCheckpoint
<1>7. Rec(f, k, s, a, t, l, o, sigs, out, sel).in.sigs = sigs
  OBVIOUS
<1>8. Rec(f, k, s, a, t, l, o, sigs, out, sel).in.leaf = l
  OBVIOUS
<1> HIDE DEF Rec
<1> QED BY Zenon, <1>3, <1>4, <1>5, <1>6, <1>7, <1>8

(* A returned checkpoint that differs in nothing else is merged into the   *)
(* stored one (arkade-inspect.ts:343-366).                                 *)
LEMMA MergeAdds ==
  ASSUME NEW stored, IsCheckpoint(stored), SignaturesValid(stored.in, {}),
         NEW returned, IsCheckpoint(returned), Unchanged(stored, returned)
  PROVE  AddsSignatures(Signed(stored, stored.in.sigs \cup returned.in.sigs), stored)
<1> DEFINE sigs == stored.in.sigs \cup returned.in.sigs
           cp == Signed(stored, sigs)
<1>1. cp.in.sigs = sigs /\ cp.in.leaf = stored.in.leaf /\ Signed(cp, stored.in.sigs) = stored
  BY SigningKeepsTheRest
<1>2. returned.in.leaf = stored.in.leaf
  <2>1. [Signed(returned, stored.in.sigs) EXCEPT !.selected = stored.selected] = stored
    BY DEF Unchanged
  <2>2. Signed(returned, stored.in.sigs).in.leaf = returned.in.leaf
    BY SigningKeepsTheRest
  <2>3. ASSUME NEW r, r = [from |-> r.from, in |-> r.in, out |-> r.out, selected |-> r.selected],
               NEW s
        PROVE  [r EXCEPT !.selected = s].in = r.in
    <3>1. PICK f, i, o, l : r = [from |-> f, in |-> i, out |-> o, selected |-> l]
      BY Zenon, <2>3
    <3>2. ASSUME NEW g, NEW h, NEW k, NEW m
          PROVE  [[from |-> g, in |-> h, out |-> k, selected |-> m] EXCEPT !.selected = s].in = h
      OBVIOUS
    <3>3. [r EXCEPT !.selected = s].in = i
      BY Zenon, <3>1, <3>2
    <3> QED BY <3>1, <3>3
  <2>4. IsCheckpoint(Signed(returned, stored.in.sigs))
    BY SigningKeepsTheRest DEF IsCheckpoint
  <2>5. [Signed(returned, stored.in.sigs) EXCEPT !.selected = stored.selected].in
          = Signed(returned, stored.in.sigs).in
    BY Zenon, <2>3, <2>4 DEF IsCheckpoint
  <2> QED BY Zenon, <2>1, <2>2, <2>5
<1>3. OnePerKey(sigs)
  BY DEF OnePerKey, IsCheckpoint, Unchanged
<1>4. SignaturesValid(cp.in, {Operator})
  <2> HIDE DEF cp
  <2> QED BY <1>1, <1>2 DEF SignaturesValid, Unchanged
<1> QED BY <1>1, <1>3, <1>4 DEF AddsSignatures

(* Each approved checkpoint is answered by exactly one of those that are   *)
(* returned, found by its id (arkade-inspect.ts:330-342).                  *)
LEMMA CompletionsAdd ==
  ASSUME NEW approved,
         \A i \in DOMAIN approved :
           IsCheckpoint(approved[i]) /\ SignaturesValid(approved[i].in, {}),
         NEW submitted, \A j \in DOMAIN submitted : IsCheckpoint(submitted[j]),
         PrepareCheckpoints(approved, submitted).accepted,
         NEW i \in DOMAIN approved
  PROVE  AddsSignatures(PrepareCheckpoints(approved, submitted).checkpoints[i], approved[i])
<1> DEFINE Returned(k) == {j \in DOMAIN submitted : Id(submitted[j]) = Id(approved[k])}
           Chosen(k) == CHOOSE j \in Returned(k) : TRUE
           Merged(k) == Signed(approved[k],
                               approved[k].in.sigs \cup submitted[Chosen(k)].in.sigs)
<1>1. /\ \A j, k \in DOMAIN submitted : j # k => Id(submitted[j]) # Id(submitted[k])
      /\ \E j \in Returned(i) : Unchanged(approved[i], submitted[j])
  BY Zenon DEF PrepareCheckpoints, Rejected
<1>2. PrepareCheckpoints(approved, submitted).checkpoints = [k \in DOMAIN approved |-> Merged(k)]
  BY Zenon DEF PrepareCheckpoints, Rejected, Signed
<1>3. PICK j \in Returned(i) : Unchanged(approved[i], submitted[j])
  BY <1>1
<1>4. Chosen(i) = j
  <2>1. Returned(i) = {j}
    BY <1>1, <1>3
  <2> QED BY <2>1
<1>5. AddsSignatures(Merged(i), approved[i])
  <2> HIDE DEF Chosen
  <2> QED BY <1>3, <1>4, MergeAdds
<1> QED BY <1>2, <1>5

(* What comes back for checkpoints that were submitted is checkpoints.     *)
LEMMA AnswersAreCheckpoints ==
  ASSUME NEW approved, \A i \in DOMAIN approved : approved[i] \in Spends,
         NEW sent \in Answers(approved)
  PROVE  IsCheckpoint(sent)
<1>1. CASE sent \in Spends
  BY <1>1, CheckpointsAssumption
<1>2. CASE \E i \in DOMAIN approved, sigs \in Completed : sent = Signed(approved[i], sigs)
  <2>1. PICK i \in DOMAIN approved, sigs \in Completed : sent = Signed(approved[i], sigs)
    BY <1>2
  <2>2. IsCheckpoint(approved[i]) /\ OnePerKey(sigs)
    BY CheckpointsAssumption
  <2> QED BY <2>1, <2>2, SigningKeepsTheRest
<1> QED BY <1>1, <1>2 DEF Answers

(* Whatever comes back of an approved payment, its checkpoints are signed  *)
(* as they were approved, with signatures added and none replaced          *)
(* (arkade-inspect.ts:323-367).                                            *)
THEOREM CompletionsOnlyAdd == InspectionSpec => []OnlySignaturesAdded
<1> DEFINE Submitted == submission \in Submissions \cup {Nothing}
<1>1. submission = Nothing => Submitted
  OBVIOUS
<1>2. Submitted /\ [Submit \/ Inspected]_submission => Submitted'
  BY DEF Submit, Inspected
<1>3. Submitted => OnlySignaturesAdded
  <2> SUFFICES ASSUME Submitted, submission.kind = "completion"
               PROVE  OnlySignaturesAdded
    BY Zenon DEF OnlySignaturesAdded
  <2> DEFINE approved == submission.approved
  <2>1. \A i \in DOMAIN approved :
          approved[i] \in Spends /\ SignaturesValid(approved[i].in, {})
    <3>1. approved \in OneOrTwo({cp \in Spends : CooperativeInput(cp.in)})
      BY DEF Submissions, PsbtSubmissions, Nothing
    <3> QED BY <3>1 DEF OneOrTwo, CooperativeInput
  <2> HIDE DEF approved
  <2>2. ASSUME NEW submitted \in [DOMAIN approved -> Answers(approved)],
               PrepareCheckpoints(approved, submitted).accepted,
               NEW i \in DOMAIN approved
        PROVE  AddsSignatures(PrepareCheckpoints(approved, submitted).checkpoints[i],
                              approved[i])
    <3>1. \A j \in DOMAIN submitted : IsCheckpoint(submitted[j])
      BY <2>1, AnswersAreCheckpoints
    <3>2. \A k \in DOMAIN approved :
            IsCheckpoint(approved[k]) /\ SignaturesValid(approved[k].in, {})
      BY <2>1, CheckpointsAssumption
    <3> QED BY <2>2, <3>1, <3>2, CompletionsAdd
  <2> QED BY Zenon, <2>2 DEF OnlySignaturesAdded, approved
<1> QED BY <1>1, <1>2, <1>3, PTL DEF InspectionSpec

----------------------------------------------------------------------------
(* Sums.  What a recursive function computes is proved by induction, and   *)
(* that by the least counterexample: a set of sizes has a least element.   *)

(* Induction without a predicate as parameter.  A set of numbers has a     *)
(* least element.                                                          *)
LEMMA Least ==
  ASSUME NEW N, N \subseteq Nat, N # {}
  PROVE  \E n \in N : \A m \in N : n <= m
  <1>1. PICK n \in N : \A m \in N : <<m, n>> \notin OpToRel(<, Nat)
    BY NatLessThanWellFounded, WFMin, Zenon
  <1>2. \A m \in N : ~(m < n)
    BY <1>1 DEF OpToRel
  <1> QED BY <1>2

(* What holds of the empty set, and of a set when it holds of the set      *)
(* without any one of its elements, holds of all subsets of a finite set.  *)
LEMMA SubsetInduction ==
  ASSUME NEW S, IsFiniteSet(S), NEW G, {} \in G,
         \A s \in SUBSET S : s # {} /\ (\A x \in s : s \ {x} \in G) => s \in G
  PROVE  SUBSET S \subseteq G
  <1> SUFFICES ASSUME ~(SUBSET S \subseteq G) PROVE FALSE
    OBVIOUS
  <1> DEFINE Bad == (SUBSET S) \ G
             N == {n \in Nat : \E s \in Bad : n = Cardinality(s)}
  <1>1. \A s \in SUBSET S : IsFiniteSet(s) /\ Cardinality(s) \in Nat
    BY FS_Subset, FS_CardinalityType
  <1>2. N \subseteq Nat /\ N # {}
    BY <1>1
  <1>3. PICK n \in N : \A m \in N : n <= m
    BY <1>2, Least
  <1>4. PICK s \in Bad : n = Cardinality(s)
    OBVIOUS
  <1>5. ASSUME NEW x \in s
        PROVE  s \ {x} \in G
    <2>1. s \in SUBSET S /\ x \in s /\ s \ {x} \in SUBSET S
      BY <1>5
    <2>2. IsFiniteSet(s) /\ Cardinality(s) = n /\ n \in Nat
      BY <1>1, <1>4, <2>1
    <2>3. Cardinality(s \ {x}) = n - 1
      BY <2>1, <2>2, FS_RemoveElement
    <2>4. Cardinality(s \ {x}) \in Nat
      BY <1>1, <2>1
    <2> QED BY <1>3, <2>1, <2>2, <2>3, <2>4
  <1> QED BY <1>4, <1>5

\* How the fold of a sum goes on from what it has of smaller sets.
Element(s) == CHOOSE x \in s : TRUE

SumStep(f, g, s) == IF s = {} THEN 0 ELSE f[Element(s)] + g[s \ {Element(s)}]

PartialSum(f, D) == CHOOSE g : g = [s \in SUBSET D |-> SumStep(f, g, s)]

(* What is summed up of each subset.                                       *)
LEMMA PartialSums ==
  ASSUME NEW S, IsFiniteSet(S), NEW f \in [S -> Int]
  PROVE  /\ PartialSum(f, S) \in [SUBSET S -> Int]
         /\ \A s \in SUBSET S : PartialSum(f, S)[s] = SumStep(f, PartialSum(f, S), s)
  <1>1. \A s \in SUBSET S : /\ IsFiniteSet(s) /\ Cardinality(s) \in Nat
                            /\ Cardinality(s) <= Cardinality(S)
                            /\ Cardinality(s) = 0 => s = {}
    BY FS_Subset, FS_CardinalityType, FS_EmptySet
  <1>2. \A s \in SUBSET S : s # {} => /\ Element(s) \in s /\ s \ {Element(s)} \in SUBSET S
                                      /\ Cardinality(s \ {Element(s)}) = Cardinality(s) - 1
    BY <1>1, FS_RemoveElement DEF Element
  <1> DEFINE Upto(n, g) == \A s \in SUBSET S : Cardinality(s) <= n => g[s] = SumStep(f, g, s)
             Some(n) == \E g \in [SUBSET S -> Int] : Upto(n, g)
             N == {n \in Nat : ~Some(n)}
  <1>3. Some(0)
    <2> DEFINE g == [s \in SUBSET S |-> 0]
    <2>1. Upto(0, g)
      BY <1>1 DEF SumStep
    <2>2. g \in [SUBSET S -> Int]
      OBVIOUS
    <2> QED BY <2>1, <2>2
  <1>4. ASSUME NEW n \in Nat, Some(n)
        PROVE  Some(n + 1)
    <2>1. PICK g \in [SUBSET S -> Int] : Upto(n, g)
      BY <1>4
    <2> DEFINE h == [s \in SUBSET S |-> IF Cardinality(s) <= n THEN g[s] ELSE SumStep(f, g, s)]
    <2>2. ASSUME NEW s \in SUBSET S
          PROVE  SumStep(f, g, s) \in Int
      <3> HIDE DEF h
      <3>1. s # {} => f[Element(s)] \in Int /\ g[s \ {Element(s)}] \in Int
        BY <1>2
      <3> QED BY <3>1 DEF SumStep
    <2>3. h \in [SUBSET S -> Int]
      BY <2>2
    <2>4. \A s \in SUBSET S : h[s] = SumStep(f, g, s)
      BY <2>1
    <2>5. ASSUME NEW s \in SUBSET S, Cardinality(s) <= n + 1
          PROVE  SumStep(f, h, s) = SumStep(f, g, s)
      <3>1. s # {} => h[s \ {Element(s)}] = g[s \ {Element(s)}]
        BY <1>1, <1>2, <2>5
      <3> QED BY <3>1 DEF SumStep
    <2>6. Upto(n + 1, h)
      BY <2>4, <2>5
    <2> QED BY <2>3, <2>6
  <1>5. Some(Cardinality(S))
    <2>1. SUFFICES ASSUME N # {} PROVE FALSE
      BY FS_CardinalityType
    <2> HIDE DEF Some
    <2>2. PICK n \in N : \A m \in N : n <= m
      BY <2>1, Least
    <2>3. n # 0 /\ n - 1 \in Nat
      BY <1>3
    <2>4. Some(n - 1)
      BY <2>2, <2>3
    <2> QED BY <1>4, <2>3, <2>4
  <1>6. PICK g \in [SUBSET S -> Int] : Upto(Cardinality(S), g)
    BY <1>5
  <1>7. \A s \in SUBSET S : g[s] = SumStep(f, g, s)
    BY <1>1, <1>6
  <1>8. g = [s \in SUBSET S |-> SumStep(f, g, s)]
    BY <1>7
  <1>9. PartialSum(f, S) = [s \in SUBSET S |-> SumStep(f, PartialSum(f, S), s)]
    BY <1>8 DEF PartialSum
  <1> DEFINE p == PartialSum(f, S)
  <1>10. \A s \in SUBSET S : p[s] = SumStep(f, p, s)
    BY <1>9
  <1>11. SUBSET S \subseteq {s \in SUBSET S : p[s] \in Int}
    <2> DEFINE G == {s \in SUBSET S : p[s] \in Int}
    <2> HIDE DEF p
    <2>1. {} \in G
      <3>1. {} \in SUBSET S
        OBVIOUS
      <3>2. p[{}] = SumStep(f, p, {})
        BY <1>10, <3>1
      <3> QED BY <3>1, <3>2 DEF SumStep
    <2>2. ASSUME NEW s \in SUBSET S, s # {}, \A x \in s : s \ {x} \in G
          PROVE  s \in G
      <3>1. f[Element(s)] \in Int /\ p[s \ {Element(s)}] \in Int
        BY <1>2, <2>2
      <3>2. p[s] = SumStep(f, p, s)
        BY <1>10
      <3>3. p[s] \in Int
        BY <2>2, <3>1, <3>2 DEF SumStep
      <3> QED BY <3>3
    <2>3. SUBSET S \subseteq G
      <3> HIDE DEF G
      <3> QED BY <2>1, <2>2, SubsetInduction
    <2> QED BY <2>3
  <1> QED BY <1>9, <1>10, <1>11

(* It does not matter in which order the elements are taken.               *)
LEMMA AnyOrder ==
  ASSUME NEW S, IsFiniteSet(S), NEW f \in [S -> Int], NEW s \in SUBSET S, NEW x \in s
  PROVE  PartialSum(f, S)[s] = f[x] + PartialSum(f, S)[s \ {x}]
  <1> DEFINE p == PartialSum(f, S)
             G == {t \in SUBSET S : \A y \in t : p[t] = f[y] + p[t \ {y}]}
  <1>1. /\ p \in [SUBSET S -> Int]
        /\ \A t \in SUBSET S : p[t] = SumStep(f, p, t)
    BY PartialSums
  <1>2. {} \in G
    OBVIOUS
  <1>3. ASSUME NEW t \in SUBSET S, t # {}, \A y \in t : t \ {y} \in G, NEW y \in t
        PROVE  p[t] = f[y] + p[t \ {y}]
    <2> DEFINE c == Element(t)
    <2>1. c \in t /\ p[t] = f[c] + p[t \ {c}]
      BY <1>1, <1>3 DEF Element, SumStep
    <2>2. CASE y # c
      <3>1. p[t \ {c}] = f[y] + p[(t \ {c}) \ {y}]
        BY <1>3, <2>1, <2>2
      <3>2. p[t \ {y}] = f[c] + p[(t \ {y}) \ {c}]
        BY <1>3, <2>1, <2>2
      <3>3. (t \ {c}) \ {y} = (t \ {y}) \ {c} /\ (t \ {y}) \ {c} \in SUBSET S
        OBVIOUS
      <3> HIDE DEF p, c, G
      <3>4. p[(t \ {y}) \ {c}] \in Int /\ f[c] \in Int /\ f[y] \in Int
        BY <1>1, <2>1, <3>3
      <3>5. p[t \ {c}] = f[y] + p[(t \ {y}) \ {c}]
        BY <3>1, <3>3
      <3> QED BY <2>1, <3>2, <3>4, <3>5
    <2> QED BY <2>1, <2>2
  <1>4. \A t \in SUBSET S : t # {} /\ (\A y \in t : t \ {y} \in G) => t \in G
    BY <1>3
  <1> HIDE DEF G
  <1>5. s \in G
    BY <1>2, <1>4, SubsetInduction
  <1> QED BY <1>5 DEF G

(* A sum over some elements is what the sum over all has of them.          *)
LEMMA SumIsPartial ==
  ASSUME NEW S, IsFiniteSet(S), NEW f \in [S -> Int], NEW T \in SUBSET S
  PROVE  SumFunction([x \in T |-> f[x]]) = PartialSum(f, S)[T]
  <1> DEFINE e == [x \in T |-> f[x]]
             p == PartialSum(f, S)
             q == PartialSum(e, T)
             G == {s \in SUBSET T : q[s] = p[s]}
  <1>1. SumFunction(e) = q[T]
    BY DEF SumFunction, SumFunctionOnSet, FoldFunctionOnSet, MapThenFoldSet, PartialSum, Element, SumStep
  <1>2. e \in [T -> Int] /\ IsFiniteSet(T)
    BY FS_Subset
  <1>3. /\ \A s \in SUBSET S : p[s] = SumStep(f, p, s)
        /\ \A s \in SUBSET T : q[s] = SumStep(e, q, s)
    BY <1>2, PartialSums
  <1>4. {} \in G
    BY <1>3 DEF SumStep
  <1>5. ASSUME NEW s \in SUBSET T, s # {}, \A x \in s : s \ {x} \in G
        PROVE  s \in G
    <2>1. Element(s) \in s
      BY <1>5 DEF Element
    <2>2. e[Element(s)] = f[Element(s)] /\ q[s \ {Element(s)}] = p[s \ {Element(s)}]
      BY <1>5, <2>1
    <2>3. SumStep(e, q, s) = SumStep(f, p, s)
      BY <2>2 DEF SumStep
    <2> QED BY <1>3, <2>3
  <1> HIDE DEF G
  <1>6. T \in G
    BY <1>2, <1>4, <1>5, SubsetInduction
  <1> QED BY <1>1, <1>6 DEF G

\* What is summed up of some elements.
SumOn(f, T) == SumFunction([x \in T |-> f[x]])

(* A sum is a number, nothing adds up to zero, and any element may be      *)
(* counted first.                                                          *)
LEMMA SumFacts ==
  ASSUME NEW S, IsFiniteSet(S), NEW f \in [S -> Int]
  PROVE  /\ SumOn(f, {}) = 0
         /\ \A T \in SUBSET S : SumOn(f, T) \in Int
         /\ \A T \in SUBSET S, x \in S : x \in T => SumOn(f, T) = f[x] + SumOn(f, T \ {x})
  <1>1. \A T \in SUBSET S : SumOn(f, T) = PartialSum(f, S)[T]
    BY SumIsPartial DEF SumOn
  <1>2. {} \in SUBSET S /\ \A T \in SUBSET S, x \in S : T \ {x} \in SUBSET S
    OBVIOUS
  <1>3. PartialSum(f, S)[{}] = 0
    <2>1. PartialSum(f, S)[{}] = SumStep(f, PartialSum(f, S), {})
      BY <1>2, PartialSums
    <2> QED BY <2>1 DEF SumStep
  <1>4. PartialSum(f, S) \in [SUBSET S -> Int]
    BY PartialSums
  <1>5. \A T \in SUBSET S, x \in S : x \in T => PartialSum(f, S)[T] = f[x] + PartialSum(f, S)[T \ {x}]
    <2> SUFFICES ASSUME NEW T \in SUBSET S, NEW x \in T
                 PROVE  PartialSum(f, S)[T] = f[x] + PartialSum(f, S)[T \ {x}]
      OBVIOUS
    <2> QED BY AnyOrder
  <1> QED BY <1>1, <1>2, <1>3, <1>4, <1>5

(* The sums over parts add up.                                             *)
LEMMA SumSplit ==
  ASSUME NEW S, IsFiniteSet(S), NEW f \in [S -> Int],
         NEW T \in SUBSET S, NEW U \in SUBSET S, T \cap U = {}
  PROVE  SumOn(f, T \cup U) = SumOn(f, T) + SumOn(f, U)
  <1> DEFINE Adds(t) == SumOn(f, t \cup U) = SumOn(f, t) + SumOn(f, U)
             G == {t \in SUBSET T : Adds(t)}
  <1>1. /\ SumOn(f, {}) = 0 /\ \A t \in SUBSET S : SumOn(f, t) \in Int
        /\ \A t \in SUBSET S, x \in S : x \in t => SumOn(f, t) = f[x] + SumOn(f, t \ {x})
    BY SumFacts
  <1>2. {} \in G
    <2>1. {} \cup U = U
      OBVIOUS
    <2> QED BY <1>1, <2>1
  <1>3. ASSUME NEW t \in SUBSET T, t # {}, \A x \in t : t \ {x} \in G
        PROVE  Adds(t)
    <2>1. PICK x \in t : x \in S /\ x \notin U
      BY <1>3
    <2>2. SumOn(f, (t \ {x}) \cup U) = SumOn(f, t \ {x}) + SumOn(f, U)
      BY <1>3, <2>1
    <2>3. (t \cup U) \ {x} = (t \ {x}) \cup U /\ t \cup U \in SUBSET S /\ t \in SUBSET S
          /\ t \ {x} \in SUBSET S
      BY <2>1
    <2>4. SumOn(f, t \cup U) = f[x] + SumOn(f, (t \ {x}) \cup U)
      BY <1>1, <2>1, <2>3
    <2>5. SumOn(f, t) = f[x] + SumOn(f, t \ {x})
      BY <1>1, <2>1, <2>3
    <2>6. f[x] \in Int /\ SumOn(f, t \ {x}) \in Int /\ SumOn(f, U) \in Int
      BY <1>1, <2>1, <2>3
    <2> QED BY <2>2, <2>4, <2>5, <2>6
  <1>4. T \in G
    <2>1. IsFiniteSet(T)
      BY FS_Subset
    <2>2. \A t \in SUBSET T : t # {} /\ (\A x \in t : t \ {x} \in G) => t \in G
      BY <1>3
    <2>3. SUBSET T \subseteq G
      <3> HIDE DEF G
      <3> QED BY <1>2, <2>1, <2>2, SubsetInduction
    <2> QED BY <2>3
  <1> QED BY <1>4

(* A sum of amounts is an amount.                                          *)
LEMMA SumNatural ==
  ASSUME NEW S, IsFiniteSet(S), NEW f \in [S -> Int], NEW T \in SUBSET S,
         \A x \in T : f[x] >= 0
  PROVE  SumOn(f, T) >= 0
  <1> DEFINE G == {t \in SUBSET T : SumOn(f, t) >= 0}
  <1>1. /\ SumOn(f, {}) = 0 /\ \A t \in SUBSET S : SumOn(f, t) \in Int
        /\ \A t \in SUBSET S, x \in S : x \in t => SumOn(f, t) = f[x] + SumOn(f, t \ {x})
    BY SumFacts
  <1>2. {} \in G
    BY <1>1
  <1>3. ASSUME NEW t \in SUBSET T, t # {}, \A x \in t : t \ {x} \in G
        PROVE  SumOn(f, t) >= 0
    <2>1. PICK x \in t : x \in T /\ x \in S
      BY <1>3
    <2>2. SumOn(f, t \ {x}) >= 0 /\ f[x] >= 0
      BY <1>3, <2>1
    <2>3. SumOn(f, t) = f[x] + SumOn(f, t \ {x}) /\ f[x] \in Int /\ SumOn(f, t \ {x}) \in Int
      BY <1>1, <2>1
    <2> QED BY <2>2, <2>3
  <1>4. T \in G
    <2>1. IsFiniteSet(T)
      BY FS_Subset
    <2>2. \A t \in SUBSET T : t # {} /\ (\A x \in t : t \ {x} \in G) => t \in G
      BY <1>3
    <2>3. SUBSET T \subseteq G
      <3> HIDE DEF G
      <3> QED BY <1>2, <2>1, <2>2, SubsetInduction
    <2> QED BY <2>3
  <1> QED BY <1>4

(* Nothing adds up to anything.                                            *)
LEMMA SumOfZeros ==
  ASSUME NEW S, IsFiniteSet(S), NEW f \in [S -> Int], NEW T \in SUBSET S,
         \A x \in T : f[x] = 0
  PROVE  SumOn(f, T) = 0
  <1> DEFINE G == {t \in SUBSET T : SumOn(f, t) = 0}
  <1>1. /\ SumOn(f, {}) = 0
        /\ \A t \in SUBSET S, x \in S : x \in t => SumOn(f, t) = f[x] + SumOn(f, t \ {x})
    BY SumFacts
  <1>2. {} \in G
    BY <1>1
  <1>3. ASSUME NEW t \in SUBSET T, t # {}, \A x \in t : t \ {x} \in G
        PROVE  SumOn(f, t) = 0
    <2>1. PICK x \in t : x \in T /\ x \in S
      BY <1>3
    <2>2. SumOn(f, t \ {x}) = 0 /\ f[x] = 0
      BY <1>3, <2>1
    <2> QED BY <1>1, <2>1, <2>2
  <1>4. T \in G
    <2>1. IsFiniteSet(T)
      BY FS_Subset
    <2>2. \A t \in SUBSET T : t # {} /\ (\A x \in t : t \ {x} \in G) => t \in G
      BY <1>3
    <2>3. SUBSET T \subseteq G
      <3> HIDE DEF G
      <3> QED BY <1>2, <2>1, <2>2, SubsetInduction
    <2> QED BY <2>3
  <1> QED BY <1>4

\* One sum counts the elements that another counts, under other names.
Renames(e, R, b, f, S) ==
  /\ IsFiniteSet(R) /\ IsFiniteSet(S)
  /\ e \in [R -> Int] /\ f \in [S -> Int]
  /\ b \in Bijection(R, S) /\ \A r \in R : e[r] = f[b[r]]

(* Where one sum counts the elements another counts under other names,     *)
(* each once, they are the same.                                           *)
LEMMA SumRenamed ==
  ASSUME NEW e, NEW R, NEW b, NEW f, NEW S, Renames(e, R, b, f, S)
  PROVE  SumOn(e, R) = SumOn(f, S)
  <1> USE DEF Renames
  <1> DEFINE Image(t) == {b[r] : r \in t}
             Same(t) == SumOn(e, t) = SumOn(f, Image(t))
             G == {t \in SUBSET R : Same(t)}
  <1>1. /\ b \in [R -> S] /\ \A r, q \in R : b[r] = b[q] => r = q
        /\ \A x \in S : \E r \in R : b[r] = x
    BY DEF Bijection, Injection, Surjection, IsInjective
  <1>2. /\ SumOn(f, {}) = 0 /\ \A t \in SUBSET S : SumOn(f, t) \in Int
        /\ \A t \in SUBSET S, x \in S : x \in t => SumOn(f, t) = f[x] + SumOn(f, t \ {x})
    BY SumFacts
  <1>3. /\ SumOn(e, {}) = 0 /\ \A t \in SUBSET R : SumOn(e, t) \in Int
        /\ \A t \in SUBSET R, r \in R : r \in t => SumOn(e, t) = e[r] + SumOn(e, t \ {r})
    BY SumFacts
  <1>4. {} \in G
    <2>1. Image({}) = {}
      OBVIOUS
    <2> QED BY <1>2, <1>3, <2>1
  <1>5. ASSUME NEW t \in SUBSET R, t # {}, \A r \in t : t \ {r} \in G
        PROVE  Same(t)
    <2>1. PICK r \in t : r \in R
      BY <1>5
    <2>2. SumOn(e, t \ {r}) = SumOn(f, Image(t \ {r}))
      BY <1>5, <2>1
    <2>3. Image(t \ {r}) = Image(t) \ {b[r]} /\ Image(t) \in SUBSET S /\ b[r] \in Image(t) /\ b[r] \in S
      BY <1>1, <2>1
    <2>4. SumOn(e, t) = e[r] + SumOn(e, t \ {r})
      BY <1>3, <2>1
    <2>5. SumOn(f, Image(t)) = f[b[r]] + SumOn(f, Image(t) \ {b[r]})
      <3> HIDE DEF Image
      <3> QED BY <1>2, <2>3
    <2>6. e[r] = f[b[r]]
      BY <2>1
    <2> HIDE DEF Image
    <2> QED BY <2>2, <2>3, <2>4, <2>5, <2>6
  <1>6. R \in G
    <2>2. \A t \in SUBSET R : t # {} /\ (\A x \in t : t \ {x} \in G) => t \in G
      BY <1>5
    <2>3. SUBSET R \subseteq G
      <3> HIDE DEF G
      <3> QED BY <1>4, <2>2, SubsetInduction
    <2> QED BY <2>3
  <1>7. Image(R) = S
    BY <1>1
  <1> QED BY <1>6, <1>7

----------------------------------------------------------------------------
(* The money that a transaction moves.                                     *)

(* Amounts of a transaction.                                               *)
Amounts(tx) ==
  /\ DOMAIN tx.ins \in {1..n : n \in Nat} /\ DOMAIN tx.outs \in {1..n : n \in Nat}
  /\ \A i \in DOMAIN tx.ins : tx.ins[i].amount \in Nat
  /\ \A j \in DOMAIN tx.outs : tx.outs[j].amount \in Nat

(* Outputs of a transaction: the sum over all is that of the wallet's own, *)
(* of the payouts and of the rest.                                         *)
LEMMA OutputSums ==
  ASSUME NEW tx, NEW subdust, Amounts(tx)
  PROVE  LET outs == DecodeOutputs(tx, subdust)
             own == OwnChange(outs)
             paid == Payouts(outs)
             rest == DOMAIN tx.outs \ (own \cup paid)
         IN /\ SatsOf(outs, own) \in Nat /\ SatsOf(outs, paid) \in Nat
            /\ OutSats(tx) \in Nat
            /\ OutSats(tx) = SatsOf(outs, own) + SatsOf(outs, paid) + SatsOf(outs, rest)
            /\ (\A j \in rest : tx.outs[j].amount = 0) => SatsOf(outs, rest) = 0
            /\ paid = {} => SatsOf(outs, paid) = 0
<1> DEFINE outs == DecodeOutputs(tx, subdust)
           own == OwnChange(outs)
           paid == Payouts(outs)
           S == DOMAIN tx.outs
           rest == S \ (own \cup paid)
           f == [j \in S |-> tx.outs[j].amount]
<1>1. IsFiniteSet(S)
  BY FS_Interval DEF Amounts
<1>2. f \in [S -> Int] /\ \A j \in S : f[j] >= 0
  BY DEF Amounts
<1>3. DOMAIN outs = S /\ \A j \in S : outs[j].amount = tx.outs[j].amount
  BY DEF DecodeOutputs, Decoded
<1>4. own \in SUBSET S /\ paid \in SUBSET S /\ own \cap paid = {}
  BY <1>3 DEF OwnChange, Payouts
<1>5. \A T \in SUBSET S : SatsOf(outs, T) = SumOn(f, T)
  <2> SUFFICES ASSUME NEW T \in SUBSET S PROVE SatsOf(outs, T) = SumOn(f, T)
    OBVIOUS
  <2>1. [j \in T |-> outs[j].amount] = [j \in T |-> f[j]]
    <3> HIDE DEF outs
    <3> QED BY <1>3
  <2> QED BY <2>1 DEF SatsOf, SumOver, SumOn
<1>6. OutSats(tx) = SumOn(f, S)
  <2>1. f = [j \in S |-> f[j]]
    OBVIOUS
  <2> QED BY <2>1 DEF OutSats, SumOver, SumOn
<1> HIDE DEF f, outs, own, paid
<1>7. /\ SumOn(f, own) \in Nat /\ SumOn(f, paid) \in Nat /\ SumOn(f, rest) \in Int
      /\ SumOn(f, S) \in Nat
  <2>1. \A T \in SUBSET S : SumOn(f, T) \in Int
    BY <1>1, <1>2, SumFacts
  <2>2. \A T \in SUBSET S : SumOn(f, T) >= 0
    BY <1>1, <1>2, SumNatural
  <2> QED BY <2>1, <2>2, <1>4
<1>8. SumOn(f, S) = SumOn(f, own) + SumOn(f, paid) + SumOn(f, rest)
  <2>1. own \cup paid \in SUBSET S /\ rest \in SUBSET S /\ (own \cup paid) \cap rest = {}
        /\ (own \cup paid) \cup rest = S
    BY <1>4
  <2>2. SumOn(f, own \cup paid) = SumOn(f, own) + SumOn(f, paid)
    BY <1>1, <1>2, <1>4, SumSplit
  <2>3. SumOn(f, (own \cup paid) \cup rest) = SumOn(f, own \cup paid) + SumOn(f, rest)
    <3> HIDE DEF rest
    <3> QED BY <1>1, <1>2, <2>1, SumSplit
  <2> QED BY <2>1, <2>2, <2>3
<1>9. (\A j \in rest : tx.outs[j].amount = 0) => SumOn(f, rest) = 0
  <2> SUFFICES ASSUME \A j \in rest : tx.outs[j].amount = 0 PROVE SumOn(f, rest) = 0
    OBVIOUS
  <2>1. \A j \in rest : f[j] = 0
    BY DEF f
  <2>2. rest \in SUBSET S
    OBVIOUS
  <2> HIDE DEF rest
  <2> QED BY <1>1, <1>2, <2>1, <2>2, SumOfZeros
<1>10. SumOn(f, {}) = 0
  BY <1>1, <1>2, SumFacts
<1>11. rest \in SUBSET S
  OBVIOUS
<1> HIDE DEF S, rest
<1>12. SatsOf(outs, rest) = SumOn(f, rest) /\ SatsOf(outs, own) = SumOn(f, own)
       /\ SatsOf(outs, paid) = SumOn(f, paid)
  BY <1>4, <1>5, <1>11
<1> QED BY <1>6, <1>7, <1>8, <1>9, <1>10, <1>12 DEF S, rest, own, paid, outs

(* Inputs: what is signed is counted in full, and is part of what there is. *)
LEMMA InputSums ==
  ASSUME NEW tx, NEW indexes, Amounts(tx),
         \A i \in indexes : SignInputs(tx, indexes)[i].role # "rejected",
         indexes \subseteq DOMAIN tx.ins
  PROVE  /\ InSats(tx) \in Nat /\ SignedSats(tx, indexes) \in Nat
         /\ SignedSats(tx, indexes) <= InSats(tx)
         /\ indexes = DOMAIN tx.ins => SignedSats(tx, indexes) = InSats(tx)
<1> DEFINE S == DOMAIN tx.ins
           f == [i \in S |-> tx.ins[i].amount]
           signed == SignInputs(tx, indexes)
<1>1. IsFiniteSet(S)
  BY FS_Interval DEF Amounts
<1>2. f \in [S -> Int] /\ \A i \in S : f[i] >= 0
  BY DEF Amounts
<1>3. DOMAIN signed = indexes
  BY DEF SignInputs
<1>4. ASSUME NEW i \in indexes
      PROVE  signed[i].amount = f[i]
  <2>1. signed[i] = ClassifyInput(tx.ins[i])
    BY DEF SignInputs
  <2>2. Role(tx.ins[i]) # "rejected"
    BY <2>1 DEF ClassifyInput
  <2>3. tx.ins[i].known
    BY <2>2 DEF Role, CanSign, Committed
  <2>4. ClassifyInput(tx.ins[i]).amount = tx.ins[i].amount
    BY <2>3 DEF ClassifyInput
  <2>5. f[i] = tx.ins[i].amount
    OBVIOUS
  <2> HIDE DEF f, signed
  <2> QED BY <2>1, <2>4, <2>5
<1>5. SignedSats(tx, indexes) = SumOn(f, indexes)
  <2>1. [i \in DOMAIN signed |-> signed[i].amount] = [i \in indexes |-> f[i]]
    <3> HIDE DEF signed, f
    <3> QED BY <1>3, <1>4
  <2> QED BY <2>1 DEF SignedSats, SumOver, SumOn
<1>6. InSats(tx) = SumOn(f, S)
  <2>1. f = [i \in S |-> f[i]]
    OBVIOUS
  <2> QED BY <2>1 DEF InSats, SumOver, SumOn
<1> HIDE DEF f
<1>7. \A T \in SUBSET S : SumOn(f, T) \in Nat
  <2>1. \A T \in SUBSET S : SumOn(f, T) \in Int
    BY <1>1, <1>2, SumFacts
  <2>2. \A T \in SUBSET S : SumOn(f, T) >= 0
    BY <1>1, <1>2, SumNatural
  <2> QED BY <2>1, <2>2
<1>8. SumOn(f, S) = SumOn(f, indexes) + SumOn(f, S \ indexes)
  <2>1. indexes \in SUBSET S /\ S \ indexes \in SUBSET S
    OBVIOUS
  <2>2. indexes \cup (S \ indexes) = S /\ indexes \cap (S \ indexes) = {}
    OBVIOUS
  <2>3. SumOn(f, indexes \cup (S \ indexes)) = SumOn(f, indexes) + SumOn(f, S \ indexes)
    BY <1>1, <1>2, <2>1, <2>2, SumSplit
  <2> QED BY <2>2, <2>3
<1>9. SumOn(f, S) \in Nat /\ SumOn(f, indexes) \in Nat /\ SumOn(f, S \ indexes) \in Nat
  BY <1>7
<1> HIDE DEF S
<1> QED BY <1>5, <1>6, <1>8, <1>9 DEF S

(* What a transaction pays as its fee is the difference, a number.         *)
LEMMA FeeIsNumber ==
  ASSUME NEW tx, Amounts(tx)
  PROVE  /\ InSats(tx) \in Nat /\ OutSats(tx) \in Nat
         /\ FeeOf(tx) = InSats(tx) - OutSats(tx) /\ FeeOf(tx) \in Int
<1>1. InSats(tx) \in Nat
  <2> DEFINE none == {}
  <2>1. none \subseteq DOMAIN tx.ins /\ \A i \in none : SignInputs(tx, none)[i].role # "rejected"
    OBVIOUS
  <2> HIDE DEF none
  <2> QED BY <2>1, InputSums
<1>2. OutSats(tx) \in Nat
  <2>1. \A subdust : OutSats(tx) \in Nat
    BY OutputSums
  <2> QED BY <2>1
<1>3. FeeOf(tx) = InSats(tx) - OutSats(tx)
  BY DEF FeeOf, InSats, OutSats
<1> QED BY <1>1, <1>2, <1>3

(* Where every output is the wallet's, a payout or worth nothing, what     *)
(* leaves is paid out or the fee (psbt-inspect.ts:216-226).                *)
LEMMA LeavingIsShown ==
  ASSUME NEW tx, NEW indexes, NEW allowHighFee, NEW subdust, Amounts(tx),
         InspectPsbt(tx, indexes, allowHighFee, subdust).accepted,
         InspectPsbt(tx, indexes, allowHighFee, subdust).fee >= 0,
         LET outs == DecodeOutputs(tx, subdust) IN
           \A j \in DOMAIN tx.outs \ (OwnChange(outs) \cup Payouts(outs)) : tx.outs[j].amount = 0
  PROVE  LET s == InspectPsbt(tx, indexes, allowHighFee, subdust)
         IN s.totalLeaving <= s.totalToExternal + s.fee
<1> DEFINE s == InspectPsbt(tx, indexes, allowHighFee, subdust)
           outs == DecodeOutputs(tx, subdust)
           own == SatsOf(outs, OwnChange(outs))
           paid == SatsOf(outs, Payouts(outs))
           rest == SatsOf(outs, DOMAIN tx.outs \ (OwnChange(outs) \cup Payouts(outs)))
           signed == SignedSats(tx, indexes)
<1>1. /\ s.totalLeaving = IF signed - own < 0 THEN 0 ELSE signed - own
      /\ s.totalToExternal = paid
      /\ s.fee = FeeOf(tx)
      /\ Acceptable(tx, indexes, allowHighFee, subdust, SignInputs(tx, indexes))
  BY SummaryParts
<1>2. own \in Nat /\ paid \in Nat /\ OutSats(tx) = own + paid + rest /\ rest = 0
  BY OutputSums
<1>3. signed \in Nat /\ signed <= InSats(tx)
  <2>1. /\ indexes \subseteq DOMAIN tx.ins
        /\ \A i \in indexes : SignInputs(tx, indexes)[i].role # "rejected"
    BY <1>1, Zenon DEF Acceptable
  <2> QED BY <2>1, InputSums
<1>4. FeeOf(tx) = InSats(tx) - OutSats(tx) /\ InSats(tx) \in Nat
  BY FeeIsNumber
<1>5. s.fee >= 0
  OBVIOUS
<1> HIDE DEF s, own, paid, rest, signed
<1>6. s.totalLeaving <= s.totalToExternal + s.fee
  BY <1>1, <1>2, <1>3, <1>4, <1>5
<1> QED BY <1>6 DEF s

(* The promise of MoneyShown, of one transaction.                          *)
LEMMA MoneyShownOf ==
  ASSUME NEW tx, NEW indexes, NEW allowHighFee, NEW subdust, Amounts(tx),
         \A j \in DOMAIN tx.outs : tx.outs[j].form \in {"address", "key", "data", "nonstandard"},
         InspectPsbt(tx, indexes, allowHighFee, subdust).accepted
  PROVE  LET s == InspectPsbt(tx, indexes, allowHighFee, subdust)
         IN /\ s.feeKnown /\ s.fee >= 0 /\ s.totalLeaving > s.totalToExternal + s.fee
                 => s.flags \cap {"OP_RETURN", "NONSTANDARD_OUTPUT"} # {}
            /\ s.totalToExternal > 0 /\ DOMAIN s.signInputs = DOMAIN tx.ins
                 /\ s.totalLeaving > 0
                 /\ s.totalLeaving = SumOver(DOMAIN tx.ins, LAMBDA i : tx.ins[i].amount)
                 => "SWEEP" \in s.flags
<1> DEFINE s == InspectPsbt(tx, indexes, allowHighFee, subdust)
           outs == DecodeOutputs(tx, subdust)
           signed == SignInputs(tx, indexes)
           leaving == SignedSats(tx, indexes) - SatsOf(outs, OwnChange(outs))
<1>1. /\ s.signInputs = signed
      /\ s.totalLeaving = IF leaving < 0 THEN 0 ELSE leaving
      /\ s.totalToExternal = SatsOf(outs, Payouts(outs))
      /\ s.fee = FeeOf(tx)
      /\ s.flags = Flags(tx, outs, signed)
      /\ Acceptable(tx, indexes, allowHighFee, subdust, signed)
  BY SummaryParts
<1>2. /\ indexes \subseteq DOMAIN tx.ins
      /\ \A i \in indexes : signed[i].role # "rejected"
  BY <1>1, Zenon DEF Acceptable
<1>3. ASSUME s.fee >= 0, s.totalLeaving > s.totalToExternal + s.fee
      PROVE  s.flags \cap {"OP_RETURN", "NONSTANDARD_OUTPUT"} # {}
  <2>1. s.totalLeaving \in Int /\ s.totalToExternal \in Int /\ s.fee \in Int
    <3>1. SatsOf(outs, OwnChange(outs)) \in Nat /\ SatsOf(outs, Payouts(outs)) \in Nat
      BY OutputSums
    <3>2. SignedSats(tx, indexes) \in Nat
      BY <1>2, InputSums
    <3>3. FeeOf(tx) \in Int
      BY FeeIsNumber
    <3> QED BY <1>1, <3>1, <3>2, <3>3
  <2>2. PICK j \in DOMAIN tx.outs : j \notin OwnChange(outs) \cup Payouts(outs)
    <3>1. CASE DOMAIN tx.outs \ (OwnChange(outs) \cup Payouts(outs)) = {}
      <4>1. s.totalLeaving <= s.totalToExternal + s.fee
        BY <1>3, <3>1, LeavingIsShown
      <4> HIDE DEF s
      <4> QED BY <1>3, <2>1, <4>1
    <3> QED BY <3>1
  <2>3. outs[j] = Decoded(tx.outs[j], subdust) /\ j \in DOMAIN outs
    BY DEF DecodeOutputs
  <2>4. outs[j].kind \in {"op_return", "nonstandard"}
    <3>1. outs[j].kind \notin {"address", "arkade-subdust"}
      <4> HIDE DEF outs
      <4> QED BY <2>2, <2>3 DEF OwnChange, Payouts
    <3>2. outs[j].kind = Kind(tx.outs[j], subdust)
      BY <2>3 DEF Decoded
    <3>3. tx.outs[j].form \in {"address", "key", "data", "nonstandard"}
      OBVIOUS
    <3> HIDE DEF outs
    <3> QED BY <3>1, <3>2, <3>3 DEF Kind
  <2> HIDE DEF outs, signed, s
  <2>5. Flags(tx, outs, signed) \cap {"OP_RETURN", "NONSTANDARD_OUTPUT"} # {}
    BY <2>3, <2>4 DEF Flags
  <2> QED BY <1>1, <2>5
<1>4. ASSUME s.totalToExternal > 0, DOMAIN s.signInputs = DOMAIN tx.ins, s.totalLeaving > 0,
             s.totalLeaving = InSats(tx)
      PROVE  "SWEEP" \in s.flags
  <2>1. DOMAIN signed = DOMAIN tx.ins /\ indexes = DOMAIN tx.ins
    BY <1>1, <1>2, <1>4 DEF SignInputs
  <2>2. SignedSats(tx, indexes) = InSats(tx) /\ InSats(tx) \in Nat
    BY <1>2, <2>1, InputSums
  <2>3. /\ SatsOf(outs, OwnChange(outs)) \in Nat /\ SatsOf(outs, Payouts(outs)) \in Nat
        /\ Payouts(outs) = {} => SatsOf(outs, Payouts(outs)) = 0
    BY OutputSums
  <2> HIDE DEF s, outs, signed
  <2>4. SatsOf(outs, OwnChange(outs)) = 0 /\ Payouts(outs) # {}
    BY <1>1, <1>4, <2>2, <2>3
  <2>5. SumOver(OwnChange(outs), LAMBDA j : outs[j].amount) = 0
    BY <2>4 DEF SatsOf
  <2>6. "SWEEP" \in Flags(tx, outs, signed)
    BY <2>1, <2>4, <2>5 DEF Flags, SumOver
  <2> QED BY <1>1, <2>6
<1> QED BY <1>3, <1>4 DEF s, InSats

----------------------------------------------------------------------------
(* The money that an Arkade payment moves, through any number of           *)
(* checkpoints.                                                            *)

(* An accepted payment has passed each check, and its summary is that of   *)
(* the payment as a transaction (arkade-inspect.ts:238-255).               *)
LEMMA LinkedParts ==
  ASSUME NEW cps, NEW pay, InspectLinked(cps, pay).accepted
  PROVE  LET s == InspectLinked(cps, pay)
             p == InspectPsbt(pay, Indexes(cps, pay), FALSE, TRUE)
         IN /\ CheckpointsComplete(cps, pay) /\ Bound(cps, pay) /\ PaymentOutputs(pay)
            /\ p.accepted /\ p.fee >= 0
            /\ s.signInputs = p.signInputs /\ s.fee = p.fee
            /\ s.totalLeaving = p.totalLeaving /\ s.totalToExternal = p.totalToExternal
<1> DEFINE p == InspectPsbt(pay, Indexes(cps, pay), FALSE, TRUE)
           s == InspectLinked(cps, pay)
           less == {"NONSTANDARD_OUTPUT"}
                     \cup {"SWEEP" : x \in {0} \cap IF Pure(p.signInputs) THEN {0} ELSE {}}
<1>1. /\ CheckpointsComplete(cps, pay) /\ Bound(cps, pay) /\ PaymentOutputs(pay)
      /\ p.accepted /\ p.fee >= 0
      /\ s = [p EXCEPT !.outputs = SubSeq(@, 1, Len(@) - 1), !.flags = @ \ less]
  BY Zenon DEF InspectLinked, Rejected
<1>2. \E o, si, tl, te, fe, fk, fl :
        p = [accepted |-> TRUE, outputs |-> o, signInputs |-> si, totalLeaving |-> tl,
             totalToExternal |-> te, fee |-> fe, feeKnown |-> fk, flags |-> fl]
  BY <1>1, Zenon DEF InspectPsbt, Rejected
<1> HIDE DEF p, s, less
<1>3. PICK o, si, tl, te, fe, fk, fl :
        p = [accepted |-> TRUE, outputs |-> o, signInputs |-> si, totalLeaving |-> tl,
             totalToExternal |-> te, fee |-> fe, feeKnown |-> fk, flags |-> fl]
  BY <1>2
<1>4. /\ s.signInputs = p.signInputs /\ s.fee = p.fee
      /\ s.totalLeaving = p.totalLeaving /\ s.totalToExternal = p.totalToExternal
  BY <1>1, <1>3
<1> QED BY <1>1, <1>4 DEF p, s

(* Each checkpoint goes into one input, and each input comes of one        *)
(* (arkade-inspect.ts:216-237).                                            *)
LEMMA OneCheckpointEach ==
  ASSUME NEW cps \in Seq(Spends), NEW pay, pay.ins \in Seq(Payments),
         CheckpointsComplete(cps, pay), Bound(cps, pay)
  PROVE  \E b \in Bijection(DOMAIN pay.ins, DOMAIN cps) :
           \A i \in DOMAIN pay.ins : Binds(pay.ins[i], cps[b[i]])
<1> DEFINE R == DOMAIN pay.ins
           S == DOMAIN cps
           of == Binding(cps, pay)
           b == [i \in R |-> CHOOSE j \in S : j \in of[i]]
<1>1. R = S /\ IsFiniteSet(S)
  <2>1. R = 1..Len(pay.ins) /\ S = 1..Len(cps) /\ Len(cps) = Len(pay.ins) /\ Len(cps) \in Nat
    BY DEF CheckpointsComplete
  <2> QED BY <2>1, FS_Interval
<1>2. \A i \in R : of[i] = {j \in S : Binds(pay.ins[i], cps[j])}
  BY DEF Binding
<1>3. \A i \in R : b[i] \in S /\ b[i] \in of[i]
  <2> SUFFICES ASSUME NEW i \in R PROVE b[i] \in S /\ b[i] \in of[i]
    OBVIOUS
  <2>1. \E j \in S : j \in of[i]
    <3>1. of[i] # {}
      BY DEF Bound
    <3> HIDE DEF of, R, S
    <3> QED BY <1>2, <3>1
  <2>2. b[i] = CHOOSE j \in S : j \in of[i]
    OBVIOUS
  <2> HIDE DEF b, of, S, R
  <2> QED BY <2>1, <2>2
<1>4. \A i, k \in R : i # k => of[i] \cap of[k] = {}
  BY DEF Bound
<1>5. b \in [R -> S]
  <2> HIDE DEF of, R, S
  <2> QED BY <1>3
<1> HIDE DEF b, of, R, S
<1>6. b \in Injection(R, S)
  BY <1>3, <1>4, <1>5 DEF Injection, IsInjective
<1>7. b \in Surjection(R, S)
  BY <1>1, <1>6, FS_Injection
<1>8. \A i \in R : Binds(pay.ins[i], cps[b[i]])
  BY <1>2, <1>3
<1> QED BY <1>6, <1>7, <1>8 DEF Bijection, R, S

(* The inputs of the payment are worth what the original coins are, each   *)
(* counted once (arkade-inspect.ts:205-237).                               *)
LEMMA OriginalSats ==
  ASSUME NEW cps \in Seq(Spends), NEW pay, pay.ins \in Seq(Payments),
         CheckpointsComplete(cps, pay), Bound(cps, pay)
  PROVE  InSats(pay) = SumOver({[from |-> cps[i].from, amount |-> cps[i].in.amount] :
                                  i \in DOMAIN cps}, LAMBDA c : c.amount)
<1> DEFINE R == DOMAIN pay.ins
           S == DOMAIN cps
           Coin(j) == [from |-> cps[j].from, amount |-> cps[j].in.amount]
           C == {Coin(i) : i \in S}
           e == [i \in R |-> pay.ins[i].amount]
           f == [j \in S |-> cps[j].in.amount]
           g == [c \in C |-> c.amount]
           d == [j \in S |-> Coin(j)]
<1>1. IsFiniteSet(R) /\ IsFiniteSet(S)
  <2>1. R = 1..Len(pay.ins) /\ S = 1..Len(cps) /\ Len(cps) \in Nat /\ Len(pay.ins) \in Nat
    OBVIOUS
  <2> QED BY <2>1, FS_Interval
<1>2. e \in [R -> Int] /\ f \in [S -> Int] /\ g \in [C -> Int]
  <2>1. \A i \in R : pay.ins[i] \in Payments
    OBVIOUS
  <2>2. \A j \in S : cps[j] \in Spends
    OBVIOUS
  <2> QED BY <2>1, <2>2, CheckpointsAssumption
<1>3. d \in Surjection(S, C)
  BY DEF Surjection
<1>4. d \in Bijection(S, C)
  <2>1. \A i, j \in S : i # j => cps[i].from # cps[j].from
    BY DEF CheckpointsComplete
  <2>2. \A i, j \in S : d[i] = d[j] => i = j
    BY <2>1
  <2>3. d \in [S -> C]
    OBVIOUS
  <2> HIDE DEF d, S, C
  <2> QED BY <1>3, <2>2, <2>3 DEF Bijection, Injection, IsInjective
<1>5. IsFiniteSet(C)
  BY <1>1, <1>3, FS_Surjection
<1>6. PICK b \in Bijection(R, S) : \A i \in R : Binds(pay.ins[i], cps[b[i]])
  BY OneCheckpointEach
<1>7. \A i \in R : e[i] = f[b[i]]
  <2> SUFFICES ASSUME NEW i \in R PROVE pay.ins[i].amount = cps[b[i]].in.amount
    BY <1>6 DEF Bijection, Injection
  <2>1. /\ [amount |-> pay.ins[i].amount, script |-> pay.ins[i].script] = cps[b[i]].out
        /\ cps[b[i]].out = CheckpointOutput(cps[b[i]].in)
    BY <1>6 DEF Binds
  <2> QED BY <2>1 DEF CheckpointOutput
<1>8. \A j \in S : f[j] = g[d[j]]
  OBVIOUS
<1>9. InSats(pay) = SumOn(e, R)
  <2>1. e = [i \in R |-> e[i]]
    OBVIOUS
  <2> QED BY <2>1 DEF InSats, SumOver, SumOn
<1>10. SumOver(C, LAMBDA c : c.amount) = SumOn(g, C)
  <2>1. g = [c \in C |-> g[c]]
    OBVIOUS
  <2> QED BY <2>1 DEF SumOver, SumOn
<1>11. SumOn(e, R) = SumOn(f, S) /\ SumOn(f, S) = SumOn(g, C)
  <2> HIDE DEF R, S, C, e, f, g, d
  <2>1. Renames(e, R, b, f, S)
    BY <1>1, <1>2, <1>6, <1>7 DEF Renames
  <2>2. Renames(f, S, d, g, C)
    BY <1>1, <1>2, <1>4, <1>5, <1>8 DEF Renames
  <2> QED BY <2>1, <2>2, SumRenamed
<1> QED BY <1>9, <1>10, <1>11

(* The anchor at the end is worth nothing (arkade-inspect.ts:267-306).     *)
LEMMA AnchoredSats ==
  ASSUME NEW outs \in Seq(Outputs), NEW pay, pay.outs = Anchored(outs)
  PROVE  OutSats(pay) = SumOver(DOMAIN outs, LAMBDA j : outs[j].amount)
<1> DEFINE m == Len(outs)
           S == 1..m
           U == 1..(m + 1)
           f == [j \in U |-> pay.outs[j].amount]
<1>1. m \in Nat /\ DOMAIN outs = S /\ DOMAIN pay.outs = U
  BY DEF Anchored
<1>2. /\ \A j \in S : pay.outs[j] = outs[j]
      /\ pay.outs[m + 1].amount = 0
  BY DEF Anchored
<1>3. f \in [U -> Int] /\ f[m + 1] = 0
  <2>1. \A j \in S : outs[j].amount \in Int
    BY InspectionAssumption
  <2>2. \A j \in U : j \in S \/ j = m + 1
    BY <1>1
  <2>3. \A j \in U : pay.outs[j].amount \in Int
    BY <1>2, <2>1, <2>2
  <2> QED BY <1>1, <1>2, <2>3
<1>4. OutSats(pay) = SumOn(f, U)
  <2>1. f = [j \in U |-> f[j]]
    OBVIOUS
  <2> QED BY <1>1, <2>1 DEF OutSats, SumOver, SumOn
<1>5. SumOver(DOMAIN outs, LAMBDA j : outs[j].amount) = SumOn(f, S)
  <2>1. [j \in S |-> outs[j].amount] = [j \in S |-> f[j]]
    BY <1>1, <1>2
  <2> QED BY <1>1, <2>1 DEF SumOver, SumOn
<1>6. SumOn(f, U) = SumOn(f, S)
  <2> HIDE DEF m
  <2>1. m + 1 \in U /\ U \ {m + 1} = S /\ S \in SUBSET U /\ U \in SUBSET U
    BY <1>1
  <2>2. IsFiniteSet(U)
    BY <1>1, FS_Interval
  <2> HIDE DEF f, S, U
  <2>3. /\ \A T \in SUBSET U : SumOn(f, T) \in Int
        /\ \A T \in SUBSET U, x \in U : x \in T => SumOn(f, T) = f[x] + SumOn(f, T \ {x})
    BY <1>3, <2>2, SumFacts
  <2>4. SumOn(f, U) = f[m + 1] + SumOn(f, S) /\ SumOn(f, S) \in Int
    BY <2>1, <2>3
  <2> QED BY <1>3, <2>4
<1> QED BY <1>4, <1>5, <1>6

(* The fee of a payment is what the original coins lose, the wallet signs  *)
(* just the inputs whose checkpoints it signs, and what leaves is shown,   *)
(* through however many checkpoints (arkade-inspect.ts:210-255, 267-306).  *)
THEOREM PaymentShown ==
  ASSUME NEW cps \in Seq(Spends), NEW ins \in Seq(Payments), NEW outs \in Seq(Outputs),
         InspectLinked(cps, [ins |-> ins, outs |-> Anchored(outs)]).accepted
  PROVE  LET pay == [ins |-> ins, outs |-> Anchored(outs)]
             s == InspectLinked(cps, pay)
             Spent == {[from |-> cps[i].from, amount |-> cps[i].in.amount] : i \in DOMAIN cps}
         IN /\ s.fee = SumOver(Spent, LAMBDA c : c.amount)
                         - SumOver(DOMAIN outs, LAMBDA j : outs[j].amount)
            /\ {pay.ins[i].spends : i \in DOMAIN s.signInputs}
                 = {Id(cps[j]) : j \in {k \in DOMAIN cps : cps[k].selected}}
            /\ s.totalLeaving <= s.totalToExternal + s.fee
<1> DEFINE pay == [ins |-> ins, outs |-> Anchored(outs)]
           indexes == Indexes(cps, pay)
           s == InspectLinked(cps, pay)
           p == InspectPsbt(pay, indexes, FALSE, TRUE)
<1>1. /\ CheckpointsComplete(cps, pay) /\ Bound(cps, pay) /\ PaymentOutputs(pay)
      /\ p.accepted /\ p.fee >= 0
      /\ s.signInputs = p.signInputs /\ s.fee = p.fee
      /\ s.totalLeaving = p.totalLeaving /\ s.totalToExternal = p.totalToExternal
  BY LinkedParts
<1>2. pay.ins = ins /\ pay.outs = Anchored(outs)
  OBVIOUS
<1> HIDE DEF pay, s, indexes
<1>3. p.fee = FeeOf(pay) /\ p.signInputs = SignInputs(pay, indexes)
  <2>1. ASSUME NEW allowHighFee, NEW subdust,
               InspectPsbt(pay, indexes, allowHighFee, subdust).accepted
        PROVE  /\ InspectPsbt(pay, indexes, allowHighFee, subdust).fee = FeeOf(pay)
               /\ InspectPsbt(pay, indexes, allowHighFee, subdust).signInputs
                    = SignInputs(pay, indexes)
    BY <2>1, SummaryParts
  <2> QED BY Zenon, <1>1, <2>1
<1> HIDE DEF p
<1>4. Amounts(pay)
  <2>1. DOMAIN ins = 1..Len(ins) /\ Len(ins) \in Nat /\ \A i \in DOMAIN ins : ins[i] \in Payments
    OBVIOUS
  <2>2. DOMAIN Anchored(outs) = 1..(Len(outs) + 1) /\ Len(outs) + 1 \in Nat
    BY DEF Anchored
  <2>3. ASSUME NEW j \in DOMAIN Anchored(outs)
        PROVE  Anchored(outs)[j].amount \in Nat
    <3>1. CASE j = Len(outs) + 1
      BY <3>1 DEF Anchored
    <3>2. CASE j # Len(outs) + 1
      <4>1. Anchored(outs)[j] = outs[j] /\ outs[j] \in Outputs
        BY <2>2, <3>2 DEF Anchored
      <4> QED BY <4>1, InspectionAssumption
    <3> QED BY <3>1, <3>2
  <2>4. \A i \in DOMAIN ins : ins[i].amount \in Nat
    BY <2>1, CheckpointsAssumption
  <2> QED BY <1>2, <2>1, <2>2, <2>3, <2>4 DEF Amounts
<1>5. s.fee = SumOver({[from |-> cps[i].from, amount |-> cps[i].in.amount] : i \in DOMAIN cps},
                      LAMBDA c : c.amount)
                - SumOver(DOMAIN outs, LAMBDA j : outs[j].amount)
  <2>1. FeeOf(pay) = InSats(pay) - OutSats(pay)
    BY <1>4, FeeIsNumber
  <2>2. InSats(pay) = SumOver({[from |-> cps[i].from, amount |-> cps[i].in.amount] :
                                 i \in DOMAIN cps}, LAMBDA c : c.amount)
    BY <1>1, <1>2, OriginalSats
  <2>3. OutSats(pay) = SumOver(DOMAIN outs, LAMBDA j : outs[j].amount)
    BY <1>2, AnchoredSats
  <2> QED BY <1>1, <1>3, <2>1, <2>2, <2>3
<1>6. {pay.ins[i].spends : i \in DOMAIN s.signInputs}
        = {Id(cps[j]) : j \in {k \in DOMAIN cps : cps[k].selected}}
  <2>1. PICK b \in Bijection(DOMAIN pay.ins, DOMAIN cps) :
          \A i \in DOMAIN pay.ins : Binds(pay.ins[i], cps[b[i]])
    BY <1>1, <1>2, OneCheckpointEach
  <2>2. \A i \in DOMAIN pay.ins, j \in DOMAIN cps :
          Binds(pay.ins[i], cps[j]) => pay.ins[i].spends = Id(cps[j])
    BY DEF Binds
  <2>3. indexes = {i \in DOMAIN pay.ins :
                     \E j \in DOMAIN cps : Binds(pay.ins[i], cps[j]) /\ cps[j].selected}
    BY DEF indexes, Indexes, Binding
  <2>4. DOMAIN s.signInputs = indexes
    BY <1>1, <1>3, <2>3 DEF SignInputs
  <2>5. ASSUME NEW i \in indexes
        PROVE  \E k \in DOMAIN cps : cps[k].selected /\ pay.ins[i].spends = Id(cps[k])
    BY <2>2, <2>3
  <2>6. ASSUME NEW k \in DOMAIN cps, cps[k].selected
        PROVE  \E i \in indexes : pay.ins[i].spends = Id(cps[k])
    <3>1. PICK i \in DOMAIN pay.ins : b[i] = k
      BY <2>1 DEF Bijection, Surjection
    <3> QED BY <2>1, <2>2, <2>3, <2>6, <3>1
  <2> DEFINE Spending == {pay.ins[i].spends : i \in indexes}
             Selected == {Id(cps[j]) : j \in {k \in DOMAIN cps : cps[k].selected}}
  <2>7. Spending \subseteq Selected
    BY <2>5
  <2>8. Selected \subseteq Spending
    BY <2>6
  <2> QED BY <2>4, <2>7, <2>8
<1>7. s.totalLeaving <= s.totalToExternal + s.fee
  <2> DEFINE dec == DecodeOutputs(pay, TRUE)
  <2>1. ASSUME NEW j \in DOMAIN pay.outs, j \notin OwnChange(dec) \cup Payouts(dec)
        PROVE  pay.outs[j].amount = 0
    <3>1. CASE j = Len(pay.outs)
      BY <1>1, <3>1 DEF PaymentOutputs
    <3>2. CASE j # Len(pay.outs)
      <4>1. pay.outs[j].form \in {"address", "key"}
        BY <1>1, <3>2 DEF PaymentOutputs
      <4>2. dec[j].kind \in {"address", "arkade-subdust"} /\ j \in DOMAIN dec
        BY <4>1 DEF DecodeOutputs, Decoded, Kind
      <4> HIDE DEF dec
      <4> QED BY <2>1, <4>2 DEF OwnChange, Payouts
    <3> QED BY <3>1, <3>2
  <2>2. \A j \in DOMAIN pay.outs \ (OwnChange(dec) \cup Payouts(dec)) : pay.outs[j].amount = 0
    BY <2>1
  <2>3. p.totalLeaving <= p.totalToExternal + p.fee
    BY <1>1, <1>4, <2>2, LeavingIsShown DEF p
  <2> QED BY <1>1, <2>3
<1> QED BY <1>2, <1>5, <1>6, <1>7 DEF s, pay

(* The money of whatever is submitted is accounted for.                    *)
(* (psbt-inspect.ts:216-226, arkade-inspect.ts:210-255).                   *)
THEOREM MoneyIsAccounted == InspectionSpec => []MoneyAccounted
<1> DEFINE Submitted == submission \in Submissions \cup {Nothing}
<1>1. submission = Nothing => Submitted
  OBVIOUS
<1>2. Submitted /\ [Submit \/ Inspected]_submission => Submitted'
  BY DEF Submit, Inspected
<1>3. Submitted => MoneyShown
  <2> SUFFICES ASSUME Submitted, submission.kind = "psbt" PROVE MoneyShown
    BY Zenon DEF MoneyShown, Promises
  <2> DEFINE tx == submission.tx
  <2>1. tx.ins \in OneOrTwo(Inputs) /\ tx.outs \in OneOrTwo(Outputs)
    BY DEF Submissions, PsbtSubmissions, Nothing
  <2>2. /\ DOMAIN tx.ins \in {1..1, 1..2} /\ DOMAIN tx.outs \in {1..1, 1..2}
        /\ \A i \in DOMAIN tx.ins : tx.ins[i] \in Inputs
        /\ \A j \in DOMAIN tx.outs : tx.outs[j] \in Outputs
    BY <2>1 DEF OneOrTwo
  <2> HIDE DEF tx
  <2>3. Amounts(tx) /\ \A j \in DOMAIN tx.outs :
                         tx.outs[j].form \in {"address", "key", "data", "nonstandard"}
    BY <2>2, InspectionAssumption DEF Amounts
  <2>4. ASSUME NEW indexes \in SUBSET (1..3), NEW allowHighFee \in BOOLEAN, NEW subdust \in BOOLEAN,
               InspectPsbt(tx, indexes, allowHighFee, subdust).accepted
        PROVE  LET s == InspectPsbt(tx, indexes, allowHighFee, subdust)
               IN /\ s.feeKnown /\ s.fee >= 0 /\ s.totalLeaving > s.totalToExternal + s.fee
                       => s.flags \cap {"OP_RETURN", "NONSTANDARD_OUTPUT"} # {}
                  /\ s.totalToExternal > 0 /\ DOMAIN s.signInputs = DOMAIN tx.ins
                       /\ s.totalLeaving > 0
                       /\ s.totalLeaving = SumOver(DOMAIN tx.ins, LAMBDA i : tx.ins[i].amount)
                       => "SWEEP" \in s.flags
    BY <2>3, <2>4, MoneyShownOf
  <2> QED BY Zenon, <2>4 DEF MoneyShown, Promises, tx
<1>4. Submitted => FeeOfOriginals
  <2> SUFFICES ASSUME Submitted, submission.kind = "linked",
                      NEW outs \in OneOrTwo(Outputs),
                      InspectLinked(submission.checkpoints,
                                    [ins |-> submission.ins, outs |-> Anchored(outs)]).accepted
               PROVE  LET cps == submission.checkpoints
                          pay == [ins |-> submission.ins, outs |-> Anchored(outs)]
                          s == InspectLinked(cps, pay)
                          Spent == {[from |-> cps[i].from, amount |-> cps[i].in.amount] :
                                      i \in DOMAIN cps}
                      IN /\ s.fee = SumOver(Spent, LAMBDA c : c.amount)
                                      - SumOver(DOMAIN outs, LAMBDA j : outs[j].amount)
                         /\ {pay.ins[i].spends : i \in DOMAIN s.signInputs}
                              = {Id(cps[j]) : j \in {k \in DOMAIN cps : cps[k].selected}}
                         /\ s.totalLeaving <= s.totalToExternal + s.fee
    BY Zenon DEF FeeOfOriginals
  <2>1. ASSUME NEW T PROVE OneOrTwo(T) \subseteq Seq(T)
    <3>1. \A n \in Nat : [1..n -> T] \subseteq Seq(T)
      OBVIOUS
    <3> QED BY <3>1 DEF OneOrTwo
  <2>2. submission.checkpoints \in OneOrTwo(Spends) /\ submission.ins \in OneOrTwo(Payments)
    BY DEF Submissions, PsbtSubmissions, Nothing
  <2>3. submission.checkpoints \in Seq(Spends) /\ submission.ins \in Seq(Payments)
        /\ outs \in Seq(Outputs)
    BY <2>1, <2>2
  <2> QED BY <2>3, PaymentShown, Zenon
<1>5. Submitted => MoneyAccounted
  BY <1>3, <1>4 DEF MoneyAccounted
<1> QED BY <1>1, <1>2, <1>5, PTL DEF InspectionSpec
=============================================================================
