---------------------------- MODULE ArkadeSigning ----------------------------
(***************************************************************************)
(* Arkade payments (provider-handlers.ts:421-592, arkade-approvals.ts).    *)
(* One prompt approves a transaction with its checkpoints; the approval    *)
(* lives on in the worker's memory for ten minutes, and completions sign   *)
(* the checkpoints under it without a prompt.  Every signature, and every  *)
(* answer, is authorized afresh: the grant is read from storage, and in    *)
(* the continuation that goes on the session, the connection version and   *)
(* the approval itself are looked at.                                      *)
(***************************************************************************)
EXTENDS SiteRequests

CONSTANTS
  Requests,     \* what a completion may ask to have signed
  Checkpoints   \* how many checkpoints a transaction has

ASSUME ArkadeAssumption ==
  /\ None \notin Requests \cup Transactions
  /\ Checkpoints \in Nat \ {0}

VARIABLES
  approval,   \* the ArkadeSigningApproval of each transaction
  target,     \* the approval each completion names
  request,    \* the checkpoints it sends
  todo,       \* what each handler still does, one authorization before each
  answer      \* the request whose signatures a completion has returned

arkadeVars == <<approval, target, request, todo, answer>>
vars == <<siteVars, arkadeVars>>

Approval == [grant: Connects \cup {None}, version: Nat, expiring: BOOLEAN,
             ready: BOOLEAN, busy: BOOLEAN, completed: Requests \cup {None}]

Handlers == Transactions \cup Completions

ArkadeTypeOK ==
  /\ SiteTypeOK
  /\ approval \in [Transactions -> Approval]
  /\ target \in [Completions -> Transactions \cup {None}]
  /\ request \in [Completions -> Requests \cup {None}]
  /\ todo \in [Handlers -> Seq({"sign", "check", "stage", "prepare", "release"})]
  /\ answer \in [Completions -> Requests \cup {None}]
  /\ \A t \in Transactions :
       pc[t] \notin {"new", "checked", "done"} => approval[t].grant \in Connects

ArkadeInit ==
  /\ SiteInit
  /\ approval = [t \in Transactions |->
                   [grant |-> None, version |-> 0, expiring |-> FALSE,
                    ready |-> FALSE, busy |-> FALSE, completed |-> None]]
  /\ target = [c \in Completions |-> None]
  /\ request = [c \in Completions |-> None]
  /\ todo = [k \in Handlers |-> <<>>]
  /\ answer = [c \in Completions |-> None]

Of(k) == IF k \in Transactions THEN k ELSE target[k]

SignEach == [i \in 1..Checkpoints |-> "sign"]

\* A handler fails: its finally clause, and a mismatch of the grant, drop what they must.
Fails(k, dropped) ==
  /\ Goes(k, "done")
  /\ arkade' = arkade \ (dropped \cup ({k} \cap Transactions))
  /\ approval' = IF k \in Completions THEN [approval EXCEPT ![Of(k)].busy = FALSE]
                                      ELSE approval

----------------------------------------------------------------------------
(* approveArkadeTransaction, up to its prompt.                             *)

ApproveAsk(t, o) ==
  /\ RequireForSigning(o)
  /\ connection[o].pending = 0
  /\ Asks(t, o, "checked")
  /\ approval' = [approval EXCEPT ![t].version = connection[o].version]
  /\ UNCHANGED <<sessionVars, promptVars, grantVars, authorityVars, bound,
                 target, request, todo, answer>>

ApproveReadsGrant(t) ==
  /\ pc[t] = "checked"
  /\ grants[site[t]] # None
  /\ approval' = [approval EXCEPT ![t].grant = grants[site[t]]]
  /\ Goes(t, "granted")
  /\ UNCHANGED <<sessionVars, promptVars, grantVars, authorityVars, site, bound,
                 target, request, todo, answer>>

ApproveContext(t) ==
  /\ pc[t] = "granted"
  /\ live # 0
  /\ bound' = [bound EXCEPT ![t] = live]
  /\ Goes(t, "inspecting")
  /\ UNCHANGED <<sessionVars, promptVars, grantVars, authorityVars, site, arkadeVars>>

\* The transaction has been inspected; the grant is read once more.
ApproveInspected(t) ==
  /\ pc[t] = "inspecting"
  /\ InSession(t)
  /\ Goes(t, "reading")
  /\ UNCHANGED <<sessionVars, promptVars, grantVars, authorityVars, site, bound, arkadeVars>>

ApproveRereads(t) ==
  /\ pc[t] = "reading"
  /\ grants[site[t]] = approval[t].grant
  /\ Goes(t, "rechecked")
  /\ UNCHANGED <<sessionVars, promptVars, grantVars, authorityVars, site, bound, arkadeVars>>

SameConnection(t) ==
  connection[site[t]] = [version |-> approval[t].version, pending |-> 0]

ApprovePrompts(t) ==
  /\ pc[t] = "rechecked"
  /\ InSession(t)
  /\ SameConnection(t)
  /\ Prompts(t)
  /\ arkade' = arkade \cup {t}
  /\ UNCHANGED <<sessionVars, grantVars, connection, site, bound, arkadeVars>>

\* Mutant of ApproveApproved: the timer is not started.
ApproveApprovedForever(t) ==
  /\ Approved(t)
  /\ \/ todo' = [todo EXCEPT ![t] = <<"sign", "stage">>]
     \/ todo' = [todo EXCEPT ![t] = <<"sign", "check">> \o SignEach \o <<"release">>]
  /\ Goes(t, "authorizing")
  /\ UNCHANGED <<sessionVars, promptVars, grantVars, authorityVars, site, bound,
                 approval, target, request, answer>>

\* Whether the checkpoints are signed at once is the site's choice.
ApproveApproved(t) ==
  /\ Approved(t)
  /\ approval' = [approval EXCEPT ![t].expiring = TRUE]
  /\ \/ todo' = [todo EXCEPT ![t] = <<"sign", "stage">>]
     \/ todo' = [todo EXCEPT ![t] = <<"sign", "check">> \o SignEach \o <<"release">>]
  /\ Goes(t, "authorizing")
  /\ UNCHANGED <<sessionVars, promptVars, grantVars, authorityVars, site, bound,
                 target, request, answer>>

ApproveFails(t) ==
  /\ \/ pc[t] \in {"checked", "granted", "inspecting", "reading", "rechecked"}
     \/ Declined(t)
  /\ Fails(t, {})
  /\ UNCHANGED <<sessionVars, promptVars, grantVars, connection, site, bound,
                 target, request, todo, answer>>

----------------------------------------------------------------------------
(* signArkadeCheckpoints, up to its first authorization.                   *)

CompleteAsk(c, o, t) ==
  /\ RequireForSigning(o)
  /\ t \in arkade /\ approval[t].ready /\ site[t] = o
  /\ ~approval[t].busy
  /\ Asks(c, o, "authorizing")
  /\ approval' = [approval EXCEPT ![t].busy = TRUE]
  /\ target' = [target EXCEPT ![c] = t]
  /\ \E r \in Requests : request' = [request EXCEPT ![c] = r]
  /\ todo' = [todo EXCEPT ![c] = <<"prepare">>]
  /\ UNCHANGED <<sessionVars, promptVars, grantVars, authorityVars, bound, answer>>

----------------------------------------------------------------------------
(* Authorization, and what follows it in the same continuation.            *)

\* authorizeArkadeSigning reads the grant; another one ends the approval.
ReadsGrant(k) ==
  /\ pc[k] = "authorizing"
  /\ IF grants[site[k]] = approval[Of(k)].grant
       THEN Goes(k, "authorized") /\ UNCHANGED <<arkade, approval>>
       ELSE Fails(k, {Of(k)})
  /\ UNCHANGED <<sessionVars, promptVars, grantVars, connection, site, bound,
                 target, request, todo, answer>>

\* Mutant of Authorized: only the grant was read.
AuthorizedByGrant(k) == pc[k] = "authorized"

\* assertLiveArkadeApproval.
Authorized(k) ==
  /\ pc[k] = "authorized"
  /\ InSession(Of(k))
  /\ SameConnection(Of(k))
  /\ Of(k) \in arkade

Step(k, step) == todo[k] # <<>> /\ Head(todo[k]) = step

StepDone(k) == todo' = [todo EXCEPT ![k] = Tail(@)]

StartsSigner(k) ==
  /\ Authorized(k)
  /\ Step(k, "sign")
  /\ Goes(k, "signing")
  /\ StepDone(k)
  /\ UNCHANGED <<sessionVars, promptVars, grantVars, authorityVars, site, bound,
                 approval, target, request, answer>>

SignerEnds(k) ==
  /\ pc[k] = "signing"
  /\ Goes(k, "authorizing")
  /\ UNCHANGED <<sessionVars, promptVars, grantVars, authorityVars, site, bound, arkadeVars>>

Checks(k) ==
  /\ Authorized(k)
  /\ Step(k, "check")
  /\ Goes(k, "authorizing")
  /\ StepDone(k)
  /\ UNCHANGED <<sessionVars, promptVars, grantVars, authorityVars, site, bound,
                 approval, target, request, answer>>

\* The approval stays, for a completion to use.
Stages(t) ==
  /\ Authorized(t)
  /\ Step(t, "stage")
  /\ approval' = [approval EXCEPT ![t].ready = TRUE]
  /\ Goes(t, "signed")
  /\ StepDone(t)
  /\ UNCHANGED <<sessionVars, promptVars, grantVars, authorityVars, site, bound,
                 target, request, answer>>

\* Everything was signed at once: the approval is used up.
ReleasesAll(t) ==
  /\ t \in Transactions
  /\ Authorized(t)
  /\ Step(t, "release")
  /\ arkade' = arkade \ {t}
  /\ Goes(t, "signed")
  /\ StepDone(t)
  /\ UNCHANGED <<sessionVars, promptVars, grantVars, connection, site, bound,
                 approval, target, request, answer>>

\* Mutant of Prepares: a retry is not compared with what was signed.
PreparesAny(c) ==
  /\ Authorized(c)
  /\ Step(c, "prepare")
  /\ todo' = [todo EXCEPT ![c] = SignEach \o <<"release">>]
  /\ Goes(c, "authorizing")
  /\ UNCHANGED <<sessionVars, promptVars, grantVars, authorityVars, site, bound,
                 approval, target, request, answer>>

\* A retry gets the saved result, and must ask for the same.
Prepares(c) ==
  /\ Authorized(c)
  /\ Step(c, "prepare")
  /\ approval[target[c]].completed \in {None, request[c]}
  /\ todo' = [todo EXCEPT ![c] =
       IF approval[target[c]].completed = None THEN SignEach \o <<"release">>
                                               ELSE <<"release">>]
  /\ Goes(c, "authorizing")
  /\ UNCHANGED <<sessionVars, promptVars, grantVars, authorityVars, site, bound,
                 approval, target, request, answer>>

Releases(c) ==
  /\ c \in Completions
  /\ Authorized(c)
  /\ Step(c, "release")
  /\ approval' = [approval EXCEPT ![target[c]].completed = request[c],
                                  ![target[c]].busy = FALSE]
  /\ answer' = [answer EXCEPT ![c] = request[c]]
  /\ Goes(c, "signed")
  /\ StepDone(c)
  /\ UNCHANGED <<sessionVars, promptVars, grantVars, authorityVars, site, bound,
                 target, request>>

\* A check, a read, the preparation or the signer throws.
HandlerFails(k) ==
  /\ \/ pc[k] = "authorized" /\ (~Authorized(k) \/ Step(k, "prepare"))
     \/ pc[k] \in {"authorizing", "signing"}
  /\ Fails(k, {})
  /\ UNCHANGED <<sessionVars, promptVars, grantVars, connection, site, bound,
                 target, request, todo, answer>>

\* Ten minutes after the approval.
Expires(t) ==
  /\ t \in arkade
  /\ approval[t].expiring
  /\ arkade' = arkade \ {t}
  /\ UNCHANGED <<sessionVars, promptVars, grantVars, connection, taskVars, arkadeVars>>

ApproveSteps(t) ==
  ApproveReadsGrant(t) \/ ApproveContext(t) \/ ApproveInspected(t) \/ ApproveRereads(t)
    \/ ApprovePrompts(t) \/ ApproveApproved(t) \/ ApproveFails(t) \/ Stages(t)
    \/ ReleasesAll(t)

HandlerSteps(k) ==
  ReadsGrant(k) \/ StartsSigner(k) \/ SignerEnds(k) \/ Checks(k) \/ HandlerFails(k)

ArkadeProgress ==
  \/ SiteProgress /\ UNCHANGED arkadeVars
  \/ \E t \in Transactions : ApproveSteps(t) \/ Expires(t)
  \/ \E c \in Completions : Prepares(c) \/ Releases(c)
  \/ \E k \in Handlers : HandlerSteps(k)

ArkadeAsks ==
  \E t \in Transactions, o \in Origins :
    ApproveAsk(t, o) \/ \E c \in Completions : CompleteAsk(c, o, t)

Next ==
  \/ ArkadeProgress
  \/ ArkadeAsks
  \/ (SiteAsks \/ Lock \/ Unlock \/ WorkerDies) /\ UNCHANGED arkadeVars

Spec == ArkadeInit /\ [][Next]_vars

FairSpec == Spec /\ WF_vars(ArkadeProgress)

----------------------------------------------------------------------------
(* Properties.                                                             *)

(* No signature is started and no answer released after the connection or  *)
(* the session it was approved in has ended, nor without the user's yes,   *)
(* although the grant was read before other awaits                         *)
(* (provider-handlers.ts:567-592).                                         *)
SignedUnderGrant ==
  [][\A k \in Handlers :
       pc'[k] # pc[k] /\ pc'[k] \in {"signing", "signed"}
         => /\ grants[site[k]] = approval[Of(k)].grant
            /\ InSession(Of(k))
            /\ verdict[Of(k)] = "approved"]_vars

(* All completions that are answered under one approval are answered for   *)
(* the same checkpoints (docs/ARKADE-SIGNING.md:73-76).                    *)
OneAnswer ==
  \A c, d \in Completions :
    answer[c] # None /\ answer[d] # None /\ target[c] = target[d] => answer[c] = answer[d]

(* Every approval is used up, invalidated or expires in the end            *)
(* (arkade-approvals.ts:54-57).                                            *)
ApprovalsEnd == \A t \in Transactions : t \in arkade ~> t \notin arkade

(* What is in the map is authority that is owed.  It belongs to the grant  *)
(* that is stored and the session that lives, although the grant is looked *)
(* at only when it is read, and the map only by its key: whoever changes   *)
(* either must have taken the approval away first.  And it outlives its    *)
(* handler only when it was handed to the site, and is busy only while a   *)
(* completion works on it (arkade-approvals.ts:26-34,                      *)
(* provider-handlers.ts:503-505, 547-549, docs/ARKADE-SIGNING.md:70-72).   *)
ApprovalsBound ==
  \A t \in arkade :
    /\ grants[site[t]] = approval[t].grant /\ InSession(t)
    /\ approval[t].ready \/ pc[t] \notin Over
    /\ approval[t].busy => \E c \in Completions : target[c] = t /\ pc[c] \notin Over
=============================================================================
