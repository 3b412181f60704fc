--------------------------- MODULE MCArkadeSigning ---------------------------
(* ArkadeSigning for TLC. *)
EXTENDS ArkadeSigning, ArkadeInspection

First(S) == CHOOSE x \in S : TRUE

\* Calls of a kind, and what completions ask for, are interchangeable, so they
\* are used in one order; a declared symmetry would not be sound for liveness.
InOrder ==
  /\ \A S \in {Connects, Completions} : \A t \in S \ {First(S)} :
       pc[t] = "new" /\ pc'[t] # "new" => pc[First(S)] # "new"
  /\ \A c \in Completions :
       request'[c] # None /\ (\A d \in Completions : request[d] = None)
         => request'[c] = First(Requests)

Untouched == sessions = 0 /\ \A t \in Tasks : pc[t] = "new"

\* An inspection takes no time: those of all submissions are made at the start.
MCNext ==
  \/ Next /\ InOrder /\ submission = Nothing /\ UNCHANGED submission
  \/ Untouched /\ (Submit \/ Inspected) /\ UNCHANGED vars

MCInit == ArkadeInit /\ submission = Nothing

MCSpec ==
  /\ MCInit
  /\ [][MCNext]_<<vars, submission>>
  /\ WF_<<vars, submission>>(ArkadeProgress /\ UNCHANGED submission)

----------------------------------------------------------------------------
(* What the transactions to inspect are made of: a coin of the wallet, one *)
(* it shares with a peer, and requests that misstate either.               *)

Shared == Leaf("multisig", <<Us, "peer", Operator>>)
SharedExit == Leaf("csv-multisig", <<Us, "peer">>)
OwnExit == Leaf("csv-multisig", <<Us>>)
OwnCoin == {Cooperative, OwnExit}
SharedCoin == {Shared, SharedExit}
Theirs == {Leaf("multisig", <<"peer">>)}

In(script, amount, tree, leaf) ==
  [known |-> TRUE, script |-> script, amount |-> amount, tree |-> tree, leaf |-> leaf]

MCContracts ==
  {[type |-> "default", owner |-> Us, script |-> SharedCoin],
   [type |-> "delegate", owner |-> Us,
    script |-> OwnCoin \cup {Leaf("multisig", <<Us, "delegate", Operator>>)}]}

MCInputs ==
  {In(OwnCoin, 3, OwnCoin, Cooperative), In(OwnCoin, 3, {}, NoLeaf),
   In(OwnCoin, 3, OwnCoin, OwnExit), In(SharedCoin, 5, SharedCoin, Shared),
   In(SharedCoin, 5, SharedCoin, SharedExit), In(SharedCoin, 5, SharedCoin, Cooperative),
   In(SharedCoin, 5, OwnCoin, Cooperative), In(Theirs, 2, {}, NoLeaf),
   [In(OwnCoin, 0, {}, NoLeaf) EXCEPT !.known = FALSE]}

Out(form, script, amount) == [form |-> form, script |-> script, amount |-> amount]

MCOutputs ==
  {Out("address", OwnCoin, 3), Out("address", SharedCoin, 3), Out("address", Theirs, 1),
   Out("nonstandard", {}, 1), Out("data", {}, 1), Out("key", OwnCoin, 1),
   Out("key", Theirs, 1), Out("key", Theirs, 3)}

Sig(key, value, valid) == [key |-> key, value |-> value, valid |-> valid]

Proof(script, amount, leaf, sigs) ==
  [known |-> TRUE, script |-> script, amount |-> amount, tree |-> script, leaf |-> leaf,
   open |-> TRUE, sigs |-> sigs]

Own == Proof(OwnCoin, 3, Cooperative, {})
Their == Proof(SharedCoin, 5, Shared, {Sig("peer", 1, TRUE)})

Checkpoint(from, in, selected) ==
  [from |-> from, in |-> in, selected |-> selected, out |-> CheckpointOutput(in)]

MCSpends ==
  {Checkpoint("x", Own, TRUE), Checkpoint("y", Their, TRUE), Checkpoint("y", Their, FALSE),
   [Checkpoint("x", Own, TRUE) EXCEPT !.out.amount = 2],
   [Checkpoint("y", Their, TRUE) EXCEPT !.in.leaf = Cooperative]}

\* Inputs that spend a checkpoint, and may state another amount.
MCPayments ==
  {[known |-> TRUE, script |-> cp.out.script, amount |-> cp.out.amount + more,
    tree |-> cp.out.script, leaf |-> cp.in.leaf, open |-> TRUE, sigs |-> {},
    spends |-> Id(cp)] : cp \in MCSpends, more \in {0, 1}}

MCCompleted ==
  {{}, {Sig(Operator, 1, TRUE)}, {Sig(Operator, 1, FALSE)},
   {Sig(Operator, 1, TRUE), Sig("peer", 1, TRUE)},
   {Sig(Operator, 1, TRUE), Sig("peer", 2, TRUE)}}
=============================================================================
