-------------------------- MODULE ArkadeInspection --------------------------
(***************************************************************************)
(* A payment with the checkpoints it spends (arkade-inspect.ts): each      *)
(* original coin goes into one checkpoint, each checkpoint into one input  *)
(* of the payment.  They are approved together, so they are inspected      *)
(* together; and what comes back to have its checkpoints signed is merged  *)
(* into what was approved.                                                 *)
(***************************************************************************)
EXTENDS PsbtInspection

CONSTANTS
  Spends,       \* checkpoints that are submitted
  Payments,     \* payment inputs that are submitted
  Completed     \* signatures that checkpoints come back with

\* A PSBT holds one signature of a key.
OnePerKey(sigs) == \A a, b \in sigs : a.key = b.key => a = b

\* A checkpoint as it is submitted, whoever has signed it.
IsCheckpoint(cp) ==
  /\ cp = [from |-> cp.from, in |-> cp.in, out |-> cp.out, selected |-> cp.selected]
  /\ cp.in = [known |-> cp.in.known, script |-> cp.in.script, amount |-> cp.in.amount,
              tree |-> cp.in.tree, leaf |-> cp.in.leaf, open |-> cp.in.open,
              sigs |-> cp.in.sigs]
  /\ OnePerKey(cp.in.sigs)

Signed(cp, sigs) == [cp EXCEPT !.in.sigs = sigs]

ASSUME CheckpointsAssumption ==
  /\ \A cp \in Spends : IsCheckpoint(cp) /\ cp.in.amount \in Nat
  /\ \A in \in Payments : in.amount \in Nat
  /\ \A sigs \in Completed : OnePerKey(sigs)

\* The operator's way out of a checkpoint.
Unroll == Leaf("csv-multisig", <<"forfeit">>)

----------------------------------------------------------------------------
(* Inputs have further fields here: open, for one leaf of the known        *)
(* version, nothing final and the usual sighash; and sigs, a set of        *)
(* [key, value, valid].                                                    *)

SignaturesValid(in, required) ==
  /\ required \subseteq {sig.key : sig \in in.sigs}
  /\ \A sig \in in.sigs : sig.valid /\ sig.key \in Signers(in.leaf)

CooperativeInput(in) ==
  /\ in.known /\ in.open /\ in.amount > 0
  /\ in.leaf.type = "multisig"
  /\ Operator \in Signers(in.leaf) /\ IsInjective(in.leaf.signers)
  /\ in.tree = in.script /\ in.leaf \in in.tree
  /\ SignaturesValid(in, {})

\* How the SDK builds the checkpoint of a coin.
CheckpointOutput(in) == [amount |-> in.amount, script |-> {Unroll, in.leaf}]

\* A transaction's id is a hash of it without its signatures and metadata.
Id(cp) == [from |-> cp.from, out |-> cp.out]

\* The set covers every input, with no checkpoint or coin twice.
CheckpointsComplete(cps, pay) ==
  /\ Len(cps) = Len(pay.ins)
  /\ \A i \in DOMAIN cps : CooperativeInput(cps[i].in)
  /\ \E i \in DOMAIN cps : cps[i].selected
  /\ \A i, j \in DOMAIN cps : i # j => cps[i].from # cps[j].from /\ Id(cps[i]) # Id(cps[j])

\* Mutant of Binds: the amount that the payment states is not looked at.
BindsScript(in, cp) ==
  /\ CooperativeInput(in)
  /\ in.spends = Id(cp)
  /\ cp.out = CheckpointOutput(cp.in)
  /\ in.script = cp.out.script /\ in.leaf = cp.in.leaf

\* The payment's input spends the checkpoint, as the SDK would have built both.
Binds(in, cp) ==
  /\ CooperativeInput(in)
  /\ in.spends = Id(cp)
  /\ cp.out = CheckpointOutput(cp.in)
  /\ [amount |-> in.amount, script |-> in.script] = cp.out
  /\ in.leaf = cp.in.leaf

\* The checkpoint of each input.
Binding(cps, pay) ==
  [i \in DOMAIN pay.ins |-> {j \in DOMAIN cps : Binds(pay.ins[i], cps[j])}]

Bound(cps, pay) ==
  LET of == Binding(cps, pay) IN
    /\ \A i \in DOMAIN pay.ins : of[i] # {}
    /\ \A i, k \in DOMAIN pay.ins : i # k => of[i] \cap of[k] = {}

\* A selected checkpoint passes an inspection of its own.
CheckpointAccepted(cp) ==
  LET out == [form |-> "address", script |-> cp.out.script, amount |-> cp.out.amount]
  IN InspectPsbt([ins |-> <<cp.in>>, outs |-> <<out>>], {1}, FALSE, FALSE).accepted

\* The inputs whose checkpoint the wallet is asked to sign.
Indexes(cps, pay) ==
  {i \in DOMAIN pay.ins : \E j \in Binding(cps, pay)[i] : cps[j].selected}

\* Only payouts and, at the end, the SDK's anchor.
PaymentOutputs(pay) ==
  /\ Len(pay.outs) >= 2
  /\ \A j \in DOMAIN pay.outs :
       IF j = Len(pay.outs)
         THEN pay.outs[j].form = "anchor" /\ pay.outs[j].amount = 0
         ELSE pay.outs[j].form \in {"address", "key"} /\ pay.outs[j].amount > 0

InspectLinked(cps, pay) ==
  LET s == InspectPsbt(pay, Indexes(cps, pay), FALSE, TRUE) IN
    IF /\ CheckpointsComplete(cps, pay)
       /\ Bound(cps, pay)
       /\ \A j \in DOMAIN cps : cps[j].selected => CheckpointAccepted(cps[j])
       /\ s.accepted
       /\ PaymentOutputs(pay)
       /\ s.feeKnown /\ s.fee >= 0 /\ s.fee <= FeeSanityBoundSats
      THEN [s EXCEPT !.outputs = SubSeq(@, 1, Len(@) - 1),
                     !.flags = @ \ ({"NONSTANDARD_OUTPUT"}
                                    \cup {"SWEEP" : x \in {0} \cap
                                           IF Pure(s.signInputs) THEN {0} ELSE {}})]
      ELSE Rejected

----------------------------------------------------------------------------
(* Checkpoints that come back.                                             *)

\* Mutant of Unchanged: another signature of the same key may come back.
UnchangedBody(stored, returned) ==
  /\ [Signed(returned, stored.in.sigs) EXCEPT !.selected = stored.selected] = stored
  /\ SignaturesValid(returned.in, {Operator})

\* Only signatures were added, valid ones, the operator's among them.
Unchanged(stored, returned) ==
  /\ [Signed(returned, stored.in.sigs) EXCEPT !.selected = stored.selected] = stored
  /\ SignaturesValid(returned.in, {Operator})
  /\ \A old \in stored.in.sigs, new \in returned.in.sigs : old.key = new.key => old = new

\* Each one is found by its id, whatever order they come in.
PrepareCheckpoints(approved, submitted) ==
  LET Returned(i) == {j \in DOMAIN submitted : Id(submitted[j]) = Id(approved[i])} IN
    IF /\ Len(submitted) = Len(approved)
       /\ \A j, k \in DOMAIN submitted : j # k => Id(submitted[j]) # Id(submitted[k])
       /\ \A i \in DOMAIN approved :
            \E j \in Returned(i) : Unchanged(approved[i], submitted[j])
      THEN [accepted |-> TRUE,
            checkpoints |->
              [i \in DOMAIN approved |->
                 LET j == CHOOSE j \in Returned(i) : TRUE
                 IN Signed(approved[i], approved[i].in.sigs \cup submitted[j].in.sigs)]]
      ELSE Rejected

----------------------------------------------------------------------------
(* What is submitted: a transaction alone, a payment with its checkpoints, *)
(* or the checkpoints of an approved one that have come back.              *)

Nothing == [kind |-> "none"]

Submissions ==
  PsbtSubmissions
    \cup [kind : {"linked"}, checkpoints : OneOrTwo(Spends), ins : OneOrTwo(Payments)]
    \cup [kind : {"completion"},
          approved : OneOrTwo({cp \in Spends : CooperativeInput(cp.in)})]

Submit == submission = Nothing /\ submission' \in Submissions

Inspected == submission # Nothing /\ submission' = Nothing

InspectionSpec == submission = Nothing /\ [][Submit \/ Inspected]_submission

\* The payment's outputs, with the SDK's anchor.
Anchored(outs) == Append(outs, [form |-> "anchor", script |-> {}, amount |-> 0])

(* The fee that the user approves is what the original coins, each counted *)
(* once, lose to the payment's outputs; the wallet signs just those inputs *)
(* of the payment whose checkpoints it signs, and every satoshi that       *)
(* leaves is shown as paid or as the fee (arkade-inspect.ts:210-255,       *)
(* 267-306).                                                               *)
FeeOfOriginals ==
  submission.kind = "linked" =>
    \A outs \in OneOrTwo(Outputs) :
      LET cps == submission.checkpoints
          pay == [ins |-> submission.ins, outs |-> Anchored(outs)]
          s == InspectLinked(cps, pay)
          Spent == {[from |-> cps[i].from, amount |-> cps[i].in.amount] : i \in DOMAIN cps}
      IN s.accepted =>
           /\ s.fee = SumOver(Spent, LAMBDA c : c.amount)
                        - SumOver(DOMAIN outs, LAMBDA j : outs[j].amount)
           /\ {pay.ins[i].spends : i \in DOMAIN s.signInputs}
                = {Id(cps[j]) : j \in {k \in DOMAIN cps : cps[k].selected}}
           /\ s.totalLeaving <= s.totalToExternal + s.fee

\* A completed checkpoint is the approved one with signatures added.
AddsSignatures(cp, approved) ==
  /\ Signed(cp, approved.in.sigs) = approved
  /\ approved.in.sigs \subseteq cp.in.sigs
  /\ SignaturesValid(cp.in, {Operator})
  /\ OnePerKey(cp.in.sigs)

Answers(approved) ==
  {Signed(approved[i], sigs) : i \in DOMAIN approved, sigs \in Completed} \cup Spends

(* What the wallet then signs is what was approved, in the approved order, *)
(* with signatures added and none replaced: one of each key, all valid,    *)
(* the operator's among them (arkade-inspect.ts:323-367,                   *)
(* docs/ARKADE-SIGNING.md).                                                *)
OnlySignaturesAdded ==
  submission.kind = "completion" =>
    \A submitted \in [DOMAIN submission.approved -> Answers(submission.approved)] :
      LET done == PrepareCheckpoints(submission.approved, submitted)
      IN done.accepted => \A i \in DOMAIN submission.approved :
           AddsSignatures(done.checkpoints[i], submission.approved[i])

(* Money is accounted for, in a transaction and in an Arkade payment.      *)
(* (psbt-inspect.ts:216-226, arkade-inspect.ts:210-255).                   *)
MoneyAccounted == MoneyShown /\ FeeOfOriginals
=============================================================================
