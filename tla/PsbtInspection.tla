--------------------------- MODULE PsbtInspection ---------------------------
(***************************************************************************)
(* What the wallet finds out by itself about a transaction that it is      *)
(* asked to sign (psbt-inspect.ts, wallet-scripts.ts): which inputs are    *)
(* its own, which it signs beside others, what leaves it, and what the     *)
(* user is warned of.  A taproot output key commits to exactly one tree,   *)
(* so a script is its set of leaves.                                       *)
(***************************************************************************)
EXTENDS Integers, Sequences, Functions

CONSTANTS
  Contracts,           \* the contracts the wallet has stored
  DustSats,            \* native sub-dust is below this
  FeeSanityBoundSats,
  Inputs, Outputs      \* what transactions are made of

VARIABLE
  submission  \* what the wallet is given to inspect

Us == "us"
Operator == "operator"

\* Amounts are unsigned (64 bits, on the wire).
ASSUME InspectionAssumption ==
  /\ DustSats \in Nat /\ FeeSanityBoundSats \in Nat
  /\ \A in \in Inputs : in.amount \in Nat
  /\ \A out \in Outputs :
       out.form \in {"address", "key", "data", "nonstandard"} /\ out.amount \in Nat

Leaf(type, signers) == [type |-> type, signers |-> signers]

NoLeaf == Leaf("none", <<>>)

Cooperative == Leaf("multisig", <<Us, Operator>>)

Signers(leaf) == {leaf.signers[i] : i \in DOMAIN leaf.signers}

\* A coin of such a leaf is ours alone: the operator signs along for everyone.
OursAlone(leaf) == Us \in Signers(leaf) /\ Signers(leaf) \subseteq {Us, Operator}

SumOver(S, Value(_)) == SumFunction([x \in S |-> Value(x)])

----------------------------------------------------------------------------
(* The wallet's own scripts.                                               *)

\* The SDK's default and delegate scripts of an owner.
Rebuilt(c) ==
  {Leaf("multisig", <<c.owner, Operator>>), Leaf("csv-multisig", <<c.owner>>)}
    \cup {Leaf("multisig", <<c.owner, "delegate", Operator>>) : x \in {c.type} \cap {"delegate"}}

\* A stored contract counts when its script is the one its parameters build.
Owned(c) ==
  /\ c.type \in {"default", "delegate"}
  /\ c.owner = Us
  /\ c.script = Rebuilt(c)

OwnScripts ==
  {Rebuilt([type |-> "default", owner |-> Us])} \cup {c.script : c \in {d \in Contracts : Owned(d)}}

----------------------------------------------------------------------------
(* Outputs: [form, script, amount]; "data" and "key" begin with OP_RETURN, *)
(* and "key" goes on like a taproot output key, of the script given.       *)

DustValid(out) == 0 < out.amount /\ out.amount < DustSats

Kind(out, subdust) ==
  CASE out.form \notin {"data", "key"} -> out.form
    [] out.form = "key" /\ subdust -> "arkade-subdust"
    [] OTHER -> "op_return"

Decoded(out, subdust) ==
  [kind |-> Kind(out, subdust),
   amount |-> out.amount,
   own |-> Kind(out, subdust) # "op_return" /\ out.script \in OwnScripts]

DecodeOutputs(tx, subdust) == [j \in DOMAIN tx.outs |-> Decoded(tx.outs[j], subdust)]

OwnChange(outs) == {j \in DOMAIN outs : outs[j].own}

Payouts(outs) ==
  {j \in DOMAIN outs : ~outs[j].own /\ outs[j].kind \in {"address", "arkade-subdust"}}

----------------------------------------------------------------------------
(* Inputs: [known, script, amount, tree, leaf], where the first three are  *)
(* the witnessUtxo; tree is {} when it is missing or cannot be read.       *)

\* Mutant of Committed: any leaf of a tree that is right will do.
CommittedTree(in) == in.known /\ in.tree = in.script

\* The leaf is one that the coin which is spent commits to.
Committed(in) == in.known /\ in.tree # {} /\ in.tree = in.script /\ in.leaf \in in.tree

Decodable(leaf) ==
  leaf.type \in {"multisig", "cltv-multisig", "csv-multisig", "condition-multisig",
                 "condition-csv-multisig"}

CanSign(in) == Committed(in) /\ Decodable(in.leaf) /\ Us \in Signers(in.leaf)

Role(in) ==
  CASE in.leaf = NoLeaf /\ in.known /\ in.script \in OwnScripts -> "own"
    [] in.leaf # NoLeaf /\ CanSign(in) ->
         IF OursAlone(in.leaf) THEN "own" ELSE "contract"
    [] OTHER -> "rejected"

Clause(type) ==
  CASE type = "cltv-multisig" -> "timeout-refund"
    [] type = "csv-multisig" -> "unilateral-exit"
    [] type = "condition-multisig" -> "conditional"
    [] type = "condition-csv-multisig" -> "conditional-exit"
    [] OTHER -> "cooperative"

ClassifyInput(in) ==
  [role |-> Role(in),
   amount |-> IF in.known THEN in.amount ELSE 0,
   clause |-> IF Role(in) = "contract" THEN Clause(in.leaf.type) ELSE "none"]

----------------------------------------------------------------------------
(* The summary of a transaction and the inputs that are to be signed.      *)

FeeKnown(tx) == \A i \in DOMAIN tx.ins : tx.ins[i].known

FeeOf(tx) ==
  SumOver(DOMAIN tx.ins, LAMBDA i : tx.ins[i].amount)
    - SumOver(DOMAIN tx.outs, LAMBDA j : tx.outs[j].amount)

Flags(tx, outs, signed) ==
  LET kinds == {outs[j].kind : j \in DOMAIN outs} IN
    {"OP_RETURN" : x \in kinds \cap {"op_return"}}
      \cup {"NONSTANDARD_OUTPUT" : x \in kinds \cap {"nonstandard"}}
      \cup {"UNILATERAL_EXIT" :
              x \in {signed[i].clause : i \in DOMAIN signed}
                      \cap {"unilateral-exit", "conditional-exit"}}
      \cup {"SWEEP" : x \in {0} \cap
              IF /\ DOMAIN signed = DOMAIN tx.ins
                 /\ SumOver(OwnChange(outs), LAMBDA j : outs[j].amount) = 0
                 /\ Payouts(outs) # {}
                THEN {0} ELSE {}}

Pure(signed) == \A i \in DOMAIN signed : signed[i].role = "contract"

SignInputs(tx, indexes) == [i \in indexes \cap DOMAIN tx.ins |-> ClassifyInput(tx.ins[i])]

Acceptable(tx, indexes, allowHighFee, subdust, signed) ==
  /\ indexes # {} /\ indexes \subseteq DOMAIN tx.ins
  /\ \A j \in DOMAIN tx.outs : subdust /\ tx.outs[j].form = "key" => DustValid(tx.outs[j])
  /\ \A i \in indexes : signed[i].role # "rejected"
  /\ FeeKnown(tx) /\ FeeOf(tx) > FeeSanityBoundSats => allowHighFee \/ Pure(signed)

Rejected == [accepted |-> FALSE]

InspectPsbt(tx, indexes, allowHighFee, subdust) ==
  LET outs == DecodeOutputs(tx, subdust)
      signed == SignInputs(tx, indexes)
      leaving == SumOver(DOMAIN signed, LAMBDA i : signed[i].amount)
                   - SumOver(OwnChange(outs), LAMBDA j : outs[j].amount)
  IN IF Acceptable(tx, indexes, allowHighFee, subdust, signed)
       THEN [accepted |-> TRUE,
             outputs |-> outs,
             signInputs |-> signed,
             totalLeaving |-> IF leaving < 0 THEN 0 ELSE leaving,
             totalToExternal |-> SumOver(Payouts(outs), LAMBDA j : outs[j].amount),
             fee |-> FeeOf(tx),
             feeKnown |-> FeeKnown(tx),
             flags |-> Flags(tx, outs, signed)]
       ELSE Rejected

----------------------------------------------------------------------------
(* A transaction is submitted with the inputs to sign, and whether the     *)
(* site accepts a high fee; whatever they are, its summary is the same     *)
(* promise.                                                                *)

OneOrTwo(S) == [1..1 -> S] \cup [1..2 -> S]

PsbtSubmissions == [kind : {"psbt"}, tx : [ins : OneOrTwo(Inputs), outs : OneOrTwo(Outputs)]]

Promises(Holds(_, _)) ==
  submission.kind = "psbt" =>
    \A indexes \in SUBSET (1..3), allowHighFee, subdust \in BOOLEAN :
      LET s == InspectPsbt(submission.tx, indexes, allowHighFee, subdust)
      IN s.accepted => Holds(submission.tx, s)

(* The user is shown where the money goes: what leaves the wallet is no    *)
(* more than what is shown as paid to others and as the fee, unless there  *)
(* is a warning of an output that cannot be read; a transaction that       *)
(* takes all its inputs from the wallet for others, and returns nothing,   *)
(* is called a sweep (psbt-inspect.ts:216-226, 562-581).                   *)
MoneyShown ==
  LET Shown(tx, s) ==
        /\ s.feeKnown /\ s.fee >= 0 /\ s.totalLeaving > s.totalToExternal + s.fee
             => s.flags \cap {"OP_RETURN", "NONSTANDARD_OUTPUT"} # {}
        /\ s.totalToExternal > 0 /\ DOMAIN s.signInputs = DOMAIN tx.ins
             /\ s.totalLeaving > 0
             /\ s.totalLeaving = SumOver(DOMAIN tx.ins, LAMBDA i : tx.ins[i].amount)
             => "SWEEP" \in s.flags
  IN Promises(Shown)

(* Nothing is called the wallet's own unless the coin itself can be spent  *)
(* by the wallet with the operator: neither an input, whatever leaf the    *)
(* request names for it, nor an output, whatever contract is stored for    *)
(* its script (psbt-inspect.ts:349-386, wallet-scripts.ts:4-7).            *)
OwnIsOwn ==
  LET Spendable(script) == \E leaf \in script : OursAlone(leaf)
      Honest(tx, s) ==
        /\ \A i \in DOMAIN s.signInputs :
             s.signInputs[i].role = "own" => Spendable(tx.ins[i].script)
        /\ \A j \in DOMAIN s.outputs : s.outputs[j].own => Spendable(tx.outs[j].script)
  IN Promises(Honest)
=============================================================================
