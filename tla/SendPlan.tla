------------------------------ MODULE SendPlan ------------------------------
(***************************************************************************)
(* One payment, from the coins listed to the transaction broadcast:        *)
(* send_payment of send.rs, with plan_send_utxos, select_utxos and         *)
(* replan_fee_for_selected of utxo_selector.rs, prepare_utxos_for_signing  *)
(* of utxo_prep.rs and assemble_transaction of signer.rs.                  *)
(*                                                                         *)
(* Simplifications:                                                        *)
(*  - a coin is its place in the list of UTXOs; addresses, scripts and     *)
(*    keys only decide whether a step fails;                               *)
(*  - amounts are integers of no fixed width: sums of coins stay far below *)
(*    2^63, and an amount near it fails in select_utxos whether the sum    *)
(*    wraps or panics.                                                     *)
(***************************************************************************)
EXTENDS Integers, FiniteSets, FiniteSetsExt

CONSTANTS
  NumCoins,    \* bound: how many UTXOs the wallet lists
  Values,      \* bound: what a coin may be worth
  Amounts,     \* bound: what the caller may ask to send
  Rates,       \* bound: the caller's fee rates, in sats per kB
  MinRate,     \* VIP1_MIN_TX_FEE_PER_K
  Dust,        \* DUST_CHANGE_SATS
  BaseSize,    \* bytes of a transaction beside its inputs and outputs (14)
  InputSize,   \* bytes of an input (148)
  OutputSize,  \* bytes of an output (34)
  SizeUnit,    \* the bytes a fee rate is for (1000)
  MaxRounds    \* the rounds of the two fee loops (8)

ASSUME FeesAssumption ==
  /\ MinRate \in Nat \ {0}
  /\ Rates \subseteq Nat
  /\ Dust \in Nat
  /\ BaseSize \in Nat \ {0}
  /\ InputSize \in Nat \ {0}
  /\ OutputSize \in Nat \ {0}
  /\ SizeUnit \in Nat \ {0}
  /\ MaxRounds \in Nat \ {0}

ASSUME CallsAssumption ==
  /\ NumCoins \in Nat \ {0}
  /\ Values \subseteq Nat
  /\ Amounts \subseteq Int

Coins == 1..NumCoins

VARIABLES
  values,    \* value_sats of the UTXOs, as listed and then as prepared
  amount,    \* amount_sats
  rate,      \* the caller's rate
  pc,        \* where send_payment is
  selected,  \* the coins selected so far
  sum,       \* their value
  fee,       \* fee_sats
  rounds,    \* turns of the fee loop under way
  prepared,  \* the selected coins that have been prepared
  planned,   \* the fee plan_send_utxos returned, and what its selection was worth
  tx         \* the transaction assembled

call == <<amount, rate>>
vars == <<values, call, pc, selected, sum, fee, rounds, prepared, planned, tx>>

Outcomes == {"invalid", "insufficient", "plan not converged", "not prepared", "short after refresh",
             "replan not converged", "unsigned", "unverified", "not broadcast", "sent"}
Transactions == [outputs : 1..2, paid : Nat, change : Int]
NoTransaction == [outputs |-> 1, paid |-> 0, change |-> 0]

-----------------------------------------------------------------------------
(* Fees.                                                                   *)

EstimateTxSize(inputs, outputs) ==
  BaseSize + inputs * InputSize + outputs * OutputSize

\* A fee per whole kB, plus the start fee: zero only for a rate of zero.
VeriumFeeForSize(r, size) == r * (size \div SizeUnit) + r

FeeForRate(inputs, outputs) ==
  LET size == EstimateTxSize(inputs, outputs)
      user == VeriumFeeForSize(rate, size)
      least == VeriumFeeForSize(MinRate, size)
  IN  IF user >= least THEN user ELSE least

\* Mutated form: change is an output even when it is dust.
AnyChangeIncluded(s, f) == s - amount - f > 0

ChangeWillBeIncluded(s, f) == s - amount - f > Dust

\* The outputs of a transaction that leaves s - amount - f as change.
OutputCount(s, f) == IF ChangeWillBeIncluded(s, f) THEN 2 ELSE 1

NewFee == FeeForRate(Cardinality(selected), OutputCount(sum, fee))

-----------------------------------------------------------------------------
(* Control.                                                                *)

Fails(outcome) ==
  /\ pc' = outcome
  /\ UNCHANGED <<values, call, selected, sum, fee, rounds, prepared, planned, tx>>

Init ==
  /\ values \in [Coins -> Values]
  /\ amount \in Amounts
  /\ rate \in Rates
  /\ pc = "select"
  /\ selected = {}
  /\ sum = 0
  /\ fee = FeeForRate(1, 2)
  /\ rounds = 0
  /\ prepared = {}
  /\ planned = [fee |-> 0, sum |-> 0]
  /\ tx = NoTransaction

Needed == amount + fee

\* sort_by_key is stable.
Before(i, j) == values[i] < values[j] \/ (values[i] = values[j] /\ i < j)
IsFirst(i, S) == \A j \in S \ {i} : Before(i, j)

\* Mutated form: the exact sum is not enough.
MoreThanEnough(s) == s > Needed

Enough(s) == s >= Needed

Sufficient == {i \in Coins : values[i] >= Needed}

RefuseAmount ==
  /\ pc = "select"
  /\ Needed <= 0
  /\ Fails("invalid")

\* The smallest coin that is enough by itself.
SelectOne ==
  /\ pc = "select"
  /\ Needed > 0
  /\ \E best \in Sufficient :
       /\ IsFirst(best, Sufficient)
       /\ selected' = {best}
       /\ sum' = values[best]
  /\ pc' = "check"
  /\ UNCHANGED <<values, call, fee, rounds, prepared, planned, tx>>

\* The smallest coins, until they are enough.
Accumulate ==
  /\ pc = "select"
  /\ Needed > 0
  /\ Sufficient = {}
  /\ \E next \in Coins \ selected :
       /\ IsFirst(next, Coins \ selected)
       /\ selected' = selected \cup {next}
       /\ sum' = sum + values[next]
  /\ pc' = IF Enough(sum') THEN "check" ELSE "select"
  /\ UNCHANGED <<values, call, fee, rounds, prepared, planned, tx>>

RunOut ==
  /\ pc = "select"
  /\ Needed > 0
  /\ Sufficient = {}
  /\ selected = Coins
  /\ Fails("insufficient")

\* Mutated forms: only the funds are checked; the rounds are not counted.
FundsSuffice == sum >= amount + NewFee
RoundNotCounted == rounds

\* The selection pays the fee of the transaction it makes.
Settled == NewFee = fee /\ sum >= amount + NewFee

\* The turn of a fee loop that follows.
NextRound == rounds + 1

\* The plan holds, and is what prepare_utxos_for_signing is given.
PlanSettles ==
  /\ pc = "check"
  /\ rounds < MaxRounds
  /\ Settled
  /\ planned' = [fee |-> fee, sum |-> sum]
  /\ pc' = "prepare"
  /\ UNCHANGED <<values, call, selected, sum, fee, rounds, prepared, tx>>

\* Another fee, and another selection for it.
PlanAgain ==
  /\ pc = "check"
  /\ rounds < MaxRounds
  /\ ~Settled
  /\ fee' = NewFee
  /\ rounds' = NextRound
  /\ selected' = {}
  /\ sum' = 0
  /\ pc' = "select"
  /\ UNCHANGED <<values, call, prepared, planned, tx>>

PlanGivesUp ==
  /\ pc = "check"
  /\ rounds = MaxRounds
  /\ Fails("plan not converged")

\* The parent transaction of c is fetched, and tells what c is worth.
PrepareFromParent(c) ==
  \E v \in Values :
    /\ values' = [values EXCEPT ![c] = v]
    /\ sum' = sum - values[c] + v

\* A coin is prepared; without its parent, from what the wallet knows of it.
Prepare ==
  /\ pc = "prepare"
  /\ \E c \in selected \ prepared :
       /\ prepared' = prepared \cup {c}
       /\ PrepareFromParent(c) \/ UNCHANGED <<values, sum>>
  /\ UNCHANGED <<call, pc, selected, fee, rounds, planned, tx>>

\* No server answers, or a script is not the wallet's.
PrepareFails ==
  /\ pc = "prepare"
  /\ prepared # selected
  /\ Fails("not prepared")

\* replan_fee_for_selected starts from the fee with a change output.
FirstFee == FeeForRate(Cardinality(selected), 2)

StartReplan ==
  /\ pc = "prepare"
  /\ prepared = selected
  /\ fee' = FirstFee
  /\ rounds' = 0
  /\ pc' = "replan"
  /\ UNCHANGED <<values, call, selected, sum, prepared, planned, tx>>

ReplanSettles ==
  /\ pc = "replan"
  /\ rounds < MaxRounds
  /\ NewFee = fee
  /\ sum >= amount + NewFee
  /\ pc' = "sign"
  /\ UNCHANGED <<values, call, selected, sum, fee, rounds, prepared, planned, tx>>

ReplanRefuses ==
  /\ pc = "replan"
  /\ rounds < MaxRounds
  /\ NewFee = fee
  /\ sum < amount + NewFee
  /\ Fails("short after refresh")

ReplanAgain ==
  /\ pc = "replan"
  /\ rounds < MaxRounds
  /\ NewFee # fee
  /\ fee' = NewFee
  /\ rounds' = NextRound
  /\ UNCHANGED <<values, call, pc, selected, sum, prepared, planned, tx>>

ReplanGivesUp ==
  /\ pc = "replan"
  /\ rounds = MaxRounds
  /\ Fails("replan not converged")

\* Mutated forms: change is an output even when it is dust; the amount is not clamped.
DustKept == sum - amount - fee > 0
AmountAsGiven == amount

ChangeKept == sum - amount - fee > Dust
Paid == IF amount > 0 THEN amount ELSE 0

\* assemble_transaction; change that is dust goes to the fee.
Sign ==
  /\ pc = "sign"
  /\ sum >= amount + fee
  /\ tx' = [outputs |-> IF ChangeKept THEN 2 ELSE 1,
            paid |-> Paid,
            change |-> IF ChangeKept THEN sum - amount - fee ELSE 0]
  /\ pc' = "verify"
  /\ UNCHANGED <<values, call, selected, sum, fee, rounds, prepared, planned>>

\* No key of the wallet, up to the last index searched, signs for a coin, or the coins do
\* not pay.
SignFails ==
  /\ pc = "sign"
  /\ Fails("unsigned")

\* verify_send_outputs.
PaysRecipient == amount > 0 /\ tx.paid = amount

Broadcast ==
  /\ pc = "verify"
  /\ PaysRecipient
  /\ Fails("sent") \/ Fails("not broadcast")

\* The recipient is not paid, or a signature does not fit its coin.
VerifyFails ==
  /\ pc = "verify"
  /\ Fails("unverified")

Next ==
  \/ RefuseAmount \/ SelectOne \/ Accumulate \/ RunOut
  \/ PlanSettles \/ PlanAgain \/ PlanGivesUp
  \/ Prepare \/ PrepareFails
  \/ StartReplan \/ ReplanSettles \/ ReplanRefuses \/ ReplanAgain \/ ReplanGivesUp
  \/ Sign \/ SignFails \/ Broadcast \/ VerifyFails

Spec == Init /\ [][Next]_vars

\* send_payment is one async function: it runs on until it returns.  Its requests time out; a
\* server that is silent while it connects, which ElectrumClient has, is left out here.
FairSpec == Spec /\ WF_vars(Next)

-----------------------------------------------------------------------------
(* What a payment promises.                                                *)

TypeOK ==
  /\ values \in [Coins -> Values]
  /\ amount \in Amounts
  /\ rate \in Rates
  /\ pc \in {"select", "check", "prepare", "replan", "sign", "verify"} \cup Outcomes
  /\ selected \subseteq Coins
  /\ sum \in Int
  /\ fee \in Nat
  /\ rounds \in 0..MaxRounds
  /\ prepared \subseteq Coins
  /\ planned \in [fee : Nat, sum : Int]
  /\ tx \in Transactions

\* The transaction pays the recipient what was asked, and leaves a fee that its size calls
\* for, with no more than dust on top of it.
PaysItsFee ==
  LET left == sum - tx.paid - tx.change
      due == FeeForRate(Cardinality(selected), tx.outputs)
  IN  tx.paid = amount /\ amount > 0 /\ due <= left /\ left <= due + Dust

\* A payment that is broadcast pays the recipient, and the fee of the transaction that was
\* signed: the loops and the signer agree on its outputs.
SentPaysFee == pc = "sent" => PaysItsFee

\* A wallet is told that its funds do not suffice only when all its coins together do not
\* pay the amount and the fee of spending them all.
InsufficientIsReal ==
  pc = "insufficient" =>
    MapThenSumSet(LAMBDA c : values[c], Coins) < amount + FeeForRate(NumCoins, 2)

\* When the parents confirm what the plan reckoned with, the fee planned stands, and the
\* payment is not refused for its fee any more.
ReplanAgrees ==
  pc \in {"sign", "short after refresh", "replan not converged"} /\ sum = planned.sum
    => pc = "sign" /\ fee = planned.fee

\* The steps of the fee up to a transaction of n coins with change.
FeeSteps(n) == EstimateTxSize(n, 2) \div SizeUnit

\* A change output would cost a fee that leaves no change: with it the fee is higher than
\* without, and what is left over lies between.
Boundary ==
  LET left == sum - amount
      n == Cardinality(selected)
  IN  left > FeeForRate(n, 1) + Dust /\ left <= FeeForRate(n, 2) + Dust

\* A fee loop gives up only where a change output would cost a fee that leaves no change.
\* The first loop may also run out of rounds on its way up, since every round but the last
\* two takes the fee a step higher: at sizes and rounds of the code beyond 46 coins.
NotConvergedAtBoundary ==
  /\ pc = "replan not converged" => Boundary
  /\ pc = "plan not converged" /\ FeeSteps(Cardinality(selected)) + 2 <= MaxRounds => Boundary

\* The inductive invariant behind SentPaysFee: the fee settled on is the one that the
\* signed transaction, which decides on its change anew, calls for.
SendInv ==
  /\ pc \in {"sign", "verify"} => fee = NewFee /\ sum >= amount + fee
  /\ pc = "verify" => /\ tx.outputs = OutputCount(sum, fee)
                      /\ tx.paid = Paid
                      /\ tx.change = IF ChangeKept THEN sum - amount - fee ELSE 0
  /\ SentPaysFee

\* Every payment comes to an end, and the fee loops with it.
PaymentEnds == <>(pc \in Outcomes)
=============================================================================
