--------------------------- MODULE SendPlanProofs ---------------------------
(***************************************************************************)
(* What holds of a payment for every list of coins, every amount and rate, *)
(* every transaction size and every number of rounds of the fee loops.     *)
(*                                                                         *)
(* The argument for the fee: both fee loops and assemble_transaction       *)
(* decide whether there is a change output, each by its own test on the    *)
(* same three numbers. A fee that is a fixed point of the loop is the fee  *)
(* of the transaction with the outputs the loop counted; since signing     *)
(* counts the same outputs, the fee is due for the transaction signed.     *)
(*                                                                         *)
(* The parts that follow: the second loop finds the fee of the plan again; *)
(* it gives up at the boundary between two fees only; a refusal for want   *)
(* of funds is true of all coins together; and the first loop gives up at  *)
(* that boundary only, which takes an induction over the coins.            *)
(***************************************************************************)
EXTENDS SendPlan, FiniteSetTheorems, WellFoundedInduction, TLAPS

USE FeesAssumption, CallsAssumption

LEMMA FeeNat ==
  ASSUME rate \in Nat, NEW n \in Nat, NEW o \in Nat
  PROVE  FeeForRate(n, o) \in Nat
<1> DEFINE size == EstimateTxSize(n, o)
<1>1. size \in Nat
  BY DEF EstimateTxSize
<1>2. ASSUME NEW r \in Nat
      PROVE  VeriumFeeForSize(r, size) \in Nat
  <2> DEFINE k == size \div SizeUnit
  <2> HIDE DEF size
  <2>1. k \in Nat
    BY <1>1
  <2> HIDE DEF k
  <2>2. r * k \in Nat
    BY <2>1, <1>2
  <2>3. QED
    BY <2>2, <1>2 DEF VeriumFeeForSize, k
<1> HIDE DEF size
<1>3. QED
  BY <1>2 DEF FeeForRate, size

LEMMA SelectedCount ==
  ASSUME NEW S, S \subseteq Coins
  PROVE  Cardinality(S) \in Nat
<1>1. IsFiniteSet(Coins)
  BY FS_Interval DEF Coins
<1>2. QED
  BY <1>1, FS_Subset, FS_CardinalityType

LEMMA ValueInt == \A v \in Values : v \in Int
OBVIOUS

LEMMA NewFeeNat == TypeOK => NewFee \in Nat
<1> SUFFICES ASSUME TypeOK PROVE NewFee \in Nat
  OBVIOUS
<1>1. rate \in Nat
  BY DEF TypeOK
<1>2. Cardinality(selected) \in Nat
  BY SelectedCount DEF TypeOK
<1>3. OutputCount(sum, fee) \in Nat
  BY DEF OutputCount
<1>4. QED
  BY <1>1, <1>2, <1>3, FeeNat DEF NewFee

LEMMA InitTyped == Init => TypeOK
<1> SUFFICES ASSUME Init PROVE TypeOK
  OBVIOUS
<1>1. fee \in Nat
  BY FeeNat DEF Init
<1>2. tx \in Transactions
  BY DEF Init, NoTransaction, Transactions
<1>3. QED
  BY <1>1, <1>2 DEF Init, TypeOK

LEMMA FailsTyped ==
  ASSUME TypeOK, NEW outcome \in Outcomes, Fails(outcome)
  PROVE  TypeOK'
BY DEF TypeOK, Fails, call

LEMMA StepTyped ==
  ASSUME TypeOK, [Next]_vars
  PROVE  TypeOK'
<1> USE DEF TypeOK
<1>1. CASE RefuseAmount
  BY <1>1, FailsTyped DEF RefuseAmount, Outcomes
<1>2. CASE SelectOne
  <2>1. PICK best \in Sufficient : selected' = {best} /\ sum' = values[best]
    BY <1>2 DEF SelectOne
  <2>2. best \in Coins /\ values[best] \in Int
    BY <2>1 DEF Sufficient
  <2>3. selected' \subseteq Coins /\ sum' \in Int
    BY <2>1, <2>2
  <2>4. QED
    BY <1>2, <2>3 DEF SelectOne, call
<1>3. CASE Accumulate
  <2>1. PICK next \in Coins \ selected :
          selected' = selected \cup {next} /\ sum' = sum + values[next]
    BY <1>3 DEF Accumulate
  <2>2. values[next] \in Int
    <3>1. values[next] \in Values
      BY <2>1
    <3>2. QED
      BY <3>1, ValueInt
  <2>3. selected' \subseteq Coins /\ sum' \in Int
    BY <2>1, <2>2
  <2>4. pc' \in {"select", "check"}
    BY <1>3 DEF Accumulate
  <2>5. QED
    BY <1>3, <2>3, <2>4 DEF Accumulate, call
<1>4. CASE RunOut
  BY <1>4, FailsTyped DEF RunOut, Outcomes
<1>5. CASE PlanSettles
  BY <1>5 DEF PlanSettles, call
<1>6. CASE PlanAgain
  BY <1>6, NewFeeNat DEF PlanAgain, NextRound, call
<1>7. CASE PlanGivesUp
  BY <1>7, FailsTyped DEF PlanGivesUp, Outcomes
<1>8. CASE Prepare
  <2>1. PICK c \in selected \ prepared :
          /\ prepared' = prepared \cup {c}
          /\ PrepareFromParent(c) \/ UNCHANGED <<values, sum>>
    BY <1>8 DEF Prepare
  <2>2. values' \in [Coins -> Values] /\ sum' \in Int
    <3>1. CASE UNCHANGED <<values, sum>>
      BY <3>1
    <3>2. CASE PrepareFromParent(c)
      <4>1. PICK v \in Values :
              values' = [values EXCEPT ![c] = v] /\ sum' = sum - values[c] + v
        BY <3>2 DEF PrepareFromParent
      <4>2. values[c] \in Values
        BY <2>1
      <4>3. values[c] \in Int /\ v \in Int
        BY <4>2, ValueInt
      <4>4. QED
        BY <4>1, <4>3
    <3>3. QED
      BY <2>1, <3>1, <3>2
  <2>3. QED
    BY <1>8, <2>1, <2>2 DEF Prepare, call
<1>9. CASE PrepareFails
  BY <1>9, FailsTyped DEF PrepareFails, Outcomes
<1>10. CASE StartReplan
  <2>1. FirstFee \in Nat
    BY FeeNat, SelectedCount DEF FirstFee
  <2>2. QED
    BY <1>10, <2>1 DEF StartReplan, call
<1>11. CASE ReplanSettles
  BY <1>11 DEF ReplanSettles, call
<1>12. CASE ReplanRefuses
  BY <1>12, FailsTyped DEF ReplanRefuses, Outcomes
<1>13. CASE ReplanAgain
  BY <1>13, NewFeeNat DEF ReplanAgain, NextRound, call
<1>14. CASE ReplanGivesUp
  BY <1>14, FailsTyped DEF ReplanGivesUp, Outcomes
<1>15. CASE Sign
  <2>1. tx' \in Transactions
    <3>1. Paid \in Nat
      BY DEF Paid
    <3>2. QED
      BY <1>15, <3>1 DEF Sign, Transactions
  <2>2. QED
    BY <1>15, <2>1 DEF Sign, call
<1>16. CASE SignFails
  BY <1>16, FailsTyped DEF SignFails, Outcomes
<1>17. CASE Broadcast
  BY <1>17, FailsTyped DEF Broadcast, Outcomes
<1>18. CASE VerifyFails
  BY <1>18, FailsTyped DEF VerifyFails, Outcomes
<1>19. CASE UNCHANGED vars
  BY <1>19 DEF vars, call
<1>20. QED
  BY <1>1, <1>2, <1>3, <1>4, <1>5, <1>6, <1>7, <1>8, <1>9, <1>10, <1>11, <1>12, <1>13,
     <1>14, <1>15, <1>16, <1>17, <1>18, <1>19
  DEF Next

\* Every variable keeps its type (utxo_selector.rs, signer.rs).
THEOREM TypeCorrect == Spec => []TypeOK
BY InitTyped, StepTyped, PTL DEF Spec

-----------------------------------------------------------------------------
(* The fee of a payment that is sent.                                      *)

\* A transaction signed under SendInv pays the fee of its own size.
LEMMA SignedPays ==
  ASSUME TypeOK, SendInv, pc = "verify", PaysRecipient
  PROVE  PaysItsFee
<1>1. fee = NewFee /\ sum >= amount + fee
  BY DEF SendInv
<1>2. tx.outputs = OutputCount(sum, fee) /\ tx.paid = amount /\ amount > 0
  BY DEF SendInv, PaysRecipient
<1>3. tx.change = IF ChangeKept THEN sum - amount - fee ELSE 0
  BY DEF SendInv
<1>4. FeeForRate(Cardinality(selected), tx.outputs) = fee
  BY <1>1, <1>2 DEF NewFee
<1>5. sum \in Int /\ amount \in Int /\ fee \in Nat
  BY DEF TypeOK
<1>6. QED
  BY <1>1, <1>2, <1>3, <1>4, <1>5 DEF PaysItsFee, ChangeKept

LEMMA NewFeeUnchanged ==
  ASSUME UNCHANGED <<call, selected, sum, fee>>
  PROVE  NewFee' = NewFee /\ OutputCount(sum, fee)' = OutputCount(sum, fee)
BY DEF NewFee, FeeForRate, EstimateTxSize, VeriumFeeForSize, OutputCount, ChangeWillBeIncluded, call

\* A step to any place but signing, verifying and sent leaves nothing to show.
LEMMA Elsewhere ==
  ASSUME pc' \notin {"sign", "verify", "sent"}
  PROVE  SendInv'
BY DEF SendInv, SentPaysFee

LEMMA StepPays ==
  ASSUME TypeOK, SendInv, [Next]_vars
  PROVE  SendInv'
<1>1. CASE RefuseAmount \/ SelectOne \/ Accumulate \/ RunOut
  <2>1. pc' \in {"invalid", "check", "select", "insufficient"}
    BY <1>1 DEF RefuseAmount, SelectOne, Accumulate, RunOut, Fails
  <2>2. QED
    BY <2>1, Elsewhere
<1>2. CASE PlanSettles \/ PlanAgain \/ PlanGivesUp
  <2>1. pc' \in {"prepare", "select", "plan not converged"}
    BY <1>2 DEF PlanSettles, PlanAgain, PlanGivesUp, Fails
  <2>2. QED
    BY <2>1, Elsewhere
<1>3. CASE Prepare \/ PrepareFails \/ StartReplan
  <2>1. pc' \in {"prepare", "not prepared", "replan"}
    BY <1>3 DEF Prepare, PrepareFails, StartReplan, Fails
  <2>2. QED
    BY <2>1, Elsewhere
<1>4. CASE ReplanRefuses \/ ReplanAgain \/ ReplanGivesUp
  <2>1. pc' \in {"short after refresh", "replan", "replan not converged"}
    BY <1>4 DEF ReplanRefuses, ReplanAgain, ReplanGivesUp, Fails
  <2>2. QED
    BY <2>1, Elsewhere
<1>5. CASE SignFails \/ VerifyFails
  <2>1. pc' \in {"unsigned", "unverified"}
    BY <1>5 DEF SignFails, VerifyFails, Fails
  <2>2. QED
    BY <2>1, Elsewhere
<1>6. CASE ReplanSettles
  <2>1. NewFee' = NewFee
    BY <1>6, NewFeeUnchanged DEF ReplanSettles
  <2>2. pc' = "sign" /\ fee' = NewFee' /\ sum' >= amount' + fee'
    BY <1>6, <2>1 DEF ReplanSettles, call
  <2>3. QED
    BY <2>2 DEF SendInv, SentPaysFee
<1>7. CASE Sign
  <2>1. NewFee' = NewFee /\ OutputCount(sum, fee)' = OutputCount(sum, fee)
    BY <1>7, NewFeeUnchanged DEF Sign
  <2>2. pc' = "verify" /\ fee' = NewFee' /\ sum' >= amount' + fee'
    BY <1>7, <2>1 DEF Sign, SendInv, call
  <2>3. ChangeKept' = ChangeKept /\ Paid' = Paid /\ UNCHANGED <<sum, amount, fee>>
    BY <1>7 DEF Sign, ChangeKept, Paid, call
  <2>4. /\ tx'.outputs = OutputCount(sum, fee)
        /\ tx'.paid = Paid
        /\ tx'.change = IF ChangeKept THEN sum - amount - fee ELSE 0
    BY <1>7 DEF Sign, OutputCount, ChangeWillBeIncluded, ChangeKept
  <2>5. QED
    BY <2>1, <2>2, <2>3, <2>4 DEF SendInv, SentPaysFee
<1>8. CASE Broadcast
  <2>1. PaysItsFee
    BY <1>8, SignedPays DEF Broadcast
  <2>2. UNCHANGED <<call, selected, sum, tx>> /\ pc' \in {"sent", "not broadcast"}
    BY <1>8 DEF Broadcast, Fails
  <2>3. PaysItsFee'
    BY <2>1, <2>2 DEF PaysItsFee, FeeForRate, EstimateTxSize, VeriumFeeForSize, call
  <2>4. QED
    BY <2>2, <2>3 DEF SendInv, SentPaysFee
<1>9. CASE UNCHANGED vars
  <2>1. UNCHANGED <<call, pc, selected, sum, fee, tx, amount>>
    BY <1>9 DEF vars, call
  <2>2. NewFee' = NewFee /\ OutputCount(sum, fee)' = OutputCount(sum, fee)
    BY <2>1, NewFeeUnchanged
  <2>3. ChangeKept' = ChangeKept /\ Paid' = Paid
    BY <2>1 DEF ChangeKept, Paid
  <2>4. PaysItsFee' = PaysItsFee
    BY <2>1 DEF PaysItsFee, FeeForRate, EstimateTxSize, VeriumFeeForSize, call
  <2>5. QED
    BY <2>1, <2>2, <2>3, <2>4 DEF SendInv, SentPaysFee
<1>10. QED
  BY <1>1, <1>2, <1>3, <1>4, <1>5, <1>6, <1>7, <1>8, <1>9 DEF Next

\* The fee settled on after preparing is the fee of the transaction signed (utxo_selector.rs
\* against signer.rs): the inductive invariant.
THEOREM SendInvHolds == Spec => []SendInv
<1>1. Init => SendInv
  BY DEF Init, SendInv, SentPaysFee
<1>2. TypeOK /\ SendInv /\ [Next]_vars => SendInv'
  BY StepPays
<1>3. QED
  BY <1>1, <1>2, TypeCorrect, PTL DEF Spec

\* What send_payment broadcasts pays the recipient the amount asked, and the fee that the
\* size of the signed transaction calls for, with no more than dust on top of it.
THEOREM SentPaysFeeHolds == Spec => []SentPaysFee
<1>1. SendInv => SentPaysFee
  BY DEF SendInv
<1>2. QED
  BY <1>1, SendInvHolds, PTL
-----------------------------------------------------------------------------
(***************************************************************************)
(* Preparing changes nothing about the fee when the parents confirm what   *)
(* the plan reckoned with. The second loop starts from the fee with a      *)
(* change output; a plan with one is settled at once, and a plan without   *)
(* is reached in one turn, since a fee that is higher leaves no more for   *)
(* change.                                                                 *)
(***************************************************************************)

LEMMA TimesMono ==
  ASSUME NEW k \in Nat, NEW a \in Nat, NEW b \in Nat, a <= b
  PROVE  k * a <= k * b
<1>1. PICK d \in Nat : b = a + d
  <2>1. b - a \in Nat /\ b = a + (b - a)
    OBVIOUS
  <2>2. QED
    BY <2>1
<1>2. k * d \in Nat
  OBVIOUS
<1>3. k * b = k * a + k * d
  BY <1>1
<1>4. k * a \in Nat
  OBVIOUS
<1>5. QED
  BY <1>2, <1>3, <1>4

\* Of two sizes the larger has no fewer whole units.
LEMMA UnitsMono ==
  ASSUME NEW a \in Nat, NEW b \in Nat, a <= b
  PROVE  /\ a \div SizeUnit \in Nat /\ b \div SizeUnit \in Nat
         /\ a \div SizeUnit <= b \div SizeUnit
<1> DEFINE p == a \div SizeUnit
           q == b \div SizeUnit
<1>1. p \in Nat /\ q \in Nat
  OBVIOUS
<1>2. SizeUnit * p <= a /\ b < SizeUnit * (q + 1)
  OBVIOUS
<1> HIDE DEF p, q
<1>3. ASSUME q < p PROVE FALSE
  <2>1. q + 1 \in Nat /\ q + 1 <= p
    BY <1>1, <1>3
  <2>2. SizeUnit * (q + 1) <= SizeUnit * p
    BY <1>1, <2>1, TimesMono
  <2>3. SizeUnit * (q + 1) \in Nat /\ SizeUnit * p \in Nat
    BY <1>1
  <2>4. QED
    BY <1>2, <2>2, <2>3
<1>4. p <= q
  BY <1>1, <1>3
<1>5. QED
  BY <1>1, <1>4 DEF p, q

\* The whole units of a transaction's size: the steps of its fee.
Steps(n, o) == EstimateTxSize(n, o) \div SizeUnit

\* A transaction of more steps costs no less.
LEMMA FeeOfSteps ==
  ASSUME rate \in Nat, NEW n \in Nat, NEW m \in Nat, NEW o \in Nat, NEW p \in Nat,
         Steps(n, o) \in Nat, Steps(m, p) \in Nat, Steps(n, o) <= Steps(m, p)
  PROVE  FeeForRate(n, o) <= FeeForRate(m, p)
<1>1. PICK c : c = Steps(n, o)
  OBVIOUS
<1>2. PICK d : d = Steps(m, p)
  OBVIOUS
<1>3. c \in Nat /\ d \in Nat /\ c <= d
  BY <1>1, <1>2
<1> DEFINE ua == rate * c + rate
           ub == rate * d + rate
           la == MinRate * c + MinRate
           lb == MinRate * d + MinRate
<1>4. ua \in Nat /\ ub \in Nat /\ la \in Nat /\ lb \in Nat /\ ua <= ub /\ la <= lb
  <2>1. ASSUME NEW r \in Nat
        PROVE  r * c + r \in Nat /\ r * d + r \in Nat /\ r * c + r <= r * d + r
    <3>1. r * c <= r * d /\ r * c \in Nat /\ r * d \in Nat
      BY <1>3, TimesMono
    <3>2. QED
      BY <3>1
  <2>2. QED
    BY <2>1
<1>5. /\ FeeForRate(n, o) = IF ua >= la THEN ua ELSE la
      /\ FeeForRate(m, p) = IF ub >= lb THEN ub ELSE lb
  BY <1>1, <1>2 DEF FeeForRate, VeriumFeeForSize, Steps
<1> HIDE DEF ua, ub, la, lb
<1>6. QED
  BY <1>4, <1>5

\* A transaction that is larger has no fewer steps, and costs no less.
LEMMA FeeOfLarger ==
  ASSUME rate \in Nat, NEW n \in Nat, NEW m \in Nat, NEW o \in Nat, NEW p \in Nat,
         EstimateTxSize(n, o) \in Nat, EstimateTxSize(m, p) \in Nat,
         EstimateTxSize(n, o) <= EstimateTxSize(m, p)
  PROVE  /\ Steps(n, o) \in Nat /\ Steps(m, p) \in Nat /\ Steps(n, o) <= Steps(m, p)
         /\ FeeForRate(n, o) <= FeeForRate(m, p)
<1>1. Steps(n, o) \in Nat /\ Steps(m, p) \in Nat /\ Steps(n, o) <= Steps(m, p)
  BY UnitsMono DEF Steps
<1>2. QED
  BY <1>1, FeeOfSteps

\* A transaction with more inputs or outputs has no fewer steps, and costs no less.
LEMMA FeeGrows ==
  ASSUME rate \in Nat, NEW n \in Nat, NEW m \in Nat, n <= m,
         NEW o \in Nat, NEW p \in Nat, o <= p
  PROVE  /\ Steps(n, o) \in Nat /\ Steps(m, p) \in Nat /\ Steps(n, o) <= Steps(m, p)
         /\ FeeForRate(n, o) <= FeeForRate(m, p)
<1>1. InputSize * n \in Nat /\ InputSize * m \in Nat /\ InputSize * n <= InputSize * m
  BY TimesMono
<1>2. OutputSize * o \in Nat /\ OutputSize * p \in Nat /\ OutputSize * o <= OutputSize * p
  BY TimesMono
<1>3. /\ EstimateTxSize(n, o) = BaseSize + InputSize * n + OutputSize * o
      /\ EstimateTxSize(m, p) = BaseSize + InputSize * m + OutputSize * p
  BY DEF EstimateTxSize
<1>4. /\ EstimateTxSize(n, o) \in Nat /\ EstimateTxSize(m, p) \in Nat
      /\ EstimateTxSize(n, o) <= EstimateTxSize(m, p)
  BY <1>1, <1>2, <1>3
<1>5. QED
  BY <1>4, FeeOfLarger

\* A transaction with a change output costs no less than without.
LEMMA FeeMono ==
  ASSUME rate \in Nat, NEW n \in Nat
  PROVE  FeeForRate(n, 1) <= FeeForRate(n, 2)
BY FeeGrows

\* A fee that is higher is a step higher at least.
LEMMA HigherFee ==
  ASSUME rate \in Nat, NEW n \in Nat, NEW m \in Nat, NEW o \in Nat, NEW p \in Nat,
         FeeForRate(n, o) < FeeForRate(m, p)
  PROVE  Steps(n, o) \in Nat /\ Steps(m, p) \in Nat /\ Steps(n, o) + 1 <= Steps(m, p)
<1>1. FeeForRate(n, o) \in Nat /\ FeeForRate(m, p) \in Nat
  BY FeeNat
<1>2. Steps(n, o) \in Nat /\ Steps(m, p) \in Nat
  BY FeeGrows
<1>3. ~(Steps(m, p) <= Steps(n, o))
  BY <1>1, <1>2, FeeOfSteps
<1>4. QED
  BY <1>2, <1>3

\* The rounds are more than one turn (utxo_selector.rs: 8).
RoundsAssumption == MaxRounds >= 2

\* The plan that was taken: its fee is the fee of its own outputs, and it was paid for.
PlanHolds ==
  /\ planned.fee = FeeForRate(Cardinality(selected), OutputCount(planned.sum, planned.fee))
  /\ planned.sum >= amount + planned.fee

\* Where the second loop is when the parents have confirmed the plan.
OnTheWay ==
  \/ /\ rounds <= 1
     /\ fee = planned.fee
  \/ /\ rounds = 0
     /\ fee = FirstFee
     /\ OutputCount(planned.sum, planned.fee) = 1

AgreeInv ==
  /\ pc \in {"prepare", "replan"} => PlanHolds
  /\ pc = "replan" /\ sum = planned.sum => OnTheWay
  /\ ReplanAgrees
\* On the way, the next turn brings the fee that was planned.
LEMMA NextIsPlanned ==
  ASSUME TypeOK, PlanHolds, OnTheWay, sum = planned.sum
  PROVE  NewFee = planned.fee
<1> DEFINE n == Cardinality(selected)
<1>1. n \in Nat /\ rate \in Nat
  BY SelectedCount DEF TypeOK
<1>2. CASE fee = planned.fee
  BY <1>2 DEF NewFee, PlanHolds
<1>3. CASE fee = FirstFee /\ OutputCount(planned.sum, planned.fee) = 1
  <2>1. planned.fee = FeeForRate(n, 1) /\ fee = FeeForRate(n, 2)
    BY <1>3 DEF PlanHolds, FirstFee
  <2>2. planned.fee <= fee /\ planned.fee \in Nat /\ fee \in Nat /\ sum \in Int /\ amount \in Int
    BY <1>1, <2>1, FeeMono DEF TypeOK
  <2>3. ~(sum - amount - planned.fee > Dust)
    BY <1>3 DEF OutputCount, ChangeWillBeIncluded
  <2>4. OutputCount(sum, fee) = 1
    BY <2>2, <2>3 DEF OutputCount, ChangeWillBeIncluded
  <2>5. QED
    BY <2>1, <2>4 DEF NewFee
<1>4. QED
  BY <1>2, <1>3 DEF OnTheWay

LEMMA PlanHoldsOn ==
  ASSUME PlanHolds, UNCHANGED <<call, selected, planned>>
  PROVE  PlanHolds'
BY DEF PlanHolds, FeeForRate, EstimateTxSize, VeriumFeeForSize, OutputCount,
       ChangeWillBeIncluded, call

\* A step to a place before the plan, or behind the second loop, leaves nothing to show.
LEMMA NotReplanned ==
  ASSUME pc' \notin {"prepare", "replan", "sign", "short after refresh", "replan not converged"}
  PROVE  AgreeInv'
BY DEF AgreeInv, ReplanAgrees

LEMMA StepAgrees ==
  ASSUME RoundsAssumption, TypeOK, AgreeInv, [Next]_vars
  PROVE  AgreeInv'
<1>1. CASE RefuseAmount \/ SelectOne \/ Accumulate \/ RunOut \/ PlanAgain \/ PlanGivesUp
  <2>1. pc' \in {"invalid", "check", "select", "insufficient", "plan not converged"}
    BY <1>1 DEF RefuseAmount, SelectOne, Accumulate, RunOut, PlanAgain, PlanGivesUp, Fails
  <2>2. QED
    BY <2>1, NotReplanned
<1>2. CASE PrepareFails \/ Sign \/ SignFails \/ Broadcast \/ VerifyFails
  <2>1. pc' \in {"not prepared", "verify", "unsigned", "sent", "not broadcast", "unverified"}
    BY <1>2 DEF PrepareFails, Sign, SignFails, Broadcast, VerifyFails, Fails
  <2>2. QED
    BY <2>1, NotReplanned
<1>3. CASE PlanSettles
  <2>1. /\ pc' = "prepare" /\ planned' = [fee |-> fee, sum |-> sum]
        /\ UNCHANGED <<call, selected, rate, amount>>
        /\ fee = FeeForRate(Cardinality(selected), OutputCount(sum, fee))
        /\ sum >= amount + fee
    BY <1>3 DEF PlanSettles, Settled, NewFee, call
  <2>2. planned'.fee = fee /\ planned'.sum = sum
    BY <2>1
  <2>3. OutputCount(planned.sum, planned.fee)' = OutputCount(sum, fee)
    BY <2>1, <2>2 DEF OutputCount, ChangeWillBeIncluded
  <2>4. FeeForRate(Cardinality(selected), OutputCount(planned.sum, planned.fee))'
          = FeeForRate(Cardinality(selected), OutputCount(sum, fee))
    BY <2>1, <2>3 DEF FeeForRate, EstimateTxSize, VeriumFeeForSize
  <2>5. PlanHolds'
    BY <2>1, <2>2, <2>4 DEF PlanHolds
  <2>6. QED
    BY <2>1, <2>5 DEF AgreeInv, ReplanAgrees
<1>4. CASE Prepare
  <2>1. pc = "prepare" /\ pc' = "prepare" /\ UNCHANGED <<call, selected, planned>>
    BY <1>4 DEF Prepare
  <2>2. PlanHolds'
    BY <2>1, PlanHoldsOn DEF AgreeInv
  <2>3. QED
    BY <2>1, <2>2 DEF AgreeInv, ReplanAgrees
<1>5. CASE StartReplan
  <2>1. /\ pc = "prepare" /\ pc' = "replan" /\ fee' = FirstFee /\ rounds' = 0
        /\ UNCHANGED <<call, selected, planned, sum>>
    BY <1>5 DEF StartReplan
  <2>2. PlanHolds /\ PlanHolds'
    BY <2>1, PlanHoldsOn DEF AgreeInv
  <2>3. FirstFee' = FirstFee
        /\ OutputCount(planned.sum, planned.fee)' = OutputCount(planned.sum, planned.fee)
    BY <2>1 DEF FirstFee, FeeForRate, EstimateTxSize, VeriumFeeForSize, OutputCount,
                ChangeWillBeIncluded, call
  <2>4. OutputCount(planned.sum, planned.fee) = 2 => planned.fee = FirstFee
    BY <2>2 DEF PlanHolds, FirstFee
  <2>5. OnTheWay'
    BY <2>1, <2>3, <2>4 DEF OnTheWay, OutputCount
  <2>6. QED
    BY <2>1, <2>2, <2>5 DEF AgreeInv, ReplanAgrees
<1>6. CASE ReplanSettles \/ ReplanRefuses \/ ReplanAgain \/ ReplanGivesUp
  <2>1. pc = "replan" /\ PlanHolds /\ UNCHANGED <<call, selected, planned, sum>>
    BY <1>6 DEF ReplanSettles, ReplanRefuses, ReplanAgain, ReplanGivesUp, Fails, AgreeInv
  <2>2. sum = planned.sum => OnTheWay /\ NewFee = planned.fee
    BY <2>1, NextIsPlanned DEF AgreeInv
  <2>3. PlanHolds'
    BY <2>1, PlanHoldsOn
  <2>4. (sum' = planned'.sum) <=> (sum = planned.sum)
    BY <2>1
  <2>5. CASE ReplanSettles
    <3>1. pc' = "sign" /\ fee' = NewFee
      BY <2>5 DEF ReplanSettles
    <3>2. QED
      BY <2>1, <2>2, <2>4, <3>1 DEF AgreeInv, ReplanAgrees
  <2>6. CASE ReplanRefuses
    <3>1. pc' = "short after refresh" /\ sum < amount + NewFee
      BY <2>6 DEF ReplanRefuses, Fails
    <3>2. ASSUME sum = planned.sum PROVE FALSE
      <4>1. sum \in Int /\ amount \in Int /\ planned.fee \in Int
        BY DEF TypeOK
      <4>2. NewFee = planned.fee /\ sum >= amount + planned.fee
        BY <2>1, <2>2, <3>2 DEF PlanHolds
      <4>3. sum < amount + planned.fee
        BY <3>1, <4>2
      <4>4. QED
        BY <4>1, <4>2, <4>3
    <3>3. QED
      BY <2>4, <3>1, <3>2 DEF AgreeInv, ReplanAgrees
  <2>7. CASE ReplanAgain
    <3>1. pc' = "replan" /\ fee' = NewFee /\ rounds' = rounds + 1 /\ NewFee # fee
      BY <2>1, <2>7 DEF ReplanAgain, NextRound
    <3>2. sum' = planned'.sum => OnTheWay'
      <4> SUFFICES ASSUME sum' = planned'.sum PROVE OnTheWay'
        OBVIOUS
      <4>1. OnTheWay /\ NewFee = planned.fee
        BY <2>2, <2>4
      <4>2. rounds = 0
        BY <3>1, <4>1 DEF OnTheWay
      <4>3. QED
        BY <2>1, <3>1, <4>1, <4>2 DEF OnTheWay
    <3>3. QED
      BY <2>3, <3>1, <3>2 DEF AgreeInv, ReplanAgrees
  <2>8. CASE ReplanGivesUp
    <3>1. pc' = "replan not converged" /\ rounds = MaxRounds
      BY <2>8 DEF ReplanGivesUp, Fails
    <3>2. ~(rounds <= 1) /\ rounds # 0
      <4>1. MaxRounds \in Nat
        OBVIOUS
      <4>2. MaxRounds >= 2
        BY DEF RoundsAssumption
      <4>3. rounds \in Nat /\ rounds >= 2
        BY <3>1, <4>1, <4>2
      <4>4. QED
        BY <4>3
    <3>3. ~OnTheWay
      BY <3>2 DEF OnTheWay
    <3>4. QED
      BY <2>2, <2>4, <3>1, <3>3 DEF AgreeInv, ReplanAgrees
  <2>9. QED
    BY <1>6, <2>5, <2>6, <2>7, <2>8
<1>7. CASE UNCHANGED vars
  <2>1. UNCHANGED <<call, pc, selected, sum, fee, rounds, planned>>
    BY <1>7 DEF vars
  <2>2. PlanHolds => PlanHolds'
    BY <2>1, PlanHoldsOn
  <2>3. FirstFee' = FirstFee
        /\ OutputCount(planned.sum, planned.fee)' = OutputCount(planned.sum, planned.fee)
    BY <2>1 DEF FirstFee, FeeForRate, EstimateTxSize, VeriumFeeForSize, OutputCount,
                ChangeWillBeIncluded, call
  <2>4. OnTheWay => OnTheWay'
    BY <2>1, <2>3 DEF OnTheWay
  <2>5. QED
    BY <2>1, <2>2, <2>4 DEF AgreeInv, ReplanAgrees
<1>8. QED
  BY <1>1, <1>2, <1>3, <1>4, <1>5, <1>6, <1>7 DEF Next

\* When the parents confirm what the plan reckoned with, the second loop (utxo_selector.rs,
\* replan_fee_for_selected) comes to the fee that was planned and refuses nothing, for all
\* coins, amounts, rates and sizes, as long as a loop has two rounds; the code has eight.
THEOREM ReplanAgreesHolds == ASSUME RoundsAssumption PROVE Spec => []ReplanAgrees
<1>1. Init => AgreeInv
  BY DEF Init, AgreeInv, ReplanAgrees
<1>2. TypeOK /\ AgreeInv /\ [Next]_vars => AgreeInv'
  BY StepAgrees
<1>3. AgreeInv => ReplanAgrees
  BY DEF AgreeInv
<1>4. QED
  BY <1>1, <1>2, <1>3, TypeCorrect, PTL DEF Spec
-----------------------------------------------------------------------------
(***************************************************************************)
(* The second loop sees one selection only, so that it can come to no more *)
(* than two fees: with and without a change output. It gives up where each *)
(* leads to the other.                                                     *)
(***************************************************************************)
One == FeeForRate(Cardinality(selected), 1)
Two == FeeForRate(Cardinality(selected), 2)

\* What a number of turns has shown about the two fees.
LoopInv ==
  pc = "replan" =>
    /\ fee = One \/ fee = Two
    /\ rounds = 0 => fee = Two
    /\ rounds = 1 => fee = One
    /\ rounds > 0 => ~ChangeWillBeIncluded(sum, Two)
    /\ rounds > 1 => ChangeWillBeIncluded(sum, One)

\* What NotConvergedAtBoundary says of the second loop.
ReplanStuckAtBoundary == pc = "replan not converged" => Boundary

StuckInv == LoopInv /\ ReplanStuckAtBoundary

LEMMA TwoFeesSame ==
  ASSUME UNCHANGED <<call, selected, sum>>
  PROVE  /\ One' = One /\ Two' = Two /\ FirstFee = Two
         /\ ChangeWillBeIncluded(sum, One)' <=> ChangeWillBeIncluded(sum, One)
         /\ ChangeWillBeIncluded(sum, Two)' <=> ChangeWillBeIncluded(sum, Two)
<1>1. One' = One /\ Two' = Two
  BY DEF One, Two, FeeForRate, EstimateTxSize, VeriumFeeForSize, call
<1>2. FirstFee = Two
  BY DEF FirstFee, Two
<1>3. QED
  BY <1>1, <1>2 DEF ChangeWillBeIncluded, call

LEMMA StepStuck ==
  ASSUME RoundsAssumption, TypeOK, StuckInv, [Next]_vars
  PROVE  StuckInv'
<1>1. CASE pc' \notin {"replan", "replan not converged"}
  BY <1>1 DEF StuckInv, LoopInv, ReplanStuckAtBoundary
<1>2. CASE StartReplan
  <2>1. pc' = "replan" /\ fee' = FirstFee /\ rounds' = 0 /\ UNCHANGED <<call, selected, sum>>
    BY <1>2 DEF StartReplan
  <2>2. fee' = Two'
    BY <2>1, TwoFeesSame
  <2>3. rounds' # 1 /\ ~(rounds' > 0) /\ ~(rounds' > 1)
    BY <2>1
  <2>4. QED
    BY <2>1, <2>2, <2>3 DEF StuckInv, LoopInv, ReplanStuckAtBoundary
<1>3. CASE ReplanAgain
  <2>1. /\ pc = "replan" /\ pc' = "replan" /\ fee' = NewFee /\ NewFee # fee
        /\ rounds' = rounds + 1 /\ UNCHANGED <<call, selected, sum>>
    BY <1>3 DEF ReplanAgain, NextRound
  <2>2. rounds \in Nat /\ rounds' > 0
    <3>1. rounds \in 0 .. MaxRounds /\ MaxRounds \in Nat
      BY DEF TypeOK
    <3>2. QED
      BY <2>1, <3>1
  <2>3. NewFee = IF ChangeWillBeIncluded(sum, fee) THEN Two ELSE One
    BY DEF NewFee, OutputCount, One, Two
  <2>4. LoopInv
    BY DEF StuckInv
  <2>5. CASE rounds = 0
    <3>1. fee' = One /\ ~ChangeWillBeIncluded(sum, Two)
      BY <2>1, <2>3, <2>4, <2>5 DEF LoopInv
    <3>2. QED
      BY <2>1, <2>5, <3>1, TwoFeesSame DEF StuckInv, LoopInv, ReplanStuckAtBoundary
  <2>6. CASE rounds > 0
    <3>1. ~ChangeWillBeIncluded(sum, Two)
      BY <2>1, <2>4, <2>6 DEF LoopInv
    <3>2. ChangeWillBeIncluded(sum, One)
      <4>1. CASE rounds = 1
        BY <2>1, <2>3, <2>4, <4>1 DEF LoopInv
      <4>2. CASE rounds > 1
        BY <2>1, <2>4, <4>2 DEF LoopInv
      <4>3. QED
        BY <2>2, <2>6, <4>1, <4>2
    <3>3. rounds' > 1 /\ rounds' # 0 /\ rounds' # 1
      BY <2>1, <2>2, <2>6
    <3>4. fee' = One' \/ fee' = Two'
      BY <2>1, <2>3, TwoFeesSame
    <3>5. QED
      BY <2>1, <3>1, <3>2, <3>3, <3>4, TwoFeesSame DEF StuckInv, LoopInv, ReplanStuckAtBoundary
  <2>7. QED
    BY <2>2, <2>5, <2>6
<1>4. CASE ReplanGivesUp
  <2>1. /\ pc = "replan" /\ rounds = MaxRounds /\ pc' = "replan not converged"
        /\ UNCHANGED <<call, selected, sum, amount>>
    BY <1>4 DEF ReplanGivesUp, Fails, call
  <2>2. rounds > 1 /\ rounds > 0
    <3>1. MaxRounds \in Nat
      OBVIOUS
    <3>2. MaxRounds >= 2
      BY DEF RoundsAssumption
    <3>3. rounds \in Nat /\ rounds >= 2
      BY <2>1, <3>1, <3>2
    <3>4. QED
      BY <3>3
  <2>3. ChangeWillBeIncluded(sum, One) /\ ~ChangeWillBeIncluded(sum, Two)
    BY <2>1, <2>2 DEF StuckInv, LoopInv
  <2>4. One \in Nat /\ Two \in Nat /\ sum \in Int /\ amount \in Int
    BY FeeNat, SelectedCount DEF One, Two, TypeOK
  <2>5. sum - amount > One + Dust /\ sum - amount <= Two + Dust
    BY <2>3, <2>4 DEF ChangeWillBeIncluded
  <2>6. sum' - amount' > One' + Dust /\ sum' - amount' <= Two' + Dust
    BY <2>1, <2>5, TwoFeesSame
  <2>7. QED
    BY <2>1, <2>6 DEF StuckInv, LoopInv, ReplanStuckAtBoundary, One, Two, Boundary
<1>5. CASE UNCHANGED vars
  <2>1. UNCHANGED <<call, amount, pc, selected, sum, fee, rounds>>
    BY <1>5 DEF vars, call
  <2>2. LoopInv'
    BY <2>1, TwoFeesSame DEF StuckInv, LoopInv
  <2>3. ReplanStuckAtBoundary'
    BY <2>1, TwoFeesSame DEF StuckInv, ReplanStuckAtBoundary, One, Two, Boundary
  <2>4. QED
    BY <2>2, <2>3 DEF StuckInv
<1>6. CASE ~(StartReplan \/ ReplanAgain \/ ReplanGivesUp \/ UNCHANGED vars)
  <2>1. pc' \notin {"replan", "replan not converged"}
    BY <1>6
       DEF Next, RefuseAmount, SelectOne, Accumulate, RunOut, PlanSettles, PlanAgain, PlanGivesUp,
           Prepare, PrepareFails, ReplanSettles, ReplanRefuses, Sign, SignFails, Broadcast,
           VerifyFails, Fails
  <2>2. QED
    BY <1>1, <2>1
<1>7. QED
  BY <1>2, <1>3, <1>4, <1>5, <1>6

\* replan_fee_for_selected gives up only where a change output would cost a fee that leaves
\* no change, for all coins, amounts, rates and sizes, and at least two rounds.
THEOREM ReplanStuckHolds == ASSUME RoundsAssumption PROVE Spec => []ReplanStuckAtBoundary
<1>1. Init => StuckInv
  BY DEF Init, StuckInv, LoopInv, ReplanStuckAtBoundary
<1>2. TypeOK /\ StuckInv /\ [Next]_vars => StuckInv'
  BY StepStuck
<1>3. StuckInv => ReplanStuckAtBoundary
  BY DEF StuckInv
<1>4. QED
  BY <1>1, <1>2, <1>3, TypeCorrect, PTL DEF Spec

-----------------------------------------------------------------------------
(***************************************************************************)
(* Induction over the coins. The library states induction for operators,   *)
(* which none of the provers here can instantiate; WFMin, which it rests   *)
(* on, is about sets. From it: the least element of a set of numbers, and  *)
(* two induction principles for sets.                                      *)
(***************************************************************************)

Less == {p \in Nat \X Nat : p[1] < p[2]}

LEMMA LeastNumber ==
  ASSUME NEW T \in SUBSET Nat, T # {}
  PROVE  \E n \in T : \A m \in T : n <= m
<1>1. IsWellFoundedOn(Less, Nat)
  <2>1. OpToRel(<, Nat) = Less
    BY Zenon DEF OpToRel, Less
  <2>2. QED
    BY <2>1, NatLessThanWellFounded
<1>2. PICK n \in T : \A m \in T : <<m, n>> \notin Less
  BY <1>1, WFMin
<1>3. ASSUME NEW m \in T PROVE n <= m
  <2>1. <<m, n>> \in Nat \X Nat /\ m \in Nat /\ n \in Nat
    OBVIOUS
  <2>2. <<m, n>>[1] = m /\ <<m, n>>[2] = n
    OBVIOUS
  <2>3. ~(m < n)
    BY <1>2, <2>1, <2>2, Zenon DEF Less
  <2>4. QED
    BY <2>1, <2>3
<1>4. QED
  BY <1>3

\* A set of numbers with 0, and with each of its numbers the next, has them all.
LEMMA OverNumbers ==
  ASSUME NEW T \in SUBSET Nat, 0 \in T, \A n \in T : n + 1 \in T
  PROVE  T = Nat
<1> SUFFICES ASSUME Nat \ T # {} PROVE FALSE
  OBVIOUS
<1>1. PICK n \in Nat \ T : \A m \in Nat \ T : n <= m
  BY LeastNumber
<1>2. n # 0 /\ n - 1 \in Nat
  OBVIOUS
<1>3. n - 1 \in T
  BY <1>1, <1>2
<1>4. (n - 1) + 1 = n
  BY <1>2
<1>5. QED
  BY <1>3, <1>4

LEMMA CoinsFinite ==
  /\ IsFiniteSet(Coins) /\ Cardinality(Coins) = NumCoins
  /\ \A s \in SUBSET Coins : /\ IsFiniteSet(s) /\ Cardinality(s) \in Nat
                             /\ Cardinality(s) <= NumCoins
                             /\ Cardinality(s) = 0 <=> s = {}
  /\ \A s \in SUBSET Coins : \A c \in s : Cardinality(s \ {c}) = Cardinality(s) - 1
<1>1. IsFiniteSet(Coins) /\ Cardinality(Coins) = NumCoins
  <2>1. 1 \in Int /\ NumCoins \in Int /\ ~(1 > NumCoins) /\ NumCoins - 1 + 1 = NumCoins
    OBVIOUS
  <2>2. /\ IsFiniteSet(1 .. NumCoins)
        /\ Cardinality(1 .. NumCoins) = IF 1 > NumCoins THEN 0 ELSE NumCoins - 1 + 1
    BY <2>1, FS_Interval
  <2>3. QED
    BY <2>1, <2>2 DEF Coins
<1>2. ASSUME NEW s \in SUBSET Coins
      PROVE  /\ IsFiniteSet(s) /\ Cardinality(s) \in Nat
             /\ Cardinality(s) <= NumCoins
             /\ Cardinality(s) = 0 <=> s = {}
  <2>1. IsFiniteSet(s) /\ Cardinality(s) <= NumCoins
    BY <1>1, FS_Subset
  <2>2. QED
    BY <2>1, FS_CardinalityType, FS_EmptySet
<1>3. ASSUME NEW s \in SUBSET Coins, NEW c \in s
      PROVE  Cardinality(s \ {c}) = Cardinality(s) - 1
  BY <1>2, FS_RemoveElement
<1>4. QED
  BY <1>1, <1>2, <1>3

\* A family of sets of coins that has the empty one, and each set that it has but for any
\* one coin of the set, has them all.
LEMMA OverSelections ==
  ASSUME NEW P \in SUBSET (SUBSET Coins), {} \in P,
         \A s \in SUBSET Coins : s # {} /\ (\A c \in s : s \ {c} \in P) => s \in P
  PROVE  P = SUBSET Coins
<1> DEFINE Missing == (SUBSET Coins) \ P
           Sizes == {Cardinality(s) : s \in Missing}
<1> SUFFICES ASSUME Missing # {} PROVE FALSE
  OBVIOUS
<1>1. Sizes \in SUBSET Nat /\ Sizes # {}
  BY CoinsFinite
<1>2. PICK n \in Sizes : \A m \in Sizes : n <= m
  <2> HIDE DEF Sizes
  <2>1. QED
    BY <1>1, LeastNumber
<1>3. PICK s \in Missing : n = Cardinality(s)
  OBVIOUS
<1>4. s \in SUBSET Coins /\ s # {} /\ n \in Nat
  BY <1>1
<1>5. ASSUME NEW c \in s, s \ {c} \notin P PROVE FALSE
  <2>1. s \ {c} \in Missing
    BY <1>4, <1>5
  <2>2. Cardinality(s \ {c}) = n - 1
    BY <1>3, <1>4, CoinsFinite
  <2>3. n <= n - 1
    BY <1>2, <2>1, <2>2
  <2>4. QED
    BY <1>4, <2>3
<1>6. s \in P
  BY <1>4, <1>5
<1>7. QED
  BY <1>3, <1>6

-----------------------------------------------------------------------------
(***************************************************************************)
(* What all coins are worth together: MapThenSumSet takes them one after   *)
(* the other in an order of its own choice, and that order does not count. *)
(***************************************************************************)

OneOf(s) == CHOOSE x \in s : TRUE

\* The sums of all selections, from those of the selections with a coin less.
SumsFrom(v, g) ==
  [s \in SUBSET Coins |-> IF s = {} THEN 0 ELSE v[OneOf(s)] + g[s \ {OneOf(s)}]]

Sums(v) == CHOOSE g : g = SumsFrom(v, g)

LEMMA SumIsSums ==
  ASSUME NEW v
  PROVE  MapThenSumSet(LAMBDA c : v[c], Coins) = Sums(v)[Coins]
BY DEF Sums, SumsFrom, OneOf, MapThenSumSet, MapThenFoldSet

LEMMA OneOfIn ==
  ASSUME NEW s, s # {}
  PROVE  OneOf(s) \in s
BY DEF OneOf

\* Sums that are right for selections of up to n coins, for every n.
LEMMA SumsUpTo ==
  ASSUME NEW v \in [Coins -> Int], NEW n \in Nat
  PROVE  \E g \in [SUBSET Coins -> Int] :
           \A s \in SUBSET Coins : Cardinality(s) <= n => g[s] = SumsFrom(v, g)[s]
<1> DEFINE Right(g, k) ==
             \A s \in SUBSET Coins : Cardinality(s) <= k => g[s] = SumsFrom(v, g)[s]
           T == {k \in Nat : \E g \in [SUBSET Coins -> Int] : Right(g, k)}
<1>1. 0 \in T
  <2>1. [s \in SUBSET Coins |-> 0] \in [SUBSET Coins -> Int]
    OBVIOUS
  <2>2. Right([s \in SUBSET Coins |-> 0], 0)
    BY CoinsFinite DEF SumsFrom
  <2>3. QED
    BY <2>1, <2>2
<1>2. ASSUME NEW k \in T PROVE k + 1 \in T
  <2>1. PICK g \in [SUBSET Coins -> Int] : Right(g, k)
    OBVIOUS
  <2>2. PICK h : h = SumsFrom(v, g)
    OBVIOUS
  <2>3. h \in [SUBSET Coins -> Int]
    <3>1. ASSUME NEW s \in SUBSET Coins, s # {}
          PROVE  v[OneOf(s)] + g[s \ {OneOf(s)}] \in Int
      <4>1. OneOf(s) \in Coins /\ s \ {OneOf(s)} \in SUBSET Coins
        BY <3>1, OneOfIn
      <4>2. v[OneOf(s)] \in Int /\ g[s \ {OneOf(s)}] \in Int
        BY <4>1
      <4>3. QED
        BY <4>2
    <3>2. QED
      BY <2>2, <3>1 DEF SumsFrom
  <2>4. ASSUME NEW s \in SUBSET Coins, Cardinality(s) <= k + 1
        PROVE  h[s] = SumsFrom(v, h)[s]
    <3>1. CASE s = {}
      BY <2>2, <3>1 DEF SumsFrom
    <3>2. CASE s # {}
      <4>1. OneOf(s) \in s
        BY <3>2, OneOfIn
      <4>2. PICK r : r = s \ {OneOf(s)}
        OBVIOUS
      <4>3. r \in SUBSET Coins /\ Cardinality(r) <= k
        <5>1. Cardinality(r) = Cardinality(s) - 1 /\ Cardinality(s) \in Nat
          BY <4>1, <4>2, CoinsFinite
        <5>2. QED
          BY <2>4, <4>2, <5>1
      <4>4. g[r] = SumsFrom(v, g)[r]
        BY <2>1, <4>3
      <4>5. g[r] = h[r]
        BY <2>2, <4>4
      <4>6. h[s] = v[OneOf(s)] + g[r]
        BY <2>2, <3>2, <4>2 DEF SumsFrom
      <4>7. SumsFrom(v, h)[s] = v[OneOf(s)] + h[r]
        BY <3>2, <4>2 DEF SumsFrom
      <4>8. QED
        BY <4>5, <4>6, <4>7
    <3>3. QED
      BY <3>1, <3>2
  <2>5. Right(h, k + 1)
    BY <2>4
  <2>6. QED
    BY <2>3, <2>5
<1>3. T = Nat
  <2>1. T \in SUBSET Nat
    OBVIOUS
  <2> HIDE DEF T
  <2>2. QED
    BY <1>1, <1>2, <2>1, OverNumbers
<1>4. n \in T
  BY <1>3
<1>5. QED
  BY <1>4

\* What Sums computes: nothing for no coin, and for a selection what the coin taken first
\* is worth and the sum of the others.
LEMMA SumsAre ==
  ASSUME NEW v \in [Coins -> Int]
  PROVE  /\ Sums(v)[{}] = 0
         /\ \A s \in SUBSET Coins :
              /\ Sums(v)[s] \in Int
              /\ s # {} => Sums(v)[s] = v[OneOf(s)] + Sums(v)[s \ {OneOf(s)}]
<1>1. PICK g \in [SUBSET Coins -> Int] :
        \A s \in SUBSET Coins : Cardinality(s) <= NumCoins => g[s] = SumsFrom(v, g)[s]
  BY SumsUpTo
<1>2. g = SumsFrom(v, g)
  <2>1. \A s \in SUBSET Coins : g[s] = SumsFrom(v, g)[s]
    BY <1>1, CoinsFinite
  <2>2. g = [s \in SUBSET Coins |-> g[s]]
    OBVIOUS
  <2>3. SumsFrom(v, g) = [s \in SUBSET Coins |-> SumsFrom(v, g)[s]]
    BY DEF SumsFrom
  <2>4. QED
    BY <2>1, <2>2, <2>3
<1>3. Sums(v) = SumsFrom(v, Sums(v))
  BY <1>2 DEF Sums
<1>4. PICK f : f = Sums(v)
  OBVIOUS
<1>5. /\ f[{}] = 0
      /\ \A s \in SUBSET Coins : s # {} => f[s] = v[OneOf(s)] + f[s \ {OneOf(s)}]
  <2>1. f = SumsFrom(v, f)
    BY <1>3, <1>4
  <2>2. /\ SumsFrom(v, f)[{}] = 0
        /\ \A s \in SUBSET Coins :
             s # {} => SumsFrom(v, f)[s] = v[OneOf(s)] + f[s \ {OneOf(s)}]
    BY DEF SumsFrom
  <2>3. QED
    BY <2>1, <2>2
<1> DEFINE P == {s \in SUBSET Coins : f[s] \in Int}
<1>6. ASSUME NEW s \in SUBSET Coins, s # {}, \A c \in s : s \ {c} \in P
      PROVE  s \in P
  <2>1. OneOf(s) \in s
    BY <1>6, OneOfIn
  <2>2. s \ {OneOf(s)} \in P /\ OneOf(s) \in Coins
    BY <1>6, <2>1
  <2>3. f[s \ {OneOf(s)}] \in Int /\ v[OneOf(s)] \in Int
    BY <2>2
  <2>4. f[s] = v[OneOf(s)] + f[s \ {OneOf(s)}]
    BY <1>5, <1>6
  <2>5. f[s] \in Int
    BY <2>3, <2>4
  <2>6. QED
    BY <1>6, <2>5
<1>7. P = SUBSET Coins
  <2>1. P \in SUBSET (SUBSET Coins) /\ {} \in P
    BY <1>5
  <2> HIDE DEF P
  <2>2. \A s \in SUBSET Coins : s # {} /\ (\A c \in s : s \ {c} \in P) => s \in P
    BY <1>6
  <2>3. QED
    BY <2>1, <2>2, OverSelections
<1>8. QED
  BY <1>4, <1>5, <1>7

\* Any coin of a selection can be taken first.
LEMMA SumsSplit ==
  ASSUME NEW v \in [Coins -> Int], NEW s \in SUBSET Coins, NEW c \in s
  PROVE  Sums(v)[s] = v[c] + Sums(v)[s \ {c}]
<1>1. PICK f : f = Sums(v)
  OBVIOUS
<1>2. \A t \in SUBSET Coins : /\ f[t] \in Int
                              /\ t # {} => f[t] = v[OneOf(t)] + f[t \ {OneOf(t)}]
  BY <1>1, SumsAre
<1> DEFINE P == {t \in SUBSET Coins : \A d \in t : f[t] = v[d] + f[t \ {d}]}
<1>3. ASSUME NEW t \in SUBSET Coins, t # {}, \A d \in t : t \ {d} \in P
      PROVE  t \in P
  <2> SUFFICES ASSUME NEW d \in t PROVE f[t] = v[d] + f[t \ {d}]
    OBVIOUS
  <2>1. PICK e : e = OneOf(t)
    OBVIOUS
  <2>2. e \in t /\ f[t] = v[e] + f[t \ {e}]
    BY <1>2, <1>3, <2>1, OneOfIn
  <2>3. CASE d = e
    BY <2>2, <2>3
  <2>4. CASE d # e
    <3>1. f[t \ {e}] = v[d] + f[(t \ {e}) \ {d}]
      BY <1>3, <2>2, <2>4
    <3>2. f[t \ {d}] = v[e] + f[(t \ {d}) \ {e}]
      BY <1>3, <2>2, <2>4
    <3>3. (t \ {e}) \ {d} = (t \ {d}) \ {e}
      OBVIOUS
    <3>4. PICK r : r = (t \ {d}) \ {e}
      OBVIOUS
    <3>5. v[d] \in Int /\ v[e] \in Int /\ f[r] \in Int
      BY <1>2, <2>2, <3>4
    <3>6. f[t] = v[e] + (v[d] + f[r]) /\ f[t \ {d}] = v[e] + f[r]
      BY <2>2, <3>1, <3>2, <3>3, <3>4
    <3>7. QED
      BY <3>5, <3>6
  <2>5. QED
    BY <2>3, <2>4
<1>4. P = SUBSET Coins
  <2>1. P \in SUBSET (SUBSET Coins) /\ {} \in P
    OBVIOUS
  <2> HIDE DEF P
  <2>2. \A t \in SUBSET Coins : t # {} /\ (\A d \in t : t \ {d} \in P) => t \in P
    BY <1>3
  <2>3. QED
    BY <2>1, <2>2, OverSelections
<1>5. QED
  BY <1>1, <1>4

\* A coin more adds its value.
LEMMA SumsAdd ==
  ASSUME NEW v \in [Coins -> Int], NEW s \in SUBSET Coins, NEW c \in Coins \ s
  PROVE  Sums(v)[s \cup {c}] = Sums(v)[s] + v[c]
<1>1. (s \cup {c}) \ {c} = s /\ s \cup {c} \in SUBSET Coins /\ c \in s \cup {c}
  OBVIOUS
<1>2. Sums(v)[s \cup {c}] = v[c] + Sums(v)[s]
  BY <1>1, SumsSplit
<1>3. v[c] \in Int /\ Sums(v)[s] \in Int
  BY SumsAre
<1>4. QED
  BY <1>2, <1>3

-----------------------------------------------------------------------------
(* A refusal for want of funds. While a round selects, what is selected is   *)
(* not enough, and its sum is that of the coins; the fee is of a transaction *)
(* with no more inputs than there are coins.                                 *)

MostFee == FeeForRate(NumCoins, 2)

SelectInv ==
  pc = "select" =>
    /\ sum = Sums(values)[selected]
    /\ selected # {} => sum < Needed
    /\ fee <= MostFee

RefusalReal == pc = "insufficient" => Sums(values)[Coins] < amount + MostFee

RefusalInv == SelectInv /\ RefusalReal

LEMMA MostFeeNat == TypeOK => MostFee \in Nat
BY FeeNat DEF TypeOK, MostFee

LEMMA NewFeeAtMost == TypeOK => NewFee <= MostFee
<1> SUFFICES ASSUME TypeOK PROVE NewFee <= MostFee
  OBVIOUS
<1>1. selected \in SUBSET Coins /\ rate \in Nat
  BY DEF TypeOK
<1>2. Cardinality(selected) \in Nat /\ Cardinality(selected) <= NumCoins
  BY <1>1, CoinsFinite
<1>3. OutputCount(sum, fee) \in Nat /\ OutputCount(sum, fee) <= 2
  BY DEF OutputCount
<1>4. QED
  BY <1>1, <1>2, <1>3, FeeGrows DEF NewFee, MostFee

LEMMA InitRefusal == Init => TypeOK /\ RefusalInv
<1> SUFFICES ASSUME Init PROVE TypeOK /\ RefusalInv
  OBVIOUS
<1>1. TypeOK
  BY InitTyped
<1>2. values \in [Coins -> Int]
  BY <1>1, ValueInt DEF TypeOK
<1>3. sum = Sums(values)[selected]
  BY <1>2, SumsAre DEF Init
<1>4. fee <= MostFee
  BY <1>1, FeeGrows DEF Init, TypeOK, MostFee
<1>5. pc = "select" /\ selected = {}
  BY DEF Init
<1>6. QED
  BY <1>1, <1>3, <1>4, <1>5 DEF RefusalInv, SelectInv, RefusalReal

LEMMA MostFeeSame == UNCHANGED call => MostFee' = MostFee
BY DEF MostFee, FeeForRate, EstimateTxSize, VeriumFeeForSize, call

LEMMA StepRefusal ==
  ASSUME TypeOK, RefusalInv, [Next]_vars
  PROVE  RefusalInv'
<1>0. values \in [Coins -> Int] /\ selected \in SUBSET Coins /\ rate \in Nat
      /\ amount \in Int /\ fee \in Nat /\ sum \in Int
  BY ValueInt DEF TypeOK
<1>1. CASE pc' \notin {"select", "insufficient"}
  BY <1>1 DEF RefusalInv, SelectInv, RefusalReal
<1>2. CASE RunOut
  <2>1. /\ pc = "select" /\ selected = Coins /\ pc' = "insufficient"
        /\ UNCHANGED <<values, call>>
    BY <1>2 DEF RunOut, Fails
  <2>2. Coins # {}
    BY DEF Coins
  <2>3. sum = Sums(values)[Coins] /\ sum < Needed /\ fee <= MostFee
    BY <2>1, <2>2 DEF RefusalInv, SelectInv
  <2>4. MostFee \in Nat /\ MostFee' = MostFee
    BY <2>1, MostFeeNat, MostFeeSame
  <2>5. Sums(values)[Coins] < amount + MostFee
    BY <1>0, <2>3, <2>4 DEF Needed
  <2>6. Sums(values')[Coins] < amount' + MostFee'
    BY <2>1, <2>4, <2>5 DEF call
  <2>7. QED
    BY <2>1, <2>6 DEF RefusalInv, SelectInv, RefusalReal
<1>3. CASE Accumulate
  <2>1. PICK next \in Coins \ selected :
          selected' = selected \cup {next} /\ sum' = sum + values[next]
    BY <1>3 DEF Accumulate
  <2>2. /\ pc = "select" /\ UNCHANGED <<values, call, fee>>
        /\ pc' = IF Enough(sum') THEN "check" ELSE "select"
    BY <1>3 DEF Accumulate
  <2>3. sum = Sums(values)[selected] /\ fee <= MostFee
    BY <2>2 DEF RefusalInv, SelectInv
  <2>4. sum' = Sums(values)[selected']
    BY <1>0, <2>1, <2>3, SumsAdd
  <2>5. sum' = Sums(values')[selected']
    BY <2>2, <2>4
  <2>6. fee' <= MostFee'
    BY <2>2, <2>3, MostFeeSame
  <2>7. ASSUME pc' = "select" PROVE sum' < Needed'
    <3>1. ~(sum' >= Needed)
      BY <2>2, <2>7 DEF Enough
    <3>2. Needed \in Int /\ Needed' = Needed
      BY <1>0, <2>2 DEF Needed, call
    <3>3. sum' \in Int
      BY <1>0, <2>1
    <3>4. QED
      BY <3>1, <3>2, <3>3
  <2>8. pc' # "insufficient"
    BY <2>2
  <2>9. QED
    BY <2>5, <2>6, <2>7, <2>8 DEF RefusalInv, SelectInv, RefusalReal
<1>4. CASE PlanAgain
  <2>1. /\ pc' = "select" /\ selected' = {} /\ sum' = 0 /\ fee' = NewFee
        /\ UNCHANGED <<values, call>>
    BY <1>4 DEF PlanAgain
  <2>2. sum' = Sums(values')[selected']
    BY <1>0, <2>1, SumsAre
  <2>3. fee' <= MostFee'
    BY <2>1, NewFeeAtMost, MostFeeSame
  <2>4. QED
    BY <2>1, <2>2, <2>3 DEF RefusalInv, SelectInv, RefusalReal
<1>5. CASE UNCHANGED vars
  <2>1. UNCHANGED <<pc, sum, selected, fee, values, call>>
    BY <1>5 DEF vars
  <2>2. MostFee' = MostFee /\ Needed' = Needed
    BY <2>1, MostFeeSame DEF Needed, call
  <2>3. QED
    BY <2>1, <2>2 DEF RefusalInv, SelectInv, RefusalReal, call
<1>6. QED
  <2>1. CASE RefuseAmount \/ SelectOne \/ PlanSettles \/ PlanGivesUp
    BY <1>1, <2>1 DEF RefuseAmount, SelectOne, PlanSettles, PlanGivesUp, Fails
  <2>2. CASE Prepare \/ PrepareFails \/ StartReplan \/ ReplanSettles
    BY <1>1, <2>2 DEF Prepare, PrepareFails, StartReplan, ReplanSettles, Fails
  <2>3. CASE ReplanRefuses \/ ReplanAgain \/ ReplanGivesUp
    BY <1>1, <2>3 DEF ReplanRefuses, ReplanAgain, ReplanGivesUp, Fails
  <2>4. CASE Sign \/ SignFails \/ VerifyFails \/ Broadcast
    BY <1>1, <2>4 DEF Sign, SignFails, VerifyFails, Broadcast, Fails
  <2>5. QED
    BY <1>2, <1>3, <1>4, <1>5, <2>1, <2>2, <2>3, <2>4 DEF Next

\* A wallet is told that its funds do not suffice only when all its coins together do not
\* pay the amount and the fee of spending them all (select_utxos and plan_send_utxos of
\* utxo_selector.rs), for any coins, amounts, rates and sizes.
THEOREM InsufficientHolds == Spec => []InsufficientIsReal
<1>1. TypeOK /\ RefusalInv /\ [Next]_vars => RefusalInv'
  BY StepRefusal
<1>2. RefusalInv => InsufficientIsReal
  <2>1. MapThenSumSet(LAMBDA c : values[c], Coins) = Sums(values)[Coins]
    BY SumIsSums
  <2>2. QED
    BY <2>1, Zenon DEF RefusalInv, RefusalReal, InsufficientIsReal, MostFee
<1>3. QED
  BY <1>1, <1>2, InitRefusal, TypeCorrect, PTL DEF Spec

-----------------------------------------------------------------------------
(***************************************************************************)
(* The first fee loop, which selects anew in every round. What it selects  *)
(* for a fee is a function of the coins, so that two rounds can be         *)
(* compared: for a higher fee no fewer coins, and coins worth no less.     *)
(* While the number of coins stays the same, the fee is one of two; if     *)
(* neither settles, each was answered with the other, and this is the      *)
(* boundary.  Up to there the fee rises by a step in every round, save the *)
(* one that takes it back from the fee with change to the one without.     *)
(***************************************************************************)

\* A larger selection is worth no less.
LEMMA SumsMono ==
  ASSUME NEW v \in [Coins -> Nat], NEW t \in SUBSET Coins, NEW s \in SUBSET t
  PROVE  Sums(v)[s] <= Sums(v)[t]
<1>1. PICK f : f = Sums(v)
  OBVIOUS
<1>2. /\ \A x \in SUBSET Coins : f[x] \in Int
      /\ \A x \in SUBSET Coins, c \in Coins : c \in x => f[x] = v[c] + f[x \ {c}]
  <2>1. v \in [Coins -> Int]
    OBVIOUS
  <2>2. \A x \in SUBSET Coins : f[x] \in Int
    BY <1>1, <2>1, SumsAre
  <2>3. \A x \in SUBSET Coins : \A c \in x : f[x] = v[c] + f[x \ {c}]
    BY <1>1, <2>1, SumsSplit
  <2>4. QED
    BY <2>2, <2>3
<1> DEFINE P == {x \in SUBSET Coins : \A y \in SUBSET x : f[y] <= f[x]}
<1>3. ASSUME NEW x \in SUBSET Coins, x # {}, \A c \in x : x \ {c} \in P
      PROVE  x \in P
  <2> SUFFICES ASSUME NEW y \in SUBSET x PROVE f[y] <= f[x]
    OBVIOUS
  <2>1. CASE y = x
    BY <1>2, <2>1
  <2>2. CASE y # x
    <3>1. PICK c \in x : c \notin y
      BY <2>2
    <3>2. y \in SUBSET (x \ {c}) /\ x \ {c} \in P
      BY <1>3, <3>1
    <3>3. f[y] <= f[x \ {c}]
      BY <3>2
    <3>4. f[x] = v[c] + f[x \ {c}] /\ v[c] \in Nat
      BY <1>2
    <3>5. f[y] \in Int /\ f[x \ {c}] \in Int
      BY <1>2
    <3>6. QED
      BY <3>3, <3>4, <3>5
  <2>3. QED
    BY <2>1, <2>2
<1>4. P = SUBSET Coins
  <2>1. P \in SUBSET (SUBSET Coins) /\ {} \in P
    <3>1. f[{}] <= f[{}]
      BY <1>2
    <3>2. \A y \in SUBSET {} : y = {}
      OBVIOUS
    <3>3. QED
      BY <3>1, <3>2
  <2> HIDE DEF P
  <2>2. \A x \in SUBSET Coins : x # {} /\ (\A c \in x : x \ {c} \in P) => x \in P
    BY <1>3
  <2>3. QED
    BY <2>1, <2>2, OverSelections
<1>5. QED
  BY <1>1, <1>4

\* Before, for coins worth v.
Earlier(v, i, j) == v[i] < v[j] \/ (v[i] = v[j] /\ i < j)

\* The coins of S come before all others.
LowIn(v, S) == \A i \in S, j \in Coins \ S : Earlier(v, i, j)

\* What select_utxos returns when need is to be paid: the smallest coin that is enough, or
\* as many of the smallest coins as it takes.
SelectsOne(v, S, need) ==
  \E b \in Coins : /\ S = {b} /\ v[b] >= need
                   /\ \A j \in Coins : v[j] >= need => v[b] <= v[j]

SelectsMany(v, S, need) ==
  /\ \A j \in Coins : v[j] < need
  /\ LowIn(v, S)
  /\ Sums(v)[S] >= need
  /\ \E m \in S : (\A i \in S \ {m} : Earlier(v, i, m)) /\ Sums(v)[S] - v[m] < need

Selects(v, S, need) ==
  S \in SUBSET Coins /\ (SelectsOne(v, S, need) \/ SelectsMany(v, S, need))

LEMMA SumOfOne ==
  ASSUME NEW v \in [Coins -> Nat], NEW b \in Coins
  PROVE  Sums(v)[{b}] = v[b]
<1>1. v \in [Coins -> Int] /\ {b} \in SUBSET Coins /\ b \in {b} /\ {b} \ {b} = {}
  OBVIOUS
<1>2. Sums(v)[{b}] = v[b] + Sums(v)[{}] /\ Sums(v)[{}] = 0
  BY <1>1, SumsSplit, SumsAre
<1>3. QED
  BY <1>2

\* A selection is not empty and pays what is needed.
LEMMA SelectionPays ==
  ASSUME NEW v \in [Coins -> Nat], NEW S, NEW a \in Int, Selects(v, S, a)
  PROVE  /\ S \in SUBSET Coins /\ S # {}
         /\ Sums(v)[S] \in Int /\ Sums(v)[S] >= a
         /\ Cardinality(S) \in Nat /\ Cardinality(S) >= 1 /\ Cardinality(S) <= NumCoins
<1>1. S \in SUBSET Coins
  BY DEF Selects
<1>2. S # {} /\ Sums(v)[S] >= a
  <2>1. CASE SelectsOne(v, S, a)
    BY <2>1, SumOfOne DEF SelectsOne
  <2>2. CASE SelectsMany(v, S, a)
    BY <2>2 DEF SelectsMany
  <2>3. QED
    BY <2>1, <2>2 DEF Selects
<1>3. Sums(v)[S] \in Int
  <2>1. v \in [Coins -> Int]
    OBVIOUS
  <2>2. QED
    BY <1>1, <2>1, SumsAre
<1>4. Cardinality(S) \in Nat /\ Cardinality(S) # 0 /\ Cardinality(S) <= NumCoins
  BY <1>1, <1>2, CoinsFinite
<1>5. QED
  BY <1>1, <1>2, <1>3, <1>4

\* Of two selections of the smallest coins one holds the other.
LEMMA LowNested ==
  ASSUME NEW v \in [Coins -> Nat], NEW S \in SUBSET Coins, NEW T \in SUBSET Coins,
         LowIn(v, S), LowIn(v, T), ~(S \subseteq T)
  PROVE  T \subseteq S
<1> SUFFICES ASSUME NEW j \in T, j \notin S PROVE FALSE
  OBVIOUS
<1>1. PICK i \in S : i \notin T
  OBVIOUS
<1>2. Earlier(v, i, j) /\ Earlier(v, j, i)
  BY <1>1 DEF LowIn
<1>3. v[i] \in Nat /\ v[j] \in Nat /\ i \in Nat /\ j \in Nat
  BY DEF Coins
<1>4. QED
  BY <1>2, <1>3 DEF Earlier

\* For more that is needed no fewer coins are selected, and they are worth no less.
LEMMA SelectsMono ==
  ASSUME NEW v \in [Coins -> Nat], NEW S, NEW T, NEW a \in Int, NEW b \in Int, a <= b,
         Selects(v, S, a), Selects(v, T, b)
  PROVE  Cardinality(S) <= Cardinality(T) /\ Sums(v)[S] <= Sums(v)[T]
<1>1. /\ S \in SUBSET Coins /\ T \in SUBSET Coins
      /\ Sums(v)[S] \in Int /\ Sums(v)[S] >= a /\ Sums(v)[T] \in Int /\ Sums(v)[T] >= b
      /\ Cardinality(S) \in Nat /\ Cardinality(T) \in Nat /\ Cardinality(T) >= 1
  BY SelectionPays
<1>2. CASE SelectsOne(v, S, a)
  <2>1. PICK c \in Coins : /\ S = {c} /\ v[c] >= a
                           /\ \A j \in Coins : v[j] >= a => v[c] <= v[j]
    BY <1>2 DEF SelectsOne
  <2>2. Sums(v)[S] = v[c] /\ Cardinality(S) = 1
    BY <2>1, SumOfOne, FS_Singleton
  <2>3. CASE SelectsOne(v, T, b)
    <3>1. PICK d \in Coins : T = {d} /\ v[d] >= b
      BY <2>3 DEF SelectsOne
    <3>2. Sums(v)[T] = v[d]
      BY <3>1, SumOfOne
    <3>3. v[d] \in Nat /\ v[d] >= a
      BY <3>1
    <3>4. v[c] <= v[d]
      BY <2>1, <3>3
    <3>5. QED
      BY <1>1, <2>2, <3>2, <3>4
  <2>4. CASE SelectsMany(v, T, b)
    <3>1. v[c] < b /\ v[c] \in Nat
      BY <2>4 DEF SelectsMany
    <3>2. QED
      BY <1>1, <2>2, <3>1
  <2>5. QED
    BY <2>3, <2>4 DEF Selects
<1>3. CASE SelectsMany(v, S, a)
  <2>1. CASE SelectsOne(v, T, b)
    <3>1. PICK d \in Coins : v[d] >= b
      BY <2>1 DEF SelectsOne
    <3>2. v[d] < a /\ v[d] \in Nat
      BY <1>3 DEF SelectsMany
    <3>3. QED
      BY <3>1, <3>2
  <2>2. CASE SelectsMany(v, T, b)
    <3>1. LowIn(v, S) /\ LowIn(v, T)
      BY <1>3, <2>2 DEF SelectsMany
    <3>2. CASE S \subseteq T
      <4>1. Sums(v)[S] <= Sums(v)[T]
        BY <1>1, <3>2, SumsMono
      <4>2. Cardinality(S) <= Cardinality(T)
        BY <1>1, <3>2, CoinsFinite, FS_Subset
      <4>3. QED
        BY <4>1, <4>2
    <3>3. CASE ~(S \subseteq T)
      <4>1. T \subseteq S
        BY <1>1, <3>1, <3>3, LowNested
      <4>2. PICK m \in S : /\ \A i \in S \ {m} : Earlier(v, i, m)
                           /\ Sums(v)[S] - v[m] < a
        BY <1>3 DEF SelectsMany
      <4>3. m \notin T
        <5> SUFFICES ASSUME m \in T PROVE FALSE
          OBVIOUS
        <5>1. PICK i \in S : i \notin T
          BY <3>3
        <5>2. Earlier(v, i, m) /\ Earlier(v, m, i)
          BY <1>1, <3>1, <4>2, <5>1 DEF LowIn
        <5>3. v[i] \in Nat /\ v[m] \in Nat /\ i \in Nat /\ m \in Nat
          BY <1>1 DEF Coins
        <5>4. QED
          BY <5>2, <5>3 DEF Earlier
      <4>4. T \in SUBSET (S \ {m}) /\ S \ {m} \in SUBSET Coins /\ m \in Coins
        BY <1>1, <4>1, <4>3
      <4>5. Sums(v)[T] <= Sums(v)[S \ {m}]
        BY <4>4, SumsMono
      <4>6. v \in [Coins -> Int]
        OBVIOUS
      <4>7. Sums(v)[S] = v[m] + Sums(v)[S \ {m}]
        BY <1>1, <4>6, SumsSplit
      <4>8. Sums(v)[S \ {m}] \in Int
        BY <4>4, <4>6, SumsAre
      <4>9. v[m] \in Nat
        BY <4>4
      <4>10. QED
        BY <1>1, <4>2, <4>5, <4>7, <4>8, <4>9
    <3>4. QED
      BY <3>2, <3>3
  <2>3. QED
    BY <2>1, <2>2 DEF Selects
<1>4. QED
  BY <1>2, <1>3 DEF Selects

\* Every selection for the fee of k inputs, or a higher one, has at least k coins.
AtLeast(k) ==
  \A S \in SUBSET Coins, g \in Nat :
    Selects(values, S, amount + g) /\ FeeForRate(k, 1) <= g => k <= Cardinality(S)

\* For the fee of k inputs and o outputs, k coins are selected that call for the other
\* number of outputs.
Answered(k, o) ==
  \E S \in SUBSET Coins :
    /\ Selects(values, S, amount + FeeForRate(k, o))
    /\ Cardinality(S) = k
    /\ OutputCount(Sums(values)[S], FeeForRate(k, o)) = 3 - o

\* Where the loop is: on its way up, a step of the fee in every round; back from the fee of
\* k inputs with change to the one without; or to and fro between them.
RoundAt(k, o) ==
  /\ fee = FeeForRate(k, o)
  /\ AtLeast(k)
  /\ \/ rounds <= Steps(k, o)
     \/ o = 1 /\ rounds <= Steps(k, 2) + 1 /\ Answered(k, 2)
     \/ Answered(k, 1) /\ Answered(k, 2)

RoundInv ==
  /\ pc \in {"select", "check"} => \E k \in 1..NumCoins, o \in 1..2 : RoundAt(k, o)
  /\ pc = "select" => LowIn(values, selected)
  /\ pc = "check" => Selects(values, selected, Needed) /\ sum = Sums(values)[selected]

\* What NotConvergedAtBoundary says of the first loop.
PlanStuckAtBoundary ==
  pc = "plan not converged" /\ FeeSteps(Cardinality(selected)) + 2 <= MaxRounds => Boundary

\* An input costs no less than an output (utxo_selector.rs: 148 and 34 bytes).
InputAssumption == InputSize >= OutputSize

LEMMA FeesSame ==
  ASSUME UNCHANGED call
  PROVE  \A k, o : FeeForRate(k, o)' = FeeForRate(k, o)
BY DEF FeeForRate, EstimateTxSize, VeriumFeeForSize, call

LEMMA AnsweredSame ==
  ASSUME UNCHANGED <<values, call>>, NEW k
  PROVE  /\ AtLeast(k) => AtLeast(k)'
         /\ \A o : Answered(k, o) => Answered(k, o)'
<1>1. values' = values /\ amount' = amount
  BY DEF call
<1>2. \A m, o : FeeForRate(m, o)' = FeeForRate(m, o)
  BY FeesSame
<1>3. AtLeast(k) => AtLeast(k)'
  BY <1>1, <1>2 DEF AtLeast
<1>4. \A s, f : OutputCount(s, f)' = OutputCount(s, f)
  BY <1>1 DEF OutputCount, ChangeWillBeIncluded
<1>5. ASSUME NEW o, Answered(k, o) PROVE Answered(k, o)'
  BY <1>1, <1>2, <1>4, <1>5 DEF Answered
<1>6. QED
  BY <1>3, <1>5

LEMMA RoundSame ==
  ASSUME UNCHANGED <<values, call, fee, rounds>>, NEW k, NEW o, RoundAt(k, o)
  PROVE  RoundAt(k, o)'
<1>1. FeeForRate(k, o)' = FeeForRate(k, o)
  BY FeesSame
<1>2. QED
  BY <1>1, AnsweredSame DEF RoundAt

LEMMA LoopTyped ==
  ASSUME TypeOK, NEW k \in 1..NumCoins
  PROVE  /\ values \in [Coins -> Nat] /\ rate \in Nat /\ amount \in Int
         /\ fee \in Nat /\ sum \in Int /\ k \in Nat /\ Dust \in Nat
         /\ FeeForRate(k, 1) \in Nat /\ FeeForRate(k, 2) \in Nat
         /\ FeeForRate(k, 1) <= FeeForRate(k, 2)
<1>1. /\ values \in [Coins -> Nat] /\ rate \in Nat /\ amount \in Int
      /\ fee \in Nat /\ sum \in Int /\ k \in Nat /\ Dust \in Nat
  <2>1. values \in [Coins -> Nat]
    BY DEF TypeOK
  <2>2. rate \in Nat /\ amount \in Int /\ fee \in Nat /\ sum \in Int
    BY DEF TypeOK
  <2>3. k \in Nat /\ Dust \in Nat
    OBVIOUS
  <2>4. QED
    BY <2>1, <2>2, <2>3
<1>2. FeeForRate(k, 1) \in Nat /\ FeeForRate(k, 2) \in Nat
  BY <1>1, FeeNat
<1>3. FeeForRate(k, 1) <= FeeForRate(k, 2)
  BY <1>1, FeeMono
<1>4. QED
  BY <1>1, <1>2, <1>3

\* What the loop knows of a fee it has answered: every selection for it is worth the same.
LEMMA AnsweredIs ==
  ASSUME TypeOK, NEW k \in 1..NumCoins, NEW o \in 1..2, Answered(k, o),
         NEW S, Selects(values, S, amount + FeeForRate(k, o))
  PROVE  /\ Cardinality(S) = k
         /\ OutputCount(Sums(values)[S], FeeForRate(k, o)) = 3 - o
<1>1. PICK T \in SUBSET Coins :
        /\ Selects(values, T, amount + FeeForRate(k, o))
        /\ Cardinality(T) = k
        /\ OutputCount(Sums(values)[T], FeeForRate(k, o)) = 3 - o
  BY DEF Answered
<1>2. values \in [Coins -> Nat] /\ amount \in Int
  BY LoopTyped
<1>3. FeeForRate(k, o) \in Nat
  <2>1. FeeForRate(k, 1) \in Nat /\ FeeForRate(k, 2) \in Nat
    BY LoopTyped
  <2>2. o = 1 \/ o = 2
    OBVIOUS
  <2>3. QED
    BY <2>1, <2>2
<1>4. PICK a : a = amount + FeeForRate(k, o)
  OBVIOUS
<1>5. a \in Int /\ a <= a /\ Selects(values, S, a) /\ Selects(values, T, a)
  BY <1>1, <1>2, <1>3, <1>4
<1>6. /\ Cardinality(S) <= Cardinality(T) /\ Cardinality(T) <= Cardinality(S)
      /\ Sums(values)[S] <= Sums(values)[T] /\ Sums(values)[T] <= Sums(values)[S]
  BY <1>2, <1>5, SelectsMono
<1>7. /\ Cardinality(S) \in Nat /\ Cardinality(T) \in Nat
      /\ Sums(values)[S] \in Int /\ Sums(values)[T] \in Int
  BY <1>2, <1>5, SelectionPays
<1>8. Cardinality(S) = Cardinality(T) /\ Sums(values)[S] = Sums(values)[T]
  BY <1>6, <1>7
<1>9. QED
  BY <1>1, <1>8

\* A loop that goes to and fro with k coins is at the boundary.
LEMMA AnsweredBoth ==
  ASSUME TypeOK, NEW k \in 1..NumCoins, NEW o \in 1..2, Answered(k, 1), Answered(k, 2),
         Selects(values, selected, amount + FeeForRate(k, o)),
         sum = Sums(values)[selected]
  PROVE  Boundary
<1>0. /\ values \in [Coins -> Nat] /\ amount \in Int /\ Dust \in Nat
      /\ FeeForRate(k, 1) \in Nat /\ FeeForRate(k, 2) \in Nat
      /\ FeeForRate(k, 1) <= FeeForRate(k, 2)
  BY LoopTyped
<1>1. PICK S \in SUBSET Coins :
        /\ Selects(values, S, amount + FeeForRate(k, 1))
        /\ OutputCount(Sums(values)[S], FeeForRate(k, 1)) = 2
  BY DEF Answered
<1>2. PICK T \in SUBSET Coins :
        /\ Selects(values, T, amount + FeeForRate(k, 2))
        /\ OutputCount(Sums(values)[T], FeeForRate(k, 2)) = 1
  BY DEF Answered
<1>3. /\ amount + FeeForRate(k, 1) \in Int /\ amount + FeeForRate(k, 2) \in Int
      /\ amount + FeeForRate(k, 1) <= amount + FeeForRate(k, 2)
  BY <1>0
<1>4. /\ Sums(values)[S] \in Int /\ Sums(values)[T] \in Int
      /\ Sums(values)[S] <= Sums(values)[T]
  BY <1>0, <1>1, <1>2, <1>3, SelectsMono, SelectionPays
<1>5. Sums(values)[S] - amount > FeeForRate(k, 1) + Dust
  <2>1. Sums(values)[S] - amount - FeeForRate(k, 1) > Dust
    BY <1>1 DEF OutputCount, ChangeWillBeIncluded
  <2>2. QED
    BY <1>0, <1>4, <2>1
<1>6. Sums(values)[T] - amount <= FeeForRate(k, 2) + Dust
  <2>1. ~(Sums(values)[T] - amount - FeeForRate(k, 2) > Dust)
    BY <1>2 DEF OutputCount, ChangeWillBeIncluded
  <2>2. QED
    BY <1>0, <1>4, <2>1
<1>7. Cardinality(selected) = k
  <2>1. Answered(k, o)
    BY DEF Answered
  <2>2. QED
    BY <2>1, AnsweredIs
<1>8. sum = Sums(values)[S] \/ sum = Sums(values)[T]
  <2>1. CASE o = 1
    <3>1. /\ sum <= Sums(values)[S] /\ Sums(values)[S] <= sum /\ sum \in Int
      BY <1>0, <1>1, <1>3, <2>1, SelectsMono, SelectionPays
    <3>2. QED
      BY <1>4, <3>1
  <2>2. CASE o = 2
    <3>1. /\ sum <= Sums(values)[T] /\ Sums(values)[T] <= sum /\ sum \in Int
      BY <1>0, <1>2, <1>3, <2>2, SelectsMono, SelectionPays
    <3>2. QED
      BY <1>4, <3>1
  <2>3. QED
    BY <2>1, <2>2
<1>9. sum - amount > FeeForRate(k, 1) + Dust /\ sum - amount <= FeeForRate(k, 2) + Dust
  BY <1>0, <1>4, <1>5, <1>6, <1>8
<1>10. QED
  BY <1>7, <1>9 DEF Boundary

\* A coin more costs more than a change output less saves.
LEMMA CoinCostsMore ==
  ASSUME InputAssumption, rate \in Nat, NEW k \in Nat, NEW c \in Nat, k < c
  PROVE  FeeForRate(k, 2) <= FeeForRate(c, 1)
<1>1. /\ InputSize * (k + 1) \in Nat /\ InputSize * c \in Nat
      /\ InputSize * (k + 1) <= InputSize * c
  BY TimesMono
<1>2. /\ EstimateTxSize(k, 2) = BaseSize + InputSize * k + 2 * OutputSize
      /\ EstimateTxSize(c, 1) = BaseSize + InputSize * c + OutputSize
  BY DEF EstimateTxSize
<1>3. InputSize * (k + 1) = InputSize * k + InputSize /\ InputSize * k \in Nat
  OBVIOUS
<1>4. /\ EstimateTxSize(k, 2) \in Nat /\ EstimateTxSize(c, 1) \in Nat
      /\ EstimateTxSize(k, 2) <= EstimateTxSize(c, 1)
  BY <1>1, <1>2, <1>3 DEF InputAssumption
<1>5. QED
  BY <1>4, FeeOfLarger

\* What the selection of a round says: no fewer coins than the fee is for, and if more, then
\* every later selection has as many.
LEMMA RoundCounts ==
  ASSUME InputAssumption, TypeOK, NEW k \in 1..NumCoins, NEW o \in 1..2,
         fee = FeeForRate(k, o), AtLeast(k), Selects(values, selected, Needed)
  PROVE  /\ Cardinality(selected) \in 1..NumCoins
         /\ k <= Cardinality(selected)
         /\ AtLeast(Cardinality(selected))
<1>1. PICK c : c = Cardinality(selected)
  OBVIOUS
<1>2. /\ values \in [Coins -> Nat] /\ rate \in Nat /\ amount \in Int /\ fee \in Nat
      /\ k \in Nat /\ FeeForRate(k, 1) \in Nat /\ FeeForRate(k, 2) \in Nat
      /\ FeeForRate(k, 1) <= FeeForRate(k, 2)
  BY LoopTyped
<1>3. Selects(values, selected, amount + fee) /\ amount + fee \in Int
  BY <1>2 DEF Needed
<1>4. selected \in SUBSET Coins /\ c \in Nat /\ c \in 1..NumCoins
  <2>1. selected \in SUBSET Coins /\ c \in Nat /\ c >= 1 /\ c <= NumCoins
    BY <1>1, <1>2, <1>3, SelectionPays
  <2>2. QED
    BY <2>1
<1>5. o = 1 \/ o = 2
  OBVIOUS
<1>6. FeeForRate(k, 1) <= fee /\ fee <= FeeForRate(k, 2)
  BY <1>2, <1>5
<1>7. k <= c
  BY <1>1, <1>2, <1>3, <1>4, <1>6 DEF AtLeast
<1>8. AtLeast(c)
  <2>1. CASE k = c
    BY <2>1
  <2>2. CASE k # c
    <3>1. k < c
      BY <1>2, <1>4, <1>7, <2>2
    <3>2. FeeForRate(k, 2) <= FeeForRate(c, 1)
      BY <1>2, <1>4, <3>1, CoinCostsMore
    <3>3. FeeForRate(c, 1) \in Nat
      BY <1>2, <1>4, FeeNat
    <3>4. ASSUME NEW S \in SUBSET Coins, NEW g \in Nat,
                 Selects(values, S, amount + g), FeeForRate(c, 1) <= g
          PROVE  c <= Cardinality(S)
      <4>1. amount + g \in Int /\ amount + fee <= amount + g
        BY <1>2, <1>6, <3>2, <3>3, <3>4
      <4>2. QED
        BY <1>1, <1>2, <1>3, <3>4, <4>1, SelectsMono
    <3>5. QED
      BY <3>4 DEF AtLeast
  <2>3. QED
    BY <2>1, <2>2
<1>9. QED
  BY <1>1, <1>4, <1>7, <1>8

\* A round that does not settle is followed by one that is counted as RoundAt says.
LEMMA NextRoundAt ==
  ASSUME InputAssumption, TypeOK, NEW k \in 1..NumCoins, NEW o \in 1..2, RoundAt(k, o),
         Selects(values, selected, Needed), sum = Sums(values)[selected], PlanAgain
  PROVE  \E c \in 1..NumCoins, p \in 1..2 : RoundAt(c, p)'
<1>1. PICK c : c = Cardinality(selected)
  OBVIOUS
<1>2. c \in 1..NumCoins /\ k <= c /\ AtLeast(c)
  BY <1>1, RoundCounts DEF RoundAt
<1>3. PICK p : p = OutputCount(sum, fee)
  OBVIOUS
<1>4. p \in 1..2
  BY <1>3 DEF OutputCount
<1>5. NewFee = FeeForRate(c, p) /\ NewFee # fee
  <2>1. NewFee = FeeForRate(c, p)
    BY <1>1, <1>3 DEF NewFee
  <2>2. values \in [Coins -> Nat] /\ Needed \in Int
    BY LoopTyped DEF Needed
  <2>3. sum >= Needed
    BY <2>2, SelectionPays
  <2>4. ~Settled
    BY DEF PlanAgain
  <2>5. QED
    BY <2>1, <2>3, <2>4 DEF Settled, Needed
<1>6. fee = FeeForRate(k, o) /\ rounds \in Nat /\ k \in Nat /\ c \in Nat
  BY <1>2 DEF RoundAt, TypeOK
<1>7. /\ Steps(k, 1) \in Nat /\ Steps(k, 2) \in Nat /\ Steps(c, p) \in Nat
      /\ rate \in Nat /\ FeeForRate(k, 1) \in Nat /\ FeeForRate(k, 2) \in Nat
      /\ FeeForRate(k, 1) <= FeeForRate(k, 2) /\ FeeForRate(c, p) \in Nat
  <2>1. rate \in Nat /\ p \in Nat /\ c \in Nat
    BY <1>2, <1>4, LoopTyped
  <2>2. FeeForRate(k, 1) \in Nat /\ FeeForRate(k, 2) \in Nat
        /\ FeeForRate(k, 1) <= FeeForRate(k, 2)
    BY LoopTyped
  <2>3. \A i, j \in Nat : Steps(i, j) \in Nat /\ FeeForRate(i, j) \in Nat
    <3> SUFFICES ASSUME NEW i \in Nat, NEW j \in Nat
                 PROVE  Steps(i, j) \in Nat /\ FeeForRate(i, j) \in Nat
      OBVIOUS
    <3>1. i <= i /\ j <= j
      OBVIOUS
    <3>2. Steps(i, j) \in Nat
      BY <2>1, <3>1, FeeGrows
    <3>3. QED
      BY <2>1, <3>2, FeeNat
  <2>4. QED
    BY <1>6, <2>1, <2>2, <2>3
<1>8. \/ rounds + 1 <= Steps(c, p)
      \/ p = 1 /\ rounds + 1 <= Steps(c, 2) + 1 /\ Answered(c, 2)
      \/ Answered(c, 1) /\ Answered(c, 2)
  <2>0. o = 1 \/ o = 2
    OBVIOUS
  <2>1. CASE c = k
    <3>1. p = 3 - o
      BY <1>4, <1>5, <1>6, <2>1
    <3>2. Answered(k, o)
      <4>1. /\ selected \in SUBSET Coins
            /\ Selects(values, selected, amount + FeeForRate(k, o))
            /\ Cardinality(selected) = k
            /\ OutputCount(Sums(values)[selected], FeeForRate(k, o)) = 3 - o
        BY <1>1, <1>3, <1>6, <2>1, <3>1 DEF Needed, Selects
      <4>2. QED
        BY <4>1 DEF Answered
    <3>3. CASE o = 1 /\ rounds <= Steps(k, 1)
      <4>1. p = 2 /\ FeeForRate(k, 1) < FeeForRate(k, 2)
        BY <1>5, <1>6, <1>7, <2>1, <3>1, <3>3
      <4>2. Steps(k, 1) + 1 <= Steps(k, 2)
        BY <1>6, <1>7, <4>1, HigherFee
      <4>3. QED
        BY <1>6, <1>7, <2>1, <3>3, <4>1, <4>2
    <3>4. CASE o = 2 /\ rounds <= Steps(k, 2)
      BY <1>6, <1>7, <2>1, <3>1, <3>2, <3>4
    <3>5. CASE o = 1 /\ Answered(k, 2)
      BY <2>1, <3>2, <3>5
    <3>6. CASE Answered(k, 1) /\ Answered(k, 2)
      BY <2>1, <3>6
    <3>7. QED
      BY <2>0, <3>3, <3>4, <3>5, <3>6 DEF RoundAt
  <2>2. CASE c # k
    <3>1. c \in Nat /\ k < c
      BY <1>2, <1>6, <2>2
    <3>2. ~(Answered(k, 1) /\ Answered(k, 2))
      <4> SUFFICES ASSUME Answered(k, o) PROVE FALSE
        BY <2>0
      <4>1. Selects(values, selected, amount + FeeForRate(k, o))
        BY <1>6 DEF Needed
      <4>2. Cardinality(selected) = k
        BY <4>1, AnsweredIs
      <4>3. QED
        BY <1>1, <2>2, <4>2
    <3>3. ~(o = 1 /\ Answered(k, 2))
      <4> SUFFICES ASSUME o = 1, Answered(k, 2) PROVE FALSE
        OBVIOUS
      <4>1. PICK T \in SUBSET Coins : /\ Selects(values, T, amount + FeeForRate(k, 2))
                                      /\ Cardinality(T) = k
        BY DEF Answered
      <4>2. Selects(values, selected, amount + FeeForRate(k, 1))
        BY <1>6 DEF Needed
      <4>3. values \in [Coins -> Nat] /\ amount \in Int
        BY LoopTyped
      <4>4. /\ amount + FeeForRate(k, 1) \in Int /\ amount + FeeForRate(k, 2) \in Int
            /\ amount + FeeForRate(k, 1) <= amount + FeeForRate(k, 2)
        BY <1>7, <4>3
      <4>5. Cardinality(selected) <= Cardinality(T)
        BY <4>1, <4>2, <4>3, <4>4, SelectsMono
      <4>6. QED
        BY <1>1, <1>6, <3>1, <4>1, <4>5
    <3>4. rounds <= Steps(k, o)
      BY <3>2, <3>3 DEF RoundAt
    <3>5. FeeForRate(k, o) < FeeForRate(c, p)
      <4>1. FeeForRate(k, 2) <= FeeForRate(c, 1)
        BY <1>6, <1>7, <3>1, CoinCostsMore
      <4>2. FeeForRate(c, 1) <= FeeForRate(c, p) /\ FeeForRate(c, 1) \in Nat
        BY <1>2, <1>4, <1>7, <3>1, LoopTyped
      <4>3. QED
        BY <1>5, <1>6, <1>7, <2>0, <4>1, <4>2
    <3>6. Steps(k, o) \in Nat /\ Steps(k, o) + 1 <= Steps(c, p)
      BY <1>4, <1>6, <1>7, <3>1, <3>5, HigherFee
    <3>7. QED
      BY <1>6, <1>7, <3>4, <3>6
  <2>3. QED
    BY <2>1, <2>2
<1>9. fee' = FeeForRate(c, p) /\ rounds' = rounds + 1 /\ UNCHANGED <<values, call>>
  BY <1>5 DEF PlanAgain, NextRound
<1>10. FeeForRate(c, p)' = FeeForRate(c, p)
  BY <1>9, FeesSame
<1>11. RoundAt(c, p)'
  <2>1. AtLeast(c)'
    BY <1>2, <1>9, AnsweredSame
  <2>2. \A q : Answered(c, q) => Answered(c, q)'
    BY <1>9, AnsweredSame
  <2>3. Steps(c, p)' = Steps(c, p) /\ Steps(c, 2)' = Steps(c, 2)
    BY DEF Steps, EstimateTxSize
  <2>4. QED
    BY <1>8, <1>9, <1>10, <2>1, <2>2, <2>3 DEF RoundAt
<1>12. QED
  BY <1>2, <1>4, <1>11

LEMMA InitRound == Init => RoundInv /\ PlanStuckAtBoundary
<1> SUFFICES ASSUME Init PROVE RoundInv /\ PlanStuckAtBoundary
  OBVIOUS
<1>1. pc = "select" /\ selected = {} /\ fee = FeeForRate(1, 2) /\ rounds = 0
  BY DEF Init
<1>2. values \in [Coins -> Nat] /\ amount \in Int /\ rate \in Nat
  BY InitTyped, LoopTyped
<1>3. AtLeast(1)
  <2>1. ASSUME NEW S \in SUBSET Coins, NEW g \in Nat, Selects(values, S, amount + g)
        PROVE  1 <= Cardinality(S)
    <3>1. amount + g \in Int
      BY <1>2
    <3>2. QED
      BY <1>2, <2>1, <3>1, SelectionPays
  <2>2. QED
    BY <2>1 DEF AtLeast
<1>4. RoundAt(1, 2)
  <2>1. Steps(1, 2) \in Nat
    BY <1>2, FeeGrows
  <2>2. QED
    BY <1>1, <1>3, <2>1 DEF RoundAt
<1>5. LowIn(values, selected)
  BY <1>1 DEF LowIn
<1>6. 1 \in 1..NumCoins /\ 2 \in 1..2
  OBVIOUS
<1>7. QED
  BY <1>1, <1>4, <1>5, <1>6 DEF RoundInv, PlanStuckAtBoundary

\* While the round selects or has selected, it is the same round.
LEMMA SameRound ==
  ASSUME RoundInv, pc \in {"select", "check"}, UNCHANGED <<values, call, fee, rounds>>
  PROVE  \E k \in 1..NumCoins, o \in 1..2 : RoundAt(k, o)'
<1>1. PICK k \in 1..NumCoins, o \in 1..2 : RoundAt(k, o)
  BY DEF RoundInv
<1>2. RoundAt(k, o)'
  BY <1>1, RoundSame
<1>3. QED
  BY <1>2

\* select_utxos returns the smallest coin that is enough.
LEMMA OneSelected ==
  ASSUME TypeOK, SelectOne
  PROVE  Selects(values, selected', Needed) /\ sum' = Sums(values)[selected']
<1>1. PICK best \in Sufficient : /\ IsFirst(best, Sufficient)
                                 /\ selected' = {best} /\ sum' = values[best]
  BY DEF SelectOne
<1>2. best \in Coins /\ values[best] >= Needed
  BY DEF Sufficient
<1>3. values \in [Coins -> Nat]
  BY DEF TypeOK
<1>4. ASSUME NEW j \in Coins, values[j] >= Needed
      PROVE  values[best] <= values[j]
  <2>1. j \in Sufficient
    BY <1>4 DEF Sufficient
  <2>2. j = best \/ values[best] < values[j] \/ values[best] = values[j]
    BY <1>1, <2>1 DEF IsFirst, Before
  <2>3. values[best] \in Nat /\ values[j] \in Nat
    BY <1>2, <1>3
  <2>4. QED
    BY <2>2, <2>3
<1>5. SelectsOne(values, selected', Needed) /\ selected' \in SUBSET Coins
  BY <1>1, <1>2, <1>4 DEF SelectsOne
<1>6. sum' = Sums(values)[selected']
  BY <1>1, <1>2, <1>3, SumOfOne
<1>7. QED
  BY <1>5, <1>6 DEF Selects

\* It accumulates the smallest coins, and stops with the first that makes them enough.
LEMMA ManySelected ==
  ASSUME TypeOK, SelectInv, Accumulate, LowIn(values, selected)
  PROVE  /\ LowIn(values, selected')
         /\ sum' = Sums(values)[selected']
         /\ pc' = "check" => Selects(values, selected', Needed)
<1>1. PICK next \in Coins \ selected :
        /\ IsFirst(next, Coins \ selected)
        /\ selected' = selected \cup {next} /\ sum' = sum + values[next]
  BY DEF Accumulate
<1>2. /\ pc = "select" /\ Needed > 0 /\ Sufficient = {}
      /\ pc' = IF Enough(sum') THEN "check" ELSE "select"
  BY DEF Accumulate
<1>3. values \in [Coins -> Nat] /\ values \in [Coins -> Int] /\ selected \in SUBSET Coins
      /\ amount \in Int /\ fee \in Nat /\ sum \in Int
  <2>1. values \in [Coins -> Nat]
    BY DEF TypeOK
  <2>2. values \in [Coins -> Int]
    BY <2>1
  <2>3. selected \in SUBSET Coins
    BY DEF TypeOK
  <2>4. amount \in Int /\ fee \in Nat /\ sum \in Int
    BY DEF TypeOK
  <2>5. QED
    BY <2>1, <2>2, <2>3, <2>4
<1>4. PICK S : S = selected'
  OBVIOUS
<1>5. S \in SUBSET Coins /\ next \in S /\ S \ {next} = selected
  BY <1>1, <1>3, <1>4
<1>6. LowIn(values, S)
  <2>1. ASSUME NEW i \in S, NEW j \in Coins \ S PROVE Earlier(values, i, j)
    <3>1. CASE i \in selected
      BY <1>1, <1>4, <3>1 DEF LowIn
    <3>2. CASE i = next
      <4>1. Before(next, j)
        BY <1>1, <1>4 DEF IsFirst
      <4>2. QED
        BY <3>2, <4>1 DEF Before, Earlier
    <3>3. QED
      BY <1>5, <3>1, <3>2
  <2>2. QED
    BY <2>1 DEF LowIn
<1>7. \A i \in S \ {next} : Earlier(values, i, next)
  BY <1>1, <1>5 DEF LowIn
<1>8. sum' = Sums(values)[S]
  <2>1. sum = Sums(values)[selected]
    BY <1>2 DEF SelectInv
  <2>2. QED
    BY <1>1, <1>3, <1>4, <2>1, SumsAdd
<1>9. sum' - values[next] < Needed
  <2>1. sum < Needed
    <3>1. CASE selected = {}
      <4>1. sum = 0
        BY <1>2, <1>3, <3>1, SumsAre DEF SelectInv
      <4>2. QED
        BY <1>2, <4>1
    <3>2. CASE selected # {}
      BY <1>2, <3>2 DEF SelectInv
    <3>3. QED
      BY <3>1, <3>2
  <2>2. values[next] \in Int
    BY <1>3
  <2>3. sum' - values[next] = sum
    BY <1>1, <1>3, <2>2
  <2>4. QED
    BY <2>1, <2>3
<1>10. ASSUME pc' = "check" PROVE SelectsMany(values, S, Needed)
  <2>1. sum' >= Needed
    BY <1>2, <1>10 DEF Enough
  <2>2. ASSUME NEW j \in Coins PROVE values[j] < Needed
    <3>1. ~(values[j] >= Needed)
      BY <1>2 DEF Sufficient
    <3>2. values[j] \in Nat /\ Needed \in Int
      BY <1>3 DEF Needed
    <3>3. QED
      BY <3>1, <3>2
  <2>3. QED
    BY <1>5, <1>6, <1>7, <1>8, <1>9, <2>1, <2>2 DEF SelectsMany
<1>11. QED
  BY <1>4, <1>5, <1>6, <1>8, <1>10 DEF Selects

LEMMA StepRound ==
  ASSUME InputAssumption, TypeOK, RefusalInv, RoundInv, [Next]_vars
  PROVE  RoundInv'
<1>1. CASE pc' \notin {"select", "check"}
  BY <1>1 DEF RoundInv
<1>2. CASE SelectOne
  <2>1. pc = "select" /\ pc' = "check" /\ UNCHANGED <<values, call, fee, rounds>>
    BY <1>2 DEF SelectOne
  <2>2. values' = values /\ Needed' = Needed
    BY <2>1 DEF Needed, call
  <2>3. Selects(values', selected', Needed') /\ sum' = Sums(values')[selected']
    BY <1>2, <2>2, OneSelected
  <2>4. \E k \in 1..NumCoins, o \in 1..2 : RoundAt(k, o)'
    BY <2>1, SameRound
  <2>5. QED
    BY <2>1, <2>3, <2>4 DEF RoundInv
<1>3. CASE Accumulate
  <2>1. pc = "select" /\ UNCHANGED <<values, call, fee, rounds>>
    BY <1>3 DEF Accumulate
  <2>2. values' = values /\ Needed' = Needed
    BY <2>1 DEF Needed, call
  <2>3. /\ LowIn(values, selected') /\ sum' = Sums(values)[selected']
        /\ pc' = "check" => Selects(values, selected', Needed)
    BY <1>3, <2>1, ManySelected DEF RefusalInv, RoundInv
  <2>4. /\ LowIn(values', selected') /\ sum' = Sums(values')[selected']
        /\ pc' = "check" => Selects(values', selected', Needed')
    BY <2>2, <2>3
  <2>5. \E k \in 1..NumCoins, o \in 1..2 : RoundAt(k, o)'
    BY <2>1, SameRound
  <2>6. QED
    BY <2>4, <2>5 DEF RoundInv
<1>4. CASE PlanAgain
  <2>1. pc = "check" /\ pc' = "select" /\ selected' = {}
    BY <1>4 DEF PlanAgain
  <2>2. PICK k \in 1..NumCoins, o \in 1..2 : RoundAt(k, o)
    BY <2>1 DEF RoundInv
  <2>3. Selects(values, selected, Needed) /\ sum = Sums(values)[selected]
    BY <2>1 DEF RoundInv
  <2>4. \E c \in 1..NumCoins, p \in 1..2 : RoundAt(c, p)'
    BY <1>4, <2>2, <2>3, NextRoundAt
  <2>5. LowIn(values, selected)'
    BY <2>1 DEF LowIn
  <2>6. QED
    BY <2>1, <2>4, <2>5 DEF RoundInv
<1>5. CASE UNCHANGED vars
  <2>1. UNCHANGED <<pc, sum, selected, values, call, fee, rounds>>
    BY <1>5 DEF vars
  <2>2. values' = values /\ selected' = selected /\ Needed' = Needed /\ sum' = sum
    BY <2>1 DEF Needed, call
  <2>3. /\ pc' = "select" => LowIn(values', selected')
        /\ pc' = "check" => /\ Selects(values', selected', Needed')
                            /\ sum' = Sums(values')[selected']
    BY <2>1, <2>2 DEF RoundInv
  <2>4. pc' \in {"select", "check"} => \E k \in 1..NumCoins, o \in 1..2 : RoundAt(k, o)'
    BY <2>1, SameRound
  <2>5. QED
    BY <2>3, <2>4 DEF RoundInv
<1>6. QED
  <2>1. CASE RefuseAmount \/ RunOut \/ PlanSettles \/ PlanGivesUp
    BY <1>1, <2>1 DEF RefuseAmount, RunOut, PlanSettles, PlanGivesUp, Fails
  <2>2. CASE Prepare \/ PrepareFails \/ StartReplan \/ ReplanSettles
    BY <1>1, <2>2 DEF Prepare, PrepareFails, StartReplan, ReplanSettles, Fails
  <2>3. CASE ReplanRefuses \/ ReplanAgain \/ ReplanGivesUp
    BY <1>1, <2>3 DEF ReplanRefuses, ReplanAgain, ReplanGivesUp, Fails
  <2>4. CASE Sign \/ SignFails \/ VerifyFails \/ Broadcast
    BY <1>1, <2>4 DEF Sign, SignFails, VerifyFails, Broadcast, Fails
  <2>5. QED
    BY <1>2, <1>3, <1>4, <1>5, <2>1, <2>2, <2>3, <2>4 DEF Next

\* With more rounds than the fee has steps to rise, the loop goes to and fro.
LEMMA GivesUpAtBoundary ==
  ASSUME InputAssumption, TypeOK, RoundInv, PlanGivesUp,
         FeeSteps(Cardinality(selected)) + 2 <= MaxRounds
  PROVE  Boundary
<1>1. pc = "check" /\ rounds = MaxRounds
  BY DEF PlanGivesUp
<1>2. PICK k \in 1..NumCoins, o \in 1..2 : RoundAt(k, o)
  BY <1>1 DEF RoundInv
<1>3. Selects(values, selected, Needed) /\ sum = Sums(values)[selected]
  BY <1>1 DEF RoundInv
<1>4. PICK c : c = Cardinality(selected)
  OBVIOUS
<1>5. c \in 1..NumCoins /\ k <= c
  BY <1>2, <1>3, <1>4, RoundCounts DEF RoundAt
<1>6. /\ Steps(k, o) \in Nat /\ Steps(k, 2) \in Nat /\ Steps(c, 2) \in Nat
      /\ Steps(k, o) <= Steps(c, 2) /\ Steps(k, 2) <= Steps(c, 2)
  <2>1. rate \in Nat /\ k \in Nat /\ c \in Nat /\ o \in Nat /\ o <= 2
    BY <1>2, <1>5, LoopTyped
  <2>2. \A m, p \in Nat : p <= 2 /\ m <= c => /\ Steps(m, p) \in Nat /\ Steps(c, 2) \in Nat
                                              /\ Steps(m, p) <= Steps(c, 2)
    BY <2>1, FeeGrows
  <2>3. QED
    BY <1>5, <2>1, <2>2
<1>7. Steps(c, 2) + 2 <= MaxRounds
  BY <1>4 DEF FeeSteps, Steps
<1>8. Answered(k, 1) /\ Answered(k, 2)
  <2>1. ~(rounds <= Steps(k, o)) /\ ~(rounds <= Steps(k, 2) + 1)
    BY <1>1, <1>6, <1>7
  <2>2. QED
    BY <1>2, <2>1 DEF RoundAt
<1>9. Selects(values, selected, amount + FeeForRate(k, o))
  BY <1>2, <1>3 DEF RoundAt, Needed
<1>10. QED
  BY <1>3, <1>8, <1>9, AnsweredBoth

LEMMA BoundarySame ==
  ASSUME UNCHANGED <<call, sum, selected>>, Boundary
  PROVE  Boundary'
<1>1. sum' = sum /\ amount' = amount /\ selected' = selected
  BY DEF call
<1>2. \A k, o : FeeForRate(k, o)' = FeeForRate(k, o)
  BY FeesSame
<1>3. QED
  BY <1>1, <1>2 DEF Boundary

LEMMA StepPlanStuck ==
  ASSUME InputAssumption, TypeOK, RoundInv, PlanStuckAtBoundary, [Next]_vars
  PROVE  PlanStuckAtBoundary'
<1>1. CASE PlanGivesUp
  <2>1. UNCHANGED <<call, sum, selected>>
    BY <1>1 DEF PlanGivesUp, Fails
  <2>2. FeeSteps(Cardinality(selected)) + 2 <= MaxRounds => Boundary
    BY <1>1, GivesUpAtBoundary
  <2>3. FeeSteps(Cardinality(selected))' = FeeSteps(Cardinality(selected))
    BY <2>1 DEF FeeSteps, EstimateTxSize
  <2>4. QED
    BY <2>1, <2>2, <2>3, BoundarySame DEF PlanStuckAtBoundary
<1>2. CASE UNCHANGED vars
  <2>1. UNCHANGED <<pc, call, sum, selected>>
    BY <1>2 DEF vars
  <2>2. FeeSteps(Cardinality(selected))' = FeeSteps(Cardinality(selected))
    BY <2>1 DEF FeeSteps, EstimateTxSize
  <2>3. QED
    BY <2>1, <2>2, BoundarySame DEF PlanStuckAtBoundary
<1>3. CASE pc' # "plan not converged"
  BY <1>3 DEF PlanStuckAtBoundary
<1>4. QED
  <2>1. CASE RefuseAmount \/ SelectOne \/ Accumulate \/ RunOut \/ PlanSettles \/ PlanAgain
    BY <1>3, <2>1 DEF RefuseAmount, SelectOne, Accumulate, RunOut, PlanSettles, PlanAgain, Fails
  <2>2. CASE Prepare \/ PrepareFails \/ StartReplan \/ ReplanSettles
    BY <1>3, <2>2 DEF Prepare, PrepareFails, StartReplan, ReplanSettles, Fails
  <2>3. CASE ReplanRefuses \/ ReplanAgain \/ ReplanGivesUp
    BY <1>3, <2>3 DEF ReplanRefuses, ReplanAgain, ReplanGivesUp, Fails
  <2>4. CASE Sign \/ SignFails \/ VerifyFails \/ Broadcast
    BY <1>3, <2>4 DEF Sign, SignFails, VerifyFails, Broadcast, Fails
  <2>5. QED
    BY <1>1, <1>2, <2>1, <2>2, <2>3, <2>4 DEF Next

\* plan_send_utxos gives up, with more rounds than the fee of its selection has steps, only
\* where a change output would cost a fee that leaves no change; for all coins, amounts,
\* rates and sizes where an input is no smaller than an output.
THEOREM PlanStuckHolds == ASSUME InputAssumption PROVE Spec => []PlanStuckAtBoundary
<1>1. Init => RoundInv /\ PlanStuckAtBoundary
  BY InitRound
<1>2. TypeOK /\ RefusalInv /\ RoundInv /\ [Next]_vars => RoundInv'
  BY StepRound
<1>3. TypeOK /\ RoundInv /\ PlanStuckAtBoundary /\ [Next]_vars => PlanStuckAtBoundary'
  BY StepPlanStuck
<1>4. Init => RefusalInv
  BY InitRefusal
<1>5. TypeOK /\ RefusalInv /\ [Next]_vars => RefusalInv'
  BY StepRefusal
<1>6. QED
  BY <1>1, <1>2, <1>3, <1>4, <1>5, TypeCorrect, PTL DEF Spec

\* A fee loop gives up only where a change output would cost a fee that leaves no change
\* (plan_send_utxos and replan_fee_for_selected of utxo_selector.rs): no payment is refused
\* that a selection with a steady fee could make.  With the sizes and the eight rounds of the
\* code the first loop is covered for selections of up to 46 coins, the second for all.
THEOREM NotConvergedHolds ==
  ASSUME RoundsAssumption, InputAssumption
  PROVE  Spec => []NotConvergedAtBoundary
<1>1. Spec => []PlanStuckAtBoundary
  BY PlanStuckHolds
<1>2. Spec => []ReplanStuckAtBoundary
  BY ReplanStuckHolds
<1>3. PlanStuckAtBoundary /\ ReplanStuckAtBoundary => NotConvergedAtBoundary
  BY DEF PlanStuckAtBoundary, ReplanStuckAtBoundary, NotConvergedAtBoundary
<1>4. QED
  BY <1>1, <1>2, <1>3, PTL
=============================================================================
