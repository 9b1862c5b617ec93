------------------------------ MODULE MCHistory ------------------------------
(* A small wallet: two addresses, one of somebody else, a receipt, a payment  *)
(* with its change, a payment to itself, and a reward of a block.             *)
EXTENDS History
CONSTANTS in1, out, self, coinbase, a1, a2, x
MCSpends == [t \in Txs |-> IF t \in {out, self} THEN {a1} ELSE {}]
MCChangeTo == [t \in Txs |-> IF t \in {out, self} THEN {a1} ELSE {}]
MCPays == [t \in Txs |-> [a \in Own \cup Other |->
             CASE t = out /\ a = x -> 1 [] t = out /\ a = a1 -> 2
               [] t = self /\ a = a1 -> 1 [] t = self /\ a = a2 -> 2
               [] t \in {in1, coinbase} /\ a = a1 -> 1
               [] OTHER -> 0]]
=============================================================================
