---------------------------- MODULE MCUtxoCache ----------------------------
(* Small instances of UtxoCache: a script that coins pay, one for change, and one of a second wallet.
   Callers are alike, which UtxoCache_pairs.cfg uses. *)
EXTENDS UtxoCache, TLC
CONSTANTS a, b, d, s1, s2, s3
MCOwner == s1 :> 1 @@ s2 :> 1 @@ s3 :> 2
MCPaidTo == a :> s1 @@ b :> s3 @@ d :> s2
MCOwnerTwo == s1 :> 1 @@ s3 :> 2
MCPaidToTwo == a :> s1 @@ b :> s3
MCOwnerOne == s1 :> 1
MCPaidToOne == a :> s1
CallersAlike == Permutations(Callers)
=============================================================================
