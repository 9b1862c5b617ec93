------------------------------ MODULE MCKeystore ------------------------------
(* The keystore as an implementation of AtomicKeystore. *)
EXTENDS Keystore

Atomic == INSTANCE AtomicKeystore WITH wallet <- disk.wallet

\* Calls that do not overlap change the record as if each were one step: what a call saves
\* loses nothing of the calls before it, and no address is given twice or too early.
CallsAreAtomic == Atomic!Spec

\* The record is still the one that c works on: no other call has saved since c read it, and
\* the scripts that c adds to it are of its phrase.
Undisturbed(c) ==
  /\ ~call[c].overtaken
  /\ call[c].change[1] \in {"funded", "register"} => call[c].phrase = disk.wallet.phrase

\* However many calls are under way, a save leaves the record or changes it as one atomic step
\* would, unless another call has saved in between or the phrase is not the record's: calls
\* that overlap, saves that failed and crashes do harm in no other way.
UndisturbedIsAtomic ==
  [][\A c \in Callers : Save(c) /\ Undisturbed(c) =>
       Atomic!Next \/ UNCHANGED <<disk.wallet, given>>]_vars
=============================================================================
