---------------------------- MODULE AtomicKeystore ----------------------------
(***************************************************************************)
(* What a keystore promises its callers: each call changes the record of   *)
(* the wallet as it is at that moment, at once, and nothing else changes   *)
(* it.  Keystore does so by loading, changing and saving a copy.           *)
(***************************************************************************)
EXTENDS Integers

CONSTANTS Phrases, NoWallet, MaxIndex, MaxProgress

VARIABLES
  wallet,   \* the record, or NoWallet
  given     \* the addresses handed out since it was sealed

\* Create and import start a record anew; create fills the cached scripts afterwards.
Seal ==
  /\ \E p \in Phrases, cached \in BOOLEAN :
       /\ ~cached => wallet = NoWallet
       /\ wallet' = [phrase |-> p, next |-> 0, cached |-> cached, funded |-> {},
                     progress |-> 0, complete |-> FALSE]
  /\ given' = {}

Precache ==
  /\ wallet' = [wallet EXCEPT !.cached = TRUE]
  /\ UNCHANGED given

\* The receive counter only goes up.
Advance ==
  /\ \E i \in 1..MaxIndex :
       /\ i > wallet.next
       /\ wallet' = [wallet EXCEPT !.next = i]
  /\ UNCHANGED given

\* The list of funded scripts only grows, by scripts of the record's own phrase.
Fund ==
  /\ \E found \in SUBSET ({wallet.phrase} \X (0..(MaxIndex - 1))) :
       wallet' = [wallet EXCEPT !.funded = @ \cup found]
  /\ UNCHANGED given

Index ==
  /\ \E p \in 0..MaxProgress : wallet' = [wallet EXCEPT !.progress = p]
  /\ UNCHANGED given

\* A scan is complete, or a rescan asked for.
Mark ==
  /\ \E b \in BOOLEAN : wallet' = [wallet EXCEPT !.complete = b, !.progress = 0]
  /\ UNCHANGED given

\* An address is given once, and only when the counter has passed it.
Give ==
  /\ \E a \in ({wallet.phrase} \X (0..(wallet.next - 1))) \ given : given' = given \cup {a}
  /\ UNCHANGED wallet

Init == wallet = NoWallet /\ given = {}

Next ==
  \/ Seal
  \/ wallet # NoWallet /\ (Precache \/ Advance \/ Fund \/ Index \/ Mark \/ Give)

Spec == Init /\ [][Next]_<<wallet, given>>
=============================================================================
