------------------------------- MODULE Keystore -------------------------------
(***************************************************************************)
(* The keystore of a light wallet (light_keystore.rs) and the calls that   *)
(* change it: the shell's (session.rs), those of a scan (sync_engine.rs)   *)
(* and those of a payment (wallet_cache.rs).  Every change loads the whole *)
(* store, changes the copy and saves the whole copy; the phrases of        *)
(* unlocked wallets are kept in memory.                                    *)
(*                                                                         *)
(* Simplifications:                                                        *)
(*  - one coin;                                                            *)
(*  - a password is right or wrong for the record at hand;                 *)
(*  - an address, and its script, is a phrase and an index;                *)
(*  - indexing progress is one number: GapScan has the whole of it;        *)
(*  - a call that only reads is one step.                                  *)
(***************************************************************************)
EXTENDS Integers, FiniteSets

CONSTANTS
  Callers,      \* the calls that may be under way together
  Phrases,      \* recovery phrases
  BadSecrets,   \* texts no address can be derived from: an import does not look before
  NoPhrase,     \* no phrase in memory
  NoWallet,     \* no record of the coin in the store
  Torn,         \* a store that cannot be read back
  Durations,    \* for how long a wallet may be unlocked
  TornWrites,   \* whether a crash may cut a write short
  FailIn,       \* the changes whose save may fail
  MaxIndex,     \* bound: addresses a wallet derives
  MaxProgress,  \* bound: steps of indexing progress
  MaxTime,      \* bound: the last moment; a day is as long
  MaxCrashes,   \* bound: crashes
  MaxFailures   \* bound: saves that fail

ASSUME KeystoreAssumption ==
  /\ NoPhrase \notin Phrases \cup BadSecrets
  /\ Phrases \cap BadSecrets = {}
  /\ MaxIndex \in Nat \ {0}
  /\ MaxProgress \in Nat
  /\ MaxTime \in Nat \ {0}
  /\ Durations \subseteq 0..MaxTime
  /\ TornWrites \in BOOLEAN
  /\ MaxCrashes \in Nat
  /\ MaxFailures \in Nat

VARIABLES
  disk,         \* the store as saved
  session,      \* SESSION_MNEMONICS: the phrase in memory, or NoPhrase
  now,          \* unix_now
  call,         \* what each caller is doing
  given,        \* history: addresses handed out since the record was sealed
  crashes, failed  \* what the bounds count

vars == <<disk, session, now, call, given, crashes, failed>>

Secrets == Phrases \cup BadSecrets

Scripts(phrase) == {phrase} \X (0..(MaxIndex - 1))
AllScripts == Phrases \X (0..(MaxIndex - 1))

Wallets ==
  [ phrase : Phrases,                \* encrypted_mnemonic
    next : 0..MaxIndex,              \* next_receive_index
    cached : BOOLEAN,                \* whether cached_script_hexes is filled
    funded : SUBSET AllScripts,      \* funded_script_hexes
    progress : 0..MaxProgress,       \* index_*
    complete : BOOLEAN ]             \* addresses_scan_complete

ASSUME NoWalletAssumption == {NoWallet, Torn} \cap Wallets = {}

\* until: unlocked_until_by_coin, 0 where the coin has no entry.
Stores == [wallet : Wallets \cup {NoWallet, Torn}, until : 0..(2 * MaxTime)]

HasWallet(store) == store.wallet \notin {NoWallet, Torn}
Unlocked(store) == store.until > now

Sealed(phrase) ==
  [phrase |-> phrase, next |-> 0, cached |-> FALSE, funded |-> {},
   progress |-> 0, complete |-> FALSE]

(***************************************************************************)
(* What the calls change                                                   *)
(***************************************************************************)
Changes ==
  ({"create"} \X Phrases) \cup ({"import"} \X Secrets) \cup ({"unlock"} \X Durations)
    \cup ({"lock", "precache", "bump", "complete", "incomplete"} \X {0})
    \cup ({"raise"} \X (1..MaxIndex)) \cup ({"funded"} \X SUBSET AllScripts)
    \cup ({"register"} \X AllScripts) \cup ({"progress"} \X (0..MaxProgress))

NoChange == <<"lock", 0>>

Fresh(store, phrase) ==
  [store EXCEPT !.wallet = Sealed(phrase), !.until = now + MaxTime]

\* The store a change makes of the one that was loaded.
Changed(store, change) ==
  LET w == store.wallet  x == change[2] IN
  CASE change[1] = "create" -> Fresh(store, x)
    [] change[1] = "import" -> [Fresh(store, x) EXCEPT !.wallet.cached = TRUE]
    [] change[1] = "precache" -> [store EXCEPT !.wallet.cached = TRUE]
    [] change[1] = "unlock" -> [store EXCEPT !.until = now + x]
    [] change[1] = "lock" -> [store EXCEPT !.until = 0]
    [] change[1] = "bump" -> [store EXCEPT !.wallet.next = w.next + 1]
    [] change[1] = "raise" -> [store EXCEPT !.wallet.next = x]
    [] change[1] = "funded" -> [store EXCEPT !.wallet.funded = x]
    [] change[1] = "register" -> [store EXCEPT !.wallet.funded = w.funded \cup {x}]
    [] change[1] = "progress" -> [store EXCEPT !.wallet.progress = x]
    [] change[1] = "complete" ->
         [store EXCEPT !.wallet.progress = 0, !.wallet.complete = TRUE]
    [] change[1] = "incomplete" ->
         [store EXCEPT !.wallet.progress = 0, !.wallet.complete = FALSE]

\* Mutants of NothingToSave: the counter is set whatever it was; a wallet is created over
\* another.
RaiseUnchecked(store, change) ==
  LET w == store.wallet  x == change[2] IN
  \/ change[1] = "create" /\ HasWallet(store)
  \/ change[1] = "lock" /\ store.until = 0
  \/ change[1] \notin {"create", "import", "lock"} /\ ~HasWallet(store)
  \/ change[1] = "register" /\ HasWallet(store) /\ x \in w.funded
  \/ change[1] = "progress" /\ HasWallet(store) /\ x = w.progress

CreateUnchecked(store, change) ==
  LET w == store.wallet  x == change[2] IN
  \/ change[1] = "lock" /\ store.until = 0
  \/ change[1] \notin {"create", "import", "lock"} /\ ~HasWallet(store)
  \/ change[1] = "raise" /\ HasWallet(store) /\ x <= w.next
  \/ change[1] = "register" /\ HasWallet(store) /\ x \in w.funded
  \/ change[1] = "progress" /\ HasWallet(store) /\ x = w.progress

\* Whether the call returns without saving: there is nothing to change, or it is refused.
NothingToSave(store, change) ==
  LET w == store.wallet  x == change[2] IN
  \/ change[1] = "create" /\ HasWallet(store)
  \/ change[1] = "lock" /\ store.until = 0
  \/ change[1] \notin {"create", "import", "lock"} /\ ~HasWallet(store)
  \/ change[1] = "raise" /\ HasWallet(store) /\ x <= w.next
  \/ change[1] = "register" /\ HasWallet(store) /\ x \in w.funded
  \/ change[1] = "progress" /\ HasWallet(store) /\ x = w.progress

\* The phrase that persist_unlock puts into memory, before the save.
Remembered(store, change) ==
  CASE change[1] \in {"create", "import"} -> change[2]
    [] change[1] = "unlock" -> store.wallet.phrase
    [] OTHER -> session

(***************************************************************************)
(* Calls                                                                   *)
(***************************************************************************)
\* What a call is for: one change; a change and the precache that create saves second; an
\* address; a payment; a scan, which makes many changes.
Purposes == {"change", "create", "address", "payment", "scan"}

CallStates ==
  [ op : Purposes,
    pc : {"free", "load", "change", "save", "phrase", "remember", "give", "scanning"},
    phrase : Secrets \cup {NoPhrase},    \* the phrase the call works with
    change : Changes,
    copy : Stores,                       \* the store it loaded
    list : SUBSET AllScripts,            \* the funded scripts a scan has found
    overtaken : BOOLEAN ]                \* history: another call saved since it read the record

Nothing == [wallet |-> NoWallet, until |-> 0]
Free ==
  [op |-> "change", pc |-> "free", phrase |-> NoPhrase, change |-> NoChange,
   copy |-> Nothing, list |-> {}, overtaken |-> FALSE]

Init ==
  /\ disk = Nothing
  /\ session = NoPhrase
  /\ now = 1
  /\ call = [c \in Callers |-> Free]
  /\ given = {}
  /\ crashes = 0
  /\ failed = 0

Bounds == <<crashes, failed>>

Quiet == \A c \in Callers : call[c].pc = "free"

\* Makes c's call the one given.
Becomes(c, state) == call' = [call EXCEPT ![c] = state]
Begins(c, state) == call[c].pc = "free" /\ Becomes(c, state)
At(c, pc) == call[c].pc = pc

\* The same for a call that saves: what the others have read of the record is no longer it.
Overtakes(c, state) ==
  call' = [d \in Callers |-> IF d = c THEN state
                             ELSE [call[d] EXCEPT !.overtaken = call[d].pc # "free"]]

Create(c) ==
  /\ \E p \in Phrases :
       Begins(c, [Free EXCEPT !.op = "create", !.pc = "load", !.change = <<"create", p>>])
  /\ UNCHANGED <<disk, session, now, given, Bounds>>

Import(c) ==
  /\ \E p \in Secrets :
       Begins(c, [Free EXCEPT !.pc = "load", !.change = <<"import", p>>])
  /\ session' = NoPhrase
  /\ UNCHANGED <<disk, now, given, Bounds>>

Unlock(c) ==
  /\ \E d \in Durations :
       Begins(c, [Free EXCEPT !.pc = "load", !.change = <<"unlock", d>>])
  /\ UNCHANGED <<disk, session, now, given, Bounds>>

Lock(c) ==
  /\ Begins(c, [Free EXCEPT !.pc = "load", !.change = <<"lock", 0>>])
  /\ session' = NoPhrase
  /\ UNCHANGED <<disk, now, given, Bounds>>

NewReceiveAddress(c) ==
  /\ Unlocked(disk)
  /\ Begins(c, [Free EXCEPT !.op = "address", !.pc = "phrase", !.change = <<"bump", 0>>])
  /\ UNCHANGED <<disk, session, now, given, Bounds>>

Rescan(c) ==
  /\ Unlocked(disk)
  /\ Begins(c, [Free EXCEPT !.pc = "load", !.change = <<"incomplete", 0>>])
  /\ UNCHANGED <<disk, session, now, given, Bounds>>

\* A payment needs a phrase, unlocked or not.
Pay(c) ==
  /\ Begins(c, [Free EXCEPT !.op = "payment", !.pc = "phrase"])
  /\ UNCHANGED <<disk, session, now, given, Bounds>>

\* A scan begins only with a phrase in memory, and with one it can derive from.
BeginScan(c) ==
  /\ HasWallet(disk) /\ ~disk.wallet.complete /\ Unlocked(disk) /\ session \in Phrases
  /\ Begins(c, [Free EXCEPT !.op = "scan", !.pc = "scanning", !.phrase = session,
                            !.list = disk.wallet.funded])
  /\ UNCHANGED <<disk, session, now, given, Bounds>>

\* What a scan saves next: the list with what a batch found, its progress, or, at its end,
\* that it is complete and the index after the last one used.
ScanStores(c) ==
  /\ At(c, "scanning")
  /\ \E change \in Changes, found \in SUBSET Scripts(call[c].phrase) :
       LET list == call[c].list \cup found IN
       /\ \/ change = <<"funded", list>> /\ found # {}
          \/ change[1] \in {"progress", "complete"} /\ found = {}
          \/ change[1] = "raise" /\ found = {} /\ list # {}
       /\ Becomes(c, [call[c] EXCEPT !.pc = "load", !.change = change, !.list = list])
  /\ UNCHANGED <<disk, session, now, given, Bounds>>

ScanReturns(c) ==
  /\ At(c, "scanning")
  /\ Becomes(c, Free)
  /\ UNCHANGED <<disk, session, now, given, Bounds>>

(***************************************************************************)
(* unlocked_mnemonic                                                       *)
(***************************************************************************)
\* Mutant of WithPhrase: the index before the counter, at zero too.
BeforeCounter(c, phrase) ==
  IF call[c].op = "payment" /\ HasWallet(disk)
  THEN [call[c] EXCEPT !.pc = "load", !.phrase = phrase,
                       !.change = <<"register", <<phrase, disk.wallet.next - 1>>>>]
  ELSE [call[c] EXCEPT !.pc = "load", !.phrase = phrase]

\* What the call does once it has the phrase: a payment goes on to register the script that
\* its change goes to, the last one derived.
WithPhrase(c, phrase) ==
  LET last == IF HasWallet(disk) /\ disk.wallet.next > 0 THEN disk.wallet.next - 1 ELSE 0 IN
  IF call[c].op = "payment"
  THEN [call[c] EXCEPT !.pc = "load", !.phrase = phrase,
                       !.change = <<"register", <<phrase, last>>>>]
  ELSE [call[c] EXCEPT !.pc = "load", !.phrase = phrase]

PhraseInMemory(c) ==
  /\ At(c, "phrase")
  /\ session # NoPhrase
  /\ call[c].op = "payment" => session \in Phrases
  /\ Becomes(c, WithPhrase(c, session))
  /\ UNCHANGED <<disk, session, now, given, Bounds>>

\* Loads and decrypts with the right password.
Decrypt(c) ==
  /\ At(c, "phrase")
  /\ session = NoPhrase
  /\ HasWallet(disk)
  /\ Becomes(c, [call[c] EXCEPT !.pc = "remember", !.phrase = disk.wallet.phrase])
  /\ UNCHANGED <<disk, session, now, given, Bounds>>

\* Loads again, and remembers the phrase if the wallet is unlocked now.
Remember(c) ==
  /\ At(c, "remember")
  /\ disk.wallet # Torn
  /\ session' = IF Unlocked(disk) THEN call[c].phrase ELSE session
  /\ Becomes(c, WithPhrase(c, call[c].phrase))
  /\ UNCHANGED <<disk, now, given, Bounds>>

(***************************************************************************)
(* Load, change, save                                                      *)
(***************************************************************************)
Load(c) ==
  /\ At(c, "load")
  /\ disk.wallet # Torn
  /\ Becomes(c, [call[c] EXCEPT !.pc = "change", !.copy = disk,
                               !.overtaken = @ /\ call[c].op = "scan"])
  /\ UNCHANGED <<disk, session, now, given, Bounds>>

\* After a change that needs no save, or after the last save.
Done(c) ==
  IF call[c].op = "scan"
  THEN [call[c] EXCEPT !.pc = "scanning", !.change = NoChange, !.copy = Nothing]
  ELSE Free

AtBound(store, change) ==
  change[1] = "bump" /\ HasWallet(store) /\ store.wallet.next = MaxIndex

Underivable(change) == change[1] = "import" /\ change[2] \in BadSecrets

Change(c) ==
  LET k == call[c].copy  change == call[c].change IN
  /\ At(c, "change")
  /\ ~Underivable(change)
  /\ ~NothingToSave(k, change)
  /\ ~AtBound(k, change)
  /\ session' = Remembered(k, change)
  /\ Becomes(c, [call[c] EXCEPT !.pc = "save", !.copy = Changed(k, change)])
  /\ UNCHANGED <<disk, now, given, Bounds>>

\* An import remembers what it was given before it derives addresses from it, and derives
\* before it saves.
PrecacheFails(c) ==
  /\ At(c, "change")
  /\ Underivable(call[c].change)
  /\ session' = call[c].change[2]
  /\ Becomes(c, Free)
  /\ UNCHANGED <<disk, now, given, Bounds>>

\* Mutant of NoSave: create remembers the phrase before it finds that there is a wallet.
RemembersAnyway(c) ==
  /\ At(c, "change")
  /\ NothingToSave(call[c].copy, call[c].change)
  /\ session' = IF call[c].op = "create" THEN call[c].change[2] ELSE session
  /\ Becomes(c, Done(c))
  /\ UNCHANGED <<disk, now, given, Bounds>>

NoSave(c) ==
  /\ At(c, "change")
  /\ NothingToSave(call[c].copy, call[c].change)
  /\ Becomes(c, Done(c))
  /\ UNCHANGED <<disk, session, now, given, Bounds>>

\* The save of a scan or of a single change; create goes on to fill the cached scripts of the
\* copy it has just saved, and save that.
Save(c) ==
  LET change == call[c].change IN
  /\ At(c, "save")
  /\ disk' = call[c].copy
  /\ given' = IF change[1] \in {"create", "import"} THEN {} ELSE given
  /\ Overtakes(c,
       CASE change[1] = "create" ->
              [call[c] EXCEPT !.change = <<"precache", 0>>,
                              !.copy = Changed(call[c].copy, <<"precache", 0>>)]
         [] call[c].op = "address" -> [call[c] EXCEPT !.pc = "give"]
         [] OTHER -> Done(c))
  /\ UNCHANGED <<session, now, Bounds>>

\* new_receive_address returns the address at the index before the bump.
HandOut(c) ==
  /\ At(c, "give")
  /\ call[c].phrase \in Phrases
  /\ given' = given \cup {<<call[c].phrase, call[c].copy.wallet.next - 1>>}
  /\ Becomes(c, Free)
  /\ UNCHANGED <<disk, session, now, Bounds>>

\* Mutant of SaveFails: an address is returned although the counter was not saved.
SaveErrorIgnored(c) ==
  /\ At(c, "save")
  /\ call[c].change[1] \in FailIn
  /\ failed < MaxFailures
  /\ failed' = failed + 1
  /\ Becomes(c, IF call[c].op = "address" THEN [call[c] EXCEPT !.pc = "give"] ELSE Free)
  /\ UNCHANGED <<disk, session, now, given, crashes>>

SaveFails(c) ==
  /\ At(c, "save")
  /\ call[c].change[1] \in FailIn
  /\ failed < MaxFailures
  /\ failed' = failed + 1
  /\ Becomes(c, Free)
  /\ UNCHANGED <<disk, session, now, given, crashes>>

\* A store that cannot be read, no phrase to be had, the wrong password, a payment
\* that is not broadcast or leaves no change, a wallet at the bound of what it derives, or
\* a text in memory that no address can be derived from: the counter is raised for nothing.
Refused(c) ==
  \/ call[c].pc \in {"load", "remember"} /\ disk.wallet = Torn
  \/ At(c, "phrase") /\ session = NoPhrase
  \/ At(c, "phrase") /\ call[c].op = "payment" /\ session \in BadSecrets
  \/ At(c, "give") /\ call[c].phrase \in BadSecrets
  \/ At(c, "load") /\ call[c].op = "payment"
  \/ At(c, "change") /\ call[c].change[1] = "unlock"
  \/ At(c, "change") /\ AtBound(call[c].copy, call[c].change)

CallFails(c) ==
  /\ Refused(c)
  /\ Becomes(c, Free)
  /\ UNCHANGED <<disk, session, now, given, Bounds>>

(***************************************************************************)
(* The world around it                                                     *)
(***************************************************************************)
TimePasses ==
  /\ now < MaxTime
  /\ now' = now + 1
  /\ UNCHANGED <<disk, session, call, given, Bounds>>

\* The program ends and starts again.  A write that was under way may be cut short.
Crash ==
  /\ crashes < MaxCrashes
  /\ crashes' = crashes + 1
  /\ session' = NoPhrase
  /\ call' = [c \in Callers |-> Free]
  /\ \/ disk' = disk
     \/ /\ TornWrites
        /\ \E c \in Callers : At(c, "save")
        /\ disk' = [wallet |-> Torn, until |-> 0]
  /\ UNCHANGED <<now, given, failed>>

Next ==
  \/ \E c \in Callers :
       \/ Create(c) \/ Import(c) \/ Unlock(c) \/ Lock(c)
       \/ NewReceiveAddress(c) \/ Rescan(c) \/ Pay(c)
       \/ BeginScan(c) \/ ScanStores(c) \/ ScanReturns(c)
       \/ PhraseInMemory(c) \/ Decrypt(c) \/ Remember(c)
       \/ Load(c) \/ Change(c) \/ PrecacheFails(c) \/ NoSave(c) \/ Save(c) \/ HandOut(c)
       \/ SaveFails(c) \/ CallFails(c)
  \/ TimePasses
  \/ Crash

Spec == Init /\ [][Next]_vars

(***************************************************************************)
(* Properties                                                              *)
(***************************************************************************)
\* Every variable has its type.
TypeOK ==
  /\ disk \in Stores
  /\ session \in Secrets \cup {NoPhrase}
  /\ now \in 1..MaxTime
  /\ call \in [Callers -> CallStates]
  /\ given \subseteq AllScripts
  /\ crashes \in 0..MaxCrashes
  /\ failed \in 0..MaxFailures

\* A phrase in memory that addresses can be derived from is the one the record was sealed
\* with, whenever no call is under way: unlock, lock, import and create leave the two in step.
\* What a failed import has left there derives no address, so nothing is made of it.
SessionMatchesRecord ==
  Quiet /\ session \in Phrases =>
    HasWallet(disk) /\ session = disk.wallet.phrase

\* Whatever is in memory is the phrase of the record.  Not so: Keystore_badsecret.cfg.
SessionIsOfRecord ==
  Quiet /\ session # NoPhrase =>
    HasWallet(disk) /\ session = disk.wallet.phrase

\* The record's list of funded scripts holds only scripts of its own phrase: an import leaves
\* no work of a scan or a payment with the phrase before.
OwnScriptsOnly ==
  HasWallet(disk) => disk.wallet.funded \subseteq Scripts(disk.wallet.phrase)

\* list_receive_addresses, of which the text says "on-chain + generated on this device".
Listed ==
  {a \in Scripts(session) : a[2] < disk.wallet.next \/ a \in disk.wallet.funded}

\* Every address that new_receive_address has handed out for the record is in the list of
\* receive addresses, whenever the list can be made and no call is under way.
GeneratedListed ==
  Quiet /\ HasWallet(disk) /\ Unlocked(disk) /\ session \in Phrases => given \subseteq Listed

\* No address is handed out twice for one record, whatever save fails or crash comes: it is
\* handed out after the counter that passes it was saved (light_keystore.rs:178-180).
NeverGivenTwice ==
  [][\A c \in Callers : HandOut(c) =>
       <<call[c].phrase, call[c].copy.wallet.next - 1>> \notin given]_vars

\* A store that a crash left can be loaded: "Import your recovery phrase from Setup to
\* restore access" is what the wallet tells a user whose keys are missing from it.
ImportCanLoad ==
  \A c \in Callers :
    At(c, "load") /\ call[c].change[1] = "import" => disk.wallet # Torn
=============================================================================
