---------------------------- MODULE KeystoreProofs ----------------------------
(***************************************************************************)
(* What holds of the keystore for every set of phrases and every bound:    *)
(* for any number of callers, its types, and that a save no other call has *)
(* come before is one step of AtomicKeystore; for calls that do not        *)
(* overlap, the invariants of its passing run.                             *)
(***************************************************************************)
EXTENDS MCKeystore, TLAPS

\* What the steps of a call rely on, besides its type: which wallet a copy must have before
\* it is saved, and that a call that uses a phrase has one.
Formed(j) ==
  /\ j.op = "address" => j.change = <<"bump", 0>>
  /\ j.pc = "scanning" => j.op = "scan"
  /\ j.pc \in {"phrase", "remember"} => j.op \in {"address", "payment"}
  /\ j.op = "scan" \/ j.pc = "remember" => j.phrase \in Phrases
  /\ j.pc = "save" /\ j.change[1] \in {"create", "bump"} => HasWallet(j.copy)
  /\ j.pc = "save" /\ j.change[1] = "bump" => j.copy.wallet.next > 0
  /\ j.pc = "give" => HasWallet(j.copy) /\ j.copy.wallet.next > 0

Good == {j \in CallStates : Formed(j)}
TypeInv == TypeOK /\ call \in [Callers -> Good]

-----------------------------------------------------------------------------
\* What a change carries with it.
LEMMA ChangeCarries ==
  ASSUME NEW change \in Changes
  PROVE  /\ change[1] = "create" => change[2] \in Phrases
         /\ change[1] = "import" => change[2] \in Secrets
         /\ change[1] = "unlock" => change[2] \in Durations
         /\ change[1] = "raise" => change[2] \in 1 .. MaxIndex
         /\ change[1] = "funded" => change[2] \subseteq AllScripts
         /\ change[1] = "register" => change[2] \in AllScripts
         /\ change[1] = "progress" => change[2] \in 0 .. MaxProgress
         /\ change[1] \in {"create", "import", "unlock", "lock", "precache", "bump", "complete",
                           "incomplete", "raise", "funded", "register", "progress"}
  BY DEF Changes

\* Scripts of a phrase are scripts.
LEMMA ScriptsAreAll == \A p \in Phrases : Scripts(p) \subseteq AllScripts
  BY DEF Scripts, AllScripts

\* A wallet that has just been sealed is one.
LEMMA SealedIsWallet == \A p \in Phrases : Sealed(p) \in Wallets
  BY KeystoreAssumption DEF Sealed, Wallets

\* The same wallet with one field changed.
LEMMA WalletWith ==
  ASSUME NEW w \in Wallets
  PROVE  /\ [w EXCEPT !.cached = TRUE] \in Wallets
         /\ \A x \in 0 .. MaxIndex : [w EXCEPT !.next = x] \in Wallets
         /\ \A x \in SUBSET AllScripts : [w EXCEPT !.funded = x] \in Wallets
         /\ \A x \in 0 .. MaxProgress : [w EXCEPT !.progress = x] \in Wallets
         /\ \A x \in 0 .. MaxProgress, b \in BOOLEAN :
               [w EXCEPT !.progress = x, !.complete = b] \in Wallets
  BY DEF Wallets

\* The wallet of the store that a change makes: only the time that a wallet stays unlocked
\* until depends on anything but the wallet.
NewWallet(w, change) ==
  LET x == change[2] IN
  CASE change[1] = "create" -> Sealed(x)
    [] change[1] = "import" -> [Sealed(x) EXCEPT !.cached = TRUE]
    [] change[1] = "precache" -> [w EXCEPT !.cached = TRUE]
    [] change[1] = "bump" -> [w EXCEPT !.next = w.next + 1]
    [] change[1] = "raise" -> [w EXCEPT !.next = x]
    [] change[1] = "funded" -> [w EXCEPT !.funded = x]
    [] change[1] = "register" -> [w EXCEPT !.funded = w.funded \cup {x}]
    [] change[1] = "progress" -> [w EXCEPT !.progress = x]
    [] change[1] = "complete" -> [w EXCEPT !.progress = 0, !.complete = TRUE]
    [] change[1] = "incomplete" -> [w EXCEPT !.progress = 0, !.complete = FALSE]
    [] OTHER -> w

\* Whether a change can be made of a wallet.
Changeable(store, change) ==
  /\ change[1] \notin {"create", "import", "lock", "unlock"} => HasWallet(store)
  /\ change[1] = "bump" => store.wallet.next # MaxIndex
  /\ ~Underivable(change)

LEMMA NewWalletIsWallet ==
  ASSUME NEW store \in Stores, NEW change \in Changes, Changeable(store, change)
  PROVE  /\ NewWallet(store.wallet, change) \in Wallets \cup {NoWallet, Torn}
         /\ change[1] \notin {"lock", "unlock"} => NewWallet(store.wallet, change) \in Wallets
<1>1. store.wallet \in Wallets \cup {NoWallet, Torn}
  BY DEF Stores
<1>2. change[1] \notin {"create", "import", "lock", "unlock"} => store.wallet \in Wallets
  BY <1>1 DEF Changeable, HasWallet
<1>3. CASE change[1] = "create"
  BY <1>3, ChangeCarries, SealedIsWallet DEF NewWallet
<1>4. CASE change[1] = "import"
  <2>1. change[2] \in Phrases
    BY <1>4, ChangeCarries DEF Changeable, Underivable, Secrets
  <2> QED
    BY <1>4, <2>1, SealedIsWallet, WalletWith DEF NewWallet
<1>5. CASE change[1] = "bump"
  <2>1. store.wallet.next \in 0 .. MaxIndex
    BY <1>2, <1>5 DEF Wallets
  <2>2. store.wallet.next + 1 \in 0 .. MaxIndex
    BY <1>5, <2>1, KeystoreAssumption DEF Changeable
  <2> QED
    BY <1>2, <1>5, <2>2, WalletWith DEF NewWallet
<1>6. CASE change[1] = "register"
  <2>1. store.wallet.funded \cup {change[2]} \in SUBSET AllScripts
    BY <1>2, <1>6, ChangeCarries DEF Wallets
  <2> QED
    BY <1>2, <1>6, <2>1, WalletWith DEF NewWallet
<1>7. CASE change[1] \in {"complete", "incomplete"}
  <2>1. 0 \in 0 .. MaxProgress
    BY KeystoreAssumption
  <2> QED
    BY <1>2, <1>7, <2>1, WalletWith DEF NewWallet
<1>8. CASE change[1] = "raise"
  <2>1. change[2] \in 0 .. MaxIndex
    BY <1>8, ChangeCarries
  <2> QED
    BY <1>2, <1>8, <2>1, WalletWith DEF NewWallet
<1>9. CASE change[1] \in {"precache", "funded", "progress"}
  BY <1>2, <1>9, ChangeCarries, WalletWith DEF NewWallet
<1>10. CASE change[1] \in {"lock", "unlock"}
  BY <1>1, <1>10 DEF NewWallet
<1> QED
  BY <1>3, <1>4, <1>5, <1>6, <1>7, <1>8, <1>9, <1>10, ChangeCarries

\* The store that a change makes.
LEMMA ChangedIsStore ==
  ASSUME NEW store \in Stores, NEW change \in Changes, now \in 1 .. MaxTime,
         Changeable(store, change)
  PROVE  /\ Changed(store, change) \in Stores
         /\ Changed(store, change).wallet = NewWallet(store.wallet, change)
<1>1. \A w \in Wallets \cup {NoWallet, Torn} : \A u \in 0 .. (2 * MaxTime) :
         [wallet |-> w, until |-> u] \in Stores
  BY DEF Stores
<1>2. \A x \in 0 .. MaxTime : now + x \in 0 .. (2 * MaxTime)
  BY KeystoreAssumption
<1>3. /\ store = [wallet |-> store.wallet, until |-> store.until]
      /\ store.until \in 0 .. (2 * MaxTime)
  BY DEF Stores
<1> DEFINE w == NewWallet(store.wallet, change)
<1>4. w \in Wallets \cup {NoWallet, Torn}
  BY NewWalletIsWallet
<1>5. CASE change[1] \in {"create", "import", "unlock"}
  <2> DEFINE u == IF change[1] = "unlock" THEN now + change[2] ELSE now + MaxTime
  <2>1. u \in 0 .. (2 * MaxTime)
    <3>1. change[1] = "unlock" => change[2] \in 0 .. MaxTime
      BY ChangeCarries, KeystoreAssumption
    <3>2. MaxTime \in 0 .. MaxTime
      BY KeystoreAssumption
    <3> QED
      BY <1>2, <1>5, <3>1, <3>2
  <2>2. Changed(store, change) = [wallet |-> w, until |-> u]
    BY <1>3, <1>5 DEF Changed, Fresh, NewWallet
  <2> HIDE DEF u, w
  <2>3. Changed(store, change) \in Stores /\ Changed(store, change).wallet = w
    BY <1>1, <1>4, <2>1, <2>2
  <2> QED
    BY <2>3 DEF w
<1>6. CASE change[1] = "lock"
  <2>1. Changed(store, change) = [wallet |-> store.wallet, until |-> 0]
    BY <1>3, <1>6 DEF Changed
  <2>2. w = store.wallet
    BY <1>6 DEF NewWallet
  <2>3. 0 \in 0 .. (2 * MaxTime)
    BY KeystoreAssumption
  <2> QED
    BY <1>1, <1>4, <2>1, <2>2, <2>3
<1>7. CASE change[1] \notin {"create", "import", "unlock", "lock"}
  <2>1. Changed(store, change) = [wallet |-> w, until |-> store.until]
    BY <1>3, <1>7, ChangeCarries DEF Changed, NewWallet
  <2> HIDE DEF w
  <2>2. Changed(store, change) \in Stores /\ Changed(store, change).wallet = w
    BY <1>1, <1>3, <1>4, <2>1
  <2> QED
    BY <2>2 DEF w
<1> QED
  BY <1>5, <1>6, <1>7

-----------------------------------------------------------------------------
\* A step that replaces one call by another keeps the calls.
LEMMA Moved ==
  ASSUME call \in [Callers -> Good], NEW c \in Callers, NEW j \in Good, Becomes(c, j)
  PROVE  call' \in [Callers -> Good] /\ call' \in [Callers -> CallStates]
  BY DEF Good, Becomes

\* So does a save, which overtakes the other calls.
LEMMA MovedBySave ==
  ASSUME call \in [Callers -> Good], NEW c \in Callers, NEW j \in Good, Overtakes(c, j)
  PROVE  call' \in [Callers -> Good] /\ call' \in [Callers -> CallStates]
<1>1. ASSUME NEW d \in Callers, NEW b \in BOOLEAN
      PROVE  [call[d] EXCEPT !.overtaken = b] \in Good
  <2> DEFINE k == [call[d] EXCEPT !.overtaken = b]
  <2>1. call[d] \in CallStates /\ Formed(call[d])
    BY DEF Good
  <2>2. /\ k \in CallStates /\ k.op = call[d].op /\ k.pc = call[d].pc
        /\ k.phrase = call[d].phrase /\ k.change = call[d].change /\ k.copy = call[d].copy
    BY <2>1 DEF CallStates
  <2> HIDE DEF k
  <2>3. k \in Good
    BY <2>1, <2>2 DEF Good, Formed
  <2> QED
    BY <2>3 DEF k
<1>2. \A d \in Callers : (call[d].pc # "free") \in BOOLEAN
  OBVIOUS
<1>3. call' = [d \in Callers |-> IF d = c THEN j
                 ELSE [call[d] EXCEPT !.overtaken = call[d].pc # "free"]]
  BY DEF Overtakes
<1>4. \A d \in Callers : (IF d = c THEN j
        ELSE [call[d] EXCEPT !.overtaken = call[d].pc # "free"]) \in Good
  BY <1>1, <1>2
<1>5. call' \in [Callers -> Good]
  BY <1>3, <1>4
<1> QED
  BY <1>5 DEF Good

\* Nothing is under way.
LEMMA FreeIsGood == Free \in Good
<1>1. Nothing \in Stores
  BY KeystoreAssumption DEF Nothing, Stores
<1>2. NoChange \in Changes
  BY DEF NoChange, Changes
<1>3. Free \in CallStates
  BY <1>1, <1>2 DEF Free, CallStates, Purposes
<1> QED
  BY <1>3 DEF Good, Formed, Free, NoChange

\* The calls begin with a change to make.
LEMMA BeginsWithChange ==
  ASSUME NEW change \in Changes, NEW op \in {"change", "create"}
  PROVE  /\ [Free EXCEPT !.op = op, !.pc = "load", !.change = change] \in Good
         /\ [Free EXCEPT !.pc = "load", !.change = change] \in Good
<1>0. Free \in CallStates
  BY FreeIsGood DEF Good
<1> DEFINE a == [Free EXCEPT !.op = op, !.pc = "load", !.change = change]
           b == [Free EXCEPT !.pc = "load", !.change = change]
<1>1. a \in CallStates /\ a.op = op /\ a.pc = "load"
  BY <1>0 DEF CallStates, Purposes
<1>2. b \in CallStates /\ b.op = "change" /\ b.pc = "load"
  BY <1>0 DEF CallStates, Free
<1> HIDE DEF a, b
<1>3. a \in Good /\ b \in Good
  BY <1>1, <1>2 DEF Good, Formed
<1> QED
  BY <1>3 DEF a, b

LEMMA BeginsAreGood ==
  ASSUME TypeInv, NEW c \in Callers,
         \/ Create(c) \/ Import(c) \/ Unlock(c) \/ Lock(c)
         \/ NewReceiveAddress(c) \/ Rescan(c) \/ Pay(c) \/ BeginScan(c)
  PROVE  TypeInv'
<1> USE DEF TypeInv
<1>0. Free \in CallStates
  BY FreeIsGood DEF Good
<1>1. ASSUME call' \in [Callers -> Good] /\ call' \in [Callers -> CallStates],
             session' \in Secrets \cup {NoPhrase}, UNCHANGED <<disk, now, given, Bounds>>
      PROVE  TypeInv'
  BY <1>1 DEF TypeOK, Bounds
<1>2. ASSUME NEW change \in Changes, NEW op \in {"change", "create"},
             \/ Becomes(c, [Free EXCEPT !.op = op, !.pc = "load", !.change = change])
             \/ Becomes(c, [Free EXCEPT !.pc = "load", !.change = change])
      PROVE  call' \in [Callers -> Good] /\ call' \in [Callers -> CallStates]
  BY <1>2, BeginsWithChange, Moved
<1>3. CASE Create(c)
  <2>1. PICK p \in Phrases :
           Becomes(c, [Free EXCEPT !.op = "create", !.pc = "load", !.change = <<"create", p>>])
    BY <1>3 DEF Create, Begins
  <2>2. <<"create", p>> \in Changes
    BY DEF Changes
  <2> QED
    BY <1>1, <1>2, <1>3, <2>1, <2>2 DEF Create, TypeOK
<1>4. CASE Import(c)
  <2>1. PICK p \in Secrets : Becomes(c, [Free EXCEPT !.pc = "load", !.change = <<"import", p>>])
    BY <1>4 DEF Import, Begins
  <2>2. <<"import", p>> \in Changes
    BY DEF Changes
  <2> QED
    BY <1>1, <1>2, <1>4, <2>1, <2>2 DEF Import
<1>5. CASE Unlock(c)
  <2>1. PICK d \in Durations : Becomes(c, [Free EXCEPT !.pc = "load", !.change = <<"unlock", d>>])
    BY <1>5 DEF Unlock, Begins
  <2>2. <<"unlock", d>> \in Changes
    BY DEF Changes
  <2> QED
    BY <1>1, <1>2, <1>5, <2>1, <2>2 DEF Unlock, TypeOK
<1>6. CASE Lock(c)
  <2>1. <<"lock", 0>> \in Changes
    BY DEF Changes
  <2>2. Becomes(c, [Free EXCEPT !.pc = "load", !.change = <<"lock", 0>>])
    BY <1>6 DEF Lock, Begins
  <2> QED
    BY <1>1, <1>2, <1>6, <2>1, <2>2 DEF Lock
<1>7. CASE NewReceiveAddress(c)
  <2> DEFINE j == [Free EXCEPT !.op = "address", !.pc = "phrase", !.change = <<"bump", 0>>]
  <2>1. <<"bump", 0>> \in Changes
    BY DEF Changes
  <2>2. j \in CallStates /\ j.op = "address" /\ j.pc = "phrase" /\ j.change = <<"bump", 0>>
    BY <1>0, <2>1 DEF CallStates, Purposes
  <2>3. Becomes(c, j)
    BY <1>7 DEF NewReceiveAddress, Begins
  <2> HIDE DEF j
  <2>4. j \in Good
    BY <2>2 DEF Good, Formed
  <2> QED
    BY <1>1, <1>7, <2>3, <2>4, Moved DEF NewReceiveAddress, TypeOK
<1>8. CASE Rescan(c)
  <2>1. <<"incomplete", 0>> \in Changes
    BY DEF Changes
  <2>2. Becomes(c, [Free EXCEPT !.pc = "load", !.change = <<"incomplete", 0>>])
    BY <1>8 DEF Rescan, Begins
  <2> QED
    BY <1>1, <1>2, <1>8, <2>1, <2>2 DEF Rescan, TypeOK
<1>9. CASE Pay(c)
  <2> DEFINE j == [Free EXCEPT !.op = "payment", !.pc = "phrase"]
  <2>1. j \in CallStates /\ j.op = "payment" /\ j.pc = "phrase"
    BY <1>0 DEF CallStates, Purposes
  <2>2. Becomes(c, j)
    BY <1>9 DEF Pay, Begins
  <2> HIDE DEF j
  <2>3. j \in Good
    BY <2>1 DEF Good, Formed
  <2> QED
    BY <1>1, <1>9, <2>2, <2>3, Moved DEF Pay, TypeOK
<1>10. CASE BeginScan(c)
  <2> DEFINE j == [Free EXCEPT !.op = "scan", !.pc = "scanning", !.phrase = session,
                               !.list = disk.wallet.funded]
  <2>1. session \in Phrases /\ session \in Secrets
    BY <1>10 DEF BeginScan, Secrets
  <2>2. disk.wallet \in Wallets
    BY <1>10 DEF BeginScan, TypeOK, HasWallet, Stores
  <2>3. disk.wallet.funded \in SUBSET AllScripts
    BY <2>2 DEF Wallets
  <2>4. j \in CallStates /\ j.op = "scan" /\ j.pc = "scanning" /\ j.phrase = session
    BY <1>0, <2>1, <2>3 DEF CallStates, Purposes
  <2>5. Becomes(c, j)
    BY <1>10 DEF BeginScan, Begins
  <2> HIDE DEF j
  <2>6. j \in Good
    BY <2>1, <2>4 DEF Good, Formed
  <2> QED
    BY <1>1, <1>10, <2>5, <2>6, Moved DEF BeginScan, TypeOK
<1> QED
  BY <1>3, <1>4, <1>5, <1>6, <1>7, <1>8, <1>9, <1>10

\* A call that has its phrase goes on to load.
LEMMA WithPhraseIsGood ==
  ASSUME TypeInv, NEW c \in Callers, NEW phrase \in Secrets,
         call[c].op = "payment" => phrase \in Phrases,
         At(c, "phrase") \/ At(c, "remember")
  PROVE  /\ WithPhrase(c, phrase) \in Good
         /\ WithPhrase(c, phrase).op = call[c].op
         /\ WithPhrase(c, phrase).pc = "load"
         /\ WithPhrase(c, phrase).phrase = phrase
         /\ WithPhrase(c, phrase).list = call[c].list
         /\ call[c].op # "payment" => WithPhrase(c, phrase).change = call[c].change
         /\ call[c].op = "payment" => \E i \in 0 .. (MaxIndex - 1) :
               WithPhrase(c, phrase).change = <<"register", <<phrase, i>>>>
<1> USE DEF TypeInv
<1>0. call[c] \in CallStates /\ Formed(call[c])
  BY DEF Good
<1>1. CASE call[c].op = "payment"
  <2> DEFINE last == IF HasWallet(disk) /\ disk.wallet.next > 0 THEN disk.wallet.next - 1 ELSE 0
             change == <<"register", <<phrase, last>>>>
             j == [call[c] EXCEPT !.pc = "load", !.phrase = phrase, !.change = change]
  <2>1. last \in 0 .. (MaxIndex - 1)
    <3>1. HasWallet(disk) => disk.wallet.next \in 0 .. MaxIndex
      BY DEF HasWallet, TypeOK, Stores, Wallets
    <3> QED
      BY <3>1, KeystoreAssumption
  <2>2. WithPhrase(c, phrase) = j
    BY <1>1 DEF WithPhrase
  <2>3. change \in Changes
    BY <1>1, <2>1 DEF Changes, AllScripts
  <2>4. change = <<"register", <<phrase, last>>>>
    OBVIOUS
  <2> HIDE DEF last, change
  <2>5. /\ j \in CallStates /\ j.pc = "load" /\ j.op = call[c].op /\ j.phrase = phrase
        /\ j.list = call[c].list /\ j.change = change
    BY <1>0, <2>3 DEF CallStates
  <2> HIDE DEF j
  <2>6. j \in Good
    BY <1>1, <2>5 DEF Good, Formed
  <2> QED
    BY <1>1, <2>1, <2>2, <2>4, <2>5, <2>6
<1>2. CASE call[c].op # "payment"
  <2> DEFINE j == [call[c] EXCEPT !.pc = "load", !.phrase = phrase]
  <2>1. WithPhrase(c, phrase) = j
    BY <1>2 DEF WithPhrase
  <2>2. /\ j \in CallStates /\ j.pc = "load" /\ j.op = call[c].op /\ j.phrase = phrase
        /\ j.list = call[c].list /\ j.change = call[c].change
    BY <1>0 DEF CallStates
  <2> HIDE DEF j
  <2>3. j \in Good
    BY <1>0, <1>2, <2>2 DEF Good, Formed, At
  <2> QED
    BY <1>2, <2>1, <2>2, <2>3
<1> QED
  BY <1>1, <1>2

LEMMA ScansAndPhrasesAreGood ==
  ASSUME TypeInv, NEW c \in Callers,
         \/ ScanStores(c) \/ ScanReturns(c)
         \/ PhraseInMemory(c) \/ Decrypt(c) \/ Remember(c)
  PROVE  TypeInv'
<1> USE DEF TypeInv
<1>0. call[c] \in CallStates /\ Formed(call[c]) /\ call[c] \in Good
  BY DEF Good
<1>1. ASSUME call' \in [Callers -> Good] /\ call' \in [Callers -> CallStates],
             session' \in Secrets \cup {NoPhrase}, UNCHANGED <<disk, now, given, Bounds>>
      PROVE  TypeInv'
  BY <1>1 DEF TypeOK, Bounds
<1>2. CASE ScanStores(c)
  <2>1. PICK change \in Changes, found \in SUBSET Scripts(call[c].phrase) :
           Becomes(c, [call[c] EXCEPT !.pc = "load", !.change = change,
                                      !.list = call[c].list \cup found])
    BY <1>2 DEF ScanStores
  <2> DEFINE list == call[c].list \cup found
             j == [call[c] EXCEPT !.pc = "load", !.change = change, !.list = list]
  <2>2. call[c].op = "scan" /\ call[c].phrase \in Phrases
    BY <1>0, <1>2 DEF ScanStores, At, Formed
  <2>3. list \in SUBSET AllScripts
    <3>1. call[c].list \in SUBSET AllScripts
      BY <1>0 DEF CallStates
    <3>2. found \subseteq AllScripts
      BY <2>2, ScriptsAreAll
    <3> QED
      BY <3>1, <3>2
  <2>4. Becomes(c, j)
    BY <2>1
  <2> HIDE DEF list
  <2>5. j \in CallStates /\ j.op = "scan" /\ j.pc = "load" /\ j.phrase \in Phrases
    BY <1>0, <2>2, <2>3 DEF CallStates
  <2> HIDE DEF j
  <2>6. j \in Good
    BY <2>5 DEF Good, Formed
  <2> QED
    BY <1>1, <1>2, <2>4, <2>6, Moved DEF ScanStores, TypeOK
<1>3. CASE ScanReturns(c)
  BY <1>1, <1>3, FreeIsGood, Moved DEF ScanReturns, TypeOK
<1>4. CASE PhraseInMemory(c)
  <2>1. session \in Secrets /\ (call[c].op = "payment" => session \in Phrases)
    BY <1>4 DEF PhraseInMemory, TypeOK
  <2>2. WithPhrase(c, session) \in Good
    BY <1>4, <2>1, WithPhraseIsGood DEF PhraseInMemory
  <2> QED
    BY <1>1, <1>4, <2>2, Moved DEF PhraseInMemory, TypeOK
<1>5. CASE Decrypt(c)
  <2> DEFINE phrase == disk.wallet.phrase
             j == [call[c] EXCEPT !.pc = "remember", !.phrase = phrase]
  <2>1. phrase \in Phrases
    BY <1>5 DEF Decrypt, HasWallet, TypeOK, Stores, Wallets
  <2>2. Becomes(c, j)
    BY <1>5 DEF Decrypt
  <2> HIDE DEF phrase
  <2>3. /\ j \in CallStates /\ j.op = call[c].op /\ j.pc = "remember" /\ j.phrase = phrase
        /\ j.change = call[c].change
    BY <1>0, <2>1 DEF CallStates, Secrets
  <2> HIDE DEF j
  <2>5. At(c, "phrase")
    BY <1>5 DEF Decrypt
  <2>4. j \in Good
    BY <1>0, <2>1, <2>3, <2>5 DEF Good, Formed, At
  <2> QED
    BY <1>1, <1>5, <2>2, <2>4, Moved DEF Decrypt, TypeOK
<1>6. CASE Remember(c)
  <2>1. call[c].phrase \in Phrases /\ call[c].phrase \in Secrets
    BY <1>0, <1>6 DEF Remember, At, Formed, Secrets
  <2>2. WithPhrase(c, call[c].phrase) \in Good
    BY <1>6, <2>1, WithPhraseIsGood DEF Remember
  <2>3. session' \in Secrets \cup {NoPhrase}
    BY <1>6, <2>1 DEF Remember, TypeOK
  <2> QED
    BY <1>1, <1>6, <2>2, <2>3, Moved DEF Remember
<1> QED
  BY <1>2, <1>3, <1>4, <1>5, <1>6

\* A change that is saved can be made, and has a wallet after it where that matters.
LEMMA ChangesAreChangeable ==
  ASSUME NEW store, NEW change, ~NothingToSave(store, change), ~AtBound(store, change),
         ~Underivable(change)
  PROVE  /\ Changeable(store, change)
         /\ change[1] = "unlock" => HasWallet(store)
  BY DEF NothingToSave, AtBound, Changeable

LEMMA ChangeMakes ==
  ASSUME NEW store \in Stores, NEW change \in Changes, now \in 1 .. MaxTime,
         Changeable(store, change)
  PROVE  /\ change[1] \notin {"lock", "unlock"} => HasWallet(Changed(store, change))
         /\ change[1] = "bump" => Changed(store, change).wallet.next > 0
<1>1. Changed(store, change).wallet = NewWallet(store.wallet, change)
  BY ChangedIsStore
<1>2. ASSUME change[1] \notin {"lock", "unlock"} PROVE HasWallet(Changed(store, change))
  BY <1>1, <1>2, NewWalletIsWallet, NoWalletAssumption DEF HasWallet
<1>3. ASSUME change[1] = "bump" PROVE Changed(store, change).wallet.next > 0
  <2>1. store.wallet \in Wallets
    BY <1>3 DEF Changeable, HasWallet, Stores
  <2>2. store.wallet.next \in Nat
    BY <2>1, KeystoreAssumption DEF Wallets
  <2>3. NewWallet(store.wallet, change).next = store.wallet.next + 1
    BY <1>3, <2>1 DEF NewWallet, Wallets
  <2> QED
    BY <1>1, <2>2, <2>3
<1> QED
  BY <1>2, <1>3

\* What follows a change: a scan goes on, any other call is over.
LEMMA DoneIsGood ==
  ASSUME TypeInv, NEW c \in Callers
  PROVE  /\ Done(c) \in Good
         /\ call[c].op # "scan" => Done(c) = Free
         /\ call[c].op = "scan" =>
              /\ Done(c).op = "scan" /\ Done(c).pc = "scanning" /\ Done(c).change = NoChange
              /\ Done(c).phrase = call[c].phrase /\ Done(c).list = call[c].list
              /\ Done(c).overtaken = call[c].overtaken
<1> USE DEF TypeInv
<1>0. call[c] \in CallStates /\ Formed(call[c])
  BY DEF Good
<1>1. CASE call[c].op = "scan"
  <2> DEFINE j == [call[c] EXCEPT !.pc = "scanning", !.change = NoChange, !.copy = Nothing]
  <2>1. Nothing \in Stores /\ NoChange \in Changes
    BY KeystoreAssumption DEF Nothing, Stores, NoChange, Changes
  <2>2. /\ j \in CallStates /\ j.op = "scan" /\ j.pc = "scanning" /\ j.change = NoChange
        /\ j.phrase = call[c].phrase /\ j.list = call[c].list
        /\ j.overtaken = call[c].overtaken
    BY <1>0, <1>1, <2>1 DEF CallStates
  <2>3. Done(c) = j
    BY <1>1 DEF Done
  <2> HIDE DEF j
  <2>4. j \in Good
    BY <1>0, <1>1, <2>2 DEF Good, Formed
  <2> QED
    BY <1>1, <2>2, <2>3, <2>4
<1>2. CASE call[c].op # "scan"
  BY <1>2, FreeIsGood DEF Done
<1> QED
  BY <1>1, <1>2

LEMMA SavesAreGood ==
  ASSUME TypeInv, NEW c \in Callers,
         \/ Load(c) \/ Change(c) \/ PrecacheFails(c) \/ NoSave(c) \/ Save(c)
         \/ HandOut(c) \/ SaveFails(c) \/ CallFails(c)
  PROVE  TypeInv'
<1> USE DEF TypeInv
<1>0. /\ call[c] \in CallStates /\ Formed(call[c]) /\ call[c] \in Good
      /\ call[c].copy \in Stores /\ call[c].change \in Changes
      /\ now \in 1 .. MaxTime
  BY DEF Good, CallStates, TypeOK
<1>1. CASE Load(c)
  <2> DEFINE b == call[c].overtaken /\ call[c].op = "scan"
             j == [call[c] EXCEPT !.pc = "change", !.copy = disk, !.overtaken = b]
  <2>1. /\ j \in CallStates /\ j.op = call[c].op /\ j.pc = "change" /\ j.phrase = call[c].phrase
        /\ j.change = call[c].change
    BY <1>0 DEF CallStates, TypeOK
  <2>2. Becomes(c, j)
    BY <1>1 DEF Load
  <2>a. At(c, "load")
    BY <1>1 DEF Load
  <2> HIDE DEF j
  <2>3. j \in Good
    BY <1>0, <2>1, <2>a DEF Good, Formed, At
  <2> QED
    BY <1>1, <2>2, <2>3, Moved DEF Load, TypeOK, Bounds
<1>2. CASE Change(c)
  <2> DEFINE copy == Changed(call[c].copy, call[c].change)
             j == [call[c] EXCEPT !.pc = "save", !.copy = copy]
  <2>1. Changeable(call[c].copy, call[c].change)
    BY <1>2, ChangesAreChangeable DEF Change
  <2>2. copy \in Stores
    BY <1>0, <2>1, ChangedIsStore
  <2>3. /\ call[c].change[1] \in {"create", "bump"} => HasWallet(copy)
        /\ call[c].change[1] = "bump" => copy.wallet.next > 0
    BY <1>0, <2>1, ChangeMakes
  <2>4. session' \in Secrets \cup {NoPhrase}
    <3>1. session' = Remembered(call[c].copy, call[c].change)
      BY <1>2 DEF Change
    <3>2. CASE call[c].change[1] \in {"create", "import"}
      BY <1>0, <3>1, <3>2, ChangeCarries DEF Remembered, Secrets
    <3>3. CASE call[c].change[1] = "unlock"
      <4>1. HasWallet(call[c].copy)
        BY <1>2, <3>3, ChangesAreChangeable DEF Change
      <4>2. call[c].copy.wallet.phrase \in Phrases
        BY <1>0, <4>1 DEF HasWallet, Stores, Wallets
      <4> QED
        BY <3>1, <3>3, <4>2 DEF Remembered, Secrets
    <3>4. CASE call[c].change[1] \notin {"create", "import", "unlock"}
      BY <3>1, <3>4 DEF Remembered, TypeOK
    <3> QED
      BY <3>2, <3>3, <3>4
  <2>5. Becomes(c, j)
    BY <1>2 DEF Change
  <2> HIDE DEF copy
  <2>6. /\ j \in CallStates /\ j.op = call[c].op /\ j.pc = "save" /\ j.phrase = call[c].phrase
        /\ j.change = call[c].change /\ j.copy = copy
    BY <1>0, <2>2 DEF CallStates
  <2>7. At(c, "change")
    BY <1>2 DEF Change
  <2> HIDE DEF j
  <2>8. j \in Good
    BY <1>0, <2>3, <2>6, <2>7 DEF Good, Formed, At
  <2> QED
    BY <1>2, <2>4, <2>5, <2>8, Moved DEF Change, TypeOK, Bounds
<1>3. CASE NoSave(c)
  <2>1. Done(c) \in Good
    BY DoneIsGood
  <2> QED
    BY <1>3, <2>1, Moved DEF NoSave, TypeOK, Bounds
<1>4. CASE Save(c)
  <2>1. \E j \in Good : Overtakes(c, j)
    <3>1. CASE call[c].change[1] = "create"
      <4> DEFINE change == <<"precache", 0>>
                 copy == Changed(call[c].copy, change)
                 j == [call[c] EXCEPT !.change = change, !.copy = copy]
      <4>1. change \in Changes /\ change[1] = "precache"
        BY DEF Changes
      <4>2. HasWallet(call[c].copy)
        BY <1>0, <1>4, <3>1 DEF Save, At, Formed
      <4>3. Changeable(call[c].copy, change)
        BY <4>1, <4>2 DEF Changeable, Underivable
      <4>4. Overtakes(c, j)
        <5> DEFINE next ==
              CASE call[c].change[1] = "create" -> j
                [] call[c].op = "address" -> [call[c] EXCEPT !.pc = "give"]
                [] OTHER -> Done(c)
        <5>1. Overtakes(c, next)
          BY <1>4 DEF Save
        <5>2. next = j
          <6> HIDE DEF j
          <6> QED
            BY <1>0, <3>1 DEF Formed
        <5> QED
          BY <5>1, <5>2
      <4> HIDE DEF change
      <4>5. copy \in Stores
        BY <1>0, <4>1, <4>3, ChangedIsStore
      <4> HIDE DEF copy
      <4>6. /\ j \in CallStates /\ j.op = call[c].op /\ j.pc = call[c].pc
            /\ j.phrase = call[c].phrase /\ j.change = change
        BY <1>0, <4>1, <4>5 DEF CallStates
      <4>7. At(c, "save")
        BY <1>4 DEF Save
      <4> HIDE DEF j
      <4>8. j \in Good
        BY <1>0, <3>1, <4>1, <4>6, <4>7 DEF Good, Formed, At
      <4> QED
        BY <4>4, <4>8
    <3>2. CASE call[c].change[1] # "create" /\ call[c].op = "address"
      <4> DEFINE j == [call[c] EXCEPT !.pc = "give"]
      <4>1. Overtakes(c, j)
        BY <1>4, <3>2 DEF Save
      <4>2. /\ j \in CallStates /\ j.op = call[c].op /\ j.pc = "give"
            /\ j.phrase = call[c].phrase /\ j.change = call[c].change /\ j.copy = call[c].copy
        BY <1>0 DEF CallStates
      <4>3. At(c, "save")
        BY <1>4 DEF Save
      <4> HIDE DEF j
      <4>4. j \in Good
        BY <1>0, <3>2, <4>2, <4>3 DEF Good, Formed, At
      <4> QED
        BY <4>1, <4>4
    <3>3. CASE call[c].change[1] # "create" /\ call[c].op # "address"
      BY <1>4, <3>3, DoneIsGood DEF Save
    <3> QED
      BY <3>1, <3>2, <3>3
  <2>2. disk' \in Stores /\ given' \subseteq AllScripts
    BY <1>0, <1>4 DEF Save, TypeOK
  <2> QED
    BY <1>4, <2>1, <2>2, MovedBySave DEF Save, TypeOK, Bounds
<1>5. CASE HandOut(c)
  <2>1. /\ call[c].phrase \in Phrases /\ HasWallet(call[c].copy)
        /\ call[c].copy.wallet.next > 0
    BY <1>0, <1>5 DEF HandOut, At, Formed
  <2>2. call[c].copy.wallet.next \in 0 .. MaxIndex
    BY <1>0, <2>1 DEF HasWallet, Stores, Wallets
  <2>3. call[c].copy.wallet.next - 1 \in 0 .. (MaxIndex - 1)
    BY <2>1, <2>2, KeystoreAssumption
  <2>4. given' \subseteq AllScripts
    BY <1>5, <2>1, <2>3 DEF HandOut, AllScripts, TypeOK
  <2> QED
    BY <1>5, <2>4, FreeIsGood, Moved DEF HandOut, TypeOK, Bounds
<1>6. CASE SaveFails(c)
  <2>1. failed' \in 0 .. MaxFailures
    BY <1>6, KeystoreAssumption DEF SaveFails, TypeOK
  <2> QED
    BY <1>6, <2>1, FreeIsGood, Moved DEF SaveFails, TypeOK
<1>7. CASE CallFails(c)
  BY <1>7, FreeIsGood, Moved DEF CallFails, TypeOK, Bounds
<1>8. CASE PrecacheFails(c)
  <2>1. session' \in Secrets
    BY <1>0, <1>8, ChangeCarries DEF PrecacheFails, Underivable
  <2> QED
    BY <1>8, <2>1, FreeIsGood, Moved DEF PrecacheFails, TypeOK, Bounds
<1> QED
  BY <1>1, <1>2, <1>3, <1>4, <1>5, <1>6, <1>7, <1>8

LEMMA WorldIsGood == ASSUME TypeInv, TimePasses \/ Crash PROVE TypeInv'
<1> USE DEF TypeInv
<1>1. CASE TimePasses
  <2>1. now' \in 1 .. MaxTime
    BY <1>1, KeystoreAssumption DEF TimePasses, TypeOK
  <2> QED
    BY <1>1, <2>1 DEF TimePasses, TypeOK, Bounds
<1>2. CASE Crash
  <2>1. call' \in [Callers -> Good] /\ call' \in [Callers -> CallStates]
    BY <1>2, FreeIsGood DEF Crash, Good
  <2>2. disk' \in Stores
    BY <1>2, KeystoreAssumption DEF Crash, TypeOK, Stores
  <2>3. crashes' \in 0 .. MaxCrashes
    BY <1>2, KeystoreAssumption DEF Crash, TypeOK
  <2> QED
    BY <1>2, <2>1, <2>2, <2>3 DEF Crash, TypeOK
<1> QED
  BY <1>1, <1>2

LEMMA StartsTyped == Init => TypeInv
<1> SUFFICES ASSUME Init PROVE TypeInv
  OBVIOUS
<1>1. call \in [Callers -> Good] /\ call \in [Callers -> CallStates]
  BY FreeIsGood DEF Init, Good
<1>2. Nothing \in Stores
  BY KeystoreAssumption DEF Nothing, Stores
<1> QED
  BY <1>1, <1>2, KeystoreAssumption DEF Init, TypeInv, TypeOK

LEMMA StaysTyped == TypeInv /\ [Next]_vars => TypeInv'
<1> SUFFICES ASSUME TypeInv, [Next]_vars PROVE TypeInv'
  OBVIOUS
<1>1. CASE UNCHANGED vars
  BY <1>1 DEF TypeInv, TypeOK, vars
<1>2. CASE Next
  BY <1>2, BeginsAreGood, ScansAndPhrasesAreGood, SavesAreGood, WorldIsGood DEF Next
<1> QED
  BY <1>1, <1>2

\* Type correctness, for any number of calls at once, torn writes and failing saves: a copy
\* that is saved has a wallet where the change needs one (light_keystore.rs:171), and an index
\* that a payment or an address uses is one that the wallet derives.
THEOREM TypeCorrect == Spec => []TypeOK
<1>1. TypeInv => TypeOK
  BY DEF TypeInv
<1> QED
  BY <1>1, StartsTyped, StaysTyped, PTL DEF Spec

-----------------------------------------------------------------------------
(***************************************************************************)
(* Calls that do not overlap, where the save of a new phrase does not fail *)
(* (Keystore_overlap.cfg and Keystore_unsaved.cfg show why both matter).   *)
(***************************************************************************)
OneCaller == \A c, d \in Callers : c = d
SealsAreSaved == FailIn \cap {"create", "import"} = {}

Sealing(j) == j.pc = "save" /\ j.change[1] \in {"create", "import"}

\* A call works on the record as it is: its phrase, its copy and what it changes are those of
\* the store on the disk.
Working(j) ==
  /\ j.pc \in {"phrase", "remember"} =>
       j.op \in {"address", "payment"} /\ j.change[1] # "register"
  /\ j.op \in {"scan", "address", "payment"} /\ j.pc \notin {"free", "phrase"} =>
       \/ HasWallet(disk) /\ j.phrase = disk.wallet.phrase
       \/ j.op = "address" /\ j.phrase \in BadSecrets
  /\ j.op = "scan" => j.list \subseteq Scripts(j.phrase) /\ disk.wallet.funded \subseteq j.list
  /\ j.change[1] = "funded" => j.op = "scan" /\ j.change[2] = j.list
  /\ j.change[1] = "register" => j.op = "payment" /\ j.change[2] \in Scripts(j.phrase)
  /\ j.change[1] \in {"create", "import"} => j.op \in {"change", "create"}
  /\ j.pc = "change" => j.copy = disk
  /\ j.pc = "save" =>
       /\ j.copy.wallet = NewWallet(disk.wallet, j.change)
       /\ Changeable(disk, j.change)
       /\ j.change[1] = "unlock" => HasWallet(disk)
       /\ j.change[1] = "create" => ~HasWallet(disk)
       /\ j.change[1] = "raise" => j.change[2] > disk.wallet.next
  /\ j.pc = "give" =>
       /\ j.op = "address"
       /\ j.copy.wallet = disk.wallet
       /\ \A a \in given : a[2] < disk.wallet.next - 1

\* The phrase in memory is the record's, unless the record is about to be replaced, or none
\* at all.
SessionFits == session \in Phrases => HasWallet(disk) /\ session = disk.wallet.phrase

\* All addresses handed out are the record's, below its counter.
GivenBelow ==
  HasWallet(disk) => \A a \in given : a[1] = disk.wallet.phrase /\ a[2] < disk.wallet.next

WorkInv ==
  /\ \A c \in Callers : Working(call[c])
  /\ \A c \in Callers : Sealing(call[c]) => session = call[c].change[2]
  /\ (\A c \in Callers : ~Sealing(call[c])) => SessionFits
  /\ OwnScriptsOnly
  /\ GivenBelow

\* What a change of a wallet keeps, if it does not seal another.
LEMMA NewWalletKeeps ==
  ASSUME NEW w \in Wallets, NEW change \in Changes, change[1] \notin {"create", "import"}
  PROVE  /\ NewWallet(w, change).phrase = w.phrase
         /\ NewWallet(w, change).next =
              IF change[1] = "bump" THEN w.next + 1
              ELSE IF change[1] = "raise" THEN change[2] ELSE w.next
         /\ NewWallet(w, change).funded =
              IF change[1] = "funded" THEN change[2]
              ELSE IF change[1] = "register" THEN w.funded \cup {change[2]} ELSE w.funded
<1>1. CASE change[1] \in {"lock", "unlock"}
  BY <1>1 DEF NewWallet
<1>2. CASE change[1] \in {"complete", "incomplete", "precache", "progress"}
  BY <1>2 DEF NewWallet, Wallets
<1>3. CASE change[1] \in {"bump", "raise"}
  BY <1>3 DEF NewWallet, Wallets
<1>4. CASE change[1] \in {"funded", "register"}
  BY <1>4 DEF NewWallet, Wallets
<1> QED
  BY <1>1, <1>2, <1>3, <1>4, ChangeCarries

\* A step of the one caller that leaves the store and the addresses as they are.
LEMMA WorkStays ==
  ASSUME OneCaller, TypeInv, WorkInv, NEW c \in Callers, NEW j, Becomes(c, j),
         UNCHANGED <<disk, given>>, Working(j), ~Sealing(j),
         session' \in Phrases => HasWallet(disk) /\ session' = disk.wallet.phrase
  PROVE  WorkInv'
<1>1. \A d \in Callers : call'[d] = j
  BY DEF OneCaller, Becomes, TypeInv
<1>2. Working(j)'
  BY DEF Working, HasWallet, Changeable
<1>3. \A d \in Callers : Working(call[d])' /\ ~Sealing(call'[d])
  BY <1>1, <1>2 DEF Working
<1>4. SessionFits' /\ OwnScriptsOnly' /\ GivenBelow'
  BY DEF SessionFits, OwnScriptsOnly, GivenBelow, HasWallet, WorkInv
<1> QED
  BY <1>3, <1>4 DEF WorkInv, Sealing

\* A call that is not under way works on nothing.
LEMMA FreeWorks == Working(Free) /\ ~Sealing(Free)
  BY DEF Working, Sealing, Free, NoChange

\* Before a step that does not save, the phrase in memory is the record's.
LEMMA WorkBefore ==
  ASSUME OneCaller, TypeInv, WorkInv, NEW c \in Callers, call[c].pc # "save"
  PROVE  /\ SessionFits /\ Working(call[c]) /\ call[c] \in CallStates /\ Formed(call[c])
         /\ OwnScriptsOnly /\ disk \in Stores
  BY DEF OneCaller, TypeInv, WorkInv, Sealing, Good, TypeOK

\* The calls begin.
LEMMA BeginsWork ==
  ASSUME OneCaller, TypeInv, WorkInv, NEW c \in Callers,
         \/ Create(c) \/ Import(c) \/ Unlock(c) \/ Lock(c)
         \/ NewReceiveAddress(c) \/ Rescan(c) \/ Pay(c) \/ BeginScan(c)
  PROVE  WorkInv'
<1>0. /\ UNCHANGED <<disk, given>>
      /\ session' = NoPhrase \/ session' = session
      /\ call[c].pc = "free"
  BY DEF Create, Import, Unlock, Lock, NewReceiveAddress, Rescan, Pay, BeginScan, Begins
<1>1. SessionFits /\ OwnScriptsOnly
  BY <1>0, WorkBefore
<1>2. ASSUME NEW j, Becomes(c, j), Working(j), j.pc # "save" PROVE WorkInv'
  BY <1>0, <1>1, <1>2, WorkStays, KeystoreAssumption DEF Sealing, SessionFits
<1>3. Free \in CallStates /\ Free.op = "change" /\ Free.change = NoChange
  BY FreeIsGood DEF Good, Free
<1>4. ASSUME NEW change, NEW op \in {"change", "create"},
             change[1] \notin {"funded", "register"},
             \/ Becomes(c, [Free EXCEPT !.op = op, !.pc = "load", !.change = change])
             \/ Becomes(c, [Free EXCEPT !.pc = "load", !.change = change])
      PROVE  WorkInv'
  <2> DEFINE a == [Free EXCEPT !.op = op, !.pc = "load", !.change = change]
             b == [Free EXCEPT !.pc = "load", !.change = change]
  <2>1. a.op = op /\ a.pc = "load" /\ a.change = change
    BY <1>3 DEF CallStates
  <2>2. b.op = "change" /\ b.pc = "load" /\ b.change = change
    BY <1>3 DEF CallStates
  <2> HIDE DEF a, b
  <2>3. Working(a) /\ Working(b)
    BY <1>4, <2>1, <2>2 DEF Working
  <2>4. Becomes(c, a) \/ Becomes(c, b)
    BY <1>4 DEF a, b
  <2> QED
    BY <1>2, <2>1, <2>2, <2>3, <2>4
<1>5. CASE Create(c) \/ Import(c) \/ Unlock(c) \/ Lock(c) \/ Rescan(c)
  <2>1. PICK change \in {<<"create", p>> : p \in Phrases} \cup {<<"import", p>> : p \in Secrets}
                        \cup {<<"unlock", d>> : d \in Durations}
                        \cup {<<"lock", 0>>, <<"incomplete", 0>>} :
           \/ Becomes(c, [Free EXCEPT !.op = "create", !.pc = "load", !.change = change])
           \/ Becomes(c, [Free EXCEPT !.pc = "load", !.change = change])
    BY <1>5 DEF Create, Import, Unlock, Lock, Rescan, Begins
  <2>2. change[1] \notin {"funded", "register"}
    OBVIOUS
  <2> QED
    BY <1>4, <2>1, <2>2
<1>6. CASE NewReceiveAddress(c)
  <2> DEFINE j == [Free EXCEPT !.op = "address", !.pc = "phrase", !.change = <<"bump", 0>>]
  <2>1. j.op = "address" /\ j.pc = "phrase" /\ j.change = <<"bump", 0>>
    BY <1>3 DEF CallStates
  <2>2. Becomes(c, j)
    BY <1>6 DEF NewReceiveAddress, Begins
  <2> HIDE DEF j
  <2>3. Working(j)
    BY <2>1 DEF Working
  <2> QED
    BY <1>2, <2>1, <2>2, <2>3
<1>7. CASE Pay(c)
  <2> DEFINE j == [Free EXCEPT !.op = "payment", !.pc = "phrase"]
  <2>1. j.op = "payment" /\ j.pc = "phrase" /\ j.change = NoChange
    BY <1>3 DEF CallStates
  <2>2. Becomes(c, j)
    BY <1>7 DEF Pay, Begins
  <2> HIDE DEF j
  <2>3. Working(j)
    BY <2>1 DEF Working, NoChange
  <2> QED
    BY <1>2, <2>1, <2>2, <2>3
<1>8. CASE BeginScan(c)
  <2> DEFINE list == disk.wallet.funded
             j == [Free EXCEPT !.op = "scan", !.pc = "scanning", !.phrase = session,
                               !.list = list]
  <2>1. Becomes(c, j)
    BY <1>8 DEF BeginScan, Begins
  <2>2. HasWallet(disk) /\ session = disk.wallet.phrase /\ list \subseteq Scripts(session)
    BY <1>1, <1>8 DEF BeginScan, SessionFits, OwnScriptsOnly
  <2>3. list = disk.wallet.funded
    OBVIOUS
  <2> HIDE DEF list
  <2>4. /\ j.op = "scan" /\ j.pc = "scanning" /\ j.phrase = session /\ j.list = list
        /\ j.change = NoChange
    BY <1>3 DEF CallStates
  <2> HIDE DEF j
  <2>5. Working(j)
    BY <2>2, <2>3, <2>4 DEF Working, NoChange
  <2> QED
    BY <1>2, <2>1, <2>4, <2>5
<1> QED
  BY <1>5, <1>6, <1>7, <1>8

\* A scan, and the phrase of a call.
LEMMA ScansAndPhrasesWork ==
  ASSUME OneCaller, TypeInv, WorkInv, NEW c \in Callers,
         \/ ScanStores(c) \/ ScanReturns(c)
         \/ PhraseInMemory(c) \/ Decrypt(c) \/ Remember(c)
  PROVE  WorkInv'
<1>0. /\ UNCHANGED <<disk, given>>
      /\ call[c].pc # "save"
  BY DEF ScanStores, ScanReturns, PhraseInMemory, Decrypt, Remember, At
<1>1. /\ SessionFits /\ Working(call[c]) /\ call[c] \in CallStates /\ Formed(call[c])
      /\ OwnScriptsOnly /\ disk \in Stores
  BY <1>0, WorkBefore
<1>2. ASSUME NEW j, Becomes(c, j), Working(j), j.pc # "save", session' = session
      PROVE  WorkInv'
  BY <1>0, <1>1, <1>2, WorkStays DEF Sealing, SessionFits
<1>3. CASE ScanStores(c)
  <2>1. PICK change \in Changes, found \in SUBSET Scripts(call[c].phrase) :
           LET list == call[c].list \cup found IN
           /\ \/ change = <<"funded", list>> /\ found # {}
              \/ change[1] \in {"progress", "complete"} /\ found = {}
              \/ change[1] = "raise" /\ found = {} /\ list # {}
           /\ Becomes(c, [call[c] EXCEPT !.pc = "load", !.change = change, !.list = list])
    BY <1>3 DEF ScanStores
  <2> DEFINE list == call[c].list \cup found
             j == [call[c] EXCEPT !.pc = "load", !.change = change, !.list = list]
  <2>2. Becomes(c, j)
    BY <2>1
  <2>3. /\ call[c].op = "scan" /\ HasWallet(disk) /\ call[c].phrase = disk.wallet.phrase
        /\ call[c].list \subseteq Scripts(call[c].phrase)
        /\ disk.wallet.funded \subseteq call[c].list
    BY <1>1, <1>3 DEF ScanStores, At, Formed, Working
  <2>4. list \subseteq Scripts(call[c].phrase) /\ disk.wallet.funded \subseteq list
    BY <2>3
  <2>5. /\ change[1] \in {"funded", "progress", "complete", "raise"}
        /\ change[1] = "funded" => change[2] = list
    BY <2>1
  <2> HIDE DEF list
  <2>6. /\ j.op = call[c].op /\ j.pc = "load" /\ j.phrase = call[c].phrase
        /\ j.change = change /\ j.list = list
    BY <1>1 DEF CallStates
  <2> HIDE DEF j
  <2>7. Working(j)
    BY <2>3, <2>4, <2>5, <2>6 DEF Working
  <2> QED
    BY <1>2, <1>3, <2>2, <2>6, <2>7 DEF ScanStores
<1>4. CASE ScanReturns(c)
  BY <1>2, <1>4, FreeWorks DEF ScanReturns, Free
<1>5. ASSUME NEW phrase \in Secrets, phrase \in Phrases =>
               HasWallet(disk) /\ phrase = disk.wallet.phrase,
             call[c].op = "payment" => phrase \in Phrases,
             At(c, "phrase") \/ At(c, "remember")
      PROVE  Working(WithPhrase(c, phrase)) /\ ~Sealing(WithPhrase(c, phrase))
             /\ WithPhrase(c, phrase).pc = "load"
  <2> DEFINE j == WithPhrase(c, phrase)
  <2>1. /\ j.op = call[c].op /\ j.pc = "load" /\ j.phrase = phrase /\ j.list = call[c].list
        /\ call[c].op # "payment" => j.change = call[c].change
        /\ call[c].op = "payment" => \E i \in 0 .. (MaxIndex - 1) :
              j.change = <<"register", <<phrase, i>>>>
    BY <1>5, WithPhraseIsGood
  <2> HIDE DEF j
  <2>2. call[c].op # "scan"
    BY <1>1, <1>5 DEF Working, At
  <2>3. CASE call[c].op = "payment"
    <3>1. j.change[1] = "register" /\ j.change[2] \in Scripts(phrase)
      BY <2>1, <2>3 DEF Scripts
    <3> QED
      BY <1>5, <2>1, <2>3, <3>1 DEF Working, Sealing, j
  <2>4. CASE call[c].op # "payment"
    BY <1>1, <1>5, <2>1, <2>2, <2>4 DEF Working, Sealing, j, At, Secrets, Formed
  <2> QED
    BY <2>3, <2>4
<1>6. CASE PhraseInMemory(c)
  <2>1. /\ session \in Secrets
        /\ session \in Phrases => HasWallet(disk) /\ session = disk.wallet.phrase
        /\ call[c].op = "payment" => session \in Phrases
    BY <1>1, <1>6 DEF PhraseInMemory, SessionFits, TypeInv, TypeOK
  <2> QED
    BY <1>2, <1>5, <1>6, <2>1 DEF PhraseInMemory
<1>7. CASE Decrypt(c)
  <2> DEFINE phrase == disk.wallet.phrase
             j == [call[c] EXCEPT !.pc = "remember", !.phrase = phrase]
  <2>1. Becomes(c, j) /\ HasWallet(disk) /\ session' = session /\ At(c, "phrase")
    BY <1>7 DEF Decrypt
  <2>2. phrase = disk.wallet.phrase
    OBVIOUS
  <2> HIDE DEF phrase
  <2>3. /\ j.op = call[c].op /\ j.pc = "remember" /\ j.phrase = phrase
        /\ j.change = call[c].change /\ j.list = call[c].list
    BY <1>1 DEF CallStates
  <2> HIDE DEF j
  <2>4. Working(j)
    BY <1>1, <2>1, <2>2, <2>3 DEF Working, At
  <2> QED
    BY <1>2, <2>1, <2>3, <2>4
<1>8. CASE Remember(c)
  <2>1. call[c].phrase \in Phrases /\ call[c].phrase \in Secrets
    BY <1>1, <1>8 DEF Remember, At, Formed, Secrets
  <2>2. HasWallet(disk) /\ call[c].phrase = disk.wallet.phrase
    BY <1>1, <1>8, <2>1, KeystoreAssumption DEF Remember, At, Working
  <2> QED
    BY <1>0, <1>1, <1>5, <1>8, <2>1, <2>2, WorkStays DEF Remember, SessionFits
<1> QED
  BY <1>3, <1>4, <1>6, <1>7, <1>8

\* Loading, and the change of the copy.
LEMMA ChangesWork ==
  ASSUME OneCaller, TypeInv, WorkInv, NEW c \in Callers,
         Load(c) \/ Change(c) \/ PrecacheFails(c) \/ NoSave(c)
  PROVE  WorkInv'
<1>0. UNCHANGED <<disk, given>> /\ call[c].pc # "save"
  BY DEF Load, Change, PrecacheFails, NoSave, At
<1>1. /\ SessionFits /\ Working(call[c]) /\ call[c] \in CallStates /\ Formed(call[c])
      /\ OwnScriptsOnly /\ disk \in Stores /\ call[c].change \in Changes
  BY <1>0, WorkBefore DEF CallStates
<1>2. CASE Load(c)
  <2> DEFINE b == call[c].overtaken /\ call[c].op = "scan"
             j == [call[c] EXCEPT !.pc = "change", !.copy = disk, !.overtaken = b]
  <2>1. Becomes(c, j) /\ session' = session /\ At(c, "load")
    BY <1>2 DEF Load
  <2>2. /\ j.op = call[c].op /\ j.pc = "change" /\ j.phrase = call[c].phrase
        /\ j.change = call[c].change /\ j.list = call[c].list /\ j.copy = disk
    BY <1>1 DEF CallStates
  <2> HIDE DEF j
  <2>3. Working(j)
    BY <1>1, <2>1, <2>2 DEF Working, At
  <2> QED
    BY <1>0, <1>1, <2>1, <2>2, <2>3, WorkStays DEF Sealing, SessionFits
<1>3. CASE Change(c)
  <2> DEFINE change == call[c].change
             copy == Changed(disk, change)
             j == [call[c] EXCEPT !.pc = "save", !.copy = copy]
  <2>1. call[c].copy = disk
    BY <1>1, <1>3 DEF Change, At, Working
  <2>2. /\ Becomes(c, j) /\ session' = Remembered(disk, change)
        /\ ~NothingToSave(disk, change) /\ ~AtBound(disk, change) /\ At(c, "change")
        /\ ~Underivable(change)
    BY <1>3, <2>1 DEF Change
  <2>3. Changeable(disk, change) /\ (change[1] = "unlock" => HasWallet(disk))
    BY <2>2, ChangesAreChangeable
  <2>4. copy.wallet = NewWallet(disk.wallet, change)
    <3>1. now \in 1 .. MaxTime
      BY DEF TypeInv, TypeOK
    <3> QED
      BY <1>1, <2>3, <3>1, ChangedIsStore
  <2>5. /\ change[1] = "create" => ~HasWallet(disk)
        /\ change[1] = "raise" => change[2] > disk.wallet.next
    <3>1. ASSUME change[1] = "raise" PROVE change[2] > disk.wallet.next
      <4>1. disk.wallet \in Wallets
        BY <1>1, <2>3, <3>1 DEF Changeable, HasWallet, Stores
      <4>2. disk.wallet.next \in Nat /\ change[2] \in Nat
        BY <1>1, <3>1, <4>1, ChangeCarries, KeystoreAssumption DEF Wallets
      <4>3. ~(change[2] <= disk.wallet.next)
        BY <2>2, <2>3, <3>1 DEF NothingToSave, Changeable
      <4> QED
        BY <4>2, <4>3
    <3> QED
      BY <2>2, <3>1 DEF NothingToSave
  <2>6. /\ change[1] \in {"create", "import"} => session' = change[2]
        /\ change[1] \notin {"create", "import"} =>
             (session' \in Phrases => HasWallet(disk) /\ session' = disk.wallet.phrase)
    BY <1>1, <2>2, <2>3 DEF Remembered, SessionFits
  <2> HIDE DEF copy
  <2>7. /\ j.op = call[c].op /\ j.pc = "save" /\ j.phrase = call[c].phrase
        /\ j.change = change /\ j.list = call[c].list /\ j.copy = copy
    BY <1>1 DEF CallStates
  <2> HIDE DEF j
  <2>8. Working(j)
    BY <1>1, <2>2, <2>3, <2>4, <2>5, <2>7 DEF Working, At
  <2>9. CASE change[1] \notin {"create", "import"}
    BY <1>0, <2>2, <2>6, <2>7, <2>8, <2>9, WorkStays DEF Sealing
  <2>10. CASE change[1] \in {"create", "import"}
    <3>1. \A d \in Callers : call'[d] = j
      BY <2>2 DEF OneCaller, Becomes, TypeInv
    <3>2. \A d \in Callers : Working(call[d])'
      BY <1>0, <2>8, <3>1 DEF Working, HasWallet, Changeable
    <3>3. \A d \in Callers : Sealing(call'[d]) /\ call'[d].change[2] = session'
      BY <2>6, <2>7, <2>10, <3>1 DEF Sealing
    <3>4. OwnScriptsOnly' /\ GivenBelow'
      BY <1>0, <1>1 DEF OwnScriptsOnly, GivenBelow, HasWallet, WorkInv
    <3> QED
      BY <3>2, <3>3, <3>4 DEF WorkInv, Sealing
  <2> QED
    BY <2>9, <2>10
<1>4. CASE NoSave(c)
  <2>1. Becomes(c, Done(c)) /\ session' = session /\ At(c, "change")
    BY <1>4 DEF NoSave
  <2>2. Working(Done(c)) /\ Done(c).pc # "save"
    <3>1. CASE call[c].op = "scan"
      <4>1. /\ Done(c).op = "scan" /\ Done(c).pc = "scanning" /\ Done(c).change = NoChange
            /\ Done(c).phrase = call[c].phrase /\ Done(c).list = call[c].list
        BY <3>1, DoneIsGood
      <4>2. NoChange[1] = "lock"
        BY DEF NoChange
      <4> QED
        BY <1>1, <2>1, <3>1, <4>1, <4>2 DEF Working, At
    <3>2. CASE call[c].op # "scan"
      <4>1. Done(c) = Free
        BY <3>2, DoneIsGood
      <4> QED
        BY <4>1, FreeWorks DEF Free
    <3> QED
      BY <3>1, <3>2
  <2> QED
    BY <1>0, <1>1, <2>1, <2>2, WorkStays DEF Sealing, SessionFits
<1>5. CASE PrecacheFails(c)
  <2>1. session' \notin Phrases /\ Becomes(c, Free)
    BY <1>5, KeystoreAssumption DEF PrecacheFails, Underivable
  <2> QED
    BY <1>0, <2>1, FreeWorks, WorkStays
<1> QED
  BY <1>2, <1>3, <1>4, <1>5

\* The end of a call that hands out an address: the counter that passes it is on the disk.
LEMMA HandOutWorks ==
  ASSUME OneCaller, TypeInv, WorkInv, NEW c \in Callers, HandOut(c)
  PROVE  /\ WorkInv'
         /\ call[c].phrase = disk.wallet.phrase /\ HasWallet(disk)
         /\ call[c].copy.wallet = disk.wallet
         /\ <<call[c].phrase, call[c].copy.wallet.next - 1>> \notin given
         /\ disk.wallet.next \in Nat \ {0}
<1>0. At(c, "give") /\ UNCHANGED <<disk, session>> /\ Becomes(c, Free) /\ call[c].pc # "save"
  BY DEF HandOut, At
<1>1. /\ SessionFits /\ Working(call[c]) /\ call[c] \in CallStates /\ Formed(call[c])
      /\ OwnScriptsOnly /\ disk \in Stores
  BY <1>0, WorkBefore
<1>2. /\ call[c].phrase = disk.wallet.phrase /\ HasWallet(disk)
      /\ call[c].copy.wallet = disk.wallet /\ disk.wallet.next > 0
      /\ \A a \in given : a[2] < disk.wallet.next - 1
  <2>1. call[c].phrase \notin BadSecrets
    BY KeystoreAssumption DEF HandOut
  <2> QED
    BY <1>0, <1>1, <2>1 DEF At, Working, Formed
<1>3. disk.wallet.next \in Nat \ {0}
  <2>1. disk.wallet.next \in 0 .. MaxIndex
    BY <1>1, <1>2 DEF HasWallet, Stores, Wallets
  <2> QED
    BY <1>2, <2>1, KeystoreAssumption
<1>4. <<call[c].phrase, call[c].copy.wallet.next - 1>> \notin given
  <2> SUFFICES ASSUME <<call[c].phrase, call[c].copy.wallet.next - 1>> \in given PROVE FALSE
    OBVIOUS
  <2>1. disk.wallet.next - 1 < disk.wallet.next - 1
    BY <1>2
  <2> QED
    BY <1>3, <2>1
<1>5. GivenBelow'
  <2>1. given' = given \cup {<<disk.wallet.phrase, disk.wallet.next - 1>>}
    BY <1>2 DEF HandOut
  <2>2. \A a \in given : a[1] = disk.wallet.phrase /\ a[2] < disk.wallet.next
    BY <1>2 DEF WorkInv, GivenBelow
  <2>3. disk.wallet.next - 1 < disk.wallet.next
    BY <1>3
  <2> QED
    BY <1>0, <2>1, <2>2, <2>3 DEF GivenBelow
<1>6. \A d \in Callers : call'[d] = Free
  BY <1>0 DEF OneCaller, Becomes, TypeInv
<1>7. \A d \in Callers : Working(call[d])' /\ ~Sealing(call'[d])
  BY <1>6 DEF Working, Sealing, Free, NoChange
<1>8. SessionFits' /\ OwnScriptsOnly'
  BY <1>0, <1>1 DEF SessionFits, OwnScriptsOnly, HasWallet
<1> QED
  BY <1>2, <1>3, <1>4, <1>5, <1>7, <1>8 DEF WorkInv, Sealing

\* The one caller's call after a step: a save overtakes nobody.
LEMMA OnlyCall ==
  ASSUME OneCaller, TypeInv, NEW c \in Callers, NEW j, Becomes(c, j) \/ Overtakes(c, j)
  PROVE  \A d \in Callers : call'[d] = j
  BY DEF OneCaller, Becomes, Overtakes, TypeInv

\* The save of a record that is sealed anew.
LEMMA SealWorks ==
  ASSUME OneCaller, TypeInv, WorkInv, NEW c \in Callers, Save(c), Sealing(call[c])
  PROVE  WorkInv'
<1> DEFINE change == call[c].change
<1>0. /\ At(c, "save") /\ disk' = call[c].copy /\ given' = {} /\ session' = session
      /\ change[1] \in {"create", "import"} /\ session = change[2]
  BY DEF Save, Sealing, WorkInv
<1>1. /\ Working(call[c]) /\ call[c] \in CallStates /\ Formed(call[c])
      /\ change \in Changes /\ disk \in Stores /\ call[c].copy \in Stores
  <2>1. Working(call[c])
    BY DEF WorkInv
  <2>2. call[c] \in CallStates /\ Formed(call[c]) /\ disk \in Stores
    BY DEF TypeInv, TypeOK, Good
  <2>3. change \in Changes /\ call[c].copy \in Stores
    BY <2>2 DEF CallStates
  <2> QED
    BY <2>1, <2>2, <2>3
<1>2. /\ disk'.wallet = NewWallet(disk.wallet, change)
      /\ Changeable(disk, change)
      /\ call[c].op \in {"change", "create"}
  <2>1. call[c].pc = "save"
    BY <1>0 DEF At
  <2>2. call[c].copy.wallet = NewWallet(disk.wallet, change) /\ Changeable(disk, change)
    BY <1>1, <2>1 DEF Working
  <2>3. call[c].op \in {"change", "create"}
    BY <1>0, <1>1 DEF Working
  <2> QED
    BY <1>0, <2>2, <2>3
<1>3. /\ disk'.wallet.phrase = change[2]
      /\ disk'.wallet.funded = {}
  <2> DEFINE x == change[2]
  <2>1. disk'.wallet = Sealed(x) \/ disk'.wallet = [Sealed(x) EXCEPT !.cached = TRUE]
    BY <1>0, <1>2 DEF NewWallet
  <2> HIDE DEF x
  <2>2. disk'.wallet.phrase = x /\ disk'.wallet.funded = {}
    BY <2>1 DEF Sealed
  <2> QED
    BY <2>2 DEF x
<1>4. HasWallet(disk)'
  <2>1. disk'.wallet \in Wallets
    BY <1>0, <1>1, <1>2, NewWalletIsWallet
  <2> QED
    BY <2>1, NoWalletAssumption DEF HasWallet
<1>5. SessionFits' /\ OwnScriptsOnly' /\ GivenBelow'
  BY <1>0, <1>3, <1>4 DEF SessionFits, OwnScriptsOnly, GivenBelow
<1>6. \E j : Overtakes(c, j) /\ Working(j)' /\ ~Sealing(j)
  <2>1. CASE change[1] = "create"
    <3> DEFINE second == <<"precache", 0>>
               copy == Changed(call[c].copy, second)
               j == [call[c] EXCEPT !.change = second, !.copy = copy]
               next == CASE change[1] = "create" -> j
                         [] call[c].op = "address" -> [call[c] EXCEPT !.pc = "give"]
                         [] OTHER -> Done(c)
    <3>1. second \in Changes /\ second[1] = "precache"
      BY DEF Changes
    <3>2. Changeable(call[c].copy, second)
      BY <1>0, <1>4, <3>1 DEF Changeable, HasWallet, Underivable
    <3>3. copy.wallet = NewWallet(call[c].copy.wallet, second)
      <4>1. now \in 1 .. MaxTime
        BY DEF TypeInv, TypeOK
      <4> QED
        BY <1>1, <3>1, <3>2, <4>1, ChangedIsStore
    <3>4. Overtakes(c, next)
      BY DEF Save
    <3>5. next = j
      <4>1. call[c].op # "address"
        BY <1>2
      <4> HIDE DEF j
      <4> QED
        BY <2>1, <4>1
    <3>6. Overtakes(c, j)
      BY <3>4, <3>5
    <3> HIDE DEF second, copy
    <3>7. /\ j.op = call[c].op /\ j.pc = "save" /\ j.change = second /\ j.copy = copy
      BY <1>0, <1>1 DEF CallStates, At
    <3> HIDE DEF j
    <3>8. ASSUME NEW k, k = j PROVE Overtakes(c, k) /\ Working(k)' /\ ~Sealing(k)
      BY <1>0, <1>2, <3>1, <3>2, <3>3, <3>6, <3>7, <3>8 DEF Working, Changeable, HasWallet, Sealing
    <3> QED
      BY <3>8
  <2>2. CASE change[1] = "import"
    <3>1. Overtakes(c, Free)
      BY <1>2, <2>2, DoneIsGood DEF Save
    <3>2. ASSUME NEW k, k = Free PROVE Overtakes(c, k) /\ Working(k)' /\ ~Sealing(k)
      BY <3>1, <3>2 DEF Working, Sealing, Free, NoChange
    <3> QED
      BY <3>2
  <2> QED
    BY <1>0, <2>1, <2>2
<1>7. PICK j : Overtakes(c, j) /\ Working(j)' /\ ~Sealing(j)
  BY <1>6
<1>8. \A d \in Callers : call'[d] = j
  BY <1>7, OnlyCall
<1>9. \A d \in Callers : Working(call[d])' /\ ~Sealing(call'[d])
  BY <1>7, <1>8 DEF Working
<1> QED
  BY <1>5, <1>9 DEF WorkInv, Sealing

\* What the save of a change that seals nothing leaves of the record.
LEMMA SavedRecord ==
  ASSUME OneCaller, TypeInv, WorkInv, NEW c \in Callers, Save(c), ~Sealing(call[c])
  PROVE  LET change == call[c].change IN
         /\ HasWallet(disk)' <=> HasWallet(disk)
         /\ disk'.wallet = NewWallet(disk.wallet, change)
         /\ ~HasWallet(disk) => change[1] = "lock" /\ disk'.wallet = disk.wallet
         /\ HasWallet(disk) =>
              /\ disk.wallet \in Wallets
              /\ disk'.wallet.phrase = disk.wallet.phrase
              /\ disk.wallet.next \in Nat /\ disk'.wallet.next \in Nat
              /\ disk'.wallet.next >= disk.wallet.next
              /\ change[1] = "bump" => disk'.wallet.next = disk.wallet.next + 1
              /\ disk'.wallet.funded =
                   IF change[1] = "funded" THEN change[2]
                   ELSE IF change[1] = "register" THEN disk.wallet.funded \cup {change[2]}
                   ELSE disk.wallet.funded
<1> DEFINE change == call[c].change
<1>1. /\ At(c, "save") /\ disk' = call[c].copy /\ change[1] \notin {"create", "import"}
      /\ Working(call[c]) /\ change \in Changes /\ disk \in Stores
  BY DEF Save, At, Sealing, WorkInv, TypeInv, TypeOK, CallStates
<1>2. /\ disk'.wallet = NewWallet(disk.wallet, change)
      /\ Changeable(disk, change)
      /\ change[1] = "unlock" => HasWallet(disk)
      /\ change[1] = "raise" => change[2] > disk.wallet.next
  BY <1>1 DEF Working, At
<1>3. CASE ~HasWallet(disk)
  <2>1. change[1] = "lock"
    BY <1>1, <1>2, <1>3 DEF Changeable
  <2>2. disk'.wallet = disk.wallet
    BY <1>2, <2>1 DEF NewWallet
  <2> QED
    BY <1>2, <1>3, <2>1, <2>2 DEF HasWallet
<1>4. CASE HasWallet(disk)
  <2>1. disk.wallet \in Wallets
    BY <1>1, <1>4 DEF HasWallet, Stores
  <2>2. HasWallet(disk)'
    <3>1. CASE change[1] \in {"lock", "unlock"}
      BY <1>2, <1>4, <3>1 DEF NewWallet, HasWallet
    <3>2. CASE change[1] \notin {"lock", "unlock"}
      BY <1>1, <1>2, <3>2, NewWalletIsWallet, NoWalletAssumption DEF HasWallet
    <3> QED
      BY <3>1, <3>2
  <2>3. /\ disk'.wallet.phrase = disk.wallet.phrase
        /\ disk'.wallet.next =
             IF change[1] = "bump" THEN disk.wallet.next + 1
             ELSE IF change[1] = "raise" THEN change[2] ELSE disk.wallet.next
        /\ disk'.wallet.funded =
             IF change[1] = "funded" THEN change[2]
             ELSE IF change[1] = "register" THEN disk.wallet.funded \cup {change[2]}
             ELSE disk.wallet.funded
    BY <1>1, <1>2, <2>1, NewWalletKeeps
  <2>4. disk.wallet.next \in Nat
    BY <2>1, KeystoreAssumption DEF Wallets
  <2>5. change[1] = "raise" => change[2] \in Nat /\ change[2] >= disk.wallet.next
    BY <1>1, <1>2, <2>4, ChangeCarries, KeystoreAssumption
  <2>6. /\ disk'.wallet.next \in Nat /\ disk'.wallet.next >= disk.wallet.next
        /\ change[1] = "bump" => disk'.wallet.next = disk.wallet.next + 1
    BY <2>3, <2>4, <2>5
  <2> QED
    BY <1>2, <1>4, <2>1, <2>2, <2>3, <2>4, <2>6
<1> QED
  BY <1>3, <1>4

\* The save of any other change.
LEMMA RecordWorks ==
  ASSUME OneCaller, TypeInv, WorkInv, NEW c \in Callers, Save(c), ~Sealing(call[c])
  PROVE  WorkInv'
<1> DEFINE change == call[c].change
<1>0. /\ At(c, "save") /\ given' = given /\ session' = session
      /\ change[1] \notin {"create", "import"} /\ SessionFits
  BY DEF Save, At, Sealing, WorkInv, OneCaller
<1>1. /\ Working(call[c]) /\ call[c] \in CallStates /\ Formed(call[c])
      /\ change \in Changes /\ OwnScriptsOnly /\ GivenBelow
  BY DEF WorkInv, TypeInv, TypeOK, Good, CallStates
<1>2. /\ HasWallet(disk)' <=> HasWallet(disk)
      /\ ~HasWallet(disk) => change[1] = "lock" /\ disk'.wallet = disk.wallet
      /\ HasWallet(disk) =>
           /\ disk'.wallet.phrase = disk.wallet.phrase
           /\ disk.wallet.next \in Nat /\ disk'.wallet.next \in Nat
           /\ disk'.wallet.next >= disk.wallet.next
           /\ change[1] = "bump" => disk'.wallet.next = disk.wallet.next + 1
           /\ disk'.wallet.funded =
                IF change[1] = "funded" THEN change[2]
                ELSE IF change[1] = "register" THEN disk.wallet.funded \cup {change[2]}
                ELSE disk.wallet.funded
  BY SavedRecord
<1>3. SessionFits'
  BY <1>0, <1>2 DEF SessionFits
<1>4. GivenBelow'
  <2> SUFFICES ASSUME HasWallet(disk), NEW a \in given
               PROVE  a[1] = disk'.wallet.phrase /\ a[2] < disk'.wallet.next
    BY <1>0, <1>2 DEF GivenBelow
  <2>1. a[1] = disk.wallet.phrase /\ a[2] < disk.wallet.next
    BY <1>1 DEF GivenBelow
  <2>2. a[2] \in Nat
    <3>1. a \in AllScripts
      BY DEF TypeInv, TypeOK
    <3> QED
      BY <3>1, KeystoreAssumption DEF AllScripts
  <2> QED
    BY <1>2, <2>1, <2>2
<1>5. OwnScriptsOnly'
  <2> SUFFICES ASSUME HasWallet(disk)
               PROVE  disk'.wallet.funded \subseteq Scripts(disk.wallet.phrase)
    BY <1>2 DEF OwnScriptsOnly
  <2>1. disk.wallet.funded \subseteq Scripts(disk.wallet.phrase)
    BY <1>1 DEF OwnScriptsOnly
  <2>2. /\ change[1] = "funded" => change[2] \subseteq Scripts(disk.wallet.phrase)
        /\ change[1] = "register" => change[2] \in Scripts(disk.wallet.phrase)
    BY <1>0, <1>1 DEF Working, At
  <2> QED
    BY <1>2, <2>1, <2>2
<1>6. \E j : Overtakes(c, j) /\ Working(j)' /\ ~Sealing(j)
  <2>1. CASE call[c].op = "address"
    <3> DEFINE j == [call[c] EXCEPT !.pc = "give"]
    <3>1. Overtakes(c, j)
      BY <1>0, <2>1 DEF Save
    <3>2. /\ j.op = "address" /\ j.pc = "give" /\ j.phrase = call[c].phrase
          /\ j.change = change /\ j.copy = call[c].copy
      BY <1>1, <2>1 DEF CallStates
    <3> HIDE DEF j
    <3>3. /\ HasWallet(disk) /\ change = <<"bump", 0>>
          /\ call[c].phrase = disk.wallet.phrase \/ call[c].phrase \in BadSecrets
      BY <1>0, <1>1, <2>1 DEF Working, Formed, At, Changeable
    <3>4. \A a \in given : a[2] < disk'.wallet.next - 1
      <4> SUFFICES ASSUME NEW a \in given PROVE a[2] < disk'.wallet.next - 1
        OBVIOUS
      <4>1. a[2] < disk.wallet.next
        BY <1>1, <3>3 DEF GivenBelow
      <4>2. disk'.wallet.next - 1 = disk.wallet.next
        BY <1>2, <3>3
      <4> QED
        BY <4>1, <4>2
    <3>5. disk' = call[c].copy
      BY DEF Save
    <3>6. change[1] = "bump"
      BY <3>3
    <3>7. ASSUME NEW k, k = j PROVE Overtakes(c, k) /\ Working(k)' /\ ~Sealing(k)
      BY <1>0, <1>2, <3>1, <3>2, <3>3, <3>4, <3>5, <3>6, <3>7 DEF Working, Sealing
    <3> QED
      BY <3>7
  <2>2. CASE call[c].op = "scan"
    <3>1. Overtakes(c, Done(c))
      BY <1>0, <2>2 DEF Save
    <3>2. /\ Done(c).op = "scan" /\ Done(c).pc = "scanning" /\ Done(c).change = NoChange
          /\ Done(c).phrase = call[c].phrase /\ Done(c).list = call[c].list
      BY <2>2, DoneIsGood
    <3>3. NoChange[1] = "lock"
      BY DEF NoChange
    <3>4. /\ HasWallet(disk) /\ call[c].phrase = disk.wallet.phrase
          /\ call[c].list \subseteq Scripts(call[c].phrase)
          /\ disk.wallet.funded \subseteq call[c].list
          /\ change[1] = "funded" => change[2] = call[c].list
          /\ change[1] # "register"
      BY <1>0, <1>1, <2>2 DEF Working, At
    <3>5. disk'.wallet.funded \subseteq call[c].list
      BY <1>2, <3>4
    <3>6. ASSUME NEW k, k = Done(c) PROVE Overtakes(c, k) /\ Working(k)' /\ ~Sealing(k)
      BY <1>2, <3>1, <3>2, <3>3, <3>4, <3>5, <3>6 DEF Working, Sealing
    <3> QED
      BY <3>6
  <2>3. CASE call[c].op \notin {"address", "scan"}
    <3>1. Overtakes(c, Free)
      BY <1>0, <2>3, DoneIsGood DEF Save
    <3>2. ASSUME NEW k, k = Free PROVE Overtakes(c, k) /\ Working(k)' /\ ~Sealing(k)
      BY <3>1, <3>2 DEF Working, Sealing, Free, NoChange
    <3> QED
      BY <3>2
  <2> QED
    BY <2>1, <2>2, <2>3
<1>7. PICK j : Overtakes(c, j) /\ Working(j)' /\ ~Sealing(j)
  BY <1>6
<1>8. \A d \in Callers : call'[d] = j
  BY <1>7, OnlyCall
<1>9. \A d \in Callers : Working(call[d])' /\ ~Sealing(call'[d])
  BY <1>7, <1>8 DEF Working
<1> QED
  BY <1>3, <1>4, <1>5, <1>9 DEF WorkInv, Sealing

\* A call that ends without having saved, the passing of time, and a crash.
LEMMA EndsWork ==
  ASSUME OneCaller, SealsAreSaved, TypeInv, WorkInv,
         \/ \E c \in Callers : SaveFails(c) \/ CallFails(c)
         \/ TimePasses \/ Crash
  PROVE  WorkInv'
<1>1. ASSUME NEW c \in Callers, SaveFails(c) \/ CallFails(c) PROVE WorkInv'
  <2>1. ~Sealing(call[c])
    BY <1>1 DEF SealsAreSaved, SaveFails, CallFails, Refused, At, Sealing
  <2>2. SessionFits
    BY <2>1 DEF OneCaller, WorkInv
  <2>3. Becomes(c, Free) /\ UNCHANGED <<disk, session, given>>
    BY <1>1 DEF SaveFails, CallFails
  <2> QED
    BY <2>2, <2>3, FreeWorks, WorkStays DEF SessionFits
<1>2. ASSUME TimePasses PROVE WorkInv'
  <2>1. UNCHANGED <<disk, session, call, given>>
    BY <1>2 DEF TimePasses
  <2>2. \A c \in Callers : Working(call[c])'
    BY <2>1 DEF WorkInv, Working, HasWallet, Changeable
  <2> QED
    BY <2>1, <2>2 DEF WorkInv, SessionFits, OwnScriptsOnly, GivenBelow, HasWallet
<1>3. ASSUME Crash PROVE WorkInv'
  <2>1. session' = NoPhrase /\ given' = given /\ \A c \in Callers : call'[c] = Free
    BY <1>3 DEF Crash
  <2>2. \A c \in Callers : Working(call[c])' /\ ~Sealing(call'[c])
    BY <2>1 DEF Working, Sealing, Free, NoChange
  <2>3. disk' = disk \/ ~HasWallet(disk)'
    BY <1>3 DEF Crash, HasWallet
  <2>4. OwnScriptsOnly' /\ GivenBelow'
    BY <2>1, <2>3 DEF OwnScriptsOnly, GivenBelow, HasWallet, WorkInv
  <2> QED
    BY <2>1, <2>2, <2>4, KeystoreAssumption DEF WorkInv, Sealing, SessionFits
<1> QED
  BY <1>1, <1>2, <1>3

LEMMA StartsWorking == Init => WorkInv
<1> SUFFICES ASSUME Init PROVE WorkInv
  OBVIOUS
<1>1. \A c \in Callers : call[c] = Free
  BY DEF Init
<1>2. ~HasWallet(disk) /\ session = NoPhrase
  BY DEF Init, HasWallet, Nothing
<1> QED
  BY <1>1, <1>2, FreeWorks, KeystoreAssumption
     DEF WorkInv, SessionFits, OwnScriptsOnly, GivenBelow

LEMMA StaysWorking ==
  ASSUME OneCaller, SealsAreSaved
  PROVE  TypeInv /\ WorkInv /\ [Next]_vars => WorkInv'
<1> SUFFICES ASSUME TypeInv, WorkInv, [Next]_vars PROVE WorkInv'
  OBVIOUS
<1>1. CASE UNCHANGED vars
  <2>1. \A c \in Callers : Working(call[c])'
    BY <1>1 DEF WorkInv, Working, HasWallet, Changeable, vars
  <2> QED
    BY <1>1, <2>1 DEF WorkInv, SessionFits, OwnScriptsOnly, GivenBelow, HasWallet, vars
<1>2. ASSUME NEW c \in Callers, Save(c) PROVE WorkInv'
  BY <1>2, SealWorks, RecordWorks
<1>3. CASE Next
  BY <1>2, <1>3, BeginsWork, ScansAndPhrasesWork, ChangesWork, HandOutWorks, EndsWork DEF Next
<1> QED
  BY <1>1, <1>3

LEMMA Works ==
  ASSUME OneCaller, SealsAreSaved
  PROVE  Spec => [](TypeInv /\ WorkInv)
<1>1. TypeInv /\ WorkInv /\ [Next]_vars => (TypeInv /\ WorkInv)'
  BY StaysTyped, StaysWorking
<1> QED
  BY <1>1, StartsTyped, StartsWorking, PTL DEF Spec

\* With one call at a time, a phrase in memory is the one the record was sealed with whenever
\* no call is under way: persist_unlock remembers it before the save (light_keystore.rs:103),
\* which here succeeds unless no address can be derived from what is imported, and import and
\* lock forget it before they load.
THEOREM SessionIsRecords ==
  ASSUME OneCaller, SealsAreSaved
  PROVE  Spec => []SessionMatchesRecord
<1>1. WorkInv => SessionMatchesRecord
  BY DEF WorkInv, SessionMatchesRecord, SessionFits, Quiet, Sealing
<1> QED
  BY <1>1, Works, PTL

\* With one call at a time, the list of funded scripts holds only scripts of the record's own
\* phrase: a scan stores the list it began with, of the phrase that was in memory then, and a
\* payment registers a script of its own phrase.
THEOREM FundedAreOwn ==
  ASSUME OneCaller, SealsAreSaved
  PROVE  Spec => []OwnScriptsOnly
<1>1. WorkInv => OwnScriptsOnly
  BY DEF WorkInv
<1> QED
  BY <1>1, Works, PTL

\* With one call at a time, every address handed out for the record is listed, since
\* list_receive_addresses derives all below the counter.
THEOREM GivenAreListed ==
  ASSUME OneCaller, SealsAreSaved
  PROVE  Spec => []GeneratedListed
<1>1. TypeInv /\ WorkInv => GeneratedListed
  <2> SUFFICES ASSUME TypeInv, WorkInv, Quiet, HasWallet(disk), session \in Phrases
               PROVE  given \subseteq Listed
    BY DEF GeneratedListed
  <2>1. session = disk.wallet.phrase
    BY DEF WorkInv, SessionFits, Quiet, Sealing
  <2>2. \A a \in given : a \in AllScripts /\ a[1] = session /\ a[2] < disk.wallet.next
    BY <2>1 DEF WorkInv, GivenBelow, TypeInv, TypeOK
  <2>3. \A a \in given : a \in Scripts(session)
    BY <2>2 DEF AllScripts, Scripts
  <2> QED
    BY <2>2, <2>3 DEF Listed
<1> QED
  BY <1>1, Works, PTL

\* With one call at a time, no address is handed out twice for one record, whatever other save
\* fails and wherever the program is cut off: the counter that passes an address is on the disk
\* before it is handed out (light_keystore.rs:178-180).
THEOREM GivenOnce ==
  ASSUME OneCaller, SealsAreSaved
  PROVE  Spec => NeverGivenTwice
<1>1. TypeInv /\ WorkInv /\ [Next]_vars =>
        [\A c \in Callers : HandOut(c) =>
           <<call[c].phrase, call[c].copy.wallet.next - 1>> \notin given]_vars
  BY HandOutWorks
<1> QED
  BY <1>1, Works, PTL DEF Spec, NeverGivenTwice

-----------------------------------------------------------------------------
(***************************************************************************)
(* Any number of calls at once, whatever fails: a save that no other call  *)
(* has come before, with the phrase of the record, is one step of          *)
(* AtomicKeystore.  Its copy is the record as it is with the change made   *)
(* in it, since every save marks the calls that it overtakes.              *)
(***************************************************************************)
\* What is about to be saved is the record as it is, changed.
Ready(j) ==
  /\ disk.wallet # Torn
  /\ j.copy.wallet = NewWallet(disk.wallet, j.change)
  /\ Changeable(disk, j.change)
  /\ j.change[1] = "create" => ~HasWallet(disk)
  /\ j.change[1] = "raise" => j.change[2] > disk.wallet.next

\* Which changes a call makes, and what a call has that nobody has overtaken: a scan the
\* record's list and what it has found itself, a call that has loaded the record.
Rests(j) ==
  /\ j.change[1] = "funded" => j.op = "scan" /\ j.change[2] = j.list
  /\ j.change[1] = "register" => j.op = "payment" /\ j.change[2] \in Scripts(j.phrase)
  /\ j.change[1] \in {"create", "import"} => j.op \in {"change", "create"}
  /\ j.pc \in {"phrase", "remember"} => j.change[1] # "register"
  /\ ~j.overtaken =>
       /\ j.op = "scan" /\ j.pc # "free" =>
            /\ HasWallet(disk)
            /\ disk.wallet.funded \subseteq j.list
            /\ j.list \ disk.wallet.funded \subseteq Scripts(j.phrase)
       /\ j.pc = "change" => j.copy.wallet = disk.wallet /\ disk.wallet # Torn
       /\ j.pc = "save" => Ready(j)

RestInv == \A c \in Callers : Rests(call[c])

LEMMA FreeRests == Rests(Free)
  BY DEF Rests, Free, NoChange

\* A step that does not save leaves the other calls as they are.
LEMMA RestStays ==
  ASSUME TypeInv, RestInv, NEW c \in Callers, NEW j, Becomes(c, j), disk' = disk, Rests(j)
  PROVE  RestInv'
<1>1. \A d \in Callers : call'[d] = j \/ call'[d] = call[d]
  BY DEF Becomes, TypeInv
<1>2. ASSUME NEW k, Rests(k) PROVE Rests(k)'
  BY <1>2 DEF Rests, Ready, HasWallet, Changeable
<1> QED
  BY <1>1, <1>2 DEF RestInv, Rests

\* A save overtakes the calls under way.
LEMMA SaveRests ==
  ASSUME TypeInv, RestInv, NEW c \in Callers, NEW j, Overtakes(c, j), Rests(j)'
  PROVE  RestInv'
<1>1. ASSUME NEW d \in Callers, d # c PROVE Rests(call[d])'
  <2>1. call[d] \in CallStates /\ Rests(call[d])
    BY DEF TypeInv, TypeOK, RestInv
  <2>2. PICK k : k = [call[d] EXCEPT !.overtaken = call[d].pc # "free"]
    OBVIOUS
  <2>3. call'[d] = k
    BY <1>1, <2>2 DEF Overtakes
  <2>4. /\ k.op = call[d].op /\ k.pc = call[d].pc /\ k.phrase = call[d].phrase
        /\ k.change = call[d].change /\ k.list = call[d].list
        /\ ~k.overtaken => k.pc = "free"
    BY <2>1, <2>2 DEF CallStates
  <2>5. Rests(k)'
    BY <2>1, <2>4 DEF Rests
  <2> QED
    BY <2>3, <2>5 DEF Rests
<1>2. call'[c] = j
  BY DEF Overtakes
<1>3. Rests(call[c])'
  BY <1>2 DEF Rests
<1> QED
  BY <1>1, <1>3 DEF RestInv

\* The calls begin.
LEMMA BeginsRest ==
  ASSUME TypeInv, RestInv, NEW c \in Callers,
         \/ Create(c) \/ Import(c) \/ Unlock(c) \/ Lock(c)
         \/ NewReceiveAddress(c) \/ Rescan(c) \/ Pay(c) \/ BeginScan(c)
  PROVE  RestInv'
<1>0. disk' = disk
  BY DEF Create, Import, Unlock, Lock, NewReceiveAddress, Rescan, Pay, BeginScan
<1>1. Free \in CallStates /\ Free.op = "change" /\ Free.change = NoChange /\ NoChange[1] = "lock"
  BY FreeIsGood DEF Good, Free, NoChange
<1>2. CASE Create(c) \/ Import(c) \/ Unlock(c) \/ Lock(c) \/ Rescan(c)
  <2>1. PICK change \in {<<"create", p>> : p \in Phrases} \cup {<<"import", p>> : p \in Secrets}
                        \cup {<<"unlock", d>> : d \in Durations}
                        \cup {<<"lock", 0>>, <<"incomplete", 0>>} :
           \/ Becomes(c, [Free EXCEPT !.op = "create", !.pc = "load", !.change = change])
           \/ Becomes(c, [Free EXCEPT !.pc = "load", !.change = change])
    BY <1>2 DEF Create, Import, Unlock, Lock, Rescan, Begins
  <2> DEFINE a == [Free EXCEPT !.op = "create", !.pc = "load", !.change = change]
             b == [Free EXCEPT !.pc = "load", !.change = change]
  <2>2. a.op = "create" /\ a.pc = "load" /\ a.change = change
    BY <1>1 DEF CallStates
  <2>3. b.op = "change" /\ b.pc = "load" /\ b.change = change
    BY <1>1 DEF CallStates
  <2>4. change[1] \notin {"funded", "register"}
    OBVIOUS
  <2>5. Becomes(c, a) \/ Becomes(c, b)
    BY <2>1
  <2> HIDE DEF a, b
  <2>6. Rests(a) /\ Rests(b)
    BY <2>2, <2>3, <2>4 DEF Rests
  <2> QED
    BY <1>0, <2>5, <2>6, RestStays
<1>3. CASE NewReceiveAddress(c)
  <2> DEFINE j == [Free EXCEPT !.op = "address", !.pc = "phrase", !.change = <<"bump", 0>>]
  <2>1. j.op = "address" /\ j.pc = "phrase" /\ j.change[1] = "bump"
    BY <1>1 DEF CallStates
  <2>2. Becomes(c, j)
    BY <1>3 DEF NewReceiveAddress, Begins
  <2> HIDE DEF j
  <2>3. Rests(j)
    BY <2>1 DEF Rests
  <2> QED
    BY <1>0, <2>2, <2>3, RestStays
<1>4. CASE Pay(c)
  <2> DEFINE j == [Free EXCEPT !.op = "payment", !.pc = "phrase"]
  <2>1. j.op = "payment" /\ j.pc = "phrase" /\ j.change = NoChange
    BY <1>1 DEF CallStates
  <2>2. Becomes(c, j)
    BY <1>4 DEF Pay, Begins
  <2> HIDE DEF j
  <2>3. Rests(j)
    BY <1>1, <2>1 DEF Rests
  <2> QED
    BY <1>0, <2>2, <2>3, RestStays
<1>5. CASE BeginScan(c)
  <2> DEFINE list == disk.wallet.funded
             j == [Free EXCEPT !.op = "scan", !.pc = "scanning", !.phrase = session,
                               !.list = list]
  <2>1. Becomes(c, j) /\ HasWallet(disk)
    BY <1>5 DEF BeginScan, Begins
  <2>2. list = disk.wallet.funded
    OBVIOUS
  <2> HIDE DEF list
  <2>3. j.op = "scan" /\ j.pc = "scanning" /\ j.list = list /\ j.change = NoChange
    BY <1>1 DEF CallStates
  <2> HIDE DEF j
  <2>4. Rests(j)
    BY <1>1, <2>1, <2>2, <2>3 DEF Rests
  <2> QED
    BY <1>0, <2>1, <2>4, RestStays
<1> QED
  BY <1>2, <1>3, <1>4, <1>5

\* A scan, and the phrase of a call.
LEMMA ScansAndPhrasesRest ==
  ASSUME TypeInv, RestInv, NEW c \in Callers,
         \/ ScanStores(c) \/ ScanReturns(c)
         \/ PhraseInMemory(c) \/ Decrypt(c) \/ Remember(c)
  PROVE  RestInv'
<1>0. /\ disk' = disk /\ call[c] \in CallStates /\ Formed(call[c]) /\ Rests(call[c])
  BY DEF ScanStores, ScanReturns, PhraseInMemory, Decrypt, Remember, TypeInv, TypeOK, Good,
         RestInv
<1>1. CASE ScanStores(c)
  <2>1. PICK change \in Changes, found \in SUBSET Scripts(call[c].phrase) :
           LET list == call[c].list \cup found IN
           /\ \/ change = <<"funded", list>> /\ found # {}
              \/ change[1] \in {"progress", "complete"} /\ found = {}
              \/ change[1] = "raise" /\ found = {} /\ list # {}
           /\ Becomes(c, [call[c] EXCEPT !.pc = "load", !.change = change, !.list = list])
    BY <1>1 DEF ScanStores
  <2> DEFINE list == call[c].list \cup found
             j == [call[c] EXCEPT !.pc = "load", !.change = change, !.list = list]
  <2>2. Becomes(c, j)
    BY <2>1
  <2>3. call[c].op = "scan" /\ call[c].pc = "scanning"
    BY <1>0, <1>1 DEF ScanStores, At, Formed
  <2>4. /\ change[1] \in {"funded", "progress", "complete", "raise"}
        /\ change[1] = "funded" => change[2] = list
    BY <2>1
  <2>5. list = call[c].list \cup found /\ found \subseteq Scripts(call[c].phrase)
    OBVIOUS
  <2> HIDE DEF list
  <2>6. /\ j.op = call[c].op /\ j.pc = "load" /\ j.phrase = call[c].phrase
        /\ j.change = change /\ j.list = list /\ j.overtaken = call[c].overtaken
    BY <1>0 DEF CallStates
  <2> HIDE DEF j
  <2>7. Rests(j)
    BY <1>0, <2>3, <2>4, <2>5, <2>6 DEF Rests
  <2> QED
    BY <1>0, <2>2, <2>7, RestStays
<1>2. CASE ScanReturns(c)
  BY <1>0, <1>2, FreeRests, RestStays DEF ScanReturns
<1>3. ASSUME NEW phrase \in Secrets, call[c].op = "payment" => phrase \in Phrases,
             At(c, "phrase") \/ At(c, "remember")
      PROVE  Rests(WithPhrase(c, phrase))
  <2> DEFINE j == WithPhrase(c, phrase)
  <2>1. /\ j.op = call[c].op /\ j.pc = "load" /\ j.phrase = phrase
        /\ call[c].op # "payment" => j.change = call[c].change
        /\ call[c].op = "payment" => \E i \in 0 .. (MaxIndex - 1) :
              j.change = <<"register", <<phrase, i>>>>
    BY <1>3, WithPhraseIsGood
  <2> HIDE DEF j
  <2>2. call[c].op \in {"address", "payment"}
    BY <1>0, <1>3 DEF Formed, At
  <2>3. CASE call[c].op = "payment"
    <3>1. j.change[1] = "register" /\ j.change[2] \in Scripts(phrase)
      BY <2>1, <2>3 DEF Scripts
    <3> QED
      BY <2>1, <2>3, <3>1 DEF Rests, j
  <2>4. CASE call[c].op = "address"
    <3>1. j.change = <<"bump", 0>>
      BY <1>0, <2>1, <2>4 DEF Formed
    <3>2. j.change[1] = "bump"
      BY <3>1
    <3> QED
      BY <2>1, <2>4, <3>2 DEF Rests, j
  <2> QED
    BY <2>2, <2>3, <2>4
<1>4. CASE PhraseInMemory(c)
  <2>1. session \in Secrets /\ (call[c].op = "payment" => session \in Phrases)
    BY <1>4 DEF PhraseInMemory, TypeInv, TypeOK
  <2> QED
    BY <1>0, <1>3, <1>4, <2>1, RestStays DEF PhraseInMemory
<1>5. CASE Decrypt(c)
  <2> DEFINE phrase == disk.wallet.phrase
             j == [call[c] EXCEPT !.pc = "remember", !.phrase = phrase]
  <2>1. Becomes(c, j) /\ At(c, "phrase")
    BY <1>5 DEF Decrypt
  <2> HIDE DEF phrase
  <2>2. /\ j.op = call[c].op /\ j.pc = "remember" /\ j.change = call[c].change
    BY <1>0 DEF CallStates
  <2>3. call[c].op \in {"address", "payment"}
    BY <1>0, <2>1 DEF Formed, At
  <2>4. call[c].change[1] # "register" /\ call[c].change[1] # "funded"
    BY <1>0, <2>1, <2>3 DEF Rests, Formed, At
  <2> HIDE DEF j
  <2>5. Rests(j)
    BY <1>0, <2>2, <2>3, <2>4 DEF Rests
  <2> QED
    BY <1>0, <2>1, <2>5, RestStays
<1>6. CASE Remember(c)
  <2>1. call[c].phrase \in Phrases /\ call[c].phrase \in Secrets
    BY <1>0, <1>6 DEF Remember, At, Formed, Secrets
  <2> QED
    BY <1>0, <1>3, <1>6, <2>1, RestStays DEF Remember
<1> QED
  BY <1>1, <1>2, <1>4, <1>5, <1>6

\* What follows a change that is not saved.
LEMMA DoneRests ==
  ASSUME TypeInv, RestInv, NEW c \in Callers, call[c].pc # "free"
  PROVE  Rests(Done(c))
<1>1. Rests(call[c])
  BY DEF RestInv
<1>2. CASE call[c].op = "scan"
  <2>1. /\ Done(c).op = "scan" /\ Done(c).pc = "scanning" /\ Done(c).change = NoChange
        /\ Done(c).phrase = call[c].phrase /\ Done(c).list = call[c].list
        /\ Done(c).overtaken = call[c].overtaken
    BY <1>2, DoneIsGood
  <2>2. NoChange[1] = "lock"
    BY DEF NoChange
  <2> QED
    BY <1>1, <1>2, <2>1, <2>2 DEF Rests
<1>3. CASE call[c].op # "scan"
  BY <1>3, FreeRests DEF Done
<1> QED
  BY <1>2, <1>3

\* Load and change, and what ends a call without a save.
LEMMA ChangesRest ==
  ASSUME TypeInv, RestInv, NEW c \in Callers,
         \/ Load(c) \/ Change(c) \/ PrecacheFails(c) \/ NoSave(c)
         \/ HandOut(c) \/ SaveFails(c) \/ CallFails(c)
  PROVE  RestInv'
<1>0. /\ disk' = disk /\ call[c] \in CallStates /\ Formed(call[c]) /\ Rests(call[c])
      /\ call[c].change \in Changes /\ call[c].copy \in Stores /\ now \in 1 .. MaxTime
  BY DEF Load, Change, PrecacheFails, NoSave, HandOut, SaveFails, CallFails, TypeInv, TypeOK,
         Good, RestInv, CallStates
<1>1. CASE Load(c)
  <2> DEFINE b == call[c].overtaken /\ call[c].op = "scan"
             j == [call[c] EXCEPT !.pc = "change", !.copy = disk, !.overtaken = b]
  <2>1. Becomes(c, j) /\ At(c, "load") /\ disk.wallet # Torn
    BY <1>1 DEF Load
  <2>2. b <=> call[c].overtaken /\ call[c].op = "scan"
    OBVIOUS
  <2>3. b \in BOOLEAN
    BY <1>0 DEF CallStates
  <2> HIDE DEF b
  <2>4. /\ j.op = call[c].op /\ j.pc = "change" /\ j.phrase = call[c].phrase
        /\ j.change = call[c].change /\ j.list = call[c].list /\ j.copy = disk
        /\ j.overtaken = b
    BY <1>0, <2>3 DEF CallStates
  <2> HIDE DEF j
  <2>5. Rests(j)
    BY <1>0, <2>1, <2>2, <2>4 DEF Rests, At
  <2> QED
    BY <1>0, <2>1, <2>5, RestStays
<1>2. CASE Change(c)
  <2> DEFINE change == call[c].change
             copy == Changed(call[c].copy, change)
             j == [call[c] EXCEPT !.pc = "save", !.copy = copy]
  <2>1. /\ Becomes(c, j) /\ At(c, "change") /\ ~NothingToSave(call[c].copy, change)
        /\ ~AtBound(call[c].copy, change) /\ ~Underivable(change)
    BY <1>2 DEF Change
  <2>2. Changeable(call[c].copy, change)
    BY <2>1, ChangesAreChangeable
  <2>3. copy.wallet = NewWallet(call[c].copy.wallet, change)
    BY <1>0, <2>2, ChangedIsStore
  <2>4. ASSUME change[1] = "raise" PROVE change[2] > call[c].copy.wallet.next
    <3>1. call[c].copy.wallet \in Wallets
      BY <1>0, <2>2, <2>4 DEF Changeable, HasWallet, Stores
    <3>2. call[c].copy.wallet.next \in Nat /\ change[2] \in Nat
      BY <1>0, <2>4, <3>1, ChangeCarries, KeystoreAssumption DEF Wallets
    <3>3. ~(change[2] <= call[c].copy.wallet.next)
      BY <2>1, <2>2, <2>4 DEF NothingToSave, Changeable
    <3> QED
      BY <3>2, <3>3
  <2>5. change[1] = "create" => ~HasWallet(call[c].copy)
    BY <2>1 DEF NothingToSave
  <2>6. ASSUME ~call[c].overtaken
        PROVE  /\ disk.wallet # Torn /\ copy.wallet = NewWallet(disk.wallet, change)
               /\ Changeable(disk, change)
               /\ change[1] = "create" => ~HasWallet(disk)
               /\ change[1] = "raise" => change[2] > disk.wallet.next
    <3>1. call[c].copy.wallet = disk.wallet /\ disk.wallet # Torn
      BY <1>0, <2>1, <2>6 DEF Rests, At
    <3> HIDE DEF copy, change
    <3> QED
      BY <2>2, <2>3, <2>4, <2>5, <3>1 DEF Changeable, HasWallet
  <2> HIDE DEF copy
  <2>7. /\ j.op = call[c].op /\ j.pc = "save" /\ j.phrase = call[c].phrase
        /\ j.change = change /\ j.list = call[c].list /\ j.copy = copy
        /\ j.overtaken = call[c].overtaken
    BY <1>0 DEF CallStates
  <2> HIDE DEF j
  <2>8. Rests(j)
    BY <1>0, <2>1, <2>6, <2>7 DEF Rests, Ready, At
  <2> QED
    BY <1>0, <2>1, <2>8, RestStays
<1>3. CASE NoSave(c)
  <2>1. Becomes(c, Done(c)) /\ call[c].pc # "free"
    BY <1>3 DEF NoSave, At
  <2> QED
    BY <1>0, <2>1, DoneRests, RestStays
<1>4. CASE PrecacheFails(c) \/ HandOut(c) \/ SaveFails(c) \/ CallFails(c)
  <2>1. Becomes(c, Free)
    BY <1>4 DEF PrecacheFails, HandOut, SaveFails, CallFails
  <2> QED
    BY <1>0, <2>1, FreeRests, RestStays
<1> QED
  BY <1>1, <1>2, <1>3, <1>4

\* What a save that has not been overtaken makes of the record.
LEMMA SavesReady ==
  ASSUME TypeInv, RestInv, NEW c \in Callers, Save(c), ~call[c].overtaken
  PROVE  LET change == call[c].change  w == disk.wallet IN
         /\ Ready(call[c]) /\ disk'.wallet = NewWallet(w, change) /\ disk \in Stores
         /\ change \in Changes /\ w # Torn
         /\ change[1] \notin {"lock", "unlock"} => disk'.wallet \in Wallets
         /\ change[1] \notin {"create", "import", "lock", "unlock"} => w \in Wallets
         /\ ~HasWallet(disk) => w = NoWallet
<1> DEFINE change == call[c].change
<1>1. /\ At(c, "save") /\ disk' = call[c].copy /\ Rests(call[c]) /\ disk \in Stores
      /\ change \in Changes
  BY DEF Save, TypeInv, TypeOK, CallStates, RestInv
<1>2. Ready(call[c])
  BY <1>1 DEF Rests, At
<1>3. /\ disk'.wallet = NewWallet(disk.wallet, change) /\ disk.wallet # Torn
      /\ Changeable(disk, change)
  BY <1>1, <1>2 DEF Ready
<1>4. change[1] \notin {"lock", "unlock"} => disk'.wallet \in Wallets
  BY <1>1, <1>3, NewWalletIsWallet
<1>5. change[1] \notin {"create", "import", "lock", "unlock"} => disk.wallet \in Wallets
  BY <1>1, <1>3 DEF Changeable, HasWallet, Stores
<1>6. ~HasWallet(disk) => disk.wallet = NoWallet
  BY <1>3 DEF HasWallet
<1> QED
  BY <1>1, <1>2, <1>3, <1>4, <1>5, <1>6

\* After the save of a scan, its list is still the record's and what it has found itself.
LEMMA ScanSaveRests ==
  ASSUME TypeInv, RestInv, NEW c \in Callers, Save(c), call[c].op = "scan",
         ~call[c].overtaken
  PROVE  /\ HasWallet(disk)'
         /\ disk'.wallet.funded \subseteq call[c].list
         /\ call[c].list \ disk'.wallet.funded \subseteq Scripts(call[c].phrase)
<1> DEFINE change == call[c].change
           w == disk.wallet
<1>1. /\ At(c, "save") /\ Rests(call[c]) /\ change \in Changes
  BY DEF Save, TypeInv, TypeOK, CallStates, RestInv
<1>2. /\ HasWallet(disk) /\ w.funded \subseteq call[c].list
      /\ call[c].list \ w.funded \subseteq Scripts(call[c].phrase)
      /\ change[1] \notin {"create", "import", "register"}
      /\ change[1] = "funded" => change[2] = call[c].list
  BY <1>1 DEF Rests, At
<1>3. disk'.wallet = NewWallet(w, change) /\ w \in Wallets
  BY <1>2, SavesReady DEF HasWallet, Stores
<1>4. HasWallet(disk)'
  <2>1. CASE change[1] \in {"lock", "unlock"}
    BY <1>2, <1>3, <2>1 DEF NewWallet, HasWallet
  <2>2. CASE change[1] \notin {"lock", "unlock"}
    BY <2>2, SavesReady, NoWalletAssumption DEF HasWallet
  <2> QED
    BY <2>1, <2>2
<1>5. disk'.wallet.funded = IF change[1] = "funded" THEN call[c].list ELSE w.funded
  BY <1>1, <1>2, <1>3, NewWalletKeeps
<1> QED
  BY <1>2, <1>4, <1>5

LEMMA SaveRest ==
  ASSUME TypeInv, RestInv, NEW c \in Callers, Save(c)
  PROVE  RestInv'
<1> DEFINE change == call[c].change
<1>0. /\ call[c] \in CallStates /\ Formed(call[c]) /\ Rests(call[c]) /\ At(c, "save")
      /\ disk' = call[c].copy /\ change \in Changes /\ call[c].copy \in Stores
      /\ now \in 1 .. MaxTime
  BY DEF Save, TypeInv, TypeOK, Good, RestInv, CallStates
<1>1. CASE change[1] = "create"
  <2> DEFINE precache == <<"precache", 0>>
             copy == Changed(call[c].copy, precache)
             j == [call[c] EXCEPT !.change = precache, !.copy = copy]
             next == CASE call[c].change[1] = "create" -> j
                       [] call[c].op = "address" -> [call[c] EXCEPT !.pc = "give"]
                       [] OTHER -> Done(c)
  <2>1. Overtakes(c, next)
    BY DEF Save
  <2>2. next = j
    <3> HIDE DEF j
    <3> QED
      BY <1>0, <1>1 DEF Formed
  <2>3. HasWallet(call[c].copy) /\ precache \in Changes /\ precache[1] = "precache"
    BY <1>0, <1>1 DEF At, Formed, Changes
  <2>4. Changeable(disk', precache)
    BY <1>0, <2>3 DEF Changeable, Underivable, HasWallet
  <2>5. copy.wallet = NewWallet(disk'.wallet, precache)
    BY <1>0, <2>3, <2>4, ChangedIsStore
  <2>6. PICK k : k = next
    OBVIOUS
  <2> HIDE DEF copy, precache
  <2>7. /\ k.op = call[c].op /\ k.pc = call[c].pc /\ k.change = precache /\ k.copy = copy
    BY <1>0, <2>2, <2>6 DEF CallStates
  <2>8. Overtakes(c, k) /\ k.op \in {"change", "create"}
    BY <1>0, <1>1, <2>1, <2>6, <2>7 DEF Rests
  <2>9. disk'.wallet # Torn
    BY <1>0, <2>3 DEF HasWallet
  <2>10. Ready(k)'
    BY <2>3, <2>4, <2>5, <2>7, <2>9 DEF Ready, Changeable, HasWallet
  <2>11. Rests(k)'
    BY <1>0, <2>3, <2>7, <2>8, <2>10 DEF Rests, At
  <2> QED
    BY <2>8, <2>11, SaveRests
<1>2. CASE change[1] # "create" /\ call[c].op = "address"
  <2>1. PICK k : k = [call[c] EXCEPT !.pc = "give"]
    OBVIOUS
  <2>2. Overtakes(c, k)
    BY <1>2, <2>1 DEF Save
  <2>3. k.op = "address" /\ k.pc = "give" /\ k.change = change
    BY <1>0, <1>2, <2>1 DEF CallStates
  <2>4. change[1] = "bump"
    BY <1>0, <1>2 DEF Formed
  <2>5. Rests(k)'
    BY <2>3, <2>4 DEF Rests
  <2> QED
    BY <2>2, <2>5, SaveRests
<1>3. CASE change[1] # "create" /\ call[c].op = "scan"
  <2>1. PICK k : k = Done(c)
    OBVIOUS
  <2>2. Overtakes(c, k)
    BY <1>3, <2>1 DEF Save
  <2>3. /\ k.op = "scan" /\ k.pc = "scanning" /\ k.change = NoChange
        /\ k.phrase = call[c].phrase /\ k.list = call[c].list
        /\ k.overtaken = call[c].overtaken
    BY <1>3, <2>1, DoneIsGood
  <2>4. NoChange[1] = "lock"
    BY DEF NoChange
  <2>5. ~call[c].overtaken =>
          /\ HasWallet(disk)'
          /\ disk'.wallet.funded \subseteq call[c].list
          /\ call[c].list \ disk'.wallet.funded \subseteq Scripts(call[c].phrase)
    BY <1>3, ScanSaveRests
  <2>6. Rests(k)'
    BY <2>3, <2>4, <2>5 DEF Rests, HasWallet
  <2> QED
    BY <2>2, <2>6, SaveRests
<1>4. CASE change[1] # "create" /\ call[c].op \notin {"scan", "address"}
  <2>1. PICK k : k = Done(c)
    OBVIOUS
  <2>2. Overtakes(c, k) /\ k = Free
    BY <1>4, <2>1 DEF Save, Done
  <2>3. Rests(k)'
    BY <2>2 DEF Rests, Free, NoChange
  <2> QED
    BY <2>2, <2>3, SaveRests
<1> QED
  BY <1>1, <1>2, <1>3, <1>4

LEMMA StartsResting == Init => RestInv
  BY DEF Init, RestInv, Rests, Free, NoChange

LEMMA StaysResting == TypeInv /\ RestInv /\ [Next]_vars => RestInv'
<1> SUFFICES ASSUME TypeInv, RestInv, [Next]_vars PROVE RestInv'
  OBVIOUS
<1>1. CASE \E c \in Callers : Save(c)
  BY <1>1, SaveRest
<1>2. CASE Crash
  <2>1. \A c \in Callers : call'[c] = Free
    BY <1>2 DEF Crash
  <2> QED
    BY <2>1 DEF RestInv, Rests, Free, NoChange
<1>3. CASE TimePasses \/ UNCHANGED vars
  <2>1. call' = call /\ disk' = disk
    BY <1>3 DEF TimePasses, vars
  <2> QED
    BY <2>1 DEF RestInv, Rests, Ready, HasWallet, Changeable
<1> QED
  BY <1>1, <1>2, <1>3, BeginsRest, ScansAndPhrasesRest, ChangesRest DEF Next

LEMMA Resting == Spec => [](TypeInv /\ RestInv)
<1> QED
  BY StartsTyped, StaysTyped, StartsResting, StaysResting, PTL DEF Spec

\* The save of a record that is sealed anew is Seal.
LEMMA SealIsAtomic ==
  ASSUME TypeInv, RestInv, NEW c \in Callers, Save(c), ~call[c].overtaken,
         call[c].change[1] \in {"create", "import"}
  PROVE  Atomic!Seal
<1> DEFINE change == call[c].change
           p == change[2]
<1>1. /\ given' = {} /\ change \in Changes /\ Ready(call[c])
      /\ disk'.wallet = NewWallet(disk.wallet, change)
      /\ ~HasWallet(disk) => disk.wallet = NoWallet
  BY SavesReady DEF Save
<1>2. p \in Phrases /\ (change[1] = "create" => ~HasWallet(disk))
  BY <1>1, ChangeCarries DEF Ready, Changeable, Underivable, Secrets
<1>3. CASE change[1] = "create"
  <2>1. disk.wallet = NoWallet /\ disk'.wallet = Sealed(p)
    BY <1>1, <1>2, <1>3 DEF NewWallet
  <2> HIDE DEF p
  <2> QED
    BY <1>1, <1>2, <2>1 DEF Atomic!Seal, Sealed
<1>4. CASE change[1] = "import"
  <2>1. disk'.wallet = [phrase |-> p, next |-> 0, cached |-> TRUE, funded |-> {},
                        progress |-> 0, complete |-> FALSE]
    BY <1>1, <1>4 DEF NewWallet, Sealed
  <2> HIDE DEF p
  <2> QED
    BY <1>1, <1>2, <2>1 DEF Atomic!Seal
<1> QED
  BY <1>3, <1>4

\* The save of any other change is the change of the record, or leaves it.
LEMMA SaveIsAtomic ==
  ASSUME TypeInv, RestInv, NEW c \in Callers, Save(c), Undisturbed(c),
         call[c].change[1] \notin {"create", "import"}
  PROVE  Atomic!Next \/ UNCHANGED <<disk.wallet, given>>
<1> DEFINE change == call[c].change
           x == change[2]
           w == disk.wallet
<1>1. /\ given' = given /\ change \in Changes /\ disk'.wallet = NewWallet(w, change)
      /\ Ready(call[c]) /\ Rests(call[c]) /\ ~call[c].overtaken
  BY SavesReady DEF Save, Undisturbed, RestInv
<1>2. CASE change[1] \in {"lock", "unlock"}
  BY <1>1, <1>2 DEF NewWallet
<1>3. CASE change[1] \notin {"lock", "unlock"}
  <2>1. w \in Wallets /\ w # NoWallet
    BY <1>1, <1>3, SavesReady, NoWalletAssumption
  <2>2. CASE change[1] = "precache"
    BY <1>1, <2>1, <2>2 DEF NewWallet, Atomic!Next, Atomic!Precache
  <2>3. CASE change[1] \in {"bump", "raise"}
    <3>1. w.next \in 0 .. MaxIndex
      BY <2>1 DEF Wallets
    <3>4. ASSUME NEW n \in 1 .. MaxIndex, n > w.next, disk'.wallet = [w EXCEPT !.next = n]
          PROVE  Atomic!Next
      <4> HIDE DEF w
      <4>1. Atomic!Advance
        BY <1>1, <3>4 DEF Atomic!Advance, w
      <4> QED
        BY <2>1, <4>1 DEF Atomic!Next, w
    <3>2. CASE change[1] = "bump"
      <4>1. w.next # MaxIndex
        BY <1>1, <3>2 DEF Ready, Changeable
      <4>2. disk'.wallet = [w EXCEPT !.next = w.next + 1]
        BY <1>1, <3>2 DEF NewWallet
      <4>3. w.next + 1 \in 1 .. MaxIndex /\ w.next + 1 > w.next
        BY <3>1, <4>1, KeystoreAssumption
      <4> QED
        BY <3>4, <4>2, <4>3
    <3>3. CASE change[1] = "raise"
      <4>1. x \in 1 .. MaxIndex /\ x > w.next
        BY <1>1, <3>3, ChangeCarries DEF Ready
      <4>2. disk'.wallet = [w EXCEPT !.next = x]
        BY <1>1, <3>3 DEF NewWallet
      <4> QED
        BY <3>4, <4>1, <4>2
    <3> QED
      BY <2>3, <3>2, <3>3
  <2>4. CASE change[1] \in {"funded", "register"}
    <3>1. call[c].phrase = w.phrase /\ call[c].pc = "save"
      BY <2>4 DEF Undisturbed, Save, At
    <3>2. CASE change[1] = "funded"
      <4>1. x \ w.funded \subseteq Scripts(w.phrase) /\ w.funded \subseteq x
        BY <1>1, <3>1, <3>2 DEF Rests
      <4>2. disk'.wallet = [w EXCEPT !.funded = w.funded \cup (x \ w.funded)]
        <5>1. w.funded \cup (x \ w.funded) = x
          BY <4>1
        <5> QED
          BY <1>1, <3>2, <5>1 DEF NewWallet
      <4> QED
        BY <1>1, <2>1, <4>1, <4>2 DEF Atomic!Next, Atomic!Fund, Scripts
    <3>3. CASE change[1] = "register"
      <4>1. {x} \subseteq Scripts(w.phrase)
        BY <1>1, <3>1, <3>3 DEF Rests
      <4>2. disk'.wallet = [w EXCEPT !.funded = w.funded \cup {x}]
        BY <1>1, <3>3 DEF NewWallet
      <4> QED
        BY <1>1, <2>1, <4>1, <4>2 DEF Atomic!Next, Atomic!Fund, Scripts
    <3> QED
      BY <2>4, <3>2, <3>3
  <2>5. CASE change[1] = "progress"
    BY <1>1, <2>1, <2>5, ChangeCarries DEF NewWallet, Atomic!Next, Atomic!Index
  <2>6. CASE change[1] \in {"complete", "incomplete"}
    <3> DEFINE b == (change[1] = "complete")
    <3>1. disk'.wallet = [w EXCEPT !.complete = b, !.progress = 0]
      BY <1>1, <2>1, <2>6 DEF NewWallet, Wallets
    <3>2. b \in BOOLEAN
      OBVIOUS
    <3> HIDE DEF b
    <3> QED
      BY <1>1, <2>1, <3>1, <3>2 DEF Atomic!Next, Atomic!Mark
  <2> QED
    BY <1>1, <1>3, <2>2, <2>3, <2>4, <2>5, <2>6, ChangeCarries
<1> QED
  BY <1>2, <1>3

\* However many calls are under way, whatever saves fail and wherever a crash comes: a save
\* that no other call's save has come before, since its own call read the record
\* (light_keystore.rs:171-181 and the calls like it; a scan reads it at its beginning,
\* sync_engine.rs:398), and that adds no scripts of another phrase, changes the record as it
\* is at that moment, in one step.  All that overlapping calls can do to each other is to
\* overwrite what was saved in between (Keystore_overlap.cfg).
THEOREM UndisturbedSavesAreAtomic == Spec => UndisturbedIsAtomic
<1>1. TypeInv /\ RestInv /\ [Next]_vars =>
        [\A c \in Callers : Save(c) /\ Undisturbed(c) =>
           Atomic!Next \/ UNCHANGED <<disk.wallet, given>>]_vars
  <2> SUFFICES ASSUME TypeInv, RestInv, NEW c \in Callers, Save(c), Undisturbed(c)
               PROVE  Atomic!Next \/ UNCHANGED <<disk.wallet, given>>
    OBVIOUS
  <2>1. CASE call[c].change[1] \in {"create", "import"}
    BY <2>1, SealIsAtomic DEF Undisturbed, Atomic!Next
  <2>2. CASE call[c].change[1] \notin {"create", "import"}
    BY <2>2, SaveIsAtomic
  <2> QED
    BY <2>1, <2>2
<1> QED
  BY <1>1, Resting, PTL DEF Spec, UndisturbedIsAtomic
=============================================================================
