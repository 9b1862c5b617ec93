--------------------------- MODULE UtxoCacheProofs ---------------------------
(***************************************************************************)
(* What holds of the cache of coins for every set of coins, payments and   *)
(* scripts: its types, that a call pays at most once, that no row of       *)
(* another wallet stays, that a payment stays shown, and that no money is  *)
(* counted twice.                                                          *)
(***************************************************************************)
EXTENDS UtxoCache, TLAPS

\* Where a call has its payment, and where it may have one.
Paid == {"remove", "upsert", "list", "append", "fund"}
Storing == {"existing", "commit"}

\* A call that may still broadcast has not paid yet; one that has paid knows its payment,
\* and appends it to keys of payments.
Paying(k) == /\ k.pc \in Paid => k.pay \in Payments
             /\ k.pc = "append" => k.keys \subseteq Payments
             /\ k.paid <= 1
             /\ k.paid = 1 => k.pc \in Paid \/ (k.pc \in Storing /\ k.pay # "none")

Good == {k \in Call : Paying(k)}
GoodInv == TypeOK /\ call \in [Callers -> Good]

-----------------------------------------------------------------------------
\* A call that has not begun has not paid.
LEMMA IdleIsGood == Idle \in Good
  BY SetsAssumption DEF Idle, Good, Call, Paying, Paid, Storing, NoRows, Txs, Row

\* A call stays a call where it begins a refresh, takes coins in, reads rows, chooses coins,
\* reads keys, lists what to prune, or has committed.
LEMMA BeginsRefresh ==
  ASSUME NEW k \in Call, NEW pc \in {"register", "ask"},
         NEW todo \in SUBSET (Scripts \cup Txs), NEW view \in [Txs -> Row]
  PROVE  [k EXCEPT !.pc = pc, !.todo = todo, !.view = view] \in Call
  BY DEF Call

LEMMA TakesIn ==
  ASSUME NEW k \in Call, NEW pc \in {"keys", "ask"},
         NEW todo \in SUBSET (Scripts \cup Txs), NEW view \in [Txs -> Row]
  PROVE  [k EXCEPT !.view = view, !.todo = todo, !.pc = pc] \in Call
  BY DEF Call

LEMMA ReadsRows ==
  ASSUME NEW k \in Call, NEW pc \in {"trusted", "plan"}, NEW view \in [Txs -> Row]
  PROVE  [k EXCEPT !.pc = pc, !.view = view] \in Call
  BY DEF Call

LEMMA Chooses ==
  ASSUME NEW k \in Call, NEW S \in SUBSET Txs
  PROVE  [k EXCEPT !.spent = S, !.pc = "broadcast"] \in Call
  BY DEF Call

LEMMA ReadsKeys ==
  ASSUME NEW k \in Call, NEW keys \in SUBSET Txs, NEW pc \in {"known", "ready"}
  PROVE  [k EXCEPT !.keys = keys, !.pc = pc] \in Call
  BY DEF Call

LEMMA Prunes ==
  ASSUME NEW k \in Call, NEW todo \in SUBSET (Scripts \cup Txs)
  PROVE  [k EXCEPT !.todo = todo, !.pc = "prune"] \in Call
  BY DEF Call

LEMMA Committed ==
  ASSUME NEW k \in Call, NEW pc \in {"register", "list"}, NEW read \in [Txs -> Row],
         NEW view \in [Txs -> Row]
  PROVE  [k EXCEPT !.pc = pc, !.read = read, !.view = view] \in Call
  BY DEF Call

\* A call that has not paid may be anywhere but behind a payment.
LEMMA UnpaidIsGood ==
  ASSUME NEW k \in Call, k.paid = 0, k.pc \notin Paid
  PROVE  k \in Good
  BY DEF Good, Paying, Paid

\* And one that is neither behind a payment nor storing has not.
LEMMA GoodIsUnpaid ==
  ASSUME NEW k \in Good, k.pc \notin Paid \cup Storing
  PROVE  k.paid = 0
<1>1. k.paid \in 0 .. 2
  BY DEF Good, Call
<1> QED
  BY <1>1 DEF Good, Paying

\* A refresh begins with a call that has not paid,
LEMMA RefreshingIsGood ==
  ASSUME NEW k \in Call, k.paid = 0, funded \subseteq Scripts
  PROVE  Refreshing(k) \in Good
<1>1. NoRows \in [Txs -> Row]
  BY DEF NoRows, Row
<1>2. ASSUME NEW pc \in {"register", "ask"}, NEW todo \in SUBSET (Scripts \cup Txs),
             NEW view \in [Txs -> Row]
      PROVE  [k EXCEPT !.pc = pc, !.todo = todo, !.view = view] \in Good
  <2> DEFINE n == [k EXCEPT !.pc = pc, !.todo = todo, !.view = view]
  <2>1. n \in Call /\ n.paid = 0 /\ n.pc \notin Paid
    <3>1. n \in Call
      BY BeginsRefresh
    <3>2. n.paid = 0 /\ n.pc \notin Paid
      BY DEF Call, Paid
    <3> QED
      BY <3>1, <3>2
  <2> HIDE DEF n
  <2>2. n \in Good
    BY <2>1, UnpaidIsGood
  <2> QED
    BY <2>2 DEF n
<1> DEFINE pc == IF funded = {} THEN "register" ELSE "ask"
<1>3. pc \in {"register", "ask"} /\ funded \in SUBSET (Scripts \cup Txs)
  OBVIOUS
<1>4. [k EXCEPT !.pc = pc, !.todo = funded, !.view = NoRows] \in Good
  <2> HIDE DEF pc
  <2> QED
    BY <1>1, <1>2, <1>3
<1> QED
  BY <1>4 DEF Refreshing

\* and so does a call that is repeated after an error.
LEMMA FailedIsGood ==
  ASSUME NEW k \in Call, NEW lookup \in BOOLEAN, k.paid = 0, funded \subseteq Scripts
  PROVE  Failed(k, lookup) \in Good
<1> DEFINE again == [k EXCEPT !.attempt = 1]
<1>1. again \in Call /\ again.paid = 0
  BY DEF Call
<1>2. Refreshing(again) \in Good
  <2> HIDE DEF again
  <2> QED
    BY <1>1, RefreshingIsGood
<1> QED
  BY <1>2, IdleIsGood DEF Failed

\* The rows that a server answers are rows.
LEMMA ServerRowsAreRows ==
  ASSUME TypeOK, NEW t \in Txs
  PROVE  LedgerRow(t) \in Row /\ ServerRows(t) \subseteq Row
  BY DEF TypeOK, LedgerRow, ServerRows, Row

\* A step that replaces one call by another keeps the calls.
LEMMA Moved ==
  ASSUME call \in [Callers -> Good], NEW c \in Callers, NEW k \in Good,
         call' = [call EXCEPT ![c] = k]
  PROVE  call' \in [Callers -> Good] /\ call' \in [Callers -> Call]
  BY DEF Good

\* The calls begin.
LEMMA StartsAreGood ==
  ASSUME GoodInv, NEW c \in Callers, StartRefresh(c) \/ Start(c)
  PROVE  GoodInv'
<1> USE DEF GoodInv
<1>0. \A op \in Ops : Begin(c, op) \in Call /\ Begin(c, op).paid = 0
  BY IdleIsGood DEF Good, Call, TypeOK, Begin, Idle
<1>1. ASSUME NEW op \in Ops, call' = [call EXCEPT ![c] = Refreshing(Begin(c, op))],
             UNCHANGED <<funded, store, reported>>, BesideImport
      PROVE  GoodInv'
  <2>1. Refreshing(Begin(c, op)) \in Good
    BY <1>0, RefreshingIsGood DEF TypeOK
  <2>2. call' \in [Callers -> Good] /\ call' \in [Callers -> Call]
    BY <1>1, <2>1, Moved
  <2> QED
    BY <1>1, <2>2 DEF TypeOK, BesideImport, store
<1>2. CASE StartRefresh(c)
  BY <1>1, <1>2 DEF StartRefresh, Ops
<1>3. CASE StartSend(c)
  BY <1>1, <1>3 DEF StartSend, Ops
<1>4. CASE StartBalance(c)
  <2> DEFINE k == [Begin(c, "balance") EXCEPT !.pc = "trusted", !.view = rows]
  <2>1. k \in Call /\ k.paid = 0 /\ k.pc \notin Paid
    <3>1. k \in Call
      BY <1>0, ReadsRows DEF Ops, TypeOK
    <3>2. k.paid = 0 /\ k.pc \notin Paid
      BY <1>0 DEF Call, Ops, Paid
    <3> QED
      BY <3>1, <3>2
  <2>2. call' = [call EXCEPT ![c] = k]
    BY <1>4 DEF StartBalance
  <2> HIDE DEF k
  <2>3. call' \in [Callers -> Good] /\ call' \in [Callers -> Call]
    BY <2>1, <2>2, UnpaidIsGood, Moved
  <2> QED
    BY <1>4, <2>3 DEF TypeOK, BesideImport, store, StartBalance
<1>5. CASE StartImport(c)
  <2> DEFINE k == [Begin(c, "import") EXCEPT !.pc = "clear"]
  <2>1. k \in Call /\ k.paid = 0 /\ k.pc \notin Paid
    BY <1>0 DEF Call, Ops, Paid
  <2>2. call' = [call EXCEPT ![c] = k]
    BY <1>5 DEF StartImport
  <2> HIDE DEF k
  <2>3. call' \in [Callers -> Good] /\ call' \in [Callers -> Call]
    BY <2>1, <2>2, UnpaidIsGood, Moved
  <2>4. wallet' \in 1 .. MaxWallet
    BY <1>5, SetsAssumption DEF TypeOK, StartImport
  <2> QED
    BY <1>5, <2>3, <2>4 DEF TypeOK, store, StartImport
<1> QED
  BY <1>2, <1>3, <1>4, <1>5 DEF Start

\* A call that only moves on keeps what it has of a payment.
LEMMA MovedOnIsGood ==
  ASSUME NEW k \in Good, NEW n \in Call, n.pay = k.pay, n.paid = k.paid,
         \/ n.pc \notin Paid /\ k.paid = 0
         \/ /\ n.pc \in Paid \cup Storing /\ k.pay # "none" /\ k.pay \in Payments
            /\ n.pc # "append" \/ n.keys \subseteq Payments
  PROVE  n \in Good
  BY SetsAssumption DEF Good, Paying, Paid, Storing

\* The refresh, up to the rows.
LEMMA RefreshesAreGood ==
  ASSUME GoodInv, NEW c \in Callers,
         \/ \E s \in Scripts : Ask(c, s)
         \/ StoreKeys(c) \/ ReadExisting(c) \/ Commit(c) \/ Register(c)
  PROVE  GoodInv'
<1> USE DEF GoodInv
<1>0. call[c] \in Good /\ call[c] \in Call
  BY DEF Good
<1>1. ASSUME NEW s \in Scripts, Ask(c, s) PROVE GoodInv'
  <2> DEFINE mine == {t \in Txs : ledger[t].script = s}
  <2>1. PICK answer \in [mine -> Row] :
           /\ \A t \in mine : answer[t] \in ServerRows(t)
           /\ faults' = faults + IF \A t \in mine : answer[t] = LedgerRow(t) THEN 0 ELSE 1
           /\ call' = [call EXCEPT
                 ![c].view = [t \in Txs |-> IF t \in mine THEN answer[t] ELSE @[t]],
                 ![c].todo = @ \ {s},
                 ![c].pc = IF call[c].todo = {s} THEN "keys" ELSE "ask"]
    BY <1>1 DEF Ask
  <2> DEFINE view == [t \in Txs |-> IF t \in mine THEN answer[t] ELSE call[c].view[t]]
             todo == call[c].todo \ {s}
             pc == IF call[c].todo = {s} THEN "keys" ELSE "ask"
  <2>2. view \in [Txs -> Row] /\ todo \in SUBSET (Scripts \cup Txs) /\ pc \in {"keys", "ask"}
    BY <1>0 DEF Call
  <2>3. call' = [call EXCEPT ![c] = [call[c] EXCEPT !.view = view, !.todo = todo, !.pc = pc]]
    BY <2>1
  <2>4. call[c].paid = 0
    BY <1>0, <1>1, GoodIsUnpaid DEF Ask, At, Paid, Storing
  <2>5. [call[c] EXCEPT !.view = view, !.todo = todo, !.pc = pc] \in Good
    <3> HIDE DEF view, todo, pc
    <3> DEFINE k == [call[c] EXCEPT !.view = view, !.todo = todo, !.pc = pc]
    <3>1. k \in Call /\ k.paid = 0 /\ k.pc \notin Paid
      <4>1. k \in Call
        BY <1>0, <2>2, <2>4, TakesIn
      <4>2. k.paid = 0 /\ k.pc \notin Paid
        BY <1>0, <2>2, <2>4 DEF Call, Paid
      <4> QED
        BY <4>1, <4>2
    <3> HIDE DEF k
    <3>2. k \in Good
      BY <3>1, UnpaidIsGood
    <3> QED
      BY <3>2 DEF k
  <2>6. call' \in [Callers -> Good] /\ call' \in [Callers -> Call]
    BY <2>3, <2>5, Moved, Zenon
  <2>7. faults' \in 0 .. MaxFaults
    <3>1. CASE \A t \in mine : answer[t] = LedgerRow(t)
      <4>1. faults' = faults + 0
        BY <2>1, <3>1, Zenon
      <4> QED
        BY <4>1 DEF TypeOK
    <3>2. CASE ~(\A t \in mine : answer[t] = LedgerRow(t))
      <4>1. PICK t \in mine : answer[t] # LedgerRow(t)
        BY <3>2
      <4>2. faults < MaxFaults
        BY <2>1, <4>1 DEF ServerRows
      <4>3. faults' = faults + 1
        BY <2>1, <3>2, Zenon
      <4>4. faults \in 0 .. MaxFaults /\ MaxFaults \in Nat
        BY SetsAssumption DEF TypeOK
      <4> HIDE DEF GoodInv
      <4> QED
        BY <4>2, <4>3, <4>4
    <3> QED
      BY <3>1, <3>2
  <2> QED
    BY <1>1, <2>6, <2>7 DEF TypeOK, Ask, store
<1>2. CASE StoreKeys(c)
  <2> DEFINE k == [call[c] EXCEPT !.pc = "existing"]
  <2>1. k \in Call /\ k.pc = "existing" /\ k.paid = 0
    <3>1. call[c].paid = 0
      BY <1>0, <1>2, GoodIsUnpaid DEF StoreKeys, At, Paid, Storing
    <3> QED
      BY <1>0, <3>1 DEF Call
  <2>2. call' = [call EXCEPT ![c] = k]
    BY <1>2 DEF StoreKeys, Goto
  <2> HIDE DEF k
  <2>3. call' \in [Callers -> Good] /\ call' \in [Callers -> Call]
    BY <2>1, <2>2, UnpaidIsGood, Moved DEF Paid
  <2>4. snapshot' \in [ready : BOOLEAN, keys : SUBSET Txs]
    BY <1>2 DEF StoreKeys
  <2> QED
    BY <1>2, <2>3, <2>4 DEF StoreKeys, TypeOK, Rest
<1>3. CASE ReadExisting(c)
  <2> DEFINE k == [call[c] EXCEPT !.read = rows, !.pc = "commit"]
  <2>1. k \in Call /\ k.pc = "commit" /\ k.paid = call[c].paid /\ k.pay = call[c].pay
    BY <1>0 DEF Call, TypeOK
  <2>2. call' = [call EXCEPT ![c] = k]
    BY <1>3 DEF ReadExisting
  <2> HIDE DEF k
  <2>3. k \in Good
    BY <1>0, <1>3, <2>1 DEF ReadExisting, At, Good, Paying, Paid, Storing
  <2>4. call' \in [Callers -> Good] /\ call' \in [Callers -> Call]
    BY <2>2, <2>3, Moved
  <2> QED
    BY <1>3, <2>4 DEF ReadExisting, TypeOK, Rest, store
<1>4. CASE Commit(c)
  <2> DEFINE view == IF call[c].pay = "none" THEN call[c].view ELSE NoRows
             k == [call[c] EXCEPT !.pc = AfterCommit(call[c]), !.read = NoRows, !.view = view]
  <2>1. view \in [Txs -> Row] /\ NoRows \in [Txs -> Row]
    BY <1>0 DEF Call, NoRows, Row
  <2>2. call' = [call EXCEPT ![c] = k]
    BY <1>4 DEF Commit
  <2> HIDE DEF view
  <2>3. /\ k \in Call /\ k.paid = call[c].paid /\ k.pay = call[c].pay
        /\ k.pc = IF k.pay = "none" THEN "register" ELSE "list"
    <3>1. AfterCommit(call[c]) \in {"register", "list"}
      BY DEF AfterCommit
    <3>2. k \in Call
      BY <1>0, <2>1, <3>1, Committed
    <3>3. /\ k.paid = call[c].paid /\ k.pay = call[c].pay
          /\ k.pc = IF k.pay = "none" THEN "register" ELSE "list"
      BY <1>0 DEF Call, AfterCommit
    <3> QED
      BY <3>2, <3>3
  <2> HIDE DEF k
  <2>4. call[c].pay \in Payments \cup {"none"}
    BY <1>0 DEF Call
  <2>5. k \in Good
    BY <1>0, <1>4, <2>3, <2>4 DEF Commit, At, Good, Paying, Paid, Storing
  <2>6. call' \in [Callers -> Good] /\ call' \in [Callers -> Call]
    BY <2>2, <2>5, Moved
  <2>7. rows' \in [Txs -> Row]
    <3>1. call[c].view \in [Txs -> Row] /\ rows \in [Txs -> Row]
      BY <1>0 DEF Call, TypeOK
    <3> QED
      BY <1>4, <3>1 DEF Commit, Replaced
  <2>8. reported' \subseteq Payments
    BY <1>4 DEF Commit, StillReported, TypeOK
  <2> QED
    BY <1>4, <2>6, <2>7, <2>8 DEF Commit, TypeOK, Rest
<1>5. CASE Register(c)
  <2>1. funded' \subseteq Scripts
    BY <1>5 DEF Register, TypeOK
  <2>2. call[c].paid = 0
    BY <1>0, <1>5, GoodIsUnpaid DEF Register, At, Paid, Storing
  <2>3. \E k \in Good : call' = [call EXCEPT ![c] = k]
    <3>1. CASE call[c].op = "refresh"
      BY <1>5, <3>1, IdleIsGood DEF Register, Done
    <3>2. CASE call[c].op = "send" /\ call[c].attempt = 1
      <4> DEFINE k == [call[c] EXCEPT !.attempt = 2, !.who = wallet]
      <4>1. k \in Call /\ k.paid = 0
        <5>1. wallet \in 1 .. MaxWallet
          BY DEF TypeOK
        <5>2. \A j \in Call : \A n \in 0 .. 2 : \A w \in 1 .. MaxWallet :
                 [j EXCEPT !.attempt = n, !.who = w] \in Call
          BY DEF Call
        <5>3. 2 \in 0 .. 2
          OBVIOUS
        <5>4. k \in Call
          BY <1>0, <5>1, <5>2, <5>3, Zenon
        <5>5. k.paid = 0
          BY <1>0, <2>2 DEF Call
        <5> QED
          BY <5>4, <5>5
      <4>2. call' = [call EXCEPT ![c] = Refreshing(k)]
        BY <1>5, <3>2 DEF Register
      <4> HIDE DEF k
      <4>3. Refreshing(k) \in Good
        BY <4>1, RefreshingIsGood DEF TypeOK
      <4> QED
        BY <4>2, <4>3
    <3>3. CASE call[c].op # "refresh" /\ ~(call[c].op = "send" /\ call[c].attempt = 1)
      <4> DEFINE k == [call[c] EXCEPT !.pc = "plan", !.view = NoRows]
      <4>1. k \in Call /\ k.paid = 0 /\ k.pc \notin Paid
        <5>1. k \in Call
          BY <1>0, <2>2, ReadsRows DEF NoRows, Row
        <5>2. k.paid = 0 /\ k.pc \notin Paid
          BY <1>0, <2>2 DEF Call, Paid
        <5> QED
          BY <5>1, <5>2
      <4>2. call' = [call EXCEPT ![c] = k]
        BY <1>5, <3>3 DEF Register
      <4> HIDE DEF k
      <4> QED
        BY <4>1, <4>2, UnpaidIsGood
    <3> QED
      BY <3>1, <3>2, <3>3
  <2>4. call' \in [Callers -> Good] /\ call' \in [Callers -> Call]
    BY <2>3, Moved
  <2> QED
    BY <1>5, <2>1, <2>4 DEF Register, TypeOK, Rest, store
<1> QED
  BY <1>1, <1>2, <1>3, <1>4, <1>5

\* A fault leaves room for itself.
LEMMA FaultCounted == ASSUME GoodInv, NEW f, Fault(f) PROVE faults' \in 0 .. MaxFaults
  BY SetsAssumption DEF GoodInv, TypeOK, Fault

\* The network with a payment in it.
LEMMA SentIsLedger ==
  ASSUME GoodInv, NEW c \in Callers, NEW p \in Payments, NEW change \in BOOLEAN,
         NEW s \in Scripts
  PROVE  Sent(p, c, change, s) \in
           [Txs -> [row : Row, spends : SUBSET Txs, script : Scripts, change : BOOLEAN]]
<1>1. call[c].spent \in SUBSET Txs
  BY DEF GoodInv, Good, Call
<1>2. [row |-> "pending", spends |-> call[c].spent, script |-> s, change |-> change]
         \in [row : Row, spends : SUBSET Txs, script : Scripts, change : BOOLEAN]
  BY <1>1 DEF Row
<1> QED
  BY <1>2 DEF Sent, GoodInv, TypeOK

\* The payment, up to the network.
LEMMA PaymentsAreGood ==
  ASSUME GoodInv, NEW c \in Callers,
         Plan(c) \/ Broadcast(c) \/ BroadcastLost(c) \/ NotSent(c) \/ CallFails(c)
  PROVE  GoodInv'
<1> USE DEF GoodInv
<1>0. call[c] \in Good /\ call[c] \in Call
  BY DEF Good
<1>1. call[c].paid = 0
  BY <1>0, GoodIsUnpaid
     DEF Plan, Broadcast, BroadcastLost, NotSent, CallFails, At, Paid, Storing
<1>2. CASE Plan(c)
  <2>1. PICK S \in (SUBSET Spendable) \ {{}} :
           call' = [call EXCEPT ![c].spent = S, ![c].pc = "broadcast"]
    BY <1>2 DEF Plan
  <2> DEFINE k == [call[c] EXCEPT !.spent = S, !.pc = "broadcast"]
  <2>2. S \in SUBSET Txs
    BY DEF Spendable
  <2>3. k \in Call /\ k.paid = 0 /\ k.pc \notin Paid
    <3>1. k \in Call
      BY <1>0, <1>1, <2>2, Chooses
    <3>2. k.paid = 0 /\ k.pc \notin Paid
      BY <1>0, <1>1, <2>2 DEF Call, Paid
    <3> QED
      BY <3>1, <3>2
  <2>4. call' = [call EXCEPT ![c] = k]
    BY <2>1
  <2> HIDE DEF k
  <2>5. call' \in [Callers -> Good] /\ call' \in [Callers -> Call]
    BY <2>3, <2>4, UnpaidIsGood, Moved
  <2> QED
    BY <1>2, <2>5 DEF Plan, TypeOK, Rest, store
<1>3. CASE Broadcast(c)
  <2>1. PICK p \in Payments \ Known, change \in BOOLEAN,
             s \in {x \in Scripts : Owner[x] = call[c].who} :
           /\ ledger' = Sent(p, c, change, s)
           /\ call' = [call EXCEPT ![c].pc = "remove", ![c].pay = p,
                                   ![c].todo = call[c].spent, ![c].paid = @ + 1]
    BY <1>3 DEF Broadcast
  <2> DEFINE spent == call[c].spent
             paid == call[c].paid + 1
             k == [call[c] EXCEPT !.pc = "remove", !.pay = p, !.todo = spent, !.paid = paid]
  <2>2. call' = [call EXCEPT ![c] = k]
    BY <1>0, <2>1 DEF Call
  <2>3. spent \in SUBSET (Scripts \cup Txs) /\ paid = 1 /\ paid \in 0 .. 2
    BY <1>0, <1>1 DEF Call
  <2> HIDE DEF spent, paid
  <2>4. k \in Call /\ k.pc = "remove" /\ k.pay = p /\ k.paid = 1
    BY <1>0, <2>3 DEF Call
  <2> HIDE DEF k
  <2>5. k \in Good
    BY <2>4 DEF Good, Paying, Paid
  <2>6. call' \in [Callers -> Good] /\ call' \in [Callers -> Call]
    BY <2>2, <2>5, Moved
  <2> QED
    BY <1>3, <2>1, <2>6, SentIsLedger DEF Broadcast, TypeOK, store
<1>4. CASE BroadcastLost(c)
  <2>1. PICK p \in Payments \ Known, change \in BOOLEAN,
             s \in {x \in Scripts : Owner[x] = call[c].who} :
           ledger' = Sent(p, c, change, s)
    BY <1>4 DEF BroadcastLost
  <2>2. call' = [call EXCEPT ![c] = Idle]
    BY <1>4 DEF BroadcastLost, Failed
  <2>3. call' \in [Callers -> Good] /\ call' \in [Callers -> Call]
    BY <2>2, IdleIsGood, Moved
  <2>4. faults' \in 0 .. MaxFaults
    BY <1>4, FaultCounted DEF BroadcastLost
  <2> QED
    BY <1>4, <2>1, <2>3, <2>4, SentIsLedger DEF BroadcastLost, TypeOK, store
<1>5. ASSUME \E lookup \in BOOLEAN : call' = [call EXCEPT ![c] = Failed(@, lookup)]
      PROVE  call' \in [Callers -> Good] /\ call' \in [Callers -> Call]
  <2>1. PICK lookup \in BOOLEAN : call' = [call EXCEPT ![c] = Failed(call[c], lookup)]
    BY <1>5
  <2>2. Failed(call[c], lookup) \in Good
    BY <1>0, <1>1, FailedIsGood DEF TypeOK
  <2> QED
    BY <2>1, <2>2, Moved
<1>6. CASE NotSent(c)
  BY <1>5, <1>6 DEF NotSent, TypeOK, Rest, store
<1>7. CASE CallFails(c)
  <2>1. faults' \in 0 .. MaxFaults
    BY <1>7, FaultCounted DEF CallFails
  <2> QED
    BY <1>5, <1>7, <2>1 DEF CallFails, TypeOK, store
<1> QED
  BY <1>2, <1>3, <1>4, <1>6, <1>7

\* What follows a payment in the cache.
LEMMA UpdatesAreGood ==
  ASSUME GoodInv, NEW c \in Callers,
         \/ RemoveSpent(c) \/ ListForUpsert(c) \/ ListOptimistic(c)
         \/ AppendOptimistic(c) \/ RegisterSent(c)
  PROVE  GoodInv'
<1> USE DEF GoodInv
<1>0. call[c] \in Good /\ call[c] \in Call
  BY DEF Good
<1>1. call[c].pay \in Payments /\ call[c].pay # "none"
  BY <1>0, SetsAssumption
     DEF RemoveSpent, ListForUpsert, ListOptimistic, AppendOptimistic, RegisterSent, At, Paid,
         Good, Paying
<1>2. CASE RemoveSpent(c)
  <2>1. PICK t \in call[c].todo :
          /\ rows' = [rows EXCEPT ![t] = "none"]
          /\ call' = [call EXCEPT ![c].todo = @ \ {t},
                ![c].pc = IF call[c].todo # {t} THEN "remove"
                          ELSE IF ledger[call[c].pay].change THEN "upsert" ELSE "fund"]
    BY <1>2 DEF RemoveSpent
  <2> DEFINE todo == call[c].todo \ {t}
             pc == IF call[c].todo # {t} THEN "remove"
                   ELSE IF ledger[call[c].pay].change THEN "upsert" ELSE "fund"
             k == [call[c] EXCEPT !.todo = todo, !.pc = pc]
  <2>2. todo \in SUBSET (Scripts \cup Txs) /\ pc \in {"remove", "upsert", "fund"}
    BY <1>0 DEF Call
  <2>3. call' = [call EXCEPT ![c] = k]
    BY <2>1
  <2> HIDE DEF todo, pc
  <2>4. k \in Call /\ k.pc = pc /\ k.pay = call[c].pay /\ k.paid = call[c].paid
    BY <1>0, <2>2 DEF Call
  <2> HIDE DEF k
  <2>5. k \in Good
    BY <1>0, <1>1, <2>2, <2>4, MovedOnIsGood DEF Paid
  <2>6. call' \in [Callers -> Good] /\ call' \in [Callers -> Call]
    BY <2>3, <2>5, Moved
  <2>7. rows' \in [Txs -> Row]
    BY <2>1 DEF TypeOK, Row
  <2> QED
    BY <1>2, <2>6, <2>7 DEF RemoveSpent, TypeOK, Rest
<1>3. CASE ListForUpsert(c)
  <2> DEFINE view == [rows EXCEPT ![call[c].pay] = "pending"]
             k == [call[c] EXCEPT !.view = view, !.pc = "existing"]
  <2>1. view \in [Txs -> Row]
    BY DEF TypeOK, Row
  <2>2. call' = [call EXCEPT ![c] = k]
    BY <1>3 DEF ListForUpsert
  <2> HIDE DEF view
  <2>3. k \in Call /\ k.pc = "existing" /\ k.pay = call[c].pay /\ k.paid = call[c].paid
    BY <1>0, <2>1 DEF Call
  <2> HIDE DEF k
  <2>4. k \in Good
    BY <1>0, <1>1, <2>3, MovedOnIsGood DEF Storing
  <2>5. call' \in [Callers -> Good] /\ call' \in [Callers -> Call]
    BY <2>2, <2>4, Moved
  <2> QED
    BY <1>3, <2>5 DEF ListForUpsert, TypeOK, Rest, store
<1>4. CASE ListOptimistic(c)
  <2> DEFINE k == [call[c] EXCEPT !.keys = optimistic, !.pc = "append"]
  <2>1. optimistic \in SUBSET Txs
    BY DEF TypeOK, Txs
  <2>2. call' = [call EXCEPT ![c] = k]
    BY <1>4 DEF ListOptimistic
  <2>3. /\ k \in Call /\ k.pc = "append" /\ k.pay = call[c].pay /\ k.paid = call[c].paid
        /\ k.keys = optimistic
    BY <1>0, <2>1 DEF Call
  <2> HIDE DEF k
  <2>4. k \in Good
    BY <1>0, <1>1, <2>3, MovedOnIsGood DEF Paid, TypeOK
  <2>5. call' \in [Callers -> Good] /\ call' \in [Callers -> Call]
    BY <2>2, <2>4, Moved
  <2> QED
    BY <1>4, <2>5 DEF ListOptimistic, TypeOK, Rest, store
<1>5. CASE AppendOptimistic(c)
  <2> DEFINE k == [call[c] EXCEPT !.keys = {}, !.pc = "fund"]
  <2>1. call' = [call EXCEPT ![c] = k]
    BY <1>5 DEF AppendOptimistic
  <2>2. k \in Call /\ k.pc = "fund" /\ k.pay = call[c].pay /\ k.paid = call[c].paid
    BY <1>0 DEF Call
  <2> HIDE DEF k
  <2>3. k \in Good
    BY <1>0, <1>1, <2>2, MovedOnIsGood DEF Paid
  <2>4. call' \in [Callers -> Good] /\ call' \in [Callers -> Call]
    BY <2>1, <2>3, Moved
  <2>5. call[c].keys \subseteq Payments
    BY <1>0, <1>5 DEF AppendOptimistic, At, Good, Paying
  <2>6. optimistic' \subseteq Payments
    BY <1>1, <1>5, <2>5 DEF AppendOptimistic
  <2> QED
    BY <1>5, <2>4, <2>6 DEF AppendOptimistic, TypeOK, Rest
<1>6. CASE RegisterSent(c)
  <2>1. call' \in [Callers -> Good] /\ call' \in [Callers -> Call]
    BY <1>6, IdleIsGood, Moved DEF RegisterSent, Done
  <2>2. call[c].spent \subseteq Txs
    BY <1>0 DEF Call
  <2>3. funded' \subseteq Scripts
    BY <1>1, <1>6, <2>2 DEF RegisterSent, TypeOK, Txs
  <2>4. reported' \subseteq Payments
    BY <1>1, <1>6 DEF RegisterSent, TypeOK
  <2> QED
    BY <1>6, <2>1, <2>3, <2>4 DEF RegisterSent, TypeOK, Rest, store
<1> QED
  BY <1>2, <1>3, <1>4, <1>5, <1>6

\* The balance, and the end of an import.
LEMMA BalancesAreGood ==
  ASSUME GoodInv, NEW c \in Callers,
         ReadOptimistic(c) \/ ReadKnown(c) \/ ReadReady(c) \/ Prune(c) \/ Clear(c)
  PROVE  GoodInv'
<1> USE DEF GoodInv
<1>0. call[c] \in Good /\ call[c] \in Call
  BY DEF Good
<1>1. call[c].paid = 0
  BY <1>0, GoodIsUnpaid
     DEF ReadOptimistic, ReadKnown, ReadReady, Prune, Clear, At, Paid, Storing
<1>2. ASSUME NEW keys \in SUBSET Txs, NEW pc \in {"known", "ready"},
             call' = [call EXCEPT ![c].keys = keys, ![c].pc = pc]
      PROVE  call' \in [Callers -> Good] /\ call' \in [Callers -> Call]
  <2> DEFINE k == [call[c] EXCEPT !.keys = keys, !.pc = pc]
  <2>1. k \in Call /\ k.paid = 0 /\ k.pc \notin Paid
    <3>1. k \in Call
      BY <1>0, <1>1, ReadsKeys
    <3>2. k.paid = 0 /\ k.pc \notin Paid
      BY <1>0, <1>1 DEF Call, Paid
    <3> QED
      BY <3>1, <3>2
  <2>2. call' = [call EXCEPT ![c] = k]
    BY <1>2
  <2> HIDE DEF k
  <2> QED
    BY <2>1, <2>2, UnpaidIsGood, Moved
<1>3. CASE ReadOptimistic(c)
  <2>1. optimistic \in SUBSET Txs
    BY DEF TypeOK, Txs
  <2>2. call' \in [Callers -> Good] /\ call' \in [Callers -> Call]
    BY <1>2, <1>3, <2>1 DEF ReadOptimistic
  <2> QED
    BY <1>3, <2>2 DEF ReadOptimistic, TypeOK, Rest, store
<1>4. CASE ReadKnown(c)
  <2> DEFINE keys == call[c].keys \cup snapshot.keys
  <2>1. keys \in SUBSET Txs
    BY <1>0 DEF TypeOK, Call
  <2>2. call' = [call EXCEPT ![c].keys = keys, ![c].pc = "ready"]
    BY <1>4 DEF ReadKnown
  <2> HIDE DEF keys
  <2>3. call' \in [Callers -> Good] /\ call' \in [Callers -> Call]
    BY <1>2, <2>1, <2>2
  <2> QED
    BY <1>4, <2>3 DEF ReadKnown, TypeOK, Rest, store
<1>5. ASSUME NEW todo \in SUBSET (Scripts \cup Txs)
      PROVE  [call[c] EXCEPT !.todo = todo, !.pc = "prune"] \in Good
  <2> DEFINE k == [call[c] EXCEPT !.todo = todo, !.pc = "prune"]
  <2>1. k \in Call /\ k.paid = 0 /\ k.pc \notin Paid
    <3>1. k \in Call
      BY <1>0, <1>1, Prunes
    <3>2. k.paid = 0 /\ k.pc \notin Paid
      BY <1>0, <1>1 DEF Call, Paid
    <3> QED
      BY <3>1, <3>2
  <2> HIDE DEF k
  <2>2. k \in Good
    BY <2>1, UnpaidIsGood
  <2> QED
    BY <2>2 DEF k
<1>6. CASE ReadReady(c)
  <2>1. \E k \in Good : call' = [call EXCEPT ![c] = k]
    <3>1. CASE snapshot.ready /\ Untrusted(call[c]) # {}
      <4>1. Untrusted(call[c]) \in SUBSET (Scripts \cup Txs)
        BY DEF Untrusted
      <4>2. [call[c] EXCEPT !.todo = Untrusted(call[c]), !.pc = "prune"] \in Good
        BY <1>5, <4>1
      <4> QED
        BY <1>6, <3>1, <4>2 DEF ReadReady
    <3>2. CASE ~(snapshot.ready /\ Untrusted(call[c]) # {})
      BY <1>6, <3>2, IdleIsGood DEF ReadReady
    <3> QED
      BY <3>1, <3>2
  <2>2. call' \in [Callers -> Good] /\ call' \in [Callers -> Call]
    BY <2>1, Moved
  <2> QED
    BY <1>6, <2>2 DEF ReadReady, TypeOK, Rest, store
<1>7. CASE Prune(c)
  <2>1. PICK t \in call[c].todo :
          /\ rows' = [rows EXCEPT ![t] = "none"]
          /\ call' = [call EXCEPT ![c] = IF call[c].todo = {t} THEN Idle
                                         ELSE [@ EXCEPT !.todo = call[c].todo \ {t}]]
    BY <1>7 DEF Prune
  <2> DEFINE k == [call[c] EXCEPT !.todo = call[c].todo \ {t}]
  <2>2. k \in Call /\ k.paid = 0 /\ k.pc = "prune"
    BY <1>0, <1>1, <1>7 DEF Call, Prune, At
  <2>3. call' = [call EXCEPT ![c] = IF call[c].todo = {t} THEN Idle ELSE k]
    BY <2>1
  <2> HIDE DEF k
  <2>4. k \in Good
    BY <2>2, UnpaidIsGood DEF Paid
  <2>5. call' \in [Callers -> Good] /\ call' \in [Callers -> Call]
    BY <2>3, <2>4, IdleIsGood, Moved
  <2>6. rows' \in [Txs -> Row]
    BY <2>1 DEF TypeOK, Row
  <2> QED
    BY <1>7, <2>5, <2>6 DEF Prune, TypeOK, Rest
<1>8. CASE Clear(c)
  <2>1. call' \in [Callers -> Good] /\ call' \in [Callers -> Call]
    BY <1>8, IdleIsGood, Moved DEF Clear, Done
  <2> QED
    BY <1>8, <2>1 DEF Clear, TypeOK, Rest, NoRows, Row
<1> QED
  BY <1>3, <1>4, <1>6, <1>7, <1>8

\* The network with one output in another row.
LEMMA LedgerWithRow ==
  ASSUME TypeOK, NEW t \in Txs, NEW row \in Row
  PROVE  [ledger EXCEPT ![t].row = row] \in
           [Txs -> [row : Row, spends : SUBSET Txs, script : Scripts, change : BOOLEAN]]
  BY DEF TypeOK

\* The network, the scan and a crash.
LEMMA WorldIsGood == ASSUME GoodInv, World \/ Discover PROVE GoodInv'
<1> USE DEF GoodInv
<1>1. CASE Receive
  <2>1. PICK t \in Txs : ledger' = [ledger EXCEPT ![t].row = "pending"]
    BY <1>1 DEF Receive, Txs
  <2> QED
    BY <1>1, <2>1, LedgerWithRow DEF Receive, TypeOK, Row, store
<1>2. CASE Mine
  <2>1. PICK t \in Txs : ledger' = [ledger EXCEPT ![t].row = "confirmed"]
    BY <1>2 DEF Mine, Known
  <2> QED
    BY <1>2, <2>1, LedgerWithRow DEF Mine, TypeOK, Row, store
<1>3. CASE Crash
  <2>1. call' \in [Callers -> Good] /\ call' \in [Callers -> Call]
    BY <1>3, IdleIsGood DEF Crash, Good
  <2>2. faults' \in 0 .. MaxFaults
    BY <1>3, FaultCounted DEF Crash
  <2> QED
    BY <1>3, <2>1, <2>2 DEF Crash, TypeOK, store
<1>4. CASE Discover
  <2>1. funded' \subseteq Scripts
    BY <1>4 DEF Discover, TypeOK, Known
  <2> QED
    BY <1>4, <2>1 DEF Discover, TypeOK, store
<1> QED
  BY <1>1, <1>2, <1>3, <1>4 DEF World

\* The cache starts with good calls, and every step keeps them.
LEMMA Start0 == Init => GoodInv
<1> SUFFICES ASSUME Init PROVE GoodInv
  OBVIOUS
<1>1. ledger \in [Txs -> [row : Row, spends : SUBSET Txs, script : Scripts, change : BOOLEAN]]
  BY SetsAssumption DEF Init, Txs, Row
<1>2. call \in [Callers -> Good] /\ call \in [Callers -> Call]
  BY IdleIsGood DEF Init, Good
<1> QED
  BY <1>1, <1>2, SetsAssumption DEF Init, GoodInv, TypeOK, NoRows, Row

LEMMA GoodStep == GoodInv /\ [Next]_vars => GoodInv'
<1> SUFFICES ASSUME GoodInv, [Next]_vars PROVE GoodInv'
  OBVIOUS
<1>1. CASE UNCHANGED vars
  BY <1>1 DEF GoodInv, TypeOK, vars
<1>2. CASE World \/ Discover
  BY <1>2, WorldIsGood
<1>3. ASSUME NEW c \in Callers, StartRefresh(c) \/ Start(c) PROVE GoodInv'
  BY <1>3, StartsAreGood
<1>4. ASSUME NEW c \in Callers, Step(c) PROVE GoodInv'
  BY <1>4, RefreshesAreGood, PaymentsAreGood, UpdatesAreGood, BalancesAreGood DEF Step
<1> QED
  BY <1>1, <1>2, <1>3, <1>4 DEF Next

\* Type correctness, for any callers, transactions, wallets and faults: rows, keys and what
\* calls hold of them.
THEOREM TypeCorrect == Spec => []TypeOK
<1>1. GoodInv => TypeOK
  BY DEF GoodInv
<1> QED
  BY <1>1, Start0, GoodStep, PTL DEF Spec

\* One call pays at most once, whatever callers and faults there are, although the session
\* repeats a send that failed (session.rs:244): the invariant says where a call is that has
\* paid, and that it never broadcasts again from there.
THEOREM PaysOnce == Spec => []OnePaymentPerCall
<1>1. GoodInv => OnePaymentPerCall
  BY DEF GoodInv, OnePaymentPerCall, Good, Paying
<1> QED
  BY <1>1, Start0, GoodStep, PTL DEF Spec

-----------------------------------------------------------------------------
(***************************************************************************)
(* No row of a wallet that was replaced, whatever calls overlap and        *)
(* wherever crashes fall, but for what remains tells.                      *)
(***************************************************************************)
Own(t) == t \in Known /\ Owner[ledger[t].script] = wallet
OwnRows == \A t \in Txs : rows[t] # "none" => Own(t)
OwnView(k) == \A t \in Txs : k.view[t] # "none" => Own(t)

\* What a call holds is what servers answered it; a payment stores rows that it has read.
Asked(k) == k.pc \in {"ask", "keys", "register"} \/ (k.pc \in Storing /\ k.pay = "none")

\* What a call found out by itself is the wallet's, unless it replaces the wallet: also when
\* rows of another one are there for it to read.
OwnCall(k) ==
    IF k.pc = "clear" THEN k.op = "import"
    ELSE /\ k.op # "import"
         /\ k.pc # "idle" => k.who = wallet
         /\ k.pc = "ask" => \A s \in k.todo : Owner[s] = wallet
         /\ Asked(k) => OwnView(k)
         /\ k.pay # "none" => /\ k.pc \in Paid \cup Storing
                              /\ Own(k.pay) /\ \A t \in k.spent : Own(t)

\* If no call ran beside an import, imports are alone; and if no import was cut short, the
\* rows are the wallet's, and so is all that calls have read of them.
OwnInv == "calls" \notin remains =>
    /\ \A s \in funded : Owner[s] = wallet
    /\ \A c \in Callers : OwnCall(call[c])
    /\ \A c \in Callers : call[c].op = "import" => Alone(c)
    /\ remains = {} => (~Importing => OwnRows) /\ \A c \in Callers : OwnView(call[c])

\* What is the wallet's stays so while the network grows.
LEMMA OwnStays ==
  ASSUME wallet' = wallet,
         \A t \in Known : t \in Known' /\ ledger'[t].script = ledger[t].script
  PROVE  /\ \A t : Own(t) => Own(t)'
         /\ OwnRows /\ rows' = rows => OwnRows'
         /\ \A k : OwnView(k) => OwnView(k)'
         /\ \A k : OwnCall(k) => OwnCall(k)'
<1>1. \A t : Own(t) => Own(t)'
  BY DEF Own
<1>2. \A k : OwnView(k) => OwnView(k)'
  BY <1>1 DEF OwnView
<1> QED
  BY <1>1, <1>2 DEF OwnRows, OwnCall

\* Nothing changes what is the wallet's but the network and an import.
LEMMA OwnSame ==
  ASSUME UNCHANGED <<ledger, wallet>>
  PROVE  /\ \A t : Own(t)' <=> Own(t)
         /\ \A k : OwnView(k)' <=> OwnView(k)
         /\ \A k : OwnCall(k)' <=> OwnCall(k)
<1>1. \A t : Own(t)' <=> Own(t)
  BY DEF Own, Known
<1>2. \A k : OwnView(k)' <=> OwnView(k)
  BY <1>1 DEF OwnView
<1> QED
  BY <1>1, <1>2 DEF OwnCall

\* A step of one call beside no import, when it and the rows are the wallet's after it.
LEMMA OwnMoved ==
  ASSUME OwnInv, ~Importing, "calls" \notin remains, remains' = remains,
         NEW c \in Callers, NEW k, call \in [Callers -> Call], call' = [call EXCEPT ![c] = k],
         \A j : OwnCall(j) => OwnCall(j)', \A j : OwnView(j) => OwnView(j)',
         k.pc # "clear", OwnCall(k)', \A s \in funded' : Owner[s] = wallet',
         remains = {} => OwnView(k)' /\ OwnRows'
  PROVE  OwnInv'
<1>1. \A d \in Callers : call'[d] = IF d = c THEN k ELSE call[d]
  OBVIOUS
<1>2. \A d \in Callers : call'[d].op # "import"
  BY <1>1 DEF OwnCall, Importing
<1>3. \A d \in Callers : OwnCall(call[d]) /\ (remains = {} => OwnView(call[d]))
  BY DEF OwnInv
<1>4. \A d \in Callers : OwnCall(call[d])'
  <2> SUFFICES ASSUME NEW d \in Callers PROVE OwnCall(call[d])'
    OBVIOUS
  <2>1. CASE d = c
    BY <1>1, <2>1
  <2>2. CASE d # c
    <3>1. PICK j : j = call[d]
      OBVIOUS
    <3>2. call'[d] = j /\ OwnCall(j)'
      BY <1>1, <1>3, <2>2, <3>1
    <3> QED
      BY <3>2
  <2> QED
    BY <2>1, <2>2
<1>5. ASSUME remains = {} PROVE \A d \in Callers : OwnView(call[d])'
  <2> SUFFICES ASSUME NEW d \in Callers PROVE OwnView(call[d])'
    OBVIOUS
  <2>1. CASE d = c
    BY <1>1, <1>5, <2>1
  <2>2. CASE d # c
    <3>1. PICK j : j = call[d]
      OBVIOUS
    <3>2. call'[d] = j /\ OwnView(j)'
      BY <1>1, <1>3, <1>5, <2>2, <3>1
    <3> QED
      BY <3>2
  <2> QED
    BY <2>1, <2>2
<1> QED
  BY <1>2, <1>4, <1>5 DEF OwnInv

\* A call at work is beside no import, and what it found out is the wallet's.
LEMMA OwnBefore ==
  ASSUME GoodInv, OwnInv, "calls" \notin remains, NEW c \in Callers,
         call[c].pc \notin {"clear", "idle"}
  PROVE  /\ ~Importing /\ OwnCall(call[c]) /\ call[c] \in Call /\ call[c] \in Good
         /\ call[c].op # "import" /\ call \in [Callers -> Call]
         /\ \A s \in funded : Owner[s] = wallet
         /\ remains = {} => OwnRows /\ OwnView(call[c])
<1>1. OwnCall(call[c]) /\ call[c] \in Call /\ call[c] \in Good /\ call \in [Callers -> Call]
  BY DEF OwnInv, GoodInv, TypeOK
<1>2. call[c].op # "import"
  BY <1>1 DEF OwnCall
<1>3. ASSUME NEW d \in Callers, call[d].op = "import" PROVE FALSE
  <2>1. Alone(d) /\ d # c
    BY <1>2, <1>3 DEF OwnInv
  <2>2. call[c] = Idle
    BY <2>1 DEF Alone
  <2> QED
    BY <2>2 DEF Idle
<1>4. ~Importing
  BY <1>3 DEF Importing
<1> QED
  BY <1>1, <1>2, <1>4 DEF OwnInv

LEMMA OwnAfter ==
  ASSUME GoodInv, OwnInv, "calls" \notin remains, NEW c \in Callers,
         call[c].pc \notin {"clear", "idle"}, NEW k,
         call' = [call EXCEPT ![c] = k], UNCHANGED <<ledger, wallet, remains>>,
         k.pc # "clear", OwnCall(k), \A s \in funded' : Owner[s] = wallet,
         remains = {} => OwnView(k) /\ \A t \in Txs : rows'[t] # "none" => Own(t)
  PROVE  OwnInv'
<1>1. /\ OwnCall(k)' /\ \A j : OwnCall(j) => OwnCall(j)'
      /\ \A j : OwnView(j) => OwnView(j)'
  BY OwnSame
<1>2. remains = {} => OwnView(k)' /\ OwnRows'
  BY OwnSame DEF OwnRows
<1>3. \A s \in funded' : Owner[s] = wallet'
  OBVIOUS
<1> QED
  BY <1>1, <1>2, <1>3, OwnBefore, OwnMoved

\* A call that waits for nothing holds nothing.
LEMMA IdleIsOwn ==
  /\ Idle.pc # "clear" /\ Idle.op # "import"
  /\ OwnCall(Idle) /\ OwnCall(Idle)' /\ OwnView(Idle) /\ OwnView(Idle)'
  BY DEF OwnCall, OwnView, Idle, NoRows, Asked, Storing

\* A step of the only call there is.
LEMMA OwnAlone ==
  ASSUME call \in [Callers -> Call], NEW c \in Callers, NEW k, Alone(c),
         call' = [call EXCEPT ![c] = k], OwnCall(k)', OwnView(k)',
         \A s \in funded' : Owner[s] = wallet', k.op # "import" => OwnRows'
  PROVE  OwnInv'
<1>1. call'[c] = k /\ \A d \in Callers \ {c} : call'[d] = Idle
  BY DEF Alone
<1>2. \A d \in Callers : OwnCall(call[d])' /\ OwnView(call[d])'
  <2> SUFFICES ASSUME NEW d \in Callers PROVE OwnCall(call[d])' /\ OwnView(call[d])'
    OBVIOUS
  <2>1. CASE d = c
    BY <1>1, <2>1
  <2>2. CASE d # c
    <3>1. PICK j : j = Idle
      OBVIOUS
    <3>2. call'[d] = j /\ OwnCall(j)' /\ OwnView(j)'
      BY <1>1, <2>2, <3>1, IdleIsOwn
    <3> QED
      BY <3>2
  <2> QED
    BY <2>1, <2>2
<1>3. \A d \in Callers : call'[d].op = "import" => d = c
  BY <1>1, IdleIsOwn
<1>4. \A d \in Callers : call'[d].op = "import" => Alone(d)'
  BY <1>1, <1>3 DEF Alone, Idle
<1>5. ~Importing' => OwnRows'
  BY <1>1 DEF Importing
<1> QED
  BY <1>2, <1>4, <1>5 DEF OwnInv

\* A refresh asks about the wallet's scripts.
LEMMA RefreshingIsOwn ==
  ASSUME \A s \in funded : Owner[s] = wallet, NEW k \in Call, k.op # "import", k.who = wallet,
         k.pay = "none"
  PROVE  OwnCall(Refreshing(k)) /\ OwnView(Refreshing(k)) /\ Refreshing(k).pc # "clear"
<1> DEFINE n == Refreshing(k)
<1>1. /\ n.op = k.op /\ n.who = k.who /\ n.spent = k.spent /\ n.pay = k.pay
      /\ n.pc \in {"register", "ask"} /\ n.todo = funded /\ n.view = NoRows
  BY DEF Refreshing, Call
<1> HIDE DEF n
<1>2. OwnView(n)
  BY <1>1 DEF OwnView, NoRows
<1>3. OwnCall(n) /\ n.pc # "clear"
  BY <1>1, <1>2 DEF OwnCall
<1> QED
  BY <1>2, <1>3 DEF n

\* The calls begin.
LEMMA StartsAreOwn ==
  ASSUME GoodInv, OwnInv, NEW c \in Callers, StartRefresh(c) \/ Start(c)
  PROVE  OwnInv'
<1> SUFFICES ASSUME "calls" \notin remains' PROVE OwnInv'
  BY DEF OwnInv
<1>0. call \in [Callers -> Call] /\ wallet \in 1 .. MaxWallet /\ rows \in [Txs -> Row]
  BY DEF GoodInv, TypeOK
<1>1. ASSUME NEW op \in Ops
      PROVE  /\ Begin(c, op) \in Call /\ Begin(c, op).op = op /\ Begin(c, op).who = wallet
             /\ Begin(c, op).pay = "none" /\ Begin(c, op).view = NoRows
  BY <1>0, IdleIsGood DEF Good, Call, Begin, Idle
<1>2. ASSUME BesideImport, UNCHANGED <<funded, store>>, NEW k, call' = [call EXCEPT ![c] = k],
             k.pc # "clear",
             (\A s \in funded : Owner[s] = wallet) => OwnCall(k),
             remains = {} /\ OwnRows => OwnView(k)
      PROVE  OwnInv'
  <2>1. ~Importing /\ remains' = remains /\ UNCHANGED <<ledger, wallet>>
    BY <1>2 DEF BesideImport
  <2>2. \A s \in funded : Owner[s] = wallet
    BY <2>1 DEF OwnInv
  <2>3. OwnCall(k)' /\ \A s \in funded' : Owner[s] = wallet'
    BY <1>2, <2>1, <2>2, OwnSame
  <2>4. remains = {} => OwnView(k)' /\ OwnRows'
    BY <1>2, <2>1, OwnSame DEF OwnInv, OwnRows, store
  <2>5. (\A j : OwnCall(j) => OwnCall(j)') /\ (\A j : OwnView(j) => OwnView(j)')
    BY <2>1, OwnSame
  <2> QED
    BY <1>0, <1>2, <2>1, <2>3, <2>4, <2>5, OwnMoved
<1>3. ASSUME NEW op \in Ops \ {"import"}, call' = [call EXCEPT ![c] = Refreshing(Begin(c, op))],
             UNCHANGED <<funded, store, reported>>, BesideImport
      PROVE  OwnInv'
  <2>1. Refreshing(Begin(c, op)).pc # "clear" /\ OwnView(Refreshing(Begin(c, op)))
    BY DEF Refreshing, Begin, Idle, OwnView, NoRows
  <2>2. (\A s \in funded : Owner[s] = wallet) => OwnCall(Refreshing(Begin(c, op)))
    BY <1>1, RefreshingIsOwn
  <2>3. UNCHANGED <<funded, store>>
    BY <1>3
  <2> QED
    BY <1>2, <1>3, <2>1, <2>2, <2>3
<1>4. CASE StartRefresh(c)
  BY <1>3, <1>4 DEF StartRefresh, Ops
<1>5. CASE StartSend(c)
  BY <1>3, <1>5 DEF StartSend, Ops
<1>6. CASE StartBalance(c)
  <2> DEFINE b == Begin(c, "balance")
             k == [b EXCEPT !.pc = "trusted", !.view = rows]
  <2>1. b \in Call /\ b.op = "balance" /\ b.who = wallet /\ b.pay = "none"
    BY <1>1 DEF Ops
  <2> HIDE DEF b
  <2>2. /\ k.pc = "trusted" /\ k.view = rows
        /\ k.op = "balance" /\ k.who = wallet /\ k.pay = "none"
    BY <2>1 DEF Call
  <2>3. call' = [call EXCEPT ![c] = k]
    BY <1>6 DEF StartBalance, b
  <2> HIDE DEF k
  <2>4. OwnCall(k) /\ k.pc # "clear" /\ (OwnRows => OwnView(k))
    BY <2>2 DEF OwnCall, OwnRows, OwnView, Asked, Storing
  <2>5. UNCHANGED <<funded, store>> /\ BesideImport
    BY <1>6 DEF StartBalance
  <2> QED
    BY <1>2, <2>3, <2>4, <2>5
<1>7. CASE StartImport(c)
  <2>1. PICK b : b = Begin(c, "import")
    OBVIOUS
  <2>2. PICK k : k = [b EXCEPT !.pc = "clear"]
    OBVIOUS
  <2>3. k.pc = "clear" /\ k.op = "import" /\ k.view = NoRows
    BY <1>1, <2>1, <2>2 DEF Ops, Call
  <2>4. call' = [call EXCEPT ![c] = k]
    BY <1>7, <2>1, <2>2 DEF StartImport
  <2>5. Alone(c) /\ \A s \in funded' : Owner[s] = wallet'
    BY <1>7 DEF StartImport
  <2>6. OwnCall(k)' /\ OwnView(k)'
    BY <2>3 DEF OwnCall, OwnView, NoRows
  <2> QED
    BY <1>0, <2>3, <2>4, <2>5, <2>6, OwnAlone DEF GoodInv, TypeOK
<1> QED
  BY <1>4, <1>5, <1>6, <1>7 DEF Start

\* A refresh that replaces the rows by itself.
LEMMA CommitIsOwn ==
  ASSUME GoodInv, OwnInv, "calls" \notin remains, NEW c \in Callers, Commit(c)
  PROVE  OwnInv'
<1>0. call[c].pc = "commit"
  BY DEF Commit, At
<1>a. /\ ~Importing /\ OwnCall(call[c]) /\ call[c] \in Call /\ call[c].op # "import"
      /\ call \in [Callers -> Call] /\ \A s \in funded : Owner[s] = wallet
      /\ remains = {} => OwnRows /\ OwnView(call[c])
  BY <1>0, OwnBefore
<1>b. call[c].pay = "none" => OwnView(call[c])
  BY <1>0, <1>a DEF OwnCall, Asked, Storing
<1> DEFINE view == IF call[c].pay = "none" THEN call[c].view ELSE NoRows
           pc == AfterCommit(call[c])
           k == [call[c] EXCEPT !.pc = pc, !.read = NoRows, !.view = view]
<1>1. call' = [call EXCEPT ![c] = k]
  BY DEF Commit
<1>2. \A t \in Txs : view[t] # "none" => Own(t)
  BY <1>b DEF NoRows, OwnView
<1>3. pc \in {"register", "list"}
  BY DEF AfterCommit
<1> HIDE DEF view, pc
<1>4. /\ k.op = call[c].op /\ k.who = call[c].who /\ k.spent = call[c].spent
      /\ k.pay = call[c].pay /\ k.pc = pc /\ k.view = view
  BY <1>a DEF Call
<1> HIDE DEF k
<1>5. OwnView(k) /\ k.pc # "clear"
  BY <1>2, <1>3, <1>4 DEF OwnView
<1>6. OwnCall(k)
  BY <1>0, <1>a, <1>4, <1>5 DEF OwnCall, AfterCommit, Paid, pc
<1>7. UNCHANGED <<ledger, wallet, funded>>
  BY DEF Commit
<1>8. rows' = Replaced(call[c].read, call[c].view)
  BY DEF Commit
<1>9. CASE remains' = remains
  <2>1. ASSUME remains = {} PROVE \A t \in Txs : rows'[t] # "none" => Own(t)
    BY <1>8, <1>a, <2>1 DEF Replaced, OwnRows, OwnView
  <2> QED
    BY <1>0, <1>1, <1>5, <1>6, <1>7, <1>9, <1>a, <2>1, OwnAfter
<1>10. CASE Alone(c) /\ call[c].pay = "none" /\ call[c].read = rows
  <2>1. \A t \in Txs : rows'[t] # "none" => Own(t)
    BY <1>8, <1>10, <1>b DEF Replaced, OwnView
  <2>2. OwnRows'
    BY <1>7, <2>1, OwnSame DEF OwnRows
  <2>3. PICK j : j = k
    OBVIOUS
  <2>4. OwnCall(j)' /\ OwnView(j)'
    BY <1>5, <1>6, <1>7, <2>3, OwnSame
  <2>5. call' = [call EXCEPT ![c] = j]
    BY <1>1, <2>3
  <2>6. \A s \in funded' : Owner[s] = wallet'
    BY <1>7, <1>a
  <2> QED
    BY <1>10, <1>a, <2>2, <2>4, <2>5, <2>6, OwnAlone
<1> QED
  BY <1>9, <1>10 DEF Commit

\* The rest of the refresh.
LEMMA RefreshesAreOwn ==
  ASSUME GoodInv, OwnInv, "calls" \notin remains, NEW c \in Callers,
         \/ \E s \in Scripts : Ask(c, s)
         \/ StoreKeys(c) \/ ReadExisting(c) \/ Register(c)
  PROVE  OwnInv'
<1>0. /\ call[c].pc \notin {"clear", "idle"}
      /\ call[c].pc \in {"ask", "keys", "register"} \cup Storing
  BY DEF Ask, StoreKeys, ReadExisting, Register, At, Storing
<1>a. /\ OwnCall(call[c]) /\ call[c] \in Call /\ call[c] \in Good
      /\ call[c].op # "import" /\ call \in [Callers -> Call]
      /\ \A s \in funded : Owner[s] = wallet
      /\ remains = {} => OwnRows /\ OwnView(call[c])
  BY <1>0, OwnBefore
<1>b. /\ call[c].who = wallet
      /\ Asked(call[c]) => OwnView(call[c])
      /\ call[c].pay # "none" => /\ call[c].pc \in Storing
                                 /\ Own(call[c].pay) /\ \A t \in call[c].spent : Own(t)
  BY <1>0, <1>a DEF OwnCall, Paid, Storing
<1>c. remains' = remains
  BY DEF Ask, StoreKeys, ReadExisting, Register, Rest
<1>1. ASSUME NEW s \in Scripts, Ask(c, s) PROVE OwnInv'
  <2> DEFINE mine == {t \in Txs : ledger[t].script = s}
  <2>1. PICK answer \in [mine -> Row] :
           /\ \A t \in mine : answer[t] \in ServerRows(t)
           /\ call' = [call EXCEPT
                 ![c].view = [t \in Txs |-> IF t \in mine THEN answer[t] ELSE @[t]],
                 ![c].todo = @ \ {s},
                 ![c].pc = IF call[c].todo = {s} THEN "keys" ELSE "ask"]
    BY <1>1 DEF Ask
  <2> DEFINE view == [t \in Txs |-> IF t \in mine THEN answer[t] ELSE call[c].view[t]]
             todo == call[c].todo \ {s}
             pc == IF call[c].todo = {s} THEN "keys" ELSE "ask"
             k == [call[c] EXCEPT !.view = view, !.todo = todo, !.pc = pc]
  <2>2. call' = [call EXCEPT ![c] = k]
    BY <2>1
  <2>3. Owner[s] = wallet
    BY <1>1, <1>a DEF Ask, At, OwnCall
  <2>4. \A t \in mine : answer[t] # "none" => Own(t)
    <3> SUFFICES ASSUME NEW t \in mine, answer[t] # "none" PROVE Own(t)
      OBVIOUS
    <3>1. t \in Known
      BY <2>1 DEF ServerRows, LedgerRow, Known
    <3> QED
      BY <2>3, <3>1 DEF Own
  <2>5. OwnView(call[c]) => \A t \in Txs : view[t] # "none" => Own(t)
    BY <2>4 DEF OwnView
  <2>6. \A x \in todo : Owner[x] = wallet
    BY <1>1, <1>a DEF Ask, At, OwnCall
  <2>7. pc \in {"keys", "ask"}
    OBVIOUS
  <2> HIDE DEF view, todo, pc
  <2>8. /\ k.view = view /\ k.todo = todo /\ k.pc = pc /\ k.op = call[c].op
        /\ k.who = call[c].who /\ k.spent = call[c].spent /\ k.pay = call[c].pay
    BY <1>a DEF Call
  <2> HIDE DEF k
  <2>9. k.pc # "clear" /\ (OwnView(call[c]) => OwnView(k))
    BY <2>5, <2>7, <2>8 DEF OwnView
  <2>10. OwnCall(k)
    <3>1. OwnView(call[c])
      BY <1>1, <1>b DEF Ask, At, Asked
    <3>2. call[c].pay = "none"
      BY <1>1, <1>b DEF Ask, At, Storing
    <3> QED
      BY <1>a, <1>b, <3>2, <2>6, <2>7, <2>8, <2>9, <3>1 DEF OwnCall
  <2>11. UNCHANGED <<ledger, wallet, funded, rows>>
    BY <1>1 DEF Ask, store
  <2> QED
    BY <1>0, <1>a, <1>c, <2>2, <2>9, <2>10, <2>11, OwnAfter DEF OwnRows
<1>2. ASSUME NEW k, call' = [call EXCEPT ![c] = k], UNCHANGED <<ledger, wallet, funded, rows>>,
             k.op = call[c].op, k.who = call[c].who, k.spent = call[c].spent,
             k.pay = call[c].pay, k.pc \in Storing, k.view = call[c].view,
             Asked(k) => Asked(call[c])
      PROVE  OwnInv'
  <2>0. k.pc \notin {"ask", "clear"}
    BY <1>2 DEF Storing
  <2>1. OwnView(call[c]) => OwnView(k)
    BY <1>2 DEF OwnView
  <2>2. OwnCall(k)
    BY <1>2, <1>a, <1>b, <2>0, <2>1 DEF OwnCall
  <2> QED
    BY <1>0, <1>2, <1>a, <1>c, <2>0, <2>1, <2>2, OwnAfter DEF OwnRows
<1>4. CASE StoreKeys(c)
  <2> DEFINE k == [call[c] EXCEPT !.pc = "existing"]
  <2>1. call' = [call EXCEPT ![c] = k]
    BY <1>4 DEF StoreKeys, Goto
  <2>2. /\ k.op = call[c].op /\ k.who = call[c].who /\ k.spent = call[c].spent
        /\ k.pay = call[c].pay /\ k.pc = "existing" /\ k.view = call[c].view
    BY <1>a DEF Call
  <2> HIDE DEF k
  <2>3. UNCHANGED <<ledger, wallet, funded, rows>>
    BY <1>4 DEF StoreKeys, Rest
  <2>4. k.pc \in Storing /\ (Asked(k) => Asked(call[c]))
    BY <1>4, <2>2 DEF StoreKeys, At, Asked, Storing
  <2> QED
    BY <1>2, <2>1, <2>2, <2>3, <2>4
<1>5. CASE ReadExisting(c)
  <2> DEFINE k == [call[c] EXCEPT !.read = rows, !.pc = "commit"]
  <2>1. call' = [call EXCEPT ![c] = k]
    BY <1>5 DEF ReadExisting
  <2>2. /\ k.op = call[c].op /\ k.who = call[c].who /\ k.spent = call[c].spent
        /\ k.pay = call[c].pay /\ k.pc = "commit" /\ k.view = call[c].view
    BY <1>a DEF Call
  <2> HIDE DEF k
  <2>3. UNCHANGED <<ledger, wallet, funded, rows>>
    BY <1>5 DEF ReadExisting, Rest, store
  <2>4. k.pc \in Storing /\ (Asked(k) => Asked(call[c]))
    BY <1>5, <2>2 DEF ReadExisting, At, Asked, Storing
  <2> QED
    BY <1>2, <2>1, <2>2, <2>3, <2>4
<1>7. CASE Register(c)
  <2>0. OwnView(call[c])
    BY <1>7, <1>b DEF Register, At, Asked
  <2>p. call[c].pay = "none"
    BY <1>7, <1>a DEF Register, At, OwnCall, Paid, Storing
  <2>1. \A s \in funded' : Owner[s] = wallet
    BY <1>7, <1>a, <2>0 DEF Register, Own, OwnView
  <2>2. UNCHANGED <<ledger, wallet, rows>>
    BY <1>7 DEF Register, Rest, store
  <2>3. \E k : call' = [call EXCEPT ![c] = k] /\ OwnCall(k) /\ OwnView(k) /\ k.pc # "clear"
    <3>1. CASE call[c].op = "refresh"
      BY <1>7, <3>1, IdleIsOwn DEF Register, Done
    <3>2. CASE call[c].op = "send" /\ call[c].attempt = 1
      <4> DEFINE k == [call[c] EXCEPT !.attempt = 2, !.who = wallet]
      <4>1. wallet \in 1 .. MaxWallet /\ 2 \in 0 .. 2
        BY DEF GoodInv, TypeOK
      <4>2. \A n \in 0 .. 2 : \A w \in 1 .. MaxWallet :
               [call[c] EXCEPT !.attempt = n, !.who = w] \in Call
        BY <1>a DEF Call
      <4>3. k \in Call
        BY <4>1, <4>2, Zenon
      <4>4. k.op = call[c].op /\ k.who = wallet /\ k.spent = call[c].spent /\ k.pay = call[c].pay
        BY <1>a DEF Call
      <4>5. call' = [call EXCEPT ![c] = Refreshing(k)]
        BY <1>7, <3>2 DEF Register
      <4> HIDE DEF k
      <4>6. /\ OwnCall(Refreshing(k)) /\ OwnView(Refreshing(k))
            /\ Refreshing(k).pc # "clear"
        BY <1>a, <2>p, <4>3, <4>4, RefreshingIsOwn
      <4> QED
        BY <4>5, <4>6
    <3>3. CASE call[c].op # "refresh" /\ ~(call[c].op = "send" /\ call[c].attempt = 1)
      <4> DEFINE k == [call[c] EXCEPT !.pc = "plan", !.view = NoRows]
      <4>1. call' = [call EXCEPT ![c] = k]
        BY <1>7, <3>3 DEF Register
      <4>2. /\ k.op = call[c].op /\ k.who = call[c].who /\ k.spent = call[c].spent
            /\ k.pay = call[c].pay /\ k.pc = "plan" /\ k.view = NoRows
        BY <1>a DEF Call
      <4> HIDE DEF k
      <4>3. OwnView(k)
        BY <4>2 DEF OwnView, NoRows
      <4>4. OwnCall(k)
        BY <1>a, <1>b, <2>p, <4>2, <4>3 DEF OwnCall
      <4> QED
        BY <4>1, <4>2, <4>3, <4>4
    <3> QED
      BY <3>1, <3>2, <3>3
  <2> QED
    BY <1>0, <1>a, <1>c, <2>1, <2>2, <2>3, OwnAfter DEF OwnRows
<1> QED
  BY <1>1, <1>4, <1>5, <1>7

\* The payment: it can only be signed by the wallet that owns the coins.
LEMMA PaymentsAreOwn ==
  ASSUME GoodInv, OwnInv, "calls" \notin remains, NEW c \in Callers,
         Plan(c) \/ Broadcast(c) \/ BroadcastLost(c) \/ NotSent(c) \/ CallFails(c)
  PROVE  OwnInv'
<1>0. call[c].pc \in {"ask", "plan", "broadcast"} /\ call[c].pc \notin {"clear", "idle"}
  BY DEF Plan, Broadcast, BroadcastLost, NotSent, CallFails, At
<1>a. /\ ~Importing /\ OwnCall(call[c]) /\ call[c] \in Call /\ call[c].op # "import"
      /\ call \in [Callers -> Call] /\ \A s \in funded : Owner[s] = wallet
      /\ remains = {} => OwnRows /\ OwnView(call[c])
  BY <1>0, OwnBefore
<1>b. call[c].who = wallet
  BY <1>0, <1>a DEF OwnCall
<1>c. call[c].pay = "none"
  BY <1>0, <1>a DEF OwnCall, Paid, Storing
<1>d. remains' = remains
  BY DEF Plan, Broadcast, BroadcastLost, NotSent, CallFails, Rest
<1>1. CASE Plan(c)
  <2>1. PICK S \in (SUBSET Spendable) \ {{}} :
           call' = [call EXCEPT ![c].spent = S, ![c].pc = "broadcast"]
    BY <1>1 DEF Plan
  <2>2. PICK k : k = [call[c] EXCEPT !.spent = S, !.pc = "broadcast"]
    OBVIOUS
  <2>3. call' = [call EXCEPT ![c] = k]
    BY <2>1, <2>2
  <2>4. /\ k.op = call[c].op /\ k.who = call[c].who
        /\ k.pay = "none" /\ k.pc = "broadcast" /\ k.view = call[c].view
    BY <1>a, <1>c, <2>2 DEF Call
  <2>5. OwnCall(k) /\ (OwnView(call[c]) => OwnView(k)) /\ k.pc # "clear"
    BY <1>a, <1>b, <2>4 DEF OwnCall, OwnView, Asked, Storing
  <2>6. UNCHANGED <<ledger, wallet, funded, rows>>
    BY <1>1 DEF Plan, Rest, store
  <2> QED
    BY <1>0, <1>a, <1>d, <2>3, <2>5, <2>6, OwnAfter DEF OwnRows
<1>2. ASSUME NEW p \in Payments \ Known, NEW change \in BOOLEAN,
             NEW s \in {x \in Scripts : Owner[x] = call[c].who},
             Signs(c), Accepts(c),
             ledger' = Sent(p, c, change, s), UNCHANGED <<wallet, rows>>
      PROVE  /\ Own(p)' /\ \A t \in call[c].spent : Own(t)'
             /\ \A t : Own(t) => Own(t)'
             /\ \A j : (OwnCall(j) => OwnCall(j)') /\ (OwnView(j) => OwnView(j)')
             /\ OwnRows => OwnRows'
  <2>1. p \in Txs
    BY DEF Txs
  <2>2. /\ ledger'[p].row = "pending" /\ ledger'[p].script = s
        /\ \A t \in Txs \ {p} : ledger'[t] = ledger[t]
    BY <1>2, <2>1 DEF Sent, GoodInv, TypeOK
  <2>3. \A t \in Known : t \in Known' /\ ledger'[t].script = ledger[t].script
    BY <2>2 DEF Known
  <2>4. Own(p)'
    BY <1>2, <1>b, <2>1, <2>2 DEF Own, Known
  <2>5. \A t \in call[c].spent : Own(t)
    BY <1>2, <1>b DEF Own, Signs, Accepts
  <2> QED
    BY <1>2, <2>3, <2>4, <2>5, OwnStays
<1>3. CASE Broadcast(c)
  <2>1. PICK p \in Payments \ Known, change \in BOOLEAN,
             s \in {x \in Scripts : Owner[x] = call[c].who} :
           /\ ledger' = Sent(p, c, change, s)
           /\ call' = [call EXCEPT ![c].pc = "remove", ![c].pay = p,
                                   ![c].todo = call[c].spent, ![c].paid = @ + 1]
    BY <1>3 DEF Broadcast
  <2>2. UNCHANGED <<wallet, funded, rows>> /\ Signs(c) /\ Accepts(c)
    BY <1>3 DEF Broadcast, store
  <2>3. /\ Own(p)' /\ \A t \in call[c].spent : Own(t)'
        /\ \A j : (OwnCall(j) => OwnCall(j)') /\ (OwnView(j) => OwnView(j)')
        /\ OwnRows => OwnRows'
    BY <1>2, <2>1, <2>2
  <2>4. PICK k : k = [call[c] EXCEPT !.pc = "remove", !.pay = p, !.todo = call[c].spent,
                                     !.paid = call[c].paid + 1]
    OBVIOUS
  <2>5. call' = [call EXCEPT ![c] = k]
    BY <2>1, <2>4
  <2>6. /\ k.op = call[c].op /\ k.who = call[c].who /\ k.spent = call[c].spent
        /\ k.pay = p /\ k.pc = "remove" /\ k.view = call[c].view
    BY <1>a, <2>4 DEF Call
  <2>7. OwnCall(k)' /\ k.pc # "clear"
    BY <1>a, <1>b, <2>2, <2>3, <2>6 DEF OwnCall, Asked, Storing, Paid
  <2>8. OwnView(call[c]) => OwnView(k)'
    BY <2>3, <2>6 DEF OwnView
  <2>9. \A x \in funded' : Owner[x] = wallet'
    BY <1>a, <2>2
  <2> QED
    BY <1>a, <1>d, <2>3, <2>5, <2>7, <2>8, <2>9, OwnMoved
<1>4. CASE BroadcastLost(c)
  <2>1. PICK p \in Payments \ Known, change \in BOOLEAN,
             s \in {x \in Scripts : Owner[x] = call[c].who} :
           ledger' = Sent(p, c, change, s)
    BY <1>4 DEF BroadcastLost
  <2>2. call' = [call EXCEPT ![c] = Idle]
    BY <1>4 DEF BroadcastLost, Failed
  <2>3. UNCHANGED <<wallet, funded, rows>> /\ Signs(c) /\ Accepts(c)
    BY <1>4 DEF BroadcastLost, store
  <2>4. /\ \A j : (OwnCall(j) => OwnCall(j)') /\ (OwnView(j) => OwnView(j)')
        /\ OwnRows => OwnRows'
    BY <1>2, <2>1, <2>3
  <2>5. PICK k : k = Idle
    OBVIOUS
  <2>6. k.pc # "clear" /\ OwnCall(k)' /\ OwnView(k)' /\ call' = [call EXCEPT ![c] = k]
    BY <2>2, <2>4, <2>5, IdleIsOwn
  <2>7. \A x \in funded' : Owner[x] = wallet'
    BY <1>a, <2>3
  <2> QED
    BY <1>a, <1>d, <2>4, <2>6, <2>7, OwnMoved
<1>5. ASSUME \E lookup \in BOOLEAN : call' = [call EXCEPT ![c] = Failed(@, lookup)],
             UNCHANGED <<ledger, wallet, funded, rows>>
      PROVE  OwnInv'
  <2>1. PICK lookup \in BOOLEAN : call' = [call EXCEPT ![c] = Failed(call[c], lookup)]
    BY <1>5
  <2>2. PICK k : k = [call[c] EXCEPT !.attempt = 1]
    OBVIOUS
  <2>3. /\ k \in Call /\ k.op = call[c].op /\ k.who = call[c].who /\ k.pay = call[c].pay
    BY <1>a, <2>2 DEF Call
  <2>4. OwnCall(Refreshing(k)) /\ OwnView(Refreshing(k)) /\ Refreshing(k).pc # "clear"
    BY <1>a, <1>b, <1>c, <2>3, RefreshingIsOwn
  <2>5. PICK n : n = Failed(call[c], lookup)
    OBVIOUS
  <2>6. OwnCall(n) /\ OwnView(n) /\ n.pc # "clear"
    BY <2>2, <2>4, <2>5, IdleIsOwn DEF Failed
  <2>7. call' = [call EXCEPT ![c] = n]
    BY <2>1, <2>5
  <2> QED
    BY <1>0, <1>5, <1>a, <1>d, <2>6, <2>7, OwnAfter DEF OwnRows
<1>6. CASE NotSent(c)
  BY <1>5, <1>6 DEF NotSent, Rest, store
<1>7. CASE CallFails(c)
  BY <1>5, <1>7 DEF CallFails, store
<1> QED
  BY <1>1, <1>3, <1>4, <1>6, <1>7

\* What follows a payment in the cache.
LEMMA UpdatesAreOwn ==
  ASSUME GoodInv, OwnInv, "calls" \notin remains, NEW c \in Callers,
         \/ RemoveSpent(c) \/ ListForUpsert(c) \/ ListOptimistic(c)
         \/ AppendOptimistic(c) \/ RegisterSent(c)
  PROVE  OwnInv'
<1>0. call[c].pc \in Paid /\ call[c].pc \notin {"clear", "idle"}
  BY DEF RemoveSpent, ListForUpsert, ListOptimistic, AppendOptimistic, RegisterSent, At, Paid
<1>a. /\ OwnCall(call[c]) /\ call[c] \in Call /\ call[c] \in Good
      /\ call[c].op # "import" /\ \A s \in funded : Owner[s] = wallet
      /\ remains = {} => OwnRows /\ OwnView(call[c])
  BY <1>0, OwnBefore
<1>b. rows \in [Txs -> Row] /\ UNCHANGED <<ledger, wallet, remains>>
  BY DEF GoodInv, TypeOK, RemoveSpent, ListForUpsert, ListOptimistic, AppendOptimistic,
         RegisterSent, Rest
<1>p. call[c].pay # "none"
  BY <1>0, <1>a, SetsAssumption DEF Good, Paying
<1>c. /\ \A t \in call[c].spent : Own(t)
      /\ Own(call[c].pay)
  BY <1>0, <1>a, <1>p DEF OwnCall
<1>1. ASSUME NEW k, call' = [call EXCEPT ![c] = k], funded' = funded,
             k.op = call[c].op, k.who = call[c].who, k.spent = call[c].spent,
             k.pay = call[c].pay, k.pc \in Paid \cup {"existing"},
             remains = {} => OwnView(k) /\ \A t \in Txs : rows'[t] # "none" => Own(t)
      PROVE  OwnInv'
  <2>1. ~Asked(k) /\ k.pc \notin {"clear", "ask"} /\ k.pc \in Paid \cup Storing
    BY <1>1, <1>p DEF Asked, Paid, Storing
  <2>2. OwnCall(k)
    BY <1>0, <1>1, <1>a, <1>c, <2>1 DEF OwnCall
  <2> QED
    BY <1>0, <1>1, <1>a, <1>b, <2>1, <2>2, OwnAfter
<1>2. CASE RemoveSpent(c)
  <2>1. PICK t \in call[c].todo :
          /\ rows' = [rows EXCEPT ![t] = "none"]
          /\ call' = [call EXCEPT ![c].todo = @ \ {t},
                ![c].pc = IF call[c].todo # {t} THEN "remove"
                          ELSE IF ledger[call[c].pay].change THEN "upsert" ELSE "fund"]
    BY <1>2 DEF RemoveSpent
  <2>2. PICK pc : pc = IF call[c].todo # {t} THEN "remove"
                       ELSE IF ledger[call[c].pay].change THEN "upsert" ELSE "fund"
    OBVIOUS
  <2>3. PICK k : k = [call[c] EXCEPT !.todo = call[c].todo \ {t}, !.pc = pc]
    OBVIOUS
  <2>4. call' = [call EXCEPT ![c] = k]
    BY <2>1, <2>2, <2>3
  <2>5. /\ k.op = call[c].op /\ k.who = call[c].who /\ k.spent = call[c].spent
        /\ k.pay = call[c].pay /\ k.pc = pc /\ k.view = call[c].view
    BY <1>a, <2>3 DEF Call
  <2>6. OwnView(call[c]) => OwnView(k)
    BY <2>5 DEF OwnView
  <2>7. remains = {} => \A u \in Txs : rows'[u] # "none" => Own(u)
    BY <1>a, <1>b, <2>1 DEF OwnRows
  <2>8. k.pc \in Paid /\ funded' = funded
    BY <1>2, <2>2, <2>5 DEF Paid, RemoveSpent
  <2> QED
    BY <1>1, <1>a, <2>4, <2>5, <2>6, <2>7, <2>8
<1>3. CASE ListForUpsert(c)
  <2>1. PICK k : k = [call[c] EXCEPT !.view = [rows EXCEPT ![call[c].pay] = "pending"],
                                     !.pc = "existing"]
    OBVIOUS
  <2>2. call' = [call EXCEPT ![c] = k]
    BY <1>3, <2>1 DEF ListForUpsert
  <2>3. /\ k.op = call[c].op /\ k.who = call[c].who /\ k.spent = call[c].spent
        /\ k.pay = call[c].pay /\ k.pc = "existing"
        /\ k.view = [rows EXCEPT ![call[c].pay] = "pending"]
    BY <1>a, <2>1 DEF Call
  <2>4. OwnRows => OwnView(k)
    BY <1>b, <1>c, <2>3 DEF OwnRows, OwnView
  <2>5. UNCHANGED <<funded, rows>>
    BY <1>3 DEF ListForUpsert, store
  <2> QED
    BY <1>1, <1>a, <2>2, <2>3, <2>4, <2>5 DEF OwnRows
<1>4. ASSUME NEW keys, NEW pc \in {"append", "fund"},
             call' = [call EXCEPT ![c].keys = keys, ![c].pc = pc],
             UNCHANGED <<funded, rows>>
      PROVE  OwnInv'
  <2>1. PICK k : k = [call[c] EXCEPT !.keys = keys, !.pc = pc]
    OBVIOUS
  <2>2. call' = [call EXCEPT ![c] = k]
    BY <1>4, <2>1
  <2>3. /\ k.op = call[c].op /\ k.who = call[c].who /\ k.spent = call[c].spent
        /\ k.pay = call[c].pay /\ k.pc = pc /\ k.view = call[c].view
    BY <1>a, <2>1 DEF Call
  <2>4. OwnView(call[c]) => OwnView(k)
    BY <2>3 DEF OwnView
  <2>5. k.pc \in Paid
    BY <2>3 DEF Paid
  <2>6. OwnRows => \A t \in Txs : rows'[t] # "none" => Own(t)
    BY <1>4 DEF OwnRows
  <2> QED
    BY <1>1, <1>4, <1>a, <2>2, <2>3, <2>4, <2>5, <2>6
<1>5. CASE ListOptimistic(c)
  BY <1>4, <1>5 DEF ListOptimistic, store
<1>6. CASE AppendOptimistic(c)
  BY <1>4, <1>6 DEF AppendOptimistic
<1>7. CASE RegisterSent(c)
  <2>1. \A s \in funded' : Owner[s] = wallet
    BY <1>7, <1>a, <1>c DEF RegisterSent, Own
  <2>2. rows' = rows
    BY <1>7 DEF RegisterSent, store
  <2>3. call' = [call EXCEPT ![c] = Idle]
    BY <1>7 DEF RegisterSent, Done
  <2> QED
    BY <1>0, <1>a, <1>b, <2>1, <2>2, <2>3, IdleIsOwn, OwnAfter DEF OwnRows
<1> QED
  BY <1>2, <1>3, <1>5, <1>6, <1>7

\* The balance, which removes rows and stores none.
LEMMA BalancesAreOwn ==
  ASSUME GoodInv, OwnInv, "calls" \notin remains, NEW c \in Callers,
         ReadOptimistic(c) \/ ReadKnown(c) \/ ReadReady(c) \/ Prune(c)
  PROVE  OwnInv'
<1>0. /\ call[c].pc \in {"trusted", "known", "ready", "prune"}
      /\ call[c].pc \notin {"clear", "idle"}
  BY DEF ReadOptimistic, ReadKnown, ReadReady, Prune, At
<1>a. /\ OwnCall(call[c]) /\ call[c] \in Call /\ call[c].op # "import"
      /\ \A s \in funded : Owner[s] = wallet
      /\ remains = {} => OwnRows /\ OwnView(call[c])
  BY <1>0, OwnBefore
<1>b. rows \in [Txs -> Row] /\ UNCHANGED <<ledger, wallet, funded, remains>>
  BY DEF GoodInv, TypeOK, ReadOptimistic, ReadKnown, ReadReady, Prune, Rest
<1>1. ASSUME NEW k, call' = [call EXCEPT ![c] = k],
             \/ k = Idle
             \/ /\ k.op = call[c].op /\ k.who = call[c].who /\ k.pay = call[c].pay
                /\ k.pc \in {"known", "ready", "prune"} /\ k.view = call[c].view,
             OwnRows => \A t \in Txs : rows'[t] # "none" => Own(t)
      PROVE  OwnInv'
  <2>1. k.pc # "clear" /\ OwnCall(k)
    <3>1. CASE k = Idle
      BY <3>1, IdleIsOwn
    <3>2. CASE k # Idle
      BY <1>0, <1>1, <1>a, <3>2 DEF OwnCall, Asked, Storing, Paid
    <3> QED
      BY <3>1, <3>2
  <2>2. OwnView(call[c]) => OwnView(k)
    BY <1>1, IdleIsOwn DEF OwnView
  <2> QED
    BY <1>0, <1>1, <1>a, <1>b, <2>1, <2>2, OwnAfter
<1>2. ASSUME NEW keys, NEW pc \in {"known", "ready"},
             call' = [call EXCEPT ![c].keys = keys, ![c].pc = pc], rows' = rows
      PROVE  OwnInv'
  <2>1. PICK k : k = [call[c] EXCEPT !.keys = keys, !.pc = pc]
    OBVIOUS
  <2>2. /\ k.op = call[c].op /\ k.who = call[c].who
        /\ k.pay = call[c].pay /\ k.pc = pc /\ k.view = call[c].view
    BY <1>a, <2>1 DEF Call
  <2>3. call' = [call EXCEPT ![c] = k]
    BY <1>2, <2>1
  <2> QED
    BY <1>1, <1>2, <2>2, <2>3 DEF OwnRows
<1>5. CASE ReadOptimistic(c)
  BY <1>2, <1>5 DEF ReadOptimistic, store
<1>6. CASE ReadKnown(c)
  <2>1. PICK keys : call' = [call EXCEPT ![c].keys = keys, ![c].pc = "ready"]
    BY <1>6 DEF ReadKnown
  <2> QED
    BY <1>2, <1>6, <2>1 DEF ReadKnown, store
<1>7. CASE ReadReady(c)
  <2>1. rows' = rows
    BY <1>7 DEF ReadReady, store
  <2>2. CASE snapshot.ready /\ Untrusted(call[c]) # {}
    <3>1. PICK k : k = [call[c] EXCEPT !.todo = Untrusted(call[c]), !.pc = "prune"]
      OBVIOUS
    <3>2. /\ k.op = call[c].op /\ k.who = call[c].who
          /\ k.pay = call[c].pay /\ k.pc = "prune" /\ k.view = call[c].view
      BY <1>a, <3>1 DEF Call
    <3>3. call' = [call EXCEPT ![c] = k]
      BY <1>7, <2>2, <3>1 DEF ReadReady
    <3> QED
      BY <1>1, <2>1, <3>2, <3>3 DEF OwnRows
  <2>3. CASE ~(snapshot.ready /\ Untrusted(call[c]) # {})
    <3>1. call' = [call EXCEPT ![c] = Idle]
      BY <1>7, <2>3 DEF ReadReady
    <3> QED
      BY <1>1, <2>1, <3>1 DEF OwnRows
  <2> QED
    BY <2>2, <2>3
<1>8. CASE Prune(c)
  <2>1. PICK t \in call[c].todo :
          /\ rows' = [rows EXCEPT ![t] = "none"]
          /\ call' = [call EXCEPT ![c] = IF call[c].todo = {t} THEN Idle
                                         ELSE [@ EXCEPT !.todo = call[c].todo \ {t}]]
    BY <1>8 DEF Prune
  <2>2. OwnRows => \A u \in Txs : rows'[u] # "none" => Own(u)
    BY <1>b, <2>1 DEF OwnRows
  <2>3. PICK k : k = [call[c] EXCEPT !.todo = call[c].todo \ {t}]
    OBVIOUS
  <2>4. /\ k.op = call[c].op /\ k.who = call[c].who
        /\ k.pay = call[c].pay /\ k.pc = "prune" /\ k.view = call[c].view
    BY <1>8, <1>a, <2>3 DEF Call, Prune, At
  <2>5. CASE call[c].todo = {t}
    BY <1>1, <2>1, <2>2, <2>5
  <2>6. CASE call[c].todo # {t}
    BY <1>1, <2>1, <2>2, <2>3, <2>4, <2>6
  <2> QED
    BY <2>5, <2>6
<1> QED
  BY <1>5, <1>6, <1>7, <1>8

\* The end of an import, which leaves no row.
LEMMA ClearIsOwn ==
  ASSUME GoodInv, OwnInv, "calls" \notin remains, NEW c \in Callers, Clear(c)
  PROVE  OwnInv'
<1>1. OwnRows'
  BY DEF Clear, OwnRows, NoRows
<1>2. OwnCall(call[c]) /\ call[c].pc = "clear" /\ call \in [Callers -> Call]
  BY DEF Clear, At, OwnInv, GoodInv, TypeOK
<1>3. Alone(c) /\ \A s \in funded' : Owner[s] = wallet'
  BY <1>2 DEF Clear, OwnInv, OwnCall
<1>4. PICK k : k = Idle
  OBVIOUS
<1>5. call' = [call EXCEPT ![c] = k] /\ OwnCall(k)' /\ OwnView(k)'
  BY <1>4, IdleIsOwn DEF Clear, Done
<1> QED
  BY <1>1, <1>2, <1>3, <1>5, OwnAlone

\* The network, the scan and a crash, also of an import.
LEMMA WorldIsOwn ==
  ASSUME GoodInv, OwnInv, "calls" \notin remains, World \/ Discover
  PROVE  OwnInv'
<1>1. ASSUME \A t \in Known : t \in Known' /\ ledger'[t].script = ledger[t].script,
             UNCHANGED <<wallet, funded, rows, call, remains>>
      PROVE  OwnInv'
  <2>1. /\ \A k : (OwnCall(k) => OwnCall(k)') /\ (OwnView(k) => OwnView(k)')
        /\ OwnRows => OwnRows'
    BY <1>1, OwnStays
  <2>2. \A c \in Callers : (OwnCall(call[c]) => OwnCall(call[c])')
                           /\ (OwnView(call[c]) => OwnView(call[c])')
                           /\ (Alone(c) => Alone(c)') /\ call'[c] = call[c]
    BY <1>1, <2>1 DEF Alone
  <2>3. Importing' <=> Importing
    BY <1>1 DEF Importing
  <2> QED
    BY <1>1, <2>1, <2>2, <2>3 DEF OwnInv
<1>2. CASE Receive
  <2>1. PICK t \in Coins \ Known : ledger' = [ledger EXCEPT ![t].row = "pending"]
    BY <1>2 DEF Receive
  <2>2. \A u \in Known : u \in Known' /\ ledger'[u].script = ledger[u].script
    BY <2>1 DEF Known, GoodInv, TypeOK
  <2> QED
    BY <1>1, <1>2, <2>2 DEF Receive, store
<1>3. CASE Mine
  <2>1. PICK t \in Known : ledger' = [ledger EXCEPT ![t].row = "confirmed"]
    BY <1>3 DEF Mine
  <2>2. \A u \in Known : u \in Known' /\ ledger'[u].script = ledger[u].script
    BY <2>1 DEF Known, GoodInv, TypeOK
  <2> QED
    BY <1>1, <1>3, <2>2 DEF Mine, store
<1>4. CASE Crash
  <2>1. UNCHANGED <<ledger, wallet, funded, rows>> /\ \A c \in Callers : call'[c] = Idle
    BY <1>4 DEF Crash, store
  <2>2. remains' = {} => ~Importing /\ remains = {}
    BY <1>4 DEF Crash
  <2>3. remains' = {} => OwnRows'
    BY <2>1, <2>2, OwnSame DEF OwnRows, OwnInv
  <2>4. \A c \in Callers : OwnCall(call[c])' /\ OwnView(call[c])' /\ call'[c].op # "import"
    <3> SUFFICES ASSUME NEW c \in Callers
                 PROVE  OwnCall(call[c])' /\ OwnView(call[c])' /\ call'[c].op # "import"
      OBVIOUS
    <3>1. PICK j : j = Idle
      OBVIOUS
    <3>2. call'[c] = j /\ OwnCall(j)' /\ OwnView(j)' /\ j.op # "import"
      BY <2>1, <3>1, IdleIsOwn
    <3> QED
      BY <3>2
  <2>5. \A s \in funded' : Owner[s] = wallet'
    BY <2>1 DEF OwnInv
  <2> QED
    BY <2>3, <2>4, <2>5 DEF OwnInv
<1>5. CASE Discover
  <2>1. UNCHANGED <<ledger, wallet, rows, call, remains>>
    BY <1>5 DEF Discover, store
  <2>2. \A s \in funded' : Owner[s] = wallet'
    BY <1>5 DEF Discover, OwnInv
  <2>3. OwnRows => OwnRows'
    BY <2>1, OwnSame DEF OwnRows
  <2>4. \A c \in Callers : (OwnCall(call[c]) => OwnCall(call[c])')
                           /\ (OwnView(call[c]) => OwnView(call[c])')
                           /\ (Alone(c) => Alone(c)') /\ call'[c] = call[c]
    BY <2>1, OwnSame DEF Alone
  <2>5. Importing' <=> Importing
    BY <2>1 DEF Importing
  <2> QED
    BY <2>1, <2>2, <2>3, <2>4, <2>5 DEF OwnInv
<1> QED
  BY <1>2, <1>3, <1>4, <1>5 DEF World

LEMMA OwnStep == GoodInv /\ OwnInv /\ [Next]_vars => OwnInv'
<1> SUFFICES ASSUME GoodInv, OwnInv, [Next]_vars, "calls" \notin remains' PROVE OwnInv'
  BY DEF OwnInv
<1>1. CASE UNCHANGED vars
  <2>1. UNCHANGED <<ledger, wallet, rows, call, funded, remains>>
    BY <1>1 DEF vars, store
  <2>2. \A c \in Callers : (OwnCall(call[c]) => OwnCall(call[c])')
                           /\ (OwnView(call[c]) => OwnView(call[c])')
                           /\ (Alone(c) => Alone(c)') /\ call'[c] = call[c]
    BY <2>1, OwnSame DEF Alone
  <2>3. (Importing' <=> Importing) /\ (OwnRows => OwnRows')
    BY <2>1, OwnSame DEF Importing, OwnRows
  <2> QED
    BY <2>1, <2>2, <2>3 DEF OwnInv
<1>2. CASE World \/ Discover
  <2>1. "calls" \notin remains
    BY <1>2 DEF World, Discover, Receive, Mine, Crash
  <2> QED
    BY <1>2, <2>1, WorldIsOwn
<1>3. ASSUME NEW c \in Callers, StartRefresh(c) \/ Start(c) PROVE OwnInv'
  BY <1>3, StartsAreOwn
<1>4. ASSUME NEW c \in Callers, Step(c) PROVE OwnInv'
  <2>1. "calls" \notin remains
    BY <1>4 DEF Step, Ask, StoreKeys, ReadExisting, Commit, Register, Plan, Broadcast,
                BroadcastLost, NotSent, CallFails, RemoveSpent, ListForUpsert, ListOptimistic,
                AppendOptimistic, RegisterSent, ReadOptimistic, ReadKnown, ReadReady, Prune,
                Clear, Rest
  <2> QED
    BY <1>4, <2>1, RefreshesAreOwn, CommitIsOwn, PaymentsAreOwn, UpdatesAreOwn,
       BalancesAreOwn, ClearIsOwn DEF Step
<1> QED
  BY <1>1, <1>2, <1>3, <1>4 DEF Next

\* No row is of a wallet that was replaced (session.rs:106), for all wallets, coins, faults
\* and overlapping calls, unless a call ran beside an import or an import ended between its
\* two steps: with a crash there the rows stay until a refresh alone replaces them.
THEOREM RowsAreOwn == Spec => []OnlyOwnRows
<1>1. Init => OwnInv
  <2> SUFFICES ASSUME Init PROVE OwnInv
    OBVIOUS
  <2>1. (\A s \in funded : Owner[s] = wallet) /\ OwnRows
    BY DEF Init, OwnRows, NoRows
  <2>2. \A c \in Callers : call[c] = Idle
    BY DEF Init
  <2> QED
    BY <2>1, <2>2, IdleIsOwn DEF OwnInv
<1>2. OwnInv => OnlyOwnRows
  BY DEF OwnInv, OwnRows, Own, NoForeignRows, OnlyOwnRows
<1>3. GoodInv /\ OwnInv /\ [Next]_vars => OwnInv'
  BY OwnStep
<1> QED
  BY <1>1, <1>2, <1>3, Start0, GoodStep, PTL DEF Spec

-----------------------------------------------------------------------------
(***************************************************************************)
(* What a payment did to the cache is shown, as long as calls do not       *)
(* overlap; and nothing is counted twice, if no server lags either.        *)
(***************************************************************************)
OneCaller == \A c, d \in Callers : c = d
ServersUpToDate == "stale" \notin Faults

\* Every spender is known; what was reported is shown, and the list that pruning spares has
\* its change; with servers that are up to date a row for a payment and one for a coin of it
\* are never there together.
Shown(p) == /\ p \in Known
            /\ \A t \in ledger[p].spends : rows[t] = "none"
            /\ ledger[p].change => p \in optimistic /\ rows[p] = "pending"
CountedOnce ==
    \A p \in Txs : rows[p] # "none" => \A t \in ledger[p].spends : rows[t] = "none"
Books == /\ \A t \in Txs \ Known : ledger[t].spends = {} /\ rows[t] = "none"
         /\ \A t \in Txs : ledger[t].spends \subseteq Known
         /\ \A p \in reported : Shown(p)
         /\ ServersUpToDate => CountedOnce

\* An answer of the servers that is still true, as far as they are up to date.
True(view) == \A t \in Txs : view[t] # "none" =>
                 t \in Known /\ (ServersUpToDate => ~IsSpent(t))

\* A call that has paid: what it has removed, and what it has stored of its change.
Removed(k) == IF k.pc = "remove"
              THEN /\ k.todo \subseteq k.spent
                   /\ \A t \in k.spent \ k.todo : rows[t] = "none"
                   /\ \A t \in k.todo : rows[t] # "pending"
              ELSE \A t \in k.spent : rows[t] = "none"
PaidCall(k) == /\ k.pay \in Known /\ k.pay \notin reported /\ ~IsSpent(k.pay)
               /\ ledger[k.pay].spends = k.spent
               /\ Removed(k)
               /\ k.pc \in Storing => k.view = [rows EXCEPT ![k.pay] = "pending"]
               /\ k.pc \in {"list", "append"} => rows[k.pay] = "pending"
               /\ k.pc = "append" => k.keys = optimistic
               /\ k.pc = "fund" /\ ledger[k.pay].change =>
                     k.pay \in optimistic /\ rows[k.pay] = "pending"

ShownCall(k) == /\ k.pay # "none" => k.pc \in Paid \cup Storing /\ PaidCall(k)
                /\ k.pay = "none" /\ k.pc \in {"ask", "keys"} \cup Storing => True(k.view)
                /\ k.pc = "commit" => k.read = rows
                /\ k.pc = "broadcast" => \A t \in k.spent : rows[t] = "confirmed"
                /\ k.pc \in {"known", "ready"} => optimistic \subseteq k.keys
                /\ k.pc = "prune" => k.todo \cap optimistic = {}

ShownInv == Books /\ \A c \in Callers : ShownCall(call[c])

\* A call that waits for nothing, and one that begins a refresh, show nothing.
LEMMA IdleIsShown == ShownCall(Idle) /\ ShownCall(Idle)'
  BY DEF ShownCall, Idle, Storing

LEMMA RefreshingIsShown ==
  ASSUME NEW k \in Call, k.pay = "none"
  PROVE  ShownCall(Refreshing(k))
<1> DEFINE n == Refreshing(k)
<1>1. n.pay = "none" /\ n.pc \in {"register", "ask"} /\ n.view = NoRows
  BY DEF Refreshing, Call
<1> HIDE DEF n
<1>2. ShownCall(n)
  BY <1>1 DEF ShownCall, True, NoRows, Storing
<1> QED
  BY <1>2 DEF n

\* Where nothing changes that the invariant tells of, it stays.
LEMMA ShownSame ==
  ASSUME UNCHANGED <<ledger, rows, optimistic, reported>>
  PROVE  /\ Books => Books'
         /\ \A k : ShownCall(k) => ShownCall(k)'
<1>1. Known' = Known /\ \A t : IsSpent(t)' <=> IsSpent(t)
  BY DEF Known, IsSpent
<1>2. Books => Books'
  BY <1>1 DEF Books, Shown, CountedOnce
<1>3. \A k : PaidCall(k) => PaidCall(k)'
  BY <1>1 DEF PaidCall, Removed
<1>4. \A view : True(view) => True(view)'
  BY <1>1 DEF True
<1> QED
  BY <1>2, <1>3, <1>4 DEF ShownCall

\* A step of the one caller, when its call and the books are right after it.
LEMMA ShownMoved ==
  ASSUME OneCaller, GoodInv, NEW c \in Callers, NEW k, call' = [call EXCEPT ![c] = k],
         ShownCall(k)', Books'
  PROVE  ShownInv'
<1>1. \A d \in Callers : call'[d] = k
  BY DEF OneCaller, GoodInv
<1> QED
  BY <1>1 DEF ShownInv

LEMMA ShownGoes ==
  ASSUME OneCaller, GoodInv, ShownInv, NEW c \in Callers, NEW k,
         call' = [call EXCEPT ![c] = k], ShownCall(k),
         UNCHANGED <<ledger, rows, optimistic, reported>>
  PROVE  ShownInv'
<1>1. ShownCall(k)' /\ Books'
  BY ShownSame DEF ShownInv
<1> QED
  BY <1>1, ShownMoved

\* The calls begin.
LEMMA StartsAreShown ==
  ASSUME OneCaller, GoodInv, ShownInv, NEW c \in Callers, StartRefresh(c) \/ Start(c)
  PROVE  ShownInv'
<1>1. ASSUME NEW op \in Ops
      PROVE  Begin(c, op) \in Call /\ Begin(c, op).pay = "none"
  BY IdleIsGood DEF Good, Call, Begin, Idle, GoodInv, TypeOK
<1>2. ASSUME NEW op \in Ops, call' = [call EXCEPT ![c] = Refreshing(Begin(c, op))],
             UNCHANGED <<funded, store, reported>>, BesideImport
      PROVE  ShownInv'
  <2>1. ShownCall(Refreshing(Begin(c, op)))
    BY <1>1, RefreshingIsShown
  <2> QED
    BY <1>2, <2>1, ShownGoes DEF BesideImport, store
<1>3. CASE StartRefresh(c)
  BY <1>2, <1>3 DEF StartRefresh, Ops
<1>4. CASE StartSend(c)
  BY <1>2, <1>4 DEF StartSend, Ops
<1>5. CASE StartBalance(c)
  <2> DEFINE b == Begin(c, "balance")
             k == [b EXCEPT !.pc = "trusted", !.view = rows]
  <2>1. b \in Call /\ b.pay = "none"
    BY <1>1 DEF Ops
  <2>2. call' = [call EXCEPT ![c] = k]
    BY <1>5 DEF StartBalance
  <2> HIDE DEF b
  <2>3. k.pc = "trusted" /\ k.pay = "none"
    BY <2>1 DEF Call
  <2> HIDE DEF k
  <2>4. ShownCall(k)
    BY <2>3 DEF ShownCall, Storing
  <2> QED
    BY <1>5, <2>2, <2>4, ShownGoes DEF StartBalance, BesideImport, store
<1>6. CASE StartImport(c)
  <2> DEFINE b == Begin(c, "import")
             k == [b EXCEPT !.pc = "clear"]
  <2>1. b \in Call /\ b.pay = "none"
    BY <1>1 DEF Ops
  <2>2. call' = [call EXCEPT ![c] = k]
    BY <1>6 DEF StartImport
  <2> HIDE DEF b
  <2>3. k.pc = "clear" /\ k.pay = "none"
    BY <2>1 DEF Call
  <2> HIDE DEF k
  <2>4. ShownCall(k)
    BY <2>3 DEF ShownCall, Storing
  <2> QED
    BY <1>6, <2>2, <2>4, ShownGoes DEF StartImport, store
<1> QED
  BY <1>3, <1>4, <1>5, <1>6 DEF Start

\* A call that has not paid and is neither asking nor storing nor at a payment shows nothing.
LEMMA UnpaidIsShown ==
  ASSUME NEW k, k.pay = "none", k.pc \in {"register", "plan"}
  PROVE  ShownCall(k)
  BY DEF ShownCall, Storing

\* What the books say of a row that is new, in a refresh or after a payment.
LEMMA RefreshedBooks ==
  ASSUME GoodInv, Books, NEW view, True(view), rows' = view, ledger' = ledger,
         reported' = {}
  PROVE  Books'
<1>1. Known' = Known
  BY DEF Known
<1>2. \A t \in Txs \ Known : view[t] = "none"
  BY DEF True
<1>3. ASSUME ServersUpToDate, NEW p \in Txs, view[p] # "none", NEW t \in ledger[p].spends
      PROVE  view[t] = "none"
  <2>1. p \in Known
    BY <1>3 DEF True
  <2>2. IsSpent(t) /\ t \in Txs
    BY <1>3, <2>1 DEF IsSpent, GoodInv, TypeOK
  <2> QED
    BY <1>3, <2>2 DEF True
<1>4. ServersUpToDate => CountedOnce'
  BY <1>3 DEF CountedOnce
<1> QED
  BY <1>1, <1>2, <1>4 DEF Books

LEMMA ChangeBooks ==
  ASSUME GoodInv, Books, NEW p \in Known, p \notin reported, ~IsSpent(p),
         \A t \in ledger[p].spends : rows[t] = "none",
         rows' = [rows EXCEPT ![p] = "pending"], UNCHANGED <<ledger, optimistic, reported>>
  PROVE  Books'
<1>1. Known' = Known /\ p \in Txs /\ rows \in [Txs -> Row]
  BY DEF Known, GoodInv, TypeOK
<1>2. ASSUME NEW q \in Txs, NEW t \in ledger[q].spends PROVE t # p /\ t \in Txs
  <2>1. q \in Known
    BY <1>2 DEF Books
  <2> QED
    BY <1>2, <2>1 DEF IsSpent, GoodInv, TypeOK
<1>3. \A q \in Txs : \A t \in ledger[q].spends : rows'[t] = rows[t]
  BY <1>1, <1>2
<1>4. \A q \in Txs \ {p} : rows'[q] = rows[q]
  BY <1>1
<1>5. ServersUpToDate => CountedOnce'
  BY <1>3, <1>4 DEF Books, CountedOnce
<1>6. \A q \in reported : q \in Txs /\ q # p
  BY DEF GoodInv, TypeOK, Txs
<1>7. \A q \in reported : Shown(q)'
  BY <1>1, <1>3, <1>4, <1>6 DEF Books, Shown
<1> QED
  BY <1>1, <1>4, <1>5, <1>7 DEF Books

\* A server answers with what is known, and one that does not lag with what is not spent.
LEMMA AnswersAreTrue ==
  ASSUME NEW t \in Txs, NEW row \in ServerRows(t), row # "none"
  PROVE  t \in Known /\ (ServersUpToDate => ~IsSpent(t))
<1>1. row = LedgerRow(t) \/ (t \in Known /\ ~ServersUpToDate)
  BY DEF ServerRows, ServersUpToDate
<1> QED
  BY <1>1 DEF LedgerRow, Known

\* The refresh, and the storing of rows.
LEMMA RefreshesAreShown ==
  ASSUME OneCaller, GoodInv, ShownInv, NEW c \in Callers,
         \/ \E s \in Scripts : Ask(c, s)
         \/ StoreKeys(c) \/ ReadExisting(c) \/ Commit(c) \/ Register(c)
  PROVE  ShownInv'
<1>a. ShownCall(call[c]) /\ Books /\ call[c] \in Call
  BY DEF ShownInv, GoodInv, TypeOK
<1>1. ASSUME NEW s \in Scripts, Ask(c, s) PROVE ShownInv'
  <2> DEFINE mine == {t \in Txs : ledger[t].script = s}
  <2>1. PICK answer \in [mine -> Row] :
           /\ \A t \in mine : answer[t] \in ServerRows(t)
           /\ call' = [call EXCEPT
                 ![c].view = [t \in Txs |-> IF t \in mine THEN answer[t] ELSE @[t]],
                 ![c].todo = @ \ {s},
                 ![c].pc = IF call[c].todo = {s} THEN "keys" ELSE "ask"]
    BY <1>1 DEF Ask
  <2> DEFINE view == [t \in Txs |-> IF t \in mine THEN answer[t] ELSE call[c].view[t]]
             todo == call[c].todo \ {s}
             pc == IF call[c].todo = {s} THEN "keys" ELSE "ask"
             k == [call[c] EXCEPT !.view = view, !.todo = todo, !.pc = pc]
  <2>2. call' = [call EXCEPT ![c] = k]
    BY <2>1
  <2>3. call[c].pay = "none" /\ True(call[c].view)
    BY <1>1, <1>a DEF Ask, At, ShownCall, Paid, Storing
  <2>4. \A t \in mine : answer[t] # "none" =>
                         t \in Known /\ (ServersUpToDate => ~IsSpent(t))
    BY <2>1, AnswersAreTrue
  <2>5. True(view)
    BY <2>3, <2>4 DEF True
  <2>6. pc \in {"keys", "ask"}
    OBVIOUS
  <2> HIDE DEF view, todo, pc
  <2>7. k.view = view /\ k.pc = pc /\ k.pay = "none"
    BY <1>a, <2>3 DEF Call
  <2> HIDE DEF k
  <2>8. ShownCall(k)
    BY <2>5, <2>6, <2>7 DEF ShownCall, Storing
  <2> QED
    BY <1>1, <2>2, <2>8, ShownGoes DEF Ask, store
<1>2. CASE StoreKeys(c)
  <2> DEFINE k == [call[c] EXCEPT !.pc = "existing"]
  <2>1. call' = [call EXCEPT ![c] = k]
    BY <1>2 DEF StoreKeys, Goto
  <2>2. k.pc = "existing" /\ k.pay = call[c].pay /\ k.view = call[c].view
    BY <1>a DEF Call
  <2>3. call[c].pay = "none" /\ True(call[c].view)
    BY <1>2, <1>a DEF StoreKeys, At, ShownCall, Paid, Storing
  <2> HIDE DEF k
  <2>4. ShownCall(k)
    BY <2>2, <2>3 DEF ShownCall
  <2> QED
    BY <1>2, <2>1, <2>4, ShownGoes DEF StoreKeys, Rest
<1>3. CASE ReadExisting(c)
  <2> DEFINE k == [call[c] EXCEPT !.read = rows, !.pc = "commit"]
  <2>1. call' = [call EXCEPT ![c] = k]
    BY <1>3 DEF ReadExisting
  <2>2. /\ k.pc = "commit" /\ k.pay = call[c].pay /\ k.view = call[c].view /\ k.read = rows
        /\ k.spent = call[c].spent
    BY <1>a DEF Call
  <2>3. call[c].pc = "existing"
    BY <1>3 DEF ReadExisting, At
  <2> HIDE DEF k
  <2>4. call[c].pay # "none" => PaidCall(k)
    BY <1>a, <2>2, <2>3 DEF ShownCall, PaidCall, Removed, Storing
  <2>5. call[c].pay = "none" => True(k.view)
    BY <1>a, <2>2, <2>3 DEF ShownCall, Storing
  <2>6. ShownCall(k)
    BY <2>2, <2>4, <2>5 DEF ShownCall, Storing
  <2> QED
    BY <1>3, <2>1, <2>6, ShownGoes DEF ReadExisting, Rest, store
<1>4. CASE Commit(c)
  <2> DEFINE view == IF call[c].pay = "none" THEN call[c].view ELSE NoRows
             pc == AfterCommit(call[c])
  <2>1. PICK k : /\ k = [call[c] EXCEPT !.pc = pc, !.read = NoRows, !.view = view]
                 /\ call' = [call EXCEPT ![c] = k]
    BY <1>4 DEF Commit
  <2>2. pc = IF call[c].pay = "none" THEN "register" ELSE "list"
    BY DEF AfterCommit
  <2>3. /\ k.pc = IF call[c].pay = "none" THEN "register" ELSE "list"
        /\ k.pay = call[c].pay /\ k.spent = call[c].spent
    <3> HIDE DEF view, pc
    <3> QED
      BY <1>a, <2>1, <2>2 DEF Call
  <2>4. call[c].pc = "commit" /\ call[c].read = rows /\ ledger' = ledger
        /\ optimistic' = optimistic
    BY <1>4, <1>a DEF Commit, At, ShownCall
  <2>5. rows' = call[c].view
    <3>1. call[c].view \in [Txs -> Row] /\ rows \in [Txs -> Row]
      BY <1>a DEF Call, GoodInv, TypeOK
    <3>2. rows' = [t \in Txs |-> IF call[c].view[t] = rows[t] THEN rows[t] ELSE call[c].view[t]]
      BY <1>4, <2>4 DEF Commit, Replaced
    <3> QED
      BY <3>1, <3>2
  <2>6. CASE call[c].pay = "none"
    <3>1. True(call[c].view)
      BY <1>a, <2>4, <2>6 DEF ShownCall, Storing
    <3>2. reported' = {}
      BY <1>4, <2>6 DEF Commit, StillReported
    <3>3. Books'
      BY <1>a, <2>4, <2>5, <3>1, <3>2, RefreshedBooks
    <3>4. ShownCall(k)'
      BY <2>3, <2>6 DEF ShownCall, Storing
    <3> QED
      BY <2>1, <3>3, <3>4, ShownMoved
  <2>7. CASE call[c].pay # "none"
    <3>1. PaidCall(call[c])
      BY <1>a, <2>7 DEF ShownCall
    <3>2. reported' = reported
      BY <1>4, <2>7 DEF Commit, StillReported
    <3>0. PICK p : p = call[c].pay
      OBVIOUS
    <3>3. /\ p \in Known /\ p \notin reported /\ ~IsSpent(p)
          /\ ledger[p].spends = call[c].spent
          /\ \A t \in call[c].spent : rows[t] = "none"
          /\ call[c].view = [rows EXCEPT ![p] = "pending"]
      BY <2>4, <3>0, <3>1 DEF PaidCall, Removed, Storing
    <3>4. Books'
      BY <1>a, <2>4, <2>5, <3>2, <3>3, ChangeBooks
    <3>5. p \in Txs /\ rows \in [Txs -> Row] /\ p \notin call[c].spent
      BY <3>3 DEF Known, IsSpent, GoodInv, TypeOK
    <3>6. rows'[p] = "pending" /\ \A t \in call[c].spent : rows'[t] = "none"
      <4>1. \A t \in call[c].spent : t \in Txs /\ t # p
        BY <1>a, <3>5 DEF Call
      <4> QED
        BY <2>5, <3>3, <3>5, <4>1
    <3>7. Known' = Known /\ (IsSpent(p)' <=> IsSpent(p))
      BY <2>4 DEF Known, IsSpent
    <3>8. PaidCall(k)'
      BY <2>3, <2>4, <2>7, <3>0, <3>2, <3>3, <3>6, <3>7 DEF PaidCall, Removed, Storing
    <3>9. ShownCall(k)'
      BY <2>3, <2>7, <3>8 DEF ShownCall, Paid
    <3> QED
      BY <2>1, <3>4, <3>9, ShownMoved
  <2> QED
    BY <2>6, <2>7
<1>5. CASE Register(c)
  <2>1. call[c].pay = "none"
    BY <1>5, <1>a DEF Register, At, ShownCall, Paid, Storing
  <2>2. \E k : call' = [call EXCEPT ![c] = k] /\ ShownCall(k)
    <3>1. CASE call[c].op = "refresh"
      BY <1>5, <3>1, IdleIsShown DEF Register, Done
    <3>2. CASE call[c].op = "send" /\ call[c].attempt = 1
      <4> DEFINE k == [call[c] EXCEPT !.attempt = 2, !.who = wallet]
      <4>1. wallet \in 1 .. MaxWallet /\ 2 \in 0 .. 2
        BY DEF GoodInv, TypeOK
      <4>2. \A n \in 0 .. 2 : \A w \in 1 .. MaxWallet :
               [call[c] EXCEPT !.attempt = n, !.who = w] \in Call
        BY <1>a DEF Call
      <4>3. k \in Call
        BY <4>1, <4>2, Zenon
      <4>4. k.pay = "none"
        BY <1>a, <2>1 DEF Call
      <4>5. call' = [call EXCEPT ![c] = Refreshing(k)]
        BY <1>5, <3>2 DEF Register
      <4> HIDE DEF k
      <4>6. ShownCall(Refreshing(k))
        BY <4>3, <4>4, RefreshingIsShown
      <4> QED
        BY <4>5, <4>6
    <3>3. CASE call[c].op # "refresh" /\ ~(call[c].op = "send" /\ call[c].attempt = 1)
      <4> DEFINE k == [call[c] EXCEPT !.pc = "plan", !.view = NoRows]
      <4>1. call' = [call EXCEPT ![c] = k]
        BY <1>5, <3>3 DEF Register
      <4>2. k.pay = "none" /\ k.pc = "plan"
        BY <1>a, <2>1 DEF Call
      <4> HIDE DEF k
      <4> QED
        BY <4>1, <4>2, UnpaidIsShown
    <3> QED
      BY <3>1, <3>2, <3>3
  <2> QED
    BY <1>5, <2>2, ShownGoes DEF Register, Rest, store
<1> QED
  BY <1>1, <1>2, <1>3, <1>4, <1>5

\* The network with a payment in it: the payment is new, and the coins it spends are known.
LEMMA SentBooks ==
  ASSUME GoodInv, Books, NEW c \in Callers, NEW p \in Payments \ Known,
         NEW change \in BOOLEAN, NEW s \in Scripts, call[c].spent \subseteq Known,
         ledger' = Sent(p, c, change, s), UNCHANGED <<rows, optimistic, reported>>
  PROVE  /\ Books'
         /\ p \in Known' /\ ~IsSpent(p)' /\ ledger'[p].spends = call[c].spent
<1>1. p \in Txs /\ rows[p] = "none" /\ p \notin reported
  BY DEF Txs, Books, Shown
<1>2. /\ ledger'[p].row = "pending" /\ ledger'[p].spends = call[c].spent
      /\ \A t \in Txs \ {p} : ledger'[t] = ledger[t]
  BY <1>1 DEF Sent, GoodInv, TypeOK
<1>3. Known' = Known \cup {p}
  BY <1>1, <1>2 DEF Known
<1>4. ~IsSpent(p)'
  <2>1. \A q \in Known' : ledger'[q].spends \subseteq Known
    BY <1>2, <1>3 DEF Books, Known
  <2> QED
    BY <2>1 DEF IsSpent
<1>5. \A t \in Txs \ Known' : ledger'[t].spends = {} /\ rows'[t] = "none"
  BY <1>2, <1>3 DEF Books
<1>6. \A t \in Txs : ledger'[t].spends \subseteq Known'
  BY <1>2, <1>3 DEF Books
<1>7. ServersUpToDate => CountedOnce'
  BY <1>1, <1>2 DEF Books, CountedOnce
<1>8. \A q \in reported' : Shown(q)'
  <2>1. \A q \in reported : q \in Txs /\ q # p
    BY <1>1 DEF GoodInv, TypeOK, Txs
  <2> QED
    BY <1>2, <1>3, <2>1 DEF Books, Shown
<1> QED
  BY <1>2, <1>3, <1>4, <1>5, <1>6, <1>7, <1>8 DEF Books

\* The payment, up to the network.
LEMMA PaymentsAreShown ==
  ASSUME OneCaller, GoodInv, ShownInv, NEW c \in Callers,
         Plan(c) \/ Broadcast(c) \/ BroadcastLost(c) \/ NotSent(c) \/ CallFails(c)
  PROVE  ShownInv'
<1>a. ShownCall(call[c]) /\ Books /\ call[c] \in Call
  BY DEF ShownInv, GoodInv, TypeOK
<1>b. call[c].pay = "none"
  BY <1>a DEF Plan, Broadcast, BroadcastLost, NotSent, CallFails, At, ShownCall, Paid, Storing
<1>1. CASE Plan(c)
  <2>1. PICK S \in (SUBSET Spendable) \ {{}} :
           call' = [call EXCEPT ![c].spent = S, ![c].pc = "broadcast"]
    BY <1>1 DEF Plan
  <2> DEFINE k == [call[c] EXCEPT !.spent = S, !.pc = "broadcast"]
  <2>2. call' = [call EXCEPT ![c] = k]
    BY <2>1
  <2>3. k.pc = "broadcast" /\ k.spent = S /\ k.pay = "none"
    BY <1>a, <1>b DEF Call
  <2> HIDE DEF k
  <2>4. ShownCall(k)
    BY <2>3 DEF ShownCall, Spendable, Storing
  <2> QED
    BY <1>1, <2>2, <2>4, ShownGoes DEF Plan, Rest, store
<1>2. ASSUME Accepts(c), NEW p \in Payments \ Known, NEW change \in BOOLEAN,
             NEW s \in {x \in Scripts : Owner[x] = call[c].who},
             ledger' = Sent(p, c, change, s), UNCHANGED <<rows, optimistic, reported>>
      PROVE  /\ Books'
             /\ p \in Known' /\ ~IsSpent(p)' /\ ledger'[p].spends = call[c].spent
  <2>1. call[c].spent \subseteq Known
    BY <1>2 DEF Accepts
  <2> QED
    BY <1>2, <1>a, <2>1, SentBooks
<1>3. CASE Broadcast(c)
  <2>1. PICK p \in Payments \ Known, change \in BOOLEAN,
             s \in {x \in Scripts : Owner[x] = call[c].who} :
           /\ ledger' = Sent(p, c, change, s)
           /\ call' = [call EXCEPT ![c].pc = "remove", ![c].pay = p,
                                   ![c].todo = call[c].spent, ![c].paid = @ + 1]
    BY <1>3 DEF Broadcast
  <2>2. UNCHANGED <<rows, optimistic, reported>> /\ Accepts(c)
    BY <1>3 DEF Broadcast, store
  <2>3. Books' /\ p \in Known' /\ ~IsSpent(p)' /\ ledger'[p].spends = call[c].spent
    BY <1>2, <2>1, <2>2
  <2>4. PICK k : k = [call[c] EXCEPT !.pc = "remove", !.pay = p, !.todo = call[c].spent,
                                     !.paid = call[c].paid + 1]
    OBVIOUS
  <2>5. call' = [call EXCEPT ![c] = k]
    BY <2>1, <2>4
  <2>6. k.pc = "remove" /\ k.pay = p /\ k.todo = call[c].spent /\ k.spent = call[c].spent
    BY <1>a, <2>4 DEF Call
  <2>7. \A t \in call[c].spent : rows'[t] # "pending"
    BY <1>3, <1>a, <2>2 DEF Broadcast, At, ShownCall
  <2>8. p \notin reported'
    BY <1>a, <2>2 DEF Books, Shown
  <2>9. PaidCall(k)'
    BY <2>3, <2>6, <2>7, <2>8 DEF PaidCall, Removed, Storing
  <2>10. p # "none"
    BY SetsAssumption
  <2>11. ShownCall(k)'
    BY <2>6, <2>9, <2>10 DEF ShownCall, Paid
  <2> QED
    BY <2>3, <2>5, <2>11, ShownMoved
<1>4. CASE BroadcastLost(c)
  <2>1. PICK p \in Payments \ Known, change \in BOOLEAN,
             s \in {x \in Scripts : Owner[x] = call[c].who} :
           ledger' = Sent(p, c, change, s)
    BY <1>4 DEF BroadcastLost
  <2>2. call' = [call EXCEPT ![c] = Idle]
    BY <1>4 DEF BroadcastLost, Failed
  <2>3. UNCHANGED <<rows, optimistic, reported>> /\ Accepts(c)
    BY <1>4 DEF BroadcastLost, store
  <2>4. Books'
    BY <1>2, <2>1, <2>3
  <2> QED
    BY <2>2, <2>4, IdleIsShown, ShownMoved
<1>5. ASSUME \E lookup \in BOOLEAN : call' = [call EXCEPT ![c] = Failed(@, lookup)],
             UNCHANGED <<ledger, rows, optimistic, reported>>
      PROVE  ShownInv'
  <2>1. PICK lookup \in BOOLEAN : call' = [call EXCEPT ![c] = Failed(call[c], lookup)]
    BY <1>5
  <2> DEFINE k == [call[c] EXCEPT !.attempt = 1]
  <2>2. k \in Call /\ k.pay = "none"
    BY <1>a, <1>b DEF Call
  <2> HIDE DEF k
  <2>3. ShownCall(Refreshing(k))
    BY <2>2, RefreshingIsShown
  <2>4. ShownCall(Failed(call[c], lookup))
    BY <2>3, IdleIsShown DEF Failed, k
  <2> QED
    BY <1>5, <2>1, <2>4, ShownGoes
<1>6. CASE NotSent(c)
  BY <1>5, <1>6 DEF NotSent, Rest, store
<1>7. CASE CallFails(c)
  BY <1>5, <1>7 DEF CallFails, store
<1> QED
  BY <1>1, <1>3, <1>4, <1>6, <1>7

\* A row that is removed is not of a change that was reported.
LEMMA RemovedBooks ==
  ASSUME GoodInv, Books, NEW t, \A p \in reported : ledger[p].change => p # t,
         rows' = [rows EXCEPT ![t] = "none"], UNCHANGED <<ledger, optimistic, reported>>
  PROVE  Books'
<1>1. Known' = Known /\ rows \in [Txs -> Row] /\ \A p \in Txs : ledger[p].spends \subseteq Txs
  BY DEF Known, GoodInv, TypeOK
<1>2. \A u \in Txs : rows'[u] = rows[u] \/ rows'[u] = "none"
  BY <1>1
<1>3. ServersUpToDate => CountedOnce'
  BY <1>1, <1>2 DEF Books, CountedOnce
<1>4. ASSUME NEW p \in reported PROVE Shown(p)'
  <2>1. p \in Txs /\ Shown(p)
    BY DEF Books, GoodInv, TypeOK, Txs
  <2>2. \A u \in ledger[p].spends : rows'[u] = "none"
    BY <1>1, <1>2, <2>1 DEF Shown
  <2>3. ledger[p].change => rows'[p] = "pending"
    BY <1>1, <2>1 DEF Shown
  <2> QED
    BY <1>1, <2>1, <2>2, <2>3 DEF Shown
<1> QED
  BY <1>1, <1>2, <1>3, <1>4 DEF Books

\* What follows a payment in the cache.
LEMMA UpdatesAreShown ==
  ASSUME OneCaller, GoodInv, ShownInv, NEW c \in Callers,
         \/ RemoveSpent(c) \/ ListForUpsert(c) \/ ListOptimistic(c)
         \/ AppendOptimistic(c) \/ RegisterSent(c)
  PROVE  ShownInv'
<1>a. /\ ShownCall(call[c]) /\ Books /\ call[c] \in Call /\ call[c] \in Good
      /\ rows \in [Txs -> Row] /\ reported \subseteq Txs
  BY DEF ShownInv, GoodInv, TypeOK, Txs
<1>b. call[c].pay # "none" /\ PaidCall(call[c])
  BY <1>a, SetsAssumption
     DEF RemoveSpent, ListForUpsert, ListOptimistic, AppendOptimistic, RegisterSent, At,
         Good, Paying, Paid, ShownCall
<1>1. CASE RemoveSpent(c)
  <2>1. PICK t \in call[c].todo :
          /\ rows' = [rows EXCEPT ![t] = "none"]
          /\ call' = [call EXCEPT ![c].todo = @ \ {t},
                ![c].pc = IF call[c].todo # {t} THEN "remove"
                          ELSE IF ledger[call[c].pay].change THEN "upsert" ELSE "fund"]
    BY <1>1 DEF RemoveSpent
  <2>2. PICK pc : pc = IF call[c].todo # {t} THEN "remove"
                       ELSE IF ledger[call[c].pay].change THEN "upsert" ELSE "fund"
    OBVIOUS
  <2>3. PICK k : k = [call[c] EXCEPT !.todo = call[c].todo \ {t}, !.pc = pc]
    OBVIOUS
  <2>4. call' = [call EXCEPT ![c] = k]
    BY <2>1, <2>2, <2>3
  <2>5. k.pc = pc /\ k.pay = call[c].pay /\ k.spent = call[c].spent /\ k.todo = call[c].todo \ {t}
    BY <1>a, <2>3 DEF Call
  <2>6. /\ UNCHANGED <<ledger, optimistic, reported>> /\ call[c].pc = "remove"
        /\ Known' = Known /\ (IsSpent(k.pay)' <=> IsSpent(k.pay))
    BY <1>1 DEF RemoveSpent, At, Rest, Known, IsSpent
  <2>7. /\ call[c].todo \subseteq call[c].spent /\ rows[t] # "pending"
        /\ \A u \in call[c].spent \ call[c].todo : rows[u] = "none"
        /\ \A u \in call[c].todo : rows[u] # "pending"
        /\ call[c].spent \subseteq Txs
    BY <1>a, <1>b, <2>6 DEF PaidCall, Removed, Call
  <2>8. Books'
    <3>1. \A p \in reported : ledger[p].change => p # t
      BY <1>a, <2>7 DEF Books, Shown
    <3> QED
      BY <1>a, <2>1, <2>6, <3>1, RemovedBooks
  <2>9. \A u \in Txs : rows'[u] = IF u = t THEN "none" ELSE rows[u]
    BY <1>a, <2>1
  <2>10. Removed(k)'
    <3>1. CASE call[c].todo # {t}
      BY <2>2, <2>5, <2>7, <2>9, <3>1 DEF Removed
    <3>2. CASE call[c].todo = {t}
      BY <2>2, <2>5, <2>7, <2>9, <3>2 DEF Removed
    <3> QED
      BY <3>1, <3>2
  <2>11. pc = "remove" \/ pc = "upsert" \/ (pc = "fund" /\ ~ledger[k.pay].change)
    BY <2>2, <2>5
  <2>12. PaidCall(k)'
    BY <1>b, <2>5, <2>6, <2>10, <2>11 DEF PaidCall, Storing
  <2>13. ShownCall(k)'
    BY <1>b, <2>5, <2>11, <2>12 DEF ShownCall, Paid
  <2> QED
    BY <2>4, <2>8, <2>13, ShownMoved
<1>2. CASE ListForUpsert(c)
  <2> DEFINE view == [rows EXCEPT ![call[c].pay] = "pending"]
             k == [call[c] EXCEPT !.view = view, !.pc = "existing"]
  <2>1. call' = [call EXCEPT ![c] = k]
    BY <1>2 DEF ListForUpsert
  <2> HIDE DEF view
  <2>2. k.pc = "existing" /\ k.pay = call[c].pay /\ k.spent = call[c].spent /\ k.view = view
    BY <1>a DEF Call
  <2> HIDE DEF k
  <2>3. PaidCall(k)
    BY <1>2, <1>b, <2>2 DEF ListForUpsert, At, PaidCall, Removed, view
  <2>4. ShownCall(k)
    BY <1>b, <2>2, <2>3 DEF ShownCall, Storing
  <2> QED
    BY <1>2, <2>1, <2>4, ShownGoes DEF ListForUpsert, Rest, store
<1>3. CASE ListOptimistic(c)
  <2> DEFINE k == [call[c] EXCEPT !.keys = optimistic, !.pc = "append"]
  <2>1. call' = [call EXCEPT ![c] = k]
    BY <1>3 DEF ListOptimistic
  <2>2. /\ k.pc = "append" /\ k.pay = call[c].pay /\ k.spent = call[c].spent
        /\ k.keys = optimistic
    BY <1>a DEF Call
  <2> HIDE DEF k
  <2>3. PaidCall(k)
    BY <1>3, <1>b, <2>2 DEF ListOptimistic, At, PaidCall, Removed, Storing
  <2>4. ShownCall(k)
    BY <1>b, <2>2, <2>3 DEF ShownCall, Paid
  <2> QED
    BY <1>3, <2>1, <2>4, ShownGoes DEF ListOptimistic, Rest, store
<1>4. CASE AppendOptimistic(c)
  <2>1. PICK k : k = [call[c] EXCEPT !.keys = {}, !.pc = "fund"]
    OBVIOUS
  <2>2. call' = [call EXCEPT ![c] = k]
    BY <1>4, <2>1 DEF AppendOptimistic
  <2>3. k.pc = "fund" /\ k.pay = call[c].pay /\ k.spent = call[c].spent
    BY <1>a, <2>1 DEF Call
  <2>4. /\ UNCHANGED <<ledger, rows, reported>>
        /\ Known' = Known /\ (IsSpent(k.pay)' <=> IsSpent(k.pay))
    BY <1>4 DEF AppendOptimistic, Rest, Known, IsSpent
  <2>5. optimistic' = optimistic \cup {call[c].pay} /\ rows[call[c].pay] = "pending"
    BY <1>4, <1>b DEF AppendOptimistic, At, PaidCall
  <2>6. Books'
    BY <1>a, <2>4, <2>5 DEF Books, Shown, CountedOnce
  <2>7. PaidCall(k)'
    BY <1>4, <1>b, <2>3, <2>4, <2>5 DEF AppendOptimistic, At, PaidCall, Removed, Storing
  <2>8. ShownCall(k)'
    BY <1>b, <2>3, <2>7 DEF ShownCall, Paid
  <2> QED
    BY <2>2, <2>6, <2>8, ShownMoved
<1>5. CASE RegisterSent(c)
  <2>1. call' = [call EXCEPT ![c] = Idle]
    BY <1>5 DEF RegisterSent, Done
  <2>2. /\ UNCHANGED <<ledger, rows, optimistic>> /\ reported' = reported \cup {call[c].pay}
        /\ Known' = Known
    BY <1>5 DEF RegisterSent, Rest, store, Known
  <2>3. Shown(call[c].pay)
    BY <1>5, <1>b DEF RegisterSent, At, PaidCall, Removed, Shown
  <2>4. \A p \in reported' : Shown(p)'
    BY <1>a, <2>2, <2>3 DEF Books, Shown
  <2>5. Books'
    BY <1>a, <2>2, <2>4 DEF Books, CountedOnce
  <2> QED
    BY <2>1, <2>5, IdleIsShown, ShownMoved
<1> QED
  BY <1>1, <1>2, <1>3, <1>4, <1>5

\* The balance: what it removes is in neither list, and the change of a payment is in one.
LEMMA BalancesAreShown ==
  ASSUME OneCaller, GoodInv, ShownInv, NEW c \in Callers,
         ReadOptimistic(c) \/ ReadKnown(c) \/ ReadReady(c) \/ Prune(c)
  PROVE  ShownInv'
<1>a. /\ ShownCall(call[c]) /\ Books /\ call[c] \in Call
  BY DEF ShownInv, GoodInv, TypeOK
<1>b. call[c].pay = "none"
  BY <1>a DEF ReadOptimistic, ReadKnown, ReadReady, Prune, At, ShownCall, Paid, Storing
<1>1. ASSUME NEW keys, NEW pc \in {"known", "ready"}, optimistic \subseteq keys,
             call' = [call EXCEPT ![c].keys = keys, ![c].pc = pc],
             UNCHANGED <<ledger, rows, optimistic, reported>>
      PROVE  ShownInv'
  <2> DEFINE k == [call[c] EXCEPT !.keys = keys, !.pc = pc]
  <2>1. call' = [call EXCEPT ![c] = k]
    BY <1>1
  <2>2. k.keys = keys /\ k.pc = pc /\ k.pay = "none"
    BY <1>a, <1>b DEF Call
  <2> HIDE DEF k
  <2>3. ShownCall(k)
    BY <1>1, <2>2 DEF ShownCall, Storing
  <2> QED
    BY <1>1, <2>1, <2>3, ShownGoes
<1>2. CASE ReadOptimistic(c)
  BY <1>1, <1>2 DEF ReadOptimistic, Rest, store
<1>3. CASE ReadKnown(c)
  <2> DEFINE keys == call[c].keys \cup snapshot.keys
  <2>1. optimistic \subseteq keys
    BY <1>3, <1>a DEF ReadKnown, At, ShownCall
  <2>2. call' = [call EXCEPT ![c].keys = keys, ![c].pc = "ready"]
    BY <1>3 DEF ReadKnown
  <2>3. UNCHANGED <<ledger, rows, optimistic, reported>>
    BY <1>3 DEF ReadKnown, Rest, store
  <2> HIDE DEF keys
  <2> QED
    BY <1>1, <2>1, <2>2, <2>3
<1>4. CASE ReadReady(c)
  <2> DEFINE k == [call[c] EXCEPT !.todo = Untrusted(call[c]), !.pc = "prune"]
  <2>1. k.todo = Untrusted(call[c]) /\ k.pc = "prune" /\ k.pay = "none"
    BY <1>a, <1>b DEF Call
  <2>2. call' = [call EXCEPT ![c] = IF snapshot.ready /\ Untrusted(call[c]) # {}
                                    THEN k ELSE Idle]
    BY <1>4 DEF ReadReady
  <2> HIDE DEF k
  <2>3. optimistic \subseteq call[c].keys
    BY <1>4, <1>a DEF ReadReady, At, ShownCall
  <2>4. ShownCall(k)
    BY <2>1, <2>3 DEF ShownCall, Untrusted, Storing
  <2> QED
    BY <1>4, <2>2, <2>4, IdleIsShown, ShownGoes DEF ReadReady, Rest, store
<1>5. CASE Prune(c)
  <2>1. PICK t \in call[c].todo :
          /\ rows' = [rows EXCEPT ![t] = "none"]
          /\ call' = [call EXCEPT ![c] = IF call[c].todo = {t} THEN Idle
                                         ELSE [@ EXCEPT !.todo = call[c].todo \ {t}]]
    BY <1>5 DEF Prune
  <2>2. PICK k : k = [call[c] EXCEPT !.todo = call[c].todo \ {t}]
    OBVIOUS
  <2>3. call' = [call EXCEPT ![c] = IF call[c].todo = {t} THEN Idle ELSE k]
    BY <2>1, <2>2
  <2>4. /\ call[c].pc = "prune" /\ call[c].todo \cap optimistic = {}
        /\ UNCHANGED <<ledger, optimistic, reported>>
    BY <1>5, <1>a DEF Prune, At, ShownCall, Rest
  <2>5. k.pc = "prune" /\ k.todo = call[c].todo \ {t} /\ k.pay = "none"
    BY <1>a, <1>b, <2>2, <2>4 DEF Call
  <2>6. ShownCall(k)'
    BY <2>4, <2>5 DEF ShownCall, Storing
  <2>7. \A p \in reported : ledger[p].change => p # t
    BY <1>a, <2>1, <2>4 DEF Books, Shown
  <2>8. Books'
    BY <1>a, <2>1, <2>4, <2>7, RemovedBooks
  <2> QED
    BY <2>3, <2>6, <2>8, IdleIsShown, ShownMoved
<1> QED
  BY <1>2, <1>3, <1>4, <1>5

LEMMA ClearIsShown ==
  ASSUME OneCaller, GoodInv, ShownInv, NEW c \in Callers, Clear(c)
  PROVE  ShownInv'
<1>1. call' = [call EXCEPT ![c] = Idle] /\ rows' = NoRows /\ reported' = {}
      /\ ledger' = ledger /\ Known' = Known
  BY DEF Clear, Done, Known
<1>2. Books'
  BY <1>1 DEF Books, CountedOnce, NoRows, ShownInv
<1> QED
  BY <1>1, <1>2, IdleIsShown, ShownMoved

\* The network, the scan and a crash: what the network learns of spends no coin.
LEMMA WorldIsShown == ASSUME GoodInv, ShownInv, World \/ Discover PROVE ShownInv'
<1>1. ASSUME NEW t \in Txs, NEW row \in {"pending", "confirmed"},
             t \notin Known => ledger[t].spends = {},
             ledger' = [ledger EXCEPT ![t].row = row],
             UNCHANGED <<rows, optimistic, reported, call>>
      PROVE  ShownInv'
  <2>1. /\ \A u \in Txs : ledger'[u].spends = ledger[u].spends /\ ledger'[u].change = ledger[u].change
        /\ Known' = Known \cup {t}
    BY <1>1 DEF Known, GoodInv, TypeOK
  <2>2. \A u : IsSpent(u)' => IsSpent(u)
    BY <1>1, <2>1 DEF IsSpent, Known
  <2>3. Known \subseteq Txs /\ reported \subseteq Txs
    BY DEF Known, GoodInv, TypeOK, Txs
  <2>4. \A p \in reported : Shown(p) => Shown(p)'
    BY <1>1, <2>1, <2>3 DEF Shown
  <2>5. Books'
    BY <1>1, <2>1, <2>4 DEF Books, CountedOnce, ShownInv
  <2>6. \A k : PaidCall(k) => PaidCall(k)'
    BY <1>1, <2>1, <2>2, <2>3 DEF PaidCall, Removed
  <2>7. \A view : True(view) => True(view)'
    BY <2>1, <2>2 DEF True
  <2>8. \A k : ShownCall(k) => ShownCall(k)'
    BY <1>1, <2>6, <2>7 DEF ShownCall
  <2> QED
    BY <1>1, <2>5, <2>8 DEF ShownInv
<1>2. CASE Receive
  <2>1. PICK t \in Coins \ Known : ledger' = [ledger EXCEPT ![t].row = "pending"]
    BY <1>2 DEF Receive
  <2>2. t \in Txs /\ ledger[t].spends = {}
    BY DEF Txs, ShownInv, Books
  <2> QED
    BY <1>1, <1>2, <2>1, <2>2 DEF Receive, store
<1>3. CASE Mine
  <2>1. PICK t \in Known : ledger' = [ledger EXCEPT ![t].row = "confirmed"]
    BY <1>3 DEF Mine
  <2>2. t \in Txs
    BY DEF Known
  <2> QED
    BY <1>1, <1>3, <2>1, <2>2 DEF Mine, store
<1>4. CASE Crash
  <2>1. UNCHANGED <<ledger, rows, optimistic, reported>> /\ call' = [c \in Callers |-> Idle]
    BY <1>4 DEF Crash, store
  <2> QED
    BY <2>1, IdleIsShown, ShownSame DEF ShownInv
<1>5. CASE Discover
  <2>1. UNCHANGED <<ledger, rows, optimistic, reported, call>>
    BY <1>5 DEF Discover, store
  <2> QED
    BY <2>1, ShownSame DEF ShownInv
<1> QED
  BY <1>2, <1>3, <1>4, <1>5 DEF World

LEMMA ShownStart == Init => ShownInv
<1> SUFFICES ASSUME Init PROVE ShownInv
  OBVIOUS
<1>1. rows = NoRows /\ reported = {} /\ \A t \in Txs : ledger[t].spends = {}
  BY DEF Init
<1>2. Books
  BY <1>1 DEF Books, CountedOnce, NoRows
<1>3. \A c \in Callers : call[c] = Idle
  BY DEF Init
<1> QED
  BY <1>2, <1>3, IdleIsShown DEF ShownInv

LEMMA ShownStep == OneCaller /\ GoodInv /\ ShownInv /\ [Next]_vars => ShownInv'
<1> SUFFICES ASSUME OneCaller, GoodInv, ShownInv, [Next]_vars PROVE ShownInv'
  OBVIOUS
<1>1. CASE UNCHANGED vars
  <2>1. UNCHANGED <<ledger, rows, optimistic, reported, call>>
    BY <1>1 DEF vars
  <2> QED
    BY <2>1, ShownSame DEF ShownInv
<1>2. CASE World \/ Discover
  BY <1>2, WorldIsShown
<1>3. ASSUME NEW c \in Callers, StartRefresh(c) \/ Start(c) PROVE ShownInv'
  BY <1>3, StartsAreShown
<1>4. ASSUME NEW c \in Callers, Step(c) PROVE ShownInv'
  BY <1>4, RefreshesAreShown, PaymentsAreShown, UpdatesAreShown, BalancesAreShown, ClearIsShown
     DEF Step
<1> QED
  BY <1>1, <1>2, <1>3, <1>4 DEF Next

\* The balance (wallet_cache.rs:35) never adds up a coin and the change of the payment that
\* spent it, for all coins, payments, wallets, crashes and failures, as long as calls do not
\* overlap and no server lags: one that does brings a spent coin back (UtxoCache_stale.cfg).
THEOREM CountsOnce == ASSUME OneCaller, ServersUpToDate PROVE Spec => []NeverCountedTwice
<1>1. ShownInv => NeverCountedTwice
  BY DEF ShownInv, Books, CountedOnce, NeverCountedTwice, Txs
<1>2. GoodInv /\ ShownInv /\ [Next]_vars => ShownInv'
  BY ShownStep
<1> QED
  BY <1>1, <1>2, Start0, GoodStep, ShownStart, PTL DEF Spec

\* Once send_to_address has returned, its coins are gone and its change is there until a
\* snapshot replaces the rows, for all coins, payments and faults, servers that lag among
\* them, as long as calls do not overlap: the pruning of the balance (wallet_cache.rs:45)
\* finds the change in the list that the payment has written. With calls that overlap it may
\* not (UtxoCache_race.cfg).
THEOREM ReportedIsShown == ASSUME OneCaller PROVE Spec => []ReportedShown
<1>1. ShownInv => ReportedShown
  BY DEF ShownInv, Books, Shown, ReportedShown
<1>2. GoodInv /\ ShownInv /\ [Next]_vars => ShownInv'
  BY ShownStep
<1> QED
  BY <1>1, <1>2, Start0, GoodStep, ShownStart, PTL DEF Spec
=============================================================================
