------------------------------ MODULE UtxoCache ------------------------------
(***************************************************************************)
(* The cache of unspent outputs of one coin (UtxoCache of                  *)
(* vericonomy-storage, the SQLite store behind it) and the calls of a      *)
(* session that change it: the refresh from the servers, a payment with    *)
(* its local update, the balance, which prunes, and the import of another  *)
(* wallet.  Each call is a sequence of the store's operations; an          *)
(* operation that opens the database twice is two steps, and calls of      *)
(* several threads interleave between steps.                               *)
(*                                                                         *)
(* What is left out: amounts (SendPlan), how the list of funded scripts is *)
(* found (GapScan), the server a call reaches (ElectrumClient), the rows   *)
(* of the history (History).  A transaction has at most one output of the  *)
(* wallet, so that its name is also the name of that output.               *)
(***************************************************************************)
EXTENDS Naturals, FiniteSets

CONSTANTS
    Callers,        \* threads that call the session
    Coins,          \* transactions of others that pay the wallet
    Payments,       \* transactions that the wallet may make
    Scripts,        \* scripts of the wallets
    Owner,          \* which wallet a script belongs to: 1, 2, ... by import
    PaidTo,         \* the script that a coin pays
    Mined,          \* the coins that are in a block at the start
    MaxWallet,      \* how many wallets are imported, one after the other
    Faults,         \* what may go wrong: "crash", "fail", "lost", "stale"
    CrashIn,        \* the calls that a crash may end
    MaxFaults       \* how often something goes wrong

Ops == {"refresh", "send", "balance", "import"}

ASSUME SetsAssumption == /\ Coins \cap Payments = {}
                         /\ "none" \notin Coins \cup Payments
                         /\ Mined \subseteq Coins
                         /\ MaxWallet \in Nat \ {0}
                         /\ Scripts # {}
                         /\ Owner \in [Scripts -> 1 .. MaxWallet]
                         /\ PaidTo \in [Coins -> Scripts]
                         /\ Faults \subseteq {"crash", "fail", "lost", "stale"}
                         /\ CrashIn \subseteq Ops
                         /\ MaxFaults \in Nat

VARIABLES
    ledger,         \* transaction -> what the network has of it
    wallet,         \* the wallet of the keystore's record
    funded,         \* the record's list of funded scripts
    rows,           \* output -> its row: none, or its height 0 or above
    optimistic,     \* outputs under optimistic_utxo_keys
    snapshot,       \* outputs under last_electrum_utxo_keys, once it is set
    call,           \* caller -> its call
    reported,       \* payments whose call has returned, since a snapshot
    faults,         \* how often something has gone wrong
    remains         \* what may remain of replaced wallets: "rows", where an import was cut
                    \* short; "calls", where one ran beside an import (history)

vars == <<ledger, wallet, funded, rows, optimistic, snapshot, call, reported,
          faults, remains>>
store == <<rows, optimistic, snapshot>>

Txs == Coins \cup Payments
Row == {"none", "pending", "confirmed"}
NoRows == [t \in Txs |-> "none"]
Idle == [op |-> "none", pc |-> "idle", who |-> 1, todo |-> {}, view |-> NoRows,
         read |-> NoRows, keys |-> {}, spent |-> {}, pay |-> "none",
         attempt |-> 0, paid |-> 0]

Call == [op : Ops \cup {"none"},
         pc : {"idle", "ask", "keys", "existing", "commit", "register",
               "plan", "broadcast", "remove", "upsert", "list", "append",
               "fund", "trusted", "known", "ready", "prune", "clear"},
         who : 1 .. MaxWallet, todo : SUBSET (Scripts \cup Txs),
         view : [Txs -> Row], read : [Txs -> Row], keys : SUBSET Txs,
         spent : SUBSET Txs, pay : Payments \cup {"none"},
         attempt : 0 .. 2, paid : 0 .. 2]

TypeOK ==
    /\ ledger \in [Txs -> [row : Row, spends : SUBSET Txs,
                           script : Scripts, change : BOOLEAN]]
    /\ wallet \in 1 .. MaxWallet
    /\ funded \subseteq Scripts
    /\ rows \in [Txs -> Row]
    /\ optimistic \subseteq Payments
    /\ snapshot \in [ready : BOOLEAN, keys : SUBSET Txs]
    /\ call \in [Callers -> Call]
    /\ reported \subseteq Payments
    /\ faults \in 0 .. MaxFaults
    /\ remains \subseteq {"rows", "calls"}

Init ==
    /\ ledger = [t \in Txs |-> [row |-> IF t \in Mined THEN "confirmed" ELSE "none",
                                spends |-> {},
                                script |-> IF t \in Coins THEN PaidTo[t]
                                           ELSE CHOOSE s \in Scripts : TRUE,
                                change |-> TRUE]]
    /\ wallet = 1
    /\ funded = {s \in Scripts : Owner[s] = 1}
    /\ rows = NoRows
    /\ optimistic = {}
    /\ snapshot = [ready |-> FALSE, keys |-> {}]
    /\ call = [c \in Callers |-> Idle]
    /\ reported = {}
    /\ faults = 0
    /\ remains = {}

(***************************************************************************)
(* The network and its servers.                                            *)
(***************************************************************************)
Known == {t \in Txs : ledger[t].row # "none"}
IsSpent(t) == \E p \in Known : t \in ledger[p].spends

\* The row that a server which is up to date has for an output.
LedgerRow(t) == IF IsSpent(t) \/ ~ledger[t].change THEN "none" ELSE ledger[t].row

\* The rows that a server may answer: one that lags has seen less.
ServerRows(t) ==
    {LedgerRow(t)} \cup
    IF "stale" \in Faults /\ faults < MaxFaults /\ t \in Known /\ ledger[t].change
    THEN {"none", "pending", ledger[t].row} ELSE {}

\* Somebody pays the wallet, and a block takes a transaction.
Receive == /\ \E t \in Coins \ Known : ledger' = [ledger EXCEPT ![t].row = "pending"]
           /\ UNCHANGED <<wallet, funded, store, call, reported, faults, remains>>
Mine == /\ \E t \in Known : /\ ledger[t].row = "pending"
                            /\ \A u \in ledger[t].spends : ledger[u].row = "confirmed"
                            /\ ledger' = [ledger EXCEPT ![t].row = "confirmed"]
        /\ UNCHANGED <<wallet, funded, store, call, reported, faults, remains>>

\* The scan of GapScan finds the scripts of the wallet that have been used.
Discover ==
    LET used == {ledger[t].script : t \in {u \in Known : ledger[u].change}}
    IN  /\ funded' = funded \cup {s \in used : Owner[s] = wallet}
        /\ UNCHANGED <<ledger, wallet, store, call, reported, faults, remains>>

(***************************************************************************)
(* Moving a call on.                                                       *)
(***************************************************************************)
At(c, pc) == call[c].pc = pc
Goto(c, pc) == call' = [call EXCEPT ![c].pc = pc]
Done(c) == call' = [call EXCEPT ![c] = Idle]
Rest == UNCHANGED <<ledger, wallet, faults, remains>>
Importing == \E d \in Callers : call[d].op = "import"
Alone(c) == \A d \in Callers \ {c} : call[d] = Idle
Fault(f) == f \in Faults /\ faults < MaxFaults /\ faults' = faults + 1

\* The start of refresh_utxos_from_network: with no funded script it asks nothing.
Refreshing(k) == [k EXCEPT !.pc = IF funded = {} THEN "register" ELSE "ask",
                           !.todo = funded, !.view = NoRows]

(***************************************************************************)
(* The calls begin.                                                        *)
(***************************************************************************)
Begin(c, op) == [Idle EXCEPT !.op = op, !.who = wallet]

BesideImport ==
    /\ remains' = IF Importing THEN remains \cup {"calls"} ELSE remains
    /\ UNCHANGED <<ledger, wallet, faults>>

StartRefresh(c) == /\ At(c, "idle")
                   /\ call' = [call EXCEPT ![c] = Refreshing(Begin(c, "refresh"))]
                   /\ UNCHANGED <<funded, store, reported>> /\ BesideImport

StartSend(c) == /\ At(c, "idle")
                /\ Payments \ Known # {}
                /\ call' = [call EXCEPT ![c] = Refreshing(Begin(c, "send"))]
                /\ UNCHANGED <<funded, store, reported>> /\ BesideImport

\* The balance reads the rows, then three times from the stored keys.
StartBalance(c) == /\ At(c, "idle")
                   /\ call' = [call EXCEPT ![c] = [Begin(c, "balance") EXCEPT
                                  !.pc = "trusted", !.view = rows]]
                   /\ UNCHANGED <<funded, store, reported>> /\ BesideImport

\* import_wallet saves a record with no funded script, and clears the cache after.
StartImport(c) == /\ At(c, "idle")
                  /\ wallet < MaxWallet
                  /\ wallet' = wallet + 1
                  /\ funded' = {}
                  /\ call' = [call EXCEPT ![c] = [Begin(c, "import") EXCEPT !.pc = "clear"]]
                  /\ remains' = IF Alone(c) THEN remains \ {"calls"} ELSE remains \cup {"calls"}
                  /\ UNCHANGED <<ledger, store, reported, faults>>

(***************************************************************************)
(* The refresh: one question for each script, the keys, the rows.          *)
(***************************************************************************)
Ask(c, s) ==
    /\ At(c, "ask")
    /\ s \in call[c].todo
    /\ LET mine == {t \in Txs : ledger[t].script = s}
       IN  \E answer \in [mine -> Row] :
              /\ \A t \in mine : answer[t] \in ServerRows(t)
              /\ faults' = faults + IF \A t \in mine : answer[t] = LedgerRow(t)
                                    THEN 0 ELSE 1
              /\ call' = [call EXCEPT
                    ![c].view = [t \in Txs |-> IF t \in mine THEN answer[t] ELSE @[t]],
                    ![c].todo = @ \ {s},
                    ![c].pc = IF call[c].todo = {s} THEN "keys" ELSE "ask"]
    /\ UNCHANGED <<ledger, wallet, funded, store, reported, remains>>

\* Mutant of StoreKeys: only confirmed outputs become known.
StoreConfirmedKeys(c) ==
    /\ At(c, "keys")
    /\ snapshot' = [ready |-> TRUE, keys |-> {t \in Txs : call[c].view[t] = "confirmed"}]
    /\ Goto(c, "existing")
    /\ UNCHANGED <<funded, rows, optimistic, reported>> /\ Rest

StoreKeys(c) ==
    /\ At(c, "keys")
    /\ snapshot' = [ready |-> TRUE, keys |-> {t \in Txs : call[c].view[t] # "none"}]
    /\ Goto(c, "existing")
    /\ UNCHANGED <<funded, rows, optimistic, reported>> /\ Rest

\* replace_utxos: it reads the rows, and a transaction writes what differs.
ReadExisting(c) == /\ At(c, "existing")
                   /\ call' = [call EXCEPT ![c].read = rows, ![c].pc = "commit"]
                   /\ UNCHANGED <<funded, store, reported>> /\ Rest

\* Mutant of Replaced: rows that the answer does not have are never deleted.
NeverDeleted(old, new) ==
    [t \in Txs |-> IF new[t] \in {old[t], "none"} THEN rows[t] ELSE new[t]]

Replaced(old, new) ==
    [t \in Txs |-> IF new[t] = old[t] THEN rows[t] ELSE new[t]]

AfterCommit(k) == IF k.pay = "none" THEN "register" ELSE "list"
StillReported(k) == IF k.pay = "none" THEN {} ELSE reported

Commit(c) == /\ At(c, "commit")
             /\ rows' = Replaced(call[c].read, call[c].view)
             /\ call' = [call EXCEPT ![c].pc = AfterCommit(call[c]), ![c].read = NoRows,
                                     ![c].view = IF call[c].pay = "none" THEN @ ELSE NoRows]
             /\ reported' = StillReported(call[c])
             /\ remains' = IF Alone(c) /\ call[c].pay = "none" /\ call[c].read = rows
                           THEN remains \ {"rows"} ELSE remains
             /\ UNCHANGED <<ledger, wallet, funded, optimistic, snapshot, faults>>

\* The scripts of the answer are registered, and the call that refreshed goes on.
Register(c) ==
    /\ At(c, "register")
    /\ funded' = funded \cup {ledger[t].script : t \in {u \in Txs : call[c].view[u] # "none"}}
    /\ CASE call[c].op = "refresh" -> Done(c)
         [] call[c].op = "send" /\ call[c].attempt = 1 ->
              call' = [call EXCEPT ![c] = Refreshing([@ EXCEPT !.attempt = 2, !.who = wallet])]
         [] OTHER -> call' = [call EXCEPT ![c].pc = "plan", ![c].view = NoRows]
    /\ UNCHANGED <<store, reported>> /\ Rest

(***************************************************************************)
(* The payment: it spends confirmed rows, and changes the cache after the  *)
(* network has taken it.                                                   *)
(***************************************************************************)
Spendable == {t \in Txs : rows[t] = "confirmed"}

Plan(c) == /\ At(c, "plan")
           /\ \E S \in (SUBSET Spendable) \ {{}} :
                 call' = [call EXCEPT ![c].spent = S, ![c].pc = "broadcast"]
           /\ UNCHANGED <<funded, store, reported>> /\ Rest

\* Only the owner of the coins can sign, and only unspent ones are taken.
Signs(c) == \A t \in call[c].spent : Owner[ledger[t].script] = call[c].who
Accepts(c) == \A t \in call[c].spent : t \in Known /\ ~IsSpent(t)
Sent(p, c, change, s) ==
    [ledger EXCEPT ![p] = [row |-> "pending", spends |-> call[c].spent,
                           script |-> s, change |-> change]]

Broadcast(c) ==
    /\ At(c, "broadcast")
    /\ Signs(c) /\ Accepts(c)
    /\ \E p \in Payments \ Known, change \in BOOLEAN,
          s \in {x \in Scripts : Owner[x] = call[c].who} :
          /\ ledger' = Sent(p, c, change, s)
          /\ call' = [call EXCEPT ![c].pc = "remove", ![c].pay = p,
                                  ![c].todo = call[c].spent, ![c].paid = @ + 1]
    /\ UNCHANGED <<wallet, funded, store, reported, faults, remains>>

\* Mutant of Failed: every first failure of a payment is repeated.
AlwaysRepeated(k, lookup) ==
    IF k.op = "send" /\ k.attempt = 0
    THEN Refreshing([k EXCEPT !.attempt = 1]) ELSE Idle

\* An error ends the call; one that reads as a failed lookup of a transaction is
\* answered once by another server, a refresh, and the payment from its start.
Failed(k, lookup) ==
    IF lookup /\ k.op = "send" /\ k.attempt = 0
    THEN Refreshing([k EXCEPT !.attempt = 1]) ELSE Idle

\* Taken, and the answer lost: also when the client asks another server again,
\* which then refuses what it has.
BroadcastLost(c) ==
    /\ At(c, "broadcast")
    /\ Signs(c) /\ Accepts(c)
    /\ Fault("lost")
    /\ \E p \in Payments \ Known, change \in BOOLEAN,
          s \in {x \in Scripts : Owner[x] = call[c].who} :
          ledger' = Sent(p, c, change, s)
    /\ call' = [call EXCEPT ![c] = Failed([@ EXCEPT !.paid = call[c].paid + 1], FALSE)]
    /\ UNCHANGED <<wallet, funded, store, reported, remains>>

\* Nothing to spend, not enough, a signature that cannot be made, a coin spent.
NotSent(c) ==
    /\ \/ At(c, "plan")
       \/ At(c, "broadcast") /\ ~(Signs(c) /\ Accepts(c) /\ Payments \ Known # {})
    /\ \E lookup \in BOOLEAN :
          /\ lookup => At(c, "broadcast")
          /\ call' = [call EXCEPT ![c] = Failed(@, lookup)]
    /\ UNCHANGED <<funded, store, reported>> /\ Rest

CallFails(c) ==
    /\ \/ At(c, "ask")
       \/ At(c, "broadcast")
    /\ Fault("fail")
    /\ \E lookup \in BOOLEAN : call' = [call EXCEPT ![c] = Failed(@, lookup)]
    /\ UNCHANGED <<ledger, wallet, funded, store, reported, remains>>

RemoveSpent(c) ==
    /\ At(c, "remove")
    /\ \E t \in call[c].todo :
          /\ rows' = [rows EXCEPT ![t] = "none"]
          /\ call' = [call EXCEPT ![c].todo = @ \ {t},
                ![c].pc = IF call[c].todo # {t} THEN "remove"
                          ELSE IF ledger[call[c].pay].change THEN "upsert" ELSE "fund"]
    /\ UNCHANGED <<funded, optimistic, snapshot, reported>> /\ Rest

\* upsert_utxo lists the rows and replaces them all, with the change among them.
ListForUpsert(c) ==
    /\ At(c, "upsert")
    /\ call' = [call EXCEPT ![c].view = [rows EXCEPT ![call[c].pay] = "pending"],
                            ![c].pc = "existing"]
    /\ UNCHANGED <<funded, store, reported>> /\ Rest

\* register_optimistic_utxo reads the keys and writes them with one more.
ListOptimistic(c) ==
    /\ At(c, "list")
    /\ call' = [call EXCEPT ![c].keys = optimistic, ![c].pc = "append"]
    /\ UNCHANGED <<funded, store, reported>> /\ Rest
\* Mutant of AppendOptimistic: the coins that were spent are put into the list.
AppendSpent(c) ==
    /\ At(c, "append")
    /\ optimistic' = call[c].keys \cup call[c].spent
    /\ call' = [call EXCEPT ![c].keys = {}, ![c].pc = "fund"]
    /\ UNCHANGED <<funded, rows, snapshot, reported>> /\ Rest

AppendOptimistic(c) ==
    /\ At(c, "append")
    /\ optimistic' = call[c].keys \cup {call[c].pay}
    /\ call' = [call EXCEPT ![c].keys = {}, ![c].pc = "fund"]
    /\ UNCHANGED <<funded, rows, snapshot, reported>> /\ Rest

\* The scripts are registered, and send_to_address returns.
RegisterSent(c) ==
    /\ At(c, "fund")
    /\ funded' = funded \cup {ledger[t].script : t \in call[c].spent}
                        \cup {ledger[p].script : p \in {call[c].pay} \cap
                                                       {q \in Payments : ledger[q].change}}
    /\ reported' = reported \cup {call[c].pay}
    /\ Done(c)
    /\ UNCHANGED store /\ Rest

(***************************************************************************)
(* The balance: a pending row that neither list knows is removed.          *)
(***************************************************************************)
ReadOptimistic(c) ==
    /\ At(c, "trusted")
    /\ call' = [call EXCEPT ![c].keys = optimistic, ![c].pc = "known"]
    /\ UNCHANGED <<funded, store, reported>> /\ Rest
\* Mutant of ReadKnown: the keys of the snapshot replace the optimistic ones.
ReadKnownOnly(c) ==
    /\ At(c, "known")
    /\ call' = [call EXCEPT ![c].keys = snapshot.keys, ![c].pc = "ready"]
    /\ UNCHANGED <<funded, store, reported>> /\ Rest

ReadKnown(c) ==
    /\ At(c, "known")
    /\ call' = [call EXCEPT ![c].keys = @ \cup snapshot.keys, ![c].pc = "ready"]
    /\ UNCHANGED <<funded, store, reported>> /\ Rest

Untrusted(k) == {t \in Txs : k.view[t] = "pending" /\ t \notin k.keys}
ReadReady(c) ==
    /\ At(c, "ready")
    /\ call' = [call EXCEPT ![c] =
          IF snapshot.ready /\ Untrusted(call[c]) # {}
          THEN [@ EXCEPT !.todo = Untrusted(call[c]), !.pc = "prune"] ELSE Idle]
    /\ UNCHANGED <<funded, store, reported>> /\ Rest
Prune(c) ==
    /\ At(c, "prune")
    /\ \E t \in call[c].todo :
          /\ rows' = [rows EXCEPT ![t] = "none"]
          /\ call' = [call EXCEPT ![c] = IF call[c].todo = {t} THEN Idle
                                         ELSE [@ EXCEPT !.todo = call[c].todo \ {t}]]
    /\ UNCHANGED <<funded, optimistic, snapshot, reported>> /\ Rest

\* Mutant of Clear: the stored keys go and the rows stay.
ClearKeys(c) == /\ At(c, "clear")
                /\ optimistic' = {}
                /\ snapshot' = [ready |-> FALSE, keys |-> {}]
                /\ reported' = {}
                /\ Done(c)
                /\ remains' = remains \ {"rows"}
                /\ UNCHANGED <<ledger, wallet, funded, rows, faults>>

\* clear_coin removes the database of the coin.
Clear(c) == /\ At(c, "clear")
            /\ rows' = NoRows
            /\ optimistic' = {}
            /\ snapshot' = [ready |-> FALSE, keys |-> {}]
            /\ reported' = {}
            /\ remains' = remains \ {"rows"}
            /\ Done(c)
            /\ UNCHANGED <<ledger, wallet, funded, faults>>

\* The process ends; the record, the database and the network keep what they have.
Crash == /\ \E c \in Callers : call[c].op \in CrashIn
         /\ \A c \in Callers : call[c].op \in CrashIn \cup {"none"}
         /\ Fault("crash")
         /\ call' = [c \in Callers |-> Idle]
         /\ remains' = IF Importing THEN remains \cup {"rows"} ELSE remains
         /\ UNCHANGED <<ledger, wallet, funded, store, reported>>

World == Receive \/ Mine \/ Crash
Start(c) == StartSend(c) \/ StartBalance(c) \/ StartImport(c)
Step(c) == \/ \E s \in Scripts : Ask(c, s)
           \/ StoreKeys(c) \/ ReadExisting(c) \/ Commit(c) \/ Register(c)
           \/ Plan(c) \/ Broadcast(c) \/ BroadcastLost(c) \/ NotSent(c) \/ CallFails(c)
           \/ RemoveSpent(c) \/ ListForUpsert(c)
           \/ ListOptimistic(c) \/ AppendOptimistic(c) \/ RegisterSent(c)
           \/ ReadOptimistic(c) \/ ReadKnown(c) \/ ReadReady(c) \/ Prune(c) \/ Clear(c)

Next == World \/ Discover \/ \E c \in Callers : StartRefresh(c) \/ Start(c) \/ Step(c)

\* Calls that have begun go on (no server is silent while they connect: ElectrumClient), the
\* scan finds what there is, and the application refreshes again and again.
Spec == /\ Init /\ [][Next]_vars
        /\ WF_vars(Discover)
        /\ \A c \in Callers : WF_vars(Step(c)) /\ SF_vars(StartRefresh(c))

(***************************************************************************)
(* Properties.                                                             *)
(***************************************************************************)

\* A row for the change of a payment and a row for a coin that it spent are never
\* there together: the balance adds up all rows (wallet_cache.rs:35), and would
\* count the same money twice.
NeverCountedTwice ==
    \A p \in Payments : rows[p] # "none" => \A t \in ledger[p].spends : rows[t] = "none"

\* Between imports no row is of a wallet that was replaced: refuted, by an import that is cut
\* short and by a call beside one (UtxoCache_import.cfg).
NoForeignRows ==
    ~Importing => \A t \in Txs : rows[t] # "none" => Owner[ledger[t].script] = wallet

\* And otherwise, whatever calls overlap, none is: only a call beside an import, or an import
\* that ended between the record and the clearing of the cache (session.rs:103, 106), leaves
\* such rows, the latter up to the next refresh that is alone when it replaces the rows.
OnlyOwnRows == remains = {} => NoForeignRows

\* Once send_to_address has returned, and until a snapshot replaces the rows, the
\* coins it spent are gone and its change is there: pruning never takes it.
ReportedShown ==
    \A p \in reported :
        /\ \A t \in ledger[p].spends : rows[t] = "none"
        /\ ledger[p].change => rows[p] # "none"

\* One call of send_to_address pays at most once, however often it is repeated
\* inside: the network never has two payments of one call.
OnePaymentPerCall == \A c \in Callers : call[c].paid <= 1

\* What the network has for the wallet in the keystore.
Settled == \A t \in Txs :
    rows[t] = IF Owner[ledger[t].script] = wallet THEN LedgerRow(t) ELSE "none"

\* When the network rests and no more goes wrong, refreshes bring the rows to what
\* the network has, and nothing the session does takes them away from it again.
Converges == <>[]Settled
=============================================================================
