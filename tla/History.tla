------------------------------- MODULE History -------------------------------
(***************************************************************************)
(* The transaction history of a light wallet: rows fetched from the        *)
(* explorer page by page for each address, rows of pending transactions    *)
(* made from what an Electrum server lists, rows that a payment appends    *)
(* when it is sent, and the table that holds them, one row per             *)
(* transaction, category and address.                                      *)
(*                                                                         *)
(* Amounts, times and the order of the rows are left out; a height is      *)
(* above 0 (confirmed) or not.  The answers of one server about all funded *)
(* scripts are one step, which may be wrong about any transaction.         *)
(***************************************************************************)
EXTENDS Naturals, Sequences, FiniteSets, SequencesExt

CONSTANTS
    Refreshers,     \* threads that refresh the history
    Senders,        \* threads that send payments
    Txs,            \* transactions that concern the wallet
    Own,            \* its addresses
    Other,          \* addresses of others
    Coinbase,       \* the transactions that are rewards of a block
    Spends,         \* transaction -> the own addresses whose coins it spends
    Pays,           \* transaction -> address -> what it pays there
    ChangeTo,       \* transaction -> the own address of its change, if it has one
    PageSize,       \* PAGE_SIZE, 100
    Limit,          \* entries asked of the Electrum server, 128
    ExpandLimit,    \* pending entries among them that are looked up, 64
    Faults,         \* what may go wrong: see Fault below
    MaxFaults       \* how often something goes wrong

ASSUME HistoryAssumption ==
    /\ IsFiniteSet(Txs) /\ IsFiniteSet(Own)
    /\ Own \cap Other = {}
    /\ Coinbase \subseteq Txs
    /\ Spends \in [Txs -> SUBSET Own]
    /\ Pays \in [Txs -> [Own \cup Other -> Nat]]
    /\ ChangeTo \in [Txs -> SUBSET Own]
    /\ \A t \in Txs : \E a \in Own : a \in Spends[t] \/ Pays[t][a] > 0
    /\ PageSize \in Nat \ {0}
    /\ Limit \in Nat \ {0} /\ ExpandLimit \in Nat \ {0}
    /\ MaxFaults \in Nat

VARIABLES
    depth,          \* transaction -> none, mempool, mined, or mature
    index,          \* the explorer's list of each own address, newest first
    stored,         \* the rows of tx_history
    call,           \* caller -> its call
    faults          \* how often something has gone wrong

vars == <<depth, index, stored, call, faults>>

Callers == Refreshers \cup Senders
Category == {"unconfirmed", "receive", "send", "orphan", "immature", "generate"}
Row == [tx : Txs, category : Category, address : Own \cup Other, confirmed : BOOLEAN]
Key(r) == <<r.tx, r.category, r.address>>
Confirmed(t) == depth[t] \in {"mined", "mature"}

(***************************************************************************)
(* Rows.                                                                   *)
(***************************************************************************)
\* A reward counts its confirmations from the tip; without a tip there are none.
IncomingCategory(t, tip) ==
    CASE ~Confirmed(t) -> "unconfirmed"
      [] Confirmed(t) /\ t \notin Coinbase -> "receive"
      [] Confirmed(t) /\ t \in Coinbase /\ ~tip -> "orphan"
      [] depth[t] = "mined" /\ t \in Coinbase /\ tip -> "immature"
      [] depth[t] = "mature" /\ t \in Coinbase /\ tip -> "generate"

\* The explorer's row of a transaction for one address: by the sign of what the
\* address gains.  An address that is spent from loses.
ExplorerRow(t, a, tip) ==
    [tx |-> t, address |-> a, confirmed |-> Confirmed(t),
     category |-> IF a \in Spends[t] THEN "send" ELSE IncomingCategory(t, tip)]

\* The rows of a decoded pending transaction.  The largest output among the
\* wallet's is taken for the change, which gets no row as sent.
Largest(t, own) == CHOOSE a \in own : \A b \in own : Pays[t][b] <= Pays[t][a]
PendingRow(t, category, a) ==
    [tx |-> t, category |-> category, address |-> a, confirmed |-> FALSE]
RowsFromOutputs(t, isSpend, own, other) ==
    {PendingRow(t, "unconfirmed", a) : a \in own} \cup
    IF isSpend
    THEN {PendingRow(t, "send", a) : a \in {b \in own : b # Largest(t, own)} \cup other}
    ELSE {}
Paid(t) == {a \in Own \cup Other : Pays[t][a] > 0}

\* As expanded after a server listed it: all funded scripts are the wallet's, and
\* it spends if a parent that could be fetched has a script of the wallet.
ExpandedRows(t, parents) ==
    RowsFromOutputs(t, Spends[t] # {} /\ parents, Paid(t) \cap Own, Paid(t) \cap Other)

\* As appended when sent: the wallet's are the addresses spent from and the change.
LocalRows(t) ==
    LET own == Paid(t) \cap (Spends[t] \cup ChangeTo[t])
    IN  RowsFromOutputs(t, TRUE, own, Paid(t) \ own)

\* merge_tx_history: a row replaces the one of its key, unless that is confirmed
\* and it is not.
NeverBeaten(r, base) == FALSE     \* A mutant: pending rows win as well.
Beaten(r, base) == \E b \in base : Key(b) = Key(r) /\ b.confirmed /\ ~r.confirmed
MergeAppends(base, new) ==        \* A mutant: rows are appended without a look at keys.
    base \cup new
Merge(base, new) ==
    LET wins == {r \in new : ~Beaten(r, base)}
    IN  {b \in base : \A r \in wins : Key(r) # Key(b)} \cup wins

(***************************************************************************)
(* State.                                                                  *)
(***************************************************************************)
Idle == [pc |-> "idle", tip |-> TRUE, todo |-> {}, address |-> "none", offset |-> 0,
         total |-> 0, must |-> {}, missed |-> {}, grew |-> FALSE, got |-> {},
         rows |-> {}, base |-> {}, ran |-> "alone"]

TypeOK ==
    /\ depth \in [Txs -> {"none", "mempool", "mined", "mature"}]
    /\ index \in [Own -> Seq(Txs)]
    /\ \A a \in Own : IsInjective(index[a])
    /\ stored \subseteq Row
    /\ \A r, s \in stored : Key(r) = Key(s) => r = s
    /\ call \in [Callers ->
          [pc : {"idle", "pages", "more", "electrum", "append", "store"},
           tip : BOOLEAN, todo : SUBSET Own, address : Own \cup {"none"},
           offset : 0 .. Cardinality(Txs), total : 0 .. Cardinality(Txs),
           must : SUBSET Txs, missed : SUBSET Txs, grew : BOOLEAN,
           got : SUBSET Row, rows : SUBSET Row, base : SUBSET Row, ran : {"quiet", "alone", "partly", "mixed"}]]
    /\ faults \in 0 .. MaxFaults

Init == /\ depth = [t \in Txs |-> "none"]
        /\ index = [a \in Own |-> <<>>]
        /\ stored = {}
        /\ call = [c \in Callers |-> Idle]
        /\ faults = 0

Fault(f) == f \in Faults /\ faults < MaxFaults /\ faults' = faults + 1
Partly(k) == [k EXCEPT !.ran = IF @ = "mixed" THEN @ ELSE "partly"]
Disturbed(k) == [k EXCEPT !.ran = IF @ = "quiet" THEN "alone" ELSE @]
At(c, pc) == call[c].pc = pc
Concerns(t, a) == a \in Spends[t] \cup Paid(t)
Listed(t) == \E a \in Own : t \in ToSet(index[a])
Enter(t) == index' = [a \in Own |-> IF Concerns(t, a) THEN <<t>> \o index[a] ELSE index[a]]

(***************************************************************************)
(* The network and the explorer's index.  A transaction enters the lists   *)
(* of its addresses when it is first seen, or with its block.              *)
(***************************************************************************)
Accept == /\ \E t \in Txs \ Coinbase :
                /\ depth[t] = "none" /\ Spends[t] = {}
                /\ depth' = [depth EXCEPT ![t] = "mempool"]
                /\ index' = index \/ Enter(t)
          /\ call' = [c \in Callers |-> Disturbed(call[c])]
          /\ UNCHANGED <<stored, faults>>
Mine == /\ \E t \in Txs :
              /\ depth[t] = IF t \in Coinbase THEN "none" ELSE "mempool"
              /\ depth' = [depth EXCEPT ![t] = "mined"]
              /\ IF Listed(t) THEN index' = index ELSE Enter(t)
        /\ call' = [c \in Callers |-> Disturbed(call[c])]
        /\ UNCHANGED <<stored, faults>>
Mature == /\ \E t \in Coinbase : /\ depth[t] = "mined"
                                 /\ depth' = [depth EXCEPT ![t] = "mature"]
          /\ call' = [c \in Callers |-> Disturbed(call[c])]
          /\ UNCHANGED <<index, stored, faults>>

(***************************************************************************)
(* A refresh: the explorer's pages for each address.  A locked wallet      *)
(* knows no address, and asks for none.                                    *)
(***************************************************************************)
\* How a call ran: alone, if no other was under way at its start and none has begun
\* since; partly, if moreover the pages of an address failed or, as its list grew,
\* missed a transaction, or the table could not be read; quiet, if alone while nothing went wrong and the network
\* stood still.
Begun(c, k, ran) == [d \in Callers |->
    IF d # c THEN [call[d] EXCEPT !.ran = "mixed"]
    ELSE IF \A e \in Callers \ {c} : At(e, "idle") THEN [k EXCEPT !.ran = ran]
    ELSE [k EXCEPT !.ran = "mixed"]]

StartRefresh(c) ==
    /\ At(c, "idle")
    /\ call' = Begun(c, [Idle EXCEPT !.pc = "pages", !.todo = Own], "quiet")
    /\ UNCHANGED <<depth, index, stored, faults>>
StartPoorly(c) ==
    /\ At(c, "idle")
    /\ \/ Fault("locked") /\ call' = Begun(c, [Idle EXCEPT !.pc = "pages"], "alone")
       \/ Fault("notip") /\ call' = Begun(c, [Idle EXCEPT !.pc = "pages", !.todo = Own,
                                                          !.tip = FALSE], "alone")
    /\ UNCHANGED <<depth, index, stored>>

\* A mutant: pages are taken to be numbered from 1.
PageFromOne(a, offset) == SubSeq(index[a], offset + 2,
                                 Min({offset + 1 + PageSize, Len(index[a])}))
Page(a, offset) == SubSeq(index[a], offset + 1, Min({offset + PageSize, Len(index[a])}))

\* The first row of each key is kept.
NewRows(k, a, page) ==
    k.got \cup {r \in {ExplorerRow(t, a, k.tip) : t \in ToSet(page)} :
                   \A g \in k.got : Key(g) # Key(r)}
Finished(k) ==
    LET missed == k.must \ {g.tx : g \in k.got}
    IN  [k EXCEPT !.pc = "pages", !.address = "none", !.offset = 0, !.total = 0, !.must = {},
                  !.missed = missed,
                  !.grew = Len(index[k.address]) > k.total,
                  !.ran = IF @ = "alone" /\ missed # {} THEN "partly" ELSE @,
                  !.rows = @ \cup k.got, !.got = {}]

FirstPage(c, a) ==
    /\ At(c, "pages")
    /\ a \in call[c].todo
    /\ LET page == Page(a, 0)
           k == [call[c] EXCEPT !.pc = "more", !.todo = @ \ {a}, !.address = a,
                    !.offset = Len(page), !.total = Len(index[a]),
                    !.must = ToSet(index[a]), !.missed = {}, !.grew = FALSE, !.got = NewRows(call[c], a, page)]
       IN  call' = [call EXCEPT ![c] = IF k.offset < k.total THEN k ELSE Finished(k)]
    /\ UNCHANGED <<depth, index, stored, faults>>

\* The next page begins after what has been fetched, though the list may have grown
\* at its front.
NextPage(c) ==
    /\ At(c, "more")
    /\ LET a == call[c].address
           page == Page(a, call[c].offset)
           k == [call[c] EXCEPT !.offset = @ + Len(page),
                                !.got = NewRows(call[c], a, page)]
           last == \/ Len(page) < PageSize
                   \/ k.offset >= Len(index[a])
                   \/ k.offset >= k.total
       IN  call' = [call EXCEPT ![c] = IF last THEN Finished(k) ELSE k]
    /\ UNCHANGED <<depth, index, stored, faults>>

\* An address whose page fails is passed over, with the pages it had.
AddressFails(c) ==
    /\ At(c, "pages") \/ At(c, "more")
    /\ Fault("address")
    /\ \E a \in IF At(c, "more") THEN {call[c].address} ELSE call[c].todo :
          LET k == Partly(call[c])
          IN  call' = [call EXCEPT ![c] = Finished([k EXCEPT !.todo = @ \ {a}, !.address = a,
                                                             !.got = {}, !.must = {}])]
    /\ UNCHANGED <<depth, index, stored>>

\* Rows that were fetched are the base of the merge; with none, the stored rows are.
FetchedOnStored(c) ==             \* A mutant: rows are merged into the stored ones.
    /\ At(c, "pages")
    /\ call[c].todo = {}
    /\ call' = [call EXCEPT ![c].pc = "electrum", ![c].base = Merge(stored, call[c].rows),
                            ![c].rows = {}, ![c].missed = {}, ![c].grew = FALSE]
    /\ UNCHANGED <<depth, index, stored, faults>>
Fetched(c) ==
    /\ At(c, "pages")
    /\ call[c].todo = {}
    /\ call' = [call EXCEPT ![c].pc = "electrum",
                            ![c].base = IF call[c].rows # {} THEN call[c].rows ELSE stored,
                            ![c].rows = {}, ![c].missed = {}, ![c].grew = FALSE]
    /\ UNCHANGED <<depth, index, stored, faults>>

\* A table that cannot be read is taken for an empty one: when no row was fetched, and
\* when a payment appends its rows.
LoadFails(c) ==
    /\ Fault("load")
    /\ \/ /\ At(c, "pages") /\ call[c].todo = {} /\ call[c].rows = {}
          /\ call' = [call EXCEPT ![c] = [Partly(@) EXCEPT !.pc = "electrum", !.base = {},
                                                           !.missed = {}, !.grew = FALSE]]
       \/ /\ At(c, "append")
          /\ call' = [call EXCEPT ![c] = [Partly(@) EXCEPT !.pc = "store"]]
    /\ UNCHANGED <<depth, index, stored>>

(***************************************************************************)
(* Pending transactions.  The lists of all scripts are put together and    *)
(* sorted by falling height, so that pending entries are the first to go   *)
(* when the list is cut; of those left, only so many are looked up.        *)
(***************************************************************************)
Pending == {t \in Txs : depth[t] = "mempool"}
Mined == {t \in Txs : Confirmed(t)}

\* A transaction is listed once for each script it concerns; two of its entries become one
\* where they are neighbours, as they are unless others of its height stand between.
Listings(T) == Cardinality({l \in T \X Own : Concerns(l[1], l[2])})
MostEntries(T) == IF Cardinality(T) < 2 THEN Cardinality(T) ELSE Listings(T)
Entries(T) == Cardinality(T) .. MostEntries(T)

\* The transactions that may be left of a list when it is cut at so many entries.
Cut(T, room) == {S \in SUBSET T : IF S = T THEN Cardinality(S) <= room ELSE room \in Entries(S)}
Rooms(mined) == {IF n < Limit THEN Limit - n ELSE 0 : n \in Entries(mined)}
Answers(pending, mined) ==
    UNION {Cut(listed, ExpandLimit) : listed \in UNION {Cut(pending, n) : n \in Rooms(mined)}}

ExpandAll(S, orphans) == UNION {ExpandedRows(t, t \notin orphans) : t \in S}

\* The answer, the raw transactions of each entry and of its parents, the merge.
ReadPending(c) ==
    /\ At(c, "electrum")
    /\ \E S \in Answers(Pending, Mined) :
          call' = [call EXCEPT ![c].pc = "store",
                               ![c].rows = Merge(call[c].base, ExpandAll(S, {}))]
    /\ UNCHANGED <<depth, index, stored, faults>>

\* A server that has not seen the last block or the last transaction yet, and
\* lookups that fail: an entry without its transaction is left out, which makes room for
\* another; one without its parents is taken for a receipt.
ReadPendingPoorly(c) ==
    /\ At(c, "electrum")
    /\ \/ /\ Fault("stale")
          /\ \E P \in SUBSET {t \in Txs \ Coinbase : depth[t] # "none"} :
             \E S \in Answers(P, Mined \ P) :
                call' = [call EXCEPT ![c] = [Disturbed(@) EXCEPT !.pc = "store",
                                     !.rows = Merge(call[c].base, ExpandAll(S, {}))]]
       \/ /\ Fault("lookup")
          /\ \E t \in Pending : \E skipped \in SUBSET {t}, n \in Rooms(Mined) :
             \E listed \in Cut(Pending, n) : \E S \in Cut(listed \ skipped, ExpandLimit) :
                call' = [call EXCEPT ![c] = [Disturbed(@) EXCEPT !.pc = "store",
                             !.rows = Merge(call[c].base, ExpandAll(S, {t}))]]
    /\ UNCHANGED <<depth, index, stored>>

\* Without an answer nothing is replaced.
ElectrumFails(c) == /\ At(c, "electrum")
                    /\ Fault("electrum")
                    /\ call' = [call EXCEPT ![c] = Idle]
                    /\ UNCHANGED <<depth, index, stored>>

\* replace_history deletes all rows and inserts these, in one transaction.
Store(c) == /\ At(c, "store")
            /\ stored' = call[c].rows
            /\ call' = [call EXCEPT ![c] = Idle]
            /\ UNCHANGED <<depth, index, faults>>

(***************************************************************************)
(* A payment appends its rows: it loads the table, merges and replaces it. *)
(***************************************************************************)
Send(c) ==
    /\ At(c, "idle")
    /\ \E t \in Txs \ Coinbase :
          /\ depth[t] = "none" /\ Spends[t] # {}
          /\ depth' = [depth EXCEPT ![t] = "mempool"]
          /\ index' = index \/ Enter(t)
          /\ call' = Begun(c, [Idle EXCEPT !.pc = "append", !.rows = LocalRows(t)], "alone")
    /\ UNCHANGED <<stored, faults>>
AppendLocal(c) ==
    /\ At(c, "append")
    /\ call' = [call EXCEPT ![c].pc = "store", ![c].rows = Merge(stored, @)]
    /\ UNCHANGED <<depth, index, stored, faults>>

World == Accept \/ Mine \/ Mature
Step(c) == \/ \E a \in Own : FirstPage(c, a)
           \/ NextPage(c) \/ AddressFails(c) \/ Fetched(c) \/ LoadFails(c)
           \/ ReadPending(c) \/ ReadPendingPoorly(c) \/ ElectrumFails(c)
           \/ AppendLocal(c) \/ Store(c)
Next == \/ World
        \/ \E c \in Refreshers : StartRefresh(c) \/ StartPoorly(c)
        \/ \E c \in Senders : Send(c)
        \/ \E c \in Callers : Step(c)

Spec == Init /\ [][Next]_vars

(***************************************************************************)
(* Properties.                                                             *)
(***************************************************************************)

\* The pages of an address hold all that was in its list when the first page was
\* (explorer_history.rs:171).
PagesMissNothing == \A c \in Callers : call[c].missed = {}

\* The same of lists that do not grow while they are fetched: pages are neither
\* skipped nor stopped early, whatever the length of the list and of a page.
StillPagesMissNothing == \A c \in Callers : call[c].missed = {} \/ call[c].grew

\* A call that runs alone and has all of every address's list never turns a confirmed
\* row back into a pending one, whatever a server says of its transaction (history.rs:23).
Demotes == \E r \in stored, n \in stored' :
              Key(n) = Key(r) /\ r.confirmed /\ ~n.confirmed
ConfirmedNeverDemoted ==
    [][\A c \in Callers : Store(c) /\ call[c].ran \in {"quiet", "alone"} => ~Demotes]_vars

\* The same of every call that runs alone (explorer_history.rs:237).
PartlyNeverDemoted ==
    [][\A c \in Callers : Store(c) /\ call[c].ran # "mixed" => ~Demotes]_vars

\* A confirmed row and a pending one of one transaction and address are never in the
\* table together (history.rs:59).
NoTwins == \A r, s \in stored :
              r.tx = s.tx /\ r.address = s.address /\ r.confirmed => s.confirmed

\* What a refresh shows when all its sources are right.
Fresh == UNION {{ExplorerRow(t, a, TRUE) : t \in ToSet(index[a])} : a \in Own}
UpToDate(S) == LET pending == ExpandAll(S, {})
               IN  IF Fresh # {} THEN stored = Merge(Fresh, pending) ELSE pending \subseteq stored

\* A list that is cut nowhere, however the wallet's transactions share blocks and scripts.
Uncut == /\ MostEntries(Mined) + MostEntries(Pending) <= Limit
         /\ MostEntries(Pending) <= ExpandLimit

\* Whatever the table held, a refresh that ran quietly leaves exactly the explorer's rows
\* and those of pending transactions: of all of them, unless the list is cut.
QuietRefreshIsExact ==
    [][\A c \in Callers : Store(c) /\ call[c].ran = "quiet" =>
          \E S \in SUBSET Pending : (Uncut => S = Pending) /\ UpToDate(S)']_vars

\* The same of lists of every length (sync_engine.rs:494): refuted, by a wallet with more
\* entries than are asked for or looked up (History_limit.cfg).
QuietRefreshIsComplete ==
    [][\A c \in Callers : Store(c) /\ call[c].ran = "quiet" => UpToDate(Pending)']_vars

=============================================================================
