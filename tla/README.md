# Verification of the vericonomy light wallet

TLA+ models of the vericonomy SDK (a Rust workspace: a light wallet for Verium and Vericoin
that knows the chain through Electrum servers), the TLC runs that check them and the TLAPS
proofs about them.  Every definition is mapped to the lines it models in `PROJECT.json`
("map"); "hazards" there lists what is hard to test in this code, with the properties that
watch it, and "findings" the places where a run contradicts what the repository says.

1. [The system](#1-the-system)
2. [Modules](#2-modules)
3. [Runs](#3-runs)
4. [Fairness](#4-fairness)
5. [Proofs](#5-proofs)
6. [Findings](#6-findings)
7. [Not modelled](#7-not-modelled)
8. [Plan](#8-plan)

## 1. The system

A shell (iOS, over `vericonomy-ffi`; a command line) holds a handle and calls it from any of
its threads: every call is a `block_on` on a shared multi-thread runtime, so calls run side
by side.  Below the handle:

```
 shell threads -> LightWalletSession (wallet-facade/session.rs)
                    |        |               |              |
                    |   LightSyncEngine   send_payment   set_electrum_servers
                    |    (sync_engine,     (send, utxo_prep, verify,
                    |     gap_scan)         wallet-engine: selector, signer)
                    |        |      \          |      |
           LightKeystoreService   UtxoCache/TxCache   ElectrumLightClient (chain/electrum)
             (storage)              (SQLite)             |   RwLock, one connection,
              file, rewritten                            |   active server, cooldown, budget
              whole on each save                      Electrum servers
```

| Part | State it keeps | Operations | What is hard | What makes it correct |
|---|---|---|---|---|
| Gap scan and sync (`gap_scan.rs`, `sync_engine.rs`) | cursor and done flag of each chain, list of funded scripts, scan-complete flag, all in the keystore; the set of coins with a sync in flight | `sync`, `refresh_balance`, `list_spendable_utxos`, `rescan` | slices ended by a budget, a timeout that drops the future at an await, crashes between saves, refreshes beside a scan | no coin that the gap rule reaches is skipped; the scan ends; the counter of addresses passes the used ones |
| Payments (`send.rs`, `utxo_prep.rs`, `verify.rs`, `utxo_selector.rs`, `signer.rs`) | none beyond the call | selection, two fee loops, preparation from parent transactions, signing, verification, broadcast | fee and outputs that depend on each other; values that change under a plan; boundaries at dust | what is broadcast pays the recipient and the fee of its own size; refusals are real; the loops end |
| Keystore (`light_keystore.rs`, `storage-file`) | one file with a record per coin and the times until which wallets are unlocked; the phrases of unlocked wallets in memory | create, import, unlock, lock, new address, the stores of a scan and of a payment | load, change, save with no lock; memory changed before a save that may fail, and by an import before it looks at what is imported; the file rewritten in place | a call is atomic unless another saves in between; no address is given twice; the phrase in memory is the record's |
| UTXO cache (`wallet_cache.rs`, `storage-sqlite`) | a table of coins, the keys of the server's last list, times | replace by a server's list, the optimistic change of a payment, balance | a lagging server's list against a payment just made; operations of several statements beside each other; a crash between them | money is never counted twice; what a payment reported is shown; after every disturbance the rows come back to what the network has |
| Electrum client (`electrum/manager.rs`, `throttle.rs`, errors) | active server, connection, count of failures, cooldown, indexing limits | gated, critical and scripthash calls, lookups, status | callers that reconnect at once, servers silent while a call connects, errors told apart by their words, backoff, cooldown | a server that can be reached answers; calls return; refusals quiet the client |
| Electrum connection (`electrum/connection.rs`) | a stream and a request number | `call` | timeouts in the middle of a write or a read; answers to earlier requests | an answer is given to the request it is for; a timeout harms a bounded number of other calls |
| History (`history.rs`, `explorer_history.rs`, `electrum/history.rs`, `history_rows.rs`) | rows of transactions in the cache | pages of the explorer, pending transactions of a server, the rows of a payment, their merge | rows that change category; sources read at different moments; pages of a list that grows; a server's list cut at a number of entries; tables that cannot be read | pages skip nothing; a confirmed row stays confirmed; a quiet refresh leaves exactly what there is |
| Session and server list (`session.rs`) | servers, the client behind an `RwLock` | `set_electrum_servers`, the retry of a send | a writer waiting behind a long sync; the list replaced before a client exists | client and list agree; calls make progress |
| Addresses, keys, phrases, transactions, chain parameters, full node, command line, iOS storage | none | pure encoding, cryptography, thin adapters | golden vectors test them | |

## 2. Modules

| Module | Models | Extends |
|---|---|---|
| `GapScan` | a scan over both chains, its budget, slices, saved progress, timeouts and crashes; the refresh's use of the funded list; the manual rescan | |
| `GapScanProofs` | theorems about it | `GapScan` |
| `SendPlan`, `MCSendPlan` | one payment, from the listed coins to the broadcast | |
| `SendPlanProofs` | theorems about it | `SendPlan` |
| `UtxoCache`, `MCUtxoCache` | the stored coins of one wallet and the refreshes, payments, balances and imports that change them | |
| `UtxoCacheProofs` | theorems about it | `UtxoCache` |
| `History`, `MCHistory` | the transaction table, the sources its rows come from and the payments that append to it | |
| `HistoryProofs` | theorems about it | `History` |
| `ElectrumClient` | calls of several callers on several servers | |
| `ElectrumClientProofs` | theorems about it | `ElectrumClient` |
| `ElectrumConnection` | requests, answers and timeouts on one connection | |
| `ElectrumConnectionProofs` | theorems about it | `ElectrumConnection` |
| `ServerList`, `MCServerList` | the configured servers, the client made from them, and the lock between calls and a change | |
| `ServerListProofs` | theorems about it | `ServerList` |
| `Keystore` | the record of one coin, the phrase in memory, and every call that changes them | |
| `AtomicKeystore` | what a keystore promises: each call changes the record as it is, in one step | |
| `MCKeystore` | `Keystore` as an implementation of `AtomicKeystore` | `Keystore` |
| `KeystoreProofs` | theorems about it | `MCKeystore` |

The modules meet where one part of the code calls another, and each leaves the other's inside
out: `GapScan` finds the scripts that `UtxoCache` asks about (its `Discover`); `SendPlan` is
what `UtxoCache` and `ServerList` have as the plan and the attempts of a send;
`ElectrumClient` makes and drops the connection that `ElectrumConnection` is; `ServerList`
replaces the client that `ElectrumClient` is.

**GapScan.**  `cursor`, `done`, `funded`, `complete` and `nextReceive` are the fields of the
keystore record; `active` and `budget` the `IndexingLimits` of the client; the rest are the
locals of `run_gap_scan_inner` and the two discover functions, so that the places where the
code awaits (an RPC, a save) are the states between actions.  A script is its chain and
index.  `Reachable` is the reference: the code's own loop counts empty scripts in a row,
the definition says which indices that count can reach.  A fault drops the locals and keeps
the record: a timeout keeps the client's limits too, as dropping the future does; a crash
makes a new client.  A refresh (`refresh_utxos_from_network`) loads the funded list, probes
the cached scripts, stores the list and lists the coins, as steps of its own.

**SendPlan.**  `pc` follows `send_payment`: `select_utxos` takes coins in order of value, the
loop of `plan_send_utxos` adds the fee until it stands, preparation replaces values by what
the parent says, `replan_fee_for_selected` loops again on the new values, the signer decides
anew on the change, verification looks at what was signed.  Each way to fail is an outcome.
Sizes, the rate unit and dust are constants so that an instance can have steps of the fee
with few coins.

**ElectrumClient.**  `call[c]` is where caller c is in `ensure_connected`, `reconnect`,
`call_with_backoff`, `call_with_failover` or `get_raw_tx_hex`; `active`, `connection`,
`failures` and `cooling` are the client's fields, each written in a step of its own as the
locks are taken one by one.  Servers answer, are down, are silent (they accept and then say
nothing, neither connecting nor its TLS handshake has a timeout), fail calls, refuse them, or
lack a transaction, and may change.  `owed` records, while no server changes, whether a call that
begins now is owed an answer.

**Keystore.**  Every operation of `LightKeystoreService` is `Load`, `Change`, `Save` on a copy
(`call[c].copy`), with the change it makes (`Changed`) and the conditions under which it returns
without saving (`NothingToSave`).  `session` is the map of phrases, written where
`persist_unlock_in_store` and `clear_unlock_session` write it: at `Change`, before the save, and
at the beginning of an import or a lock.  `unlocked_mnemonic` is `PhraseInMemory`, or `Decrypt`
and `Remember`.  A scan keeps its phrase and its list over many stores.  `given` is a history
variable: the addresses handed out since the record was sealed, and `overtaken` another: whether
some other call has saved since this one read the record.  `BadSecrets` are texts that are
imported and from which no address derives: `import_wallet` remembers what it is given before it
derives anything from it (`PrecacheFails`), and unlocking never looks at it again.  Importing a
phrase again seals a new record and starts its counter at 0; addresses from before belong to the
record before, and a scan, not the counter, finds the ones that were used. `FailIn` names the
changes whose save may fail.

**UtxoCache.**  `rows`, `optimistic` and `snapshot` are the table of coins and the stored keys
(`optimistic_utxo_keys`, `last_electrum_utxo_keys` with the flag that they are set); `ledger`
is what the network has.  A refresh asks script by script (`Ask`), stores the keys
(`StoreKeys`), reads the old rows, and replaces them (`ReadExisting`, `Commit`), as
`refresh_utxos_from_network` and `replace_utxos` do.  A payment plans from a list it made,
broadcasts, removes each coin it spent with a statement of its own, lists the rows and
replaces all of them with its change added (`upsert_utxo` is that), and only then appends to
the optimistic keys.  A balance reads the rows, three stored values one by one, and prunes
row by row what none of them knows.  A broadcast may be accepted and its answer lost; the
session repeats a send once, and only after an error that reads as a failed lookup of a
transaction (`Failed`).  An import stores the record and then clears the cache.  `remains` is a
history variable: what of a replaced wallet may be in the rows, because an import was cut
short ("rows", until a refresh that is alone replaces them) or because a call ran beside one
("calls").  The network's
transactions spend, mine and arrive between any two steps.

**History.**  `stored` is the table, its key (transaction, category, address) as in
`HistoryRow`; `depth` is how deep the chain has each transaction, `index` the list that the
explorer has of each own address.  A refresh takes each own address's pages by offset
(`FirstPage`, `NextPage`: the three tests that end the paging), then the pending transactions
that an Electrum server lists (`ReadPending`), expands each by its inputs' parents
(`ExpandedRows`), merges by key and by height (`Merge`, `Beaten`), and replaces the table.  The
list has an entry for each script of a transaction; `dedup_by` removes a repeated entry only
where it is next to the one before, which depends on the order among equal heights, so the model
takes every number of entries there may be (`Entries`).  It is cut at `Limit` entries, pending
ones first (`Cut`, `Rooms`), and of the pending ones `ExpandLimit` are looked up.  A payment
loads the table, merges its own rows and replaces it.  A table that cannot be read counts as
empty (`LoadFails`).  A call remembers whether it ran `quiet` (alone, the chain still, all
sources right), `alone` (all of every list there), `partly` (some address passed over, a
transaction missed as its list grew, or the table not read) or `mixed` (beside another); the
properties differ in what they promise to each.

**ElectrumConnection.**  `call[c]` is a caller in `call` of `connection.rs`, `lock` its mutex
over the stream, `nextId` the counter of requests, `asked` what the server has been asked,
`junk` and `torn` the half request and the half line that a call leaves when its timeout
drops it while it writes or reads.  `ReadLine` skips answers with other numbers, as the loop
does; a line that is no JSON ends a call.  Each call carries a number of its own, which the
program does not see, to say whose answer it got.  The server answers in any order, and may
close.

**ServerList.**  `servers` is the list of the session, `backend` the list its client was made
from, `readers` and `queue` the `RwLock` around the client.  `StartSet`, `StoreList`,
`MakeClient` and `Swap` are the steps of `set_electrum_servers` (the list is stored before
the client is made, which may fail, and the swap waits for the lock); `Rotate` begins the
same on the rotated copy for a send that is repeated.  `hung` are the calls that hold the
client's lock and wait for a silent server (`Hang`, `Wake`).

## 3. Runs

| Run | Instance | What it shows |
|---|---|---|
| `scan_calls` (1,147,000 states) | indices 0..3 on two chains, gap 2, batches of 3, a budget of 3 calls, two slices a call, a text for the spent budget that the engine takes for a pause, a fault of each kind, a rescan, a refresh of an unfinished wallet | `ScanCompleteFoundAll`: a wallet marked as scanned knows every coin the gap rule reaches; `SavedProgressCovers`: what a later scan resumes from skips none; `ReceiveIndexPastUsed`: the counter passes used indices unless the process crashed; `ScanCompletes` over slices and syncs; `CacheFilled` unless a timeout left the limits on |
| `payment_fees` (94,000 states) | three coins of four values, nine amounts, three rates, a fee that takes one step within the three coins, three rounds, parents that agree or not | `SentPaysFee`, `InsufficientIsReal`, `ReplanAgrees`, `NotConvergedAtBoundary`, `PaymentEnds` |
| `keystore_calls` (886,000 states) | one call at a time, two phrases and a text that is none, two indices, a crash, a save that fails (of any change but create and import), two moments | the phrase in memory, if addresses derive from it, is the record's, an import leaves nothing of the wallet before, addresses handed out are listed and handed out once, and `CallsAreAtomic`: the refinement of `AtomicKeystore` |
| `keystore_pairs` (2,466,000 states) | two calls at a time in every interleaving, one phrase, one index | `UndisturbedIsAtomic`: a save is one step of `AtomicKeystore` on the record as it is, unless the other call has saved in between |
| `utxo_calls` (947,000 states) | one caller, three coins, two payments, two wallets one after the other, two of: a crash anywhere, a call that fails, an answer to a broadcast lost | `NeverCountedTwice`: a spent coin and its change are never both there; `ReportedShown`: what a send returned is in the cache until a snapshot is; `OnePaymentPerCall`; `OnlyOwnRows`: rows of a replaced wallet are there only where a call ran beside the import or a crash cut the import short, and then until the next refresh that is alone |
| `utxo_overlap` | two callers, one coin and one payment, a crash or a lagging answer | `Converges`: whatever interleaves, refreshes bring the rows to what the network has, for good |
| `electrum_calls` (397,000 states) | two callers, two servers up, down, silent or limiting, one change | a reachable server answers while nothing changes; requests stay bounded (in `TypeOK`); calls return unless they wait for a silent server |
| `electrum_lookup` (41,000 states) | one caller, three servers, some of which lack the transaction or fail calls, two changes | a lookup asks every server before it fails |
| `history_calls` (914,000 states) | one caller that refreshes and sends, two own addresses, a receipt, a payment to itself, a reward, pages of 1, a server's list cut at 3 entries and lookups at 1, two faults of any kind | `StillPagesMissNothing`, `ConfirmedNeverDemoted`, `QuietRefreshIsExact` |
| `connection` (992,000 states) | three callers, six calls, two of them out of time | `AnswerIsMine`, `LockIsHeld`, `HarmIsBounded`: at most three calls fail for one that was too slow |
| `servers` (97,000 states) | a user, a sender, and one that sends or sets lists of no, one and two servers and one that does not parse; calls that hang | `ClientIsOfList`, `RetryAsksAnother`, `EveryoneGetsTheClient` |
| `scan_refused` (a violation, section 6) | indices 0..4 on one chain, a budget of 3, with the text the client really sends | a scan that needs more than one budget never completes |

*Why the bounds are enough.*  A scan of 4 indices with a gap of 2 and batches of 3 has full and
cut batches, gaps that end a chain within a batch, empty scripts that are counted on across
batches, and coins behind a gap.  A budget of 3 is spent by one full batch, so every wallet whose
first chain has no gap needs a pause in the middle of it, most need more than one sync, and the
listing of coins may meet a spent budget; with two slices of one call and several calls, every
save is followed by a resume.
Three coins give selections that grow by one and by two; the fee takes one step on the way
(`SizeUnit` = 8), and three rounds are the least for which `NotConvergedAtBoundary` promises
something of all selections there (`FeeSteps` + 2); with more steps of the fee and fewer rounds
TLC finds a loop that gives up away from the boundary. Two callers are enough for the pairs of
steps that overwrite each other; three servers for a lookup to go around.  In the keystore two
phrases tell records apart, two indices an address given from the next; the counter stops at the
bound instead of saturating at 2^32. In the cache two payments can spend one the other's change,
and the second wallet's script tells its rows from the first's; the overlap of two calls needs
one coin, since every step treats coins one by one.  Lists of the explorer are empty, one page
long, and up to three pages.  Three callers and six calls let both calls that run out of time
harm all they can. Lists of two servers have a next one, lists of one do not. `MaxFaults`,
`MaxChanges`, `MaxRescans`, `MaxCalls`, `MaxSlow`, `MaxCrashes`, `MaxFailures` and `MaxTime`
bound what happens to the program, not what it does. Every property of a passing run is violated
by at least one mutant of the code that `PROJECT.json` lists.

*Calls on the keystore* overlap in `keystore_pairs` only: the code has no lock from load to
save, so with two callers much of what `AtomicKeystore` promises fails.
`Keystore_overlap.cfg` shows the lost update; with the same constants `SessionMatchesRecord`
fails too, after two imports whose steps alternate.  `UndisturbedIsAtomic` says that this is
all: a save is atomic unless another overtook it, or it adds scripts of a phrase that is no
longer the record's.  The cache
(`utxo_overlap`, `UtxoCache_pairs.cfg`), the history (`History_overlap.cfg`), the client, the
connection and the server list are run with callers that overlap.

*Two constants choose what the code's environment does.*  `BatchLimitError` is the text a
backend sends when the budget is spent.  The real client's text is not the one that the
engine looks for (finding 1), so `scan_refused` shows what happens with it (the other branch of
`BatchStopped`; the safety theorems of `GapScan` hold with either text), and `scan_calls`, with a backend that conforms to the engine's test, shows that slices, pauses
and resumption are right.  `RefreshBesideScan` says whether the shell refreshes while a scan
runs; nothing in the code prevents it (`GapScan_overlap.cfg`, section 6), and the runs, with
refreshes between scans only, show that the scan is right when nobody overwrites its list.

Runs of `GapScan`, `SendPlan` and `ElectrumConnection` have `CHECK_DEADLOCK FALSE`: a wallet
that is scanned, with the bounds on rescans and refreshes used up, has nothing to do, a
payment ends, and a connection is idle after the bounded number of calls.

## 4. Fairness

- `GapScan!FairSpec`: a sync that is not hit by a fault runs on, and the shell calls `sync`
  and then `refresh` again and again (both are what the shell's timer does; the model has
  no wallet nobody opens).  Faults, rescans and refreshes of a wallet not yet scanned are
  not fair, and faults are bounded: a network that fails for ever completes no scan.  A sync
  that hangs is ended by its own limit of 300 s (`TimesOut`); for `refresh`, which has none,
  the model assumes servers that let it connect or refuse.
- `SendPlan!FairSpec`: one async function runs on until it returns; a request to a connected
  server has a timeout (`connection.rs:177`).  Connecting has none, so what is shown is that
  the fee loops end, and the payment with them where no server is silent while it connects.
- `ElectrumClient!FairSpec`: an answer comes or its 30 s are over, and sleeps have a fixed
  length.  Connecting has no timeout (`TcpStream::connect` at `connection.rs:120`, the TLS
  handshake at :135): a server that is `"silent"` accepts and never goes on, no step of a call
  that connects to it is enabled, and fairness does not move it.  `CallsReturn` therefore says
  that a call returns unless it waits for such a server; `ElectrumClient_silent.cfg` refutes
  the property without the exception.  All callers may wait so, which is why that run does not
  look for deadlocks.  `BusySpec` adds callers that call again and cooldowns that end; it is
  used to refute `FailoverReachesServer`, not to prove anything.

- `UtxoCache!Spec`: calls that have begun go on (every request to a connected server has a
  timeout, the store does not block, and no server is silent while they connect), the scan finds the scripts there are, and the
  application refreshes again
  and again: strong fairness of `StartRefresh`, because a refresh can begin only while its
  caller is idle, which other calls interrupt.  Payments, blocks, faults and imports are not
  fair, and are bounded.
- `ServerList!Spec`: a call that holds the client's lock ends unless it hangs, that is, waits
  for a silent server (`Hang`; `Wake` is not fair, a call may hang for ever), and the lock is
  given when it is due: tokio's `RwLock` serves waiters in order.  `EveryoneGetsTheClient` says
  who is not served then: a set that waits for the call that hangs, and whoever is behind that
  set.  `ServerList_hung.cfg` refutes the property without the exception.

`Keystore`, `History` and `ElectrumConnection` claim nothing that needs fairness.

## 5. Proofs

TLAPS checks all of the following for every value of the constants that the modules'
assumptions allow (sizes are naturals, budgets and rounds as in the `ASSUME`s).

*GapScan* (`GapScanProofs`).  `TypeCorrect` first; then `ScanInvHolds`, `CompleteScanFoundAll`
and `SavedProgressSkipsNothing`, under the assumption `~RefreshBesideScan`, without which
`GapScan_overlap.cfg` shows them false.  That a complete scan has found all is not inductive.
`ScanInv` strengthens it: the stored list covers what lies behind the *saved* progress; the list
in memory covers what lies behind the saved and the current progress and contains the stored
list's successor; at the place reached, the last `empty` scripts are indeed empty, so that a gap
of `GapLimit` makes everything after it unreachable; the flags agree with each other; a refresh
holds at least the stored list. Each action has a step of its own; the lemmas say what a batch
adds to what is covered and that covering is monotone in the list.

`ReceiveIndexHolds` is `ReceiveIndexPastUsed`: a wallet marked as scanned has its index past
every used one but at the step between the two saves (`ReceiveInv`), where a crash leaves it for
good (`GapScan_crash.cfg`) and no other fault strikes; `CrashesCounted` carries the condition
that there was none from step to step.

*SendPlan* (`SendPlanProofs`).  `TypeCorrect`; `SendInvHolds`; `SentPaysFeeHolds`: a broadcast
payment pays the amount asked and the fee that the signed transaction's own inputs and
outputs call for, and at most `Dust` more.  The invariant says that the fee settled on is a
fixed point of `NewFee` at the outputs that the signer chooses by its own test.

`ReplanAgreesHolds` and `ReplanStuckHolds` are about the second loop, for at least two rounds
(the code has eight; with one, TLC refutes the second).  It sees one selection only, so it comes to
no more than two fees, with change and without; a larger transaction costs no less
(`FeeOfLarger`), so the plan's fee is reached within two turns (`AgreeInv`), and the loop runs
on only where each fee leads to the other (`LoopInv`).

`InsufficientHolds` needs what the selected coins are worth together, which `MapThenSumSet`
computes one coin after the other in an order of its own.  The library's induction theorems
cannot be instantiated here, but `WFMin` (a set of numbers that is not empty has a least one)
is about sets, and gives two induction principles for sets, over numbers and over selections.
From these: there is a function `Sums` with the recursion of `MapThenSumSet`, any coin may be
taken first (`SumsSplit`), and a coin more adds its value.  `RefusalInv` then says that a round
that still selects has the sum of its selection, which is not enough, for a fee of no more
inputs than there are coins.

`PlanStuckHolds` is about the first loop, which selects anew in every round.  Its selection is
a function of what is needed, and for more no fewer coins are selected, worth no less
(`SelectsMono`).  A coin more costs more than a change output less saves (`InputAssumption`: an
input is no smaller than an output, 148 bytes and 34), so the number of coins never falls.
`RoundInv` counts rounds by steps of the fee: a round on the way up takes the fee a step
higher (`Steps`); if the number of coins then stays the same, the fee is one of two, and if
neither settles, each was answered with the other (`Answered`), which is the boundary.  So the
loop gives up only at the boundary whenever it has two rounds more than the fee has steps up to
the coins it ends with.  The size is counted in units of 1000 bytes (`utxo_selector.rs:67`), so
with the eight rounds of the code that covers selections of up to 46 coins; a fee that stays the
same while coins are added costs no round.  `NotConvergedHolds` puts both loops together.  For
larger selections nothing is claimed of the first loop: the rounds may run out on the way up
(TLC finds it with `SizeUnit = 3` and `MaxRounds = 2`).

*ElectrumClient* (`ElectrumClientProofs`).  `TypeCorrect`, for any numbers of callers, servers and
retries; the bound on requests in it is not inductive, and `AskInv` says how many a call may
have made where it is.  `ReachableAnswers`: while servers stay as they are, a call fails only
if some server that can be reached would refuse it.  `AnswerInv` says of a call that is owed an
answer that the servers reconnecting has passed are dead, and that after failing over it has
an open connection to one that is not.  `SearchFinds` is `LookupAsksEveryServer` for one caller
(`OneCaller`; `ElectrumClient_race.cfg` refutes it for two): the server that is due is the one
where the lookup began, moved by its attempts, those before it have not the transaction or are
dead, and the connection is to the active server (`SearchInv`).

*History* (`HistoryProofs`).  `TypeCorrect`, `PagesComplete`, `ConfirmedStays`, `QuietIsExact`,
by three invariants, each on top of the one before.  `PageInv`: the pages read so far hold the
list up to the offset, unless it has grown since the first.  `CoverInv`: what is confirmed in a
row is confirmed in the chain, and a call that runs alone holds a confirmed row for every
confirmed row of the table that a pending one could replace.  `ExactInv`: a quiet call holds the
explorer's rows of the addresses it has done, as they are now.  `QuietIsExact` assumes nothing
of `Limit` and `ExpandLimit`: the refresh leaves the explorer's rows and those of some pending
transactions, and of all of them if the list is cut nowhere (`Uncut`, which counts an entry for
each script of a transaction).  For that, `MostEntriesGrow` shows that a list that leaves a
transaction out has fewer entries.  `ConfirmedNeverDemoted` promises nothing to a call that
missed a transaction of a list that grew: the attempt to prove it of those showed that the row
missed can be replaced by a pending one.

*ElectrumConnection* (`ElectrumConnectionProofs`).  `TypeCorrect`, `OwnAnswers`, `LockSafe` and
`Harm`, for any set of callers and any number of calls and timeouts, by one inductive
invariant (`Invariance`).  `Numbered` says that a request's number is its call's plus two
(the two requests of `connect`), from which an answer with the number one waits for is one's
own; `LockIsHeld` is inductive with the types.  `HarmIsBounded` is not: it says nothing of
what a call that was too slow leaves behind.  `Paid` strengthens it: the failures so far and
those still to come of what lies on the connection (`Debt`: a half request, a half line, a
call whose request ran into another's) are at most three for each slow call.  The bound is
tight: one call leaves half a request and half a line, and fails itself.

*ServerList* (`ServerListProofs`).  `ConfiguredIsUsed` says `ClientIsOfList` for all lists and
callers.  Its invariant `OneSets` follows who is between storing a list and having replaced the
client: unless sets have mixed, that is at most one call, its list is the one stored, and
without one the client is of the list stored.  `RetriesAskAnother` says `RetryAsksAnother`
for all lists under `NoDuplicates`, since a list that names a server twice can rotate to the
same server again.  `SendsKnow` is what a send that is alone with the list knows at each step
(the first server it asked, the rotated list, the client it will get); `Orderly` keeps the
lists free of duplicates, which a rotation does not make.  `TypeCorrect` needs two facts of
its own: who waits and who reads never overlap (`Places`), and every list is the default or
one that was given, rotated (`ListsKnown`), since rotations of rotations are rotations.

*UtxoCache* (`UtxoCacheProofs`).  `TypeCorrect` and `PaysOnce`, for any callers that overlap in
any way.  `OnePaymentPerCall` alone says nothing of where a call is; the invariant adds
`Paying`: a call that has paid is at one of the steps that record the payment, none of which
leads back to a broadcast.  `RowsAreOwn` says `OnlyOwnRows`, for callers that overlap in
any way and crashes anywhere: rows of a replaced wallet are there only if a call ran beside an
import or an import was cut short, and in that case only until a refresh that is alone replaces
them.  Its invariant, `OwnInv`, says of all that a call holds (listed coins, keys, planned
spends, the rows it read) that they are the wallet's, unless the call is the import that is
about to clear the cache, as long as no call has run beside an import.
`CountsOnce` is `NeverCountedTwice` under `OneCaller` and `ServersUpToDate` (`UtxoCache_stale.cfg`
shows what a lagging server does); `ReportedIsShown` is `ReportedShown` under `OneCaller` alone
(`UtxoCache_race.cfg` has two), also when servers lag.  Both rest on `ShownInv`: what a call
holds of the servers names only transactions that there are, none of them spent unless servers
lag; a payment under way has removed the coins it spent one by one, and its change is in the
rows before its key is in the list that pruning spares; what a balance will prune is not in
that list.

*Keystore* (`KeystoreProofs`).  `TypeCorrect` for any number of callers, torn writes and failing
saves: `Formed` says which wallet a copy must have before it is saved.
`UndisturbedSavesAreAtomic` says `UndisturbedIsAtomic` for any number of calls that overlap,
with crashes, failing saves and torn writes: its invariant, `RestInv`, says of a call that no
other has overtaken that what it has read or changed is the record on the disk.  With one call
at a time, the invariants of `keystore_calls` hold for all phrases and bounds:
`SessionIsRecords`, `FundedAreOwn`, `GivenAreListed`, `GivenOnce`.  Their invariant is
`WorkInv`: a call works on the record as it is.  The copy that is being changed is the store on
the disk, the copy that is being saved is what the change makes of it, the phrase a call works
with is the record's, a scan's list contains the one stored, and an address about to be handed
out is below the counter on the disk and above all given before.  `OneCaller` is needed as
`Keystore_overlap.cfg` shows, and `SealsAreSaved` (the save of a new phrase does not fail) as
`Keystore_unsaved.cfg` does: then the phrase in memory is not the record's.  An import of a text
that no address derives from is in the model: what it leaves in memory is why `SessionIsRecords`
speaks of phrases that addresses derive from (`Keystore_badsecret.cfg`).

*Model-checked only.*  The liveness properties, since fairness and ENABLED are out of the
prover's reach: `ScanCompletes`, `CacheFilled`, `PaymentEnds`, `CallsReturn`,
`EveryoneGetsTheClient` and `Converges`; and `CallsAreAtomic`, the refinement of
`AtomicKeystore` by calls that do not overlap, of which `UndisturbedSavesAreAtomic` is the part
that needs no such assumption.  Every other property of a passing run is a theorem; the
assumptions that some of them have (one caller, no crash at some place, servers up to date, no
refresh beside a scan) hold in the runs, and are named above with what happens without them.
The inductive invariants, besides their proofs, can be checked by TLC with the runs'
configurations.

## 6. Findings

`PROJECT.json` lists one run in which TLC finds words of the repository contradicted by what
the code does: `scan_refused`.  The client's text for a spent budget (`manager.rs:91`) is not
the one that the engine tests for (`errors/src/lib.rs:107`); a scan that needs more than one
budget fails in every sync, from the same place.

Further configurations are kept beside the runs; each ends in a counterexample
(`tlc -config <configuration> <module>`), and shows what a property of the runs does not
promise:

| Configuration | Property refuted | What happens |
|---|---|---|
| `GapScan_timeout.cfg` | `LimitsClearedAfterScan` | a sync that times out (`sync_engine.rs:124`) leaves the indexing limits on; a later refresh may be refused |
| `GapScan_overlap.cfg` | `SettledWalletFoundAll` | a refresh beside a scan stores the list it loaded before (`sync_engine.rs:324`), and what the scan found is lost |
| `ElectrumClient_silent.cfg` | `CallsAlwaysReturn` | a server that accepts a connection and stays silent keeps the call for ever: `TcpStream::connect` (`connection.rs:120`) and the TLS handshake (:135) have no timeout |
| `ServerList_hung.cfg` | `EveryoneAlwaysGetsTheClient` | such a call holds the client's lock; a set waits for it (`session.rs:321`), and every later call waits behind the set |
| `GapScan_crash.cfg` | `AlwaysAdvanced` | a crash between `sync_engine.rs:447` and `:455` leaves the wallet scanned and its receive counter on used indices; `light_keystore.rs:192` says the counter is advanced |
| `ElectrumClient_stuck.cfg` | `FailoverReachesServer` | every reconnect sets back the count of failures (`manager.rs:156`), so a server that accepts connections and fails calls is never left |
| `ElectrumClient_cooldown.cfg` | `QuietDuringCooldown` | scripthash calls (`manager.rs:276`) never look at the cooldown that `manager.rs:246` checks; `throttle.rs:26` logs that RPC is paused |
| `ElectrumClient_excessive.cfg` | `ExcessiveUsagePauses` | error -101 starts no pause unless its text has certain words (`errors/src/lib.rs:100`); `throttle.rs:11` says it does |
| `ElectrumClient_race.cfg` | `LookupAsksEveryServer` | two lookups at once undo each other's change of server (`manager.rs:155`, `:506`) |
| `Keystore_overlap.cfg` | `GeneratedListed` | overlapping saves lose updates (`light_keystore.rs:171`), and an address is given twice |
| `Keystore_unsaved.cfg` | `GeneratedListed` | an import whose save fails leaves its phrase in memory and the record of the wallet before (`light_keystore.rs:103`) |
| `Keystore_badsecret.cfg` | `SessionIsOfRecord` | an import of a text that is no phrase puts it in memory (`light_keystore.rs:103`) and fails at :104 before it saves |
| `Keystore_torn.cfg` | `ImportCanLoad` | a crash that cuts a save short (`storage-file/src/lib.rs:136`) leaves a file on which every import fails at its load |
| `UtxoCache_import.cfg` | `NoForeignRows` | a crash between the new record and the clearing of the cache (`session.rs:106`) leaves the old wallet's rows, which are shown until a refresh |
| `UtxoCache_stale.cfg` | `NeverCountedTwice` | a server that lags puts a spent coin back beside the change of its payment (`storage-sqlite/src/lib.rs:126`), until a server that does not |
| `UtxoCache_race.cfg` | `ReportedShown` | a refresh that asked before a payment stores after it |
| `History_twins.cfg` | `NoTwins` | the category is part of a row's key (`history_rows.rs:13`), so a payment just mined is there as pending and as confirmed; `history.rs:59` tests the merge of one key only |
| `History_pages.cfg` | `PagesMissNothing` | a list that grows while it is fetched by offset (`explorer_history.rs:171`) repeats an entry at a page's edge and leaves out its last, which is now beyond the total that the first page told |
| `History_partial.cfg` | `PartlyNeverDemoted` | an address whose pages fail is passed over (`explorer_history.rs:237`), and the table is replaced without its rows; the same of a transaction that is missed as its list grows |
| `History_limit.cfg` | `QuietRefreshIsComplete` | a list with more entries than asked for is cut before its pending ones are kept (`manager.rs:481`), which are its last |
| `ServerList_invalid.cfg` | `ClientIsAlwaysOfList` | the list is stored before a client for it is made (`session.rs:320`), which fails for an address that does not parse |
| `ServerList_overlap.cfg` | `ClientIsAlwaysOfList` | two calls that set the list store and swap in different orders |

Two configurations without a counterexample also stand beside the runs: `History_overlap.cfg`,
with a refresh and a payment at once, and `UtxoCache_pairs.cfg` (1,571,000 states), which checks
`OnlyOwnRows` with two callers that refresh, pay, ask for the balance and import at once (it is
symmetric in them, since only an invariant is checked and nothing tells them apart).

## 7. Not modelled

- *Encodings and cryptography* (addresses, HD keys, phrases, sealing, transactions): pure
  functions with golden vectors; in the models a key fits or not, a password is right or not.
- *Full-node backend, several servers, conformance probe, command line, chain parameters*:
  they translate or report and keep no state.
- *iOS storage*: callbacks of the platform that are not in the repository.
- In the modelled parts: the status reports of a sync and of the client, the fee estimate, the
  amounts of cached coins and of history rows, the order and times of rows, the functions that enrich rows,
  which nothing calls, the stream's encryption, the clock of cooldowns (a cooldown ends at some time), several coins (each has its record;
  the file is shared, so overlapping calls on two coins lose updates as those on one do).

## 8. Plan

In this order, the most consequential first:

1. `UtxoCache` with two callers: which of `NeverCountedTwice` and `OwnInv` survives overlapping
   balances and payments, and under what order of the store's statements.
2. `GapScan`: that the stored list never loses a script, as a theorem about every step but an
   import; the status that a sync reports.
3. The signer's search for a key (`signer.rs:157`), which ends one index before the gap scan does,
   as a module on the derivation paths of both.
