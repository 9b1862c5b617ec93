------------------------------- MODULE GapScan -------------------------------
(***************************************************************************)
(* The HD gap scan of one light wallet: gap_scan.rs and                    *)
(* LightSyncEngine::run_gap_scan of sync_engine.rs, on the keystore record *)
(* it resumes from and on the RPC budget ElectrumLightClient grants it.    *)
(*                                                                         *)
(* Simplifications:                                                        *)
(*  - a script is its HD chain and index; a balance is zero or not;        *)
(*  - the balances do not change while the wallet is scanned;              *)
(*  - one refresh is under way at a time, and its signing session is open. *)
(***************************************************************************)
EXTENDS Integers, FiniteSets

CONSTANTS
  MaxIndex,         \* GAP_SCAN_MAX_INDEX, the last index scanned
  GapLimit,         \* GAP_LIMIT, the empty scripts in a row that end a chain
  BatchSize,        \* SCRIPTS_PER_BATCH
  RpcBudget,        \* RPC_BUDGET_PER_SYNC
  MaxSlices,        \* MAX_SLICES
  ProbeSize,        \* the cached scripts a refresh asks about (32)
  RefreshBesideScan, \* whether the shell refreshes the balance during a scan
  UsesCoreHdPaths,  \* uses_core_hd_paths: the wallet has an internal chain
  BatchLimitError,  \* what the backend says when the budget is spent
  Faults,           \* the faults that may happen, among those of FaultKinds
  MaxFaults,        \* bound: how many faults of each kind
  MaxRescans,       \* bound: how many manual rescans
  MaxCalls          \* bound: how many refreshes of a wallet that is not scanned

FaultKinds == {"network", "timeout", "crash"}

ASSUME SizesAssumption ==
  /\ MaxIndex \in Nat
  /\ GapLimit \in Nat \ {0}
  /\ BatchSize \in Nat \ {0}
  /\ RpcBudget \in Nat
  /\ MaxSlices \in Nat \ {0}
  /\ ProbeSize \in 0..MaxIndex
  /\ MaxFaults \in Nat
  /\ MaxRescans \in Nat
  /\ MaxCalls \in Nat

ASSUME SwitchesAssumption ==
  /\ RefreshBesideScan \in BOOLEAN
  /\ UsesCoreHdPaths \in BOOLEAN
  /\ Faults \subseteq FaultKinds

VARIABLES
  hasFunds,        \* the indices of each chain whose script has a balance
  \* the wallet's record in the keystore
  cursor,          \* index_gap_external, index_gap_internal
  done,            \* index_gap_external_done, index_gap_internal_done
  funded,          \* funded_script_hexes
  complete,        \* addresses_scan_complete
  nextReceive,     \* next_receive_index
  utxos,           \* the scripts whose coins the UTXO cache holds
  \* IndexingLimits of the Electrum client
  active,
  budget,
  \* locals of run_gap_scan_inner and of the two discover functions
  pc,
  progressCursor,  \* progress.gap_external, progress.gap_internal
  progressDone,    \* progress.gap_external_done, progress.gap_internal_done
  before,          \* progress_before
  found,           \* the funded vector in memory
  chain,
  index,
  empty,           \* consecutive_empty
  slices,          \* slices begun by this call
  \* locals of refresh_utxos_from_network
  refresh,
  listed,          \* its own funded vector
  \* what the bounds count
  faults,          \* of each kind
  rescans,
  calls

keystore == <<cursor, done, funded, complete, nextReceive>>
client == <<active, budget>>
progress == <<progressCursor, progressDone>>
position == <<chain, index, empty>>
local == <<progress, before, found, position, slices>>
other == <<refresh, listed>>
bounds == <<faults, rescans, calls>>
vars == <<hasFunds, keystore, utxos, client, pc, local, other, bounds>>

Chains == {"external", "internal"}
ScannedChains == IF UsesCoreHdPaths THEN Chains ELSE {"external"}
Indices == 0..MaxIndex
Positions == 0..(MaxIndex + 1)
OnChains(S) == [Chains -> S]
Same(v) == [c \in Chains |-> v]

WalletTypeOK ==
  /\ hasFunds \in OnChains(SUBSET Indices)
  /\ cursor \in OnChains(Positions)
  /\ done \in OnChains(BOOLEAN)
  /\ funded \in OnChains(SUBSET Indices)
  /\ nextReceive \in Positions
  /\ utxos \in OnChains(SUBSET Indices)

FlagsTypeOK == complete \in BOOLEAN /\ active \in BOOLEAN

LocalTypeOK ==
  /\ pc \in {"idle", "slice", "fetch", "closed", "save", "mark", "advance", "refresh"}
  /\ progressCursor \in OnChains(Positions)
  /\ progressDone \in OnChains(BOOLEAN)
  /\ before \in [cursor : OnChains(Positions), done : OnChains(BOOLEAN)]
  /\ found \in OnChains(SUBSET Indices)
  /\ chain \in Chains
  /\ index \in Positions
  /\ empty \in 0..GapLimit
  /\ slices \in 0..MaxSlices

RefreshTypeOK == refresh \in {"none", "store", "list"} /\ listed \in OnChains(SUBSET Indices)

CountersTypeOK ==
  /\ budget \in 0..RpcBudget
  /\ faults \in [FaultKinds -> 0..MaxFaults]
  /\ rescans \in 0..MaxRescans
  /\ calls \in 0..MaxCalls

TypeOK ==
  WalletTypeOK /\ FlagsTypeOK /\ LocalTypeOK /\ RefreshTypeOK /\ CountersTypeOK

-----------------------------------------------------------------------------
(* The RPC budget of the client.                                           *)

CanSpend(n) == active => n <= budget
Spend(n) ==
  /\ budget' = IF active THEN budget - n ELSE budget
  /\ UNCHANGED active
GrantBudget == active' = TRUE /\ budget' = RpcBudget

\* Mutated forms: the limits survive the scan; nothing is a pause.
ClearLimitsForgotten == UNCHANGED client
NeverPaused(e) == FALSE

ClearLimits == active' = FALSE /\ budget' = 0

\* The error text that discover_chain_script_hexes takes for a pause.
IsIndexingBudgetExhausted(e) == e = "indexing budget exhausted"

-----------------------------------------------------------------------------
(* One call of discover_chain_script_hexes, batch by batch.                *)

\* Mutated forms: the last batch is not cut off; the gap is one too short.
BatchEndUnclamped == index + BatchSize
GapClosedEarly(j) ==
  \A k \in (j - GapLimit + 2)..j : k >= index - empty /\ k \notin hasFunds[chain]

BatchEnd == IF index + BatchSize <= MaxIndex THEN index + BatchSize ELSE MaxIndex + 1

\* consecutive_empty reaches gap_limit at index j of this batch.
GapClosedAt(j) ==
  \A k \in (j - GapLimit + 1)..j : k >= index - empty /\ k \notin hasFunds[chain]

GapHit == \E j \in index..(BatchEnd - 1) : GapClosedAt(j)

\* The funded scripts among those looked at before the break in mid-batch.
Discovered ==
  {i \in hasFunds[chain] : /\ i \in index..(BatchEnd - 1)
                           /\ \A j \in index..(i - 1) : ~GapClosedAt(j)}

\* consecutive_empty is e when the batch has been looked at.
EmptyAfterBatch(e) ==
  IF GapHit
    THEN e = GapLimit
    ELSE /\ \A k \in (BatchEnd - e)..(BatchEnd - 1) : k \notin hasFunds[chain]
         /\ BatchEnd - e >= index - empty
         /\ BatchEnd - e = index - empty \/ BatchEnd - e - 1 \in hasFunds[chain]

\* Mutated form: the hook is not called.
HookNotCalled(f) == funded

\* on_funded_batch stores the whole vector f, when the batch added to it.
FundedAfterHook(f) == IF f = found THEN funded ELSE f

\* funded_script_hexes as run_gap_scan_inner reads it.
LoadedFunded == funded

-----------------------------------------------------------------------------
(* Control.                                                                *)

\* indexing_progress: a record with an internal cursor has its external chain done.
LoadedDone ==
  [done EXCEPT !["external"] = @ \/ cursor["internal"] > 0]

AllDone(d) == \A c \in ScannedChains : d[c]

\* The next chain discover_script_hexes scans, or back to run_gap_scan_inner.
EnterChain(d) ==
  IF AllDone(d)
    THEN pc' = "save" /\ UNCHANGED position
    ELSE /\ chain' = IF d["external"] THEN "internal" ELSE "external"
         /\ index' = progressCursor[chain']
         /\ empty' = 0
         /\ pc' = "fetch"

\* The locals of a scan that has ended.
DropLocals ==
  /\ progressCursor' = Same(0)
  /\ progressDone' = Same(FALSE)
  /\ before' = [cursor |-> Same(0), done |-> Same(FALSE)]
  /\ found' = Same({})
  /\ chain' = "external"
  /\ index' = 0
  /\ empty' = 0
  /\ slices' = 0

\* run_gap_scan returns, with a result or an error.
EndScan == pc' = "idle" /\ ClearLimits /\ DropLocals

Init ==
  /\ hasFunds \in [Chains -> SUBSET Indices]
  /\ UsesCoreHdPaths \/ hasFunds["internal"] = {}
  /\ cursor = Same(0)
  /\ done = Same(FALSE)
  /\ funded = Same({})
  /\ complete = FALSE
  /\ nextReceive = 0
  /\ utxos = Same({})
  /\ active = FALSE
  /\ budget = 0
  /\ pc = "idle"
  /\ progressCursor = Same(0)
  /\ progressDone = Same(FALSE)
  /\ before = [cursor |-> Same(0), done |-> Same(FALSE)]
  /\ found = Same({})
  /\ chain = "external"
  /\ index = 0
  /\ empty = 0
  /\ slices = 0
  /\ refresh = "none"
  /\ listed = Same({})
  /\ faults = [kind \in FaultKinds |-> 0]
  /\ rescans = 0
  /\ calls = 0

\* sync finds the wallet unlocked and not scanned: run_gap_scan begins.
StartScan ==
  /\ pc = "idle"
  /\ ~complete
  /\ RefreshBesideScan \/ refresh = "none"
  /\ GrantBudget
  /\ progressCursor' = cursor
  /\ progressDone' = LoadedDone
  /\ found' = LoadedFunded
  /\ pc' = "slice"
  /\ UNCHANGED <<hasFunds, keystore, utxos, before, position, slices, other, bounds>>

\* One turn of the loop over slices, up to the first batch.
BeginSlice ==
  /\ pc = "slice"
  /\ slices < MaxSlices
  /\ GrantBudget
  /\ slices' = slices + 1
  /\ before' = [cursor |-> progressCursor, done |-> progressDone]
  /\ EnterChain(progressDone)
  /\ UNCHANGED <<hasFunds, keystore, utxos, progress, found, other, bounds>>

\* get_balances_per_script answers, and the batch is looked at.
BatchAnswered ==
  /\ pc = "fetch"
  /\ CanSpend(BatchEnd - index)
  /\ Spend(BatchEnd - index)
  /\ empty' \in 0..GapLimit
  /\ EmptyAfterBatch(empty')
  /\ found' = [found EXCEPT ![chain] = @ \cup Discovered]
  /\ funded' = FundedAfterHook(found')
  /\ index' = BatchEnd
  /\ pc' = IF GapHit \/ BatchEnd > MaxIndex THEN "closed" ELSE "fetch"
  /\ UNCHANGED <<hasFunds, cursor, done, complete, nextReceive, utxos, progress,
                 before, chain, slices, other, bounds>>

\* The chain is complete: discover_script_hexes notes it and goes on.
CloseChain ==
  /\ pc = "closed"
  /\ progressCursor' = [progressCursor EXCEPT ![chain] = index]
  /\ progressDone' = [progressDone EXCEPT ![chain] = TRUE]
  /\ EnterChain(progressDone')
  /\ UNCHANGED <<hasFunds, keystore, utxos, client, before, found, slices, other, bounds>>

\* The budget ends inside a batch: the error is taken for a pause, or it ends the scan.
BatchStopped ==
  /\ pc = "fetch"
  /\ ~CanSpend(BatchEnd - index)
  /\ IF IsIndexingBudgetExhausted(BatchLimitError)
       THEN /\ budget' = 0
            /\ progressCursor' = [progressCursor EXCEPT ![chain] = index]
            /\ pc' = "save"
            /\ UNCHANGED <<active, progressDone, before, found, position, slices>>
       ELSE EndScan
  /\ UNCHANGED <<hasFunds, keystore, utxos, other, bounds>>

\* set_indexing_progress, and what the loop over slices does next.
SaveProgress ==
  /\ pc = "save"
  /\ cursor' = progressCursor
  /\ done' = progressDone
  /\ IF AllDone(progressDone)
       THEN pc' = "mark" /\ UNCHANGED <<client, local>>
       ELSE IF slices = MaxSlices
                 \/ before = [cursor |-> progressCursor, done |-> progressDone]
              THEN EndScan
              ELSE pc' = "slice" /\ UNCHANGED <<client, local>>
  /\ UNCHANGED <<hasFunds, funded, complete, nextReceive, utxos, other, bounds>>

\* mark_address_scan_complete; a wallet without coins has its cache emptied.
MarkComplete ==
  /\ pc = "mark"
  /\ complete' = TRUE
  /\ cursor' = Same(0)
  /\ done' = Same(TRUE)
  /\ IF found = Same({})
       THEN utxos' = Same({}) /\ EndScan
       ELSE pc' = "advance" /\ UNCHANGED <<utxos, client, local>>
  /\ UNCHANGED <<hasFunds, funded, nextReceive, other, bounds>>

\* Mutated form: the counter stops at the last used index.
PastUsedOffByOne(n) == \A i \in found["external"] : i <= n

\* n is past every external index found, and past index 0 when there is none.
PastUsed(n) == n > 0 /\ \A i \in found["external"] : i < n

\* set_receive_index_at_least: the least n that is far enough.
AdvanceReceive ==
  /\ pc = "advance"
  /\ nextReceive' \in Positions
  /\ nextReceive' >= nextReceive
  /\ nextReceive' = nextReceive \/ ~PastUsed(nextReceive' - 1)
  /\ PastUsed(nextReceive')
  /\ pc' = "refresh"
  /\ UNCHANGED <<hasFunds, cursor, done, funded, complete, utxos, client, local, other, bounds>>

Held(f) == [c \in Chains |-> f[c] \cap hasFunds[c]]
Join(f, g) == [c \in Chains |-> f[c] \cup g[c]]
Size(f) == Cardinality(f["external"]) + Cardinality(f["internal"])

\* refresh_utxos at the end of the scan, within what is left of the budget.
RefreshAfterScan ==
  /\ pc = "refresh"
  /\ CanSpend(Size(found))
  /\ utxos' = Held(found)
  /\ funded' = Join(funded, Held(found))
  /\ EndScan
  /\ UNCHANGED <<hasFunds, cursor, done, complete, nextReceive, other, bounds>>

RefreshRefused ==
  /\ pc = "refresh"
  /\ ~CanSpend(Size(found))
  /\ EndScan
  /\ UNCHANGED <<hasFunds, keystore, utxos, other, bounds>>

ScanStep ==
  \/ StartScan \/ BeginSlice \/ BatchAnswered \/ CloseChain \/ BatchStopped
  \/ SaveProgress \/ MarkComplete \/ AdvanceReceive
  \/ RefreshAfterScan \/ RefreshRefused

-----------------------------------------------------------------------------
(* What else happens to the wallet.                                        *)

Probed == [funded EXCEPT !["external"] = @ \cup (hasFunds["external"] \cap 0..(ProbeSize - 1))]

DropRefresh == refresh' = "none" /\ listed' = Same({})

\* refresh_utxos_from_network loads the funded list and asks about the first cached
\* scripts: in a sync of a scanned wallet, or in refresh_balance or list_spendable_utxos.
BeginRefresh ==
  /\ refresh = "none"
  /\ pc = "idle" \/ RefreshBesideScan
  /\ IF pc = "idle" /\ complete
       THEN UNCHANGED calls
       ELSE calls < MaxCalls /\ calls' = calls + 1
  /\ IF CanSpend(ProbeSize)
       THEN Spend(ProbeSize) /\ refresh' = "store" /\ listed' = Probed
       ELSE budget' = 0 /\ UNCHANGED <<active, other>>
  /\ UNCHANGED <<hasFunds, keystore, utxos, pc, local, faults, rescans>>

\* The probe is answered, and the vector loaded before it replaces the stored list.
StoreProbed ==
  /\ refresh = "store"
  /\ funded' = listed
  /\ refresh' = "list"
  /\ UNCHANGED <<hasFunds, cursor, done, complete, nextReceive, utxos, client, pc, local,
                 listed, bounds>>

\* refresh_utxos: the coins of the scripts listed, unless the budget ends before.
ListCoins ==
  /\ refresh = "list"
  /\ IF CanSpend(Size(listed))
       THEN /\ Spend(Size(listed))
            /\ utxos' = IF Size(listed) > 0 THEN Held(listed) ELSE utxos
            /\ funded' = Join(funded, Held(listed))
       ELSE budget' = 0 /\ UNCHANGED <<active, utxos, funded>>
  /\ DropRefresh
  /\ UNCHANGED <<hasFunds, cursor, done, complete, nextReceive, pc, local, bounds>>

RefreshStep == StoreProbed \/ ListCoins

\* begin_manual_rescan, the cooldown over. An unfinished scan can be asked for
\* again only after an earlier manual rescan.
Rescan ==
  /\ pc = "idle"
  /\ complete \/ rescans > 0
  /\ rescans < MaxRescans
  /\ rescans' = rescans + 1
  /\ complete' = FALSE
  /\ cursor' = Same(0)
  /\ done' = Same(FALSE)
  /\ UNCHANGED <<hasFunds, funded, nextReceive, utxos, client, pc, local, other, faults,
                 calls>>

Fault(kind) ==
  /\ kind \in Faults
  /\ faults[kind] < MaxFaults
  /\ faults' = [faults EXCEPT ![kind] = @ + 1]
  /\ UNCHANGED <<hasFunds, keystore, utxos, rescans, calls>>

\* An RPC of the scan fails.
NetworkFails ==
  /\ pc \in {"fetch", "refresh"}
  /\ Fault("network")
  /\ EndScan
  /\ UNCHANGED other

\* An RPC of the refresh fails.
RefreshFails ==
  /\ refresh # "none"
  /\ Fault("network")
  /\ DropRefresh
  /\ UNCHANGED <<client, pc, local>>

\* SYNC_TIMEOUT drops run_gap_scan at an await, before it clears the limits.
TimesOut ==
  /\ pc \in {"fetch", "refresh"}
  /\ Fault("timeout")
  /\ pc' = "idle"
  /\ DropLocals
  /\ UNCHANGED <<client, other>>

\* The process dies, and a new one opens the wallet with a new client.
Crash ==
  /\ pc # "idle" \/ refresh # "none"
  /\ Fault("crash")
  /\ EndScan
  /\ DropRefresh

Next ==
  \/ ScanStep \/ BeginRefresh \/ RefreshStep \/ Rescan
  \/ NetworkFails \/ RefreshFails \/ TimesOut \/ Crash

Spec == Init /\ [][Next]_vars

\* The shell calls sync again and again, and a call that is not hit by a fault runs on: no
\* server is silent while a refresh connects to it.  A sync that waits so is ended by TimesOut.
FairSpec ==
  Spec /\ WF_vars(ScanStep) /\ WF_vars(BeginRefresh /\ complete) /\ WF_vars(RefreshStep)

-----------------------------------------------------------------------------
(* What the scan promises.                                                 *)

\* The reference: no GapLimit empty scripts in a row come before index i.
Reachable(c, i) ==
  \A k \in 0..(i - GapLimit) : \E m \in k..(k + GapLimit - 1) : m \in hasFunds[c]

\* f holds every coin below n that the gap rule reaches.
Covers(f, c, n) == \A i \in hasFunds[c] : i < n /\ Reachable(c, i) => i \in f[c]

\* f holds what a scan with this progress has passed.
Passed(f, cur, dn) ==
  \A c \in ScannedChains : Covers(f, c, IF dn[c] THEN MaxIndex + 1 ELSE cur[c])

\* A wallet marked as scanned knows every coin that the gap rule reaches on each of its
\* chains, whatever slices, failed scans, crashes and refreshes came before.
ScanCompleteFoundAll ==
  complete => \A c \in ScannedChains : Covers(funded, c, MaxIndex + 1)

\* The progress a later scan resumes from never skips a coin: what lies below a saved
\* cursor, or anywhere on a chain saved as done, is already in the stored funded list.
SavedProgressCovers == Passed(funded, cursor, done)

\* The same of the scan under way, whose vector overwrites the stored list.
ScanUnderWayCovers ==
  pc # "idle" =>
    /\ Passed(found, cursor, done)
    /\ Passed(found, progressCursor, progressDone)
    /\ \A c \in Chains : found[c] \subseteq funded[c]

\* The chain being scanned, and what is known of it at the place reached.
PositionCovers ==
  /\ pc \in {"fetch", "closed"} =>
       /\ chain \in ScannedChains
       /\ chain = "internal" => progressDone["external"]
  /\ pc = "fetch" =>
       /\ Covers(found, chain, index)
       /\ empty <= index
       /\ \A k \in (index - empty)..(index - 1) : k \notin hasFunds[chain]
  /\ pc = "closed" => Covers(found, chain, MaxIndex + 1)

\* What the flags of the record say of each other.
FlagsAgree ==
  /\ complete => AllDone(done)
  /\ complete => pc \in {"idle", "advance", "refresh"}
  /\ pc = "mark" => AllDone(done)
  /\ cursor["internal"] > 0 => done["external"]
  /\ pc # "idle" => (progressCursor["internal"] > 0 => progressDone["external"])

\* A refresh is alone with the stored list, and its vector holds all of that list.
RefreshGrows ==
  /\ refresh # "none" => pc = "idle"
  /\ refresh = "store" => \A c \in Chains : funded[c] \subseteq listed[c]

\* The inductive invariant behind the first two properties above: at every step of a scan
\* the list in memory, and the stored one, hold every reachable coin behind the scan.
ScanInv ==
  SavedProgressCovers /\ ScanUnderWayCovers /\ PositionCovers /\ FlagsAgree /\ RefreshGrows

\* A scanned wallet that no call is working on knows every coin in the range of the scan
\* (docs/hd-path-policy.md:28).
SettledWalletFoundAll ==
  complete /\ pc = "idle" /\ refresh = "none" =>
    \A c \in ScannedChains : Covers(funded, c, MaxIndex + 1)

\* The limits of a scan are lifted when it ends, so that no later call is refused
\* (vericonomy-chain/src/lib.rs:78).
LimitsClearedAfterScan == pc = "idle" => ~active

\* When a scan is over, the next address handed out is past every external index it found
\* (vericonomy-storage/src/light_keystore.rs:192), so that no used address is given again.
AlwaysAdvanced ==
  pc = "idle" /\ complete =>
    \A i \in hasFunds["external"] : Reachable("external", i) => i < nextReceive

\* A crash is the only fault that can leave the next address on a used index: between marking
\* the scan complete (sync_engine.rs:447) and raising the counter (:455).
ReceiveIndexPastUsed == faults["crash"] = 0 => AlwaysAdvanced

\* A wallet that is not scanned is at some time marked as scanned.
ScanCompletes == ~complete ~> complete

\* The cache of a scanned wallet comes to hold the coins of every script it knows, unless a
\* sync that timed out has left the limits of its scan on the client.
CacheFilled ==
  complete ~> (~complete \/ utxos = Held(funded) \/ faults["timeout"] > 0)
=============================================================================
