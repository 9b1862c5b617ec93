---------------------------- MODULE GapScanProofs ----------------------------
(***************************************************************************)
(* What holds of the gap scan for every wallet length, gap limit, batch    *)
(* size, budget, slice count and set of faults.                            *)
(*                                                                         *)
(* The argument: a chain is covered up to the index reached because the    *)
(* batches follow each other and look at every index before the gap closes *)
(* (BatchCovers), and nothing past a closed gap is reachable               *)
(* (GapEndsChain). The stored list follows the list in memory through the  *)
(* hook, so progress is never saved ahead of the coins it has passed. It   *)
(* needs a refresh not to overlap a scan: the run GapScan_overlap.cfg      *)
(* shows what is lost otherwise.                                           *)
(***************************************************************************)
EXTENDS GapScan, FiniteSetTheorems, TLAPS

USE SizesAssumption

LEMMA BatchEndBounds ==
  ASSUME TypeOK
  PROVE  /\ BatchEnd \in Positions
         /\ BatchEnd <= index + BatchSize
         /\ index <= MaxIndex => index < BatchEnd
BY DEF TypeOK, LocalTypeOK, BatchEnd, Positions

LEMMA DropLocalsTyped ==
  ASSUME DropLocals, pc' = "idle"
  PROVE  LocalTypeOK'
<1>1. chain' \in Chains
  BY DEF DropLocals, Chains
<1>2. QED
  BY <1>1 DEF DropLocals, LocalTypeOK, OnChains, Positions, Same

LEMMA EndScanTyped ==
  ASSUME EndScan
  PROVE  LocalTypeOK' /\ active' \in BOOLEAN /\ budget' \in 0..RpcBudget
<1>1. active' \in BOOLEAN
  BY DEF EndScan, ClearLimits
<1>2. budget' \in 0..RpcBudget
  BY DEF EndScan, ClearLimits
<1>3. QED
  BY <1>1, <1>2, DropLocalsTyped DEF EndScan

LEMMA GrantTyped ==
  ASSUME GrantBudget
  PROVE  active' \in BOOLEAN /\ budget' \in 0..RpcBudget
<1>1. active' \in BOOLEAN
  BY DEF GrantBudget
<1>2. budget' \in 0..RpcBudget
  BY DEF GrantBudget
<1>3. QED
  BY <1>1, <1>2

LEMMA SpendTyped ==
  ASSUME TypeOK, NEW n \in Nat, CanSpend(n), Spend(n)
  PROVE  active' \in BOOLEAN /\ budget' \in 0..RpcBudget
<1>1. active' \in BOOLEAN
  BY DEF TypeOK, FlagsTypeOK, Spend
<1>2. budget' \in 0..RpcBudget
  BY DEF TypeOK, CountersTypeOK, CanSpend, Spend
<1>3. QED
  BY <1>1, <1>2

LEMMA EnterChainTyped ==
  ASSUME TypeOK, NEW d, EnterChain(d)
  PROVE  /\ pc' \in {"save", "fetch"}
         /\ chain' \in Chains
         /\ index' \in Positions
         /\ empty' \in 0..GapLimit
<1>1. chain' \in Chains
  BY DEF TypeOK, LocalTypeOK, EnterChain, position, Chains
<1>2. index' \in Positions
  BY <1>1 DEF TypeOK, LocalTypeOK, EnterChain, position, OnChains
<1>3. QED
  BY <1>1, <1>2 DEF TypeOK, LocalTypeOK, EnterChain, position

LEMMA InitTyped == Init => TypeOK
<1> SUFFICES ASSUME Init PROVE TypeOK
  OBVIOUS
<1>1. WalletTypeOK
  BY DEF Init, WalletTypeOK, OnChains, Same, Positions, Indices
<1>2. LocalTypeOK
  <2>1. chain \in Chains
    BY DEF Init, Chains
  <2>2. QED
    BY <2>1 DEF Init, LocalTypeOK, OnChains, Same, Positions
<1>3. FlagsTypeOK
  BY DEF Init, FlagsTypeOK
<1>4. CountersTypeOK
  BY DEF Init, CountersTypeOK
<1>5. RefreshTypeOK
  BY DEF Init, RefreshTypeOK, OnChains, Same
<1>6. QED
  BY <1>1, <1>2, <1>3, <1>4, <1>5 DEF TypeOK

LEMMA SizeNat ==
  ASSUME NEW f \in OnChains(SUBSET Indices)
  PROVE  Size(f) \in Nat
<1>1. IsFiniteSet(Indices)
  BY FS_Interval DEF Indices
<1>2. f["external"] \subseteq Indices /\ f["internal"] \subseteq Indices
  BY DEF OnChains, Chains
<1>3. QED
  BY <1>1, <1>2, FS_Subset, FS_CardinalityType DEF Size

LEMMA ProbedTyped == TypeOK => Probed \in OnChains(SUBSET Indices)
BY DEF TypeOK, WalletTypeOK, Probed, OnChains, Indices, Chains

LEMMA DropRefreshTyped ==
  ASSUME DropRefresh
  PROVE  RefreshTypeOK'
BY DEF DropRefresh, RefreshTypeOK, OnChains, Same

LEMMA StepTyped ==
  ASSUME TypeOK, [Next]_vars
  PROVE  TypeOK'
<1> USE DEF TypeOK
<1>0. ASSUME UNCHANGED other
      PROVE  RefreshTypeOK'
  BY <1>0 DEF other, RefreshTypeOK
<1>1. CASE StartScan
  <2>1. LocalTypeOK'
    BY <1>1 DEF StartScan, LocalTypeOK, WalletTypeOK, LoadedDone, LoadedFunded,
                OnChains, position
  <2>2. FlagsTypeOK' /\ CountersTypeOK'
    BY <1>1, GrantTyped DEF StartScan, FlagsTypeOK, CountersTypeOK, bounds, keystore
  <2>3. QED
    BY <1>0, <1>1, <2>1, <2>2 DEF StartScan, WalletTypeOK, keystore
<1>2. CASE BeginSlice
  <2>1. slices' \in 0..MaxSlices
    BY <1>2 DEF BeginSlice, LocalTypeOK
  <2>2. LocalTypeOK'
    BY <1>2, <2>1, EnterChainTyped DEF BeginSlice, LocalTypeOK, progress
  <2>3. FlagsTypeOK' /\ CountersTypeOK'
    BY <1>2, GrantTyped DEF BeginSlice, FlagsTypeOK, CountersTypeOK, bounds, keystore
  <2>4. QED
    BY <1>0, <1>2, <2>2, <2>3 DEF BeginSlice, WalletTypeOK, keystore
<1>3. CASE BatchAnswered
  <2> DEFINE n == BatchEnd - index
  <2>1. n \in Nat
    BY BatchEndBounds DEF LocalTypeOK, Positions, BatchEnd
  <2>2. active' \in BOOLEAN /\ budget' \in 0..RpcBudget
    <3>1. CanSpend(n) /\ Spend(n)
      BY <1>3 DEF BatchAnswered
    <3> HIDE DEF n
    <3>2. QED
      BY <2>1, <3>1, SpendTyped
  <2>3. found' \in OnChains(SUBSET Indices)
    BY <1>3 DEF BatchAnswered, LocalTypeOK, WalletTypeOK, OnChains, Discovered
  <2>4. funded' \in OnChains(SUBSET Indices)
    BY <1>3, <2>3 DEF BatchAnswered, WalletTypeOK, FundedAfterHook
  <2>5. LocalTypeOK'
    BY <1>3, <2>3, BatchEndBounds DEF BatchAnswered, LocalTypeOK, progress
  <2>6. FlagsTypeOK' /\ CountersTypeOK'
    BY <1>3, <2>2 DEF BatchAnswered, FlagsTypeOK, CountersTypeOK, bounds
  <2>7. QED
    BY <1>0, <1>3, <2>4, <2>5, <2>6 DEF BatchAnswered, WalletTypeOK
<1>4. CASE CloseChain
  <2>1. LocalTypeOK'
    BY <1>4, EnterChainTyped DEF CloseChain, LocalTypeOK, OnChains
  <2>2. QED
    BY <1>0, <1>4, <2>1 DEF CloseChain, WalletTypeOK, FlagsTypeOK, CountersTypeOK, keystore,
                      client, bounds
<1>5. CASE BatchStopped /\ IsIndexingBudgetExhausted(BatchLimitError)
  <2>1. LocalTypeOK'
    BY <1>5 DEF BatchStopped, LocalTypeOK, OnChains, position
  <2>2. FlagsTypeOK'
    BY <1>5 DEF BatchStopped, FlagsTypeOK, keystore
  <2>3. CountersTypeOK'
    BY <1>5 DEF BatchStopped, CountersTypeOK, bounds
  <2>4. QED
    BY <1>0, <1>5, <2>1, <2>2, <2>3 DEF BatchStopped, WalletTypeOK, keystore
<1>6. CASE BatchStopped /\ ~IsIndexingBudgetExhausted(BatchLimitError)
  BY <1>0, <1>6, EndScanTyped
  DEF BatchStopped, WalletTypeOK, FlagsTypeOK, CountersTypeOK, keystore, bounds
<1>7. CASE SaveProgress
  <2>1. LocalTypeOK' /\ active' \in BOOLEAN /\ budget' \in 0..RpcBudget
    <3>1. CASE EndScan
      BY <3>1, EndScanTyped
    <3>2. CASE pc' \in {"mark", "slice"} /\ UNCHANGED <<client, local>>
      BY <3>2 DEF LocalTypeOK, FlagsTypeOK, CountersTypeOK, client, local, progress,
                  position
    <3>3. QED
      BY <1>7, <3>1, <3>2 DEF SaveProgress
  <2>2. WalletTypeOK'
    BY <1>7 DEF SaveProgress, WalletTypeOK, LocalTypeOK
  <2>3. FlagsTypeOK' /\ CountersTypeOK'
    BY <1>7, <2>1 DEF SaveProgress, FlagsTypeOK, CountersTypeOK, bounds
  <2>4. QED
    BY <1>0, <1>7, <2>1, <2>2, <2>3 DEF SaveProgress
<1>8. CASE MarkComplete
  <2>1. /\ LocalTypeOK' /\ active' \in BOOLEAN /\ budget' \in 0..RpcBudget
        /\ utxos' \in OnChains(SUBSET Indices)
    <3>1. CASE utxos' = Same({}) /\ EndScan
      BY <3>1, EndScanTyped DEF OnChains, Same
    <3>2. CASE pc' = "advance" /\ UNCHANGED <<utxos, client, local>>
      BY <3>2 DEF LocalTypeOK, FlagsTypeOK, CountersTypeOK, client, local, progress,
                  position, WalletTypeOK
    <3>3. QED
      BY <1>8, <3>1, <3>2 DEF MarkComplete
  <2>2. WalletTypeOK'
    BY <1>8, <2>1 DEF MarkComplete, WalletTypeOK, OnChains, Same, Positions
  <2>3. FlagsTypeOK'
    BY <1>8, <2>1 DEF MarkComplete, FlagsTypeOK
  <2>4. CountersTypeOK'
    BY <1>8, <2>1 DEF MarkComplete, CountersTypeOK, bounds
  <2>5. QED
    BY <1>0, <1>8, <2>1, <2>2, <2>3, <2>4 DEF MarkComplete
<1>9. CASE AdvanceReceive
  BY <1>0, <1>9 DEF AdvanceReceive, WalletTypeOK, FlagsTypeOK, CountersTypeOK, LocalTypeOK,
              client, local, progress, position, bounds
<1>10. CASE RefreshAfterScan
  <2>1. utxos' \in OnChains(SUBSET Indices) /\ funded' \in OnChains(SUBSET Indices)
    BY <1>10 DEF RefreshAfterScan, WalletTypeOK, OnChains, Held, Join
  <2>2. QED
    BY <1>0, <1>10, <2>1, EndScanTyped
    DEF RefreshAfterScan, WalletTypeOK, FlagsTypeOK, CountersTypeOK, bounds
<1>11. CASE RefreshRefused
  BY <1>0, <1>11, EndScanTyped
  DEF RefreshRefused, WalletTypeOK, FlagsTypeOK, CountersTypeOK, keystore, bounds
<1>12. CASE BeginRefresh
  <2>1. ProbeSize \in Nat
    OBVIOUS
  <2>2. /\ active' \in BOOLEAN /\ budget' \in 0..RpcBudget
        /\ RefreshTypeOK'
    <3>1. CASE CanSpend(ProbeSize)
      <4>1. active' \in BOOLEAN /\ budget' \in 0..RpcBudget
        BY <1>12, <2>1, <3>1, SpendTyped DEF BeginRefresh
      <4>2. RefreshTypeOK'
        BY <1>12, <3>1, ProbedTyped DEF BeginRefresh, RefreshTypeOK
      <4>3. QED
        BY <4>1, <4>2
    <3>2. CASE ~CanSpend(ProbeSize)
      BY <1>12, <3>2 DEF BeginRefresh, other, RefreshTypeOK, FlagsTypeOK
    <3>3. QED
      BY <3>1, <3>2
  <2>3. WalletTypeOK' /\ LocalTypeOK'
    BY <1>12 DEF BeginRefresh, WalletTypeOK, LocalTypeOK, keystore, local, progress, position
  <2>4. calls' \in 0..MaxCalls
    BY <1>12 DEF BeginRefresh, CountersTypeOK
  <2>5. FlagsTypeOK'
    BY <1>12, <2>2 DEF BeginRefresh, FlagsTypeOK, keystore
  <2>6. CountersTypeOK'
    BY <1>12, <2>2, <2>4 DEF BeginRefresh, CountersTypeOK
  <2>7. QED
    BY <2>2, <2>3, <2>5, <2>6
<1>13. CASE StoreProbed
  <2>1. WalletTypeOK' /\ RefreshTypeOK'
    BY <1>13 DEF StoreProbed, WalletTypeOK, RefreshTypeOK
  <2>2. LocalTypeOK'
    BY <1>13 DEF StoreProbed, LocalTypeOK, local, progress, position
  <2>3. FlagsTypeOK'
    BY <1>13 DEF StoreProbed, FlagsTypeOK, client
  <2>4. CountersTypeOK'
    BY <1>13 DEF StoreProbed, CountersTypeOK, client, bounds
  <2>5. QED
    BY <2>1, <2>2, <2>3, <2>4
<1>14. CASE ListCoins
  <2> DEFINE n == Size(listed)
  <2>1. n \in Nat
    BY SizeNat DEF RefreshTypeOK
  <2>2. active' \in BOOLEAN /\ budget' \in 0..RpcBudget
    <3> HIDE DEF n
    <3>1. CASE CanSpend(n)
      <4>1. Spend(n)
        BY <1>14, <3>1 DEF ListCoins, n
      <4>2. QED
        BY <2>1, <3>1, <4>1, SpendTyped
    <3>2. CASE ~CanSpend(n)
      BY <1>14, <3>2 DEF ListCoins, n, FlagsTypeOK
    <3>3. QED
      BY <3>1, <3>2
  <2>3. utxos' \in OnChains(SUBSET Indices) /\ funded' \in OnChains(SUBSET Indices)
    <3>1. Held(listed) \in OnChains(SUBSET Indices)
      BY DEF Held, OnChains, WalletTypeOK
    <3>2. Join(funded, Held(listed)) \in OnChains(SUBSET Indices)
      BY <3>1 DEF Join, OnChains, WalletTypeOK
    <3>3. QED
      BY <1>14, <3>1, <3>2 DEF ListCoins, WalletTypeOK
  <2>4. WalletTypeOK'
    BY <1>14, <2>3 DEF ListCoins, WalletTypeOK
  <2>5. FlagsTypeOK'
    BY <1>14, <2>2 DEF ListCoins, FlagsTypeOK
  <2>6. CountersTypeOK'
    BY <1>14, <2>2 DEF ListCoins, CountersTypeOK, bounds
  <2>7. LocalTypeOK' /\ RefreshTypeOK'
    BY <1>14, DropRefreshTyped DEF ListCoins, LocalTypeOK, local, progress, position
  <2>8. QED
    BY <2>4, <2>5, <2>6, <2>7
<1>15. CASE Rescan
  <2>1. WalletTypeOK'
    BY <1>15 DEF Rescan, WalletTypeOK, OnChains, Same, Positions
  <2>2. LocalTypeOK'
    BY <1>15 DEF Rescan, LocalTypeOK, local, progress, position
  <2>3. FlagsTypeOK'
    BY <1>15 DEF Rescan, FlagsTypeOK, client
  <2>4. CountersTypeOK'
    BY <1>15 DEF Rescan, CountersTypeOK, client
  <2>5. QED
    BY <1>0, <1>15, <2>1, <2>2, <2>3, <2>4 DEF Rescan
<1>16. ASSUME NEW kind, Fault(kind), LocalTypeOK', RefreshTypeOK', active' \in BOOLEAN,
              budget' \in 0..RpcBudget
       PROVE  TypeOK'
  <2>1. FlagsTypeOK'
    BY <1>16 DEF Fault, FlagsTypeOK, keystore
  <2>2. CountersTypeOK'
    <3>1. faults' \in [FaultKinds -> 0..MaxFaults]
      BY <1>16, SwitchesAssumption DEF Fault, CountersTypeOK, TypeOK
    <3>2. QED
      BY <1>16, <3>1 DEF Fault, CountersTypeOK, TypeOK
  <2>3. QED
    BY <1>16, <2>1, <2>2 DEF Fault, WalletTypeOK, keystore
<1>17. CASE NetworkFails
  <2>1. RefreshTypeOK'
    BY <1>17 DEF NetworkFails, RefreshTypeOK, other
  <2>2. QED
    BY <1>16, <1>17, <2>1, EndScanTyped DEF NetworkFails
<1>18. CASE RefreshFails
  <2>1. LocalTypeOK'
    BY <1>18 DEF RefreshFails, LocalTypeOK, local, progress, position
  <2>2. active' \in BOOLEAN
    BY <1>18 DEF RefreshFails, client, FlagsTypeOK
  <2>3. budget' \in 0..RpcBudget
    BY <1>18 DEF RefreshFails, client, CountersTypeOK
  <2>4. QED
    BY <1>16, <1>18, <2>1, <2>2, <2>3, DropRefreshTyped DEF RefreshFails
<1>19. CASE TimesOut
  <2>1. RefreshTypeOK'
    BY <1>19 DEF TimesOut, RefreshTypeOK, other
  <2>2. active' \in BOOLEAN
    BY <1>19 DEF TimesOut, client, FlagsTypeOK
  <2>3. budget' \in 0..RpcBudget
    BY <1>19 DEF TimesOut, client, CountersTypeOK
  <2>4. QED
    BY <1>16, <1>19, <2>1, <2>2, <2>3, DropLocalsTyped DEF TimesOut
<1>20. CASE Crash
  BY <1>16, <1>20, EndScanTyped, DropRefreshTyped DEF Crash
<1>21. CASE UNCHANGED vars
  <2>1. WalletTypeOK'
    BY <1>21 DEF vars, keystore, WalletTypeOK
  <2>2. LocalTypeOK' /\ RefreshTypeOK'
    BY <1>21 DEF vars, local, progress, position, other, LocalTypeOK, RefreshTypeOK
  <2>3. FlagsTypeOK'
    BY <1>21 DEF vars, keystore, client, FlagsTypeOK
  <2>4. CountersTypeOK'
    BY <1>21 DEF vars, client, bounds, CountersTypeOK
  <2>5. QED
    BY <2>1, <2>2, <2>3, <2>4
<1>22. QED
  BY <1>1, <1>2, <1>3, <1>4, <1>5, <1>6, <1>7, <1>8, <1>9, <1>10, <1>11, <1>12, <1>13,
     <1>14, <1>15, <1>17, <1>18, <1>19, <1>20, <1>21
  DEF Next, ScanStep, RefreshStep

\* Every variable keeps its type.
THEOREM TypeCorrect == Spec => []TypeOK
BY InitTyped, StepTyped, PTL DEF Spec

-----------------------------------------------------------------------------
(* The coins a scan has passed.                                            *)

LEMMA ReachableStable ==
  ASSUME hasFunds' = hasFunds, NEW c, NEW i
  PROVE  Reachable(c, i)' = Reachable(c, i)
BY DEF Reachable

\* No coin past a gap is reachable.
LEMMA GapEndsChain ==
  ASSUME TypeOK, PositionCovers, pc = "fetch",
         NEW j \in index..(BatchEnd - 1), GapClosedAt(j),
         NEW i \in hasFunds[chain], j < i
  PROVE  ~Reachable(chain, i)
<1>1. index \in Nat /\ empty \in Nat /\ empty <= index /\ GapLimit \in Nat \ {0}
  BY DEF TypeOK, LocalTypeOK, Positions, PositionCovers
<1>2. i \in Int /\ j \in Int
  BY <1>1 DEF TypeOK, WalletTypeOK, LocalTypeOK, OnChains, Indices
<1> DEFINE k == j - GapLimit + 1
<1>3. k \in k..j
  BY <1>1, <1>2
<1>4. k >= 0
  BY <1>1, <1>2, <1>3 DEF GapClosedAt
<1>5. k \in 0..(i - GapLimit)
  BY <1>1, <1>2, <1>4
<1>6. \A m \in k..(k + GapLimit - 1) : m \notin hasFunds[chain]
  BY <1>1, <1>2 DEF GapClosedAt
<1>7. QED
  BY <1>5, <1>6 DEF Reachable

\* After a batch, the list in memory covers the chain up to the batch's end, and all of
\* it when the batch has closed the gap.
LEMMA BatchCovers ==
  ASSUME TypeOK, PositionCovers, BatchAnswered
  PROVE  /\ Covers(found', chain, BatchEnd)
         /\ GapHit => Covers(found', chain, MaxIndex + 1)
<1>1. pc = "fetch" /\ Covers(found, chain, index)
  BY DEF BatchAnswered, PositionCovers
<1>2. found'[chain] = found[chain] \cup Discovered
  BY DEF BatchAnswered, TypeOK, LocalTypeOK, OnChains
<1>3. hasFunds[chain] \subseteq Int /\ index \in Int /\ BatchEnd \in Int
  BY BatchEndBounds DEF TypeOK, WalletTypeOK, LocalTypeOK, OnChains, Indices, Positions
<1>4. ASSUME NEW i \in hasFunds[chain], Reachable(chain, i), i < BatchEnd
      PROVE  i \in found'[chain]
  <2>1. CASE i < index
    BY <1>1, <1>2, <1>4, <2>1 DEF Covers
  <2>2. CASE i >= index
    <3>1. i \in index..(BatchEnd - 1)
      BY <1>3, <1>4, <2>2
    <3>2. \A j \in index..(i - 1) : ~GapClosedAt(j)
      BY <1>1, <1>3, <1>4, <3>1, GapEndsChain
    <3>3. QED
      BY <1>2, <3>1, <3>2 DEF Discovered
  <2>3. QED
    BY <1>3, <2>1, <2>2
<1>5. ASSUME GapHit, NEW i \in hasFunds[chain], Reachable(chain, i)
      PROVE  i < BatchEnd
  <2>1. PICK j \in index..(BatchEnd - 1) : GapClosedAt(j)
    BY <1>5 DEF GapHit
  <2>2. ~(j < i)
    BY <1>1, <1>5, <2>1, GapEndsChain
  <2>3. QED
    BY <1>3, <2>2
<1>6. QED
  BY <1>4, <1>5 DEF Covers

-----------------------------------------------------------------------------
(* The inductive invariant.                                                *)

\* Growing lists keep what they have passed.
LEMMA PassedWeaker ==
  ASSUME TypeOK, NEW f, NEW g, NEW cur, NEW dn, Passed(f, cur, dn),
         \A c \in Chains : f[c] \subseteq g[c]
  PROVE  Passed(g, cur, dn)
<1>1. ScannedChains \subseteq Chains
  BY DEF ScannedChains, Chains
<1>2. QED
  BY <1>1 DEF Passed, Covers

\* A claim about f carries over a step that keeps the balances.
LEMMA PassedStable ==
  ASSUME hasFunds' = hasFunds
  PROVE  /\ SavedProgressCovers' <=> Passed(funded', cursor', done')
         /\ ScanUnderWayCovers' <=>
              (pc' # "idle" =>
                 /\ Passed(found', cursor', done')
                 /\ Passed(found', progressCursor', progressDone')
                 /\ \A c \in Chains : found'[c] \subseteq funded'[c])
         /\ PositionCovers' <=>
              /\ pc' \in {"fetch", "closed"} =>
                   /\ chain' \in ScannedChains
                   /\ chain' = "internal" => progressDone'["external"]
              /\ pc' = "fetch" =>
                   /\ Covers(found', chain', index')
                   /\ empty' <= index'
                   /\ \A k \in (index' - empty')..(index' - 1) : k \notin hasFunds[chain']
              /\ pc' = "closed" => Covers(found', chain', MaxIndex + 1)
BY ReachableStable
DEF SavedProgressCovers, ScanUnderWayCovers, PositionCovers, Passed, Covers, Reachable

\* A step that ends the scan has only the record to answer for.
LEMMA IdleInv ==
  ASSUME pc' = "idle", hasFunds' = hasFunds, Passed(funded', cursor', done'),
         complete' => AllDone(done'), cursor'["internal"] > 0 => done'["external"],
         RefreshGrows'
  PROVE  ScanInv'
BY PassedStable DEF ScanInv, ScanUnderWayCovers, PositionCovers, FlagsAgree, AllDone

\* In particular one that leaves the record as it is, or only adds to the list.
LEMMA StopInv ==
  ASSUME TypeOK, ScanInv, pc' = "idle",
         UNCHANGED <<hasFunds, cursor, done, complete>>,
         \A c \in Chains : funded[c] \subseteq funded'[c],
         RefreshGrows'
  PROVE  ScanInv'
<1>1. Passed(funded', cursor', done')
  BY PassedWeaker DEF ScanInv, SavedProgressCovers
<1>2. QED
  BY <1>1, IdleInv DEF ScanInv, FlagsAgree

\* A scan that starts from the beginning has passed nothing.
LEMMA NothingPassed ==
  ASSUME TypeOK, NEW f
  PROVE  Passed(f, Same(0), Same(FALSE))
<1>1. \A c \in ScannedChains : ~Same(FALSE)[c] /\ Same(0)[c] = 0
  BY DEF Same, ScannedChains, Chains
<1>2. \A c \in ScannedChains : \A i \in hasFunds[c] : ~(i < 0)
  BY DEF TypeOK, WalletTypeOK, OnChains, ScannedChains, Chains, Indices
<1>3. QED
  BY <1>1, <1>2 DEF Passed, Covers

LEMMA InitInv == Init => ScanInv
<1> SUFFICES ASSUME Init PROVE ScanInv
  OBVIOUS
<1>1. SavedProgressCovers
  BY InitTyped, NothingPassed DEF Init, SavedProgressCovers
<1>2. QED
  BY <1>1 DEF ScanInv, Init, ScanUnderWayCovers, PositionCovers, FlagsAgree, RefreshGrows,
              Same, Chains

\* Entering a chain: what the progress has passed is what the chain's position covers.
LEMMA EnterChainInv ==
  ASSUME TypeOK, hasFunds' = hasFunds, EnterChain(progressDone'),
         progressDone' \in OnChains(BOOLEAN),
         Passed(found', progressCursor, progressDone')
  PROVE  PositionCovers'
<1>1. CASE AllDone(progressDone')
  BY <1>1, PassedStable DEF EnterChain
<1>2. CASE ~AllDone(progressDone')
  <2>1. chain' \in ScannedChains /\ ~progressDone'[chain']
    BY <1>2 DEF EnterChain, AllDone, ScannedChains, Chains
  <2>2. Covers(found', chain', index')
    BY <1>2, <2>1 DEF EnterChain, Passed
  <2>3. index' \in Nat /\ empty' = 0
    BY <1>2, EnterChainTyped DEF EnterChain, Positions
  <2>4. pc' = "fetch" /\ (chain' = "internal" => progressDone'["external"])
    BY <1>2 DEF EnterChain
  <2>5. \A k \in (index' - empty')..(index' - 1) : k \notin hasFunds[chain']
    BY <2>3
  <2>6. empty' <= index'
    BY <2>3
  <2>7. QED
    BY <2>1, <2>2, <2>4, <2>5, <2>6, PassedStable, Zenon
<1>3. QED
  BY <1>1, <1>2

LEMMA StepInv ==
  ASSUME TypeOK, ScanInv, [Next]_vars, ~RefreshBesideScan
  PROVE  ScanInv'
<1> USE DEF ScanInv
<1>0. ASSUME pc # "idle", UNCHANGED other
      PROVE  RefreshGrows'
  BY <1>0 DEF RefreshGrows, other
<1>1. CASE StartScan
  <2>1. LoadedDone = done
    BY DEF LoadedDone, TypeOK, WalletTypeOK, OnChains, FlagsAgree, Chains
  <2>2. /\ UNCHANGED <<hasFunds, keystore>>
        /\ found' = funded /\ progressCursor' = cursor /\ progressDone' = done
        /\ pc' = "slice" /\ ~complete
    BY <1>1, <2>1 DEF StartScan, LoadedFunded
  <2>3. SavedProgressCovers'
    BY <2>2, PassedStable DEF SavedProgressCovers, keystore
  <2>4. ScanUnderWayCovers'
    BY <2>2, PassedStable DEF SavedProgressCovers, keystore
  <2>5. PositionCovers'
    BY <2>2, PassedStable
  <2>6. FlagsAgree'
    BY <2>2 DEF FlagsAgree, AllDone, keystore
  <2>7. RefreshGrows'
    BY <1>1 DEF StartScan, RefreshGrows, other
  <2>8. QED
    BY <2>3, <2>4, <2>5, <2>6, <2>7
<1>2. CASE BeginSlice
  <2>0. RefreshGrows'
    BY <1>0, <1>2 DEF BeginSlice
  <2>1. /\ UNCHANGED <<hasFunds, keystore, progress, found>>
        /\ pc = "slice" /\ pc' \in {"save", "fetch"} /\ EnterChain(progressDone')
    BY <1>2, EnterChainTyped DEF BeginSlice, progress
  <2>2. SavedProgressCovers' /\ ScanUnderWayCovers'
    BY <2>1, PassedStable DEF SavedProgressCovers, ScanUnderWayCovers, keystore, progress
  <2>3. PositionCovers'
    BY <2>1, EnterChainInv DEF ScanUnderWayCovers, progress, TypeOK, LocalTypeOK
  <2>4. FlagsAgree'
    BY <2>1 DEF FlagsAgree, AllDone, keystore, progress
  <2>5. QED
    BY <2>0, <2>2, <2>3, <2>4
<1>3. CASE BatchAnswered
  <2>0. RefreshGrows'
    BY <1>0, <1>3 DEF BatchAnswered
  <2>1. /\ UNCHANGED <<hasFunds, cursor, done, complete, progress, chain>>
        /\ pc = "fetch" /\ pc' = IF GapHit \/ BatchEnd > MaxIndex THEN "closed" ELSE "fetch"
        /\ index' = BatchEnd
    BY <1>3 DEF BatchAnswered
  <2>2. \A c \in Chains : found[c] \subseteq found'[c]
    BY <1>3 DEF BatchAnswered, TypeOK, LocalTypeOK, OnChains
  <2>3. \A c \in Chains : found'[c] \subseteq funded'[c]
    BY <1>3, <2>1 DEF BatchAnswered, FundedAfterHook, ScanUnderWayCovers
  <2>4. Passed(found', cursor, done) /\ Passed(found', progressCursor, progressDone)
    BY <2>1, <2>2, PassedWeaker DEF ScanUnderWayCovers
  <2>5. SavedProgressCovers'
    <3>1. \A c \in Chains : found'[c] \subseteq funded'[c]
      BY <2>3
    <3>2. Passed(funded', cursor, done)
      BY <2>4, <3>1, PassedWeaker
    <3>3. QED
      BY <2>1, <3>2, PassedStable
  <2>6. ScanUnderWayCovers'
    BY <2>1, <2>3, <2>4, PassedStable DEF progress
  <2>7. PositionCovers'
    <3>1. Covers(found', chain, BatchEnd)
      BY <1>3, BatchCovers
    <3>2. pc' = "closed" => Covers(found', chain, MaxIndex + 1)
      <4>1. CASE GapHit
        BY <1>3, <4>1, BatchCovers
      <4>2. CASE BatchEnd > MaxIndex
        BY <3>1, <4>2, BatchEndBounds DEF Positions
      <4>3. QED
        BY <2>1, <4>1, <4>2
    <3>3. pc' = "fetch" => /\ empty' <= index'
                           /\ \A k \in (index' - empty')..(index' - 1) : k \notin hasFunds[chain]
      <4> SUFFICES ASSUME ~GapHit
                   PROVE  /\ empty' <= index'
                          /\ \A k \in (index' - empty')..(index' - 1) : k \notin hasFunds[chain]
        BY <2>1
      <4>1. EmptyAfterBatch(empty') /\ empty' \in 0..GapLimit
        BY <1>3 DEF BatchAnswered
      <4>2. BatchEnd - empty' >= index - empty /\ index >= empty
        BY <2>1, <4>1 DEF EmptyAfterBatch, PositionCovers
      <4>3. BatchEnd \in Int /\ index \in Int /\ empty \in Int /\ empty' \in Int
        BY <4>1, BatchEndBounds DEF TypeOK, LocalTypeOK, Positions
      <4>4. empty' <= BatchEnd
        <5>1. ASSUME NEW b \in Int, NEW e \in Int, NEW i \in Int, NEW m \in Int,
                     b - e >= i - m, i >= m
              PROVE  e <= b
          BY <5>1
        <5>2. QED
          BY <4>2, <4>3, <5>1
      <4>5. \A k \in (BatchEnd - empty')..(BatchEnd - 1) : k \notin hasFunds[chain]
        BY <4>1 DEF EmptyAfterBatch
      <4>6. QED
        BY <2>1, <4>4, <4>5
    <3>4. chain \in ScannedChains /\ (chain = "internal" => progressDone["external"])
      BY <2>1 DEF PositionCovers
    <3>5. QED
      BY <2>1, <3>1, <3>2, <3>3, <3>4, PassedStable DEF progress
  <2>8. FlagsAgree'
    BY <2>1 DEF FlagsAgree, AllDone, progress
  <2>9. QED
    BY <2>0, <2>5, <2>6, <2>7, <2>8
<1>4. CASE CloseChain
  <2>0. RefreshGrows'
    BY <1>0, <1>4 DEF CloseChain
  <2>1. /\ UNCHANGED <<hasFunds, keystore, found>>
        /\ pc = "closed" /\ pc' \in {"save", "fetch"} /\ EnterChain(progressDone')
        /\ progressCursor' = [progressCursor EXCEPT ![chain] = index]
        /\ progressDone' = [progressDone EXCEPT ![chain] = TRUE]
    BY <1>4, EnterChainTyped DEF CloseChain
  <2>2. Passed(found, progressCursor, progressDone')
    <3>1. Covers(found, chain, MaxIndex + 1)
      BY <2>1 DEF PositionCovers
    <3>2. \A c \in ScannedChains :
            /\ c = chain => progressDone'[c]
            /\ c # chain => (progressDone'[c] <=> progressDone[c])
      BY <2>1 DEF TypeOK, LocalTypeOK, OnChains, ScannedChains, Chains
    <3>3. QED
      BY <2>1, <3>1, <3>2 DEF Passed, ScanUnderWayCovers
  <2>3. Passed(found, progressCursor', progressDone')
    <3>1. progressDone'[chain]
      BY <2>1 DEF TypeOK, LocalTypeOK, OnChains
    <3>2. \A c \in ScannedChains : c # chain => progressCursor'[c] = progressCursor[c]
      BY <2>1 DEF TypeOK, LocalTypeOK, OnChains, ScannedChains, Chains
    <3>3. QED
      BY <2>2, <3>1, <3>2 DEF Passed
  <2>4. SavedProgressCovers' /\ ScanUnderWayCovers'
    BY <2>1, <2>3, PassedStable DEF SavedProgressCovers, ScanUnderWayCovers, keystore
  <2>5. PositionCovers'
    BY <2>1, <2>2, EnterChainInv DEF TypeOK, LocalTypeOK, OnChains
  <2>6. progressCursor'["internal"] > 0 => progressDone'["external"]
    BY <2>1 DEF FlagsAgree, PositionCovers, TypeOK, LocalTypeOK, OnChains, Chains
  <2>7. FlagsAgree'
    BY <2>1, <2>6 DEF FlagsAgree, AllDone, keystore
  <2>8. QED
    BY <2>0, <2>4, <2>5, <2>7
<1>5. CASE BatchStopped /\ IsIndexingBudgetExhausted(BatchLimitError)
  <2>0. RefreshGrows'
    BY <1>0, <1>5 DEF BatchStopped
  <2>1. /\ UNCHANGED <<hasFunds, keystore, found, progressDone>>
        /\ pc = "fetch" /\ pc' = "save"
        /\ progressCursor' = [progressCursor EXCEPT ![chain] = index]
    BY <1>5 DEF BatchStopped
  <2>2. Passed(found, progressCursor', progressDone)
    <3>1. Covers(found, chain, index)
      BY <2>1 DEF PositionCovers
    <3>2. \A c \in ScannedChains :
            progressCursor'[c] = IF c = chain THEN index ELSE progressCursor[c]
      BY <2>1 DEF TypeOK, LocalTypeOK, OnChains, ScannedChains, Chains
    <3>3. Passed(found, progressCursor, progressDone)
      BY <2>1 DEF ScanUnderWayCovers
    <3>4. QED
      BY <3>1, <3>2, <3>3 DEF Passed
  <2>3. SavedProgressCovers' /\ ScanUnderWayCovers' /\ PositionCovers'
    BY <2>1, <2>2, PassedStable DEF SavedProgressCovers, ScanUnderWayCovers, keystore
  <2>4. progressCursor'["internal"] > 0 => progressDone["external"]
    BY <2>1 DEF FlagsAgree, PositionCovers, TypeOK, LocalTypeOK, OnChains, Chains
  <2>5. FlagsAgree'
    BY <2>1, <2>4 DEF FlagsAgree, AllDone, keystore
  <2>6. QED
    BY <2>0, <2>3, <2>5
<1>6. CASE BatchStopped /\ ~IsIndexingBudgetExhausted(BatchLimitError)
  BY <1>0, <1>6, StopInv DEF BatchStopped, EndScan, keystore
<1>7. CASE SaveProgress
  <2>0. RefreshGrows'
    BY <1>0, <1>7 DEF SaveProgress
  <2>1. /\ UNCHANGED <<hasFunds, funded, complete>>
        /\ pc = "save" /\ cursor' = progressCursor /\ done' = progressDone
    BY <1>7 DEF SaveProgress
  <2>2. Passed(funded, progressCursor, progressDone)
    BY <2>1, PassedWeaker DEF ScanUnderWayCovers
  <2>3. ~complete
    BY <2>1 DEF FlagsAgree
  <2>4. CASE EndScan
    BY <2>1, <2>2, <2>3, <2>4, <2>0, IdleInv DEF EndScan, FlagsAgree
  <2>5. CASE UNCHANGED local /\ pc' \in {"mark", "slice"}
            /\ (pc' = "mark" => AllDone(progressDone))
    <3>1. SavedProgressCovers' /\ ScanUnderWayCovers' /\ PositionCovers'
      BY <2>1, <2>2, <2>5, PassedStable DEF ScanUnderWayCovers, local, progress
    <3>2. FlagsAgree'
      BY <2>1, <2>3, <2>5 DEF FlagsAgree, AllDone, local, progress
    <3>3. QED
      BY <2>0, <3>1, <3>2
  <2>6. QED
    BY <1>7, <2>4, <2>5 DEF SaveProgress
<1>8. CASE MarkComplete
  <2>0. RefreshGrows'
    BY <1>0, <1>8 DEF MarkComplete
  <2>1. /\ UNCHANGED <<hasFunds, funded>>
        /\ pc = "mark" /\ cursor' = Same(0) /\ done' = Same(TRUE) /\ AllDone(done)
    BY <1>8 DEF MarkComplete, FlagsAgree
  <2>2. ASSUME NEW f, Passed(f, cursor, done)
        PROVE  Passed(f, cursor', done')
    BY <2>1, <2>2 DEF Passed, AllDone, Same, ScannedChains, Chains
  <2>3. Passed(funded', cursor', done')
    BY <2>1, <2>2 DEF SavedProgressCovers
  <2>4. AllDone(done') /\ done'["external"]
    BY <2>1 DEF AllDone, Same, ScannedChains, Chains
  <2>5. CASE EndScan
    BY <2>1, <2>3, <2>4, <2>5, <2>0, IdleInv DEF EndScan
  <2>6. CASE pc' = "advance" /\ UNCHANGED local
    <3>1. Passed(found, cursor', done')
      BY <2>1, <2>2 DEF ScanUnderWayCovers
    <3>2. SavedProgressCovers' /\ ScanUnderWayCovers' /\ PositionCovers'
      BY <2>1, <2>3, <2>6, <3>1, PassedStable DEF ScanUnderWayCovers, local, progress
    <3>3. FlagsAgree'
      BY <2>1, <2>4, <2>6 DEF FlagsAgree, local, progress
    <3>4. QED
      BY <2>0, <3>2, <3>3
  <2>7. QED
    BY <1>8, <2>5, <2>6 DEF MarkComplete
<1>9. CASE AdvanceReceive
  <2>0. RefreshGrows'
    BY <1>0, <1>9 DEF AdvanceReceive
  <2>1. /\ UNCHANGED <<hasFunds, cursor, done, funded, complete, local>>
        /\ pc = "advance" /\ pc' = "refresh"
    BY <1>9 DEF AdvanceReceive
  <2>2. SavedProgressCovers' /\ ScanUnderWayCovers' /\ PositionCovers'
    BY <2>1, PassedStable DEF SavedProgressCovers, ScanUnderWayCovers, local, progress
  <2>3. FlagsAgree'
    BY <2>1 DEF FlagsAgree, AllDone, local, progress
  <2>4. QED
    BY <2>0, <2>2, <2>3
<1>10. CASE RefreshAfterScan
  <2>0. RefreshGrows'
    BY <1>0, <1>10 DEF RefreshAfterScan
  <2>1. \A c \in Chains : funded[c] \subseteq funded'[c]
    BY <1>10 DEF RefreshAfterScan, Join
  <2>2. QED
    BY <2>0, <1>10, <2>1, StopInv DEF RefreshAfterScan, EndScan
<1>11. CASE RefreshRefused
  BY <1>0, <1>11, StopInv DEF RefreshRefused, EndScan, keystore
<1>12. CASE BeginRefresh
  <2>1. pc' = "idle" /\ UNCHANGED <<hasFunds, keystore>>
    BY <1>12 DEF BeginRefresh, RefreshGrows
  <2>2. \A c \in Chains : funded[c] \subseteq Probed[c]
    BY DEF Probed, TypeOK, WalletTypeOK, OnChains, Chains
  <2>3. RefreshGrows'
    BY <1>12, <2>1, <2>2 DEF BeginRefresh, RefreshGrows, keystore, other
  <2>4. QED
    BY <2>1, <2>3, StopInv DEF keystore
<1>13. CASE StoreProbed
  <2>1. /\ UNCHANGED <<hasFunds, cursor, done, complete>>
        /\ pc' = "idle" /\ refresh' = "list" /\ funded' = listed
    BY <1>13 DEF StoreProbed, RefreshGrows
  <2>2. \A c \in Chains : funded[c] \subseteq listed[c]
    BY <1>13 DEF StoreProbed, RefreshGrows
  <2>3. RefreshGrows'
    BY <2>1 DEF RefreshGrows
  <2>4. QED
    BY <2>1, <2>2, <2>3, StopInv
<1>14. CASE ListCoins
  <2>1. /\ UNCHANGED <<hasFunds, cursor, done, complete>>
        /\ pc' = "idle" /\ refresh' = "none"
        /\ funded' \in {funded, Join(funded, Held(listed))}
    BY <1>14 DEF ListCoins, DropRefresh, RefreshGrows
  <2>2. \A c \in Chains : funded[c] \subseteq funded'[c]
    BY <2>1 DEF Join
  <2>3. RefreshGrows'
    BY <2>1 DEF RefreshGrows
  <2>4. QED
    BY <2>1, <2>2, <2>3, StopInv
<1>15. CASE Rescan
  <2>1. /\ UNCHANGED <<hasFunds, funded, other>>
        /\ pc' = "idle" /\ cursor' = Same(0) /\ done' = Same(FALSE) /\ complete' = FALSE
    BY <1>15 DEF Rescan
  <2>2. Passed(funded', cursor', done')
    BY <2>1, NothingPassed
  <2>3. RefreshGrows'
    BY <2>1 DEF RefreshGrows, other
  <2>4. QED
    BY <2>1, <2>2, <2>3, IdleInv DEF Same, Chains
<1>16. CASE NetworkFails \/ RefreshFails \/ TimesOut \/ Crash
  <2>1. pc' = "idle" /\ UNCHANGED <<hasFunds, keystore>>
    BY <1>16 DEF NetworkFails, RefreshFails, TimesOut, Crash, Fault, EndScan, RefreshGrows
  <2>2. RefreshGrows'
    BY <1>0, <1>16
    DEF NetworkFails, RefreshFails, TimesOut, Crash, DropRefresh, RefreshGrows
  <2>3. QED
    BY <2>1, <2>2, StopInv DEF keystore
<1>17. CASE UNCHANGED vars
  <2>1. /\ UNCHANGED <<hasFunds, cursor, done, funded, complete, pc, progressCursor>>
        /\ UNCHANGED <<progressDone, found, chain, index, empty, other>>
    BY <1>17 DEF vars, keystore, local, progress, position
  <2>2. SavedProgressCovers' /\ ScanUnderWayCovers' /\ PositionCovers'
    BY <2>1, PassedStable DEF SavedProgressCovers, ScanUnderWayCovers, PositionCovers
  <2>3. FlagsAgree' /\ RefreshGrows'
    BY <2>1 DEF FlagsAgree, AllDone, RefreshGrows, other
  <2>4. QED
    BY <2>2, <2>3
<1>18. QED
  BY <1>1, <1>2, <1>3, <1>4, <1>5, <1>6, <1>7, <1>8, <1>9, <1>10, <1>11, <1>12,
     <1>13, <1>14, <1>15, <1>16, <1>17
  DEF Next, ScanStep, RefreshStep

\* At every step, the lists in memory and in the keystore hold each coin that the saved
\* progress, and the progress of the scan under way, have passed (gap_scan.rs:29-175,
\* sync_engine.rs:371-473), as long as no refresh overlaps a scan.
THEOREM ScanInvHolds ==
  ASSUME ~RefreshBesideScan
  PROVE  Spec => []ScanInv
BY TypeCorrect, InitInv, StepInv, PTL DEF Spec

\* A wallet marked as scanned has found every coin the gap rule reaches, for wallets of
\* any length and any gap, batch, budget and number of slices.
THEOREM CompleteScanFoundAll ==
  ASSUME ~RefreshBesideScan
  PROVE  Spec => []ScanCompleteFoundAll
<1>1. ScanInv => ScanCompleteFoundAll
  BY DEF ScanInv, SavedProgressCovers, Passed, FlagsAgree, AllDone, ScanCompleteFoundAll
<1>2. QED
  BY <1>1, ScanInvHolds, PTL

\* The progress that a later scan resumes from skips no coin.
THEOREM SavedProgressSkipsNothing ==
  ASSUME ~RefreshBesideScan
  PROVE  Spec => []SavedProgressCovers
<1>1. ScanInv => SavedProgressCovers
  BY DEF ScanInv
<1>2. QED
  BY <1>1, ScanInvHolds, PTL

-----------------------------------------------------------------------------
(* The next address handed out. The marked wallet is left alone with an    *)
(* old index only between mark_address_scan_complete and                   *)
(* set_receive_index_at_least; a crash there leaves it so for good, as     *)
(* GapScan_crash.cfg shows, and no other fault can strike there.           *)

UsedArePassed ==
  \A i \in hasFunds["external"] : Reachable("external", i) => i < nextReceive

\* A wallet marked as scanned has its index past every used one, but at the step between.
ReceiveInv ==
  /\ pc = "advance" => complete
  /\ complete /\ pc # "advance" => UsedArePassed

\* A scan that has passed all of the external chain holds each of its reachable coins.
LEMMA FoundReachable ==
  ASSUME TypeOK, NEW f, NEW d, Passed(f, cursor, d), AllDone(d),
         NEW i \in hasFunds["external"], Reachable("external", i)
  PROVE  i \in f["external"]
<1>1. "external" \in ScannedChains
  BY DEF ScannedChains, Chains
<1>2. d["external"] /\ Covers(f, "external", MaxIndex + 1)
  BY <1>1 DEF Passed, AllDone
<1>3. i \in Nat /\ i < MaxIndex + 1
  BY DEF TypeOK, WalletTypeOK, OnChains, Indices, Chains
<1>4. QED
  BY <1>2, <1>3 DEF Covers

LEMMA ReceiveKept ==
  ASSUME ReceiveInv, UNCHANGED <<hasFunds, nextReceive>>,
         complete' => complete /\ pc # "advance", pc' # "advance"
  PROVE  ReceiveInv'
BY DEF ReceiveInv, UsedArePassed, Reachable

LEMMA ReceiveStep ==
  ASSUME TypeOK, ScanInv, ReceiveInv, [Next]_vars, ~RefreshBesideScan, ~Crash
  PROVE  ReceiveInv'
<1>0. FlagsAgree /\ ScanUnderWayCovers /\ RefreshGrows
  BY DEF ScanInv
<1>1. CASE StartScan
  <2>1. UNCHANGED <<hasFunds, nextReceive, complete>> /\ ~complete /\ pc' = "slice"
    BY <1>1 DEF StartScan, keystore
  <2>2. QED
    BY <2>1, ReceiveKept
<1>2. CASE BeginSlice \/ CloseChain
  <2>1. /\ UNCHANGED <<hasFunds, nextReceive, complete>>
        /\ pc \in {"slice", "closed"} /\ pc' \in {"save", "fetch"}
    BY <1>2 DEF BeginSlice, CloseChain, EnterChain, keystore
  <2>2. QED
    BY <2>1, <1>0, ReceiveKept DEF FlagsAgree
<1>3. CASE BatchAnswered \/ (BatchStopped /\ IsIndexingBudgetExhausted(BatchLimitError))
  <2>1. /\ UNCHANGED <<hasFunds, nextReceive, complete>>
        /\ pc = "fetch" /\ pc' \in {"closed", "save", "fetch"}
    BY <1>3 DEF BatchAnswered, BatchStopped, keystore
  <2>2. QED
    BY <2>1, <1>0, ReceiveKept DEF FlagsAgree
<1>4. CASE (BatchStopped /\ ~IsIndexingBudgetExhausted(BatchLimitError)) \/ SaveProgress
  <2>1. /\ UNCHANGED <<hasFunds, nextReceive, complete>>
        /\ pc \in {"fetch", "save"} /\ pc' \in {"idle", "mark", "slice"}
    BY <1>4 DEF BatchStopped, SaveProgress, EndScan, keystore
  <2>2. QED
    BY <2>1, <1>0, ReceiveKept DEF FlagsAgree
<1>5. CASE MarkComplete
  <2>1. /\ UNCHANGED <<hasFunds, nextReceive>> /\ complete'
        /\ pc = "mark" /\ AllDone(done) /\ Passed(found, cursor, done)
    BY <1>0, <1>5 DEF MarkComplete, FlagsAgree, ScanUnderWayCovers
  <2>2. CASE found = Same({})
    <3>1. pc' = "idle"
      BY <1>5, <2>2 DEF MarkComplete, EndScan
    <3>2. ASSUME NEW i \in hasFunds["external"], Reachable("external", i)
          PROVE  FALSE
      <4>1. i \in found["external"]
        BY <2>1, <3>2, FoundReachable
      <4>2. QED
        BY <2>2, <4>1 DEF Same, Chains
    <3>3. QED
      BY <2>1, <3>1, <3>2 DEF ReceiveInv, UsedArePassed, Reachable
  <2>3. CASE found # Same({})
    <3>1. pc' = "advance"
      BY <1>5, <2>3 DEF MarkComplete
    <3>2. QED
      BY <2>1, <3>1 DEF ReceiveInv
  <2>4. QED
    BY <2>2, <2>3
<1>6. CASE AdvanceReceive
  <2>1. /\ UNCHANGED <<hasFunds, complete>> /\ pc = "advance" /\ pc' = "refresh"
        /\ \A i \in found["external"] : i < nextReceive'
    BY <1>6 DEF AdvanceReceive, PastUsed
  <2>2. AllDone(done) /\ Passed(found, cursor, done)
    BY <1>0, <2>1 DEF ReceiveInv, FlagsAgree, ScanUnderWayCovers
  <2>3. ASSUME NEW i \in hasFunds["external"], Reachable("external", i)
        PROVE  i < nextReceive'
    BY <2>1, <2>2, <2>3, FoundReachable
  <2>4. QED
    BY <2>1, <2>3 DEF ReceiveInv, UsedArePassed, Reachable
<1>7. CASE RefreshAfterScan \/ RefreshRefused
  <2>1. /\ UNCHANGED <<hasFunds, nextReceive, complete>> /\ pc = "refresh" /\ pc' = "idle"
    BY <1>7 DEF RefreshAfterScan, RefreshRefused, EndScan, keystore
  <2>2. QED
    BY <2>1, ReceiveKept
<1>8. CASE BeginRefresh
  <2>1. UNCHANGED <<hasFunds, nextReceive, complete, pc>> /\ pc = "idle"
    BY <1>8 DEF BeginRefresh, keystore
  <2>2. QED
    BY <2>1, ReceiveKept
<1>9. CASE StoreProbed \/ ListCoins
  <2>1. UNCHANGED <<hasFunds, nextReceive, complete, pc>> /\ pc = "idle"
    BY <1>0, <1>9 DEF StoreProbed, ListCoins, RefreshGrows
  <2>2. QED
    BY <2>1, ReceiveKept
<1>10. CASE Rescan
  <2>1. UNCHANGED <<hasFunds, nextReceive, pc>> /\ pc = "idle" /\ complete' = FALSE
    BY <1>10 DEF Rescan
  <2>2. QED
    BY <2>1, ReceiveKept
<1>11. CASE NetworkFails \/ TimesOut
  <2>1. /\ UNCHANGED <<hasFunds, nextReceive, complete>>
        /\ pc \in {"fetch", "refresh"} /\ pc' = "idle"
    BY <1>11 DEF NetworkFails, TimesOut, Fault, EndScan, keystore
  <2>2. QED
    BY <2>1, ReceiveKept
<1>12. CASE RefreshFails
  <2>1. UNCHANGED <<hasFunds, nextReceive, complete, pc>> /\ pc = "idle"
    BY <1>0, <1>12 DEF RefreshFails, Fault, RefreshGrows, keystore
  <2>2. QED
    BY <2>1, ReceiveKept
<1>13. CASE UNCHANGED vars
  BY <1>13 DEF vars, keystore, ReceiveInv, UsedArePassed, Reachable
<1>14. QED
  BY <1>1, <1>2, <1>3, <1>4, <1>5, <1>6, <1>7, <1>8, <1>9, <1>10, <1>11, <1>12, <1>13
  DEF Next, ScanStep, RefreshStep

\* The count of crashes only grows, and counts each.
LEMMA CrashesCounted ==
  ASSUME TypeOK, [Next]_vars, faults'["crash"] = 0
  PROVE  faults["crash"] = 0 /\ ~Crash
<1>1. faults \in [FaultKinds -> Nat] /\ "crash" \in FaultKinds
  BY DEF TypeOK, CountersTypeOK, FaultKinds
<1>2. ASSUME NEW kind, Fault(kind)
      PROVE  faults["crash"] = 0 /\ kind # "crash"
  <2>1. kind \in FaultKinds /\ faults' = [faults EXCEPT ![kind] = @ + 1]
    BY <1>2, SwitchesAssumption DEF Fault
  <2>2. faults'["crash"] = IF kind = "crash" THEN faults["crash"] + 1 ELSE faults["crash"]
    BY <1>1, <2>1
  <2>3. QED
    BY <1>1, <2>2
<1>3. CASE NetworkFails \/ RefreshFails \/ TimesOut \/ Crash
  BY <1>2, <1>3 DEF NetworkFails, RefreshFails, TimesOut, Crash
<1>4. ASSUME UNCHANGED faults
      PROVE  faults["crash"] = 0 /\ ~Crash
  <2>1. faults["crash"] = 0
    BY <1>4
  <2>2. QED
    BY <1>2, <2>1 DEF Crash
<1>5. CASE ScanStep
  BY <1>4, <1>5
  DEF ScanStep, StartScan, BeginSlice, BatchAnswered, CloseChain, BatchStopped,
      SaveProgress, MarkComplete, AdvanceReceive, RefreshAfterScan, RefreshRefused, bounds
<1>6. CASE BeginRefresh \/ RefreshStep \/ Rescan
  BY <1>4, <1>6 DEF BeginRefresh, RefreshStep, StoreProbed, ListCoins, Rescan, bounds
<1>7. CASE UNCHANGED vars
  BY <1>4, <1>7 DEF vars, bounds
<1>8. QED
  BY <1>3, <1>5, <1>6, <1>7 DEF Next

\* When a scan is over, the next address handed out is past every used one the gap rule
\* reaches (set_receive_index_at_least, light_keystore.rs:192), unless the process has
\* crashed, and for wallets of any length, gap, batch and budget.
THEOREM ReceiveIndexHolds ==
  ASSUME ~RefreshBesideScan
  PROVE  Spec => []ReceiveIndexPastUsed
<1> DEFINE Inv == faults["crash"] = 0 => ReceiveInv
<1>1. Init => Inv
  BY DEF Init, ReceiveInv
<1>2. TypeOK /\ ScanInv /\ Inv /\ [Next]_vars => Inv'
  BY CrashesCounted, ReceiveStep
<1>3. Inv => ReceiveIndexPastUsed
  BY DEF ReceiveInv, UsedArePassed, ReceiveIndexPastUsed, AlwaysAdvanced
<1>4. QED
  BY <1>1, <1>2, <1>3, ScanInvHolds, TypeCorrect, PTL DEF Spec
=============================================================================
