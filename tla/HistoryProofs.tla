---------------------------- MODULE HistoryProofs ----------------------------
(***************************************************************************)
(* Proofs about History, for any numbers of callers, transactions and      *)
(* addresses, any size of a page and any number of faults.                 *)
(*                                                                         *)
(* Three invariants, each on top of the one before.  Of types and pages    *)
(* (PageInv): the explorer's lists, one row per key in all that a call     *)
(* holds, and what the pages read so far have of a list that does not      *)
(* grow.  Of sources (CoverInv): what is confirmed in a row is confirmed   *)
(* in the chain, a call that runs alone is the only one, and it holds a    *)
(* confirmed row for every confirmed row of the table that a pending one   *)
(* could replace.  Of a quiet refresh (ExactInv): it holds the explorer's  *)
(* rows of the addresses it has done, as they are now.                     *)
(***************************************************************************)
EXTENDS History, FiniteSetTheorems, FunctionTheorems, SequenceTheorems, TLAPS

CallRecord ==
    [pc : {"idle", "pages", "more", "electrum", "append", "store"},
     tip : BOOLEAN, todo : SUBSET Own, address : Own \cup {"none"},
     offset : 0 .. Cardinality(Txs), total : 0 .. Cardinality(Txs),
     must : SUBSET Txs, missed : SUBSET Txs, grew : BOOLEAN,
     got : SUBSET Row, rows : SUBSET Row, base : SUBSET Row,
     ran : {"quiet", "alone", "partly", "mixed"}]

(***************************************************************************)
(* The first invariant.                                                    *)
(***************************************************************************)
OneEach(S) == \A r, s \in S : Key(r) = Key(s) => r = s

\* A list holds a transaction once; one that has entered is in the lists of all its
\* addresses, and one that is in a block has entered.
Lists == /\ index \in [Own -> Seq(Txs)]
         /\ \A a \in Own : IsInjective(index[a])
         /\ \A a \in Own : \A t \in ToSet(index[a]) :
               /\ depth[t] # "none"
               /\ \A b \in Own : Concerns(t, b) => t \in ToSet(index[b])
         /\ \A t \in Txs : Confirmed(t) =>
               \A a \in Own : Concerns(t, a) => t \in ToSet(index[a])

\* The rows of a call: those of the address at hand apart from those of addresses done.
Kept(k) == /\ OneEach(k.got) /\ OneEach(k.rows) /\ OneEach(k.base)
           /\ k.pc = "pages" => /\ k.got = {}
                                /\ \A r \in k.rows : r.address \notin k.todo
           /\ k.pc = "more" => /\ k.address \in Own \ k.todo
                               /\ \A g \in k.got : g.address = k.address
                               /\ \A r \in k.rows : r.address \notin k.todo \cup {k.address}

\* The pages so far hold the list up to the offset, unless it has grown since the first.
Paged(k) ==
    /\ k.missed = {} \/ k.grew
    /\ k.pc = "more" =>
          /\ k.offset <= Len(index[k.address]) /\ k.total <= Len(index[k.address])
          /\ Len(index[k.address]) = k.total =>
                /\ k.must = ToSet(index[k.address])
                /\ \A i \in 1 .. k.offset : \E g \in k.got : g.tx = index[k.address][i]

PageInv == /\ TypeOK
           /\ Lists
           /\ \A c \in Callers : Kept(call[c]) /\ Paged(call[c])

(***************************************************************************)
(* The second invariant.                                                   *)
(***************************************************************************)
\* What a row says of its transaction still holds if it says that it is confirmed.
Sound(r) == IF r.confirmed
            THEN /\ Confirmed(r.tx)
                 /\ r.category # "unconfirmed"
                 /\ r.category = "send" => r.address \in Spends[r.tx]
            ELSE r.category \in {"unconfirmed", "send"}

Sources(k) == /\ \A r \in k.got \cup k.rows \cup k.base : Sound(r)
              /\ k.pc \in {"pages", "more"} => \A r \in k.got \cup k.rows :
                    r.address \in Spends[r.tx] => r.category = "send"

Alone(k) == k.ran \in {"quiet", "alone"}

\* A call that is not mixed up with others is the only one.
Solo == \A c, d \in Callers :
           c # d /\ ~At(c, "idle") /\ call[c].ran # "mixed" => At(d, "idle")

\* The confirmed rows of the table that a pending row could take the key of.
Spent == {r \in stored : r.confirmed /\ r.category = "send"}

\* They are in the lists still to be read, in the one at hand, or among the rows held.
Covers(k) ==
    /\ k.pc \in {"pages", "more"} =>
          /\ \A r \in stored : \A g \in k.got \cup k.rows :
                g.tx = r.tx /\ r.confirmed => g.confirmed
          /\ \A r \in Spent :
                \/ r.address \in k.todo
                \/ k.pc = "more" /\ r.address = k.address /\ r.tx \in k.must
                \/ \E g \in k.rows : g.tx = r.tx /\ g.address = r.address
                \/ k.pc = "pages" /\ k.todo = {} /\ k.rows = {}
    /\ k.pc = "electrum" =>
          \A r \in Spent : \E b \in k.base : Key(b) = Key(r) /\ b.confirmed
    /\ k.pc = "store" =>
          \A r \in stored : \A n \in k.rows : Key(n) = Key(r) /\ r.confirmed => n.confirmed

\* A quiet call reads a list that stands still.
Still(k) == k.ran = "quiet" /\ k.pc = "more" => k.total = Len(index[k.address])

CoverInv == /\ PageInv
            /\ Solo
            /\ \A r \in stored : Sound(r)
            /\ \A c \in Callers : /\ Sources(call[c])
                                  /\ Still(call[c])
                                  /\ Alone(call[c]) => Covers(call[c])

(***************************************************************************)
(* The third invariant.                                                    *)
(***************************************************************************)
\* The explorer's rows of some addresses, and of the front of an address's list.
RowsOf == [A \in SUBSET Own |->
              UNION {{ExplorerRow(t, a, TRUE) : t \in ToSet(index[a])} : a \in A}]
FrontOf == [a \in Own |-> [n \in Nat |->
              {ExplorerRow(t, a, TRUE) : t \in {index[a][i] : i \in 1 .. n}}]]
BaseNow == IF Fresh # {} THEN Fresh ELSE stored

\* What the table may become: with the rows of all that is pending, if the list is cut
\* nowhere.
Wanted == {S \in SUBSET Pending : Uncut => S = Pending}
Shown == {Merge(BaseNow, ExpandAll(S, {})) : S \in Wanted}

Exact(k) ==
    /\ k.pc # "append"
    /\ k.pc = "pages" => k.tip = TRUE /\ k.rows = RowsOf[Own \ k.todo]
    /\ k.pc = "more" => /\ k.tip = TRUE
                        /\ k.rows = RowsOf[Own \ (k.todo \cup {k.address})]
                        /\ k.got = FrontOf[k.address][k.offset]
    /\ k.pc = "electrum" => k.base = BaseNow
    /\ k.pc = "store" => k.rows \in Shown

ExactInv == /\ CoverInv
            /\ \A c \in Callers : call[c].ran = "quiet" => Exact(call[c])

(***************************************************************************)
(* Lists and pages.                                                        *)
(***************************************************************************)
LEMMA MinOfTwo ==
  ASSUME NEW a \in Nat, NEW b \in Nat
  PROVE  Min({a, b}) = IF a <= b THEN a ELSE b
<1>1. CASE a <= b
  <2>1. \A x \in {a, b} : (\A y \in {a, b} : x <= y) => x = a
    BY <1>1
  <2>2. \A y \in {a, b} : a <= y
    BY <1>1
  <2> QED  BY <1>1, <2>1, <2>2 DEF Min
<1>2. CASE ~(a <= b)
  <2>1. \A x \in {a, b} : (\A y \in {a, b} : x <= y) => x = b
    BY <1>2
  <2>2. \A y \in {a, b} : b <= y
    BY <1>2
  <2> QED  BY <1>2, <2>1, <2>2 DEF Min
<1> QED  BY <1>1, <1>2

\* A list of distinct members is no longer than their set.
LEMMA InjectiveIsShort ==
  ASSUME NEW S, IsFiniteSet(S), NEW s \in Seq(S), IsInjective(s)
  PROVE  Len(s) <= Cardinality(S)
<1>1. s \in [1 .. Len(s) -> S] /\ Len(s) \in Nat /\ DOMAIN s = 1 .. Len(s)
  OBVIOUS
<1>2. \A a, b \in 1 .. Len(s) : s[a] = s[b] => a = b
  BY <1>1 DEF IsInjective
<1>3. s \in Injection(1 .. Len(s), S)
  BY <1>1, <1>2, Fun_IsInj
<1>4. Cardinality(1 .. Len(s)) <= Cardinality(S)
  BY <1>3, FS_Injection
<1>5. Cardinality(1 .. Len(s)) = Len(s)
  <2>1. Cardinality(1 .. Len(s)) = IF 1 > Len(s) THEN 0 ELSE Len(s) - 1 + 1
    BY <1>1, 1 \in Int, Len(s) \in Int, FS_Interval
  <2> QED  BY <1>1, <2>1
<1> QED  BY <1>4, <1>5

LEMMA MembersOfList ==
  ASSUME NEW S, NEW s \in Seq(S)
  PROVE  ToSet(s) = {s[i] : i \in 1 .. Len(s)} /\ ToSet(s) \subseteq S
BY DEF ToSet

LEMMA ListGrows ==
  ASSUME NEW S, NEW s \in Seq(S), NEW t \in S
  PROVE  /\ <<t>> \o s \in Seq(S)
         /\ Len(<<t>> \o s) = Len(s) + 1
         /\ ToSet(<<t>> \o s) = {t} \cup ToSet(s)
         /\ IsInjective(s) /\ t \notin ToSet(s) => IsInjective(<<t>> \o s)
<1> DEFINE n == <<t>> \o s
<1>1. /\ n \in Seq(S) /\ Len(n) = Len(s) + 1 /\ Len(s) \in Nat
      /\ n[1] = t
      /\ \A i \in 1 .. Len(s) : n[i + 1] = s[i]
      /\ \A i \in 1 .. Len(s) : s[i] \in S
  OBVIOUS
<1>2. \A i \in 1 .. Len(n) : i # 1 => i - 1 \in 1 .. Len(s) /\ n[i] = s[i - 1]
  BY <1>1
<1>3. ToSet(n) = {n[i] : i \in 1 .. Len(n)} /\ ToSet(s) = {s[i] : i \in 1 .. Len(s)}
  BY <1>1, MembersOfList
<1> HIDE DEF n
<1>4. ToSet(n) \subseteq {t} \cup ToSet(s)
  <2>1. ASSUME NEW i \in 1 .. Len(n)
        PROVE  n[i] \in {t} \cup ToSet(s)
    <3>1. CASE i = 1
      BY <1>1, <3>1
    <3>2. CASE i # 1
      BY <1>2, <1>3, <3>2
    <3> QED  BY <3>1, <3>2
  <2> QED  BY <1>3, <2>1
<1>5. {t} \cup ToSet(s) \subseteq ToSet(n)
  <2>1. t \in ToSet(n)
    BY <1>1, <1>3
  <2>2. ASSUME NEW i \in 1 .. Len(s)
        PROVE  s[i] \in ToSet(n)
    <3>1. i + 1 \in 1 .. Len(n) /\ n[i + 1] = s[i]
      BY <1>1
    <3> QED  BY <1>3, <3>1
  <2> QED  BY <1>3, <2>1, <2>2
<1>6. ASSUME IsInjective(s), t \notin ToSet(s)
      PROVE  IsInjective(n)
  <2>1. DOMAIN n = 1 .. Len(n) /\ DOMAIN s = 1 .. Len(s)
    BY <1>1
  <2>2. ASSUME NEW i \in 1 .. Len(n), NEW j \in 1 .. Len(n), n[i] = n[j]
        PROVE  i = j
    <3>1. CASE i = 1 /\ j # 1
      BY <1>1, <1>2, <1>3, <1>6, <2>2, <3>1
    <3>2. CASE i # 1 /\ j = 1
      BY <1>1, <1>2, <1>3, <1>6, <2>2, <3>2
    <3>3. CASE i # 1 /\ j # 1
      <4>1. i - 1 = j - 1
        BY <1>2, <1>6, <2>1, <2>2, <3>3 DEF IsInjective
      <4> QED  BY <4>1
    <3> QED  BY <3>1, <3>2, <3>3
  <2> QED  BY <2>1, <2>2 DEF IsInjective
<1> QED  BY <1>1, <1>4, <1>5, <1>6 DEF n

\* A page is the part of the list behind the offset, as long as it may be.
LEMMA PageIs ==
  ASSUME NEW a \in Own, index \in [Own -> Seq(Txs)],
         NEW offset \in Nat, offset <= Len(index[a])
  PROVE  LET list == index[a]
             page == Page(a, offset)
         IN  /\ page \in Seq(Txs)
             /\ Len(page) = IF offset + PageSize <= Len(list) THEN PageSize ELSE Len(list) - offset
             /\ offset + Len(page) <= Len(list)
             /\ ToSet(page) = {list[i] : i \in offset + 1 .. offset + Len(page)}
<1> DEFINE list == index[a]
           page == Page(a, offset)
           last == IF offset + PageSize <= Len(list) THEN offset + PageSize ELSE Len(list)
<1>0. list \in Seq(Txs) /\ Len(list) \in Nat /\ PageSize \in Nat \ {0}
  BY HistoryAssumption
<1>1. Min({offset + PageSize, Len(list)}) = last
  BY <1>0, MinOfTwo
<1>2. page = SubSeq(list, offset + 1, last)
  BY <1>1 DEF Page
<1> HIDE DEF page
<1>3. last \in Nat /\ last <= Len(list) /\ offset <= last
  BY <1>0
<1>4. \A i \in offset + 1 .. last : list[i] \in Txs
  BY <1>0, <1>3
<1>5. /\ page \in Seq(Txs)
      /\ Len(page) = last - offset
      /\ \A i \in 1 .. last - offset : page[i] = list[offset + i]
  BY <1>0, <1>2, <1>3, <1>4
<1>6. ToSet(page) = {page[i] : i \in 1 .. last - offset}
  BY <1>5, MembersOfList
<1>7. ToSet(page) \subseteq {list[i] : i \in offset + 1 .. last}
  <2>1. \A i \in 1 .. last - offset : offset + i \in offset + 1 .. last
    BY <1>3
  <2> QED  BY <1>5, <1>6, <2>1
<1>8. {list[i] : i \in offset + 1 .. last} \subseteq ToSet(page)
  <2>1. ASSUME NEW i \in offset + 1 .. last
        PROVE  list[i] \in ToSet(page)
    <3>1. i - offset \in 1 .. last - offset /\ offset + (i - offset) = i
      BY <1>3
    <3> QED  BY <1>5, <1>6, <3>1
  <2> QED  BY <2>1
<1>9. offset + Len(page) = last
  BY <1>3, <1>5
<1> QED  BY <1>0, <1>3, <1>5, <1>7, <1>8, <1>9 DEF page
(***************************************************************************)
(* Rows.                                                                   *)
(***************************************************************************)
LEMMA RowsEqual ==
  ASSUME NEW r \in Row, NEW s \in Row, Key(r) = Key(s), r.confirmed = s.confirmed
  PROVE  r = s
<1>1. r.tx = s.tx /\ r.category = s.category /\ r.address = s.address
  BY DEF Key
<1> QED  BY <1>1 DEF Row

Depths == depth \in [Txs -> {"none", "mempool", "mined", "mature"}]

LEMMA ExplorerRowIs ==
  ASSUME NEW t \in Txs, NEW a \in Own, NEW tip \in BOOLEAN, Depths
  PROVE  LET r == ExplorerRow(t, a, tip)
         IN  /\ r \in Row
             /\ r.tx = t /\ r.address = a
             /\ r.confirmed <=> Confirmed(t)
             /\ r.address \in Spends[r.tx] => r.category = "send"
             /\ Sound(r)
<1> DEFINE r == ExplorerRow(t, a, tip)
<1>1. /\ r.tx = t /\ r.address = a
      /\ r.category = IF a \in Spends[t] THEN "send" ELSE IncomingCategory(t, tip)
      /\ r.confirmed = Confirmed(t)
  BY DEF ExplorerRow
<1>2. Confirmed(t) \in BOOLEAN
  BY DEF Confirmed
<1>3. /\ IncomingCategory(t, tip) \in {"unconfirmed", "receive", "orphan", "immature", "generate"}
      /\ IncomingCategory(t, tip) = "unconfirmed" <=> ~Confirmed(t)
  BY DEF IncomingCategory, Confirmed, Depths
<1>4. r \in Row
  <2>1. r = [tx |-> t, address |-> a, confirmed |-> r.confirmed, category |-> r.category]
    BY DEF ExplorerRow
  <2>2. r.category \in Category
    BY <1>1, <1>3 DEF Category
  <2> QED  BY <1>1, <1>2, <2>1, <2>2 DEF Row
<1>5. Sound(r)
  BY <1>1, <1>3 DEF Sound
<1> QED  BY <1>1, <1>4, <1>5

LEMMA PendingRowIs ==
  ASSUME NEW t \in Txs, NEW category \in {"unconfirmed", "send"}, NEW a \in Own \cup Other
  PROVE  LET r == PendingRow(t, category, a)
         IN  r \in Row /\ r.tx = t /\ r.category = category /\ ~r.confirmed
BY DEF PendingRow, Row, Category

\* The rows of a pending transaction are its own and pending.
Waits(r, t) == /\ r \in Row /\ r.tx = t /\ r.category \in {"unconfirmed", "send"}
               /\ ~r.confirmed

LEMMA OutputRowsWait ==
  ASSUME NEW t \in Txs, NEW isSpend, NEW own \in SUBSET (Own \cup Other),
         NEW other \in SUBSET (Own \cup Other),
         NEW r \in RowsFromOutputs(t, isSpend, own, other)
  PROVE  Waits(r, t)
<1> DEFINE sent == {b \in own : b # Largest(t, own)} \cup other
<1>1. RowsFromOutputs(t, isSpend, own, other) \subseteq
         {PendingRow(t, "unconfirmed", a) : a \in own} \cup {PendingRow(t, "send", a) : a \in sent}
  BY DEF RowsFromOutputs
<1>2. sent \subseteq Own \cup Other
  OBVIOUS
<1> HIDE DEF sent
<1>3. \A a \in Own \cup Other : Waits(PendingRow(t, "unconfirmed", a), t)
  BY PendingRowIs DEF Waits
<1>4. \A a \in Own \cup Other : Waits(PendingRow(t, "send", a), t)
  BY PendingRowIs DEF Waits
<1>5. CASE r \in {PendingRow(t, "unconfirmed", a) : a \in own}
  BY <1>3, <1>5
<1>6. CASE r \in {PendingRow(t, "send", a) : a \in sent}
  BY <1>2, <1>4, <1>6
<1> QED  BY <1>1, <1>5, <1>6

LEMMA WaitingRows ==
  ASSUME NEW S \in SUBSET Row, \A r \in S : \E t \in Txs : Waits(r, t)
  PROVE  OneEach(S) /\ \A r \in S : ~r.confirmed /\ Sound(r)
<1>1. \A r \in S : ~r.confirmed /\ r.confirmed \in BOOLEAN /\ r.category \in {"unconfirmed", "send"}
  BY DEF Waits, Row
<1>2. \A r, s \in S : r.confirmed = s.confirmed
  BY <1>1
<1>3. OneEach(S)
  BY <1>2, RowsEqual DEF OneEach
<1> QED  BY <1>1, <1>3 DEF Sound

LEMMA PaidAreAddresses == \A t : Paid(t) \in SUBSET (Own \cup Other)
BY DEF Paid

LEMMA ExpandedRowsWait ==
  ASSUME NEW S \in SUBSET Txs, NEW orphans
  PROVE  LET rows == ExpandAll(S, orphans)
         IN  /\ rows \subseteq Row
             /\ \A r \in rows : ~r.confirmed /\ Sound(r) /\ r.tx \in S
             /\ OneEach(rows)
<1> DEFINE rows == ExpandAll(S, orphans)
<1>1. ASSUME NEW r \in rows
      PROVE  \E t \in S : Waits(r, t)
  <2>1. PICK t \in S : r \in ExpandedRows(t, t \notin orphans)
    BY <1>1 DEF ExpandAll
  <2>2. Paid(t) \cap Own \in SUBSET (Own \cup Other) /\ Paid(t) \cap Other \in SUBSET (Own \cup Other)
    OBVIOUS
  <2>3. Waits(r, t)
    BY <2>1, <2>2, OutputRowsWait DEF ExpandedRows
  <2> QED  BY <2>1, <2>3
<1>2. rows \in SUBSET Row
  BY <1>1 DEF Waits
<1>3. \A r \in rows : \E t \in Txs : Waits(r, t)
  BY <1>1
<1>4. \A r \in rows : r.tx \in S
  BY <1>1 DEF Waits
<1> HIDE DEF rows
<1>5. OneEach(rows) /\ \A r \in rows : ~r.confirmed /\ Sound(r)
  BY <1>2, <1>3, WaitingRows
<1> QED  BY <1>2, <1>4, <1>5 DEF rows

LEMMA LocalRowsWait ==
  ASSUME NEW t \in Txs
  PROVE  LET rows == LocalRows(t)
         IN  rows \subseteq Row /\ OneEach(rows) /\ \A r \in rows : Sound(r)
<1> DEFINE rows == LocalRows(t)
           own == Paid(t) \cap (Spends[t] \cup ChangeTo[t])
           other == Paid(t) \ own
<1>1. own \in SUBSET (Own \cup Other) /\ other \in SUBSET (Own \cup Other)
  BY PaidAreAddresses
<1>2. rows = RowsFromOutputs(t, TRUE, own, other)
  BY DEF LocalRows
<1> HIDE DEF rows, own, other
<1>3. \A r \in rows : Waits(r, t)
  BY <1>1, <1>2, OutputRowsWait
<1>4. rows \in SUBSET Row
  BY <1>3 DEF Waits
<1>5. \A r \in rows : \E u \in Txs : Waits(r, u)
  BY <1>3
<1>6. OneEach(rows) /\ \A r \in rows : ~r.confirmed /\ Sound(r)
  BY <1>4, <1>5, WaitingRows
<1> QED  BY <1>4, <1>6 DEF rows

(***************************************************************************)
(* The merge.                                                              *)
(***************************************************************************)
LEMMA MergeIs ==
  ASSUME NEW base, NEW new, OneEach(base), OneEach(new)
  PROVE  /\ OneEach(Merge(base, new))
         /\ Merge(base, new) \subseteq base \cup new
<1> DEFINE wins == {r \in new : ~Beaten(r, base)}
           left == {b \in base : \A r \in wins : Key(r) # Key(b)}
<1>1. Merge(base, new) = left \cup wins
  BY DEF Merge
<1>2. \A r, s \in wins : Key(r) = Key(s) => r = s
  BY DEF OneEach
<1>3. \A r, s \in left : Key(r) = Key(s) => r = s
  BY DEF OneEach
<1>4. \A r \in wins, s \in left : Key(r) # Key(s)
  OBVIOUS
<1>5. left \subseteq base /\ wins \subseteq new
  OBVIOUS
<1> HIDE DEF wins, left
<1>6. OneEach(left \cup wins)
  BY <1>2, <1>3, <1>4 DEF OneEach
<1> QED  BY <1>1, <1>5, <1>6

\* What a confirmed row of the base has the key of stays confirmed.
LEMMA MergeKeeps ==
  ASSUME NEW base, NEW new, OneEach(base), NEW b \in base, b.confirmed,
         NEW n \in Merge(base, new), Key(n) = Key(b)
  PROVE  n.confirmed
<1>1. CASE n \in base
  BY <1>1 DEF OneEach
<1>2. CASE n \notin base
  <2>1. n \in new /\ ~Beaten(n, base)
    BY <1>2 DEF Merge
  <2> QED  BY <2>1 DEF Beaten
<1> QED  BY <1>1, <1>2
(***************************************************************************)
(* The records of calls.                                                   *)
(***************************************************************************)
\* All but how a call ran.
SameWork(j, k) ==
    /\ j.pc = k.pc /\ j.tip = k.tip /\ j.todo = k.todo /\ j.address = k.address
    /\ j.offset = k.offset /\ j.total = k.total /\ j.must = k.must
    /\ j.missed = k.missed /\ j.grew = k.grew
    /\ j.got = k.got /\ j.rows = k.rows /\ j.base = k.base

Rans == {"quiet", "alone", "partly", "mixed"}

LEMMA RanChanged ==
  ASSUME NEW k \in CallRecord, NEW ran \in Rans
  PROVE  LET j == [k EXCEPT !.ran = ran]
         IN  j \in CallRecord /\ SameWork(j, k) /\ j.ran = ran
BY DEF CallRecord, Rans, SameWork

LEMMA DisturbedIs ==
  ASSUME NEW k \in CallRecord
  PROVE  LET j == Disturbed(k)
         IN  /\ j \in CallRecord /\ SameWork(j, k)
             /\ j.ran = IF k.ran = "quiet" THEN "alone" ELSE k.ran
<1>1. (IF k.ran = "quiet" THEN "alone" ELSE k.ran) \in Rans
  BY DEF CallRecord, Rans
<1>2. Disturbed(k) = [k EXCEPT !.ran = IF k.ran = "quiet" THEN "alone" ELSE k.ran]
  BY DEF Disturbed
<1> QED  BY <1>1, <1>2, RanChanged

LEMMA PartlyIs ==
  ASSUME NEW k \in CallRecord
  PROVE  LET j == Partly(k)
         IN  j \in CallRecord /\ SameWork(j, k) /\ j.ran \in {"mixed", "partly"}
<1>1. (IF k.ran = "mixed" THEN k.ran ELSE "partly") \in Rans
  BY DEF Rans
<1>2. Partly(k) = [k EXCEPT !.ran = IF k.ran = "mixed" THEN k.ran ELSE "partly"]
  BY DEF Partly
<1> QED  BY <1>1, <1>2, RanChanged

LEMMA SameWorkKeeps ==
  ASSUME NEW j, NEW k, SameWork(j, k)
  PROVE  (Kept(k) => Kept(j)) /\ (Paged(k) => Paged(j))
BY DEF SameWork, Kept, Paged

LEMMA TxsFinite == IsFiniteSet(Txs) /\ Cardinality(Txs) \in Nat
BY HistoryAssumption, FS_CardinalityType

LEMMA IdleIs ==
  /\ Idle \in CallRecord
  /\ Kept(Idle)
  /\ Paged(Idle)
  /\ Idle.pc = "idle" /\ Idle.ran = "alone" /\ Idle.tip
  /\ Idle.todo = {} /\ Idle.got = {} /\ Idle.rows = {} /\ Idle.base = {} /\ Idle.missed = {}
<1>1. Idle \in CallRecord
  BY TxsFinite DEF Idle, CallRecord
<1>2. Idle.pc = "idle" /\ Idle.got = {} /\ Idle.rows = {} /\ Idle.base = {} /\ Idle.missed = {}
  BY DEF Idle
<1>3. Kept(Idle) /\ Paged(Idle)
  BY <1>2 DEF Kept, OneEach, Paged
<1> QED  BY <1>1, <1>3 DEF Idle

\* Calls that begin: one for a refresh, one for a payment.
Reading(todo, tip) == [Idle EXCEPT !.pc = "pages", !.todo = todo, !.tip = tip]
Paying(rows) == [Idle EXCEPT !.pc = "append", !.rows = rows]

LEMMA BeginIs ==
  ASSUME NEW todo \in SUBSET Own, NEW tip \in BOOLEAN
  PROVE  LET j == Reading(todo, tip)
         IN  /\ j \in CallRecord
             /\ j.pc = "pages" /\ j.todo = todo /\ j.tip = tip
             /\ j.got = {} /\ j.rows = {} /\ j.base = {} /\ j.missed = {}
<1>1. Reading(todo, tip) \in CallRecord
  BY IdleIs DEF CallRecord, Reading
<1> QED  BY <1>1 DEF Idle, Reading

LEMMA BegunReads ==
  ASSUME NEW todo \in SUBSET Own, NEW tip \in BOOLEAN, NEW k, SameWork(k, Reading(todo, tip))
  PROVE  /\ k.pc = "pages" /\ k.todo = todo /\ (tip => k.tip)
         /\ k.got = {} /\ k.rows = {} /\ k.base = {} /\ k.missed = {}
<1> DEFINE j == Reading(todo, tip)
<1>1. j.pc = "pages" /\ j.todo = todo /\ j.tip = tip
  BY BeginIs
<1>2. j.got = {} /\ j.rows = {} /\ j.base = {} /\ j.missed = {}
  BY BeginIs
<1>3. SameWork(k, j)
  OBVIOUS
<1> HIDE DEF j
<1>4. tip => k.tip
  BY <1>1, <1>3, Zenon DEF SameWork
<1>5. k.pc = "pages" /\ k.todo = todo
  BY <1>1, <1>3, Zenon DEF SameWork
<1>6. k.got = {} /\ k.rows = {} /\ k.base = {} /\ k.missed = {}
  BY <1>2, <1>3 DEF SameWork
<1> QED  BY <1>4, <1>5, <1>6

LEMMA PaymentIs ==
  ASSUME NEW rows \in SUBSET Row
  PROVE  LET j == Paying(rows)
         IN  /\ j \in CallRecord
             /\ j.pc = "append" /\ j.rows = rows
             /\ j.got = {} /\ j.base = {} /\ j.missed = {}
<1>1. Paying(rows) \in CallRecord
  BY IdleIs DEF CallRecord, Paying
<1> QED  BY <1>1 DEF Idle, Paying

\* A call is set to a record.
Becomes(c, j) == call' = [call EXCEPT ![c] = j]

LEMMA BecomesOne ==
  ASSUME NEW c \in Callers, NEW j \in CallRecord, call \in [Callers -> CallRecord],
         call' = [call EXCEPT ![c] = j]
  PROVE  /\ call' \in [Callers -> CallRecord]
         /\ call'[c] = j
         /\ \A d \in Callers : d # c => call'[d] = call[d]
OBVIOUS

\* A call begins: the others that run are mixed up with it.
LEMMA BegunIs ==
  ASSUME NEW c \in Callers, NEW k \in CallRecord, NEW ran \in Rans,
         call \in [Callers -> CallRecord], call' = Begun(c, k, ran)
  PROVE  /\ call' \in [Callers -> CallRecord]
         /\ SameWork(call'[c], k)
         /\ call'[c].ran = IF \A e \in Callers \ {c} : At(e, "idle") THEN ran ELSE "mixed"
         /\ \A d \in Callers : d # c => SameWork(call'[d], call[d]) /\ call'[d].ran = "mixed"
<1> DEFINE r == IF \A e \in Callers \ {c} : At(e, "idle") THEN ran ELSE "mixed"
<1>1. r \in Rans /\ "mixed" \in Rans
  BY DEF Rans
<1>2. call'[c] = [k EXCEPT !.ran = r]
  BY DEF Begun
<1>3. \A d \in Callers : d # c => call'[d] = [call[d] EXCEPT !.ran = "mixed"]
  BY DEF Begun
<1>4. call' = [d \in Callers |-> call'[d]]
  BY DEF Begun
<1> HIDE DEF r
<1>5. call'[c] \in CallRecord /\ SameWork(call'[c], k) /\ call'[c].ran = r
  BY <1>1, <1>2, RanChanged
<1>6. \A d \in Callers : d # c =>
         call'[d] \in CallRecord /\ SameWork(call'[d], call[d]) /\ call'[d].ran = "mixed"
  <2>1. ASSUME NEW d \in Callers, d # c
        PROVE  LET j == [call[d] EXCEPT !.ran = "mixed"]
               IN  j \in CallRecord /\ SameWork(j, call[d]) /\ j.ran = "mixed"
    BY <1>1, RanChanged
  <2> QED  BY <1>3, <2>1
<1> QED  BY <1>4, <1>5, <1>6 DEF r
(***************************************************************************)
(* Reading pages.                                                          *)
(***************************************************************************)
LEMMA NewRowsAre ==
  ASSUME NEW k \in CallRecord, NEW a \in Own, NEW page \in Seq(Txs), Depths,
         OneEach(k.got), \A g \in k.got : g.address = a
  PROVE  LET rows == NewRows(k, a, page)
         IN  /\ rows \subseteq Row
             /\ OneEach(rows)
             /\ k.got \subseteq rows
             /\ \A g \in rows : g.address = a
             /\ \A g \in rows : g \in k.got \/ \E t \in ToSet(page) : g = ExplorerRow(t, a, k.tip)
             /\ \A t \in ToSet(page) : \E g \in rows : g.tx = t
<1> DEFINE all == {ExplorerRow(t, a, k.tip) : t \in ToSet(page)}
           new == {r \in all : \A g \in k.got : Key(g) # Key(r)}
           rows == NewRows(k, a, page)
<1>1. rows = k.got \cup new
  BY DEF NewRows
<1>2. k.tip \in BOOLEAN /\ k.got \subseteq Row
  BY DEF CallRecord
<1>3. ToSet(page) \subseteq Txs
  BY MembersOfList
<1>4. \A t \in ToSet(page) :
         /\ ExplorerRow(t, a, k.tip) \in Row
         /\ ExplorerRow(t, a, k.tip).tx = t
         /\ ExplorerRow(t, a, k.tip).address = a
  BY <1>2, <1>3, ExplorerRowIs
<1>5. \A r \in all : r \in Row /\ r.address = a /\ r = ExplorerRow(r.tx, a, k.tip)
  BY <1>4
<1>6. \A r, s \in all : Key(r) = Key(s) => r = s
  BY <1>5 DEF Key
<1>7. \A r \in new, g \in k.got : Key(g) # Key(r)
  OBVIOUS
<1>8. \A t \in ToSet(page) : \E g \in k.got \cup new : g.tx = t
  <2>1. ASSUME NEW t \in ToSet(page)
        PROVE  \E g \in k.got \cup new : g.tx = t
    <3> DEFINE r == ExplorerRow(t, a, k.tip)
    <3>1. r \in all /\ r.tx = t
      BY <1>4
    <3>2. CASE r \in new
      BY <3>1, <3>2
    <3>3. CASE r \notin new
      <4>1. PICK g \in k.got : Key(g) = Key(r)
        BY <3>1, <3>3
      <4> QED  BY <3>1, <4>1 DEF Key
    <3> QED  BY <3>2, <3>3
  <2> QED  BY <2>1
<1>9. \A r \in all : \E t \in ToSet(page) : r = ExplorerRow(t, a, k.tip)
  OBVIOUS
<1>10. new \subseteq all
  OBVIOUS
<1> HIDE DEF all, new, rows
<1>11. OneEach(k.got \cup new)
  BY <1>6, <1>7, <1>10 DEF OneEach
<1>12. /\ rows \subseteq Row /\ \A g \in rows : g.address = a
       /\ \A g \in rows : g \in k.got \/ \E t \in ToSet(page) : g = ExplorerRow(t, a, k.tip)
  BY <1>1, <1>2, <1>5, <1>9, <1>10
<1> QED  BY <1>1, <1>8, <1>11, <1>12 DEF rows

\* The record after a page: the first of an address, or the next of the one at hand.
FirstRead(k, j, a) ==
    /\ k.pc = "pages" /\ a \in k.todo /\ j.todo = k.todo \ {a}
    /\ j.total = Len(index[a]) /\ j.must = ToSet(index[a])
    /\ j.offset = Len(Page(a, 0))
    /\ j.got = NewRows(k, a, Page(a, 0))
NextRead(k, j, a) ==
    /\ k.pc = "more" /\ a = k.address /\ j.todo = k.todo
    /\ j.total = k.total /\ j.must = k.must
    /\ j.offset = k.offset + Len(Page(a, k.offset))
    /\ j.got = NewRows(k, a, Page(a, k.offset))
Reads(k, j, a) ==
    /\ j.pc = "more" /\ j.address = a /\ j.tip = k.tip /\ j.rows = k.rows /\ j.base = k.base
    /\ j.ran = k.ran /\ (j.missed = {} \/ (j.grew = k.grew /\ j.missed = k.missed))
    /\ FirstRead(k, j, a) \/ NextRead(k, j, a)

\* The read is over: if the list stood still, it is at its end.
Over(j) == Len(index[j.address]) = j.total => j.offset >= j.total

LEMMA FirstPageReads ==
  ASSUME NEW c \in Callers, NEW a \in Own, call \in [Callers -> CallRecord], Lists, Depths,
         Kept(call[c]), FirstPage(c, a)
  PROVE  \E j \in CallRecord : /\ Reads(call[c], j, a)
                               /\ Becomes(c, j) \/ (Becomes(c, Finished(j)) /\ Over(j))
<1> DEFINE page == Page(a, 0)
           k == call[c]
           got == NewRows(k, a, page)
           j == [k EXCEPT !.pc = "more", !.todo = @ \ {a}, !.address = a,
                    !.offset = Len(page), !.total = Len(index[a]),
                    !.must = ToSet(index[a]), !.missed = {}, !.grew = FALSE, !.got = got]
<1>1. k.pc = "pages" /\ a \in k.todo /\ k \in CallRecord
  BY DEF FirstPage, At
<1>2. call' = [call EXCEPT ![c] = IF j.offset < j.total THEN j ELSE Finished(j)]
  BY DEF FirstPage
<1>3. index \in [Own -> Seq(Txs)] /\ index[a] \in Seq(Txs) /\ IsInjective(index[a])
  BY DEF Lists
<1>4. Len(index[a]) \in Nat /\ Len(index[a]) <= Cardinality(Txs)
  BY <1>3, TxsFinite, InjectiveIsShort
<1>5. page \in Seq(Txs) /\ 0 + Len(page) <= Len(index[a]) /\ Len(page) \in Nat
  BY <1>3, <1>4, PageIs
<1>6. Len(page) \in 0 .. Cardinality(Txs) /\ Len(index[a]) \in 0 .. Cardinality(Txs)
  BY <1>4, <1>5, TxsFinite
<1>7. ToSet(index[a]) \in SUBSET Txs
  BY <1>3, MembersOfList
<1>8. got \in SUBSET Row
  <2>1. OneEach(k.got) /\ \A g \in k.got : g.address = a
    BY <1>1 DEF Kept
  <2> QED  BY <1>1, <1>5, <2>1, NewRowsAre
<1> HIDE DEF page, got
<1>9. /\ j \in CallRecord
      /\ j.pc = "more" /\ j.todo = k.todo \ {a} /\ j.address = a /\ j.offset = Len(page)
      /\ j.total = Len(index[a]) /\ j.must = ToSet(index[a]) /\ j.missed = {} /\ j.got = got
      /\ j.tip = k.tip /\ j.rows = k.rows /\ j.base = k.base /\ j.ran = k.ran
  BY <1>1, <1>6, <1>7, <1>8 DEF CallRecord
<1> HIDE DEF j
<1>10. Reads(k, j, a)
  <2>1. FirstRead(k, j, a)
    BY <1>1, <1>9, Zenon DEF FirstRead, page, got
  <2> QED  BY <1>9, <2>1, Zenon DEF Reads
<1>11. ~(j.offset < j.total) => Over(j)
  BY <1>4, <1>6, <1>9, TxsFinite DEF Over
<1> QED  BY <1>2, <1>9, <1>10, <1>11 DEF Becomes

LEMMA NextPageReads ==
  ASSUME NEW c \in Callers, call \in [Callers -> CallRecord], Lists, Depths,
         Kept(call[c]), Paged(call[c]), NextPage(c)
  PROVE  \E j \in CallRecord : /\ Reads(call[c], j, call[c].address)
                               /\ Becomes(c, j) \/ (Becomes(c, Finished(j)) /\ Over(j))
<1> DEFINE k == call[c]
           a == k.address
           page == Page(a, k.offset)
           got == NewRows(k, a, page)
           j == [k EXCEPT !.offset = @ + Len(page), !.got = got]
           last == \/ Len(page) < PageSize
                   \/ j.offset >= Len(index[a])
                   \/ j.offset >= j.total
<1>1. k.pc = "more" /\ k \in CallRecord
  BY DEF NextPage, At
<1>2. call' = [call EXCEPT ![c] = IF last THEN Finished(j) ELSE j]
  BY DEF NextPage
<1>3. a \in Own /\ k.offset \in Nat /\ k.total \in Nat
  BY <1>1, TxsFinite DEF Kept, CallRecord
<1>4. index \in [Own -> Seq(Txs)] /\ index[a] \in Seq(Txs) /\ IsInjective(index[a])
  BY <1>3 DEF Lists
<1>5. Len(index[a]) \in Nat /\ Len(index[a]) <= Cardinality(Txs)
  BY <1>4, TxsFinite, InjectiveIsShort
<1>6. k.offset <= Len(index[a])
  BY <1>1 DEF Paged
<1> HIDE DEF a
<1>7. /\ page \in Seq(Txs) /\ k.offset + Len(page) <= Len(index[a])
      /\ Len(page) = IF k.offset + PageSize <= Len(index[a]) THEN PageSize
                     ELSE Len(index[a]) - k.offset
  BY <1>3, <1>4, <1>6, PageIs
<1>8. Len(page) \in Nat
  BY <1>7
<1>9. k.offset + Len(page) \in 0 .. Cardinality(Txs)
  BY <1>3, <1>5, <1>7, <1>8, TxsFinite
<1>10. got \in SUBSET Row
  <2>1. OneEach(k.got) /\ \A g \in k.got : g.address = a
    BY <1>1 DEF Kept, a
  <2> QED  BY <1>1, <1>3, <1>7, <2>1, NewRowsAre
<1> HIDE DEF page, got
<1>11. /\ j \in CallRecord
       /\ j.pc = k.pc /\ j.todo = k.todo /\ j.address = k.address /\ j.offset = k.offset + Len(page)
       /\ j.total = k.total /\ j.must = k.must /\ j.missed = k.missed /\ j.grew = k.grew
       /\ j.got = got
       /\ j.tip = k.tip /\ j.rows = k.rows /\ j.base = k.base /\ j.ran = k.ran
  BY <1>1, <1>9, <1>10 DEF CallRecord
<1> HIDE DEF j
<1>12. Reads(k, j, a)
  BY <1>1, <1>11 DEF Reads, NextRead, page, got, a
<1>13. last => Over(j)
  <2>1. PageSize \in Nat
    BY HistoryAssumption
  <2>2. SUFFICES ASSUME last, Len(index[a]) = k.total
                 PROVE  j.offset >= k.total
    BY <1>11 DEF Over, a
  <2> QED  BY <1>3, <1>5, <1>7, <1>8, <1>11, <2>1, <2>2
<1> QED  BY <1>2, <1>11, <1>12, <1>13 DEF Becomes, a
LEMMA ReadKeeps ==
  ASSUME NEW k \in CallRecord, NEW j \in CallRecord, NEW a \in Own, Lists, Depths,
         Reads(k, j, a), Kept(k), Paged(k)
  PROVE  Kept(j) /\ Paged(j)
<1> DEFINE offset == IF k.pc = "pages" THEN 0 ELSE k.offset
           page == Page(a, offset)
           list == index[a]
<1>1. k.pc \in {"pages", "more"} /\ j.pc = "more" /\ j.address = a
  BY DEF Reads, FirstRead, NextRead
<1>2. k.pc = "more" => a = k.address /\ a \notin k.todo /\ k.offset \in Nat /\ k.offset <= Len(list)
  BY TxsFinite DEF Reads, FirstRead, NextRead, Kept, Paged, CallRecord
<1>3. /\ index \in [Own -> Seq(Txs)] /\ list \in Seq(Txs) /\ Len(list) \in Nat
  BY DEF Lists
<1>4. offset \in Nat /\ offset <= Len(list)
  BY <1>1, <1>2, <1>3
<1>5. /\ page \in Seq(Txs) /\ offset + Len(page) <= Len(list) /\ Len(page) \in Nat
      /\ ToSet(page) = {list[i] : i \in offset + 1 .. offset + Len(page)}
  <2>1. PICK o : o = offset
    OBVIOUS
  <2>2. o \in Nat /\ o <= Len(index[a]) /\ index \in [Own -> Seq(Txs)]
    BY <1>3, <1>4, <2>1
  <2>3. PICK p : p = Page(a, o)
    OBVIOUS
  <2>4. /\ p \in Seq(Txs) /\ o + Len(p) <= Len(index[a])
        /\ ToSet(p) = {index[a][i] : i \in o + 1 .. o + Len(p)}
    BY <2>2, <2>3, PageIs
  <2>5. Len(p) \in Nat
    BY <2>4
  <2> QED  BY <2>1, <2>3, <2>4, <2>5
<1>6. OneEach(k.got) /\ \A g \in k.got : g.address = a
  BY <1>1, <1>2 DEF Kept
<1>7. j.got = NewRows(k, a, page)
  BY <1>1 DEF Reads, FirstRead, NextRead
<1>8. /\ OneEach(j.got) /\ \A g \in j.got : g.address = a
      /\ k.got \subseteq j.got
      /\ \A t \in ToSet(page) : \E g \in j.got : g.tx = t
  BY <1>5, <1>6, <1>7, NewRowsAre
<1>9. j.offset = offset + Len(page)
  BY <1>1, <1>5 DEF Reads, FirstRead, NextRead
<1> HIDE DEF page, offset, list
<1>10. a \notin j.todo /\ \A r \in j.rows : r.address \notin j.todo \cup {a}
  BY <1>1, <1>2 DEF Reads, FirstRead, NextRead, Kept
<1>11. Kept(j)
  <2>1. OneEach(j.rows) /\ OneEach(j.base)
    BY DEF Reads, Kept
  <2> QED  BY <1>1, <1>8, <1>10, <2>1 DEF Kept
<1>12. j.total <= Len(list)
  BY <1>1, <1>2, <1>3 DEF Reads, FirstRead, NextRead, Paged, list
<1>13. Len(list) = j.total => j.must = ToSet(list)
  BY <1>1 DEF Reads, FirstRead, NextRead, Paged, list
<1>14. ASSUME Len(list) = j.total, NEW i \in 1 .. j.offset
       PROVE  \E g \in j.got : g.tx = list[i]
  <2>1. CASE i <= offset
    <3>1. k.pc = "more"
      BY <1>1, <1>4, <2>1 DEF offset
    <3>2. Len(list) = k.total /\ i \in 1 .. k.offset
      BY <1>4, <1>14, <2>1, <3>1 DEF Reads, FirstRead, NextRead, offset
    <3>3. \E g \in k.got : g.tx = list[i]
      BY <1>2, <3>1, <3>2 DEF Paged, list
    <3> QED  BY <1>8, <3>3
  <2>2. CASE ~(i <= offset)
    <3>1. i \in offset + 1 .. offset + Len(page)
      BY <1>4, <1>5, <1>9, <2>2
    <3>2. list[i] \in ToSet(page)
      BY <1>5, <3>1
    <3> QED  BY <1>8, <3>2
  <2> QED  BY <2>1, <2>2
<1>15. j.missed = {} \/ j.grew
  BY DEF Reads, Paged
<1>16. Paged(j)
  BY <1>1, <1>5, <1>9, <1>12, <1>13, <1>14, <1>15 DEF Paged, list
<1> QED  BY <1>11, <1>16

LEMMA FinishedIs ==
  ASSUME NEW j \in CallRecord, j.address \in Own
  PROVE  LET f == Finished(j)
         IN  /\ f \in CallRecord
             /\ f.pc = "pages" /\ f.todo = j.todo /\ f.tip = j.tip
             /\ f.rows = j.rows \cup j.got /\ f.got = {} /\ f.base = j.base
             /\ f.missed = j.must \ {g.tx : g \in j.got}
             /\ f.grew = (Len(index[j.address]) > j.total)
             /\ f.ran = IF j.ran = "alone" /\ f.missed # {} THEN "partly" ELSE j.ran
<1> DEFINE missed == j.must \ {g.tx : g \in j.got}
           ran == IF j.ran = "alone" /\ missed # {} THEN "partly" ELSE j.ran
           grew == Len(index[j.address]) > j.total
           f == [j EXCEPT !.pc = "pages", !.address = "none", !.offset = 0, !.total = 0,
                          !.must = {}, !.missed = missed, !.grew = grew, !.ran = ran,
                          !.rows = @ \cup j.got, !.got = {}]
<1>1. missed \in SUBSET Txs /\ ran \in Rans /\ grew \in BOOLEAN /\ 0 \in 0 .. Cardinality(Txs)
  BY TxsFinite DEF CallRecord, Rans
<1>2. Finished(j) = f
  BY DEF Finished
<1> HIDE DEF missed, ran, grew
<1>3. /\ f \in CallRecord
      /\ f.pc = "pages" /\ f.todo = j.todo /\ f.tip = j.tip
      /\ f.rows = j.rows \cup j.got /\ f.got = {} /\ f.base = j.base
      /\ f.missed = missed /\ f.grew = grew /\ f.ran = ran
  BY <1>1 DEF CallRecord, Rans
<1> HIDE DEF f
<1> QED  BY <1>2, <1>3 DEF missed, ran, grew

\* Rows of two addresses have different keys.
LEMMA OneEachUnion ==
  ASSUME NEW S, NEW T, OneEach(S), OneEach(T), \A s \in S, t \in T : s.address # t.address
  PROVE  OneEach(S \cup T)
BY DEF OneEach, Key

\* Pages of a list that did not grow have missed nothing when the read is over.
LEMMA FinishedKeeps ==
  ASSUME NEW j \in CallRecord, j.pc = "more", Kept(j), Paged(j), Over(j), Lists
  PROVE  Kept(Finished(j)) /\ Paged(Finished(j))
<1> DEFINE f == Finished(j)
           list == index[j.address]
<1>1. j.address \in Own \ j.todo
  BY DEF Kept
<1>2. /\ f.pc = "pages" /\ f.todo = j.todo
      /\ f.rows = j.rows \cup j.got /\ f.got = {} /\ f.base = j.base
      /\ f.missed = j.must \ {g.tx : g \in j.got}
      /\ f.grew = (Len(list) > j.total)
  BY <1>1, FinishedIs
<1> HIDE DEF f
<1>3. OneEach(j.rows \cup j.got)
  BY OneEachUnion DEF Kept
<1>4. \A r \in j.rows \cup j.got : r.address \notin j.todo
  BY <1>1 DEF Kept
<1>5. Kept(f)
  <2>1. OneEach({})
    BY DEF OneEach
  <2>2. OneEach(j.base)
    BY DEF Kept
  <2> QED  BY <1>2, <1>3, <1>4, <2>1, <2>2 DEF Kept
<1>6. list \in Seq(Txs) /\ Len(list) \in Nat /\ j.total \in Nat /\ j.total <= Len(list)
      /\ j.offset \in Nat
  BY <1>1, TxsFinite DEF Lists, Paged, CallRecord
<1>7. ASSUME ~(Len(list) > j.total)
      PROVE  j.must \ {g.tx : g \in j.got} = {}
  <2>1. Len(list) = j.total
    BY <1>6, <1>7
  <2>2. j.offset >= Len(list)
    BY <2>1 DEF Over
  <2>3. \A i \in 1 .. Len(list) : \E g \in j.got : g.tx = list[i]
    BY <1>6, <2>1, <2>2 DEF Paged
  <2>4. j.must = {list[i] : i \in 1 .. Len(list)}
    BY <1>6, <2>1, MembersOfList DEF Paged
  <2> QED  BY <2>3, <2>4
<1>8. Paged(f)
  BY <1>2, <1>7 DEF Paged
<1> QED  BY <1>5, <1>8 DEF f
(***************************************************************************)
(* Types and pages, step by step.                                          *)
(***************************************************************************)
\* A transaction that was in no list enters those of its addresses.
LEMMA EnterIs ==
  ASSUME NEW t \in Txs, Lists, Enter(t), \A a \in Own : t \notin ToSet(index[a])
  PROVE  /\ index' \in [Own -> Seq(Txs)]
         /\ \A a \in Own : IsInjective(index'[a])
         /\ \A a \in Own : ToSet(index'[a]) =
               IF Concerns(t, a) THEN {t} \cup ToSet(index[a]) ELSE ToSet(index[a])
         /\ \A a \in Own : index'[a] = index[a] \/ Len(index'[a]) = Len(index[a]) + 1
<1>1. index \in [Own -> Seq(Txs)] /\ \A a \in Own : IsInjective(index[a])
  BY DEF Lists
<1>2. \A a \in Own : index'[a] = IF Concerns(t, a) THEN <<t>> \o index[a] ELSE index[a]
  BY DEF Enter
<1>3. index' = [a \in Own |-> index'[a]]
  BY DEF Enter
<1>4. ASSUME NEW a \in Own
      PROVE  /\ index'[a] \in Seq(Txs)
             /\ IsInjective(index'[a])
             /\ ToSet(index'[a]) =
                   IF Concerns(t, a) THEN {t} \cup ToSet(index[a]) ELSE ToSet(index[a])
             /\ index'[a] = index[a] \/ Len(index'[a]) = Len(index[a]) + 1
  <2>1. index[a] \in Seq(Txs) /\ IsInjective(index[a]) /\ t \notin ToSet(index[a])
    BY <1>1
  <2>2. CASE Concerns(t, a)
    <3> DEFINE n == <<t>> \o index[a]
    <3>1. index'[a] = n
      BY <1>2, <2>2
    <3>2. /\ n \in Seq(Txs) /\ Len(n) = Len(index[a]) + 1
          /\ ToSet(n) = {t} \cup ToSet(index[a])
          /\ IsInjective(n)
      BY <2>1, ListGrows
    <3> HIDE DEF n
    <3> QED  BY <2>2, <3>1, <3>2
  <2>3. CASE ~Concerns(t, a)
    BY <1>2, <2>1, <2>3
  <2> QED  BY <2>2, <2>3
<1> QED  BY <1>3, <1>4

\* The lists after a step of the network that keeps what is in them in the chain.
LEMMA ListsGrow ==
  ASSUME NEW t \in Txs, Lists, Depths, index' = index \/ Enter(t),
         \A a \in Own : t \notin ToSet(index[a]),
         NEW d \in {"mempool", "mined", "mature"}, depth' = [depth EXCEPT ![t] = d],
         d \in {"mined", "mature"} => Enter(t)
  PROVE  Lists'
<1>1. \A u \in Txs : depth'[u] = IF u = t THEN d ELSE depth[u]
  BY DEF Depths
<1>2. index \in [Own -> Seq(Txs)] /\ \A a \in Own : ToSet(index[a]) \subseteq Txs
  BY MembersOfList DEF Lists
<1>3. CASE index' = index
  <2>1. \A u \in Txs : (Confirmed(u))' <=> IF u = t THEN d \in {"mined", "mature"} ELSE Confirmed(u)
    BY <1>1 DEF Confirmed
  <2>2. \A a \in Own : \A u \in ToSet(index[a]) : u # t /\ depth'[u] = depth[u]
    BY <1>1, <1>2
  <2>3. Enter(t) => \A a \in Own : Concerns(t, a) => t \in ToSet(index'[a])
    BY EnterIs
  <2>4. \A u, a : Concerns(u, a)' <=> Concerns(u, a)
    BY DEF Concerns, Paid
  <2>5. \A a \in Own : \A u \in ToSet(index[a]) :
           depth[u] # "none" /\ \A b \in Own : Concerns(u, b) => u \in ToSet(index[b])
    BY DEF Lists
  <2>6. \A u \in Txs : Confirmed(u) => \A a \in Own : Concerns(u, a) => u \in ToSet(index[a])
    BY DEF Lists
  <2>7. \A a \in Own : \A u \in ToSet(index[a]) :
           depth'[u] # "none" /\ \A b \in Own : Concerns(u, b) => u \in ToSet(index[b])
    BY <2>2, <2>5
  <2>8. \A u \in Txs : (Confirmed(u))' =>
           \A a \in Own : Concerns(u, a) => u \in ToSet(index[a])
    BY <1>3, <2>1, <2>3, <2>6
  <2> QED  BY <1>3, <2>4, <2>7, <2>8 DEF Lists
<1>4. CASE Enter(t)
  <2>1. /\ index' \in [Own -> Seq(Txs)]
        /\ \A a \in Own : IsInjective(index'[a])
        /\ \A a \in Own : ToSet(index'[a]) =
              IF Concerns(t, a) THEN {t} \cup ToSet(index[a]) ELSE ToSet(index[a])
    BY <1>4, EnterIs
  <2>2. \A u, a : Concerns(u, a)' <=> Concerns(u, a)
    BY DEF Concerns, Paid
  <2>3. \A a \in Own : \A u \in ToSet(index'[a]) : depth'[u] # "none"
    BY <1>1, <1>2, <2>1 DEF Lists
  <2>4. \A a, b \in Own : \A u \in ToSet(index'[a]) : Concerns(u, b) => u \in ToSet(index'[b])
    BY <2>1 DEF Lists
  <2>5. \A u \in Txs : (Confirmed(u))' => u = t \/ Confirmed(u)
    BY <1>1 DEF Confirmed
  <2>6. \A u \in Txs : (Confirmed(u))' => \A a \in Own : Concerns(u, a) => u \in ToSet(index'[a])
    BY <2>1, <2>5 DEF Lists
  <2> QED  BY <2>1, <2>2, <2>3, <2>4, <2>6 DEF Lists
<1> QED  BY <1>3, <1>4
LEMMA ListsStay ==
  ASSUME NEW t \in Txs, Lists, Depths, UNCHANGED index,
         NEW d \in {"mined", "mature"}, depth' = [depth EXCEPT ![t] = d],
         \A a \in Own : Concerns(t, a) => t \in ToSet(index[a])
  PROVE  Lists'
<1>1. \A u \in Txs : depth'[u] = IF u = t THEN d ELSE depth[u]
  BY DEF Depths
<1>2. \A u, a : Concerns(u, a)' <=> Concerns(u, a)
  BY DEF Concerns, Paid
<1>3. \A u \in Txs : (Confirmed(u))' => u = t \/ Confirmed(u)
  BY <1>1 DEF Confirmed
<1>4. \A a \in Own : ToSet(index[a]) \subseteq Txs
  BY MembersOfList DEF Lists
<1>5. \A u \in Txs : depth[u] # "none" => depth'[u] # "none"
  BY <1>1
<1>6. \A u \in Txs : (Confirmed(u))' => \A a \in Own : Concerns(u, a) => u \in ToSet(index[a])
  BY <1>3 DEF Lists
<1>7. \A a \in Own : \A u \in ToSet(index[a]) :
         depth'[u] # "none" /\ \A b \in Own : Concerns(u, b) => u \in ToSet(index[b])
  BY <1>4, <1>5 DEF Lists
<1> QED  BY <1>2, <1>6, <1>7 DEF Lists

\* A list that grows leaves the pages read so far behind: they are promised nothing.
LEMMA PagedStays ==
  ASSUME NEW d \in Callers, call[d] \in CallRecord, Kept(call[d]), Paged(call[d]), Lists,
         \A a \in Own : index'[a] = index[a] \/ Len(index'[a]) = Len(index[a]) + 1,
         SameWork(call'[d], call[d])
  PROVE  Kept(call[d])' /\ Paged(call[d])'
<1> DEFINE k == call[d]
           a == k.address
<1>1. Kept(call[d])'
  BY DEF Kept, SameWork
<1>2. CASE k.pc # "more"
  BY <1>1, <1>2 DEF Paged, SameWork
<1>3. CASE k.pc = "more"
  <2>1. a \in Own /\ Len(index[a]) \in Nat /\ k.total \in Nat /\ k.offset \in Nat
    BY <1>3, TxsFinite DEF Kept, Lists, CallRecord
  <2>2. CASE index'[a] = index[a]
    BY <1>1, <1>3, <2>2 DEF Paged, SameWork
  <2>3. CASE Len(index'[a]) = Len(index[a]) + 1
    <3>1. k.offset <= Len(index'[a]) /\ k.total <= Len(index'[a]) /\ Len(index'[a]) # k.total
      BY <1>3, <2>1, <2>3 DEF Paged
    <3> QED  BY <1>1, <1>3, <3>1 DEF Paged, SameWork
  <2> QED  BY <2>1, <2>2, <2>3
<1> QED  BY <1>2, <1>3

Types == /\ Depths
         /\ stored \subseteq Row /\ OneEach(stored)
         /\ call \in [Callers -> CallRecord]
         /\ faults \in 0 .. MaxFaults

LEMMA TypesAndLists == Types /\ Lists => TypeOK
BY DEF Types, Depths, Lists, TypeOK, OneEach, CallRecord

LEMMA TypesOf == TypeOK => Types
BY DEF Types, Depths, TypeOK, OneEach, CallRecord

\* What the steps of the network have in common.
NetworkStep ==
    /\ \E t \in Txs, d \in {"mempool", "mined", "mature"} :
          /\ depth' = [depth EXCEPT ![t] = d]
          /\ d = "mempool" => depth[t] = "none"
          /\ depth[t] = "mature" => d = "mature"
    /\ \A a \in Own : index'[a] = index[a] \/ Len(index'[a]) = Len(index[a]) + 1
    /\ Lists'

LEMMA NetworkSteps ==
  ASSUME Lists, Depths,
         World \/ \E c \in Senders : Send(c)
  PROVE  NetworkStep
<1>0. index' = index => \A a \in Own : index'[a] = index[a]
  OBVIOUS
<1>1. \A t \in Txs : depth[t] = "none" => \A a \in Own : t \notin ToSet(index[a])
  BY DEF Lists
<1>2. ASSUME NEW t \in Txs, depth[t] = "none", depth' = [depth EXCEPT ![t] = "mempool"],
             index' = index \/ Enter(t)
      PROVE  NetworkStep
  <2>1. Lists'
    BY <1>1, <1>2, ListsGrow
  <2>2. \A a \in Own : index'[a] = index[a] \/ Len(index'[a]) = Len(index[a]) + 1
    BY <1>0, <1>1, <1>2, EnterIs
  <2> QED  BY <1>2, <2>1, <2>2 DEF NetworkStep
<1>3. CASE Accept
  BY <1>2, <1>3 DEF Accept
<1>4. CASE \E c \in Senders : Send(c)
  BY <1>2, <1>4 DEF Send
<1>5. CASE Mine
  <2>1. PICK t \in Txs :
           /\ depth[t] = IF t \in Coinbase THEN "none" ELSE "mempool"
           /\ depth' = [depth EXCEPT ![t] = "mined"]
           /\ IF Listed(t) THEN index' = index ELSE Enter(t)
    BY <1>5 DEF Mine
  <2>2. depth[t] # "mature"
    BY <2>1
  <2>3. CASE Listed(t)
    <3>1. \A a \in Own : Concerns(t, a) => t \in ToSet(index[a])
      BY <2>3 DEF Listed, Lists
    <3>2. Lists'
      BY <2>1, <2>3, <3>1, ListsStay
    <3> QED  BY <1>0, <2>1, <2>2, <2>3, <3>2 DEF NetworkStep
  <2>4. CASE ~Listed(t)
    <3>1. \A a \in Own : t \notin ToSet(index[a])
      BY <2>4 DEF Listed
    <3>2. Lists'
      BY <2>1, <2>4, <3>1, ListsGrow
    <3>3. \A a \in Own : index'[a] = index[a] \/ Len(index'[a]) = Len(index[a]) + 1
      BY <2>1, <2>4, <3>1, EnterIs
    <3> QED  BY <2>1, <2>2, <3>2, <3>3 DEF NetworkStep
  <2> QED  BY <2>3, <2>4
<1>6. CASE Mature
  <2>1. PICK t \in Coinbase :
           depth[t] = "mined" /\ depth' = [depth EXCEPT ![t] = "mature"] /\ index' = index
    BY <1>6 DEF Mature
  <2>2. t \in Txs
    BY HistoryAssumption
  <2>3. \A a \in Own : Concerns(t, a) => t \in ToSet(index[a])
    BY <2>1, <2>2 DEF Lists, Confirmed
  <2>4. Lists'
    BY <2>1, <2>2, <2>3, ListsStay
  <2> QED  BY <1>0, <2>1, <2>2, <2>4 DEF NetworkStep
<1> QED  BY <1>3, <1>4, <1>5, <1>6 DEF World
(***************************************************************************)
(* What each step does to the calls.                                       *)
(***************************************************************************)
LEMMA WorldDoes ==
  ASSUME Types, World
  PROVE  /\ UNCHANGED <<stored, faults>>
         /\ call' \in [Callers -> CallRecord]
         /\ \A d \in Callers : /\ SameWork(call'[d], call[d])
                               /\ call'[d].ran = IF call[d].ran = "quiet" THEN "alone" ELSE call[d].ran
<1>1. UNCHANGED <<stored, faults>> /\ call' = [d \in Callers |-> Disturbed(call[d])]
  BY DEF World, Accept, Mine, Mature
<1>2. \A d \in Callers : call[d] \in CallRecord
  BY DEF Types
<1>3. \A d \in Callers :
         /\ Disturbed(call[d]) \in CallRecord /\ SameWork(Disturbed(call[d]), call[d])
         /\ Disturbed(call[d]).ran = IF call[d].ran = "quiet" THEN "alone" ELSE call[d].ran
  BY <1>2, DisturbedIs
<1> QED  BY <1>1, <1>3

\* Beside a call that begins, the others go on, mixed up with it.
OthersMixed(c) == \A d \in Callers : d # c => SameWork(call'[d], call[d]) /\ call'[d].ran = "mixed"
RanOf(c, ran) == call'[c].ran = IF \A e \in Callers \ {c} : At(e, "idle") THEN ran ELSE "mixed"

LEMMA TipKept ==
  ASSUME NEW k \in CallRecord, k.tip = TRUE, k.todo = {}
  PROVE  /\ \A todo : [k EXCEPT !.pc = "pages", !.todo = todo] =
                      [k EXCEPT !.pc = "pages", !.todo = todo, !.tip = TRUE]
         /\ [k EXCEPT !.pc = "pages"] = [k EXCEPT !.pc = "pages", !.todo = {}, !.tip = TRUE]
BY DEF CallRecord

LEMMA StartDoes ==
  ASSUME NEW c \in Callers, Types, StartRefresh(c) \/ StartPoorly(c)
  PROVE  /\ UNCHANGED <<depth, index, stored>>
         /\ faults' \in 0 .. MaxFaults
         /\ call' \in [Callers -> CallRecord]
         /\ OthersMixed(c)
         /\ At(c, "idle")
         /\ \E todo \in {{}, Own}, tip \in BOOLEAN, ran \in {"quiet", "alone"} :
               /\ SameWork(call'[c], Reading(todo, tip))
               /\ RanOf(c, ran)
               /\ ran = "quiet" => todo = Own /\ tip
<1>1. PICK todo \in {{}, Own}, tip \in BOOLEAN, ran \in {"quiet", "alone"} :
         /\ call' = Begun(c, Reading(todo, tip), ran)
         /\ ran = "quiet" => todo = Own /\ tip
  <2>1. CASE StartRefresh(c)
    <3>1. [Idle EXCEPT !.pc = "pages", !.todo = Own] = Reading(Own, TRUE)
      BY IdleIs, TipKept DEF Reading
    <3>2. call' = Begun(c, Reading(Own, TRUE), "quiet")
      BY <2>1, <3>1 DEF StartRefresh
    <3> QED  BY <3>2
  <2>2. CASE StartPoorly(c)
    <3>1. [Idle EXCEPT !.pc = "pages"] = Reading({}, TRUE)
      BY IdleIs, TipKept DEF Reading
    <3>2. call' = Begun(c, Reading({}, TRUE), "alone") \/ call' = Begun(c, Reading(Own, FALSE), "alone")
      BY <2>2, <3>1 DEF StartPoorly, Reading
    <3> QED  BY <3>2
  <2> QED  BY <2>1, <2>2
<1>2. Reading(todo, tip) \in CallRecord
  BY BeginIs
<1>3. call \in [Callers -> CallRecord] /\ ran \in Rans
  BY DEF Types, Rans
<1>4. /\ call' \in [Callers -> CallRecord]
      /\ SameWork(call'[c], Reading(todo, tip))
      /\ RanOf(c, ran)
      /\ OthersMixed(c)
  BY <1>1, <1>2, <1>3, BegunIs DEF RanOf, OthersMixed
<1>5. faults' \in 0 .. MaxFaults
  BY HistoryAssumption DEF StartRefresh, StartPoorly, Fault, Types
<1>6. UNCHANGED <<depth, index, stored>> /\ At(c, "idle")
  BY DEF StartRefresh, StartPoorly
<1> QED  BY <1>1, <1>4, <1>5, <1>6

LEMMA SendDoes ==
  ASSUME NEW c \in Callers, Types, Send(c)
  PROVE  /\ UNCHANGED <<stored, faults>>
         /\ call' \in [Callers -> CallRecord]
         /\ OthersMixed(c)
         /\ At(c, "idle")
         /\ RanOf(c, "alone")
         /\ \E t \in Txs : SameWork(call'[c], Paying(LocalRows(t)))
<1>1. PICK t \in Txs : call' = Begun(c, Paying(LocalRows(t)), "alone")
  BY DEF Send, Paying
<1>2. Paying(LocalRows(t)) \in CallRecord
  BY LocalRowsWait, PaymentIs
<1>3. call \in [Callers -> CallRecord] /\ "alone" \in Rans
  BY DEF Types, Rans
<1>4. /\ call' \in [Callers -> CallRecord]
      /\ SameWork(call'[c], Paying(LocalRows(t)))
      /\ RanOf(c, "alone")
      /\ OthersMixed(c)
  BY <1>1, <1>2, <1>3, BegunIs DEF RanOf, OthersMixed
<1>5. UNCHANGED <<stored, faults>> /\ At(c, "idle")
  BY DEF Send
<1> QED  BY <1>4, <1>5

\* Only the call of c changes.
OnlyMine(c) == /\ UNCHANGED <<depth, index>>
               /\ call' \in [Callers -> CallRecord]
               /\ \A d \in Callers : d # c => call'[d] = call[d]

LEMMA ReadDoes ==
  ASSUME NEW c \in Callers, Types, Lists, Kept(call[c]), Paged(call[c]),
         (\E a \in Own : FirstPage(c, a)) \/ NextPage(c)
  PROVE  /\ OnlyMine(c) /\ UNCHANGED <<stored, faults>>
         /\ \E j \in CallRecord, a \in Own :
               /\ Reads(call[c], j, a) /\ Kept(j) /\ Paged(j)
               /\ call'[c] = j \/ (call'[c] = Finished(j) /\ Over(j))
<1>1. call \in [Callers -> CallRecord] /\ Depths /\ call[c] \in CallRecord
  BY DEF Types
<1>2. PICK j \in CallRecord, a \in Own :
         Reads(call[c], j, a) /\ (Becomes(c, j) \/ (Becomes(c, Finished(j)) /\ Over(j)))
  <2>1. CASE \E a \in Own : FirstPage(c, a)
    BY <1>1, <2>1, FirstPageReads
  <2>2. CASE NextPage(c)
    <3>1. call[c].address \in Own
      BY <2>2 DEF NextPage, At, Kept
    <3> QED  BY <1>1, <2>2, <3>1, NextPageReads
  <2> QED  BY <2>1, <2>2
<1>3. Kept(j) /\ Paged(j)
  BY <1>1, <1>2, ReadKeeps
<1>4. Finished(j) \in CallRecord
  BY <1>2, FinishedIs DEF Reads
<1>5. UNCHANGED <<depth, index, stored, faults>>
  BY DEF FirstPage, NextPage
<1> QED  BY <1>1, <1>2, <1>3, <1>4, <1>5, BecomesOne DEF OnlyMine, Becomes

LEMMA AddressFailsDoes ==
  ASSUME NEW c \in Callers, Types, Kept(call[c]), AddressFails(c)
  PROVE  /\ OnlyMine(c) /\ UNCHANGED stored
         /\ faults' \in 0 .. MaxFaults
         /\ call[c].pc \in {"pages", "more"}
         /\ call'[c].pc = "pages" /\ call'[c].todo \subseteq call[c].todo
         /\ call'[c].rows = call[c].rows /\ call'[c].got = {} /\ call'[c].base = call[c].base
         /\ call'[c].missed = {}
         /\ call'[c].ran \in {"mixed", "partly"}
         /\ call[c].ran = "mixed" <=> call'[c].ran = "mixed"
<1> DEFINE k == call[c]
<1>1. k \in CallRecord /\ call \in [Callers -> CallRecord]
  BY DEF Types
<1>2. PICK a \in IF At(c, "more") THEN {k.address} ELSE k.todo :
         LET p == Partly(k)
         IN  call' = [call EXCEPT ![c] = Finished([p EXCEPT !.todo = @ \ {a}, !.address = a,
                                                            !.got = {}, !.must = {}])]
  BY DEF AddressFails
<1>3. k.pc \in {"pages", "more"}
  BY DEF AddressFails, At
<1>4. a \in Own
  BY <1>1, <1>2 DEF At, Kept, CallRecord
<1> DEFINE p == Partly(k)
           j == [p EXCEPT !.todo = @ \ {a}, !.address = a, !.got = {}, !.must = {}]
<1>5. p \in CallRecord /\ SameWork(p, k) /\ p.ran \in {"mixed", "partly"}
  BY <1>1, PartlyIs
<1>6. k.ran = "mixed" <=> p.ran = "mixed"
  BY <1>1 DEF Partly, CallRecord
<1>7. call' = [call EXCEPT ![c] = Finished(j)]
  BY <1>2
<1> HIDE DEF p
<1>8. /\ j \in CallRecord /\ j.todo = p.todo \ {a} /\ j.address = a /\ j.got = {} /\ j.must = {}
      /\ j.rows = p.rows /\ j.base = p.base /\ j.ran = p.ran
  BY <1>4, <1>5 DEF CallRecord
<1> HIDE DEF j
<1>9. LET f == Finished(j)
      IN  /\ f \in CallRecord
          /\ f.pc = "pages" /\ f.todo = j.todo /\ f.rows = j.rows \cup j.got /\ f.got = {}
          /\ f.base = j.base
          /\ f.missed = j.must \ {g.tx : g \in j.got}
          /\ f.ran = IF j.ran = "alone" /\ f.missed # {} THEN "partly" ELSE j.ran
  BY <1>4, <1>8, FinishedIs
<1>10. OnlyMine(c) /\ call'[c] = Finished(j)
  BY <1>1, <1>7, <1>9, BecomesOne DEF OnlyMine, AddressFails
<1>11. UNCHANGED stored /\ faults' \in 0 .. MaxFaults
  BY HistoryAssumption DEF AddressFails, Fault, Types
<1>12. /\ call'[c].pc = "pages" /\ call'[c].todo \subseteq k.todo /\ call'[c].rows = k.rows
       /\ call'[c].got = {} /\ call'[c].base = k.base /\ call'[c].missed = {}
  BY <1>5, <1>8, <1>9, <1>10 DEF SameWork
<1>13. call'[c].ran = p.ran
  BY <1>5, <1>8, <1>9, <1>10
<1> QED  BY <1>3, <1>5, <1>6, <1>10, <1>11, <1>12, <1>13
LEMMA FetchedDoes ==
  ASSUME NEW c \in Callers, Types, Fetched(c)
  PROVE  /\ OnlyMine(c) /\ UNCHANGED <<stored, faults>>
         /\ call[c].pc = "pages" /\ call[c].todo = {}
         /\ call'[c].pc = "electrum"
         /\ call'[c].base = IF call[c].rows # {} THEN call[c].rows ELSE stored
         /\ call'[c].rows = {} /\ call'[c].missed = {}
         /\ call'[c].got = call[c].got /\ call'[c].ran = call[c].ran
<1> DEFINE k == call[c]
           base == IF k.rows # {} THEN k.rows ELSE stored
           j == [k EXCEPT !.pc = "electrum", !.base = base, !.rows = {}, !.missed = {},
                          !.grew = FALSE]
<1>1. k \in CallRecord /\ call \in [Callers -> CallRecord] /\ k.pc = "pages" /\ k.todo = {}
  BY DEF Types, Fetched, At
<1>2. base \in SUBSET Row
  BY <1>1 DEF Types, CallRecord
<1>3. call' = [call EXCEPT ![c] = j]
  BY <1>1 DEF Fetched
<1> HIDE DEF base
<1>4. /\ j \in CallRecord /\ j.pc = "electrum" /\ j.base = base /\ j.rows = {} /\ j.missed = {}
      /\ j.got = k.got /\ j.ran = k.ran
  BY <1>1, <1>2 DEF CallRecord
<1> HIDE DEF j
<1>5. OnlyMine(c) /\ call'[c] = j
  <2>1. /\ call' \in [Callers -> CallRecord] /\ call'[c] = j
        /\ \A d \in Callers : d # c => call'[d] = call[d]
    BY <1>1, <1>3, <1>4, BecomesOne
  <2>2. UNCHANGED <<depth, index>>
    BY DEF Fetched
  <2> QED  BY <2>1, <2>2 DEF OnlyMine
<1> QED  BY <1>1, <1>4, <1>5 DEF base, Fetched

\* A table that cannot be read: an empty base, or a payment's rows alone.
LEMMA LoadFailsDoes ==
  ASSUME NEW c \in Callers, Types, LoadFails(c)
  PROVE  /\ OnlyMine(c) /\ UNCHANGED stored
         /\ faults' \in 0 .. MaxFaults
         /\ call[c].pc \in {"pages", "append"}
         /\ call'[c].pc \in {"electrum", "store"}
         /\ call'[c].rows = call[c].rows /\ call'[c].got = call[c].got
         /\ call'[c].base = {} \/ call'[c].base = call[c].base
         /\ \/ call'[c].missed = {}
            \/ call'[c].missed = call[c].missed /\ call'[c].grew = call[c].grew
         /\ call'[c].ran \in {"mixed", "partly"}
         /\ call[c].ran = "mixed" <=> call'[c].ran = "mixed"
<1> DEFINE k == call[c]
<1>1. k \in CallRecord /\ call \in [Callers -> CallRecord]
  BY DEF Types
<1>2. PICK p : p = Partly(k)
  OBVIOUS
<1>3. p \in CallRecord /\ SameWork(p, k) /\ p.ran \in {"mixed", "partly"}
  BY <1>1, <1>2, PartlyIs
<1>4. k.ran = "mixed" <=> p.ran = "mixed"
  BY <1>1, <1>2 DEF Partly, CallRecord
<1>5. PICK j : /\ call' = [call EXCEPT ![c] = j]
               /\ \/ /\ k.pc = "pages"
                     /\ j = [p EXCEPT !.pc = "electrum", !.base = {}, !.missed = {}, !.grew = FALSE]
                  \/ k.pc = "append" /\ j = [p EXCEPT !.pc = "store"]
  BY <1>1, <1>2 DEF LoadFails, At
<1>6. /\ j \in CallRecord /\ k.pc \in {"pages", "append"} /\ j.pc \in {"electrum", "store"}
      /\ j.rows = p.rows /\ j.got = p.got /\ j.ran = p.ran
      /\ j.base = {} \/ j.base = p.base
      /\ j.missed = {} \/ (j.missed = p.missed /\ j.grew = p.grew)
  BY <1>3, <1>5 DEF CallRecord
<1>7. OnlyMine(c) /\ call'[c] = j
  BY <1>1, <1>5, <1>6, BecomesOne DEF OnlyMine, LoadFails
<1>8. UNCHANGED stored /\ faults' \in 0 .. MaxFaults
  BY HistoryAssumption DEF LoadFails, Fault, Types
<1>9. p.rows = k.rows /\ p.got = k.got /\ p.base = k.base /\ p.missed = k.missed /\ p.grew = k.grew
  BY <1>3 DEF SameWork
<1> QED  BY <1>3, <1>4, <1>6, <1>7, <1>8, <1>9

\* The record after the pending transactions are merged.
Merged(k, ran, new) == [k EXCEPT !.pc = "store", !.rows = Merge(k.base, new), !.ran = ran]

LEMMA MergedIs ==
  ASSUME NEW k \in CallRecord, NEW ran \in Rans, NEW new \in SUBSET Row
  PROVE  LET j == Merged(k, ran, new)
         IN  /\ j \in CallRecord /\ j.pc = "store" /\ j.rows = Merge(k.base, new) /\ j.ran = ran
             /\ j.got = k.got /\ j.base = k.base /\ j.missed = k.missed /\ j.grew = k.grew
<1>1. Merge(k.base, new) \in SUBSET Row
  BY DEF Merge, CallRecord
<1> QED  BY <1>1 DEF Merged, CallRecord, Rans

LEMMA SameRan ==
  ASSUME NEW k \in CallRecord
  PROVE  \A rows : [k EXCEPT !.pc = "store", !.rows = rows] =
                   [k EXCEPT !.pc = "store", !.rows = rows, !.ran = k.ran]
BY DEF CallRecord

LEMMA DisturbedRan ==
  ASSUME NEW k \in CallRecord
  PROVE  LET p == Disturbed(k)
             ran == IF k.ran = "quiet" THEN "alone" ELSE k.ran
         IN  \A rows : [p EXCEPT !.pc = "store", !.rows = rows] =
                       [k EXCEPT !.pc = "store", !.rows = rows, !.ran = ran]
BY DEF CallRecord, Disturbed

LEMMA AnswersAreTxs == \A P, M : \A S \in Answers(P, M) : S \subseteq P
BY DEF Answers, Cut

LEMMA PendingDoes ==
  ASSUME NEW c \in Callers, Types, ReadPending(c) \/ ReadPendingPoorly(c)
  PROVE  /\ OnlyMine(c) /\ UNCHANGED stored
         /\ faults' \in 0 .. MaxFaults
         /\ call[c].pc = "electrum"
         /\ \E S \in SUBSET Txs, orphans \in SUBSET Txs, ran \in Rans :
               /\ call'[c] = Merged(call[c], ran, ExpandAll(S, orphans))
               /\ call'[c] \in CallRecord
               /\ IF ran = "quiet" THEN /\ call[c].ran = "quiet"
                                        /\ orphans = {} /\ S \in Answers(Pending, Mined)
                  ELSE \/ ran = call[c].ran
                       \/ ran = "alone" /\ call[c].ran = "quiet"
<1> DEFINE k == call[c]
           ranOf == IF k.ran = "quiet" THEN "alone" ELSE k.ran
           Was(S, orphans, ran) ==
               call' = [call EXCEPT ![c] = Merged(k, ran, ExpandAll(S, orphans))]
           Right(S, orphans, ran) ==
               IF ran = "quiet" THEN /\ k.ran = "quiet"
                                     /\ orphans = {} /\ S \in Answers(Pending, Mined)
               ELSE \/ ran = k.ran
                    \/ ran = "alone" /\ k.ran = "quiet"
<1>1. k \in CallRecord /\ call \in [Callers -> CallRecord] /\ k.pc = "electrum"
  BY DEF Types, ReadPending, ReadPendingPoorly, At
<1>2. k.ran \in Rans /\ ranOf \in Rans /\ ranOf # "quiet"
  BY <1>1 DEF CallRecord, Rans
<1>3. Pending \subseteq Txs
  BY DEF Pending
<1>4. \E S \in SUBSET Txs, orphans \in SUBSET Txs, ran \in Rans :
         Was(S, orphans, ran) /\ Right(S, orphans, ran)
  <2>1. CASE ReadPending(c)
    <3>1. PICK S \in Answers(Pending, Mined) :
             call' = [call EXCEPT ![c] = [k EXCEPT !.pc = "store",
                                                   !.rows = Merge(k.base, ExpandAll(S, {}))]]
      BY <1>1, <2>1 DEF ReadPending
    <3>2. Was(S, {}, k.ran)
      BY <1>1, <3>1, SameRan DEF Merged
    <3>3. S \in SUBSET Txs
      BY <1>3, AnswersAreTxs
    <3>4. Right(S, {}, k.ran)
      OBVIOUS
    <3> HIDE DEF Was, Right
    <3> QED  BY <1>2, <3>2, <3>3, <3>4
  <2>2. CASE ReadPendingPoorly(c)
    <3>1. PICK S \in SUBSET Txs, orphans \in SUBSET Txs :
             LET p == Disturbed(k)
             IN  call' = [call EXCEPT ![c] =
                    [p EXCEPT !.pc = "store",
                              !.rows = Merge(k.base, ExpandAll(S, orphans))]]
      <4>1. CASE \E P \in SUBSET {t \in Txs \ Coinbase : depth[t] # "none"} :
                 \E S \in Answers(P, Mined \ P) :
                    call' = [call EXCEPT ![c] = [Disturbed(@) EXCEPT !.pc = "store",
                                         !.rows = Merge(call[c].base, ExpandAll(S, {}))]]
        <5>1. PICK P \in SUBSET {t \in Txs \ Coinbase : depth[t] # "none"} :
                 \E S \in Answers(P, Mined \ P) :
                    call' = [call EXCEPT ![c] = [Disturbed(@) EXCEPT !.pc = "store",
                                         !.rows = Merge(call[c].base, ExpandAll(S, {}))]]
          BY <4>1
        <5>2. PICK S \in Answers(P, Mined \ P) :
                 call' = [call EXCEPT ![c] = [Disturbed(@) EXCEPT !.pc = "store",
                                      !.rows = Merge(call[c].base, ExpandAll(S, {}))]]
          BY <5>1
        <5>3. S \in SUBSET Txs
          BY AnswersAreTxs
        <5> QED  BY <5>2, <5>3
      <4>2. CASE \E t \in Pending : \E skipped \in SUBSET {t}, n \in Rooms(Mined) :
                 \E listed \in Cut(Pending, n) : \E S \in Cut(listed \ skipped, ExpandLimit) :
                    call' = [call EXCEPT ![c] = [Disturbed(@) EXCEPT !.pc = "store",
                                 !.rows = Merge(call[c].base, ExpandAll(S, {t}))]]
        <5>1. PICK t \in Pending : \E skipped \in SUBSET {t}, n \in Rooms(Mined) :
                 \E listed \in Cut(Pending, n) : \E S \in Cut(listed \ skipped, ExpandLimit) :
                    call' = [call EXCEPT ![c] = [Disturbed(@) EXCEPT !.pc = "store",
                                 !.rows = Merge(call[c].base, ExpandAll(S, {t}))]]
          BY <4>2
        <5>2. PICK skipped, listed :
                 /\ listed \subseteq Pending
                 /\ \E S \in Cut(listed \ skipped, ExpandLimit) :
                       call' = [call EXCEPT ![c] = [Disturbed(@) EXCEPT !.pc = "store",
                                    !.rows = Merge(call[c].base, ExpandAll(S, {t}))]]
          <6>1. \A n : \A listed \in Cut(Pending, n) : listed \subseteq Pending
            BY DEF Cut
          <6> QED  BY <5>1, <6>1, Zenon
        <5>3. PICK S \in Cut(listed \ skipped, ExpandLimit) :
                    call' = [call EXCEPT ![c] = [Disturbed(@) EXCEPT !.pc = "store",
                                 !.rows = Merge(call[c].base, ExpandAll(S, {t}))]]
          BY <5>2
        <5>4. S \subseteq listed /\ listed \subseteq Pending
          BY <5>2 DEF Cut
        <5>5. S \in SUBSET Txs /\ {t} \in SUBSET Txs
          BY <1>3, <5>4
        <5> QED  BY <5>3, <5>5
      <4> QED  BY <2>2, <4>1, <4>2 DEF ReadPendingPoorly
    <3>2. Was(S, orphans, ranOf)
      BY <1>1, <3>1, DisturbedRan DEF Merged
    <3>3. Right(S, orphans, ranOf)
      BY <1>2
    <3> HIDE DEF Was, Right, ranOf
    <3> QED  BY <1>2, <3>2, <3>3
  <2> QED  BY <2>1, <2>2 DEF ReadPending, ReadPendingPoorly
<1>5. PICK S \in SUBSET Txs, orphans \in SUBSET Txs, ran \in Rans :
         Was(S, orphans, ran) /\ Right(S, orphans, ran)
  BY <1>4
<1>6. Merged(k, ran, ExpandAll(S, orphans)) \in CallRecord
  BY <1>1, ExpandedRowsWait, MergedIs
<1>7. /\ OnlyMine(c)
      /\ call'[c] = Merged(k, ran, ExpandAll(S, orphans))
  BY <1>1, <1>5, <1>6, BecomesOne DEF OnlyMine, ReadPending, ReadPendingPoorly
<1>8. UNCHANGED stored /\ faults' \in 0 .. MaxFaults
  <2>1. CASE ReadPending(c)
    BY <2>1 DEF ReadPending, Types
  <2>2. CASE ReadPendingPoorly(c)
    <3>1. UNCHANGED stored /\ faults < MaxFaults /\ faults' = faults + 1
      BY <2>2 DEF ReadPendingPoorly, Fault
    <3> QED  BY <3>1, HistoryAssumption DEF Types
  <2> QED  BY <2>1, <2>2
<1> QED  BY <1>1, <1>5, <1>6, <1>7, <1>8

LEMMA AppendDoes ==
  ASSUME NEW c \in Callers, Types, AppendLocal(c)
  PROVE  /\ OnlyMine(c) /\ UNCHANGED <<stored, faults>>
         /\ call[c].pc = "append"
         /\ call'[c].pc = "store" /\ call'[c].rows = Merge(stored, call[c].rows)
         /\ call'[c].got = call[c].got /\ call'[c].base = call[c].base
         /\ call'[c].missed = call[c].missed /\ call'[c].grew = call[c].grew
         /\ call'[c].ran = call[c].ran
<1> DEFINE k == call[c]
           rows == Merge(stored, k.rows)
           j == [k EXCEPT !.pc = "store", !.rows = rows]
<1>1. k \in CallRecord /\ call \in [Callers -> CallRecord] /\ k.pc = "append"
  BY DEF Types, AppendLocal, At
<1>2. rows \in SUBSET Row
  BY <1>1 DEF Merge, Types, CallRecord
<1>3. call' = [call EXCEPT ![c] = j]
  BY <1>1 DEF AppendLocal
<1> HIDE DEF rows
<1>4. /\ j \in CallRecord /\ j.pc = "store" /\ j.rows = rows /\ j.got = k.got /\ j.base = k.base
      /\ j.missed = k.missed /\ j.grew = k.grew /\ j.ran = k.ran
  BY <1>1, <1>2 DEF CallRecord
<1> HIDE DEF j
<1>5. OnlyMine(c) /\ call'[c] = j
  BY <1>1, <1>3, <1>4, BecomesOne DEF OnlyMine, AppendLocal
<1> QED  BY <1>1, <1>4, <1>5 DEF rows, AppendLocal

LEMMA EndDoes ==
  ASSUME NEW c \in Callers, Types, Store(c) \/ ElectrumFails(c)
  PROVE  /\ OnlyMine(c) /\ call'[c] = Idle
         /\ faults' \in 0 .. MaxFaults
         /\ ~At(c, "idle")
         /\ IF Store(c) THEN At(c, "store") /\ stored' = call[c].rows ELSE UNCHANGED stored
<1>1. call \in [Callers -> CallRecord] /\ call' = [call EXCEPT ![c] = Idle]
  BY DEF Types, Store, ElectrumFails
<1>2. OnlyMine(c) /\ call'[c] = Idle
  BY <1>1, IdleIs, BecomesOne DEF OnlyMine, Store, ElectrumFails
<1>3. faults' \in 0 .. MaxFaults
  BY HistoryAssumption DEF Store, ElectrumFails, Fault, Types
<1>4. ~At(c, "idle")
  BY DEF Store, ElectrumFails, At
<1>5. IF Store(c) THEN At(c, "store") /\ stored' = call[c].rows ELSE UNCHANGED stored
  BY DEF Store, ElectrumFails
<1> QED  BY <1>2, <1>3, <1>4, <1>5
(***************************************************************************)
(* The first invariant is kept.                                            *)
(***************************************************************************)
LEMMA OthersPaged ==
  ASSUME NEW d \in Callers, Types, Lists, Kept(call[d]), Paged(call[d]), UNCHANGED index,
         SameWork(call'[d], call[d])
  PROVE  Kept(call[d])' /\ Paged(call[d])'
<1>1. call[d] \in CallRecord
  BY DEF Types
<1>2. \A a \in Own : index'[a] = index[a] \/ Len(index'[a]) = Len(index[a]) + 1
  OBVIOUS
<1> QED  BY <1>1, <1>2, PagedStays

LEMMA ListsSame == Lists /\ UNCHANGED <<depth, index>> => Lists'
BY DEF Lists, Confirmed, Concerns, Paid

\* A call that is not at a list has nothing to promise of one.
LEMMA AwayFromPages ==
  ASSUME NEW c \in Callers, call'[c].pc \in {"idle", "electrum", "append", "store"},
         OneEach(call'[c].got), OneEach(call'[c].rows), OneEach(call'[c].base),
         call'[c].missed = {} \/ call'[c].grew
  PROVE  Kept(call[c])' /\ Paged(call[c])'
<1>1. Kept(call[c])'
  BY DEF Kept
<1>2. Paged(call[c])'
  BY DEF Paged
<1> QED  BY <1>1, <1>2

LEMMA OneEachEmpty == OneEach({})
BY DEF OneEach

\* The call of c after a step of its own.
LEMMA MinePaged ==
  ASSUME NEW c \in Callers, PageInv, Types, Step(c)
  PROVE  /\ OnlyMine(c)
         /\ stored' \subseteq Row /\ OneEach(stored') /\ faults' \in 0 .. MaxFaults
         /\ Kept(call[c])' /\ Paged(call[c])'
<1>0. /\ Lists /\ Kept(call[c]) /\ Paged(call[c]) /\ call[c] \in CallRecord
      /\ stored \subseteq Row /\ OneEach(stored) /\ faults \in 0 .. MaxFaults
      /\ OneEach(call[c].got) /\ OneEach(call[c].rows) /\ OneEach(call[c].base)
  BY DEF PageInv, Types, Kept
<1>1. CASE (\E a \in Own : FirstPage(c, a)) \/ NextPage(c)
  <2>1. /\ OnlyMine(c) /\ UNCHANGED <<stored, faults>>
        /\ \E j \in CallRecord, a \in Own :
               /\ Reads(call[c], j, a) /\ Kept(j) /\ Paged(j)
               /\ call'[c] = j \/ (call'[c] = Finished(j) /\ Over(j))
    BY <1>0, <1>1, ReadDoes
  <2>2. PICK j \in CallRecord, a \in Own :
               /\ Reads(call[c], j, a) /\ Kept(j) /\ Paged(j)
               /\ call'[c] = j \/ (call'[c] = Finished(j) /\ Over(j))
    BY <2>1
  <2>3. PICK k : k = call'[c] /\ Kept(k) /\ Paged(k)
    BY <1>0, <2>2, FinishedKeeps DEF Reads
  <2>4. index' = index
    BY <2>1 DEF OnlyMine
  <2>5. Kept(call[c])'
    BY <2>3 DEF Kept
  <2>6. Paged(call[c])'
    BY <2>3, <2>4 DEF Paged
  <2> QED  BY <1>0, <2>1, <2>5, <2>6
<1>2. CASE AddressFails(c)
  <2>1. /\ OnlyMine(c) /\ UNCHANGED stored /\ faults' \in 0 .. MaxFaults
        /\ call[c].pc \in {"pages", "more"}
        /\ call'[c].pc = "pages" /\ call'[c].todo \subseteq call[c].todo
        /\ call'[c].rows = call[c].rows /\ call'[c].got = {} /\ call'[c].base = call[c].base
        /\ call'[c].missed = {}
    BY <1>0, <1>2, AddressFailsDoes
  <2>2. Kept(call[c])'
    BY <1>0, <2>1, OneEachEmpty DEF Kept
  <2>3. Paged(call[c])'
    BY <2>1 DEF Paged
  <2> QED  BY <1>0, <2>1, <2>2, <2>3
<1>3. CASE Fetched(c)
  <2>1. /\ OnlyMine(c) /\ UNCHANGED <<stored, faults>>
        /\ call'[c].pc = "electrum"
        /\ call'[c].base = IF call[c].rows # {} THEN call[c].rows ELSE stored
        /\ call'[c].rows = {} /\ call'[c].missed = {}
        /\ call'[c].got = call[c].got
    BY <1>3, FetchedDoes
  <2>2. Kept(call[c])' /\ Paged(call[c])'
    BY <1>0, <2>1, OneEachEmpty, AwayFromPages
  <2> QED  BY <1>0, <2>1, <2>2
<1>4. CASE ReadPending(c) \/ ReadPendingPoorly(c)
  <2>1. /\ OnlyMine(c) /\ UNCHANGED stored /\ faults' \in 0 .. MaxFaults
        /\ \E S \in SUBSET Txs, orphans \in SUBSET Txs, ran \in Rans :
              call'[c] = Merged(call[c], ran, ExpandAll(S, orphans))
    BY <1>4, PendingDoes
  <2>2. PICK S \in SUBSET Txs, orphans \in SUBSET Txs, ran \in Rans :
              call'[c] = Merged(call[c], ran, ExpandAll(S, orphans))
    BY <2>1
  <2> DEFINE new == ExpandAll(S, orphans)
  <2>3. new \in SUBSET Row /\ OneEach(new)
    BY ExpandedRowsWait
  <2> HIDE DEF new
  <2>4. /\ call'[c].pc = "store" /\ call'[c].rows = Merge(call[c].base, new)
        /\ call'[c].got = call[c].got /\ call'[c].base = call[c].base
        /\ call'[c].missed = call[c].missed /\ call'[c].grew = call[c].grew
    BY <1>0, <2>2, <2>3, MergedIs DEF new
  <2>5. OneEach(Merge(call[c].base, new))
    BY <1>0, <2>3, MergeIs
  <2>6. call[c].missed = {} \/ call[c].grew
    BY <1>0 DEF Paged
  <2>7. Kept(call[c])' /\ Paged(call[c])'
    BY <1>0, <2>4, <2>5, <2>6, AwayFromPages
  <2> QED  BY <1>0, <2>1, <2>7
<1>5. CASE AppendLocal(c)
  <2>1. /\ OnlyMine(c) /\ UNCHANGED <<stored, faults>>
        /\ call'[c].pc = "store" /\ call'[c].rows = Merge(stored, call[c].rows)
        /\ call'[c].got = call[c].got /\ call'[c].base = call[c].base
        /\ call'[c].missed = call[c].missed /\ call'[c].grew = call[c].grew
    BY <1>5, AppendDoes
  <2>2. OneEach(Merge(stored, call[c].rows))
    BY <1>0, MergeIs
  <2>3. call[c].missed = {} \/ call[c].grew
    BY <1>0 DEF Paged
  <2>4. Kept(call[c])' /\ Paged(call[c])'
    BY <1>0, <2>1, <2>2, <2>3, AwayFromPages
  <2> QED  BY <1>0, <2>1, <2>4
<1>6. CASE Store(c) \/ ElectrumFails(c)
  <2>1. /\ OnlyMine(c) /\ call'[c] = Idle /\ faults' \in 0 .. MaxFaults
        /\ stored' = call[c].rows \/ stored' = stored
    BY <1>6, EndDoes
  <2>2. call[c].rows \subseteq Row
    BY <1>0 DEF CallRecord
  <2>3. Kept(call[c])' /\ Paged(call[c])'
    BY <2>1, IdleIs, OneEachEmpty, AwayFromPages
  <2> QED  BY <1>0, <2>1, <2>2, <2>3
<1>7. CASE LoadFails(c)
  <2>1. /\ OnlyMine(c) /\ UNCHANGED stored /\ faults' \in 0 .. MaxFaults
        /\ call'[c].pc \in {"electrum", "store"}
        /\ call'[c].rows = call[c].rows /\ call'[c].got = call[c].got
        /\ call'[c].base = {} \/ call'[c].base = call[c].base
        /\ \/ call'[c].missed = {}
           \/ call'[c].missed = call[c].missed /\ call'[c].grew = call[c].grew
    BY <1>7, LoadFailsDoes
  <2>2. call[c].missed = {} \/ call[c].grew
    BY <1>0 DEF Paged
  <2>3. Kept(call[c])' /\ Paged(call[c])'
    BY <1>0, <2>1, <2>2, OneEachEmpty, AwayFromPages
  <2> QED  BY <1>0, <2>1, <2>3
<1> QED  BY <1>1, <1>2, <1>3, <1>4, <1>5, <1>6, <1>7 DEF Step

LEMMA PageStep == PageInv /\ [Next]_vars => PageInv'
<1> SUFFICES ASSUME PageInv, [Next]_vars
             PROVE  PageInv'
  OBVIOUS
<1>1. Types /\ Lists /\ Depths /\ \A d \in Callers : Kept(call[d]) /\ Paged(call[d])
  BY TypesOf DEF PageInv, Types
<1>2. ASSUME Types', Lists', \A d \in Callers : Kept(call[d])' /\ Paged(call[d])'
      PROVE  PageInv'
  <2>1. TypeOK'
    BY <1>2, TypesAndLists, PTL
  <2> QED  BY <1>2, <2>1 DEF PageInv
<1>3. \A d \in Callers : SameWork(call[d], call[d])
  BY DEF SameWork
<1>4. NetworkStep => Depths'
  BY <1>1 DEF NetworkStep, Depths
<1>5. UNCHANGED <<depth, index>> => Depths' /\ Lists'
  BY <1>1, ListsSame DEF Depths
<1>6. CASE World
  <2>1. NetworkStep
    BY <1>1, <1>6, NetworkSteps
  <2>2. /\ UNCHANGED <<stored, faults>> /\ call' \in [Callers -> CallRecord]
        /\ \A d \in Callers : SameWork(call'[d], call[d])
    BY <1>1, <1>6, WorldDoes
  <2>3. Types' /\ Lists'
    BY <1>1, <1>4, <2>1, <2>2 DEF Types, NetworkStep
  <2>4. \A d \in Callers : Kept(call[d])' /\ Paged(call[d])'
    <3>1. ASSUME NEW d \in Callers
          PROVE  Kept(call[d])' /\ Paged(call[d])'
      <4>1. call[d] \in CallRecord
        BY <1>1 DEF Types
      <4> QED  BY <1>1, <2>1, <2>2, <4>1, PagedStays DEF NetworkStep
    <3> QED  BY <3>1
  <2> QED  BY <1>2, <2>3, <2>4
<1>7. ASSUME NEW c \in Callers, StartRefresh(c) \/ StartPoorly(c)
      PROVE  PageInv'
  <2>1. /\ UNCHANGED <<depth, index, stored>>
        /\ faults' \in 0 .. MaxFaults
        /\ call' \in [Callers -> CallRecord]
        /\ OthersMixed(c)
        /\ \E todo \in {{}, Own}, tip \in BOOLEAN :
              SameWork(call'[c], Reading(todo, tip))
    BY <1>1, <1>7, StartDoes
  <2>2. Types' /\ Lists'
    BY <1>1, <1>5, <2>1 DEF Types
  <2>3. /\ call'[c].pc = "pages" /\ call'[c].got = {} /\ call'[c].rows = {} /\ call'[c].base = {}
        /\ call'[c].missed = {}
    <3>1. PICK todo \in {{}, Own}, tip \in BOOLEAN :
             SameWork(call'[c], Reading(todo, tip))
      BY <2>1
    <3>2. todo \in SUBSET Own
      OBVIOUS
    <3> QED  BY <3>1, <3>2, BegunReads, Zenon
  <2>4. Kept(call[c])' /\ Paged(call[c])'
    BY <2>3, OneEachEmpty DEF Kept, Paged
  <2>5. \A d \in Callers : d # c => Kept(call[d])' /\ Paged(call[d])'
    BY <1>1, <2>1, OthersPaged DEF OthersMixed
  <2> QED  BY <1>2, <2>2, <2>4, <2>5
<1>8. ASSUME NEW c \in Senders, Send(c)
      PROVE  PageInv'
  <2>0. c \in Callers
    BY DEF Callers
  <2>1. NetworkStep
    BY <1>1, <1>8, NetworkSteps
  <2>2. /\ UNCHANGED <<stored, faults>>
        /\ call' \in [Callers -> CallRecord]
        /\ OthersMixed(c)
        /\ \E t \in Txs : SameWork(call'[c], Paying(LocalRows(t)))
    BY <1>1, <1>8, <2>0, SendDoes
  <2>3. Types' /\ Lists'
    BY <1>1, <1>4, <2>1, <2>2 DEF Types, NetworkStep
  <2>4. PICK t \in Txs : SameWork(call'[c], Paying(LocalRows(t)))
    BY <2>2
  <2>5. LocalRows(t) \in SUBSET Row /\ OneEach(LocalRows(t))
    BY LocalRowsWait
  <2>6. /\ call'[c].pc = "append" /\ call'[c].got = {} /\ call'[c].rows = LocalRows(t)
        /\ call'[c].base = {} /\ call'[c].missed = {}
    BY <2>4, <2>5, PaymentIs DEF SameWork
  <2>7. Kept(call[c])' /\ Paged(call[c])'
    BY <2>0, <2>5, <2>6, OneEachEmpty, AwayFromPages
  <2>8. \A d \in Callers : d # c => Kept(call[d])' /\ Paged(call[d])'
    <3>1. ASSUME NEW d \in Callers, d # c
          PROVE  Kept(call[d])' /\ Paged(call[d])'
      <4>1. call[d] \in CallRecord /\ SameWork(call'[d], call[d])
        BY <1>1, <2>2, <3>1 DEF Types, OthersMixed
      <4> QED  BY <1>1, <2>1, <4>1, PagedStays DEF NetworkStep
    <3> QED  BY <3>1
  <2> QED  BY <1>2, <2>3, <2>7, <2>8
<1>9. ASSUME NEW c \in Callers, Step(c)
      PROVE  PageInv'
  <2>1. /\ OnlyMine(c)
        /\ stored' \subseteq Row /\ OneEach(stored') /\ faults' \in 0 .. MaxFaults
        /\ Kept(call[c])' /\ Paged(call[c])'
    BY <1>1, <1>9, MinePaged
  <2>2. Types' /\ Lists'
    BY <1>1, <1>5, <2>1 DEF Types, OnlyMine
  <2>3. \A d \in Callers : d # c => Kept(call[d])' /\ Paged(call[d])'
    BY <1>1, <1>3, <2>1, OthersPaged DEF OnlyMine
  <2> QED  BY <1>2, <2>1, <2>2, <2>3
<1>10. CASE UNCHANGED vars
  <2>1. Types' /\ Lists'
    BY <1>1, <1>5, <1>10 DEF Types, vars
  <2>2. \A d \in Callers : Kept(call[d])' /\ Paged(call[d])'
    BY <1>1, <1>10 DEF vars, Kept, Paged
  <2> QED  BY <1>2, <2>1, <2>2
<1> QED  BY <1>6, <1>7, <1>8, <1>9, <1>10 DEF Next, Callers
LEMMA PageStart == Init => PageInv
<1> SUFFICES ASSUME Init
             PROVE  PageInv
  OBVIOUS
<1>1. /\ depth = [t \in Txs |-> "none"] /\ index = [a \in Own |-> <<>>] /\ stored = {}
      /\ call = [c \in Callers |-> Idle] /\ faults = 0
  BY DEF Init
<1>2. Types
  BY <1>1, IdleIs, OneEachEmpty, HistoryAssumption DEF Types, Depths
<1>3. \A a \in Own : index[a] = <<>> /\ ToSet(index[a]) = {} /\ IsInjective(index[a])
  BY <1>1 DEF ToSet, IsInjective
<1>4. \A t \in Txs : ~Confirmed(t)
  BY <1>1 DEF Confirmed
<1>5. index \in [Own -> Seq(Txs)]
  BY <1>1
<1>6. Lists
  BY <1>3, <1>4, <1>5 DEF Lists
<1>7. \A c \in Callers : Kept(call[c]) /\ Paged(call[c])
  BY <1>1, IdleIs
<1> QED  BY <1>2, <1>6, <1>7, TypesAndLists DEF PageInv

\* All that a state holds has its type: the table and the rows of a call hold one row per
\* transaction, category and address, an address's list holds a transaction once, and no
\* offset passes the number of transactions.
THEOREM TypeCorrect == Spec => []TypeOK
<1>1. PageInv => TypeOK
  BY DEF PageInv
<1> QED  BY <1>1, PageStart, PageStep, PTL DEF Spec

\* The pages of an address whose list does not grow while it is fetched hold all of it,
\* whatever its length and that of a page (explorer_history.rs:171).
THEOREM PagesComplete == Spec => []StillPagesMissNothing
<1>1. PageInv => StillPagesMissNothing
  BY DEF PageInv, StillPagesMissNothing, Paged
<1> QED  BY <1>1, PageStart, PageStep, PTL DEF Spec
(***************************************************************************)
(* Sources and what a lone call covers.                                    *)
(***************************************************************************)
\* What is in a block stays in one.
Lasting == \A t \in Txs : Confirmed(t) => (Confirmed(t))'

LEMMA NetworkLasts ==
  ASSUME Depths, NetworkStep
  PROVE  Lasting
<1>1. PICK t \in Txs, d \in {"mempool", "mined", "mature"} :
         depth' = [depth EXCEPT ![t] = d] /\ (d = "mempool" => depth[t] = "none")
  BY DEF NetworkStep
<1>2. \A u \in Txs : depth'[u] = IF u = t THEN d ELSE depth[u]
  BY <1>1 DEF Depths
<1>3. ASSUME NEW u \in Txs, Confirmed(u)
      PROVE  (Confirmed(u))'
  BY <1>1, <1>2, <1>3 DEF Confirmed
<1> QED  BY <1>3 DEF Lasting

LEMMA SameLasts == UNCHANGED depth => Lasting
BY DEF Lasting, Confirmed

LEMMA SoundLasts ==
  ASSUME NEW r \in Row, Sound(r), Lasting
  PROVE  Sound(r)'
BY DEF Sound, Lasting, Row

RowsOfCall(k) == k.got \cup k.rows \cup k.base

LEMMA RowsOfRecord == \A k \in CallRecord : RowsOfCall(k) \subseteq Row
BY DEF RowsOfCall, CallRecord

\* Rows that a call had stay sound.
LEMMA SourcesStay ==
  ASSUME NEW d \in Callers, call[d] \in CallRecord, Sources(call[d]), Lasting,
         SameWork(call'[d], call[d])
  PROVE  Sources(call[d])'
<1>1. \A r \in RowsOfCall(call[d]) : Sound(r)'
  BY RowsOfRecord, SoundLasts DEF Sources, RowsOfCall
<1>2. call'[d].got \cup call'[d].rows \cup call'[d].base = RowsOfCall(call[d])
  BY DEF SameWork, RowsOfCall
<1> QED  BY <1>1, <1>2 DEF Sources, SameWork

\* So do those of a call that reads no pages.
LEMMA SourcesAway ==
  ASSUME NEW c \in Callers, call'[c].pc \notin {"pages", "more"}, UNCHANGED depth,
         \A r \in call'[c].got \cup call'[c].rows \cup call'[c].base : Sound(r)
  PROVE  Sources(call[c])'
<1>1. \A r : Sound(r)' <=> Sound(r)
  BY DEF Sound, Confirmed
<1> QED  BY <1>1 DEF Sources

LEMMA CoversStay ==
  ASSUME NEW d \in Callers, UNCHANGED stored, SameWork(call'[d], call[d]), Covers(call[d])
  PROVE  Covers(call[d])'
BY DEF Covers, Spent, SameWork

\* A page adds rows as they are in the chain.
LEMMA ReadCovers ==
  ASSUME NEW k \in CallRecord, NEW j \in CallRecord, NEW a \in Own, Lists, Types,
         \A r \in stored : Sound(r),
         Reads(k, j, a), Kept(k), Paged(k), Sources(k), Still(k), Alone(k) => Covers(k)
  PROVE  /\ Sources(j)
         /\ Still(j)
         /\ Alone(j) => Covers(j)
<1> DEFINE offset == IF k.pc = "pages" THEN 0 ELSE k.offset
           page == Page(a, offset)
<1>1. k.pc \in {"pages", "more"} /\ j.pc = "more" /\ j.address = a
  BY DEF Reads, FirstRead, NextRead
<1>2. k.pc = "more" => a = k.address /\ k.offset \in Nat /\ k.offset <= Len(index[a])
  BY TxsFinite DEF Reads, FirstRead, NextRead, Kept, Paged, CallRecord
<1>3. index \in [Own -> Seq(Txs)] /\ index[a] \in Seq(Txs) /\ Len(index[a]) \in Nat
  BY DEF Lists
<1>4. offset \in Nat /\ offset <= Len(index[a])
  BY <1>1, <1>2, <1>3
<1>5. page \in Seq(Txs) /\ ToSet(page) \subseteq Txs
  BY <1>3, <1>4, PageIs, MembersOfList
<1>6. j.got = NewRows(k, a, page)
  BY <1>1 DEF Reads, FirstRead, NextRead
<1>7. OneEach(k.got) /\ \A g \in k.got : g.address = a
  BY <1>1, <1>2 DEF Kept
<1> HIDE DEF offset, page
<1>8. \A g \in j.got : g \in k.got \/ \E t \in Txs : g = ExplorerRow(t, a, k.tip)
  BY <1>5, <1>6, <1>7, NewRowsAre DEF Types
<1>9. \A t \in Txs : LET g == ExplorerRow(t, a, k.tip)
                     IN  /\ Sound(g) /\ g.tx = t /\ (g.confirmed <=> Confirmed(t))
                         /\ g.address \in Spends[g.tx] => g.category = "send"
  BY ExplorerRowIs DEF Types, CallRecord
<1>10. Sources(j)
  <2>1. \A g \in j.got : Sound(g) /\ (g.address \in Spends[g.tx] => g.category = "send")
    BY <1>1, <1>8, <1>9 DEF Sources
  <2>2. j.rows = k.rows /\ j.base = k.base
    BY DEF Reads
  <2> QED  BY <1>1, <2>1, <2>2 DEF Sources
<1>11. Still(j)
  BY <1>1, <1>2 DEF Still, Reads, FirstRead, NextRead
<1>12. ASSUME Alone(j)
       PROVE  Covers(j)
  <2>0. Covers(k)
    BY <1>12 DEF Alone, Reads
  <2>1. ASSUME NEW r \in stored, NEW g \in j.got \cup j.rows, g.tx = r.tx, r.confirmed
        PROVE  g.confirmed
    <3>1. CASE g \in k.got \cup k.rows
      BY <1>1, <2>0, <2>1, <3>1 DEF Covers
    <3>2. CASE g \notin k.got \cup k.rows
      <4>1. PICK t \in Txs : g = ExplorerRow(t, a, k.tip)
        BY <1>8, <2>1, <3>2 DEF Reads
      <4>2. g.tx = t /\ (g.confirmed <=> Confirmed(t))
        BY <1>9, <4>1
      <4>3. Confirmed(r.tx)
        BY <2>1 DEF Sound
      <4> QED  BY <2>1, <4>2, <4>3
    <3> QED  BY <3>1, <3>2
  <2>2. ASSUME NEW r \in Spent
        PROVE  \/ r.address \in j.todo
               \/ j.pc = "more" /\ r.address = j.address /\ r.tx \in j.must
               \/ \E g \in j.rows : g.tx = r.tx /\ g.address = r.address
               \/ j.pc = "pages" /\ j.todo = {} /\ j.rows = {}
    <3>1. \/ r.address \in k.todo
          \/ k.pc = "more" /\ r.address = k.address /\ r.tx \in k.must
          \/ \E g \in k.rows : g.tx = r.tx /\ g.address = r.address
          \/ k.pc = "pages" /\ k.todo = {} /\ k.rows = {}
      BY <1>1, <2>0 DEF Covers
    <3>2. CASE FirstRead(k, j, a)
      <4>1. r.address = a => r.tx \in j.must
        <5>1. r \in stored /\ r \in Row /\ r.confirmed /\ r.category = "send"
          BY DEF Spent, Types
        <5>2. r.tx \in Txs /\ Confirmed(r.tx) /\ r.address \in Spends[r.tx]
          BY <5>1 DEF Sound, Row
        <5>3. r.address = a => r.tx \in ToSet(index[a])
          BY <5>2 DEF Lists, Concerns
        <5> QED  BY <3>2, <5>3 DEF FirstRead
      <4>2. k.pc = "pages" /\ a \in k.todo /\ j.todo = k.todo \ {a}
        BY <3>2 DEF FirstRead
      <4>3. j.rows = k.rows
        BY DEF Reads
      <4> QED  BY <1>1, <3>1, <4>1, <4>2, <4>3
    <3>3. CASE NextRead(k, j, a)
      <4>1. k.pc = "more" /\ a = k.address /\ j.todo = k.todo /\ j.must = k.must
        BY <3>3 DEF NextRead
      <4>2. j.rows = k.rows
        BY DEF Reads
      <4> QED  BY <1>1, <3>1, <4>1, <4>2
    <3> QED  BY <3>2, <3>3 DEF Reads
  <2> QED  BY <1>1, <2>1, <2>2 DEF Covers
<1> QED  BY <1>10, <1>11, <1>12

\* A lone call whose pages missed nothing holds a row for all that it had to read.
LEMMA FinishedCovers ==
  ASSUME NEW j \in CallRecord, j.pc = "more", Lists, Kept(j), Paged(j), Over(j),
         Sources(j), Still(j), Alone(j) => Covers(j)
  PROVE  LET f == Finished(j)
         IN  Sources(f) /\ Still(f) /\ (Alone(f) => Covers(f))
<1> DEFINE f == Finished(j)
<1>0. j.address \in Own
  BY DEF Kept
<1>1. /\ f.pc = "pages" /\ f.todo = j.todo
      /\ f.rows = j.rows \cup j.got /\ f.got = {} /\ f.base = j.base
      /\ f.missed = j.must \ {g.tx : g \in j.got}
      /\ f.grew = (Len(index[j.address]) > j.total)
      /\ f.ran = IF j.ran = "alone" /\ f.missed # {} THEN "partly" ELSE j.ran
  BY <1>0, FinishedIs
<1>2. Paged(f)
  BY FinishedKeeps
<1> HIDE DEF f
<1>3. Sources(f)
  BY <1>1 DEF Sources
<1>4. Still(f)
  BY <1>1 DEF Still
<1>5. ASSUME Alone(f)
      PROVE  Covers(f)
  <2>1. Alone(j) /\ Covers(j)
    BY <1>1, <1>5 DEF Alone
  <2>2. f.missed = {}
    <3>1. CASE j.ran = "alone"
      BY <1>1, <1>5, <3>1 DEF Alone
    <3>2. CASE j.ran = "quiet"
      <4>1. Len(index[j.address]) = j.total /\ Len(index[j.address]) \in Nat
        BY <1>0, <3>2 DEF Still, Lists
      <4>2. ~(Len(index[j.address]) > j.total)
        BY <4>1
      <4>3. ~f.grew
        BY <1>1, <4>2, Zenon
      <4> QED  BY <1>2, <4>3 DEF Paged
    <3> QED  BY <2>1, <3>1, <3>2 DEF Alone
  <2>3. ASSUME NEW r \in Spent
        PROVE  r.address \in f.todo \/ \E g \in f.rows : g.tx = r.tx /\ g.address = r.address
    <3>1. \/ r.address \in j.todo
          \/ r.address = j.address /\ r.tx \in j.must
          \/ \E g \in j.rows : g.tx = r.tx /\ g.address = r.address
      BY <2>1 DEF Covers
    <3>2. CASE r.address = j.address /\ r.tx \in j.must
      <4>1. PICK g \in j.got : g.tx = r.tx
        BY <1>1, <2>2, <3>2
      <4>2. g.address = r.address
        BY <3>2 DEF Kept
      <4> QED  BY <1>1, <4>1, <4>2
    <3> QED  BY <1>1, <3>1, <3>2
  <2>4. \A r \in stored : \A g \in f.got \cup f.rows : g.tx = r.tx /\ r.confirmed => g.confirmed
    BY <1>1, <2>1 DEF Covers
  <2> QED  BY <1>1, <2>3, <2>4 DEF Covers
<1> QED  BY <1>3, <1>4, <1>5 DEF f
\* What a step does to the call that takes it, as the second invariant sees it.
Goes(c) == /\ Sources(call[c])'
           /\ Still(call[c])'
           /\ Alone(call'[c]) => Covers(call[c])'

LEMMA OffThePages ==
  ASSUME NEW c \in Callers, call'[c].pc \notin {"pages", "more"}
  PROVE  Still(call[c])'
BY DEF Still

LEMMA RunsOn ==
  ASSUME NEW c \in Callers, Types, PageInv, Step(c)
  PROVE  /\ ~At(c, "idle")
         /\ \/ call'[c].pc = "idle"
            \/ call[c].ran = "mixed" <=> call'[c].ran = "mixed"
<1>0. /\ Lists /\ Kept(call[c]) /\ Paged(call[c]) /\ call[c] \in CallRecord
  BY DEF PageInv, Types
<1>1. CASE (\E a \in Own : FirstPage(c, a)) \/ NextPage(c)
  <2>1. PICK j \in CallRecord, a \in Own :
               /\ Reads(call[c], j, a)
               /\ call'[c] = j \/ call'[c] = Finished(j)
    BY <1>0, <1>1, ReadDoes
  <2>2. call'[c].ran = j.ran \/ (j.ran = "alone" /\ call'[c].ran = "partly")
    BY <2>1, FinishedIs DEF Reads
  <2>3. j.ran = call[c].ran
    BY <2>1 DEF Reads
  <2>4. ~At(c, "idle")
    BY <1>1 DEF FirstPage, NextPage, At
  <2> QED  BY <2>2, <2>3, <2>4
<1>2. CASE AddressFails(c)
  BY <1>0, <1>2, AddressFailsDoes DEF At
<1>3. CASE Fetched(c)
  BY <1>3, FetchedDoes DEF At
<1>4. CASE ReadPending(c) \/ ReadPendingPoorly(c)
  <2>1. PICK S \in SUBSET Txs, orphans \in SUBSET Txs, ran \in Rans :
           /\ call'[c] = Merged(call[c], ran, ExpandAll(S, orphans))
           /\ \/ ran = call[c].ran
              \/ ran = "alone" /\ call[c].ran = "quiet"
    BY <1>4, PendingDoes
  <2>2. call'[c].ran = ran
    BY <1>0, <2>1, ExpandedRowsWait, MergedIs
  <2> QED  BY <1>4, <2>1, <2>2, PendingDoes DEF At
<1>5. CASE AppendLocal(c)
  BY <1>5, AppendDoes DEF At
<1>6. CASE Store(c) \/ ElectrumFails(c)
  BY <1>6, EndDoes, IdleIs
<1>7. CASE LoadFails(c)
  BY <1>7, LoadFailsDoes DEF At
<1> QED  BY <1>1, <1>2, <1>3, <1>4, <1>5, <1>6, <1>7 DEF Step

\* The confirmed rows of a base that has those of the table survive the merge.
LEMMA MergedCovers ==
  ASSUME NEW base \in SUBSET Row, NEW new \in SUBSET Row, OneEach(base), Types,
         \A b \in base : Sound(b), \A n \in new : Sound(n), \A r \in stored : Sound(r),
         \A r \in Spent : \E b \in base : Key(b) = Key(r) /\ b.confirmed
  PROVE  \A r \in stored : \A n \in Merge(base, new) :
            Key(n) = Key(r) /\ r.confirmed => n.confirmed
<1> SUFFICES ASSUME NEW r \in stored, NEW n \in Merge(base, new), Key(n) = Key(r), r.confirmed
             PROVE  n.confirmed
  OBVIOUS
<1>1. n \in base \cup new
  BY DEF Merge
<1>2. CASE r \in Spent
  <2>1. PICK b \in base : Key(b) = Key(r) /\ b.confirmed
    BY <1>2
  <2> QED  BY <2>1, MergeKeeps
<1>3. CASE r \notin Spent
  <2>1. r.category \notin {"unconfirmed", "send"}
    BY <1>3 DEF Spent, Sound
  <2>2. n.category = r.category
    BY DEF Key
  <2>3. Sound(n)
    BY <1>1
  <2> QED  BY <2>1, <2>2, <2>3 DEF Sound
<1> QED  BY <1>2, <1>3

LEMMA MineCovers ==
  ASSUME NEW c \in Callers, Types, CoverInv, Step(c)
  PROVE  Goes(c)
<1> DEFINE k == call[c]
<1>0. /\ Lists /\ Kept(k) /\ Paged(k) /\ k \in CallRecord /\ PageInv
      /\ stored \subseteq Row /\ OneEach(stored) /\ \A r \in stored : Sound(r)
      /\ Sources(k) /\ Still(k) /\ (Alone(k) => Covers(k))
      /\ OneEach(k.got) /\ OneEach(k.rows) /\ OneEach(k.base)
  BY DEF CoverInv, PageInv, Types, Kept
<1>1. CASE (\E a \in Own : FirstPage(c, a)) \/ NextPage(c)
  <2>1. PICK j \in CallRecord, a \in Own :
               /\ OnlyMine(c) /\ UNCHANGED stored
               /\ Reads(k, j, a) /\ Kept(j) /\ Paged(j)
               /\ call'[c] = j \/ (call'[c] = Finished(j) /\ Over(j))
    BY <1>0, <1>1, ReadDoes
  <2>2. Sources(j) /\ Still(j) /\ (Alone(j) => Covers(j))
    BY <1>0, <2>1, ReadCovers
  <2>3. PICK m : m = call'[c] /\ Sources(m) /\ Still(m) /\ (Alone(m) => Covers(m))
    BY <1>0, <2>1, <2>2, FinishedCovers DEF Reads
  <2>4. index' = index /\ depth' = depth /\ stored' = stored
    BY <2>1 DEF OnlyMine
  <2>5. \A r : Sound(r)' <=> Sound(r)
    BY <2>4 DEF Sound, Confirmed
  <2>6. Sources(call[c])'
    BY <2>3, <2>5 DEF Sources
  <2>7. Still(call[c])'
    BY <2>3, <2>4 DEF Still
  <2>8. Alone(call'[c]) => Covers(call[c])'
    BY <2>3, <2>4 DEF Covers, Spent
  <2> QED  BY <2>6, <2>7, <2>8 DEF Goes
<1>2. CASE AddressFails(c)
  <2>1. /\ OnlyMine(c) /\ k.pc \in {"pages", "more"} /\ call'[c].pc = "pages"
        /\ call'[c].rows = k.rows /\ call'[c].got = {} /\ call'[c].base = k.base
        /\ call'[c].ran \in {"mixed", "partly"}
    BY <1>0, <1>2, AddressFailsDoes
  <2>2. \A r : Sound(r)' <=> Sound(r)
    BY <2>1 DEF OnlyMine, Sound, Confirmed
  <2>3. Sources(call[c])'
    BY <1>0, <2>1, <2>2 DEF Sources
  <2> QED  BY <2>1, <2>3 DEF Goes, Still, Alone
<1>3. CASE Fetched(c)
  <2>1. /\ OnlyMine(c) /\ UNCHANGED stored
        /\ k.pc = "pages" /\ k.todo = {}
        /\ call'[c].pc = "electrum"
        /\ call'[c].base = IF k.rows # {} THEN k.rows ELSE stored
        /\ call'[c].rows = {} /\ call'[c].got = k.got /\ call'[c].ran = k.ran
    BY <1>3, FetchedDoes
  <2>2. \A r \in call'[c].got \cup call'[c].rows \cup call'[c].base : Sound(r)
    BY <1>0, <2>1 DEF Sources
  <2>3. Sources(call[c])' /\ Still(call[c])'
    BY <2>1, <2>2, SourcesAway, OffThePages DEF OnlyMine
  <2>4. ASSUME Alone(k), NEW r \in Spent
        PROVE  \E b \in call'[c].base : Key(b) = Key(r) /\ b.confirmed
    <3>1. Covers(k)
      BY <1>0, <2>4
    <3>2. r \in stored /\ r.confirmed /\ r.category = "send" /\ r.address \in Spends[r.tx]
      BY <1>0 DEF Spent, Sound
    <3>3. CASE k.rows = {}
      BY <2>1, <3>2, <3>3
    <3>4. CASE k.rows # {}
      <4>1. PICK g \in k.rows : g.tx = r.tx /\ g.address = r.address
        BY <2>1, <3>1, <3>4 DEF Covers
      <4>2. g.confirmed /\ g.category = "send"
        BY <1>0, <2>1, <3>1, <3>2, <4>1 DEF Covers, Sources
      <4> QED  BY <2>1, <3>2, <3>4, <4>1, <4>2 DEF Key
    <3> QED  BY <3>3, <3>4
  <2>5. Alone(call'[c]) => Covers(call[c])'
    BY <2>1, <2>4 DEF Alone, Covers, Spent
  <2> QED  BY <2>3, <2>5 DEF Goes
<1>4. CASE ReadPending(c) \/ ReadPendingPoorly(c)
  <2>1. PICK S \in SUBSET Txs, orphans \in SUBSET Txs, ran \in Rans :
           /\ OnlyMine(c) /\ UNCHANGED stored /\ k.pc = "electrum"
           /\ call'[c] = Merged(k, ran, ExpandAll(S, orphans))
           /\ ran = k.ran \/ (ran = "alone" /\ k.ran = "quiet")
    BY <1>4, PendingDoes
  <2> DEFINE new == ExpandAll(S, orphans)
  <2>2. new \in SUBSET Row /\ \A n \in new : Sound(n)
    BY ExpandedRowsWait
  <2> HIDE DEF new
  <2>3. /\ call'[c].pc = "store" /\ call'[c].rows = Merge(k.base, new) /\ call'[c].ran = ran
        /\ call'[c].got = k.got /\ call'[c].base = k.base
    BY <1>0, <2>1, <2>2, MergedIs DEF new
  <2>4. Merge(k.base, new) \subseteq k.base \cup new
    BY DEF Merge
  <2>5. \A r \in call'[c].got \cup call'[c].rows \cup call'[c].base : Sound(r)
    BY <1>0, <2>2, <2>3, <2>4 DEF Sources
  <2>6. Sources(call[c])' /\ Still(call[c])'
    BY <2>1, <2>3, <2>5, SourcesAway, OffThePages DEF OnlyMine
  <2>7. ASSUME Alone(k)
        PROVE  \A r \in stored : \A n \in Merge(k.base, new) :
                  Key(n) = Key(r) /\ r.confirmed => n.confirmed
    <3>1. \A r \in Spent : \E b \in k.base : Key(b) = Key(r) /\ b.confirmed
      BY <1>0, <2>1, <2>7 DEF Covers
    <3>2. k.base \in SUBSET Row /\ \A b \in k.base : Sound(b)
      BY <1>0 DEF CallRecord, Sources
    <3> QED  BY <1>0, <2>2, <3>1, <3>2, MergedCovers
  <2>8. Alone(call'[c]) => Alone(k)
    BY <2>1, <2>3 DEF Alone
  <2>9. Alone(call'[c]) => Covers(call[c])'
    BY <2>1, <2>3, <2>7, <2>8 DEF Covers
  <2> QED  BY <2>6, <2>9 DEF Goes
<1>5. CASE AppendLocal(c)
  <2>1. /\ OnlyMine(c) /\ UNCHANGED stored
        /\ call'[c].pc = "store" /\ call'[c].rows = Merge(stored, k.rows)
        /\ call'[c].got = k.got /\ call'[c].base = k.base
    BY <1>5, AppendDoes
  <2>2. Merge(stored, k.rows) \subseteq stored \cup k.rows
    BY DEF Merge
  <2>3. \A r \in call'[c].got \cup call'[c].rows \cup call'[c].base : Sound(r)
    BY <1>0, <2>1, <2>2 DEF Sources
  <2>4. Sources(call[c])' /\ Still(call[c])'
    BY <2>1, <2>3, SourcesAway, OffThePages DEF OnlyMine
  <2>5. \A r \in stored : \A n \in Merge(stored, k.rows) :
           Key(n) = Key(r) /\ r.confirmed => n.confirmed
    BY <1>0, MergeKeeps
  <2>6. Covers(call[c])'
    BY <2>1, <2>5 DEF Covers
  <2> QED  BY <2>4, <2>6 DEF Goes
<1>6. CASE Store(c) \/ ElectrumFails(c)
  <2>1. OnlyMine(c) /\ call'[c] = Idle
    BY <1>6, EndDoes
  <2>2. call'[c].pc = "idle" /\ call'[c].got = {} /\ call'[c].rows = {} /\ call'[c].base = {}
    BY <2>1, IdleIs
  <2>3. Sources(call[c])' /\ Still(call[c])'
    BY <2>1, <2>2, SourcesAway, OffThePages DEF OnlyMine
  <2>4. Covers(call[c])'
    BY <2>2 DEF Covers
  <2> QED  BY <2>3, <2>4 DEF Goes
<1>7. CASE LoadFails(c)
  <2>1. /\ OnlyMine(c)
        /\ call'[c].pc \in {"electrum", "store"}
        /\ call'[c].rows = k.rows /\ call'[c].got = k.got
        /\ call'[c].base = {} \/ call'[c].base = k.base
        /\ call'[c].ran \in {"mixed", "partly"}
    BY <1>7, LoadFailsDoes
  <2>2. \A r \in call'[c].got \cup call'[c].rows \cup call'[c].base : Sound(r)
    BY <1>0, <2>1 DEF Sources
  <2>3. Sources(call[c])' /\ Still(call[c])'
    BY <2>1, <2>2, SourcesAway, OffThePages DEF OnlyMine
  <2> QED  BY <2>1, <2>3 DEF Goes, Alone
<1> QED  BY <1>1, <1>2, <1>3, <1>4, <1>5, <1>6, <1>7 DEF Step
(***************************************************************************)
(* The second invariant is kept.                                           *)
(***************************************************************************)
LEMMA CoverStep == CoverInv /\ [Next]_vars => CoverInv'
<1> SUFFICES ASSUME CoverInv, [Next]_vars
             PROVE  CoverInv'
  OBVIOUS
<1>1. /\ PageInv /\ Types /\ Lists /\ Depths /\ Solo
      /\ call \in [Callers -> CallRecord] /\ stored \subseteq Row
      /\ \A r \in stored : Sound(r)
      /\ \A d \in Callers : /\ call[d] \in CallRecord /\ Sources(call[d]) /\ Still(call[d])
                            /\ Alone(call[d]) => Covers(call[d])
  BY TypesOf DEF CoverInv, PageInv, Types
<1>2. PageInv'
  BY <1>1, PageStep
<1>3. ASSUME Solo', \A r \in stored' : Sound(r)', \A d \in Callers : Goes(d)
      PROVE  CoverInv'
  BY <1>2, <1>3 DEF CoverInv, Goes, Alone
<1>4. Lasting => \A r \in stored : Sound(r)'
  BY <1>1, SoundLasts
<1>5. \A d \in Callers : SameWork(call[d], call[d])
  BY DEF SameWork
<1>6. ASSUME NEW d \in Callers, Lasting, UNCHANGED stored, SameWork(call'[d], call[d]),
             call'[d].ran = "quiet" => call[d].ran = "quiet" /\ UNCHANGED index,
             Alone(call'[d]) => Alone(call[d])
      PROVE  Goes(d)
  <2>1. Sources(call[d])'
    BY <1>1, <1>6, SourcesStay
  <2>2. Still(call[d])'
    BY <1>1, <1>6 DEF Still, SameWork
  <2>3. Alone(call'[d]) => Covers(call[d])'
    BY <1>1, <1>6, CoversStay
  <2> QED  BY <2>1, <2>2, <2>3 DEF Goes
<1>7. CASE World
  <2>1. NetworkStep /\ Lasting
    BY <1>1, <1>7, NetworkSteps, NetworkLasts
  <2>2. /\ UNCHANGED stored
        /\ \A d \in Callers : /\ SameWork(call'[d], call[d])
                              /\ call'[d].ran = IF call[d].ran = "quiet" THEN "alone" ELSE call[d].ran
    BY <1>1, <1>7, WorldDoes
  <2>3. \A d \in Callers : call'[d].ran # "quiet" /\ (Alone(call'[d]) => Alone(call[d]))
    BY <2>2 DEF Alone
  <2>4. \A d \in Callers : Goes(d)
    BY <1>6, <2>1, <2>2, <2>3
  <2>5. Solo'
    BY <1>1, <2>2 DEF Solo, At, SameWork
  <2> QED  BY <1>3, <1>4, <2>1, <2>2, <2>4, <2>5
<1>8. ASSUME NEW c \in Callers, OthersMixed(c), NEW ran, RanOf(c, ran), At(c, "idle"),
             UNCHANGED stored, Lasting, Goes(c)
      PROVE  CoverInv'
  <2>1. \A d \in Callers : d # c => Goes(d)
    BY <1>6, <1>8 DEF OthersMixed, Alone
  <2>2. Solo'
    <3>1. SUFFICES ASSUME NEW d \in Callers, NEW e \in Callers, d # e,
                          call'[d].pc # "idle", call'[d].ran # "mixed"
                   PROVE  call'[e].pc = "idle"
      BY DEF Solo, At
    <3>2. d = c
      BY <1>8, <3>1 DEF OthersMixed
    <3>3. \A f \in Callers \ {c} : At(f, "idle")
      BY <1>8, <3>1, <3>2 DEF RanOf
    <3> QED  BY <1>8, <3>1, <3>2, <3>3 DEF At, OthersMixed, SameWork
  <2> QED  BY <1>3, <1>4, <1>8, <2>1, <2>2
<1>9. ASSUME NEW c \in Callers, StartRefresh(c) \/ StartPoorly(c)
      PROVE  CoverInv'
  <2>1. /\ UNCHANGED <<depth, index, stored>> /\ OthersMixed(c) /\ At(c, "idle")
        /\ \E todo \in {{}, Own}, tip \in BOOLEAN, ran \in {"quiet", "alone"} :
              /\ SameWork(call'[c], Reading(todo, tip))
              /\ RanOf(c, ran)
    BY <1>1, <1>9, StartDoes
  <2>2. PICK todo \in {{}, Own}, tip \in BOOLEAN, ran \in {"quiet", "alone"} :
              /\ SameWork(call'[c], Reading(todo, tip))
              /\ RanOf(c, ran)
    BY <2>1
  <2>3. /\ call'[c].pc = "pages" /\ call'[c].todo = todo
        /\ call'[c].got = {} /\ call'[c].rows = {} /\ call'[c].base = {}
    <3>1. todo \in SUBSET Own
      OBVIOUS
    <3>2. PICK k : k = call'[c]
      OBVIOUS
    <3>3. SameWork(k, Reading(todo, tip))
      BY <2>2, <3>2
    <3>4. /\ k.pc = "pages" /\ k.todo = todo
          /\ k.got = {} /\ k.rows = {} /\ k.base = {}
      BY <3>1, <3>3, BegunReads, Zenon
    <3> QED  BY <3>2, <3>4
  <2>4. Sources(call[c])' /\ Still(call[c])'
    BY <2>3 DEF Sources, Still
  <2>5. Covers(call[c])'
    <3>1. \A r \in Spent : r.address \in Own
      <4>1. ASSUME NEW r \in Spent
            PROVE  r.address \in Own
        <5>1. r \in Row /\ Sound(r) /\ r.confirmed /\ r.category = "send"
          BY <1>1 DEF Spent
        <5>2. r.address \in Spends[r.tx] /\ r.tx \in Txs
          BY <5>1 DEF Sound, Row
        <5> QED  BY <5>2, HistoryAssumption
      <4> QED  BY <4>1
    <3> QED  BY <2>1, <2>3, <3>1 DEF Covers, Spent
  <2> QED  BY <1>8, <2>1, <2>2, <2>4, <2>5, SameLasts DEF Goes
<1>10. ASSUME NEW c \in Senders, Send(c)
       PROVE  CoverInv'
  <2>0. c \in Callers
    BY DEF Callers
  <2>1. NetworkStep /\ Lasting
    BY <1>1, <1>10, NetworkSteps, NetworkLasts
  <2>2. /\ UNCHANGED stored /\ OthersMixed(c) /\ At(c, "idle") /\ RanOf(c, "alone")
        /\ \E t \in Txs : SameWork(call'[c], Paying(LocalRows(t)))
    BY <1>1, <1>10, <2>0, SendDoes
  <2>3. PICK t \in Txs : SameWork(call'[c], Paying(LocalRows(t)))
    BY <2>2
  <2> DEFINE rows == LocalRows(t)
  <2>4. rows \in SUBSET Row /\ \A r \in rows : Sound(r)
    BY LocalRowsWait
  <2>5. \A r \in rows : Sound(r)'
    BY <2>1, <2>4, SoundLasts
  <2> DEFINE j == Paying(rows)
  <2>6. SameWork(call'[c], j)
    BY <2>3
  <2> HIDE DEF rows
  <2>7. j.pc = "append" /\ j.got = {} /\ j.rows = rows /\ j.base = {}
    BY <2>4, PaymentIs
  <2> HIDE DEF j
  <2>8. call'[c].pc = "append" /\ call'[c].got = {} /\ call'[c].rows = rows /\ call'[c].base = {}
    BY <2>6, <2>7 DEF SameWork
  <2>9. Sources(call[c])' /\ Still(call[c])' /\ Covers(call[c])'
    BY <2>5, <2>8 DEF Sources, Still, Covers
  <2> QED  BY <1>8, <2>0, <2>1, <2>2, <2>9 DEF Goes
<1>11. ASSUME NEW c \in Callers, Step(c)
       PROVE  CoverInv'
  <2>1. OnlyMine(c) /\ Goes(c)
    BY <1>1, <1>11, MinePaged, MineCovers
  <2>2. /\ ~At(c, "idle")
        /\ \/ call'[c].pc = "idle"
           \/ call[c].ran = "mixed" <=> call'[c].ran = "mixed"
    BY <1>1, <1>11, RunsOn
  <2>3. Lasting
    BY <2>1, SameLasts DEF OnlyMine
  <2>4. Solo'
    <3>1. SUFFICES ASSUME NEW d \in Callers, NEW e \in Callers, d # e,
                          call'[d].pc # "idle", call'[d].ran # "mixed"
                   PROVE  call'[e].pc = "idle"
      BY DEF Solo, At
    <3>2. CASE d = c
      BY <1>1, <2>1, <2>2, <3>1, <3>2 DEF Solo, At, OnlyMine
    <3>3. CASE d # c
      <4>1. call[d].pc # "idle" /\ call[d].ran # "mixed"
        BY <2>1, <3>1, <3>3 DEF OnlyMine
      <4>2. At(c, "idle")
        BY <1>1, <3>3, <4>1 DEF Solo, At
      <4> QED  BY <2>2, <4>2
    <3> QED  BY <3>2, <3>3
  <2>5. CASE stored' = stored
    <3>1. \A d \in Callers : d # c => Goes(d)
      BY <1>5, <1>6, <2>1, <2>3, <2>5 DEF OnlyMine
    <3> QED  BY <1>3, <1>4, <2>1, <2>3, <2>4, <2>5, <3>1
  <2>6. CASE stored' # stored
    <3>1. Store(c) /\ At(c, "store") /\ stored' = call[c].rows
      BY <1>1, <1>11, <2>6, EndDoes
         DEF Step, FirstPage, NextPage, AddressFails, Fetched, LoadFails, ReadPending,
             ReadPendingPoorly, AppendLocal
    <3>2. \A r \in stored' : Sound(r)'
      BY <2>1, <3>1 DEF OnlyMine, Sound, Confirmed, CoverInv, Sources
    <3>3. ASSUME NEW d \in Callers, d # c
          PROVE  Goes(d)
      <4>1. At(d, "idle") \/ ~Alone(call[d])
        <5>1. ~At(d, "idle") /\ call[d].ran # "mixed" => At(c, "idle")
          BY <1>1, <3>3 DEF Solo
        <5> QED  BY <2>2, <5>1 DEF Alone
      <4>2. call'[d] = call[d] /\ UNCHANGED index
        BY <2>1, <3>3 DEF OnlyMine
      <4>3. Sources(call[d])'
        BY <1>1, <1>5, <2>3, <4>2, SourcesStay
      <4>4. Still(call[d])'
        BY <1>1, <4>2 DEF Still
      <4>5. Alone(call'[d]) => Covers(call[d])'
        BY <4>1, <4>2 DEF Covers, At
      <4> QED  BY <4>3, <4>4, <4>5 DEF Goes
    <3> QED  BY <1>3, <2>1, <2>4, <3>2, <3>3
  <2> QED  BY <2>5, <2>6
<1>12. CASE UNCHANGED vars
  <2>1. \A d \in Callers : Goes(d)
    BY <1>5, <1>6, <1>12, SameLasts DEF vars
  <2>2. Solo'
    BY <1>1, <1>12 DEF vars, Solo, At
  <2> QED  BY <1>3, <1>4, <1>12, <2>1, <2>2, SameLasts DEF vars
<1> QED  BY <1>7, <1>9, <1>10, <1>11, <1>12 DEF Next, Callers

LEMMA CoverStart == Init => CoverInv
<1> SUFFICES ASSUME Init
             PROVE  CoverInv
  OBVIOUS
<1>1. stored = {} /\ \A c \in Callers : call[c] = Idle
  BY DEF Init
<1>2. \A c \in Callers : At(c, "idle") /\ Sources(call[c]) /\ Still(call[c]) /\ Covers(call[c])
  BY <1>1, IdleIs DEF At, Sources, Still, Covers
<1> QED  BY <1>1, <1>2, PageStart DEF CoverInv, Solo

\* Whatever the sources say and however the pages fall, a call that runs alone and missed
\* nothing of an address's list does not turn a confirmed row into a pending one
\* (history.rs:23).
THEOREM ConfirmedStays == Spec => ConfirmedNeverDemoted
<1>1. CoverInv => \A c \in Callers : Store(c) /\ call[c].ran \in {"quiet", "alone"} => ~Demotes
  <2>1. SUFFICES ASSUME CoverInv, NEW c \in Callers, Store(c), Alone(call[c])
                 PROVE  ~Demotes
    BY DEF Alone
  <2>2. Covers(call[c]) /\ At(c, "store") /\ stored' = call[c].rows
    BY <2>1 DEF CoverInv, Store
  <2> QED  BY <2>2 DEF Covers, At, Demotes
<1> QED  BY <1>1, CoverStart, CoverStep, PTL DEF Spec, ConfirmedNeverDemoted
(***************************************************************************)
(* What a quiet refresh holds.                                             *)
(***************************************************************************)
LEMMA SameRows ==
  ASSUME UNCHANGED <<depth, index>>
  PROVE  /\ RowsOf' = RowsOf /\ FrontOf' = FrontOf
         /\ Fresh' = Fresh /\ Wanted' = Wanted
         /\ UNCHANGED stored => BaseNow' = BaseNow /\ Shown' = Shown
<1>1. RowsOf' = RowsOf /\ FrontOf' = FrontOf /\ Fresh' = Fresh
  BY DEF RowsOf, FrontOf, Fresh, ExplorerRow, IncomingCategory, Confirmed
<1>2. Pending' = Pending /\ Mined' = Mined
  BY DEF Pending, Mined, Confirmed
<1>3. Uncut' <=> Uncut
  BY <1>2 DEF Uncut
<1>4. Wanted' = Wanted
  BY <1>2, <1>3 DEF Wanted
<1>5. UNCHANGED stored => BaseNow' = BaseNow
  BY <1>1 DEF BaseNow
<1> QED  BY <1>1, <1>4, <1>5 DEF Shown

LEMMA FreshIs == Fresh = RowsOf[Own]
BY DEF Fresh, RowsOf

\* A page adds the rows of its transactions, and no row that is there already.
LEMMA NewRowsAdd ==
  ASSUME NEW k \in CallRecord, NEW a \in Own, NEW page \in Seq(Txs), NEW T \in SUBSET Txs,
         Depths, k.tip = TRUE, k.got = {ExplorerRow(t, a, TRUE) : t \in T}
  PROVE  NewRows(k, a, page) = {ExplorerRow(t, a, TRUE) : t \in T \cup ToSet(page)}
<1> DEFINE R(t) == ExplorerRow(t, a, TRUE)
           all == {R(t) : t \in ToSet(page)}
           new == {r \in all : \A g \in k.got : Key(g) # Key(r)}
<1>1. NewRows(k, a, page) = k.got \cup new
  BY DEF NewRows
<1>2. ToSet(page) \subseteq Txs
  BY MembersOfList
<1>3. \A t \in Txs : R(t).tx = t
  BY ExplorerRowIs
<1> HIDE DEF R
<1>4. \A t \in ToSet(page) : R(t) \in k.got \/ R(t) \in new
  <2>1. ASSUME NEW t \in ToSet(page), NEW g \in k.got, Key(g) = Key(R(t))
        PROVE  R(t) \in k.got
    <3>1. PICK u \in T : g = R(u)
      BY DEF R
    <3>2. g.tx = R(t).tx
      BY <2>1 DEF Key
    <3>3. u = t
      BY <1>2, <1>3, <3>1, <3>2
    <3> QED  BY <3>1, <3>3
  <2> QED  BY <2>1
<1>5. k.got = {R(t) : t \in T}
  BY DEF R
<1>6. k.got \cup new = {R(t) : t \in T \cup ToSet(page)}
  BY <1>4, <1>5
<1> QED  BY <1>1, <1>6 DEF R

LEMMA FrontIs ==
  ASSUME NEW a \in Own, NEW n \in Nat
  PROVE  FrontOf[a][n] = {ExplorerRow(t, a, TRUE) : t \in {index[a][i] : i \in 1 .. n}}
BY DEF FrontOf

LEMMA ReadExact ==
  ASSUME NEW k \in CallRecord, NEW j \in CallRecord, NEW a \in Own, Lists, Depths,
         Reads(k, j, a), Kept(k), Paged(k), Exact(k)
  PROVE  Exact(j)
<1> DEFINE offset == IF k.pc = "pages" THEN 0 ELSE k.offset
           page == Page(a, offset)
           list == index[a]
           T == {list[i] : i \in 1 .. offset}
<1>1. k.pc \in {"pages", "more"} /\ j.pc = "more" /\ j.address = a
  BY DEF Reads, FirstRead, NextRead
<1>2. k.pc = "more" => a = k.address /\ k.offset \in Nat /\ k.offset <= Len(list)
  BY TxsFinite DEF Reads, FirstRead, NextRead, Kept, Paged, CallRecord
<1>3. index \in [Own -> Seq(Txs)] /\ list \in Seq(Txs) /\ Len(list) \in Nat
  BY DEF Lists
<1>4. offset \in Nat /\ offset <= Len(list)
  BY <1>1, <1>2, <1>3
<1>5. /\ page \in Seq(Txs) /\ Len(page) \in Nat
      /\ ToSet(page) = {list[i] : i \in offset + 1 .. offset + Len(page)}
  <2>1. PICK o : o = offset
    OBVIOUS
  <2>2. o \in Nat /\ o <= Len(index[a]) /\ index \in [Own -> Seq(Txs)]
    BY <1>3, <1>4, <2>1
  <2>3. PICK p : p = Page(a, o)
    OBVIOUS
  <2>4. /\ p \in Seq(Txs) /\ o + Len(p) <= Len(index[a])
        /\ ToSet(p) = {index[a][i] : i \in o + 1 .. o + Len(p)}
    BY <2>2, <2>3, PageIs
  <2>5. Len(p) \in Nat
    BY <2>4
  <2> QED  BY <2>1, <2>3, <2>4, <2>5
<1>6. j.got = NewRows(k, a, page)
  BY <1>1 DEF Reads, FirstRead, NextRead
<1>7. j.offset = offset + Len(page)
  BY <1>1, <1>5 DEF Reads, FirstRead, NextRead
<1>8. k.tip = TRUE
  BY <1>1 DEF Exact
<1>9. T \in SUBSET Txs
  BY <1>3, <1>4
<1>10. k.got = {ExplorerRow(t, a, TRUE) : t \in T}
  <2>1. CASE k.pc = "pages"
    <3>1. T = {} /\ k.got = {}
      BY <2>1 DEF Kept
    <3> QED  BY <3>1
  <2>2. CASE k.pc = "more"
    <3>1. k.got = FrontOf[a][offset]
      BY <1>2, <2>2 DEF Exact
    <3> QED  BY <1>4, <3>1, FrontIs
  <2> QED  BY <1>1, <2>1, <2>2
<1> HIDE DEF page, offset
<1>11. T \cup ToSet(page) = {list[i] : i \in 1 .. j.offset}
  BY <1>4, <1>5, <1>7
<1> HIDE DEF T
<1>12. j.got = {ExplorerRow(t, a, TRUE) : t \in T \cup ToSet(page)}
  BY <1>5, <1>6, <1>8, <1>9, <1>10, NewRowsAdd
<1>13. j.got = FrontOf[a][j.offset]
  <2>1. j.offset \in Nat
    BY <1>4, <1>5, <1>7
  <2>2. FrontOf[a][j.offset] =
          {ExplorerRow(t, a, TRUE) : t \in {list[i] : i \in 1 .. j.offset}}
    BY <2>1, FrontIs
  <2> QED  BY <1>11, <1>12, <2>2
<1>14. j.tip = TRUE
  BY <1>8 DEF Reads
<1>15. Own \ (j.todo \cup {a}) = IF k.pc = "pages" THEN Own \ k.todo ELSE Own \ (k.todo \cup {k.address})
  BY <1>1 DEF Reads, FirstRead, NextRead
<1>16. j.rows = RowsOf[Own \ (j.todo \cup {a})]
  BY <1>1, <1>15 DEF Exact, Reads
<1> QED  BY <1>1, <1>13, <1>14, <1>16 DEF Exact

LEMMA RowsAdd ==
  ASSUME NEW A \in SUBSET Own, NEW a \in Own
  PROVE  RowsOf[A \cup {a}] = RowsOf[A] \cup {ExplorerRow(t, a, TRUE) : t \in ToSet(index[a])}
<1> DEFINE Rows(b) == {ExplorerRow(t, b, TRUE) : t \in ToSet(index[b])}
           more == UNION {Rows(b) : b \in A \cup {a}}
           less == UNION {Rows(b) : b \in A}
<1>1. RowsOf = [B \in SUBSET Own |-> UNION {Rows(b) : b \in B}]
  BY DEF RowsOf
<1>2. A \cup {a} \in SUBSET Own
  OBVIOUS
<1> HIDE DEF Rows
<1>3. RowsOf[A \cup {a}] = more /\ RowsOf[A] = less
  BY <1>1, <1>2
<1>4. \A x : x \in more <=> x \in less \/ x \in Rows(a)
  OBVIOUS
<1> HIDE DEF more, less
<1>5. RowsOf[A \cup {a}] = RowsOf[A] \cup Rows(a)
  BY <1>3, <1>4
<1>6. Rows(a) = {ExplorerRow(t, a, TRUE) : t \in ToSet(index[a])}
  BY DEF Rows
<1> QED  BY <1>5, <1>6

LEMMA FinishedExact ==
  ASSUME NEW j \in CallRecord, j.pc = "more", Lists, Kept(j), Paged(j), Over(j), Exact(j),
         j.total = Len(index[j.address])
  PROVE  Exact(Finished(j))
<1> DEFINE f == Finished(j)
           a == j.address
           list == index[a]
<1>1. a \in Own \ j.todo /\ j.todo \subseteq Own
  BY DEF Kept, CallRecord
<1>2. f.pc = "pages" /\ f.todo = j.todo /\ f.rows = j.rows \cup j.got
  BY <1>1, FinishedIs
<1>3. f.tip = TRUE
  BY <1>1, FinishedIs DEF Exact
<1> HIDE DEF f
<1>4. list \in Seq(Txs) /\ j.offset = Len(list)
  BY <1>1, TxsFinite DEF Lists, Paged, Over, CallRecord
<1>5. j.got = {ExplorerRow(t, a, TRUE) : t \in ToSet(list)}
  <2>1. j.got = FrontOf[a][Len(list)] /\ a \in Own /\ Len(list) \in Nat
    BY <1>1, <1>4 DEF Exact
  <2>2. FrontOf[a][Len(list)] = {ExplorerRow(t, a, TRUE) : t \in {list[i] : i \in 1 .. Len(list)}}
    BY <2>1, FrontIs
  <2>3. {list[i] : i \in 1 .. Len(list)} = ToSet(list)
    BY <1>4, MembersOfList
  <2> QED  BY <2>1, <2>2, <2>3
<1> HIDE DEF a
<1>6. RowsOf[Own \ j.todo] = RowsOf[Own \ (j.todo \cup {a})] \cup {ExplorerRow(t, a, TRUE) : t \in ToSet(index[a])}
  <2>1. Own \ j.todo = (Own \ (j.todo \cup {a})) \cup {a}
    BY <1>1 DEF a
  <2>2. Own \ (j.todo \cup {a}) \in SUBSET Own /\ a \in Own
    BY <1>1 DEF a
  <2> QED  BY <2>1, <2>2, RowsAdd
<1>7. f.rows = RowsOf[Own \ f.todo]
  BY <1>2, <1>5, <1>6 DEF Exact, a
<1> QED  BY <1>2, <1>3, <1>7 DEF Exact, f

\* A transaction has an entry, and a list that leaves one out has fewer entries.
LEMMA EachIsListed ==
  ASSUME NEW T \in SUBSET Txs
  PROVE  /\ Cardinality(T) \in Nat /\ Listings(T) \in Nat
         /\ Cardinality(T) <= Listings(T)
<1> DEFINE L == {l \in T \X Own : Concerns(l[1], l[2])}
           f == [t \in T |-> <<t, CHOOSE a \in Own : Concerns(t, a)>>]
<1>1. IsFiniteSet(T) /\ IsFiniteSet(Own)
  BY TxsFinite, FS_Subset, HistoryAssumption
<1>2. IsFiniteSet(T \X Own)
  BY <1>1, FS_Product
<1>3. IsFiniteSet(L)
  <2>1. L \in SUBSET (T \X Own)
    OBVIOUS
  <2> HIDE DEF L
  <2> QED  BY <1>2, <2>1, FS_Subset
<1>4. \A t \in T : \E a \in Own : Concerns(t, a)
  BY HistoryAssumption DEF Concerns, Paid
<1>5. f \in Injection(T, L)
  <2>1. \A t \in T : f[t] \in L /\ f[t][1] = t
    BY <1>4
  <2>2. f \in [T -> L]
    BY <2>1
  <2>3. \A t, u \in T : f[t] = f[u] => t = u
    BY <2>1
  <2> HIDE DEF f, L
  <2> QED  BY <2>2, <2>3, Fun_IsInj
<1>6. Listings(T) = Cardinality(L)
  BY DEF Listings
<1> HIDE DEF f, L
<1>7. Cardinality(T) <= Cardinality(L)
  BY <1>3, <1>5, FS_Injection
<1> QED  BY <1>1, <1>3, <1>6, <1>7, FS_CardinalityType

LEMMA ListingsGrow ==
  ASSUME NEW T \in SUBSET Txs, NEW S \in SUBSET T, S # T
  PROVE  Listings(S) < Listings(T) /\ Cardinality(S) < Cardinality(T)
<1> DEFINE L(U) == {l \in U \X Own : Concerns(l[1], l[2])}
<1>1. IsFiniteSet(T) /\ IsFiniteSet(Own) /\ S \in SUBSET Txs
  BY TxsFinite, FS_Subset, HistoryAssumption
<1>2. IsFiniteSet(T \X Own)
  BY <1>1, FS_Product
<1>3. L(T) \in SUBSET (T \X Own) /\ L(S) \in SUBSET L(T) /\ L(S) # L(T)
  <2>1. PICK t \in T : t \notin S
    OBVIOUS
  <2>2. PICK a \in Own : Concerns(t, a)
    BY HistoryAssumption DEF Concerns, Paid
  <2>3. <<t, a>> \in L(T) /\ <<t, a>> \notin L(S)
    BY <2>1, <2>2
  <2>4. L(S) \subseteq L(T)
    OBVIOUS
  <2> QED  BY <2>3, <2>4
<1>4. Listings(S) = Cardinality(L(S)) /\ Listings(T) = Cardinality(L(T))
  BY DEF Listings
<1> HIDE DEF L
<1>5. IsFiniteSet(L(T))
  BY <1>2, <1>3, FS_Subset
<1>6. Cardinality(L(S)) <= Cardinality(L(T)) /\ Cardinality(L(S)) # Cardinality(L(T))
  BY <1>3, <1>5, FS_Subset
<1>7. Cardinality(S) <= Cardinality(T) /\ Cardinality(S) # Cardinality(T)
  BY <1>1, FS_Subset
<1>8. /\ Listings(S) \in Nat /\ Listings(T) \in Nat
      /\ Cardinality(S) \in Nat /\ Cardinality(T) \in Nat
  BY <1>1, EachIsListed
<1> QED  BY <1>4, <1>6, <1>7, <1>8

LEMMA MostEntriesGrow ==
  ASSUME NEW T \in SUBSET Txs
  PROVE  /\ MostEntries(T) \in Nat /\ Cardinality(T) <= MostEntries(T)
         /\ \A S \in SUBSET T : S # T => MostEntries(S) < MostEntries(T)
<1>1. \A S \in SUBSET T : /\ Cardinality(S) \in Nat /\ Listings(S) \in Nat
                         /\ Cardinality(S) <= Listings(S)
  BY EachIsListed
<1>2. \A S \in SUBSET T : S # T => Listings(S) < Listings(T) /\ Cardinality(S) < Cardinality(T)
  BY ListingsGrow
<1>3. T \in SUBSET T
  OBVIOUS
<1>4. MostEntries(T) \in Nat /\ Cardinality(T) <= MostEntries(T)
  BY <1>1, <1>3 DEF MostEntries
<1>5. ASSUME NEW S \in SUBSET T, S # T
      PROVE  MostEntries(S) < MostEntries(T)
  BY <1>1, <1>2, <1>3, <1>5 DEF MostEntries
<1> QED  BY <1>4, <1>5

\* Where there is room for all entries nothing is cut.
LEMMA RoomForAll ==
  ASSUME NEW T \in SUBSET Txs, NEW room \in Nat, MostEntries(T) <= room, NEW S \in Cut(T, room)
  PROVE  S = T
<1> SUFFICES ASSUME S # T
             PROVE  FALSE
  OBVIOUS
<1>1. S \in SUBSET T /\ room \in Entries(S)
  BY DEF Cut
<1>2. MostEntries(S) < MostEntries(T) /\ MostEntries(T) \in Nat /\ MostEntries(S) \in Nat
  BY <1>1, MostEntriesGrow
<1>3. Cardinality(S) \in Nat
  BY <1>1, EachIsListed
<1>4. room <= MostEntries(S)
  BY <1>1, <1>2, <1>3 DEF Entries
<1> QED  BY <1>2, <1>4

\* A server whose list is cut nowhere leaves out no pending transaction.
LEMMA AnswersWanted ==
  ASSUME NEW S \in Answers(Pending, Mined)
  PROVE  S \in Wanted
<1>1. Pending \in SUBSET Txs /\ Mined \in SUBSET Txs
  BY DEF Pending, Mined
<1>2. S \in SUBSET Pending
  BY AnswersAreTxs
<1>3. ASSUME Uncut
      PROVE  S = Pending
  <2>1. PICK n \in Entries(Mined) :
           \E listed \in Cut(Pending, IF n < Limit THEN Limit - n ELSE 0) :
              S \in Cut(listed, ExpandLimit)
    BY DEF Answers, Rooms
  <2>2. PICK room : room = IF n < Limit THEN Limit - n ELSE 0
    OBVIOUS
  <2>3. PICK listed \in Cut(Pending, room) : S \in Cut(listed, ExpandLimit)
    BY <2>1, <2>2
  <2>4. /\ MostEntries(Pending) \in Nat /\ MostEntries(Mined) \in Nat /\ Cardinality(Mined) \in Nat
        /\ Limit \in Nat /\ ExpandLimit \in Nat
    BY <1>1, MostEntriesGrow, EachIsListed, HistoryAssumption
  <2>5. n \in Nat /\ n <= MostEntries(Mined)
    BY <2>4 DEF Entries
  <2>6. room \in Nat /\ MostEntries(Pending) <= room
    BY <1>3, <2>2, <2>4, <2>5 DEF Uncut
  <2>7. listed = Pending
    BY <1>1, <2>3, <2>6, RoomForAll
  <2>8. MostEntries(Pending) <= ExpandLimit
    BY <1>3 DEF Uncut
  <2> QED  BY <1>1, <2>3, <2>4, <2>7, <2>8, RoomForAll
<1> QED  BY <1>2, <1>3 DEF Wanted
(***************************************************************************)
(* The third invariant is kept.                                            *)
(***************************************************************************)
\* A call keeps what it has while the sources and the table stand still.
LEMMA ExactStays ==
  ASSUME NEW d \in Callers, UNCHANGED <<depth, index, stored>>, SameWork(call'[d], call[d]),
         Exact(call[d])
  PROVE  Exact(call[d])'
<1>1. RowsOf' = RowsOf /\ FrontOf' = FrontOf /\ BaseNow' = BaseNow /\ Shown' = Shown
  BY SameRows
<1> QED  BY <1>1 DEF Exact, SameWork

\* The call of c after a step of its own that leaves it quiet.
LEMMA MineExact ==
  ASSUME ExactInv, NEW c \in Callers, Step(c), call'[c].ran = "quiet"
  PROVE  Exact(call[c])'
<1> DEFINE k == call[c]
<1>0. /\ Types /\ Lists /\ Depths /\ k \in CallRecord
      /\ Kept(k) /\ Paged(k) /\ Still(k)
      /\ k.ran = "quiet" => Exact(k)
  BY TypesOf DEF ExactInv, CoverInv, PageInv, Types
<1>1. CASE (\E a \in Own : FirstPage(c, a)) \/ NextPage(c)
  <2>1. /\ OnlyMine(c) /\ UNCHANGED <<stored, faults>>
        /\ \E j \in CallRecord, a \in Own :
               /\ Reads(k, j, a) /\ Kept(j) /\ Paged(j)
               /\ call'[c] = j \/ (call'[c] = Finished(j) /\ Over(j))
    BY <1>0, <1>1, ReadDoes
  <2>2. PICK j \in CallRecord, a \in Own :
               /\ Reads(k, j, a) /\ Kept(j) /\ Paged(j)
               /\ call'[c] = j \/ (call'[c] = Finished(j) /\ Over(j))
    BY <2>1
  <2>3. j.pc = "more" /\ j.address = a /\ j.ran = k.ran
    BY <2>2 DEF Reads
  <2>4. j.ran = "quiet"
    <3>1. Finished(j).ran = "quiet" => j.ran = "quiet"
      BY <2>3, FinishedIs
    <3> QED  BY <2>2, <3>1
  <2>5. Exact(j)
    BY <1>0, <2>2, <2>3, <2>4, ReadExact
  <2>6. j.total = Len(index[j.address])
    BY <1>0, <2>2, <2>3, <2>4 DEF Reads, FirstRead, NextRead, Still
  <2>7. PICK m : m = call'[c] /\ Exact(m)
    BY <1>0, <2>2, <2>3, <2>5, <2>6, FinishedExact
  <2>8. RowsOf' = RowsOf /\ FrontOf' = FrontOf /\ BaseNow' = BaseNow /\ Shown' = Shown
    BY <2>1, SameRows DEF OnlyMine
  <2> QED  BY <2>7, <2>8 DEF Exact
<1>2. CASE AddressFails(c)
  <2>1. call'[c].ran \in {"mixed", "partly"}
    BY <1>0, <1>2, AddressFailsDoes
  <2> QED  BY <2>1
<1>3. CASE Fetched(c)
  <2>1. /\ OnlyMine(c) /\ UNCHANGED stored
        /\ k.pc = "pages" /\ k.todo = {}
        /\ call'[c].pc = "electrum"
        /\ call'[c].base = IF k.rows # {} THEN k.rows ELSE stored
        /\ k.ran = "quiet"
    BY <1>0, <1>3, FetchedDoes
  <2>2. k.rows = RowsOf[Own]
    <3>1. Own \ k.todo = Own
      BY <2>1
    <3> QED  BY <1>0, <2>1, <3>1 DEF Exact
  <2>3. call'[c].base = BaseNow
    BY <2>1, <2>2, FreshIs DEF BaseNow
  <2>4. BaseNow' = BaseNow
    BY <2>1, SameRows DEF OnlyMine
  <2> QED  BY <2>1, <2>3, <2>4 DEF Exact
<1>4. CASE ReadPending(c) \/ ReadPendingPoorly(c)
  <2>1. /\ OnlyMine(c) /\ UNCHANGED stored /\ k.pc = "electrum"
        /\ \E S \in SUBSET Txs, orphans \in SUBSET Txs, ran \in Rans :
               /\ call'[c] = Merged(k, ran, ExpandAll(S, orphans))
               /\ call'[c] \in CallRecord
               /\ IF ran = "quiet" THEN /\ k.ran = "quiet"
                                        /\ orphans = {} /\ S \in Answers(Pending, Mined)
                  ELSE \/ ran = k.ran
                       \/ ran = "alone" /\ k.ran = "quiet"
    BY <1>0, <1>4, PendingDoes
  <2>2. PICK S \in SUBSET Txs, orphans \in SUBSET Txs, ran \in Rans :
               /\ call'[c] = Merged(k, ran, ExpandAll(S, orphans))
               /\ call'[c] \in CallRecord
               /\ IF ran = "quiet" THEN /\ k.ran = "quiet"
                                        /\ orphans = {} /\ S \in Answers(Pending, Mined)
                  ELSE \/ ran = k.ran
                       \/ ran = "alone" /\ k.ran = "quiet"
    BY <2>1
  <2> DEFINE new == ExpandAll(S, orphans)
  <2>3. new \in SUBSET Row
    BY ExpandedRowsWait
  <2>4. call'[c] = Merged(k, ran, new)
    BY <2>2
  <2> HIDE DEF new
  <2>5. call'[c].pc = "store" /\ call'[c].rows = Merge(k.base, new) /\ call'[c].ran = ran
    BY <1>0, <2>3, <2>4, MergedIs
  <2>6. k.ran = "quiet" /\ orphans = {} /\ S \in Answers(Pending, Mined)
    BY <2>2, <2>5
  <2>7. S \in Wanted /\ new = ExpandAll(S, {})
    BY <2>6, AnswersWanted DEF new
  <2>8. k.base = BaseNow
    BY <1>0, <2>1, <2>6 DEF Exact
  <2>9. call'[c].rows \in Shown
    BY <2>5, <2>7, <2>8 DEF Shown
  <2>10. Shown' = Shown
    BY <2>1, SameRows DEF OnlyMine
  <2> QED  BY <2>5, <2>9, <2>10 DEF Exact
<1>5. CASE AppendLocal(c)
  <2>1. k.pc = "append" /\ k.ran = "quiet"
    BY <1>0, <1>5, AppendDoes
  <2> QED  BY <1>0, <2>1 DEF Exact
<1>6. CASE Store(c) \/ ElectrumFails(c)
  <2>1. call'[c].pc = "idle"
    BY <1>0, <1>6, EndDoes, IdleIs
  <2> QED  BY <2>1 DEF Exact
<1>7. CASE LoadFails(c)
  <2>1. call'[c].ran \in {"mixed", "partly"}
    BY <1>0, <1>7, LoadFailsDoes
  <2> QED  BY <2>1
<1> QED  BY <1>1, <1>2, <1>3, <1>4, <1>5, <1>6, <1>7 DEF Step

LEMMA ExactStep == ExactInv /\ [Next]_vars => ExactInv'
<1> SUFFICES ASSUME ExactInv, [Next]_vars
             PROVE  ExactInv'
  OBVIOUS
<1>1. /\ CoverInv /\ Types /\ Lists /\ Depths /\ Solo
      /\ \A d \in Callers : call[d].ran = "quiet" => Exact(call[d])
  BY TypesOf DEF ExactInv, CoverInv, PageInv, Types
<1>2. CoverInv'
  BY <1>1, CoverStep
<1>3. ASSUME \A d \in Callers : call'[d].ran = "quiet" => Exact(call[d])'
      PROVE  ExactInv'
  BY <1>2, <1>3 DEF ExactInv
<1>4. CASE World
  <2>1. \A d \in Callers : call'[d].ran = IF call[d].ran = "quiet" THEN "alone" ELSE call[d].ran
    BY <1>1, <1>4, WorldDoes
  <2>2. \A d \in Callers : call'[d].ran # "quiet"
    BY <2>1
  <2> QED  BY <1>3, <2>2
<1>5. ASSUME NEW c \in Callers, StartRefresh(c) \/ StartPoorly(c)
      PROVE  ExactInv'
  <2>1. /\ UNCHANGED <<depth, index, stored>> /\ OthersMixed(c)
        /\ \E todo \in {{}, Own}, tip \in BOOLEAN, ran \in {"quiet", "alone"} :
              /\ SameWork(call'[c], Reading(todo, tip))
              /\ RanOf(c, ran)
              /\ ran = "quiet" => todo = Own /\ tip
    BY <1>1, <1>5, StartDoes
  <2>2. PICK todo \in {{}, Own}, tip \in BOOLEAN, ran \in {"quiet", "alone"} :
              /\ SameWork(call'[c], Reading(todo, tip))
              /\ RanOf(c, ran)
              /\ ran = "quiet" => todo = Own /\ tip
    BY <2>1
  <2>3. ASSUME call'[c].ran = "quiet"
        PROVE  Exact(call[c])'
    <3>1. ran = "quiet"
      BY <2>2, <2>3 DEF RanOf
    <3>2. SameWork(call'[c], Reading(Own, TRUE))
      BY <2>2, <3>1
    <3>3. call'[c].pc = "pages" /\ call'[c].todo = Own /\ call'[c].rows = {} /\ call'[c].tip
      BY <3>2, BegunReads, Zenon
    <3>4. call'[c] \in CallRecord
      BY <1>1, <1>5, StartDoes
    <3>5. call'[c].tip = TRUE
      BY <3>3, <3>4 DEF CallRecord
    <3>6. RowsOf[Own \ Own] = {}
      <4>1. Own \ Own = {}
        OBVIOUS
      <4> QED  BY <4>1 DEF RowsOf
    <3>7. RowsOf' = RowsOf
      BY <2>1, SameRows
    <3> QED  BY <3>3, <3>5, <3>6, <3>7 DEF Exact
  <2>4. \A d \in Callers : d # c => call'[d].ran # "quiet"
    BY <2>1 DEF OthersMixed
  <2> QED  BY <1>3, <2>3, <2>4
<1>6. ASSUME NEW c \in Senders, Send(c)
      PROVE  ExactInv'
  <2>1. c \in Callers
    BY DEF Callers
  <2>2. OthersMixed(c) /\ RanOf(c, "alone")
    BY <1>1, <1>6, <2>1, SendDoes
  <2>3. \A d \in Callers : call'[d].ran # "quiet"
    BY <2>2 DEF OthersMixed, RanOf
  <2> QED  BY <1>3, <2>3
<1>7. ASSUME NEW c \in Callers, Step(c)
      PROVE  ExactInv'
  <2>1. OnlyMine(c)
    BY <1>1, <1>7, MinePaged DEF CoverInv
  <2>2. ASSUME NEW d \in Callers, d # c, call'[d].ran = "quiet"
        PROVE  Exact(call[d])'
    <3>1. ~At(c, "idle")
      BY <1>1, <1>7 DEF Step, FirstPage, NextPage, AddressFails, Fetched, LoadFails,
                        ReadPending, ReadPendingPoorly, ElectrumFails, AppendLocal, Store, At
    <3>2. call'[d] = call[d]
      BY <2>1, <2>2 DEF OnlyMine
    <3>3. call[d].pc = "idle"
      <4>1. ~At(d, "idle") /\ call[d].ran # "mixed" => At(c, "idle")
        BY <1>1, <2>2 DEF Solo
      <4> QED  BY <2>2, <3>1, <3>2, <4>1 DEF At
    <3> QED  BY <3>2, <3>3 DEF Exact
  <2>3. call'[c].ran = "quiet" => Exact(call[c])'
    BY <1>7, MineExact
  <2> QED  BY <1>3, <2>2, <2>3
<1>8. CASE UNCHANGED vars
  <2>1. ASSUME NEW d \in Callers, call'[d].ran = "quiet"
        PROVE  Exact(call[d])'
    <3>1. SameWork(call'[d], call[d]) /\ Exact(call[d])
      BY <1>1, <1>8, <2>1 DEF SameWork, vars
    <3> QED  BY <1>8, <3>1, ExactStays DEF vars
  <2> QED  BY <1>3, <2>1
<1> QED  BY <1>4, <1>5, <1>6, <1>7, <1>8 DEF Next, Callers

LEMMA ExactStart == Init => ExactInv
<1> SUFFICES ASSUME Init
             PROVE  ExactInv
  OBVIOUS
<1>1. \A c \in Callers : call[c].ran # "quiet"
  BY IdleIs DEF Init
<1> QED  BY <1>1, CoverStart DEF ExactInv

\* Without explorer rows the table keeps its own, and pending ones join them.
LEMMA PendingRowsJoin ==
  ASSUME Types, \A r \in stored : Sound(r), NEW S \in SUBSET Pending
  PROVE  ExpandAll(S, {}) \subseteq Merge(stored, ExpandAll(S, {}))
<1>1. Pending \in SUBSET Txs /\ \A t \in Pending : ~Confirmed(t)
  BY DEF Pending, Confirmed
<1>2. PICK pending : pending = ExpandAll(S, {})
  OBVIOUS
<1>3. \A r \in pending : r.tx \in Pending
  BY <1>1, <1>2, ExpandedRowsWait
<1>4. ASSUME NEW r \in pending, NEW b \in stored, Key(b) = Key(r), b.confirmed
      PROVE  FALSE
  <2>1. b.tx = r.tx
    BY <1>4 DEF Key
  <2>2. Confirmed(b.tx)
    BY <1>4 DEF Sound
  <2> QED  BY <1>1, <1>3, <2>1, <2>2
<1>5. \A r \in pending : ~Beaten(r, stored)
  BY <1>4 DEF Beaten
<1>6. pending \subseteq Merge(stored, pending)
  BY <1>5 DEF Merge
<1> QED  BY <1>2, <1>6

\* A refresh in which nothing went wrong leaves exactly the explorer's rows and the rows of
\* pending transactions, whatever the table held and however the lists are cut into pages;
\* and of all pending transactions, unless the server's list has more entries than are asked
\* for or looked up, as it lists a transaction once for each script (sync_engine.rs:494).
THEOREM QuietIsExact == Spec => QuietRefreshIsExact
<1>1. ExactInv => \A c \in Callers : Store(c) /\ call[c].ran = "quiet" =>
          \E S \in SUBSET Pending : (Uncut => S = Pending) /\ UpToDate(S)'
  <2>1. SUFFICES ASSUME ExactInv, NEW c \in Callers, Store(c), call[c].ran = "quiet"
                 PROVE  \E S \in SUBSET Pending : (Uncut => S = Pending) /\ UpToDate(S)'
    OBVIOUS
  <2>2. Exact(call[c]) /\ At(c, "store") /\ stored' = call[c].rows /\ UNCHANGED <<depth, index>>
    BY <2>1 DEF ExactInv, Store
  <2>3. PICK S \in Wanted : stored' = Merge(BaseNow, ExpandAll(S, {}))
    BY <2>2 DEF Exact, At, Shown
  <2>4. S \in SUBSET Pending /\ (Uncut => S = Pending)
    BY DEF Wanted
  <2>5. Fresh' = Fresh
    BY <2>2, SameRows
  <2>6. ExpandAll(S, {}) \subseteq Merge(stored, ExpandAll(S, {}))
    BY <2>1, <2>4, TypesOf, PendingRowsJoin DEF ExactInv, CoverInv, PageInv
  <2>7. UpToDate(S)'
    BY <2>3, <2>5, <2>6 DEF UpToDate, BaseNow
  <2> QED  BY <2>4, <2>7
<1>2. ExactInv /\ [Next]_vars => ExactInv'
  BY ExactStep
<1> QED  BY <1>1, <1>2, ExactStart, PTL DEF Spec, QuietRefreshIsExact
=============================================================================
