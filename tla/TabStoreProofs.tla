--------------------------- MODULE TabStoreProofs ---------------------------
(***************************************************************************)
(* Proofs about the desktop tab store, for any workspaces, pages, ids and  *)
(* persisted states.  StoreInv says what a well-formed store is: groups    *)
(* whose tabs are typed, distinct and have the pinned ones first, and per  *)
(* tab what ties its path, its router, its stored history and the position *)
(* its component counts.  Every store method maps well-formed stores to    *)
(* well-formed stores (StoreGood), and Commit ends every action.           *)
(***************************************************************************)
EXTENDS TabStore, FiniteSetTheorems, SequenceTheorems, TLAPS

Router == {r \in [stack : Seq(Path), at : Nat] : r.at \in 1 .. Len(r.stack)}
Tab == [id : TabIds, path : Path, pinned : BOOLEAN, index : Int, length : Int,
        router : Router, ref : [index : Int, length : Int],
        kept : BOOLEAN, stray : BOOLEAN]

AtHome(t, w) ==
  ~t.stray => /\ t.path.ws = w
              /\ \A k \in 1 .. Len(t.router.stack) : t.router.stack[k].ws = w
Trail(t) == t.kept => t.index = t.router.at - 1 /\ t.length = Len(t.router.stack)
Counted(t) == t.kept => t.ref.index = t.index /\ t.ref.length = t.length

(* In a context c: c.ws is the workspace whose tabs React has mounted, and *)
(* c.but the tabs about to be marked stray.                                *)
TabGood(t, w, c) ==
  /\ t \in Tab
  /\ t.id \notin c.but => AtHome(t, w)
  /\ Trail(t)
  /\ w = c.ws => Counted(t)

PinsFirst(tabs) ==
  \A m, n \in 1 .. Len(tabs) : m < n /\ tabs[n].pinned => tabs[m].pinned
Distinct(tabs) ==
  \A m, n \in 1 .. Len(tabs) : tabs[m].id = tabs[n].id => m = n
Has(tabs, i) == \E n \in 1 .. Len(tabs) : tabs[n].id = i

TabsGood(tabs, w, c) ==
  /\ tabs \in Seq(Tab)
  /\ \A n \in 1 .. Len(tabs) : TabGood(tabs[n], w, c)
  /\ PinsFirst(tabs)
  /\ Distinct(tabs)

Apart(by) ==
  \A w, x \in DOMAIN by : \A m \in 1 .. Len(by[w].tabs), n \in 1 .. Len(by[x].tabs) :
    by[w].tabs[m].id = by[x].tabs[n].id => w = x

GroupGood(g, w, c) ==
  /\ g = [tabs |-> g.tabs, active |-> g.active]
  /\ TabsGood(g.tabs, w, c)
  /\ Has(g.tabs, g.active)

StoreGood(s, c) ==
  /\ s = [ws |-> s.ws, by |-> s.by]
  /\ s.by = [w \in DOMAIN s.by |-> s.by[w]]
  /\ DOMAIN s.by \subseteq Slugs
  /\ IF DOMAIN s.by = {} THEN s.ws = None ELSE s.ws \in DOMAIN s.by
  /\ \A w \in DOMAIN s.by : GroupGood(s.by[w], w, c)
  /\ Apart(s.by)

Now(s) == [ws |-> s.ws, but |-> {}]
StoreInv == StoreGood(store, Now(store))

-----------------------------------------------------------------------------
(* Array.filter.  The rank of a position among those kept is a bijection   *)
(* onto 1..Cardinality(K), so Position is well defined and increasing.     *)

Rank(K, n) == Cardinality(K \cap 1 .. n)

LEMMA RankType ==
  ASSUME NEW L \in Nat, NEW K \in SUBSET (1 .. L)
  PROVE  /\ IsFiniteSet(K)
         /\ Cardinality(K) \in Nat
         /\ \A n \in K : IsFiniteSet(K \cap 1 .. n) /\ Rank(K, n) \in 1 .. Cardinality(K)
<1>0. IsFiniteSet(1 .. L)
  BY FS_Interval
<1>1. IsFiniteSet(K) /\ Cardinality(K) \in Nat
  BY <1>0, FS_Subset, FS_CardinalityType
<1>2. ASSUME NEW n \in K
      PROVE  IsFiniteSet(K \cap 1 .. n) /\ Rank(K, n) \in 1 .. Cardinality(K)
  <2>1. K \cap 1 .. n \in SUBSET K
    OBVIOUS
  <2>2. IsFiniteSet(K \cap 1 .. n) /\ Cardinality(K \cap 1 .. n) <= Cardinality(K)
    BY <1>1, <2>1, FS_Subset
  <2>3. Cardinality(K \cap 1 .. n) \in Nat
    BY <2>2, FS_CardinalityType
  <2>4. n \in K \cap 1 .. n
    OBVIOUS
  <2>5. Cardinality(K \cap 1 .. n) # 0
    BY <2>2, <2>4, FS_EmptySet
  <2> QED BY <1>1, <2>2, <2>3, <2>5 DEF Rank
<1> QED BY <1>1, <1>2

LEMMA RankIncreases ==
  ASSUME NEW L \in Nat, NEW K \in SUBSET (1 .. L), NEW m \in K, NEW n \in K, m < n
  PROVE  Rank(K, m) < Rank(K, n)
<1>1. IsFiniteSet(K \cap 1 .. n) /\ Rank(K, n) \in Nat /\ Rank(K, m) \in Nat
  <2>1. Cardinality(K) \in Nat /\ \A x \in K : IsFiniteSet(K \cap 1 .. x) /\ Rank(K, x) \in 1 .. Cardinality(K)
    BY RankType
  <2>2. Rank(K, m) \in 1 .. Cardinality(K) /\ Rank(K, n) \in 1 .. Cardinality(K)
    BY <2>1, Zenon
  <2>3. IsFiniteSet(K \cap 1 .. n)
    BY <2>1, Zenon
  <2> QED BY <2>1, <2>2, <2>3
<1>2. K \cap 1 .. m \in SUBSET (K \cap 1 .. n)
  OBVIOUS
<1>3. n \in K \cap 1 .. n /\ n \notin K \cap 1 .. m
  OBVIOUS
<1>4. /\ Cardinality(K \cap 1 .. m) <= Cardinality(K \cap 1 .. n)
      /\ Cardinality(K \cap 1 .. m) # Cardinality(K \cap 1 .. n)
  BY <1>1, <1>2, <1>3, FS_Subset
<1> QED BY <1>1, <1>4 DEF Rank

LEMMA RankOnto ==
  ASSUME NEW L \in Nat, NEW K \in SUBSET (1 .. L), NEW k \in 1 .. Cardinality(K)
  PROVE  \E n \in K : Rank(K, n) = k
<1> DEFINE C == 1 .. Cardinality(K)
           f == [n \in K |-> Rank(K, n)]
<1>1. Cardinality(K) \in Nat /\ IsFiniteSet(K) /\ f \in [K -> C]
  BY RankType
<1>2. ASSUME NEW m \in K, NEW n \in K, m # n PROVE f[m] # f[n]
  <2>1. m < n \/ n < m
    BY <1>2
  <2>2. f[m] = Rank(K, m) /\ f[n] = Rank(K, n) /\ f[m] \in Int /\ f[n] \in Int
    BY <1>1
  <2> HIDE DEF f
  <2>3. CASE m < n
    <3>1. Rank(K, m) < Rank(K, n)
      BY <2>3, RankIncreases, Zenon
    <3> QED BY <2>2, <3>1
  <2>4. CASE n < m
    <3>1. Rank(K, n) < Rank(K, m)
      BY <2>4, RankIncreases, Zenon
    <3> QED BY <2>2, <3>1
  <2> QED BY <2>1, <2>3, <2>4
<1>3. f \in Injection(K, C)
  BY <1>1, <1>2 DEF Injection, IsInjective
<1>4. IsFiniteSet(C) /\ Cardinality(C) = Cardinality(K)
  BY <1>1, FS_Interval
<1>5. f \in Surjection(K, C)
  BY <1>3, <1>4, FS_Injection
<1> QED BY <1>5 DEF Surjection

LEMMA PositionOK ==
  ASSUME NEW L \in Nat, NEW K \in SUBSET (1 .. L), NEW k \in 1 .. Cardinality(K)
  PROVE  Position(K, k) \in K /\ Rank(K, Position(K, k)) = k
<1>1. \E n \in K : Cardinality(K \cap 1 .. n) = k
  BY RankOnto DEF Rank
<1> QED BY <1>1 DEF Position, Rank

LEMMA PositionRank ==
  ASSUME NEW L \in Nat, NEW K \in SUBSET (1 .. L), NEW n \in K
  PROVE  Rank(K, n) \in 1 .. Cardinality(K) /\ Position(K, Rank(K, n)) = n
<1> DEFINE p == Position(K, Rank(K, n))
<1>1. Rank(K, n) \in 1 .. Cardinality(K) /\ Cardinality(K) \in Nat
  BY RankType
<1>2. p \in K /\ Rank(K, p) = Rank(K, n)
  BY <1>1, PositionOK
<1> HIDE DEF p
<1>3. p \in Int /\ n \in Int /\ Rank(K, p) \in Int
  BY <1>1, <1>2
<1>4. ~(p < n)
  <2> SUFFICES ASSUME p < n PROVE FALSE
    OBVIOUS
  <2>1. Rank(K, p) < Rank(K, n)
    BY <1>2, RankIncreases
  <2> QED BY <1>2, <1>3, <2>1
<1>5. ~(n < p)
  <2> SUFFICES ASSUME n < p PROVE FALSE
    OBVIOUS
  <2>1. Rank(K, n) < Rank(K, p)
    BY <1>2, RankIncreases
  <2> QED BY <1>2, <1>3, <2>1
<1>6. p = n
  BY <1>3, <1>4, <1>5
<1> QED BY <1>1, <1>6 DEF p

LEMMA PositionIncreases ==
  ASSUME NEW L \in Nat, NEW K \in SUBSET (1 .. L),
         NEW j \in 1 .. Cardinality(K), NEW k \in 1 .. Cardinality(K), j < k
  PROVE  Position(K, j) < Position(K, k)
<1> DEFINE p == Position(K, j)
           q == Position(K, k)
<1>1. p \in K /\ Rank(K, p) = j
  BY PositionOK
<1>2. q \in K /\ Rank(K, q) = k
  BY PositionOK
<1> HIDE DEF p, q
<1>3. p \in Int /\ q \in Int /\ p # q
  BY <1>1, <1>2
<1>4. ~(q < p)
  <2> SUFFICES ASSUME q < p PROVE FALSE
    OBVIOUS
  <2>1. Rank(K, q) < Rank(K, p)
    BY <1>1, <1>2, RankIncreases
  <2> QED BY <1>1, <1>2, <2>1
<1> QED BY <1>3, <1>4 DEF p, q

(* The kept elements, in order: an increasing list of the positions of K.  *)
LEMMA FilteredFacts ==
  ASSUME NEW S, NEW tabs \in Seq(S), NEW K \in SUBSET (1 .. Len(tabs))
  PROVE  /\ Filtered(tabs, K) \in Seq(S)
         /\ Len(Filtered(tabs, K)) = Cardinality(K)
         /\ Cardinality(K) \in Nat
         /\ \A k \in 1 .. Cardinality(K) :
              Position(K, k) \in K /\ Filtered(tabs, K)[k] = tabs[Position(K, k)]
         /\ \A j, k \in 1 .. Cardinality(K) : j < k => Position(K, j) < Position(K, k)
         /\ \A n \in K : \E k \in 1 .. Cardinality(K) : Position(K, k) = n
<1>0. Len(tabs) \in Nat
  BY LenProperties
<1>1. Cardinality(K) \in Nat
  BY <1>0, RankType
<1>2. \A k \in 1 .. Cardinality(K) : Position(K, k) \in K
  BY <1>0, PositionOK
<1>3. \A k \in 1 .. Cardinality(K) : tabs[Position(K, k)] \in S
  BY <1>2, ElementOfSeq
<1>4. /\ Filtered(tabs, K) \in Seq(S)
      /\ Len(Filtered(tabs, K)) = Cardinality(K)
  <2>1. Filtered(tabs, K) \in [1 .. Cardinality(K) -> S]
    BY <1>3 DEF Filtered
  <2> QED BY <1>1, <2>1
<1>5. \A k \in 1 .. Cardinality(K) : Filtered(tabs, K)[k] = tabs[Position(K, k)]
  BY DEF Filtered
<1>6. \A j, k \in 1 .. Cardinality(K) : j < k => Position(K, j) < Position(K, k)
  BY <1>0, PositionIncreases
<1>7. \A n \in K : \E k \in 1 .. Cardinality(K) : Position(K, k) = n
  BY <1>0, PositionRank
<1> QED BY <1>1, <1>2, <1>4, <1>5, <1>6, <1>7

-----------------------------------------------------------------------------
(* Lists of tabs.  Members keep their identity under every edit a method   *)
(* of the store makes: replace, append, remove and insert.                 *)

LEMMA Entries ==
  ASSUME NEW tabs \in Seq(Tab)
  PROVE  /\ Len(tabs) \in Nat
         /\ DOMAIN tabs = 1 .. Len(tabs)
         /\ \A n \in 1 .. Len(tabs) : tabs[n] \in Tab
BY LenProperties, ElementOfSeq

LEMMA TabFields ==
  ASSUME NEW t \in Tab
  PROVE  /\ t.id \in TabIds /\ t.path \in Path /\ t.pinned \in BOOLEAN
         /\ t.index \in Int /\ t.length \in Int /\ t.router \in Router
         /\ t.ref \in [index : Int, length : Int] /\ t.kept \in BOOLEAN /\ t.stray \in BOOLEAN
         /\ t.router.stack \in Seq(Path) /\ t.router.at \in 1 .. Len(t.router.stack)
         /\ Len(t.router.stack) \in Nat /\ t.router.at \in Nat
         /\ t.router = [stack |-> t.router.stack, at |-> t.router.at]
BY DEF Tab, Router

LEMMA ReplaceGood ==
  ASSUME NEW tabs, NEW w, NEW c, TabsGood(tabs, w, c),
         NEW at \in 1 .. Len(tabs), NEW t, TabGood(t, w, c),
         t.id = tabs[at].id, t.pinned = tabs[at].pinned,
         NEW new \in Seq(Tab), Len(new) = Len(tabs),
         \A n \in 1 .. Len(tabs) : new[n] = IF n = at THEN t ELSE tabs[n]
  PROVE  /\ TabsGood(new, w, c)
         /\ \A i : Has(new, i) <=> Has(tabs, i)
<1>2. /\ new \in Seq(Tab) /\ Len(new) = Len(tabs)
      /\ \A n \in 1 .. Len(tabs) : new[n] = IF n = at THEN t ELSE tabs[n]
  OBVIOUS
<1>3. \A n \in 1 .. Len(tabs) : new[n].id = tabs[n].id /\ new[n].pinned = tabs[n].pinned
  BY <1>2
<1>4. \A n \in 1 .. Len(tabs) : TabGood(new[n], w, c)
  BY <1>2 DEF TabsGood
<1>5. PinsFirst(new) /\ Distinct(new)
  BY <1>2, <1>3 DEF TabsGood, PinsFirst, Distinct
<1>6. \A i : Has(new, i) <=> Has(tabs, i)
  BY <1>2, <1>3 DEF Has
<1> QED BY <1>2, <1>4, <1>5, <1>6 DEF TabsGood

LEMMA AppendGood ==
  ASSUME NEW tabs, NEW w, NEW c, TabsGood(tabs, w, c),
         NEW t, TabGood(t, w, c), ~t.pinned, ~Has(tabs, t.id)
  PROVE  /\ TabsGood(Append(tabs, t), w, c)
         /\ Len(Append(tabs, t)) = Len(tabs) + 1
         /\ \A n \in 1 .. Len(tabs) : Append(tabs, t)[n] = tabs[n]
         /\ Append(tabs, t)[Len(tabs) + 1] = t
         /\ \A i : Has(Append(tabs, t), i) <=> Has(tabs, i) \/ i = t.id
<1> DEFINE new == Append(tabs, t)
<1>1. tabs \in Seq(Tab) /\ t \in Tab /\ Len(tabs) \in Nat
  BY Entries DEF TabsGood, TabGood
<1>2. /\ new \in Seq(Tab) /\ Len(new) = Len(tabs) + 1
      /\ \A n \in 1 .. Len(tabs) : new[n] = tabs[n]
      /\ new[Len(tabs) + 1] = t
  BY <1>1, AppendProperties
<1> HIDE DEF new
<1>3. 1 .. Len(new) = 1 .. Len(tabs) \cup {Len(tabs) + 1}
  BY <1>1, <1>2
<1>4. \A n \in 1 .. Len(new) : TabGood(new[n], w, c)
  BY <1>2, <1>3 DEF TabsGood
<1>5. PinsFirst(new)
  BY <1>1, <1>2, <1>3 DEF TabsGood, PinsFirst
<1>6. Distinct(new)
  BY <1>1, <1>2, <1>3 DEF TabsGood, Distinct, Has
<1>7. \A i : Has(new, i) <=> Has(tabs, i) \/ i = t.id
  BY <1>2, <1>3 DEF Has
<1> QED BY <1>2, <1>4, <1>5, <1>6, <1>7 DEF TabsGood, new

LEMMA SingleGood ==
  ASSUME NEW w, NEW c, NEW t, TabGood(t, w, c)
  PROVE  /\ TabsGood(<<t>>, w, c) /\ Len(<<t>>) = 1 /\ <<t>>[1] = t
         /\ \A i : Has(<<t>>, i) <=> i = t.id
<1>1. t \in Tab /\ <<t>> \in Seq(Tab) /\ Len(<<t>>) = 1 /\ <<t>>[1] = t
  BY DEF TabGood
<1>2. PinsFirst(<<t>>) /\ Distinct(<<t>>)
  BY <1>1 DEF PinsFirst, Distinct
<1> QED BY <1>1, <1>2 DEF TabsGood, Has

LEMMA RemoveFacts ==
  ASSUME NEW tabs \in Seq(Tab), NEW at \in 1 .. Len(tabs)
  PROVE  /\ RemoveAt(tabs, at) \in Seq(Tab)
         /\ Len(RemoveAt(tabs, at)) = Len(tabs) - 1
         /\ \A n \in 1 .. Len(tabs) - 1 :
              RemoveAt(tabs, at)[n] = IF n < at THEN tabs[n] ELSE tabs[n + 1]
<1> DEFINE a == SubSeq(tabs, 1, at - 1)
           b == SubSeq(tabs, at + 1, Len(tabs))
<1>1. Len(tabs) \in Nat /\ \A n \in 1 .. Len(tabs) : tabs[n] \in Tab
  BY Entries
<1>2. /\ a \in Seq(Tab) /\ Len(a) = at - 1
      /\ \A n \in 1 .. at - 1 : a[n] = tabs[n]
  <2>1. \A n \in 1 .. at - 1 : tabs[n] \in Tab
    BY <1>1
  <2>2. /\ a \in Seq(Tab) /\ Len(a) = (IF 1 <= at - 1 THEN at - 1 - 1 + 1 ELSE 0)
        /\ \A n \in 1 .. at - 1 - 1 + 1 : a[n] = tabs[1 + n - 1]
    BY <2>1, SubSeqProperties
  <2> QED BY <1>1, <2>2
<1>3. /\ b \in Seq(Tab) /\ Len(b) = Len(tabs) - at
      /\ \A n \in 1 .. Len(tabs) - at : b[n] = tabs[n + at]
  <2>1. \A n \in at + 1 .. Len(tabs) : tabs[n] \in Tab
    BY <1>1
  <2>2. /\ b \in Seq(Tab) /\ Len(b) = (IF at + 1 <= Len(tabs) THEN Len(tabs) - (at + 1) + 1 ELSE 0)
        /\ \A n \in 1 .. Len(tabs) - (at + 1) + 1 : b[n] = tabs[(at + 1) + n - 1]
    BY <1>1, <2>1, SubSeqProperties
  <2> QED BY <1>1, <2>2
<1> HIDE DEF a, b
<1>4. /\ a \o b \in Seq(Tab) /\ Len(a \o b) = Len(a) + Len(b)
      /\ \A n \in 1 .. Len(a) + Len(b) : (a \o b)[n] = IF n <= Len(a) THEN a[n] ELSE b[n - Len(a)]
  BY <1>2, <1>3, ConcatProperties
<1>5. RemoveAt(tabs, at) = a \o b
  BY DEF RemoveAt, a, b
<1>6. \A n \in 1 .. Len(tabs) - 1 : (a \o b)[n] = IF n < at THEN tabs[n] ELSE tabs[n + 1]
  <2> SUFFICES ASSUME NEW n \in 1 .. Len(tabs) - 1
               PROVE  (a \o b)[n] = IF n < at THEN tabs[n] ELSE tabs[n + 1]
    OBVIOUS
  <2>1. CASE n < at
    BY <1>1, <1>2, <1>3, <1>4, <2>1
  <2>2. CASE ~(n < at)
    <3>1. n - Len(a) \in 1 .. Len(tabs) - at /\ (n - Len(a)) + at = n + 1
      BY <1>1, <1>2, <2>2
    <3>2. (a \o b)[n] = b[n - Len(a)]
      BY <1>1, <1>2, <1>3, <1>4, <2>2
    <3> QED BY <1>3, <2>2, <3>1, <3>2
  <2> QED BY <2>1, <2>2
<1> QED BY <1>1, <1>2, <1>3, <1>4, <1>5, <1>6

LEMMA InsertFacts ==
  ASSUME NEW tabs \in Seq(Tab), NEW at \in 1 .. Len(tabs) + 1, NEW t \in Tab
  PROVE  /\ InsertAt(tabs, at, t) \in Seq(Tab)
         /\ Len(InsertAt(tabs, at, t)) = Len(tabs) + 1
         /\ \A n \in 1 .. Len(tabs) + 1 :
              InsertAt(tabs, at, t)[n] =
                IF n < at THEN tabs[n] ELSE IF n = at THEN t ELSE tabs[n - 1]
<1> DEFINE a == SubSeq(tabs, 1, at - 1)
           b == SubSeq(tabs, at, Len(tabs))
           c == <<t>>
<1>1. Len(tabs) \in Nat /\ \A n \in 1 .. Len(tabs) : tabs[n] \in Tab
  BY Entries
<1>2. /\ a \in Seq(Tab) /\ Len(a) = at - 1
      /\ \A n \in 1 .. at - 1 : a[n] = tabs[n]
  <2>1. \A n \in 1 .. at - 1 : tabs[n] \in Tab
    BY <1>1
  <2>2. /\ a \in Seq(Tab) /\ Len(a) = (IF 1 <= at - 1 THEN at - 1 - 1 + 1 ELSE 0)
        /\ \A n \in 1 .. at - 1 - 1 + 1 : a[n] = tabs[1 + n - 1]
    BY <1>1, <2>1, SubSeqProperties
  <2> QED BY <1>1, <2>2
<1>3. /\ b \in Seq(Tab) /\ Len(b) = Len(tabs) - at + 1
      /\ \A n \in 1 .. Len(tabs) - at + 1 : b[n] = tabs[n + at - 1]
  <2>1. \A n \in at .. Len(tabs) : tabs[n] \in Tab
    BY <1>1
  <2>2. /\ b \in Seq(Tab) /\ Len(b) = (IF at <= Len(tabs) THEN Len(tabs) - at + 1 ELSE 0)
        /\ \A n \in 1 .. Len(tabs) - at + 1 : b[n] = tabs[at + n - 1]
    BY <1>1, <2>1, SubSeqProperties
  <2> QED BY <1>1, <2>2
<1>4. c \in Seq(Tab) /\ Len(c) = 1 /\ c[1] = t
  OBVIOUS
<1> HIDE DEF a, b, c
<1>5. /\ a \o c \in Seq(Tab) /\ Len(a \o c) = Len(a) + Len(c)
      /\ \A n \in 1 .. Len(a) + Len(c) : (a \o c)[n] = IF n <= Len(a) THEN a[n] ELSE c[n - Len(a)]
  BY <1>2, <1>4, ConcatProperties
<1> DEFINE d == a \o c
<1>6. Len(d) = at /\ \A n \in 1 .. at : d[n] = IF n < at THEN tabs[n] ELSE t
  BY <1>1, <1>2, <1>4, <1>5
<1>7. d \in Seq(Tab)
  BY <1>5
<1> HIDE DEF d
<1>8. /\ d \o b \in Seq(Tab) /\ Len(d \o b) = Len(d) + Len(b)
      /\ \A n \in 1 .. Len(d) + Len(b) : (d \o b)[n] = IF n <= Len(d) THEN d[n] ELSE b[n - Len(d)]
  BY <1>3, <1>7, ConcatProperties
<1>9. InsertAt(tabs, at, t) = d \o b
  BY DEF InsertAt, a, b, c, d
<1>10. \A n \in 1 .. Len(tabs) + 1 : (d \o b)[n] =
          IF n < at THEN tabs[n] ELSE IF n = at THEN t ELSE tabs[n - 1]
  <2> SUFFICES ASSUME NEW n \in 1 .. Len(tabs) + 1
               PROVE  (d \o b)[n] = IF n < at THEN tabs[n] ELSE IF n = at THEN t ELSE tabs[n - 1]
    OBVIOUS
  <2>1. CASE n <= at
    BY <1>1, <1>3, <1>6, <1>8, <2>1
  <2>2. CASE ~(n <= at)
    <3>1. n - Len(d) \in 1 .. Len(tabs) - at + 1 /\ (n - Len(d)) + at - 1 = n - 1
      BY <1>1, <1>6, <2>2
    <3>0. n \in 1 .. Len(d) + Len(b) /\ ~(n <= Len(d))
      BY <1>1, <1>3, <1>6, <2>2
    <3>2. (d \o b)[n] = b[n - Len(d)]
      BY <1>8, <3>0
    <3>3. b[n - Len(d)] = tabs[(n - Len(d)) + at - 1]
      BY <1>3, <3>1
    <3>4. ~(n < at) /\ n # at
      BY <1>1, <2>2
    <3> QED BY <3>1, <3>2, <3>3, <3>4
  <2> QED BY <2>1, <2>2
<1> QED BY <1>1, <1>3, <1>6, <1>8, <1>9, <1>10

LEMMA RemoveGood ==
  ASSUME NEW tabs, NEW w, NEW c, TabsGood(tabs, w, c), NEW at \in 1 .. Len(tabs)
  PROVE  /\ TabsGood(RemoveAt(tabs, at), w, c)
         /\ Len(RemoveAt(tabs, at)) = Len(tabs) - 1
         /\ \A n \in 1 .. Len(tabs) - 1 :
              RemoveAt(tabs, at)[n] = IF n < at THEN tabs[n] ELSE tabs[n + 1]
         /\ \A i : Has(RemoveAt(tabs, at), i) <=> Has(tabs, i) /\ i # tabs[at].id
<1> DEFINE new == RemoveAt(tabs, at)
<1>1. tabs \in Seq(Tab) /\ Len(tabs) \in Nat
  BY Entries DEF TabsGood
<1>2. /\ new \in Seq(Tab) /\ Len(new) = Len(tabs) - 1
      /\ \A n \in 1 .. Len(tabs) - 1 : new[n] = IF n < at THEN tabs[n] ELSE tabs[n + 1]
  BY <1>1, RemoveFacts
<1> HIDE DEF new
<1> DEFINE from(n) == IF n < at THEN n ELSE n + 1
<1>3. \A n \in 1 .. Len(new) : from(n) \in 1 .. Len(tabs) /\ new[n] = tabs[from(n)] /\ from(n) # at
  <2> SUFFICES ASSUME NEW n \in 1 .. Len(new)
               PROVE  from(n) \in 1 .. Len(tabs) /\ new[n] = tabs[from(n)] /\ from(n) # at
    OBVIOUS
  <2>1. CASE n < at
    BY <1>1, <1>2, <2>1
  <2>2. CASE ~(n < at)
    BY <1>1, <1>2, <2>2
  <2> QED BY <2>1, <2>2
<1>4. \A k, n \in 1 .. Len(new) : /\ k < n => from(k) < from(n)
                                  /\ from(k) = from(n) => k = n
  BY <1>1, <1>2
<1>5. \A n \in 1 .. Len(tabs) : n # at => \E k \in 1 .. Len(new) : from(k) = n
  <2> SUFFICES ASSUME NEW n \in 1 .. Len(tabs), n # at PROVE \E k \in 1 .. Len(new) : from(k) = n
    OBVIOUS
  <2>1. CASE n < at
    BY <1>1, <1>2, <2>1
  <2>2. CASE ~(n < at)
    <3>1. n - 1 \in 1 .. Len(new) /\ from(n - 1) = n
      BY <1>1, <1>2, <2>2
    <3> QED BY <3>1
  <2> QED BY <2>1, <2>2
<1> HIDE DEF from
<1>6. \A n \in 1 .. Len(new) : TabGood(new[n], w, c)
  BY <1>3 DEF TabsGood
<1>7. PinsFirst(new) /\ Distinct(new)
  <2>1. PinsFirst(new)
    BY <1>3, <1>4 DEF TabsGood, PinsFirst
  <2>2. Distinct(new)
    BY <1>3, <1>4 DEF TabsGood, Distinct
  <2> QED BY <2>1, <2>2
<1>8. ASSUME NEW i PROVE Has(new, i) <=> Has(tabs, i) /\ i # tabs[at].id
  <2>1. ASSUME Has(new, i) PROVE Has(tabs, i) /\ i # tabs[at].id
    BY <2>1, <1>3 DEF Has, TabsGood, Distinct
  <2>2. ASSUME Has(tabs, i), i # tabs[at].id PROVE Has(new, i)
    <3>1. PICK n \in 1 .. Len(tabs) : tabs[n].id = i
      BY <2>2 DEF Has
    <3>2. PICK k \in 1 .. Len(new) : from(k) = n
      BY <1>5, <2>2, <3>1
    <3> QED BY <1>3, <3>1, <3>2 DEF Has
  <2> QED BY <2>1, <2>2
<1> QED BY <1>2, <1>6, <1>7, <1>8 DEF TabsGood, new

(* A tab may be inserted where its pin fits those around it.               *)
LEMMA InsertGood ==
  ASSUME NEW tabs, NEW w, NEW c, TabsGood(tabs, w, c),
         NEW at \in 1 .. Len(tabs) + 1, NEW t, TabGood(t, w, c), ~Has(tabs, t.id),
         t.pinned => \A n \in 1 .. at - 1 : tabs[n].pinned,
         ~t.pinned => \A n \in at .. Len(tabs) : ~tabs[n].pinned
  PROVE  /\ TabsGood(InsertAt(tabs, at, t), w, c)
         /\ Len(InsertAt(tabs, at, t)) = Len(tabs) + 1
         /\ \A n \in 1 .. Len(tabs) + 1 :
              InsertAt(tabs, at, t)[n] =
                IF n < at THEN tabs[n] ELSE IF n = at THEN t ELSE tabs[n - 1]
         /\ \A i : Has(InsertAt(tabs, at, t), i) <=> Has(tabs, i) \/ i = t.id
<1> DEFINE new == InsertAt(tabs, at, t)
<1>1. tabs \in Seq(Tab) /\ Len(tabs) \in Nat /\ t \in Tab
  BY Entries DEF TabsGood, TabGood
<1>2. /\ new \in Seq(Tab) /\ Len(new) = Len(tabs) + 1
      /\ \A n \in 1 .. Len(tabs) + 1 :
           new[n] = IF n < at THEN tabs[n] ELSE IF n = at THEN t ELSE tabs[n - 1]
  BY <1>1, InsertFacts
<1> HIDE DEF new
<1> DEFINE from(n) == IF n < at THEN n ELSE n - 1
<1>3. /\ new[at] = t
      /\ \A n \in 1 .. Len(new) : n # at => from(n) \in 1 .. Len(tabs) /\ new[n] = tabs[from(n)]
  BY <1>1, <1>2
<1>4. \A k, n \in 1 .. Len(new) :
        k # at /\ n # at => /\ (k < n => from(k) < from(n))
                            /\ (from(k) = from(n) => k = n)
  BY <1>1, <1>2
<1>5. \A n \in 1 .. Len(tabs) : \E k \in 1 .. Len(new) : k # at /\ from(k) = n
  <2> SUFFICES ASSUME NEW n \in 1 .. Len(tabs) PROVE \E k \in 1 .. Len(new) : k # at /\ from(k) = n
    OBVIOUS
  <2>1. CASE n < at
    BY <1>1, <1>2, <2>1
  <2>2. CASE ~(n < at)
    <3>1. n + 1 \in 1 .. Len(new) /\ n + 1 # at /\ from(n + 1) = n
      BY <1>1, <1>2, <2>2
    <3> QED BY <3>1
  <2> QED BY <2>1, <2>2
<1>6. \A n \in 1 .. Len(new) : TabGood(new[n], w, c)
  BY <1>3 DEF TabsGood
<1>7. PinsFirst(new)
  <2> SUFFICES ASSUME NEW k \in 1 .. Len(new), NEW n \in 1 .. Len(new), k < n, new[n].pinned
               PROVE  new[k].pinned
    BY DEF PinsFirst
  <2>1. CASE k # at /\ n # at
    <3>1. from(k) < from(n) /\ from(k) \in 1 .. Len(tabs) /\ from(n) \in 1 .. Len(tabs)
      BY <1>3, <1>4, <2>1
    <3>2. new[k] = tabs[from(k)] /\ new[n] = tabs[from(n)]
      BY <1>3, <2>1
    <3> HIDE DEF from
    <3> QED BY <3>1, <3>2 DEF TabsGood, PinsFirst
  <2>2. CASE n = at
    <3>1. from(k) = k /\ k \in 1 .. at - 1
      BY <1>1, <1>2, <2>2
    <3> QED BY <1>3, <2>2, <3>1
  <2>3. CASE k = at
    <3>1. from(n) = n - 1 /\ n - 1 \in at .. Len(tabs) /\ n # at
      BY <1>1, <1>2, <2>3
    <3>2. t.pinned
      BY <1>3, <3>1
    <3> QED BY <1>3, <2>3, <3>2
  <2> QED BY <2>1, <2>2, <2>3
<1> HIDE DEF from
<1>8. Distinct(new)
  <2>1. \A n \in 1 .. Len(new) : n # at => new[n].id # t.id
    BY <1>3 DEF Has
  <2> SUFFICES ASSUME NEW k \in 1 .. Len(new), NEW n \in 1 .. Len(new), new[k].id = new[n].id
               PROVE  k = n
    BY DEF Distinct
  <2>2. CASE k # at /\ n # at
    BY <1>3, <1>4, <2>2 DEF TabsGood, Distinct
  <2>3. CASE k = at \/ n = at
    BY <1>3, <2>1, <2>3
  <2> QED BY <2>2, <2>3
<1>9. ASSUME NEW i PROVE Has(new, i) <=> Has(tabs, i) \/ i = t.id
  <2>1. ASSUME Has(new, i) PROVE Has(tabs, i) \/ i = t.id
    BY <2>1, <1>3 DEF Has
  <2>2. ASSUME Has(tabs, i) PROVE Has(new, i)
    <3>1. PICK n \in 1 .. Len(tabs) : tabs[n].id = i
      BY <2>2 DEF Has
    <3>2. PICK k \in 1 .. Len(new) : k # at /\ from(k) = n
      BY <1>5, <3>1
    <3> QED BY <1>3, <3>1, <3>2 DEF Has
  <2>3. Has(new, t.id)
    <3>1. at \in 1 .. Len(new)
      BY <1>2
    <3> QED BY <1>3, <3>1 DEF Has
  <2> QED BY <2>1, <2>2, <2>3
<1> QED BY <1>2, <1>6, <1>7, <1>8, <1>9 DEF TabsGood, new

-----------------------------------------------------------------------------
(* What the searches of the store find.                                    *)

LEMMA PrefixCount ==
  ASSUME NEW L \in Nat, NEW K \in SUBSET (1 .. L),
         \A m, n \in 1 .. L : m < n /\ n \in K => m \in K
  PROVE  Cardinality(K) \in 0 .. L /\ K = 1 .. Cardinality(K)
<1>1. Cardinality(K) \in Nat /\ IsFiniteSet(K)
  BY RankType
<1>2. K \subseteq 1 .. Cardinality(K)
  <2> SUFFICES ASSUME NEW n \in K PROVE n \in 1 .. Cardinality(K)
    OBVIOUS
  <2>1. K \cap 1 .. n = 1 .. n
    OBVIOUS
  <2>2. Cardinality(1 .. n) = n
    <3>1. Cardinality(1 .. n) = IF 1 > n THEN 0 ELSE n - 1 + 1
      BY FS_Interval
    <3> QED BY <3>1
  <2>3. Rank(K, n) = n
    BY <2>1, <2>2 DEF Rank
  <2>4. Rank(K, n) \in 1 .. Cardinality(K)
    BY RankType
  <2> QED BY <2>3, <2>4
<1>3. IsFiniteSet(1 .. Cardinality(K)) /\ Cardinality(1 .. Cardinality(K)) = Cardinality(K)
  <2>1. /\ IsFiniteSet(1 .. Cardinality(K))
        /\ Cardinality(1 .. Cardinality(K)) = IF 1 > Cardinality(K) THEN 0 ELSE Cardinality(K) - 1 + 1
    BY <1>1, FS_Interval
  <2> QED BY <1>1, <2>1
<1>4. K = 1 .. Cardinality(K)
  BY <1>2, <1>3, FS_Subset
<1>5. Cardinality(K) <= L
  <2>1. CASE Cardinality(K) = 0
    BY <2>1
  <2>2. CASE Cardinality(K) # 0
    <3>1. Cardinality(K) \in 1 .. Cardinality(K)
      BY <1>1, <2>2
    <3>2. Cardinality(K) \in 1 .. L
      BY <1>4, <3>1, Zenon
    <3> QED BY <3>2
  <2> QED BY <2>1, <2>2
<1> QED BY <1>1, <1>4, <1>5

LEMMA PinnedCountOK ==
  ASSUME NEW tabs \in Seq(Tab), PinsFirst(tabs)
  PROVE  /\ PinnedCount(tabs) \in 0 .. Len(tabs)
         /\ \A n \in 1 .. PinnedCount(tabs) : tabs[n].pinned
         /\ \A n \in PinnedCount(tabs) + 1 .. Len(tabs) : ~tabs[n].pinned
<1> DEFINE K == {n \in 1 .. Len(tabs) : tabs[n].pinned}
           c == Cardinality(K)
           p == PinnedCount(tabs)
           Fits(n) == /\ \A m \in 1 .. n : tabs[m].pinned
                      /\ n < Len(tabs) => ~tabs[n + 1].pinned
<1>1. Len(tabs) \in Nat
  BY Entries
<1>2. c \in 0 .. Len(tabs) /\ K = 1 .. c
  <2>1. \A m, n \in 1 .. Len(tabs) : m < n /\ n \in K => m \in K
    BY DEF PinsFirst
  <2>2. K \in SUBSET (1 .. Len(tabs))
    OBVIOUS
  <2> HIDE DEF K
  <2> QED BY <1>1, <2>1, <2>2, PrefixCount
<1>3. \A n \in 1 .. Len(tabs) : tabs[n].pinned <=> n \in 1 .. c
  <2>1. \A n \in 1 .. Len(tabs) : tabs[n].pinned <=> n \in K
    OBVIOUS
  <2> HIDE DEF K
  <2> QED BY <1>2, <2>1
<1> HIDE DEF K, c
<1>4. Fits(c)
  BY <1>1, <1>2, <1>3
<1>5. p \in 0 .. Len(tabs) /\ Fits(p)
  <2>1. \E n \in 0 .. Len(tabs) : Fits(n)
    BY <1>2, <1>4
  <2> QED BY <2>1 DEF PinnedCount
<1> HIDE DEF p
<1>6. \A n \in p + 1 .. Len(tabs) : ~tabs[n].pinned
  <2> SUFFICES ASSUME NEW n \in p + 1 .. Len(tabs), tabs[n].pinned PROVE FALSE
    OBVIOUS
  <2>1. p + 1 \in 1 .. Len(tabs) /\ ~tabs[p + 1].pinned
    BY <1>1, <1>5
  <2>2. n = p + 1 \/ p + 1 < n
    BY <1>5
  <2>3. n \in 1 .. Len(tabs)
    BY <1>1, <1>5
  <2> QED BY <2>1, <2>2, <2>3 DEF PinsFirst
<1> QED BY <1>5, <1>6 DEF p

LEMMA FirstAtOK ==
  ASSUME NEW tabs \in Seq(Tab), NEW p, ShowsPath(tabs, p)
  PROVE  FirstAt(tabs, p) \in 1 .. Len(tabs) /\ tabs[FirstAt(tabs, p)].path = p
<1> DEFINE K == {n \in 1 .. Len(tabs) : tabs[n].path = p}
           f == Position(K, 1)
<1>1. Len(tabs) \in Nat /\ DOMAIN tabs = 1 .. Len(tabs)
  BY Entries
<1>2. K \in SUBSET (1 .. Len(tabs)) /\ K # {}
  BY <1>1 DEF ShowsPath
<1>3. \A n \in 1 .. Len(tabs) : n \in K <=> tabs[n].path = p
  OBVIOUS
<1> HIDE DEF K
<1>4. 1 \in 1 .. Cardinality(K) /\ Cardinality(K) \in Nat
  <2>1. PICK n : n \in K
    BY <1>2
  <2>2. Cardinality(K) \in Nat /\ Rank(K, n) \in 1 .. Cardinality(K)
    BY <1>1, <1>2, <2>1, RankType
  <2> QED BY <2>2
<1>5. f \in K
  BY <1>1, <1>2, <1>4, PositionOK
<1>8. f \in 1 .. Len(tabs)
  BY <1>2, <1>5
<1>9. f = Position(K, 1)
  OBVIOUS
<1> HIDE DEF f
<1>6. \A m \in 1 .. f - 1 : m \notin K
  <2> SUFFICES ASSUME NEW m \in 1 .. f - 1, m \in K PROVE FALSE
    OBVIOUS
  <2>1. Rank(K, m) \in 1 .. Cardinality(K) /\ Position(K, Rank(K, m)) = m
    BY <1>1, <1>2, PositionRank
  <2>2. Rank(K, m) = 1 \/ 1 < Rank(K, m)
    BY <1>4, <2>1
  <2>3. m \in Int /\ f \in Int /\ m < f
    BY <1>1, <1>8
  <2>4. CASE Rank(K, m) = 1
    <3>1. m = f
      BY <1>9, <2>1, <2>4
    <3> QED BY <2>3, <3>1
  <2>5. CASE 1 < Rank(K, m)
    <3>1. Position(K, 1) < Position(K, Rank(K, m))
      BY <1>1, <1>2, <1>4, <2>1, <2>5, PositionIncreases
    <3> QED BY <1>9, <2>1, <2>3, <3>1
  <2> QED BY <2>2, <2>4, <2>5
<1>7. f \in DOMAIN tabs /\ tabs[f].path = p /\ \A m \in 1 .. f - 1 : tabs[m].path # p
  <2>2. \A m \in 1 .. f - 1 : m \in 1 .. Len(tabs)
    BY <1>1, <1>8
  <2> QED BY <1>1, <1>3, <1>5, <1>6, <1>8, <2>2
<1> QED BY <1>1, <1>7 DEF FirstAt

LEMMA PositionOfOK ==
  ASSUME NEW tabs \in Seq(Tab), NEW i
  PROVE  /\ Has(tabs, i) => PositionOf(tabs, i) \in 1 .. Len(tabs) /\ tabs[PositionOf(tabs, i)].id = i
         /\ Distinct(tabs) => \A n \in 1 .. Len(tabs) : tabs[n].id = i => PositionOf(tabs, i) = n
<1>1. DOMAIN tabs = 1 .. Len(tabs)
  BY Entries
<1>2. Has(tabs, i) => PositionOf(tabs, i) \in 1 .. Len(tabs) /\ tabs[PositionOf(tabs, i)].id = i
  BY <1>1 DEF Has, PositionOf
<1>3. ASSUME Distinct(tabs), NEW n \in 1 .. Len(tabs), tabs[n].id = i PROVE PositionOf(tabs, i) = n
  BY <1>2, <1>3 DEF Has, Distinct
<1> QED BY <1>2, <1>3

LEMMA GroupFacts ==
  ASSUME NEW s, NEW c, StoreGood(s, c), NEW w \in DOMAIN s.by
  PROVE  /\ w \in Slugs
         /\ s.by[w] = [tabs |-> s.by[w].tabs, active |-> s.by[w].active]
         /\ TabsGood(s.by[w].tabs, w, c)
         /\ s.by[w].tabs \in Seq(Tab)
         /\ Len(s.by[w].tabs) \in Nat
         /\ DOMAIN s.by[w].tabs = 1 .. Len(s.by[w].tabs)
         /\ PinsFirst(s.by[w].tabs)
         /\ Distinct(s.by[w].tabs)
         /\ Has(s.by[w].tabs, s.by[w].active)
         /\ \A n \in 1 .. Len(s.by[w].tabs) :
              s.by[w].tabs[n] \in Tab /\ TabGood(s.by[w].tabs[n], w, c)
<1>1. w \in Slugs /\ GroupGood(s.by[w], w, c)
  BY DEF StoreGood
<1>2. s.by[w].tabs \in Seq(Tab)
  BY <1>1 DEF GroupGood, TabsGood
<1>3. Len(s.by[w].tabs) \in Nat /\ DOMAIN s.by[w].tabs = 1 .. Len(s.by[w].tabs)
  BY <1>2, Entries
<1> QED BY <1>1, <1>2, <1>3 DEF GroupGood, TabsGood, TabGood

LEMMA TabsInOK ==
  ASSUME NEW s, NEW c, StoreGood(s, c), NEW t
  PROVE  t \in TabsIn(s) <=> \E w \in DOMAIN s.by : \E n \in 1 .. Len(s.by[w].tabs) : t = s.by[w].tabs[n]
<1>1. \A w \in DOMAIN s.by : ToSet(s.by[w].tabs) = {s.by[w].tabs[n] : n \in 1 .. Len(s.by[w].tabs)}
  BY GroupFacts DEF ToSet
<1> QED BY <1>1 DEF TabsIn

LEMMA TabIn ==
  ASSUME NEW s, NEW c, StoreGood(s, c), NEW w \in DOMAIN s.by, NEW n \in 1 .. Len(s.by[w].tabs)
  PROVE  s.by[w].tabs[n] \in TabsIn(s)
BY TabsInOK

LEMMA HoldsOK ==
  ASSUME NEW s, NEW c, StoreGood(s, c), NEW i
  PROVE  /\ \A w \in DOMAIN s.by : Lists(s.by[w].tabs, i) <=> Has(s.by[w].tabs, i)
         /\ Holds(s, i) <=> \E w \in DOMAIN s.by : Has(s.by[w].tabs, i)
<1>1. \A w \in DOMAIN s.by : Lists(s.by[w].tabs, i) <=> Has(s.by[w].tabs, i)
  BY GroupFacts DEF Lists, Has
<1> QED BY <1>1 DEF Holds

LEMMA FreshOK ==
  ASSUME NEW s, NEW c, StoreGood(s, c), {i \in TabIds : Fresh(s, i)} # {}
  PROVE  FreshId(s) \in TabIds /\ \A w \in DOMAIN s.by : ~Has(s.by[w].tabs, FreshId(s))
<1>1. FreshId(s) \in TabIds /\ Fresh(s, FreshId(s))
  BY DEF FreshId
<1> QED BY <1>1, HoldsOK DEF Fresh

(* A tab is in one group, at one place.                                    *)
LEMMA Located ==
  ASSUME NEW s, NEW c, StoreGood(s, c), NEW w \in DOMAIN s.by, NEW n \in 1 .. Len(s.by[w].tabs)
  PROVE  /\ Owner(s, s.by[w].tabs[n].id) = w
         /\ PositionOf(s.by[w].tabs, s.by[w].tabs[n].id) = n
         /\ TabOf(s, s.by[w].tabs[n].id) = s.by[w].tabs[n]
         /\ Holds(s, s.by[w].tabs[n].id)
<1> DEFINE i == s.by[w].tabs[n].id
<1>1. \A x \in DOMAIN s.by : \A k \in 1 .. Len(s.by[x].tabs) :
        s.by[x].tabs[k].id = i => x = w /\ k = n
  <2> SUFFICES ASSUME NEW x \in DOMAIN s.by, NEW k \in 1 .. Len(s.by[x].tabs),
                      s.by[x].tabs[k].id = i
               PROVE  x = w /\ k = n
    OBVIOUS
  <2>1. x = w
    BY DEF StoreGood, Apart
  <2>2. Distinct(s.by[w].tabs)
    BY GroupFacts
  <2> QED BY <2>1, <2>2 DEF Distinct
<1>2. \A x \in DOMAIN s.by : Lists(s.by[x].tabs, i) <=> x = w
  <2>1. \A x \in DOMAIN s.by : Lists(s.by[x].tabs, i) <=> Has(s.by[x].tabs, i)
    BY HoldsOK
  <2>2. \A x \in DOMAIN s.by : Has(s.by[x].tabs, i) => x = w
    BY <1>1 DEF Has
  <2>3. Has(s.by[w].tabs, i)
    BY DEF Has
  <2> QED BY <2>1, <2>2, <2>3
<1>3. Owner(s, i) = w
  BY <1>2 DEF Owner
<1>4. PositionOf(s.by[w].tabs, i) = n
  <2>1. s.by[w].tabs \in Seq(Tab) /\ Distinct(s.by[w].tabs)
    BY GroupFacts
  <2> QED BY <2>1, PositionOfOK
<1>5. Holds(s, i)
  BY HoldsOK DEF Has
<1>6. TabOf(s, i) = s.by[w].tabs[n]
  BY <1>3, <1>4 DEF TabOf
<1> QED BY <1>3, <1>4, <1>5, <1>6

LEMMA Found ==
  ASSUME NEW s, NEW c, StoreGood(s, c), NEW i, Holds(s, i)
  PROVE  /\ Owner(s, i) \in DOMAIN s.by
         /\ PositionOf(s.by[Owner(s, i)].tabs, i) \in 1 .. Len(s.by[Owner(s, i)].tabs)
         /\ TabOf(s, i) = s.by[Owner(s, i)].tabs[PositionOf(s.by[Owner(s, i)].tabs, i)]
         /\ TabOf(s, i).id = i
         /\ Has(s.by[Owner(s, i)].tabs, i)
<1>0. PICK w \in DOMAIN s.by : Has(s.by[w].tabs, i)
  BY HoldsOK
<1>1. PICK n \in 1 .. Len(s.by[w].tabs) : s.by[w].tabs[n].id = i
  BY <1>0 DEF Has
<1>2. Owner(s, i) = w /\ PositionOf(s.by[w].tabs, i) = n /\ TabOf(s, i) = s.by[w].tabs[n]
  BY <1>1, Located
<1> QED BY <1>1, <1>2 DEF Has

-----------------------------------------------------------------------------
(* Methods write one group.  Descends says that its tabs are new or those  *)
(* it had before, with the same router; Covers says so of whole stores.    *)

Descends(s, w, tabs) ==
  \A n \in 1 .. Len(tabs) :
    \/ \A x \in DOMAIN s.by : ~Has(s.by[x].tabs, tabs[n].id)
    \/ /\ w \in DOMAIN s.by
       /\ \E k \in 1 .. Len(s.by[w].tabs) :
            s.by[w].tabs[k].id = tabs[n].id /\ s.by[w].tabs[k].router = tabs[n].router

Shadows(s, s2) == \A u \in TabsIn(s2) : \E t \in TabsIn(s) : t.id = u.id /\ t.router = u.router
Covers(s, s2) ==
  \A u \in TabsIn(s2) : \/ \E t \in TabsIn(s) : t.id = u.id /\ t.router = u.router
                        \/ \A t \in TabsIn(s) : t.id # u.id

LEMMA WithGroupGood ==
  ASSUME NEW s, NEW c, StoreGood(s, c), NEW w \in Slugs, NEW ws \in DOMAIN s.by \cup {w},
         NEW tabs, TabsGood(tabs, w, c), NEW active, Has(tabs, active),
         \A i : Has(tabs, i) => \/ w \in DOMAIN s.by /\ Has(s.by[w].tabs, i)
                                \/ \A x \in DOMAIN s.by : ~Has(s.by[x].tabs, i)
  PROVE  /\ StoreGood(WithGroup(s, ws, w, tabs, active), c)
         /\ WithGroup(s, ws, w, tabs, active).ws = ws
         /\ DOMAIN WithGroup(s, ws, w, tabs, active).by = DOMAIN s.by \cup {w}
         /\ WithGroup(s, ws, w, tabs, active).by[w] = [tabs |-> tabs, active |-> active]
         /\ \A x \in DOMAIN s.by \ {w} : WithGroup(s, ws, w, tabs, active).by[x] = s.by[x]
<1> DEFINE g == [tabs |-> tabs, active |-> active]
           r == WithGroup(s, ws, w, tabs, active)
<1>1. r = [ws |-> r.ws, by |-> r.by] /\ r.ws = ws /\ r.by = Put(s.by, w, g)
  BY DEF WithGroup
<1>2. /\ DOMAIN r.by = DOMAIN s.by \cup {w} /\ r.by[w] = g
      /\ \A x \in DOMAIN s.by \ {w} : r.by[x] = s.by[x]
      /\ r.by = [x \in DOMAIN r.by |-> r.by[x]]
  BY <1>1 DEF Put
<1>3. GroupGood(g, w, c)
  BY DEF GroupGood
<1>4. g.tabs = tabs
  OBVIOUS
<1> HIDE DEF r, g
<1>5. \A x \in DOMAIN r.by : GroupGood(r.by[x], x, c)
  BY <1>2, <1>3 DEF StoreGood
<1>6. Apart(r.by)
  <2> SUFFICES ASSUME NEW x \in DOMAIN r.by, NEW y \in DOMAIN r.by, x # y, NEW i,
                      Has(r.by[x].tabs, i), Has(r.by[y].tabs, i)
               PROVE  FALSE
    BY DEF Apart, Has
  <2>1. \A z, v \in DOMAIN s.by : z # v => ~(Has(s.by[z].tabs, i) /\ Has(s.by[v].tabs, i))
    BY DEF StoreGood, Apart, Has
  <2>2. CASE x # w /\ y # w
    BY <1>2, <2>1, <2>2
  <2>3. CASE x = w
    <3>1. Has(tabs, i) /\ y \in DOMAIN s.by /\ y # w /\ Has(s.by[y].tabs, i)
      BY <1>2, <1>4, <2>3
    <3> QED BY <2>1, <3>1
  <2>4. CASE y = w
    <3>1. Has(tabs, i) /\ x \in DOMAIN s.by /\ x # w /\ Has(s.by[x].tabs, i)
      BY <1>2, <1>4, <2>4
    <3> QED BY <2>1, <3>1
  <2> QED BY <2>2, <2>3, <2>4
<1>7. DOMAIN r.by \subseteq Slugs /\ DOMAIN r.by # {} /\ r.ws \in DOMAIN r.by
  BY <1>1, <1>2 DEF StoreGood
<1>8. StoreGood(r, c)
  BY <1>1, <1>2, <1>5, <1>6, <1>7 DEF StoreGood
<1> QED BY <1>1, <1>2, <1>8 DEF r, g

LEMMA WithGroupCovers ==
  ASSUME NEW s, NEW c, StoreGood(s, c), NEW w \in Slugs, NEW ws \in DOMAIN s.by \cup {w},
         NEW tabs, TabsGood(tabs, w, c), NEW active, Has(tabs, active), Descends(s, w, tabs)
  PROVE  /\ StoreGood(WithGroup(s, ws, w, tabs, active), c)
         /\ Covers(s, WithGroup(s, ws, w, tabs, active))
<1> DEFINE r == WithGroup(s, ws, w, tabs, active)
<1>1. \A i : Has(tabs, i) => \/ w \in DOMAIN s.by /\ Has(s.by[w].tabs, i)
                             \/ \A x \in DOMAIN s.by : ~Has(s.by[x].tabs, i)
  BY DEF Descends, Has
<1>2. /\ StoreGood(r, c)
      /\ DOMAIN r.by = DOMAIN s.by \cup {w}
      /\ r.by[w] = [tabs |-> tabs, active |-> active]
      /\ \A x \in DOMAIN s.by \ {w} : r.by[x] = s.by[x]
  BY <1>1, WithGroupGood
<1> HIDE DEF r
<1>3. ASSUME NEW u \in TabsIn(r)
      PROVE  \/ \E t \in TabsIn(s) : t.id = u.id /\ t.router = u.router
             \/ \A t \in TabsIn(s) : t.id # u.id
  <2>1. PICK x \in DOMAIN r.by : \E n \in 1 .. Len(r.by[x].tabs) : u = r.by[x].tabs[n]
    BY <1>2, TabsInOK
  <2>2. CASE x # w
    <3>1. u \in TabsIn(s)
      BY <1>2, <2>1, <2>2, TabsInOK
    <3> QED BY <3>1
  <2>3. CASE x = w
    <3>1. PICK n \in 1 .. Len(tabs) : u = tabs[n]
      BY <1>2, <2>1, <2>3
    <3>2. CASE \A y \in DOMAIN s.by : ~Has(s.by[y].tabs, tabs[n].id)
      BY <3>1, <3>2, TabsInOK DEF Has
    <3>3. CASE /\ w \in DOMAIN s.by
               /\ \E k \in 1 .. Len(s.by[w].tabs) :
                    s.by[w].tabs[k].id = tabs[n].id /\ s.by[w].tabs[k].router = tabs[n].router
      BY <3>1, <3>3, TabsInOK
    <3> QED BY <3>2, <3>3 DEF Descends
  <2> QED BY <2>2, <2>3
<1> QED BY <1>2, <1>3 DEF Covers, r

LEMMA ActiveOK ==
  ASSUME NEW s, NEW c, StoreGood(s, c), s.ws # None
  PROVE  /\ s.ws \in DOMAIN s.by /\ s.ws \in Slugs
         /\ Holds(s, ActiveId(s))
         /\ Owner(s, ActiveId(s)) = s.ws
         /\ TabOf(s, ActiveId(s)).id = ActiveId(s)
<1>1. s.ws \in DOMAIN s.by /\ s.ws \in Slugs
  BY DEF StoreGood
<1>2. PICK n \in 1 .. Len(s.by[s.ws].tabs) : s.by[s.ws].tabs[n].id = ActiveId(s)
  BY <1>1, GroupFacts DEF Has, ActiveId
<1> QED BY <1>1, <1>2, Located

LEMMA MakeTabGood ==
  ASSUME NEW i \in TabIds, NEW p \in Path, NEW w, NEW c, p.ws = w \/ i \in c.but
  PROVE  /\ TabGood(MakeTab(i, p), w, c)
         /\ MakeTab(i, p).id = i /\ ~MakeTab(i, p).pinned /\ MakeTab(i, p).path = p
<1> DEFINE t == MakeTab(i, p)
<1>1. /\ t.id = i /\ t.path = p /\ t.pinned = FALSE /\ t.index = 0 /\ t.length = 1
      /\ t.router = NewRouter(p) /\ t.ref = NewRef /\ t.kept = TRUE /\ t.stray = FALSE
  BY DEF MakeTab
<1>2. /\ <<p>> \in Seq(Path) /\ Len(<<p>>) = 1 /\ <<p>>[1] = p
  OBVIOUS
<1>3. NewRouter(p) \in Router /\ NewRouter(p).stack = <<p>> /\ NewRouter(p).at = 1
  BY <1>2 DEF NewRouter, Router
<1>4. NewRef \in [index : Int, length : Int] /\ NewRef.index = 0 /\ NewRef.length = 1
  BY DEF NewRef
<1>5. t \in Tab
  BY <1>3, <1>4 DEF MakeTab, Tab
<1> HIDE DEF t
<1>6. p.ws = w => AtHome(t, w)
  BY <1>1, <1>2, <1>3 DEF AtHome
<1>7. Trail(t) /\ Counted(t)
  BY <1>1, <1>2, <1>3, <1>4 DEF Trail, Counted
<1> QED BY <1>1, <1>5, <1>6, <1>7 DEF TabGood, t

LEMMA DefaultPathOK ==
  ASSUME NEW w \in Slugs
  PROVE  DefaultPath(w) \in Path /\ DefaultPath(w).ws = w /\ Sane(DefaultPath(w))
BY HomeAssumption, NoneAssumption DEF DefaultPath, Path, Sane

LEMMA SaneOK ==
  ASSUME NEW p \in Path, Sane(p)
  PROVE  p.ws \in Slugs
BY DEF Path, Sane, Root

(* The same store in another context: what changes is per tab.             *)
LEMMA Recontext ==
  ASSUME NEW s, NEW c, StoreGood(s, c), NEW d,
         \A w \in DOMAIN s.by : \A n \in 1 .. Len(s.by[w].tabs) : TabGood(s.by[w].tabs[n], w, d)
  PROVE  StoreGood(s, d)
BY DEF StoreGood, GroupGood, TabsGood

-----------------------------------------------------------------------------
(* The pinned tab in view.  Parks: from t to u the history does not grow   *)
(* by another page; Steady: no step from s to s2 makes the visible pinned  *)
(* tab leave its page by a push.                                           *)

Parks(t, u) ==
  u.router.at > t.router.at /\ u.router.stack # t.router.stack
    => Location(u.router) = Location(t.router)

Steady(s, s2) ==
  s.ws # None =>
    \A t \in TabsIn(s) : t.id = ActiveId(s) /\ t.pinned =>
      \A u \in TabsIn(s2) : u.id = t.id => Parks(t, u)

(* Ids are not shared, so tabs of one id are one tab.                      *)
LEMMA SameTab ==
  ASSUME NEW s, NEW c, StoreGood(s, c), NEW t \in TabsIn(s), NEW u \in TabsIn(s), t.id = u.id
  PROVE  t = u
<1>1. PICK w \in DOMAIN s.by : \E n \in 1 .. Len(s.by[w].tabs) : t = s.by[w].tabs[n]
  BY TabsInOK
<1>2. PICK x \in DOMAIN s.by : \E n \in 1 .. Len(s.by[x].tabs) : u = s.by[x].tabs[n]
  BY TabsInOK
<1>3. TabOf(s, t.id) = t
  BY <1>1, Located
<1>4. TabOf(s, u.id) = u
  BY <1>2, Located
<1> QED BY <1>3, <1>4

LEMMA CoversSteady ==
  ASSUME NEW s, NEW c, StoreGood(s, c), NEW s2, Covers(s, s2)
  PROVE  Steady(s, s2)
<1> SUFFICES ASSUME NEW t \in TabsIn(s), NEW u \in TabsIn(s2), u.id = t.id
             PROVE  u.router = t.router
  BY DEF Steady, Parks
<1>1. PICK v \in TabsIn(s) : v.id = u.id /\ v.router = u.router
  BY DEF Covers
<1>2. v = t
  BY <1>1, SameTab
<1> QED BY <1>1, <1>2

LEMMA CoversThen ==
  ASSUME NEW s, NEW s2, NEW s3, Covers(s, s2), Shadows(s2, s3)
  PROVE  Covers(s, s3)
<1> SUFFICES ASSUME NEW u \in TabsIn(s3)
             PROVE  \/ \E t \in TabsIn(s) : t.id = u.id /\ t.router = u.router
                    \/ \A t \in TabsIn(s) : t.id # u.id
  BY DEF Covers
<1>1. PICK v \in TabsIn(s2) : v.id = u.id /\ v.router = u.router
  BY DEF Shadows
<1> QED BY <1>1 DEF Covers

LEMMA SteadyThen ==
  ASSUME NEW s, NEW s2, NEW s3, Steady(s, s2), Shadows(s2, s3)
  PROVE  Steady(s, s3)
<1> SUFFICES ASSUME s.ws # None, NEW t \in TabsIn(s), t.id = ActiveId(s), t.pinned,
                    NEW u \in TabsIn(s3), u.id = t.id
             PROVE  Parks(t, u)
  BY DEF Steady
<1>1. PICK v \in TabsIn(s2) : v.id = u.id /\ v.router = u.router
  BY DEF Shadows
<1>2. Parks(t, v)
  BY <1>1 DEF Steady
<1> QED BY <1>1, <1>2 DEF Parks

-----------------------------------------------------------------------------
(* Replacing a tab by one of the same id and pin.                          *)

LEMMA SetTabGood ==
  ASSUME NEW s, NEW c, StoreGood(s, c), NEW t, Holds(s, t.id),
         t.pinned = TabOf(s, t.id).pinned, TabGood(t, Owner(s, t.id), c)
  PROVE  /\ StoreGood(SetTab(s, t.id, t), c)
         /\ SetTab(s, t.id, t).ws = s.ws
         /\ DOMAIN SetTab(s, t.id, t).by = DOMAIN s.by
         /\ \A w \in DOMAIN s.by :
              /\ SetTab(s, t.id, t).by[w].active = s.by[w].active
              /\ Len(SetTab(s, t.id, t).by[w].tabs) = Len(s.by[w].tabs)
              /\ \A n \in 1 .. Len(s.by[w].tabs) :
                   \/ SetTab(s, t.id, t).by[w].tabs[n] = t /\ w = Owner(s, t.id)
                   \/ /\ SetTab(s, t.id, t).by[w].tabs[n] = s.by[w].tabs[n]
                      /\ s.by[w].tabs[n].id # t.id
<1>0. PICK w \in DOMAIN s.by : w = Owner(s, t.id)
  BY Found
<1>11. PICK at \in 1 .. Len(s.by[w].tabs) : at = PositionOf(s.by[w].tabs, t.id)
  BY <1>0, Found
<1>12. PICK tabs : tabs = s.by[w].tabs
  OBVIOUS
<1>13. PICK new : new = [tabs EXCEPT ![at] = t]
  OBVIOUS
<1> DEFINE r == WithGroup(s, s.ws, w, new, s.by[w].active)
<1>1. w \in DOMAIN s.by /\ at \in 1 .. Len(tabs) /\ tabs[at] = TabOf(s, t.id) /\ tabs[at].id = t.id
  BY <1>0, <1>11, <1>12, Found
<1>2. w \in Slugs /\ TabsGood(tabs, w, c) /\ Has(tabs, s.by[w].active) /\ Distinct(tabs)
  BY <1>12, GroupFacts
<1>3. /\ TabsGood(new, w, c) /\ Len(new) = Len(tabs)
      /\ \A n \in 1 .. Len(tabs) : new[n] = IF n = at THEN t ELSE tabs[n]
      /\ \A i : Has(new, i) <=> Has(tabs, i)
  <2>1. t.id = tabs[at].id /\ t.pinned = tabs[at].pinned /\ TabGood(t, w, c)
    BY <1>0, <1>1
  <2>2. tabs \in Seq(Tab) /\ t \in Tab
    BY <1>2 DEF TabsGood, TabGood
  <2>3. /\ new \in Seq(Tab) /\ Len(new) = Len(tabs)
        /\ \A n \in 1 .. Len(tabs) : new[n] = IF n = at THEN t ELSE tabs[n]
    BY <1>1, <1>13, <2>2, ExceptSeq
  <2> QED BY <1>1, <1>2, <2>1, <2>3, ReplaceGood
<1>4. SetTab(s, t.id, t) = r
  BY <1>0, <1>11, <1>12, <1>13 DEF SetTab
<1>5. s.ws \in DOMAIN s.by
  BY <1>1 DEF StoreGood
<1>6. /\ StoreGood(r, c) /\ r.ws = s.ws
      /\ DOMAIN r.by = DOMAIN s.by \cup {w}
      /\ r.by[w] = [tabs |-> new, active |-> s.by[w].active]
      /\ \A x \in DOMAIN s.by \ {w} : r.by[x] = s.by[x]
  <2> QED BY <1>1, <1>2, <1>3, <1>5, <1>12, WithGroupGood
<1>7. \A n \in 1 .. Len(tabs) : n # at => tabs[n].id # t.id
  BY <1>1, <1>2 DEF Distinct
<1>8. \A x \in DOMAIN s.by \ {w} : \A n \in 1 .. Len(s.by[x].tabs) : s.by[x].tabs[n].id # t.id
  BY <1>0, Located
<1> HIDE DEF r
<1>9. ASSUME NEW x \in DOMAIN s.by
      PROVE  /\ r.by[x].active = s.by[x].active
             /\ Len(r.by[x].tabs) = Len(s.by[x].tabs)
             /\ \A n \in 1 .. Len(s.by[x].tabs) :
                   \/ r.by[x].tabs[n] = t /\ x = w
                   \/ /\ r.by[x].tabs[n] = s.by[x].tabs[n]
                      /\ s.by[x].tabs[n].id # t.id
  <2>1. CASE x = w
    BY <1>3, <1>6, <1>7, <1>12, <2>1
  <2>2. CASE x # w
    BY <1>6, <1>8, <2>2
  <2> QED BY <2>1, <2>2
<1> QED BY <1>0, <1>1, <1>4, <1>6, <1>9

LEMMA SetTabSteady ==
  ASSUME NEW s, NEW c, StoreGood(s, c), NEW t, Holds(s, t.id),
         t.pinned = TabOf(s, t.id).pinned, TabGood(t, Owner(s, t.id), c)
  PROVE  /\ \A u \in TabsIn(SetTab(s, t.id, t)) : u = t \/ (u \in TabsIn(s) /\ u.id # t.id)
         /\ (IsActive(s, t.id) /\ TabOf(s, t.id).pinned => Parks(TabOf(s, t.id), t))
              => Steady(s, SetTab(s, t.id, t))
         /\ t.router = TabOf(s, t.id).router => Shadows(s, SetTab(s, t.id, t))
<1>1. /\ StoreGood(SetTab(s, t.id, t), c) /\ DOMAIN SetTab(s, t.id, t).by = DOMAIN s.by
      /\ \A w \in DOMAIN s.by :
              /\ Len(SetTab(s, t.id, t).by[w].tabs) = Len(s.by[w].tabs)
              /\ \A n \in 1 .. Len(s.by[w].tabs) :
                   \/ SetTab(s, t.id, t).by[w].tabs[n] = t
                   \/ /\ SetTab(s, t.id, t).by[w].tabs[n] = s.by[w].tabs[n]
                      /\ s.by[w].tabs[n].id # t.id
  BY SetTabGood
<1>2. TabOf(s, t.id) \in TabsIn(s) /\ TabOf(s, t.id).id = t.id
  BY Found, TabsInOK
<1>3. \A u \in TabsIn(SetTab(s, t.id, t)) : u = t \/ (u \in TabsIn(s) /\ u.id # t.id)
  <2> SUFFICES ASSUME NEW u \in TabsIn(SetTab(s, t.id, t)) PROVE u = t \/ (u \in TabsIn(s) /\ u.id # t.id)
    OBVIOUS
  <2>1. PICK w \in DOMAIN s.by : \E n \in 1 .. Len(s.by[w].tabs) : u = SetTab(s, t.id, t).by[w].tabs[n]
    BY <1>1, TabsInOK
  <2>2. PICK n \in 1 .. Len(s.by[w].tabs) : u = SetTab(s, t.id, t).by[w].tabs[n]
    BY <2>1
  <2>3. s.by[w].tabs[n] \in TabsIn(s)
    BY TabIn
  <2> QED BY <1>1, <2>2, <2>3
<1>4. ASSUME IsActive(s, t.id) /\ TabOf(s, t.id).pinned => Parks(TabOf(s, t.id), t)
      PROVE  Steady(s, SetTab(s, t.id, t))
  <2> SUFFICES ASSUME s.ws # None, NEW v \in TabsIn(s), v.id = ActiveId(s), v.pinned,
                      NEW u \in TabsIn(SetTab(s, t.id, t)), u.id = v.id
               PROVE  Parks(v, u)
    BY DEF Steady
  <2>1. CASE u = t
    <3>1. v = TabOf(s, t.id)
      BY <1>2, <2>1, SameTab
    <3>2. IsActive(s, t.id)
      BY <2>1 DEF IsActive
    <3> QED BY <1>4, <2>1, <3>1, <3>2
  <2>2. CASE u \in TabsIn(s)
    <3>1. u = v
      BY <2>2, SameTab
    <3> QED BY <3>1 DEF Parks
  <2> QED BY <1>3, <2>1, <2>2
<1>5. ASSUME t.router = TabOf(s, t.id).router PROVE Shadows(s, SetTab(s, t.id, t))
  BY <1>2, <1>3, <1>5 DEF Shadows
<1> QED BY <1>3, <1>4, <1>5

-----------------------------------------------------------------------------
(* The store methods, one lemma each.                                      *)

LEMMA SelfDescends ==
  ASSUME NEW s, NEW w \in DOMAIN s.by
  PROVE  Descends(s, w, s.by[w].tabs)
BY DEF Descends

LEMMA NoneWS ==
  ASSUME NEW s, NEW c, StoreGood(s, c)
  PROVE  /\ s.ws # None <=> DOMAIN s.by # {}
         /\ s.ws # None <=> s.ws \in DOMAIN s.by
BY NoneAssumption DEF StoreGood

(* A method that leaves the tabs of a group alone and picks its active.    *)
LEMMA PickGood ==
  ASSUME NEW s, NEW c, StoreGood(s, c), NEW w \in DOMAIN s.by, NEW ws \in DOMAIN s.by,
         NEW i, Has(s.by[w].tabs, i)
  PROVE  /\ StoreGood(WithGroup(s, ws, w, s.by[w].tabs, i), c)
         /\ WithGroup(s, ws, w, s.by[w].tabs, i).ws = ws
         /\ WithGroup(s, ws, w, s.by[w].tabs, i).by[w].active = i
         /\ TabsIn(WithGroup(s, ws, w, s.by[w].tabs, i)) = TabsIn(s)
         /\ Covers(s, WithGroup(s, ws, w, s.by[w].tabs, i))
         /\ Shadows(s, WithGroup(s, ws, w, s.by[w].tabs, i))
<1> DEFINE tabs == s.by[w].tabs
           r == WithGroup(s, ws, w, tabs, i)
<1>1. w \in Slugs /\ TabsGood(tabs, w, c)
  BY GroupFacts
<1>2. /\ StoreGood(r, c) /\ r.ws = ws
      /\ DOMAIN r.by = DOMAIN s.by \cup {w}
      /\ r.by[w] = [tabs |-> tabs, active |-> i]
      /\ \A x \in DOMAIN s.by \ {w} : r.by[x] = s.by[x]
  <2> HIDE DEF tabs
  <2>1. Has(tabs, i)
    BY DEF tabs
  <2>2. \A j : Has(tabs, j) => \/ w \in DOMAIN s.by /\ Has(s.by[w].tabs, j)
                               \/ \A x \in DOMAIN s.by : ~Has(s.by[x].tabs, j)
    BY DEF tabs
  <2> QED BY <1>1, <2>1, <2>2, WithGroupGood
<1> HIDE DEF r
<1>3. DOMAIN r.by = DOMAIN s.by /\ \A x \in DOMAIN s.by : r.by[x].tabs = s.by[x].tabs
  BY <1>2
<1>4. TabsIn(r) = TabsIn(s)
  BY <1>3 DEF TabsIn
<1> QED BY <1>2, <1>4 DEF Covers, Shadows, r

LEMMA SetActiveTabGood ==
  ASSUME NEW s, NEW c, StoreGood(s, c), NEW i
  PROVE  /\ StoreGood(SetActiveTab(s, i), c)
         /\ Covers(s, SetActiveTab(s, i)) /\ Shadows(s, SetActiveTab(s, i))
         /\ Holds(s, i) => /\ SetActiveTab(s, i).ws = Owner(s, i)
                           /\ ActiveId(SetActiveTab(s, i)) = i
<1>1. CASE Holds(s, i)
  <2>1. Owner(s, i) \in DOMAIN s.by /\ Has(s.by[Owner(s, i)].tabs, i)
    BY <1>1, Found
  <2>2. SetActiveTab(s, i) = WithGroup(s, Owner(s, i), Owner(s, i), s.by[Owner(s, i)].tabs, i)
    BY <1>1 DEF SetActiveTab
  <2>3. /\ StoreGood(SetActiveTab(s, i), c)
        /\ SetActiveTab(s, i).ws = Owner(s, i)
        /\ SetActiveTab(s, i).by[Owner(s, i)].active = i
        /\ Covers(s, SetActiveTab(s, i)) /\ Shadows(s, SetActiveTab(s, i))
    BY <2>1, <2>2, PickGood
  <2> QED BY <2>3 DEF ActiveId
<1>2. CASE ~Holds(s, i)
  BY <1>2 DEF SetActiveTab, Covers, Shadows
<1> QED BY <1>1, <1>2

(* A new unpinned tab at the end of a group.                               *)
Grown(s, w, p) == Append(s.by[w].tabs, MakeTab(FreshId(s), p))

LEMMA AddGood ==
  ASSUME NEW s, NEW c, StoreGood(s, c), {i \in TabIds : Fresh(s, i)} # {},
         NEW w \in DOMAIN s.by, NEW ws \in DOMAIN s.by, NEW p \in Path,
         p.ws = w \/ FreshId(s) \in c.but,
         NEW active, active \in {s.by[w].active, FreshId(s)}
  PROVE  /\ StoreGood(WithGroup(s, ws, w, Grown(s, w, p), active), c)
         /\ Covers(s, WithGroup(s, ws, w, Grown(s, w, p), active))
         /\ WithGroup(s, ws, w, Grown(s, w, p), active).ws = ws
         /\ DOMAIN WithGroup(s, ws, w, Grown(s, w, p), active).by = DOMAIN s.by
         /\ WithGroup(s, ws, w, Grown(s, w, p), active).by[w] = [tabs |-> Grown(s, w, p), active |-> active]
         /\ Grown(s, w, p) \in Seq(Tab) /\ Len(Grown(s, w, p)) = Len(s.by[w].tabs) + 1
         /\ \A n \in 1 .. Len(s.by[w].tabs) : Grown(s, w, p)[n] = s.by[w].tabs[n]
         /\ Grown(s, w, p)[Len(Grown(s, w, p))] = MakeTab(FreshId(s), p)
<1> DEFINE t == MakeTab(FreshId(s), p)
           old == s.by[w].tabs
           tabs == Grown(s, w, p)
<1>1. FreshId(s) \in TabIds /\ \A x \in DOMAIN s.by : ~Has(s.by[x].tabs, FreshId(s))
  BY FreshOK
<1>2. TabGood(t, w, c) /\ t.id = FreshId(s) /\ ~t.pinned
  BY <1>1, MakeTabGood
<1>3. TabsGood(old, w, c) /\ w \in Slugs /\ Has(old, s.by[w].active) /\ Len(old) \in Nat
  BY GroupFacts
<1>4. ~Has(old, t.id)
  BY <1>1, <1>2
<1> HIDE DEF t, old, tabs
<1>5. /\ TabsGood(tabs, w, c) /\ Len(tabs) = Len(old) + 1
      /\ \A n \in 1 .. Len(old) : tabs[n] = old[n]
      /\ tabs[Len(old) + 1] = t
      /\ \A i : Has(tabs, i) <=> Has(old, i) \/ i = t.id
  <2>1. tabs = Append(old, t)
    BY DEF old, t, tabs, Grown
  <2> QED BY <1>2, <1>3, <1>4, <2>1, AppendGood
<1>6. Has(tabs, active)
  BY <1>2, <1>3, <1>5
<1>7. Descends(s, w, tabs)
  <2> SUFFICES ASSUME NEW n \in 1 .. Len(tabs)
               PROVE  \/ \A x \in DOMAIN s.by : ~Has(s.by[x].tabs, tabs[n].id)
                      \/ /\ w \in DOMAIN s.by
                         /\ \E k \in 1 .. Len(s.by[w].tabs) :
                              /\ s.by[w].tabs[k].id = tabs[n].id
                              /\ s.by[w].tabs[k].router = tabs[n].router
    BY DEF Descends
  <2>1. CASE n \in 1 .. Len(old)
    BY <1>5, <2>1 DEF old
  <2>2. CASE n = Len(old) + 1
    BY <1>1, <1>2, <1>5, <2>2
  <2> QED BY <1>3, <1>5, <2>1, <2>2
<1>9. /\ StoreGood(WithGroup(s, ws, w, tabs, active), c)
      /\ Covers(s, WithGroup(s, ws, w, tabs, active))
  BY <1>3, <1>5, <1>6, <1>7, WithGroupCovers
<1>10. /\ WithGroup(s, ws, w, tabs, active).ws = ws
       /\ DOMAIN WithGroup(s, ws, w, tabs, active).by = DOMAIN s.by
       /\ WithGroup(s, ws, w, tabs, active).by[w] = [tabs |-> tabs, active |-> active]
  <2>1. DOMAIN s.by \cup {w} = DOMAIN s.by
    OBVIOUS
  <2>2. /\ WithGroup(s, ws, w, tabs, active).ws = ws
        /\ DOMAIN WithGroup(s, ws, w, tabs, active).by = DOMAIN s.by \cup {w}
        /\ WithGroup(s, ws, w, tabs, active).by[w] = [tabs |-> tabs, active |-> active]
    BY DEF WithGroup, Put
  <2> QED BY <2>1, <2>2
<1> QED BY <1>3, <1>5, <1>9, <1>10 DEF old, t, tabs, TabsGood

(* A group written as a single new tab.                                    *)
LEMMA OnlyGood ==
  ASSUME NEW s, NEW c, StoreGood(s, c), {i \in TabIds : Fresh(s, i)} # {},
         NEW w \in Slugs, NEW ws \in DOMAIN s.by \cup {w}, NEW p \in Path, p.ws = w
  PROVE  /\ StoreGood(WithGroup(s, ws, w, <<MakeTab(FreshId(s), p)>>, FreshId(s)), c)
         /\ Covers(s, WithGroup(s, ws, w, <<MakeTab(FreshId(s), p)>>, FreshId(s)))
<1> DEFINE t == MakeTab(FreshId(s), p)
<1>1. FreshId(s) \in TabIds /\ \A x \in DOMAIN s.by : ~Has(s.by[x].tabs, FreshId(s))
  BY FreshOK
<1>2. TabGood(t, w, c) /\ t.id = FreshId(s)
  BY <1>1, MakeTabGood
<1> HIDE DEF t
<1>3. TabsGood(<<t>>, w, c) /\ Len(<<t>>) = 1 /\ <<t>>[1] = t /\ Has(<<t>>, FreshId(s))
  BY <1>2, SingleGood
<1>4. Descends(s, w, <<t>>)
  BY <1>1, <1>2, <1>3 DEF Descends
<1> QED BY <1>3, <1>4, WithGroupCovers DEF t

LEMMA OpenTabGood ==
  ASSUME NEW s, NEW c, StoreGood(s, c), {i \in TabIds : Fresh(s, i)} # {},
         NEW p \in Path, Sane(p), s.ws # None,
         ShowsPath(s.by[s.ws].tabs, p) \/ p.ws = s.ws \/ FreshId(s) \in c.but
  PROVE  /\ StoreGood(OpenTab(s, p), c)
         /\ Covers(s, OpenTab(s, p))
         /\ OpenTab(s, p).ws = s.ws
         /\ ShowsPath(OpenTab(s, p).by[s.ws].tabs, p)
         /\ ~ShowsPath(s.by[s.ws].tabs, p) =>
              OpenTab(s, p).by[s.ws].tabs[FirstAt(OpenTab(s, p).by[s.ws].tabs, p)].id = FreshId(s)
<1> DEFINE w == s.ws
           tabs == s.by[w].tabs
           o == OpenTab(s, p)
<1>1. /\ w \in DOMAIN s.by /\ tabs \in Seq(Tab) /\ DOMAIN tabs = 1 .. Len(tabs)
      /\ Len(tabs) \in Nat
  BY ActiveOK, GroupFacts
<1>2. CASE ShowsPath(tabs, p)
  <2> DEFINE i == tabs[FirstAt(tabs, p)].id
  <2>1. FirstAt(tabs, p) \in 1 .. Len(tabs)
    BY <1>1, <1>2, FirstAtOK
  <2>2. Has(s.by[w].tabs, i)
    BY <2>1 DEF Has
  <2>3. o = WithGroup(s, w, w, s.by[w].tabs, i)
    BY <1>2 DEF OpenTab
  <2> HIDE DEF i, w, o
  <2>6. /\ StoreGood(WithGroup(s, w, w, s.by[w].tabs, i), c)
        /\ WithGroup(s, w, w, s.by[w].tabs, i).ws = w
        /\ Covers(s, WithGroup(s, w, w, s.by[w].tabs, i))
    <3>1. w \in DOMAIN s.by /\ StoreGood(s, c)
      BY <1>1
    <3> HIDE DEF tabs
    <3> QED BY <2>2, <3>1, PickGood
  <2>4. StoreGood(o, c) /\ o.ws = w /\ Covers(s, o)
    BY <2>3, <2>6
  <2>5. o.by[w].tabs = s.by[w].tabs
    BY <2>3 DEF WithGroup, Put
  <2> QED BY <1>2, <2>4, <2>5 DEF w, o
<1>3. CASE ~ShowsPath(tabs, p)
  <2> DEFINE t == MakeTab(FreshId(s), p)
             new == Grown(s, w, p)
  <2>1. o = WithGroup(s, w, w, new, s.by[w].active)
    BY <1>3 DEF OpenTab, AddTab, Grown
  <2>2. p.ws = w \/ FreshId(s) \in c.but
    BY <1>3
  <2> HIDE DEF w, new
  <2>3. /\ StoreGood(o, c) /\ Covers(s, o) /\ o.ws = w
        /\ o.by[w] = [tabs |-> new, active |-> s.by[w].active]
        /\ new \in Seq(Tab) /\ Len(new) = Len(s.by[w].tabs) + 1
        /\ \A n \in 1 .. Len(s.by[w].tabs) : new[n] = s.by[w].tabs[n]
        /\ new[Len(new)] = t
    BY <1>1, <2>1, <2>2, AddGood DEF new
  <2>4. FreshId(s) \in TabIds
    BY FreshOK
  <2>5. t.path = p /\ t.id = FreshId(s)
    BY DEF MakeTab
  <2>6. Len(new) \in 1 .. Len(new) /\ DOMAIN new = 1 .. Len(new)
    BY <1>1, <2>3, Entries
  <2>7. ShowsPath(new, p)
    BY <2>3, <2>5, <2>6 DEF ShowsPath
  <2>8. FirstAt(new, p) \in 1 .. Len(new) /\ new[FirstAt(new, p)].path = p
    BY <2>3, <2>7, FirstAtOK
  <2>9. \A n \in 1 .. Len(tabs) : tabs[n].path # p
    BY <1>1, <1>3 DEF ShowsPath
  <2>10. FirstAt(new, p) = Len(new)
    BY <1>1, <2>3, <2>8, <2>9
  <2> QED BY <1>3, <2>3, <2>5, <2>7, <2>10 DEF w
<1> QED BY <1>2, <1>3

(* A tab opened and shown: it is in the active group, so this stays there. *)
LEMMA OpenForegroundGood ==
  ASSUME NEW s, NEW c, StoreGood(s, c), {i \in TabIds : Fresh(s, i)} # {},
         NEW p \in Path, Sane(p), s.ws # None,
         ShowsPath(s.by[s.ws].tabs, p) \/ p.ws = s.ws \/ FreshId(s) \in c.but
  PROVE  /\ StoreGood(OpenForeground(s, p), c)
         /\ Covers(s, OpenForeground(s, p))
         /\ OpenForeground(s, p).ws = s.ws
         /\ ~ShowsPath(s.by[s.ws].tabs, p) => ActiveId(OpenForeground(s, p)) = FreshId(s)
<1> DEFINE o == OpenTab(s, p)
           tabs == o.by[s.ws].tabs
           i == tabs[FirstAt(tabs, p)].id
<1>1. /\ StoreGood(o, c) /\ Covers(s, o) /\ o.ws = s.ws /\ ShowsPath(tabs, p)
      /\ ~ShowsPath(s.by[s.ws].tabs, p) => i = FreshId(s)
  BY OpenTabGood
<1>2. OpenForeground(s, p) = SetActiveTab(o, i)
  BY DEF OpenForeground
<1>3. s.ws \in DOMAIN o.by
  BY <1>1, NoneWS
<1>4. tabs \in Seq(Tab)
  BY <1>1, <1>3, GroupFacts
<1>5. FirstAt(tabs, p) \in 1 .. Len(tabs)
  BY <1>1, <1>4, FirstAtOK
<1>6. Owner(o, i) = s.ws /\ Holds(o, i)
  BY <1>1, <1>3, <1>5, Located
<1> HIDE DEF o, i
<1>7. /\ StoreGood(SetActiveTab(o, i), c) /\ Shadows(o, SetActiveTab(o, i))
      /\ SetActiveTab(o, i).ws = s.ws /\ ActiveId(SetActiveTab(o, i)) = i
  BY <1>1, <1>6, SetActiveTabGood
<1>8. Covers(s, SetActiveTab(o, i))
  BY <1>1, <1>7, CoversThen
<1> QED BY <1>1, <1>2, <1>7, <1>8

LEMMA SwitchWorkspaceGood ==
  ASSUME NEW s, NEW c, StoreGood(s, c), {i \in TabIds : Fresh(s, i)} # {},
         NEW w \in Slugs, NEW p \in Path, Sane(p), p.ws = w
  PROVE  StoreGood(SwitchWorkspace(s, w, p), c) /\ Covers(s, SwitchWorkspace(s, w, p))
<1> DEFINE t == MakeTab(FreshId(s), p)
           tabs == s.by[w].tabs
           r == SwitchWorkspace(s, w, p)
<1>0. t.id = FreshId(s)
  BY DEF MakeTab
<1>1. CASE w \notin DOMAIN s.by
  <2>1. r = WithGroup(s, w, w, <<t>>, FreshId(s))
    BY <1>0, <1>1 DEF SwitchWorkspace
  <2> QED BY <2>1, OnlyGood
<1>2. CASE w \in DOMAIN s.by /\ ShowsPath(tabs, p)
  <2> DEFINE i == tabs[FirstAt(tabs, p)].id
  <2>0. tabs \in Seq(Tab)
    BY <1>2, GroupFacts
  <2>1. FirstAt(tabs, p) \in 1 .. Len(tabs)
    BY <1>2, <2>0, FirstAtOK
  <2>2. Has(s.by[w].tabs, i)
    BY <2>1 DEF Has
  <2>3. r = WithGroup(s, w, w, s.by[w].tabs, i)
    BY <1>2 DEF SwitchWorkspace
  <2> HIDE DEF i
  <2> QED BY <1>2, <2>2, <2>3, PickGood
<1>3. CASE w \in DOMAIN s.by /\ ~ShowsPath(tabs, p)
  <2>1. r = WithGroup(s, w, w, Grown(s, w, p), FreshId(s))
    BY <1>0, <1>3 DEF SwitchWorkspace, Grown
  <2>2. FreshId(s) \in {s.by[w].active, FreshId(s)} /\ (p.ws = w \/ FreshId(s) \in c.but)
    OBVIOUS
  <2>3. /\ StoreGood(WithGroup(s, w, w, Grown(s, w, p), FreshId(s)), c)
        /\ Covers(s, WithGroup(s, w, w, Grown(s, w, p), FreshId(s)))
    BY <1>3, <2>2, AddGood
  <2> QED BY <2>1, <2>3
<1> QED BY <1>1, <1>2, <1>3

LEMMA CloseTabGood ==
  ASSUME NEW s, NEW c, StoreGood(s, c), {i \in TabIds : Fresh(s, i)} # {},
         NEW i, Holds(s, i)
  PROVE  StoreGood(CloseTab(s, i), c) /\ Covers(s, CloseTab(s, i))
<1> DEFINE w == Owner(s, i)
           tabs == s.by[w].tabs
           active == s.by[w].active
           at == PositionOf(tabs, i)
           rest == RemoveAt(tabs, at)
           k == IF at > Len(rest) THEN Len(rest) ELSE at
           r == CloseTab(s, i)
<1>1. w \in DOMAIN s.by /\ at \in 1 .. Len(tabs) /\ tabs[at].id = i
  BY Found
<1>2. /\ w \in Slugs /\ TabsGood(tabs, w, c) /\ Has(tabs, active)
      /\ Len(tabs) \in Nat
  BY <1>1, GroupFacts
<1>3. s.ws \in DOMAIN s.by
  BY <1>1 DEF StoreGood
<1>4. CASE Len(tabs) = 1
  <2>1. r = WithGroup(s, s.ws, w, <<MakeTab(FreshId(s), DefaultPath(w))>>, FreshId(s))
    BY <1>4 DEF CloseTab, MakeTab
  <2>2. DefaultPath(w) \in Path /\ DefaultPath(w).ws = w
    BY <1>2, DefaultPathOK
  <2> HIDE DEF w, r, tabs
  <2>3. s.ws \in DOMAIN s.by \cup {w}
    BY <1>3
  <2>4. /\ StoreGood(WithGroup(s, s.ws, w, <<MakeTab(FreshId(s), DefaultPath(w))>>, FreshId(s)), c)
        /\ Covers(s, WithGroup(s, s.ws, w, <<MakeTab(FreshId(s), DefaultPath(w))>>, FreshId(s)))
    BY <1>2, <2>2, <2>3, OnlyGood
  <2> QED BY <2>1, <2>4 DEF r
<1>5. CASE Len(tabs) # 1
  <2> DEFINE next == rest[k].id
             new == IF active = i THEN next ELSE active
  <2>1. r = WithGroup(s, s.ws, w, rest, new)
    BY <1>5 DEF CloseTab
  <2> HIDE DEF at, tabs, w, r
  <2>2. /\ TabsGood(rest, w, c)
        /\ Len(rest) = Len(tabs) - 1
        /\ \A n \in 1 .. Len(tabs) - 1 : rest[n] = IF n < at THEN tabs[n] ELSE tabs[n + 1]
        /\ \A j : Has(rest, j) <=> Has(tabs, j) /\ j # i
    BY <1>1, <1>2, RemoveGood
  <2> HIDE DEF rest
  <2>3. k \in 1 .. Len(rest)
    BY <1>1, <1>2, <1>5, <2>2
  <2> HIDE DEF k
  <2>4. Has(rest, next)
    BY <2>3 DEF Has
  <2>5. Has(rest, new)
    BY <1>2, <2>2, <2>4
  <2> HIDE DEF new, active
  <2>6. Descends(s, w, rest)
    <3>1. \A n \in 1 .. Len(rest) : \E m \in 1 .. Len(tabs) : rest[n] = tabs[m]
      BY <1>1, <1>2, <2>2
    <3> QED BY <1>1, <3>1 DEF Descends, tabs
  <2>7. s.ws \in DOMAIN s.by \cup {w}
    BY <1>3
  <2>8. StoreGood(WithGroup(s, s.ws, w, rest, new), c) /\ Covers(s, WithGroup(s, s.ws, w, rest, new))
    BY <1>2, <2>2, <2>5, <2>6, <2>7, WithGroupCovers
  <2> QED BY <2>1, <2>8 DEF r
<1> QED BY <1>4, <1>5

(* Moving a tab, or toggling its pin: out of its place and back in at a    *)
(* place of its zone.                                                      *)
LEMMA ReinsertGood ==
  ASSUME NEW s, NEW c, StoreGood(s, c), NEW w \in DOMAIN s.by, NEW ws \in DOMAIN s.by,
         NEW from \in 1 .. Len(s.by[w].tabs), NEW to \in 1 .. Len(s.by[w].tabs),
         NEW t, TabGood(t, w, c), t.id = s.by[w].tabs[from].id, t.router = s.by[w].tabs[from].router,
         t.pinned => \A n \in 1 .. to - 1 : RemoveAt(s.by[w].tabs, from)[n].pinned,
         ~t.pinned => \A n \in to .. Len(s.by[w].tabs) - 1 : ~RemoveAt(s.by[w].tabs, from)[n].pinned
  PROVE  /\ StoreGood(WithGroup(s, ws, w, InsertAt(RemoveAt(s.by[w].tabs, from), to, t), s.by[w].active), c)
         /\ Covers(s, WithGroup(s, ws, w, InsertAt(RemoveAt(s.by[w].tabs, from), to, t), s.by[w].active))
<1> DEFINE tabs == s.by[w].tabs
           rest == RemoveAt(tabs, from)
           new == InsertAt(rest, to, t)
           active == s.by[w].active
<1>1. w \in Slugs /\ TabsGood(tabs, w, c) /\ Has(tabs, active) /\ Len(tabs) \in Nat
  BY GroupFacts
<1>2. /\ from \in 1 .. Len(tabs) /\ to \in 1 .. Len(tabs)
      /\ t.id = tabs[from].id /\ t.router = tabs[from].router
      /\ t.pinned => \A n \in 1 .. to - 1 : rest[n].pinned
      /\ ~t.pinned => \A n \in to .. Len(tabs) - 1 : ~rest[n].pinned
  OBVIOUS
<1> HIDE DEF tabs
<1>3. /\ TabsGood(rest, w, c)
      /\ Len(rest) = Len(tabs) - 1
      /\ \A n \in 1 .. Len(tabs) - 1 : rest[n] = IF n < from THEN tabs[n] ELSE tabs[n + 1]
      /\ \A j : Has(rest, j) <=> Has(tabs, j) /\ j # tabs[from].id
  BY <1>1, <1>2, RemoveGood
<1> HIDE DEF rest
<1>4. to \in 1 .. Len(rest) + 1
  BY <1>1, <1>2, <1>3
<1>5. ~Has(rest, t.id)
  BY <1>2, <1>3
<1>6. ~t.pinned => \A n \in to .. Len(rest) : ~rest[n].pinned
  BY <1>2, <1>3
<1>7. /\ TabsGood(new, w, c)
      /\ Len(new) = Len(rest) + 1
      /\ \A n \in 1 .. Len(rest) + 1 :
           new[n] = IF n < to THEN rest[n] ELSE IF n = to THEN t ELSE rest[n - 1]
      /\ \A i : Has(new, i) <=> Has(rest, i) \/ i = t.id
  BY <1>2, <1>3, <1>4, <1>5, <1>6, InsertGood
<1> HIDE DEF new
<1>8. Has(new, active)
  BY <1>1, <1>2, <1>3, <1>7
<1>9. Descends(s, w, new)
  <2>1. \A n \in 1 .. Len(rest) : \E m \in 1 .. Len(tabs) : rest[n] = tabs[m]
    BY <1>1, <1>2, <1>3
  <2>2. \A n \in 1 .. Len(new) : new[n] = t \/ \E m \in 1 .. Len(rest) : new[n] = rest[m]
    BY <1>1, <1>2, <1>3, <1>7
  <2>3. \A n \in 1 .. Len(new) : \E m \in 1 .. Len(tabs) :
          tabs[m].id = new[n].id /\ tabs[m].router = new[n].router
    <3> SUFFICES ASSUME NEW n \in 1 .. Len(new)
                 PROVE  \E m \in 1 .. Len(tabs) :
                          tabs[m].id = new[n].id /\ tabs[m].router = new[n].router
      OBVIOUS
    <3>1. CASE new[n] = t
      BY <1>2, <3>1
    <3>2. CASE \E m \in 1 .. Len(rest) : new[n] = rest[m]
      BY <2>1, <3>2
    <3> QED BY <2>2, <3>1, <3>2
  <2> QED BY <2>3 DEF Descends, tabs
<1>10. ws \in DOMAIN s.by \cup {w}
  OBVIOUS
<1> HIDE DEF active
<1>11. StoreGood(WithGroup(s, ws, w, new, active), c) /\ Covers(s, WithGroup(s, ws, w, new, active))
  BY <1>1, <1>7, <1>8, <1>9, <1>10, WithGroupCovers
<1> QED BY <1>11 DEF new, active, rest, tabs

LEMMA MoveTabGood ==
  ASSUME NEW s, NEW c, StoreGood(s, c), s.ws # None,
         NEW from \in DOMAIN s.by[s.ws].tabs, NEW to \in DOMAIN s.by[s.ws].tabs
  PROVE  StoreGood(MoveTab(s, from, to), c) /\ Covers(s, MoveTab(s, from, to))
<1> DEFINE w == s.ws
           tabs == s.by[w].tabs
           rest == RemoveAt(tabs, from)
           b == PinnedCount(tabs)
           at == DropAt(tabs, from, to)
           t == tabs[from]
<1>1. w \in DOMAIN s.by
  BY ActiveOK
<1>2. /\ tabs \in Seq(Tab) /\ PinsFirst(tabs) /\ Len(tabs) \in Nat
      /\ from \in 1 .. Len(tabs) /\ to \in 1 .. Len(tabs)
      /\ TabGood(t, w, c)
  BY <1>1, GroupFacts
<1>3. MoveTab(s, from, to) = WithGroup(s, w, w, InsertAt(RemoveAt(s.by[w].tabs, from), at, t), s.by[w].active)
  BY DEF MoveTab, ArrayMove
<1>4. /\ b \in 0 .. Len(tabs)
      /\ \A n \in 1 .. b : tabs[n].pinned
      /\ \A n \in b + 1 .. Len(tabs) : ~tabs[n].pinned
  BY <1>2, PinnedCountOK
<1>5. \A n \in 1 .. Len(tabs) - 1 : rest[n] = IF n < from THEN tabs[n] ELSE tabs[n + 1]
  BY <1>2, RemoveFacts
<1>6. at = IF t.pinned THEN IF to > b THEN b ELSE to
           ELSE IF to <= b THEN b + 1 ELSE to
  BY DEF DropAt
<1>7. t.id = s.by[w].tabs[from].id /\ t.router = s.by[w].tabs[from].router
  OBVIOUS
<1> HIDE DEF at, b, rest
<1>8. CASE t.pinned
  <2>1. from <= b
    BY <1>2, <1>4, <1>8
  <2>2. at \in 1 .. Len(tabs) /\ at <= b
    BY <1>2, <1>4, <1>6, <1>8, <2>1
  <2>3. \A n \in 1 .. at - 1 : rest[n].pinned
    <3> SUFFICES ASSUME NEW n \in 1 .. at - 1 PROVE rest[n].pinned
      OBVIOUS
    <3> HIDE DEF tabs
    <3>1. n \in 1 .. Len(tabs) - 1 /\ n \in 1 .. b /\ n + 1 \in 1 .. b
      BY <1>2, <1>4, <2>2
    <3> QED BY <1>4, <1>5, <3>1
  <2> QED
    <3>1. \A n \in 1 .. at - 1 : RemoveAt(s.by[w].tabs, from)[n].pinned
      BY <2>3 DEF rest
    <3>2. at \in 1 .. Len(s.by[w].tabs) /\ from \in 1 .. Len(s.by[w].tabs)
      BY <1>2, <2>2
    <3>3. /\ StoreGood(WithGroup(s, w, w, InsertAt(RemoveAt(s.by[w].tabs, from), at, t), s.by[w].active), c)
          /\ Covers(s, WithGroup(s, w, w, InsertAt(RemoveAt(s.by[w].tabs, from), at, t), s.by[w].active))
      <4> HIDE DEF w, t, tabs
      <4> QED BY <1>1, <1>2, <1>7, <1>8, <3>1, <3>2, ReinsertGood
    <3> QED BY <1>3, <3>3
<1>9. CASE ~t.pinned
  <2>1. from > b
    BY <1>2, <1>4, <1>9
  <2>2. at \in 1 .. Len(tabs) /\ at > b
    BY <1>2, <1>4, <1>6, <1>9, <2>1
  <2>3. \A n \in at .. Len(tabs) - 1 : ~rest[n].pinned
    <3> SUFFICES ASSUME NEW n \in at .. Len(tabs) - 1 PROVE ~rest[n].pinned
      OBVIOUS
    <3> HIDE DEF tabs
    <3>1. n \in 1 .. Len(tabs) - 1 /\ n \in b + 1 .. Len(tabs) /\ n + 1 \in b + 1 .. Len(tabs)
      BY <1>2, <1>4, <2>2
    <3> QED BY <1>4, <1>5, <3>1
  <2> QED
    <3>1. \A n \in at .. Len(s.by[w].tabs) - 1 : ~RemoveAt(s.by[w].tabs, from)[n].pinned
      BY <2>3 DEF rest
    <3>2. at \in 1 .. Len(s.by[w].tabs) /\ from \in 1 .. Len(s.by[w].tabs)
      BY <1>2, <2>2
    <3>3. /\ StoreGood(WithGroup(s, w, w, InsertAt(RemoveAt(s.by[w].tabs, from), at, t), s.by[w].active), c)
          /\ Covers(s, WithGroup(s, w, w, InsertAt(RemoveAt(s.by[w].tabs, from), at, t), s.by[w].active))
      <4> HIDE DEF w, t, tabs
      <4> QED BY <1>1, <1>2, <1>7, <1>9, <3>1, <3>2, ReinsertGood
    <3> QED BY <1>3, <3>3
<1> QED BY <1>8, <1>9

LEMMA TogglePinGood ==
  ASSUME NEW s, NEW c, StoreGood(s, c), NEW i, Holds(s, i)
  PROVE  StoreGood(TogglePin(s, i), c) /\ Covers(s, TogglePin(s, i))
<1> DEFINE w == Owner(s, i)
           tabs == s.by[w].tabs
           from == PositionOf(tabs, i)
           rest == RemoveAt(tabs, from)
           b == PinnedCount(rest)
           t == [tabs[from] EXCEPT !.pinned = ~@]
<1>1. w \in DOMAIN s.by /\ from \in 1 .. Len(tabs)
  BY Found
<1>2. s.ws \in DOMAIN s.by
  BY <1>1 DEF StoreGood
<1>3. TabsGood(tabs, w, c) /\ Len(tabs) \in Nat /\ TabGood(tabs[from], w, c) /\ tabs[from] \in Tab
  BY <1>1, GroupFacts
<1>4. TogglePin(s, i) = WithGroup(s, s.ws, w, InsertAt(RemoveAt(s.by[w].tabs, from), b + 1, t), s.by[w].active)
  BY DEF TogglePin
<1>5. /\ t \in Tab /\ t.id = tabs[from].id /\ t.router = tabs[from].router /\ t.kept = tabs[from].kept
      /\ t.ref = tabs[from].ref /\ t.index = tabs[from].index /\ t.length = tabs[from].length
      /\ t.stray = tabs[from].stray /\ t.path = tabs[from].path
  <2> HIDE DEF from, tabs
  <2> QED BY <1>3 DEF Tab
<1>6. TabGood(t, w, c)
  <2> HIDE DEF t, from, tabs, w
  <2> QED BY <1>3, <1>5 DEF TabGood, AtHome, Trail, Counted
<1>7. TabsGood(rest, w, c) /\ Len(rest) = Len(tabs) - 1
  <2> HIDE DEF from, tabs, w
  <2> QED BY <1>1, <1>3, RemoveGood
<1> HIDE DEF rest
<1>8. /\ b \in 0 .. Len(rest)
      /\ \A n \in 1 .. b : rest[n].pinned
      /\ \A n \in b + 1 .. Len(rest) : ~rest[n].pinned
  BY <1>7, PinnedCountOK DEF TabsGood
<1> HIDE DEF b
<1>9. /\ b + 1 \in 1 .. Len(tabs)
      /\ \A n \in 1 .. (b + 1) - 1 : rest[n].pinned
      /\ \A n \in b + 1 .. Len(tabs) - 1 : ~rest[n].pinned
  <2> HIDE DEF tabs
  <2> QED BY <1>3, <1>7, <1>8
<1>10. /\ b + 1 \in 1 .. Len(s.by[w].tabs) /\ from \in 1 .. Len(s.by[w].tabs)
       /\ t.id = s.by[w].tabs[from].id /\ t.router = s.by[w].tabs[from].router
       /\ t.pinned => \A n \in 1 .. (b + 1) - 1 : RemoveAt(s.by[w].tabs, from)[n].pinned
       /\ ~t.pinned => \A n \in b + 1 .. Len(s.by[w].tabs) - 1 : ~RemoveAt(s.by[w].tabs, from)[n].pinned
  <2> HIDE DEF w, from, t
  <2> QED BY <1>1, <1>5, <1>9 DEF rest
<1> HIDE DEF w, t, from
<1>11. /\ StoreGood(WithGroup(s, s.ws, w, InsertAt(RemoveAt(s.by[w].tabs, from), b + 1, t), s.by[w].active), c)
       /\ Covers(s, WithGroup(s, s.ws, w, InsertAt(RemoveAt(s.by[w].tabs, from), b + 1, t), s.by[w].active))
  BY <1>1, <1>2, <1>6, <1>10, ReinsertGood
<1> QED BY <1>4, <1>11

-----------------------------------------------------------------------------
(* Routers, and the tabs whose router moves.                               *)

LEMMA PushedOK ==
  ASSUME NEW r \in Router, NEW p \in Path
  PROVE  /\ Pushed(r, p) \in Router
         /\ Pushed(r, p).at = r.at + 1 /\ Len(Pushed(r, p).stack) = r.at + 1
         /\ \A k \in 1 .. r.at + 1 :
              Pushed(r, p).stack[k] = IF k = r.at + 1 THEN p ELSE r.stack[k]
         /\ Location(Pushed(r, p)) = p
<1> DEFINE front == SubSeq(r.stack, 1, r.at)
           stack == Append(front, p)
<1>1. r.stack \in Seq(Path) /\ r.at \in 1 .. Len(r.stack) /\ Len(r.stack) \in Nat /\ r.at \in Nat
  BY DEF Router
<1>2. \A k \in 1 .. r.at : r.stack[k] \in Path
  BY <1>1
<1>3. /\ front \in Seq(Path) /\ Len(front) = r.at
      /\ \A k \in 1 .. r.at : front[k] = r.stack[k]
  BY <1>1, <1>2, SubSeqProperties
<1> HIDE DEF front
<1>4. /\ stack \in Seq(Path) /\ Len(stack) = r.at + 1
      /\ \A k \in 1 .. r.at + 1 : stack[k] = IF k = r.at + 1 THEN p ELSE r.stack[k]
  BY <1>1, <1>3
<1> HIDE DEF stack
<1>5. Pushed(r, p) = [stack |-> stack, at |-> r.at + 1]
  BY DEF Pushed, stack, front
<1>6. Pushed(r, p) \in Router
  BY <1>1, <1>4, <1>5 DEF Router
<1> QED BY <1>1, <1>4, <1>5, <1>6 DEF Location

LEMMA ReplacedOK ==
  ASSUME NEW r \in Router, NEW p \in Path
  PROVE  /\ Replaced(r, p) \in Router
         /\ Replaced(r, p).at = r.at /\ Len(Replaced(r, p).stack) = Len(r.stack)
         /\ \A k \in 1 .. Len(r.stack) :
              Replaced(r, p).stack[k] = IF k = r.at THEN p ELSE r.stack[k]
         /\ Location(Replaced(r, p)) = p
<1> DEFINE stack == [r.stack EXCEPT ![r.at] = p]
<1>1. /\ r.stack \in Seq(Path) /\ r.at \in 1 .. Len(r.stack) /\ Len(r.stack) \in Nat /\ r.at \in Nat
      /\ r = [stack |-> r.stack, at |-> r.at]
  BY DEF Router
<1>2. /\ stack \in Seq(Path) /\ Len(stack) = Len(r.stack)
      /\ \A k \in 1 .. Len(r.stack) : stack[k] = IF k = r.at THEN p ELSE r.stack[k]
  BY <1>1, ExceptSeq
<1>3. Replaced(r, p) = [stack |-> stack, at |-> r.at]
  BY <1>1 DEF Replaced
<1> HIDE DEF stack
<1>4. Replaced(r, p) \in Router
  BY <1>1, <1>2, <1>3 DEF Router
<1> QED BY <1>1, <1>2, <1>3, <1>4 DEF Location

LEMMA GoneOK ==
  ASSUME NEW r \in Router, NEW d \in {1, -1}
  PROVE  /\ Gone(r, d) \in Router
         /\ Gone(r, d).stack = r.stack
         /\ Gone(r, d).at = IF d = 1 THEN IF r.at < Len(r.stack) THEN r.at + 1 ELSE Len(r.stack)
                            ELSE IF r.at > 1 THEN r.at - 1 ELSE 1
<1>1. /\ r.stack \in Seq(Path) /\ r.at \in 1 .. Len(r.stack) /\ Len(r.stack) \in Nat /\ r.at \in Nat
      /\ r = [stack |-> r.stack, at |-> r.at]
  BY DEF Router
<1> DEFINE to == r.at + d
           at == IF to < 1 THEN 1 ELSE IF to > Len(r.stack) THEN Len(r.stack) ELSE to
<1>2. Gone(r, d) = [stack |-> r.stack, at |-> at]
  BY <1>1 DEF Gone
<1>3. at \in 1 .. Len(r.stack)
  BY <1>1
<1>4. at = IF d = 1 THEN IF r.at < Len(r.stack) THEN r.at + 1 ELSE Len(r.stack)
           ELSE IF r.at > 1 THEN r.at - 1 ELSE 1
  BY <1>1
<1> HIDE DEF at
<1> QED BY <1>1, <1>2, <1>3, <1>4 DEF Router

(* What a held tab satisfies; when active it is in the mounted workspace.  *)
LEMMA HeldGood ==
  ASSUME NEW s, NEW c, StoreGood(s, c), NEW i, Holds(s, i)
  PROVE  /\ TabGood(TabOf(s, i), Owner(s, i), c)
         /\ TabOf(s, i) \in Tab /\ TabOf(s, i).id = i /\ TabOf(s, i) \in TabsIn(s)
         /\ Owner(s, i) \in DOMAIN s.by
         /\ IsActive(s, i) => Owner(s, i) = s.ws
<1>1. /\ Owner(s, i) \in DOMAIN s.by
      /\ PositionOf(s.by[Owner(s, i)].tabs, i) \in 1 .. Len(s.by[Owner(s, i)].tabs)
      /\ TabOf(s, i) = s.by[Owner(s, i)].tabs[PositionOf(s.by[Owner(s, i)].tabs, i)]
      /\ TabOf(s, i).id = i
  BY Found
<1>2. TabGood(TabOf(s, i), Owner(s, i), c) /\ TabOf(s, i) \in Tab
  <2>1. \A n \in 1 .. Len(s.by[Owner(s, i)].tabs) :
          s.by[Owner(s, i)].tabs[n] \in Tab /\ TabGood(s.by[Owner(s, i)].tabs[n], Owner(s, i), c)
    BY <1>1, GroupFacts
  <2> QED BY <1>1, <2>1
<1>3. TabOf(s, i) \in TabsIn(s)
  BY <1>1, TabIn
<1>4. IsActive(s, i) => Owner(s, i) = s.ws
  BY ActiveOK DEF IsActive
<1> QED BY <1>1, <1>2, <1>3, <1>4

(* The fields of a tab whose router moved in view, and out of view.        *)
LEMMA SyncedOK ==
  ASSUME NEW t \in Tab, NEW r \in Router, NEW index \in Int, NEW length \in Int
  PROVE  /\ Synced(t, r, index, length) \in Tab
         /\ Synced(t, r, index, length).id = t.id
         /\ Synced(t, r, index, length).pinned = t.pinned
         /\ Synced(t, r, index, length).kept = t.kept
         /\ Synced(t, r, index, length).stray = t.stray
         /\ Synced(t, r, index, length).router = r
         /\ Synced(t, r, index, length).path = Location(r)
         /\ Synced(t, r, index, length).index = index
         /\ Synced(t, r, index, length).length = length
         /\ Synced(t, r, index, length).ref.index = index
         /\ Synced(t, r, index, length).ref.length = length
<1>1. Location(r) \in Path
  BY DEF Router, Location
<1> DEFINE u == Synced(t, r, index, length)
           f == [index |-> index, length |-> length]
<1>2. f \in [index : Int, length : Int] /\ f.index = index /\ f.length = length
  OBVIOUS
<1>3. u = [t EXCEPT !.router = r, !.path = Location(r), !.ref = f, !.index = index, !.length = length]
  BY DEF Synced
<1> HIDE DEF u, f
<1>4. /\ u.id = t.id /\ u.pinned = t.pinned /\ u.kept = t.kept /\ u.stray = t.stray
      /\ u.router = r /\ u.path = Location(r) /\ u.index = index /\ u.length = length
      /\ u.ref = f
  BY <1>3 DEF Tab
<1>5. u \in Tab
  BY <1>1, <1>2, <1>3 DEF Tab
<1> QED BY <1>2, <1>4, <1>5 DEF u

LEMMA HiddenOK ==
  ASSUME NEW t \in Tab, NEW r \in Router, NEW k \in BOOLEAN
  PROVE  /\ [t EXCEPT !.router = r, !.kept = k] \in Tab
         /\ [t EXCEPT !.router = r, !.kept = k].id = t.id
         /\ [t EXCEPT !.router = r, !.kept = k].path = t.path
         /\ [t EXCEPT !.router = r, !.kept = k].pinned = t.pinned
         /\ [t EXCEPT !.router = r, !.kept = k].kept = k
         /\ [t EXCEPT !.router = r, !.kept = k].stray = t.stray
         /\ [t EXCEPT !.router = r, !.kept = k].router = r
         /\ [t EXCEPT !.router = r, !.kept = k].index = t.index
         /\ [t EXCEPT !.router = r, !.kept = k].length = t.length
         /\ [t EXCEPT !.router = r, !.kept = k].ref = t.ref
<1> DEFINE u == [t EXCEPT !.router = r, !.kept = k]
<1>1. /\ u.id = t.id /\ u.path = t.path /\ u.pinned = t.pinned /\ u.kept = k /\ u.stray = t.stray
      /\ u.router = r /\ u.index = t.index /\ u.length = t.length /\ u.ref = t.ref
  BY DEF Tab
<1>2. u \in Tab
  BY DEF Tab
<1> QED BY <1>1, <1>2

(* The history variable alone changes.                                     *)
LEMMA StrayOK ==
  ASSUME NEW t \in Tab, NEW b
  PROVE  /\ [t EXCEPT !.stray = @ \/ b] \in Tab
         /\ [t EXCEPT !.stray = @ \/ b].id = t.id
         /\ [t EXCEPT !.stray = @ \/ b].path = t.path
         /\ [t EXCEPT !.stray = @ \/ b].pinned = t.pinned
         /\ [t EXCEPT !.stray = @ \/ b].kept = t.kept
         /\ [t EXCEPT !.stray = @ \/ b].router = t.router
         /\ [t EXCEPT !.stray = @ \/ b].index = t.index
         /\ [t EXCEPT !.stray = @ \/ b].length = t.length
         /\ [t EXCEPT !.stray = @ \/ b].ref = t.ref
         /\ [t EXCEPT !.stray = @ \/ b].stray <=> t.stray \/ b
<1> DEFINE v == t.stray \/ b
           u == [t EXCEPT !.stray = @ \/ b]
<1>1. u = [t EXCEPT !.stray = v]
  OBVIOUS
<1>2. v \in BOOLEAN /\ (v <=> t.stray \/ b)
  OBVIOUS
<1> HIDE DEF v, u
<1>3. /\ u.id = t.id /\ u.path = t.path /\ u.pinned = t.pinned /\ u.kept = t.kept /\ u.stray = v
      /\ u.router = t.router /\ u.index = t.index /\ u.length = t.length /\ u.ref = t.ref
  BY <1>1 DEF Tab
<1>4. u \in Tab
  BY <1>1, <1>2 DEF Tab
<1> QED BY <1>2, <1>3, <1>4 DEF u

LEMMA RoutedOK ==
  ASSUME NEW t \in Tab, NEW r \in Router
  PROVE  /\ [t EXCEPT !.router = r] \in Tab
         /\ [t EXCEPT !.router = r].id = t.id
         /\ [t EXCEPT !.router = r].path = t.path
         /\ [t EXCEPT !.router = r].pinned = t.pinned
         /\ [t EXCEPT !.router = r].kept = t.kept
         /\ [t EXCEPT !.router = r].stray = t.stray
         /\ [t EXCEPT !.router = r].router = r
         /\ [t EXCEPT !.router = r].index = t.index
         /\ [t EXCEPT !.router = r].length = t.length
         /\ [t EXCEPT !.router = r].ref = t.ref
<1> DEFINE u == [t EXCEPT !.router = r]
<1>1. /\ u.id = t.id /\ u.path = t.path /\ u.pinned = t.pinned /\ u.kept = t.kept
      /\ u.stray = t.stray /\ u.router = r /\ u.index = t.index /\ u.length = t.length
      /\ u.ref = t.ref
  BY DEF Tab
<1>2. u \in Tab
  BY DEF Tab
<1> QED BY <1>1, <1>2

LEMMA NavigatePushGood ==
  ASSUME NEW s, NEW c, StoreGood(s, c), c.ws = s.ws, NEW i, Holds(s, i), NEW p \in Path,
         IsActive(s, i) /\ Sane(p) => p.ws = s.ws,
         IsActive(s, i) /\ TabOf(s, i).pinned => Location(TabOf(s, i).router) = p
  PROVE  StoreGood(NavigatePush(s, i, p), c) /\ Steady(s, NavigatePush(s, i, p))
<1> DEFINE t == TabOf(s, i)
           w == Owner(s, i)
           r == Pushed(t.router, p)
           index == t.ref.index + 1
           length == t.ref.index + 2
           moved == IF IsActive(s, i) THEN Synced(t, r, t.ref.index + 1, t.ref.index + 2)
                    ELSE [t EXCEPT !.router = r, !.kept = FALSE]
           b == Strays(s, i, p)
           u == [moved EXCEPT !.stray = @ \/ b]
<1>1. NavigatePush(s, i, p) = SetTab(s, i, u)
  BY DEF NavigatePush
<1>2. /\ TabGood(t, w, c) /\ t \in Tab /\ t.id = i
      /\ IsActive(s, i) => w = s.ws
  BY HeldGood
<1> HIDE DEF t, w
<1>3. /\ t.router \in Router /\ Len(t.router.stack) \in Nat
      /\ t.router.at \in 1 .. Len(t.router.stack) /\ t.ref \in [index : Int, length : Int]
  BY <1>2, TabFields
<1>4. /\ r \in Router /\ r.at = t.router.at + 1 /\ Len(r.stack) = t.router.at + 1
      /\ \A k \in 1 .. t.router.at + 1 :
           r.stack[k] = IF k = t.router.at + 1 THEN p ELSE t.router.stack[k]
      /\ Location(r) = p
  BY <1>3, PushedOK
<1> HIDE DEF r
<1>5. /\ moved \in Tab /\ moved.id = i /\ moved.pinned = t.pinned /\ moved.stray = t.stray
      /\ moved.router = r
      /\ IsActive(s, i) => /\ moved.kept = t.kept /\ moved.path = p
                           /\ moved.index = t.ref.index + 1 /\ moved.length = t.ref.index + 2
                           /\ moved.ref.index = moved.index /\ moved.ref.length = moved.length
      /\ ~IsActive(s, i) => moved.kept = FALSE /\ moved.path = t.path
  <2>1. CASE IsActive(s, i)
    <3>1. t.ref.index + 1 \in Int /\ t.ref.index + 2 \in Int
      BY <1>3
    <3>2. moved = Synced(t, r, index, length)
      BY <2>1
    <3> HIDE DEF moved, index, length
    <3>3. index \in Int /\ length \in Int
      BY <3>1 DEF index, length
    <3>4. /\ moved \in Tab /\ moved.id = t.id /\ moved.pinned = t.pinned
          /\ moved.kept = t.kept /\ moved.stray = t.stray
          /\ moved.router = r /\ moved.path = Location(r)
          /\ moved.index = index /\ moved.length = length
          /\ moved.ref.index = index /\ moved.ref.length = length
      BY <1>2, <1>4, <3>2, <3>3, SyncedOK
    <3> QED BY <1>2, <1>4, <2>1, <3>4 DEF index, length
  <2>2. CASE ~IsActive(s, i)
    <3>1. moved = [t EXCEPT !.router = r, !.kept = FALSE]
      BY <2>2
    <3> HIDE DEF moved
    <3> QED BY <1>2, <1>4, <2>2, <3>1, HiddenOK
  <2> QED BY <2>1, <2>2
<1> HIDE DEF moved, b
<1>6. /\ u \in Tab /\ u.id = moved.id /\ u.path = moved.path /\ u.pinned = moved.pinned
      /\ u.kept = moved.kept /\ u.router = moved.router /\ u.index = moved.index
      /\ u.length = moved.length /\ u.ref = moved.ref
      /\ (u.stray <=> moved.stray \/ b)
  BY <1>5, StrayOK
<1> HIDE DEF u
<1>7. b <=> (p.ws = None \/ (~IsActive(s, i) /\ p.ws # w))
  BY DEF b, Strays, w
<1>8. u.id \notin c.but => AtHome(u, w)
  <2> SUFFICES ASSUME u.id \notin c.but, ~u.stray
               PROVE  u.path.ws = w /\ \A k \in 1 .. Len(r.stack) : r.stack[k].ws = w
    BY <1>5, <1>6 DEF AtHome
  <2>1. /\ ~t.stray /\ p.ws # None /\ (IsActive(s, i) \/ p.ws = w)
    BY <1>5, <1>6, <1>7
  <2>2. p.ws = w
    BY <1>2, <2>1 DEF Sane
  <2>3. t.path.ws = w /\ \A k \in 1 .. Len(t.router.stack) : t.router.stack[k].ws = w
    BY <1>2, <1>5, <1>6, <2>1 DEF TabGood, AtHome
  <2>4. \A k \in 1 .. Len(r.stack) : r.stack[k].ws = w
    BY <1>3, <1>4, <2>2, <2>3
  <2>5. u.path.ws = w
    BY <1>5, <1>6, <2>2, <2>3
  <2> QED BY <2>4, <2>5
<1>9. Trail(u) /\ Counted(u)
  <2>1. CASE IsActive(s, i)
    <3>1. t.kept => t.ref.index = t.router.at - 1
      BY <1>2, <2>1 DEF TabGood, Trail, Counted
    <3> QED BY <1>3, <1>4, <1>5, <1>6, <2>1, <3>1 DEF Trail, Counted
  <2>2. CASE ~IsActive(s, i)
    BY <1>5, <1>6, <2>2 DEF Trail, Counted
  <2> QED BY <2>1, <2>2
<1>10. TabGood(u, w, c) /\ u.id = i /\ u.pinned = t.pinned
  BY <1>5, <1>6, <1>8, <1>9 DEF TabGood
<1>11. IsActive(s, i) /\ t.pinned => Parks(t, u)
  BY <1>4, <1>5, <1>6 DEF Parks, t
<1> QED BY <1>1, <1>10, <1>11, SetTabGood, SetTabSteady DEF t, w

LEMMA NavigateReplaceGood ==
  ASSUME NEW s, NEW c, StoreGood(s, c), c.ws = s.ws, NEW i, Holds(s, i), NEW p \in Path,
         IsActive(s, i) /\ Sane(p) /\ ~TabOf(s, i).stray => p.ws = s.ws
  PROVE  StoreGood(NavigateReplace(s, i, p), c) /\ Steady(s, NavigateReplace(s, i, p))
<1> DEFINE t == TabOf(s, i)
           w == Owner(s, i)
           r == Replaced(t.router, p)
           index == t.ref.index
           length == t.ref.length
           moved == IF IsActive(s, i) THEN Synced(t, r, t.ref.index, t.ref.length)
                    ELSE [t EXCEPT !.router = r]
           b == Strays(s, i, p)
           u == [moved EXCEPT !.stray = @ \/ b]
<1>1. NavigateReplace(s, i, p) = SetTab(s, i, u)
  BY DEF NavigateReplace
<1>2. /\ TabGood(t, w, c) /\ t \in Tab /\ t.id = i
      /\ IsActive(s, i) => w = s.ws
  BY HeldGood
<1> HIDE DEF t, w
<1>3. /\ t.router \in Router /\ Len(t.router.stack) \in Nat
      /\ t.router.at \in 1 .. Len(t.router.stack) /\ t.ref \in [index : Int, length : Int]
  BY <1>2, TabFields
<1>4. /\ r \in Router /\ r.at = t.router.at /\ Len(r.stack) = Len(t.router.stack)
      /\ \A k \in 1 .. Len(t.router.stack) :
           r.stack[k] = IF k = t.router.at THEN p ELSE t.router.stack[k]
      /\ Location(r) = p
  BY <1>3, ReplacedOK
<1> HIDE DEF r
<1>5. /\ moved \in Tab /\ moved.id = i /\ moved.pinned = t.pinned /\ moved.stray = t.stray
      /\ moved.router = r /\ moved.kept = t.kept
      /\ IsActive(s, i) => /\ moved.path = p
                           /\ moved.index = t.ref.index /\ moved.length = t.ref.length
                           /\ moved.ref.index = moved.index /\ moved.ref.length = moved.length
      /\ ~IsActive(s, i) => /\ moved.path = t.path /\ moved.index = t.index
                            /\ moved.length = t.length /\ moved.ref = t.ref
  <2>1. CASE IsActive(s, i)
    <3>1. t.ref.index \in Int /\ t.ref.length \in Int
      BY <1>3
    <3>2. moved = Synced(t, r, index, length)
      BY <2>1
    <3> HIDE DEF moved, index, length
    <3>3. index \in Int /\ length \in Int
      BY <3>1 DEF index, length
    <3>4. /\ moved \in Tab /\ moved.id = t.id /\ moved.pinned = t.pinned
          /\ moved.kept = t.kept /\ moved.stray = t.stray
          /\ moved.router = r /\ moved.path = Location(r)
          /\ moved.index = index /\ moved.length = length
          /\ moved.ref.index = index /\ moved.ref.length = length
      BY <1>2, <1>4, <3>2, <3>3, SyncedOK
    <3> QED BY <1>2, <1>4, <2>1, <3>4 DEF index, length
  <2>2. CASE ~IsActive(s, i)
    <3>1. moved = [t EXCEPT !.router = r]
      BY <2>2
    <3> HIDE DEF moved
    <3> QED BY <1>2, <1>4, <2>2, <3>1, RoutedOK
  <2> QED BY <2>1, <2>2
<1> HIDE DEF moved, b
<1>6. /\ u \in Tab /\ u.id = moved.id /\ u.path = moved.path /\ u.pinned = moved.pinned
      /\ u.kept = moved.kept /\ u.router = moved.router /\ u.index = moved.index
      /\ u.length = moved.length /\ u.ref = moved.ref
      /\ (u.stray <=> moved.stray \/ b)
  BY <1>5, StrayOK
<1> HIDE DEF u
<1>7. b <=> (p.ws = None \/ (~IsActive(s, i) /\ p.ws # w))
  BY DEF b, Strays, w
<1>8. u.id \notin c.but => AtHome(u, w)
  <2> SUFFICES ASSUME u.id \notin c.but, ~u.stray
               PROVE  u.path.ws = w /\ \A k \in 1 .. Len(r.stack) : r.stack[k].ws = w
    BY <1>5, <1>6 DEF AtHome
  <2>1. /\ ~t.stray /\ p.ws # None /\ (IsActive(s, i) \/ p.ws = w)
    BY <1>5, <1>6, <1>7
  <2>2. p.ws = w
    BY <1>2, <2>1 DEF Sane, t
  <2>3. t.path.ws = w /\ \A k \in 1 .. Len(t.router.stack) : t.router.stack[k].ws = w
    BY <1>2, <1>5, <1>6, <2>1 DEF TabGood, AtHome
  <2>4. \A k \in 1 .. Len(r.stack) : r.stack[k].ws = w
    BY <1>3, <1>4, <2>2, <2>3
  <2>5. u.path.ws = w
    BY <1>5, <1>6, <2>2, <2>3
  <2> QED BY <2>4, <2>5
<1>9. Trail(u) /\ (w = c.ws => Counted(u))
  <2>1. CASE IsActive(s, i)
    <3>1. t.kept => t.ref.index = t.router.at - 1 /\ t.ref.length = Len(t.router.stack)
      BY <1>2, <2>1 DEF TabGood, Trail, Counted
    <3> QED BY <1>3, <1>4, <1>5, <1>6, <2>1, <3>1 DEF Trail, Counted
  <2>2. CASE ~IsActive(s, i)
    BY <1>2, <1>4, <1>5, <1>6, <2>2 DEF TabGood, Trail, Counted
  <2> QED BY <2>1, <2>2
<1>10. TabGood(u, w, c) /\ u.id = i /\ u.pinned = t.pinned
  BY <1>5, <1>6, <1>8, <1>9 DEF TabGood
<1>11. Parks(t, u)
  BY <1>3, <1>4, <1>5, <1>6 DEF Parks
<1> QED BY <1>1, <1>10, <1>11, SetTabGood, SetTabSteady DEF t, w

LEMMA NavigatePopGood ==
  ASSUME NEW s, NEW c, StoreGood(s, c), c.ws = s.ws, NEW i, Holds(s, i), NEW forward \in BOOLEAN
  PROVE  StoreGood(NavigatePop(s, i, forward), c) /\ Steady(s, NavigatePop(s, i, forward))
<1> DEFINE t == TabOf(s, i)
           w == Owner(s, i)
           d == IF forward THEN 1 ELSE -1
           r == Gone(t.router, d)
           index == PopIndex(t, forward)
           length == t.ref.length
           u == IF IsActive(s, i) THEN Synced(t, r, index, length)
                ELSE [t EXCEPT !.router = r, !.kept = FALSE]
<1>1. NavigatePop(s, i, forward) = SetTab(s, i, u)
  BY DEF NavigatePop
<1>2. /\ TabGood(t, w, c) /\ t \in Tab /\ t.id = i
      /\ IsActive(s, i) => w = s.ws
  BY HeldGood
<1> HIDE DEF t, w
<1>3. /\ t.router \in Router /\ Len(t.router.stack) \in Nat
      /\ t.router.at \in 1 .. Len(t.router.stack) /\ t.ref \in [index : Int, length : Int]
  BY <1>2, TabFields
<1>0. d \in {1, -1}
  OBVIOUS
<1>4. /\ r \in Router /\ r.stack = t.router.stack
      /\ r.at = IF d = 1 THEN IF t.router.at < Len(t.router.stack) THEN t.router.at + 1
                              ELSE Len(t.router.stack)
                ELSE IF t.router.at > 1 THEN t.router.at - 1 ELSE 1
  <2> HIDE DEF d
  <2> QED BY <1>0, <1>3, GoneOK
<1>5. index \in Int /\ length \in Int
  BY <1>3 DEF PopIndex
<1>6. index = IF forward THEN IF t.ref.index + 1 < length THEN t.ref.index + 1 ELSE length - 1
              ELSE IF t.ref.index > 0 THEN t.ref.index - 1 ELSE 0
  BY DEF PopIndex
<1>7. d = 1 <=> forward
  OBVIOUS
<1> HIDE DEF r, index, d
<1>8. CASE IsActive(s, i)
  <2>1. u = Synced(t, r, index, length)
    BY <1>8
  <2> HIDE DEF u
  <2>2. /\ u \in Tab /\ u.id = t.id /\ u.pinned = t.pinned /\ u.kept = t.kept /\ u.stray = t.stray
        /\ u.router = r /\ u.path = Location(r) /\ u.index = index /\ u.length = length
        /\ u.ref.index = index /\ u.ref.length = length
    BY <1>2, <1>4, <1>5, <2>1, SyncedOK
  <2>3. r.at \in 1 .. Len(r.stack)
    BY <1>4 DEF Router
  <2>4. AtHome(t, w) => AtHome(u, w)
    BY <1>4, <2>2, <2>3 DEF AtHome, Location
  <2>5. t.kept => t.ref.index = t.router.at - 1 /\ length = Len(t.router.stack)
    BY <1>2, <1>8 DEF TabGood, Trail, Counted
  <2>6. t.kept => index = r.at - 1 /\ length = Len(r.stack)
    BY <1>3, <1>4, <1>6, <1>7, <2>5
  <2>7. TabGood(u, w, c)
    BY <1>2, <2>2, <2>4, <2>6 DEF TabGood, Trail, Counted
  <2>8. Parks(t, u)
    BY <1>4, <2>2 DEF Parks
  <2> QED BY <1>1, <1>2, <2>2, <2>7, <2>8, SetTabGood, SetTabSteady DEF t, w
<1>9. CASE ~IsActive(s, i)
  <2>1. u = [t EXCEPT !.router = r, !.kept = FALSE]
    BY <1>9
  <2> HIDE DEF u
  <2>2. /\ u \in Tab /\ u.id = t.id /\ u.pinned = t.pinned /\ u.kept = FALSE /\ u.stray = t.stray
        /\ u.router = r /\ u.path = t.path
    BY <1>2, <1>4, <2>1, HiddenOK
  <2>3. TabGood(u, w, c)
    BY <1>2, <1>4, <2>2 DEF TabGood, AtHome, Trail, Counted
  <2> QED BY <1>1, <1>2, <1>9, <2>2, <2>3, SetTabGood, SetTabSteady DEF t, w
<1> QED BY <1>8, <1>9

LEMMA ReloadedOK ==
  ASSUME NEW t \in Tab, NEW r \in Router, NEW index \in Int, NEW length \in Int, NEW k \in BOOLEAN
  PROVE  [t EXCEPT !.router = r, !.index = index, !.length = length, !.kept = k] \in Tab
BY DEF Tab

LEMMA ReloadActiveTabGood ==
  ASSUME NEW s, NEW c, StoreGood(s, c), c.ws = s.ws, s.ws # None
  PROVE  StoreGood(ReloadActiveTab(s), c) /\ Steady(s, ReloadActiveTab(s))
<1> DEFINE i == ActiveId(s)
           t == TabOf(s, i)
           w == Owner(s, i)
           k == (t.ref = NewRef)
           u == [t EXCEPT !.router = NewRouter(t.path), !.index = 0, !.length = 1, !.kept = k]
<1>1. ReloadActiveTab(s) = SetTab(s, i, u)
  BY DEF ReloadActiveTab
<1>2. Holds(s, i) /\ IsActive(s, i)
  BY ActiveOK DEF IsActive
<1>3. TabGood(t, w, c) /\ t \in Tab /\ t.id = i
  BY <1>2, HeldGood
<1> HIDE DEF i, t, w
<1>4. t.path \in Path /\ t.router.at \in Nat /\ t.router.at >= 1
  <2>1. /\ t.path \in Path /\ Len(t.router.stack) \in Nat
        /\ t.router.at \in 1 .. Len(t.router.stack)
    BY <1>3, TabFields
  <2> QED BY <2>1
<1>5. <<t.path>> \in Seq(Path) /\ Len(<<t.path>>) = 1 /\ <<t.path>>[1] = t.path
  BY <1>4
<1>6. NewRouter(t.path) \in Router /\ NewRouter(t.path).stack = <<t.path>> /\ NewRouter(t.path).at = 1
  BY <1>5 DEF NewRouter, Router
<1>7. k \in BOOLEAN /\ (k => t.ref.index = 0 /\ t.ref.length = 1)
  BY DEF NewRef
<1> HIDE DEF k, u
<1>8. /\ u.id = t.id /\ u.path = t.path /\ u.pinned = t.pinned /\ u.kept = k /\ u.stray = t.stray
      /\ u.router = NewRouter(t.path) /\ u.index = 0 /\ u.length = 1 /\ u.ref = t.ref
  BY <1>3 DEF Tab, u
<1>9. u \in Tab
  <2>1. u = [t EXCEPT !.router = NewRouter(t.path), !.index = 0, !.length = 1, !.kept = k]
    BY DEF u
  <2>2. NewRouter(t.path) \in Router /\ k \in BOOLEAN
    BY <1>6, <1>7
  <2>3. 0 \in Int /\ 1 \in Int
    OBVIOUS
  <2> QED BY <1>3, <2>1, <2>2, <2>3, ReloadedOK
<1>10. AtHome(t, w) => AtHome(u, w)
  BY <1>5, <1>6, <1>8 DEF AtHome
<1>11. Trail(u) /\ Counted(u)
  BY <1>5, <1>6, <1>7, <1>8 DEF Trail, Counted
<1>12. TabGood(u, w, c)
  BY <1>3, <1>8, <1>9, <1>10, <1>11 DEF TabGood
<1>13. Parks(t, u)
  BY <1>4, <1>6, <1>8 DEF Parks
<1> QED BY <1>1, <1>2, <1>3, <1>8, <1>12, <1>13, SetTabGood, SetTabSteady DEF t, w

-----------------------------------------------------------------------------
(* React's commit: what mounting and the effects leave of each tab.        *)

LEMMA RefOK ==
  ASSUME NEW t \in Tab, NEW f \in [index : Int, length : Int]
  PROVE  /\ [t EXCEPT !.ref = f] \in Tab
         /\ [t EXCEPT !.ref = f].id = t.id
         /\ [t EXCEPT !.ref = f].path = t.path
         /\ [t EXCEPT !.ref = f].pinned = t.pinned
         /\ [t EXCEPT !.ref = f].kept = t.kept
         /\ [t EXCEPT !.ref = f].stray = t.stray
         /\ [t EXCEPT !.ref = f].router = t.router
         /\ [t EXCEPT !.ref = f].index = t.index
         /\ [t EXCEPT !.ref = f].length = t.length
         /\ [t EXCEPT !.ref = f].ref = f
<1> DEFINE u == [t EXCEPT !.ref = f]
<1>1. /\ u.id = t.id /\ u.path = t.path /\ u.pinned = t.pinned /\ u.kept = t.kept
      /\ u.stray = t.stray /\ u.router = t.router /\ u.index = t.index /\ u.length = t.length
      /\ u.ref = f
  BY DEF Tab
<1>2. u \in Tab
  BY DEF Tab
<1> QED BY <1>1, <1>2

LEMMA MountTabOK ==
  ASSUME NEW t \in Tab
  PROVE  /\ MountTab(t) \in Tab
         /\ MountTab(t).id = t.id /\ MountTab(t).path = t.path /\ MountTab(t).pinned = t.pinned
         /\ MountTab(t).stray = t.stray /\ MountTab(t).router = t.router
         /\ MountTab(t).index = t.index /\ MountTab(t).length = t.length
         /\ MountTab(t).ref = NewRef
         /\ MountTab(t).kept => t.kept /\ t.index = 0 /\ t.length = 1
<1> DEFINE open == t.kept /\ Len(t.router.stack) = 1 /\ t.index = 0 /\ t.length = 1
<1>1. \E k \in BOOLEAN : k = open
  OBVIOUS
<1>2. MountTab(t) = [t EXCEPT !.ref = NewRef, !.kept = open]
  BY DEF MountTab
<1>3. PICK k \in BOOLEAN : k = open
  BY <1>1
<1>4. MountTab(t) = [t EXCEPT !.ref = NewRef, !.kept = k]
  BY <1>2, <1>3
<1>5. NewRef \in [index : Int, length : Int]
  BY DEF NewRef
<1>6. k => t.kept /\ t.index = 0 /\ t.length = 1
  BY <1>3
<1> HIDE DEF open
<1>7. /\ MountTab(t) \in Tab
      /\ MountTab(t).id = t.id /\ MountTab(t).path = t.path /\ MountTab(t).pinned = t.pinned
      /\ MountTab(t).kept = k
      /\ MountTab(t).stray = t.stray /\ MountTab(t).router = t.router
      /\ MountTab(t).index = t.index /\ MountTab(t).length = t.length
      /\ MountTab(t).ref = NewRef
  <2> DEFINE m == MountTab(t)
             f == NewRef
  <2>1. m = [t EXCEPT !.ref = f, !.kept = k] /\ f \in [index : Int, length : Int]
    BY <1>4, <1>5
  <2> HIDE DEF m, f
  <2>2. /\ m.id = t.id /\ m.path = t.path /\ m.pinned = t.pinned /\ m.kept = k
        /\ m.stray = t.stray /\ m.router = t.router /\ m.index = t.index /\ m.length = t.length
        /\ m.ref = f
    BY <2>1 DEF Tab
  <2>3. m \in Tab
    BY <2>1 DEF Tab
  <2> QED BY <2>2, <2>3 DEF m, f
<1> QED BY <1>6, <1>7

LEMMA SyncInitialOK ==
  ASSUME NEW t \in Tab
  PROVE  /\ SyncInitial(t) \in Tab
         /\ SyncInitial(t).id = t.id
         /\ SyncInitial(t).path = t.router.stack[t.router.at]
         /\ SyncInitial(t).pinned = t.pinned
         /\ SyncInitial(t).kept = t.kept
         /\ SyncInitial(t).stray = t.stray
         /\ SyncInitial(t).router = t.router
         /\ SyncInitial(t).index = t.index
         /\ SyncInitial(t).length = t.length
         /\ SyncInitial(t).ref = t.ref
<1> DEFINE p == t.router.stack[t.router.at]
           u == [t EXCEPT !.path = p]
<1>1. t.router.stack \in Seq(Path) /\ t.router.at \in 1 .. Len(t.router.stack)
  BY TabFields
<1>2. p \in Path
  BY <1>1
<1> HIDE DEF p
<1>3. /\ u.id = t.id /\ u.path = p /\ u.pinned = t.pinned /\ u.kept = t.kept
      /\ u.stray = t.stray /\ u.router = t.router /\ u.index = t.index /\ u.length = t.length
      /\ u.ref = t.ref
  BY DEF Tab
<1>4. u \in Tab
  BY <1>2 DEF Tab
<1>5. SyncInitial(t) = u
  BY DEF SyncInitial, Location, p
<1> QED BY <1>3, <1>4, <1>5 DEF p

LEMMA CommittedGood ==
  ASSUME NEW old, NEW s, NEW w, NEW t, TabGood(t, w, [ws |-> old.ws, but |-> {}])
  PROVE  /\ TabGood(Committed(old, s, w, t), w, Now(s))
         /\ Committed(old, s, w, t).id = t.id
         /\ Committed(old, s, w, t).pinned = t.pinned
         /\ Committed(old, s, w, t).router = t.router
<1> DEFINE m == IF ~Mounted(s, w) THEN [t EXCEPT !.ref = NewRef]
                ELSE IF WasMounted(old, w, t.id) THEN t ELSE MountTab(t)
           u == Committed(old, s, w, t)
<1>1. t \in Tab /\ AtHome(t, w) /\ Trail(t) /\ (w = old.ws => Counted(t))
  BY DEF TabGood
<1>2. NewRef \in [index : Int, length : Int] /\ NewRef.index = 0 /\ NewRef.length = 1
  BY DEF NewRef
<1>3. u = IF IsActive(s, t.id) THEN SyncInitial(m) ELSE m
  BY DEF Committed
<1>4. /\ m \in Tab /\ m.id = t.id /\ m.path = t.path /\ m.pinned = t.pinned /\ m.stray = t.stray
      /\ m.router = t.router /\ m.index = t.index /\ m.length = t.length
      /\ (m.kept => t.kept)
      /\ (w = s.ws => Counted(m))
  <2>1. CASE ~Mounted(s, w)
    <3>1. m = [t EXCEPT !.ref = NewRef]
      BY <2>1
    <3>2. w # s.ws
      BY <2>1 DEF Mounted
    <3> HIDE DEF m
    <3> QED BY <1>1, <1>2, <3>1, <3>2, RefOK
  <2>2. CASE Mounted(s, w) /\ WasMounted(old, w, t.id)
    <3>1. m = t
      BY <2>2
    <3>2. w = old.ws
      BY <2>2 DEF WasMounted, Mounted
    <3> HIDE DEF m
    <3> QED BY <1>1, <3>1, <3>2
  <2>3. CASE Mounted(s, w) /\ ~WasMounted(old, w, t.id)
    <3>1. m = MountTab(t)
      BY <2>3
    <3> HIDE DEF m
    <3>2. /\ m \in Tab /\ m.id = t.id /\ m.path = t.path /\ m.pinned = t.pinned
          /\ m.stray = t.stray /\ m.router = t.router /\ m.index = t.index /\ m.length = t.length
          /\ m.ref = NewRef
          /\ (m.kept => t.kept /\ t.index = 0 /\ t.length = 1)
      BY <1>1, <3>1, MountTabOK
    <3> QED BY <1>2, <3>2 DEF Counted
  <2> QED BY <2>1, <2>2, <2>3
<1> HIDE DEF m, u
<1>5. /\ u \in Tab /\ u.id = t.id /\ u.pinned = t.pinned /\ u.stray = t.stray
      /\ u.router = t.router /\ u.index = t.index /\ u.length = t.length /\ u.kept = m.kept
      /\ u.ref = m.ref
      /\ u.path \in {t.path, t.router.stack[t.router.at]}
  <2>1. CASE IsActive(s, t.id)
    BY <1>3, <1>4, <2>1, SyncInitialOK
  <2>2. CASE ~IsActive(s, t.id)
    BY <1>3, <1>4, <2>2
  <2> QED BY <2>1, <2>2
<1>6. t.router.at \in 1 .. Len(t.router.stack)
  BY <1>1, TabFields
<1>7. AtHome(u, w)
  BY <1>1, <1>5, <1>6 DEF AtHome
<1>8. Trail(u) /\ (w = s.ws => Counted(u))
  BY <1>1, <1>4, <1>5 DEF Trail, Counted
<1>9. TabGood(u, w, Now(s))
  BY <1>5, <1>7, <1>8 DEF TabGood, Now
<1> QED BY <1>5, <1>9 DEF u

LEMMA CommitGood ==
  ASSUME NEW old, NEW s, StoreGood(s, [ws |-> old.ws, but |-> {}])
  PROVE  /\ StoreGood(Commit(old, s), Now(Commit(old, s)))
         /\ Shadows(s, Commit(old, s))
<1> DEFINE c == [ws |-> old.ws, but |-> {}]
           r == Commit(old, s)
           new(w) == [n \in DOMAIN s.by[w].tabs |-> Committed(old, s, w, s.by[w].tabs[n])]
<1>1. /\ r = [ws |-> r.ws, by |-> r.by] /\ r.ws = s.ws
      /\ DOMAIN r.by = DOMAIN s.by /\ r.by = [w \in DOMAIN r.by |-> r.by[w]]
      /\ \A w \in DOMAIN s.by : r.by[w] = [tabs |-> new(w), active |-> s.by[w].active]
  BY DEF Commit
<1> HIDE DEF r
<1>2. Now(r) = Now(s)
  BY <1>1 DEF Now
<1>3. ASSUME NEW w \in DOMAIN s.by
      PROVE  /\ GroupGood(r.by[w], w, Now(s))
             /\ Len(r.by[w].tabs) = Len(s.by[w].tabs)
             /\ \A n \in 1 .. Len(s.by[w].tabs) :
                  /\ r.by[w].tabs[n].id = s.by[w].tabs[n].id
                  /\ r.by[w].tabs[n].router = s.by[w].tabs[n].router
  <2> DEFINE tabs == s.by[w].tabs
             nt == new(w)
  <2>1. /\ tabs \in Seq(Tab) /\ Len(tabs) \in Nat /\ DOMAIN tabs = 1 .. Len(tabs)
        /\ PinsFirst(tabs) /\ Distinct(tabs) /\ Has(tabs, s.by[w].active)
        /\ \A n \in 1 .. Len(tabs) : TabGood(tabs[n], w, c)
    BY GroupFacts
  <2>2. \A n \in 1 .. Len(tabs) :
          /\ TabGood(Committed(old, s, w, tabs[n]), w, Now(s))
          /\ Committed(old, s, w, tabs[n]).id = tabs[n].id
          /\ Committed(old, s, w, tabs[n]).pinned = tabs[n].pinned
          /\ Committed(old, s, w, tabs[n]).router = tabs[n].router
    BY <2>1, CommittedGood
  <2>3. nt = [n \in 1 .. Len(tabs) |-> Committed(old, s, w, tabs[n])]
    BY <2>1
  <2> HIDE DEF nt, tabs
  <2>4. \A n \in 1 .. Len(tabs) : nt[n] = Committed(old, s, w, tabs[n])
    BY <2>3
  <2>5. \A n \in 1 .. Len(tabs) : Committed(old, s, w, tabs[n]) \in Tab
    BY <2>2 DEF TabGood
  <2>6. nt \in Seq(Tab) /\ Len(nt) = Len(tabs)
    BY <2>1, <2>3, <2>5
  <2>7. PinsFirst(nt) /\ Distinct(nt) /\ Has(nt, s.by[w].active)
    BY <2>1, <2>2, <2>4, <2>6 DEF PinsFirst, Distinct, Has
  <2>8. TabsGood(nt, w, Now(s))
    BY <2>2, <2>4, <2>6, <2>7 DEF TabsGood
  <2>9. r.by[w] = [tabs |-> nt, active |-> s.by[w].active]
    BY <1>1 DEF nt
  <2>10. GroupGood(r.by[w], w, Now(s))
    BY <2>7, <2>8, <2>9 DEF GroupGood
  <2> QED BY <2>2, <2>4, <2>6, <2>9, <2>10 DEF tabs
<1>4. Apart(r.by)
  BY <1>1, <1>3 DEF StoreGood, Apart
<1>5. StoreGood(r, Now(r))
  BY <1>1, <1>2, <1>3, <1>4 DEF StoreGood
<1>6. Shadows(s, r)
  <2> SUFFICES ASSUME NEW u \in TabsIn(r)
               PROVE  \E t \in TabsIn(s) : t.id = u.id /\ t.router = u.router
    BY DEF Shadows
  <2>1. PICK w \in DOMAIN r.by : \E n \in 1 .. Len(r.by[w].tabs) : u = r.by[w].tabs[n]
    BY <1>5, TabsInOK
  <2>2. PICK n \in 1 .. Len(r.by[w].tabs) : u = r.by[w].tabs[n]
    BY <2>1
  <2>3. w \in DOMAIN s.by /\ n \in 1 .. Len(s.by[w].tabs)
    BY <1>1, <1>3, <2>2
  <2>4. s.by[w].tabs[n] \in TabsIn(s)
    BY <2>3, TabIn
  <2> QED BY <1>3, <2>2, <2>3, <2>4
<1> QED BY <1>5, <1>6 DEF r

-----------------------------------------------------------------------------
(* Groups dropped because their workspace is gone.                         *)

(* A step after which every router is at its first entry moves no tab on.  *)
LEMMA FirstEntrySteady ==
  ASSUME NEW s, NEW c, StoreGood(s, c), NEW s2, \A u \in TabsIn(s2) : u.router.at = 1
  PROVE  Steady(s, s2)
<1> SUFFICES ASSUME NEW t \in TabsIn(s), NEW u \in TabsIn(s2)
             PROVE  ~(u.router.at > t.router.at)
  BY DEF Steady, Parks
<1>1. PICK w \in DOMAIN s.by : \E n \in 1 .. Len(s.by[w].tabs) : t = s.by[w].tabs[n]
  BY TabsInOK
<1>2. t \in Tab
  <2>1. \A n \in 1 .. Len(s.by[w].tabs) : s.by[w].tabs[n] \in Tab
    BY GroupFacts
  <2> QED BY <1>1, <2>1
<1>3. t.router.at \in 1 .. Len(t.router.stack) /\ Len(t.router.stack) \in Nat
  BY <1>2, TabFields
<1> QED BY <1>3

LEMMA SurvivingGood ==
  ASSUME NEW s, NEW c, StoreGood(s, c), NEW valid \in SUBSET Slugs, NEW first,
         IsFirst(Surviving(s.by, valid), first), NEW left,
         left = [ws |-> Repoint(Surviving(s.by, valid), s.ws, first), by |-> Surviving(s.by, valid)]
  PROVE  /\ StoreGood(left, c)
         /\ Shadows(s, left)
         /\ {i \in TabIds : Fresh(s, i)} # {} => {i \in TabIds : Fresh(left, i)} # {}
<1>1. /\ DOMAIN left.by = DOMAIN s.by \cap valid
      /\ \A w \in DOMAIN left.by : left.by[w] = s.by[w]
      /\ left.by = [w \in DOMAIN left.by |-> left.by[w]]
      /\ left = [ws |-> left.ws, by |-> left.by]
      /\ left.ws = IF s.ws \in DOMAIN left.by THEN s.ws ELSE first
      /\ IF DOMAIN left.by = {} THEN first = None ELSE first \in DOMAIN left.by
  BY DEF Surviving, Repoint, IsFirst
<1>2. IF DOMAIN left.by = {} THEN left.ws = None ELSE left.ws \in DOMAIN left.by
  BY <1>1
<1>3. \A w \in DOMAIN left.by : w \in Slugs /\ GroupGood(left.by[w], w, c)
  BY <1>1 DEF StoreGood
<1>4. Apart(left.by)
  BY <1>1 DEF StoreGood, Apart
<1>5. StoreGood(left, c)
  BY <1>1, <1>2, <1>3, <1>4 DEF StoreGood
<1>6. TabsIn(left) \subseteq TabsIn(s)
  BY <1>1 DEF TabsIn
<1>7. \A i : Holds(left, i) => Holds(s, i)
  BY <1>1 DEF Holds
<1> QED BY <1>5, <1>6, <1>7 DEF Shadows, Fresh

LEMMA ValidateGood ==
  ASSUME NEW s, NEW c, StoreGood(s, c), {i \in TabIds : Fresh(s, i)} # {},
         NEW valid \in SUBSET Slugs, NEW first, IsFirst(Surviving(s.by, valid), first),
         NEW fallback \in valid \cup {None}
  PROVE  /\ StoreGood(ValidateWorkspaceSlugs(s, valid, first, fallback), c)
         /\ Steady(s, ValidateWorkspaceSlugs(s, valid, first, fallback))
<1> DEFINE by == Surviving(s.by, valid)
           left == [ws |-> Repoint(by, s.ws, first), by |-> by]
           fresh == MakeTab(FreshId(left), DefaultPath(fallback))
           r == ValidateWorkspaceSlugs(s, valid, first, fallback)
<1>1. StoreGood(left, c) /\ Shadows(s, left) /\ {i \in TabIds : Fresh(left, i)} # {}
  BY SurvivingGood
<1>2. DOMAIN left.by = DOMAIN by
  OBVIOUS
<1>3. r = IF DOMAIN by = {} /\ fallback # None
          THEN WithGroup(left, fallback, fallback, <<fresh>>, fresh.id) ELSE left
  BY DEF ValidateWorkspaceSlugs
<1> HIDE DEF left, r, by
<1>4. CASE DOMAIN by = {} /\ fallback # None
  <2>0. fallback \in Slugs
    BY <1>4
  <2>1. DefaultPath(fallback) \in Path /\ DefaultPath(fallback).ws = fallback
    BY <2>0, DefaultPathOK
  <2>2. /\ StoreGood(WithGroup(left, fallback, fallback, <<MakeTab(FreshId(left), DefaultPath(fallback))>>,
                               FreshId(left)), c)
    BY <1>1, <2>0, <2>1, OnlyGood
  <2>3. fresh.id = FreshId(left) /\ fresh.router.at = 1
    BY DEF MakeTab, NewRouter
  <2>4. r = WithGroup(left, fallback, fallback, <<fresh>>, FreshId(left))
    BY <1>3, <1>4, <2>3
  <2>5. StoreGood(r, c)
    BY <2>2, <2>4
  <2>6. DOMAIN r.by = {fallback} /\ r.by[fallback].tabs = <<fresh>>
    <3>1. DOMAIN left.by \cup {fallback} = {fallback}
      BY <1>2, <1>4
    <3> QED BY <2>4, <3>1 DEF WithGroup, Put
  <2> HIDE DEF fresh
  <2>7. ASSUME NEW u \in TabsIn(r) PROVE u.router.at = 1
    <3>1. PICK w \in DOMAIN r.by : \E n \in 1 .. Len(r.by[w].tabs) : u = r.by[w].tabs[n]
      BY <2>5, TabsInOK
    <3>2. w = fallback
      BY <2>6, <3>1
    <3>3. u = fresh
      BY <2>6, <3>1, <3>2
    <3> QED BY <2>3, <3>3
  <2> QED BY <2>5, <2>7, FirstEntrySteady DEF r
<1>5. CASE ~(DOMAIN by = {} /\ fallback # None)
  <2>1. r = left
    BY <1>3, <1>5
  <2>2. Covers(s, left)
    BY <1>1 DEF Shadows, Covers
  <2> QED BY <1>1, <2>1, <2>2, CoversSteady DEF r
<1> QED BY <1>4, <1>5

-----------------------------------------------------------------------------
(* Persisted states and what rehydration makes of them.                    *)

LEMMA FilteredGood ==
  ASSUME NEW w, NEW c, NEW tabs \in Seq(Tab), \A n \in 1 .. Len(tabs) : TabGood(tabs[n], w, c),
         Distinct(tabs), NEW K \in SUBSET (1 .. Len(tabs))
  PROVE  /\ Filtered(tabs, K) \in Seq(Tab) /\ Len(Filtered(tabs, K)) \in Nat
         /\ \A n \in 1 .. Len(Filtered(tabs, K)) :
              /\ TabGood(Filtered(tabs, K)[n], w, c)
              /\ \E m \in K : Filtered(tabs, K)[n] = tabs[m]
         /\ Distinct(Filtered(tabs, K))
         /\ \A m \in K : Has(Filtered(tabs, K), tabs[m].id)
<1> DEFINE L == Cardinality(K)
           f == Filtered(tabs, K)
<1>0. /\ Filtered(tabs, K) \in Seq(Tab)
      /\ Len(Filtered(tabs, K)) = Cardinality(K)
      /\ Cardinality(K) \in Nat
      /\ \A k \in 1 .. Cardinality(K) :
           Position(K, k) \in K /\ Filtered(tabs, K)[k] = tabs[Position(K, k)]
      /\ \A j, k \in 1 .. Cardinality(K) : j < k => Position(K, j) < Position(K, k)
      /\ \A n \in K : \E k \in 1 .. Cardinality(K) : Position(K, k) = n
  <2>1. tabs \in Seq(Tab) /\ K \in SUBSET (1 .. Len(tabs))
    OBVIOUS
  <2> QED BY ONLY <2>1, FilteredFacts
<1>1. /\ f \in Seq(Tab) /\ Len(f) = L /\ L \in Nat
      /\ \A k \in 1 .. L : Position(K, k) \in K /\ f[k] = tabs[Position(K, k)]
      /\ \A j, k \in 1 .. L : j < k => Position(K, j) < Position(K, k)
      /\ \A n \in K : \E k \in 1 .. L : Position(K, k) = n
  BY <1>0, Zenon
<1> HIDE DEF f, L
<1>2. K \subseteq 1 .. Len(tabs) /\ Len(tabs) \in Nat
  BY Entries
<1>3. \A n \in 1 .. L : TabGood(f[n], w, c) /\ \E m \in K : f[n] = tabs[m]
  BY <1>1, <1>2
<1>4. Distinct(f)
  <2> SUFFICES ASSUME NEW j \in 1 .. L, NEW k \in 1 .. L, f[j].id = f[k].id
               PROVE  j = k
    BY <1>1 DEF Distinct
  <2>0. /\ Position(K, j) \in 1 .. Len(tabs) /\ f[j] = tabs[Position(K, j)]
        /\ Position(K, k) \in 1 .. Len(tabs) /\ f[k] = tabs[Position(K, k)]
    <3>1. Position(K, j) \in K /\ f[j] = tabs[Position(K, j)]
      BY <1>1
    <3>2. Position(K, k) \in K /\ f[k] = tabs[Position(K, k)]
      BY <1>1
    <3> QED BY <1>2, <3>1, <3>2
  <2>1. Position(K, j) = Position(K, k)
    BY <2>0 DEF Distinct
  <2>2. Position(K, j) \in Nat
    BY <1>2, <2>0
  <2>3. ~(j < k) /\ ~(k < j)
    BY <1>1, <2>1, <2>2
  <2> QED BY <1>1, <2>3
<1>5. \A m \in K : Has(f, tabs[m].id)
  BY <1>1 DEF Has
<1> QED BY <1>1, <1>3, <1>4, <1>5 DEF f

(* merge's partition: pinned tabs first, none lost.                        *)
Pins(tabs) == {n \in DOMAIN tabs : tabs[n].pinned}
PinsThenRest(tabs) == Filtered(tabs, Pins(tabs)) \o Filtered(tabs, DOMAIN tabs \ Pins(tabs))

(* Two rows of tabs, pinned before unpinned, of different ids.             *)
LEMMA ConcatGood ==
  ASSUME NEW w, NEW c, NEW f \in Seq(Tab), NEW g \in Seq(Tab), Len(f) \in Nat, Len(g) \in Nat,
         \A n \in 1 .. Len(f) : TabGood(f[n], w, c) /\ f[n].pinned,
         \A n \in 1 .. Len(g) : TabGood(g[n], w, c) /\ ~g[n].pinned,
         Distinct(f), Distinct(g),
         \A m \in 1 .. Len(f) : \A n \in 1 .. Len(g) : f[m].id # g[n].id
  PROVE  /\ TabsGood(f \o g, w, c)
         /\ \A n \in 1 .. Len(f \o g) : \/ \E m \in 1 .. Len(f) : (f \o g)[n] = f[m]
                                        \/ \E m \in 1 .. Len(g) : (f \o g)[n] = g[m]
         /\ \A i : Has(f \o g, i) <=> Has(f, i) \/ Has(g, i)
<1> DEFINE r == f \o g
<1>1. /\ r \in Seq(Tab) /\ Len(r) = Len(f) + Len(g)
      /\ \A n \in 1 .. Len(f) + Len(g) : r[n] = IF n <= Len(f) THEN f[n] ELSE g[n - Len(f)]
  BY ConcatProperties
<1> HIDE DEF r
<1>2. \A n \in 1 .. Len(r) : \/ n \in 1 .. Len(f) /\ r[n] = f[n]
                             \/ n > Len(f) /\ n - Len(f) \in 1 .. Len(g) /\ r[n] = g[n - Len(f)]
  BY <1>1
<1>3. /\ \A n \in 1 .. Len(f) : n \in 1 .. Len(r) /\ r[n] = f[n]
      /\ \A n \in 1 .. Len(g) : Len(f) + n \in 1 .. Len(r) /\ r[Len(f) + n] = g[n]
  <2>1. \A n \in 1 .. Len(f) : n \in 1 .. Len(r) /\ r[n] = f[n]
    BY <1>1
  <2>2. ASSUME NEW n \in 1 .. Len(g) PROVE Len(f) + n \in 1 .. Len(r) /\ r[Len(f) + n] = g[n]
    <3>1. Len(f) + n \in 1 .. Len(f) + Len(g) /\ ~(Len(f) + n <= Len(f)) /\ (Len(f) + n) - Len(f) = n
      OBVIOUS
    <3> HIDE DEF r
    <3> QED BY <1>1, <3>1
  <2> QED BY <2>1, <2>2
<1>4. \A n \in 1 .. Len(r) : TabGood(r[n], w, c)
  BY <1>2
<1>5. PinsFirst(r)
  <2> SUFFICES ASSUME NEW m \in 1 .. Len(r), NEW n \in 1 .. Len(r), m < n, r[n].pinned
               PROVE  r[m].pinned
    BY DEF PinsFirst
  <2>1. n \in 1 .. Len(f)
    BY <1>2
  <2>2. m \in 1 .. Len(f)
    BY <1>1, <2>1
  <2> QED BY <1>3, <2>2
<1>6. Distinct(r)
  <2> SUFFICES ASSUME NEW m \in 1 .. Len(r), NEW n \in 1 .. Len(r), r[m].id = r[n].id
               PROVE  m = n
    BY DEF Distinct
  <2>2. CASE m \in 1 .. Len(f) /\ n \in 1 .. Len(f)
    BY <1>3, <2>2 DEF Distinct
  <2>3. CASE m \in 1 .. Len(f) /\ n \notin 1 .. Len(f)
    <3>1. r[m] = f[m] /\ n - Len(f) \in 1 .. Len(g) /\ r[n] = g[n - Len(f)]
      BY <1>2, <1>3, <2>3
    <3>2. f[m].id = g[n - Len(f)].id
      BY <3>1
    <3> QED BY <2>3, <3>1, <3>2
  <2>4. CASE m \notin 1 .. Len(f) /\ n \in 1 .. Len(f)
    <3>1. r[n] = f[n] /\ m - Len(f) \in 1 .. Len(g) /\ r[m] = g[m - Len(f)]
      BY <1>2, <1>3, <2>4
    <3>2. f[n].id = g[m - Len(f)].id
      BY <3>1
    <3> QED BY <2>4, <3>1, <3>2
  <2>5. CASE m \notin 1 .. Len(f) /\ n \notin 1 .. Len(f)
    <3>1. /\ m - Len(f) \in 1 .. Len(g) /\ n - Len(f) \in 1 .. Len(g)
          /\ g[m - Len(f)].id = g[n - Len(f)].id
      BY <1>2, <2>5
    <3>2. m - Len(f) = n - Len(f)
      BY <3>1 DEF Distinct
    <3> QED BY <1>1, <3>2
  <2> QED BY <2>2, <2>3, <2>4, <2>5
<1>7. \A n \in 1 .. Len(r) : \/ \E m \in 1 .. Len(f) : r[n] = f[m]
                             \/ \E m \in 1 .. Len(g) : r[n] = g[m]
  BY <1>2
<1>8. \A i : Has(r, i) <=> Has(f, i) \/ Has(g, i)
  <2> SUFFICES ASSUME NEW i PROVE Has(r, i) <=> Has(f, i) \/ Has(g, i)
    OBVIOUS
  <2>1. Has(r, i) => Has(f, i) \/ Has(g, i)
    BY <1>7 DEF Has
  <2>2. Has(f, i) => Has(r, i)
    BY <1>3 DEF Has
  <2>3. Has(g, i) => Has(r, i)
    BY <1>3 DEF Has
  <2> QED BY <2>1, <2>2, <2>3
<1> QED BY <1>1, <1>4, <1>5, <1>6, <1>7, <1>8 DEF TabsGood, r

LEMMA PartitionGood ==
  ASSUME NEW w, NEW c, NEW tabs \in Seq(Tab), \A n \in 1 .. Len(tabs) : TabGood(tabs[n], w, c),
         Distinct(tabs)
  PROVE  /\ TabsGood(PinsThenRest(tabs), w, c)
         /\ \A n \in 1 .. Len(PinsThenRest(tabs)) :
              \E m \in 1 .. Len(tabs) : PinsThenRest(tabs)[n] = tabs[m]
         /\ \A i : Has(PinsThenRest(tabs), i) <=> Has(tabs, i)
<1> DEFINE r == PinsThenRest(tabs)
           pins == Pins(tabs)
           rest == DOMAIN tabs \ pins
           f == Filtered(tabs, pins)
           g == Filtered(tabs, rest)
<1>1. DOMAIN tabs = 1 .. Len(tabs) /\ \A n \in 1 .. Len(tabs) : tabs[n].pinned \in BOOLEAN
  <2>1. \A n \in 1 .. Len(tabs) : tabs[n] \in Tab
    BY Entries
  <2> QED BY <2>1, Entries, TabFields
<1>2. /\ pins \in SUBSET (1 .. Len(tabs)) /\ rest \in SUBSET (1 .. Len(tabs))
      /\ \A n \in pins : tabs[n].pinned = TRUE
      /\ \A n \in rest : tabs[n].pinned = FALSE
      /\ \A n \in 1 .. Len(tabs) : n \in pins \/ n \in rest
      /\ \A n \in pins : n \notin rest
  BY <1>1 DEF Pins
<1>5. r = f \o g
  BY DEF PinsThenRest
<1> HIDE DEF pins, rest, r
<1>3. /\ f \in Seq(Tab) /\ Len(f) \in Nat
      /\ \A n \in 1 .. Len(f) : TabGood(f[n], w, c) /\ \E m \in pins : f[n] = tabs[m]
      /\ Distinct(f)
      /\ \A m \in pins : Has(f, tabs[m].id)
  <2>1. /\ pins \in SUBSET (1 .. Len(tabs)) /\ tabs \in Seq(Tab)
        /\ \A n \in 1 .. Len(tabs) : TabGood(tabs[n], w, c)
        /\ Distinct(tabs)
    BY <1>2
  <2> QED BY ONLY <2>1, FilteredGood
<1>4. /\ g \in Seq(Tab) /\ Len(g) \in Nat
      /\ \A n \in 1 .. Len(g) : TabGood(g[n], w, c) /\ \E m \in rest : g[n] = tabs[m]
      /\ Distinct(g)
      /\ \A m \in rest : Has(g, tabs[m].id)
  <2>1. /\ rest \in SUBSET (1 .. Len(tabs)) /\ tabs \in Seq(Tab)
        /\ \A n \in 1 .. Len(tabs) : TabGood(tabs[n], w, c)
        /\ Distinct(tabs)
    BY <1>2
  <2> QED BY ONLY <2>1, FilteredGood
<1> HIDE DEF f, g
<1>6. \A m \in 1 .. Len(f) : \A n \in 1 .. Len(g) : f[m].id # g[n].id
  <2> SUFFICES ASSUME NEW m \in 1 .. Len(f), NEW n \in 1 .. Len(g), f[m].id = g[n].id PROVE FALSE
    OBVIOUS
  <2>1. PICK j \in pins : f[m] = tabs[j]
    BY <1>3
  <2>2. PICK k \in rest : g[n] = tabs[k]
    BY <1>4
  <2>3. j \in 1 .. Len(tabs) /\ k \in 1 .. Len(tabs) /\ tabs[j].id = tabs[k].id
    BY <1>2, <2>1, <2>2
  <2>4. j = k
    BY <2>3 DEF Distinct
  <2> QED BY <1>2, <2>4
<1>7. /\ \A n \in 1 .. Len(f) : TabGood(f[n], w, c) /\ f[n].pinned
      /\ \A n \in 1 .. Len(g) : TabGood(g[n], w, c) /\ ~g[n].pinned
  BY <1>2, <1>3, <1>4
<1>8. /\ TabsGood(r, w, c)
      /\ \A n \in 1 .. Len(r) : \/ \E m \in 1 .. Len(f) : r[n] = f[m]
                                \/ \E m \in 1 .. Len(g) : r[n] = g[m]
      /\ \A i : Has(r, i) <=> Has(f, i) \/ Has(g, i)
  <2>1. /\ f \in Seq(Tab) /\ Len(f) \in Nat /\ Distinct(f)
        /\ g \in Seq(Tab) /\ Len(g) \in Nat /\ Distinct(g)
    BY <1>3, <1>4
  <2>2. /\ TabsGood(f \o g, w, c)
        /\ \A n \in 1 .. Len(f \o g) : \/ \E m \in 1 .. Len(f) : (f \o g)[n] = f[m]
                                       \/ \E m \in 1 .. Len(g) : (f \o g)[n] = g[m]
        /\ \A i : Has(f \o g, i) <=> Has(f, i) \/ Has(g, i)
    <3>1. SUFFICES ASSUME NEW a, a = f, NEW b, b = g
                   PROVE  /\ TabsGood(a \o b, w, c)
                          /\ \A n \in 1 .. Len(a \o b) : \/ \E m \in 1 .. Len(a) : (a \o b)[n] = a[m]
                                                         \/ \E m \in 1 .. Len(b) : (a \o b)[n] = b[m]
                          /\ \A i : Has(a \o b, i) <=> Has(a, i) \/ Has(b, i)
      OBVIOUS
    <3>2. /\ a \in Seq(Tab) /\ Len(a) \in Nat /\ Distinct(a)
          /\ b \in Seq(Tab) /\ Len(b) \in Nat /\ Distinct(b)
      BY <2>1, <3>1
    <3>3. \A n \in 1 .. Len(a) : TabGood(a[n], w, c) /\ a[n].pinned
      BY <1>7, <3>1
    <3>4. \A n \in 1 .. Len(b) : TabGood(b[n], w, c) /\ ~b[n].pinned
      BY <1>7, <3>1
    <3>5. \A m \in 1 .. Len(a) : \A n \in 1 .. Len(b) : a[m].id # b[n].id
      BY <1>6, <3>1
    <3> QED BY ONLY <3>2, <3>3, <3>4, <3>5, ConcatGood
  <2> QED BY <1>5, <2>2
<1>9. \A n \in 1 .. Len(r) : \E m \in 1 .. Len(tabs) : r[n] = tabs[m]
  <2> SUFFICES ASSUME NEW n \in 1 .. Len(r) PROVE \E m \in 1 .. Len(tabs) : r[n] = tabs[m]
    OBVIOUS
  <2>1. CASE \E m \in 1 .. Len(f) : r[n] = f[m]
    <3>1. \E j \in pins : r[n] = tabs[j]
      BY <1>3, <2>1
    <3> QED BY <1>2, <3>1
  <2>2. CASE \E m \in 1 .. Len(g) : r[n] = g[m]
    <3>1. \E j \in rest : r[n] = tabs[j]
      BY <1>4, <2>2
    <3> QED BY <1>2, <3>1
  <2> QED BY <1>8, <2>1, <2>2
<1>10. ASSUME NEW i PROVE Has(r, i) <=> Has(tabs, i)
  <2>1. Has(r, i) => Has(tabs, i)
    BY <1>9 DEF Has
  <2>2. ASSUME NEW m \in 1 .. Len(tabs), tabs[m].id = i PROVE Has(r, i)
    <3>1. Has(f, i) \/ Has(g, i)
      BY <1>2, <1>3, <1>4, <2>2
    <3> QED BY <1>8, <3>1
  <2> QED BY <2>1, <2>2 DEF Has
<1> QED BY <1>8, <1>9, <1>10 DEF r

(* A tab as merge rebuilds it from its saved row.                          *)
Restored(row) == [MakeTab(row.id, row.path) EXCEPT !.pinned = row.pinned]
Good(w, tabs) == Filtered(tabs, InWorkspace(tabs, w))
Built(w, tabs) == [n \in DOMAIN Good(w, tabs) |-> Restored(Good(w, tabs)[n])]

LEMMA RehydratedIs ==
  ASSUME NEW w, NEW tabs
  PROVE  Rehydrated(w, tabs) = PinsThenRest(Built(w, tabs))
BY DEF Rehydrated, Built, Good, Restored, Pins, PinsThenRest

LEMMA RestoredGood ==
  ASSUME NEW row \in PinnableTab, NEW w, NEW c, row.path.ws = w
  PROVE  /\ TabGood(Restored(row), w, c) /\ Restored(row) \in Tab
         /\ Restored(row).id = row.id /\ Restored(row).path = row.path
         /\ Restored(row).pinned = row.pinned /\ Restored(row).router.at = 1
<1> DEFINE t == MakeTab(row.id, row.path)
           u == Restored(row)
<1>1. row.id \in TabIds /\ row.path \in Path /\ row.pinned \in BOOLEAN
  BY DEF PinnableTab
<1>2. TabGood(t, w, c) /\ t.id = row.id /\ t.path = row.path
  BY <1>1, MakeTabGood
<1>3. t.router.at = 1
  BY DEF MakeTab, NewRouter
<1>4. u = [t EXCEPT !.pinned = row.pinned]
  BY DEF Restored
<1> HIDE DEF t, u
<1>5. t \in Tab
  BY <1>2 DEF TabGood
<1>6. /\ u.id = t.id /\ u.path = t.path /\ u.pinned = row.pinned /\ u.kept = t.kept
      /\ u.stray = t.stray /\ u.router = t.router /\ u.index = t.index /\ u.length = t.length
      /\ u.ref = t.ref
  BY <1>4, <1>5 DEF Tab
<1>7. u \in Tab
  <2> DEFINE b == row.pinned
  <2>1. b \in BOOLEAN /\ u = [t EXCEPT !.pinned = b]
    BY <1>1, <1>4
  <2> HIDE DEF b
  <2> QED BY <1>5, <2>1 DEF Tab
<1>8. TabGood(u, w, c)
  BY <1>2, <1>6, <1>7 DEF TabGood, AtHome, Trail, Counted
<1> QED BY <1>2, <1>3, <1>6, <1>7, <1>8 DEF u

LEMMA FilteredRows ==
  ASSUME NEW Row, NEW tabs \in Seq(Row), NEW K \in SUBSET (1 .. Len(tabs)),
         Distinct(tabs)
  PROVE  /\ Filtered(tabs, K) \in Seq(Row) /\ Len(Filtered(tabs, K)) \in Nat
         /\ DOMAIN Filtered(tabs, K) = 1 .. Len(Filtered(tabs, K))
         /\ \A n \in 1 .. Len(Filtered(tabs, K)) :
              Filtered(tabs, K)[n] \in Row /\ \E m \in K : Filtered(tabs, K)[n] = tabs[m]
         /\ Distinct(Filtered(tabs, K))
<1> DEFINE L == Cardinality(K)
           f == Filtered(tabs, K)
<1>0. Len(tabs) \in Nat
  BY LenProperties
<1>1. /\ Filtered(tabs, K) \in Seq(Row)
      /\ Len(Filtered(tabs, K)) = Cardinality(K)
      /\ Cardinality(K) \in Nat
      /\ \A k \in 1 .. Cardinality(K) :
           Position(K, k) \in K /\ Filtered(tabs, K)[k] = tabs[Position(K, k)]
      /\ \A j, k \in 1 .. Cardinality(K) : j < k => Position(K, j) < Position(K, k)
      /\ \A n \in K : \E k \in 1 .. Cardinality(K) : Position(K, k) = n
  <2>1. tabs \in Seq(Row) /\ K \in SUBSET (1 .. Len(tabs))
    OBVIOUS
  <2> QED BY ONLY <2>1, FilteredFacts
<1>2. /\ f \in Seq(Row) /\ Len(f) = L /\ L \in Nat
      /\ \A k \in 1 .. L : Position(K, k) \in K /\ f[k] = tabs[Position(K, k)]
      /\ \A j, k \in 1 .. L : j < k => Position(K, j) < Position(K, k)
  BY <1>1, Zenon
<1> HIDE DEF f, L
<1>3. \A k \in 1 .. L : Position(K, k) \in 1 .. Len(tabs) /\ f[k] = tabs[Position(K, k)]
  BY <1>2
<1>4. DOMAIN f = 1 .. L /\ \A n \in 1 .. L : f[n] \in Row
  BY <1>2
<1>5. ASSUME NEW j \in 1 .. L, NEW k \in 1 .. L, f[j].id = f[k].id PROVE j = k
  <2>1. Position(K, j) = Position(K, k)
    BY <1>3, <1>5 DEF Distinct
  <2>2. Position(K, j) \in Nat
    BY <1>0, <1>3
  <2>3. ~(j < k) /\ ~(k < j)
    BY <1>2, <2>1, <2>2
  <2> QED BY <1>2, <2>3
<1>6. \A n \in 1 .. L : \E m \in K : f[n] = tabs[m]
  BY <1>2
<1> QED BY <1>2, <1>4, <1>5, <1>6 DEF f, Distinct

LEMMA GoodOK ==
  ASSUME NEW Row, NEW tabs \in Seq(Row), NEW w,
         Distinct(tabs)
  PROVE  /\ Good(w, tabs) \in Seq(Row) /\ Len(Good(w, tabs)) \in Nat
         /\ DOMAIN Good(w, tabs) = 1 .. Len(Good(w, tabs))
         /\ \A n \in 1 .. Len(Good(w, tabs)) :
              /\ Good(w, tabs)[n] \in Row /\ Good(w, tabs)[n].path.ws = w
              /\ \E m \in 1 .. Len(tabs) : Good(w, tabs)[n] = tabs[m]
         /\ Distinct(Good(w, tabs))
<1> SUFFICES ASSUME NEW K, K = InWorkspace(tabs, w), NEW f, f = Filtered(tabs, K)
             PROVE  /\ f \in Seq(Row) /\ Len(f) \in Nat /\ DOMAIN f = 1 .. Len(f)
                    /\ \A n \in 1 .. Len(f) : /\ f[n] \in Row /\ f[n].path.ws = w
                                              /\ \E m \in 1 .. Len(tabs) : f[n] = tabs[m]
                    /\ Distinct(f)
  BY DEF Good
<1>1. DOMAIN tabs = 1 .. Len(tabs)
  BY LenProperties
<1>2. K \in SUBSET (1 .. Len(tabs)) /\ \A n \in K : tabs[n].path.ws = w
  BY <1>1 DEF InWorkspace
<1>3. /\ f \in Seq(Row) /\ Len(f) \in Nat
      /\ DOMAIN f = 1 .. Len(f)
      /\ \A n \in 1 .. Len(f) : f[n] \in Row /\ \E m \in K : f[n] = tabs[m]
      /\ Distinct(f)
  BY <1>2, FilteredRows
<1> QED BY <1>2, <1>3

LEMMA RehydratedGood ==
  ASSUME NEW tabs \in Seq(PinnableTab), NEW w, NEW c,
         Distinct(tabs)
  PROVE  /\ TabsGood(Rehydrated(w, tabs), w, c)
         /\ \A n \in 1 .. Len(Rehydrated(w, tabs)) :
              /\ Rehydrated(w, tabs)[n].router.at = 1
              /\ \E m \in 1 .. Len(tabs) : Rehydrated(w, tabs)[n].id = tabs[m].id
<1> DEFINE g == Good(w, tabs)
           b == Built(w, tabs)
           r == Rehydrated(w, tabs)
<1>1. /\ Len(g) \in Nat /\ DOMAIN g = 1 .. Len(g)
      /\ \A n \in 1 .. Len(g) : /\ g[n] \in PinnableTab /\ g[n].path.ws = w
                                /\ \E m \in 1 .. Len(tabs) : g[n] = tabs[m]
      /\ Distinct(g)
  BY GoodOK
<1>2. b = [n \in 1 .. Len(g) |-> Restored(g[n])]
  BY <1>1 DEF Built
<1> HIDE DEF g, b, r
<1>3. \A n \in 1 .. Len(g) :
        /\ TabGood(Restored(g[n]), w, c) /\ Restored(g[n]) \in Tab
        /\ Restored(g[n]).id = g[n].id /\ Restored(g[n]).router.at = 1
  BY <1>1, RestoredGood
<1>4. b \in Seq(Tab) /\ Len(b) = Len(g) /\ \A n \in 1 .. Len(g) : b[n] = Restored(g[n])
  BY <1>1, <1>2, <1>3
<1>5. \A n \in 1 .. Len(b) : /\ TabGood(b[n], w, c) /\ b[n].router.at = 1
                             /\ \E m \in 1 .. Len(tabs) : b[n].id = tabs[m].id
  BY <1>1, <1>3, <1>4
<1>6. Distinct(b)
  BY <1>1, <1>3, <1>4 DEF Distinct
<1>7. r = PinsThenRest(b)
  BY RehydratedIs DEF r, b
<1>8. TabsGood(r, w, c) /\ \A n \in 1 .. Len(r) : \E m \in 1 .. Len(b) : r[n] = b[m]
  <2> SUFFICES ASSUME NEW x, x = b
               PROVE  /\ TabsGood(PinsThenRest(x), w, c)
                      /\ \A n \in 1 .. Len(PinsThenRest(x)) : \E m \in 1 .. Len(x) : PinsThenRest(x)[n] = x[m]
    BY <1>7
  <2>1. x \in Seq(Tab) /\ Distinct(x) /\ \A n \in 1 .. Len(x) : TabGood(x[n], w, c)
    BY <1>4, <1>5, <1>6
  <2> QED BY ONLY <2>1, PartitionGood
<1>9. ASSUME NEW n \in 1 .. Len(r)
      PROVE  r[n].router.at = 1 /\ \E m \in 1 .. Len(tabs) : r[n].id = tabs[m].id
  <2>1. PICK k \in 1 .. Len(b) : r[n] = b[k]
    BY <1>8
  <2>2. b[k].router.at = 1 /\ \E m \in 1 .. Len(tabs) : b[k].id = tabs[m].id
    BY <1>4, <1>5, <1>6, <2>1
  <2> QED BY <2>1, <2>2
<1> QED BY <1>8, <1>9 DEF r

Revived(tabs, w, c) ==
  /\ TabsGood(Rehydrated(w, tabs), w, c)
  /\ \A n \in 1 .. Len(Rehydrated(w, tabs)) :
       /\ Rehydrated(w, tabs)[n].router.at = 1
       /\ \E m \in 1 .. Len(tabs) : Rehydrated(w, tabs)[n].id = tabs[m].id

LEMMA GroupsOfOK ==
  ASSUME NEW Row, NEW by, GroupsOf(by, Row)
  PROVE  /\ DOMAIN by \subseteq Slugs
         /\ \A w \in DOMAIN by :
              /\ by[w].tabs \in Seq(Row) /\ Len(by[w].tabs) \in Nat
              /\ DOMAIN by[w].tabs = 1 .. Len(by[w].tabs)
              /\ Distinct(by[w].tabs)
         /\ \A w, x \in DOMAIN by : \A m \in 1 .. Len(by[w].tabs) : \A n \in 1 .. Len(by[x].tabs) :
              by[w].tabs[m].id = by[x].tabs[n].id => w = x
<1>1. DOMAIN by \subseteq Slugs /\ OneTabPerId(by) /\ \A w \in DOMAIN by : by[w].tabs \in Seq(Row)
  BY DEF GroupsOf
<1>2. \A w \in DOMAIN by : Len(by[w].tabs) \in Nat /\ DOMAIN by[w].tabs = 1 .. Len(by[w].tabs)
  BY <1>1, LenProperties
<1>3. \A w, x \in DOMAIN by : \A m \in 1 .. Len(by[w].tabs) : \A n \in 1 .. Len(by[x].tabs) :
        by[w].tabs[m].id = by[x].tabs[n].id => w = x /\ m = n
  BY <1>1, <1>2 DEF OneTabPerId
<1> QED BY <1>1, <1>2, <1>3 DEF Distinct

(* One group as merge restores it.                                         *)
ActiveOf(g, tabs) == IF \E t \in ToSet(tabs) : t.id = g.active THEN g.active ELSE tabs[1].id

LEMMA RestoredGroupGood ==
  ASSUME NEW g, NEW w, NEW c, NEW tabs, TabsGood(tabs, w, c), tabs # <<>>
  PROVE  GroupGood([tabs |-> tabs, active |-> ActiveOf(g, tabs)], w, c)
<1>1. tabs \in Seq(Tab) /\ DOMAIN tabs = 1 .. Len(tabs) /\ Len(tabs) \in Nat
  BY Entries DEF TabsGood
<1>2. 1 \in 1 .. Len(tabs)
  BY <1>1
<1>3. Has(tabs, ActiveOf(g, tabs))
  BY <1>1, <1>2 DEF Has, ActiveOf, ToSet
<1> QED BY <1>3 DEF GroupGood

MergedSlugs(p) == {w \in DOMAIN p.by : Rehydrated(w, p.by[w].tabs) # <<>>}

LEMMA MergeIs ==
  ASSUME NEW p, NEW h \in Hydrations(p)
  PROVE  /\ h = [ws |-> h.ws, by |-> h.by]
         /\ h.by = [w \in MergedSlugs(p) |->
                     [tabs |-> Rehydrated(w, p.by[w].tabs),
                      active |-> ActiveOf(p.by[w], Rehydrated(w, p.by[w].tabs))]]
         /\ \E first : IsFirst(h.by, first) /\ h.ws = Repoint(h.by, p.ws, first)
<1>1. PICK first : h = Merge(p, first) /\ IsFirst(Merge(p, first).by, first)
  BY DEF Hydrations
<1>2. Merge(p, first).by = [w \in MergedSlugs(p) |->
                     [tabs |-> Rehydrated(w, p.by[w].tabs),
                      active |-> ActiveOf(p.by[w], Rehydrated(w, p.by[w].tabs))]]
  BY DEF Merge, MergedSlugs, ActiveOf
<1>3. /\ Merge(p, first) = [ws |-> Merge(p, first).ws, by |-> Merge(p, first).by]
      /\ Merge(p, first).ws = Repoint(Merge(p, first).by, p.ws, first)
  BY DEF Merge
<1> QED BY <1>1, <1>2, <1>3

LEMMA HydrationsGood ==
  ASSUME NEW p, GroupsOf(p.by, PinnableTab), NEW h \in Hydrations(p), NEW c
  PROVE  StoreGood(h, c) /\ \A u \in TabsIn(h) : u.router.at = 1
<1>1. /\ h = [ws |-> h.ws, by |-> h.by]
      /\ DOMAIN h.by = MergedSlugs(p) /\ h.by = [w \in DOMAIN h.by |-> h.by[w]]
      /\ \A w \in MergedSlugs(p) :
            h.by[w] = [tabs |-> Rehydrated(w, p.by[w].tabs),
                       active |-> ActiveOf(p.by[w], Rehydrated(w, p.by[w].tabs))]
      /\ \E first : IsFirst(h.by, first) /\ h.ws = Repoint(h.by, p.ws, first)
  <2>1. /\ h = [ws |-> h.ws, by |-> h.by]
        /\ h.by = [w \in MergedSlugs(p) |->
                     [tabs |-> Rehydrated(w, p.by[w].tabs),
                      active |-> ActiveOf(p.by[w], Rehydrated(w, p.by[w].tabs))]]
        /\ \E first : IsFirst(h.by, first) /\ h.ws = Repoint(h.by, p.ws, first)
    BY ONLY MergeIs, h \in Hydrations(p), Zenon
  <2>2. /\ DOMAIN h.by = MergedSlugs(p) /\ h.by = [w \in DOMAIN h.by |-> h.by[w]]
        /\ \A w \in MergedSlugs(p) :
              h.by[w] = [tabs |-> Rehydrated(w, p.by[w].tabs),
                         active |-> ActiveOf(p.by[w], Rehydrated(w, p.by[w].tabs))]
    <3> DEFINE row(w) == [tabs |-> Rehydrated(w, p.by[w].tabs),
                          active |-> ActiveOf(p.by[w], Rehydrated(w, p.by[w].tabs))]
    <3>1. h.by = [w \in MergedSlugs(p) |-> row(w)]
      BY <2>1, Zenon
    <3> HIDE DEF row
    <3>2. /\ DOMAIN h.by = MergedSlugs(p) /\ h.by = [w \in DOMAIN h.by |-> h.by[w]]
          /\ \A w \in MergedSlugs(p) : h.by[w] = row(w)
      BY <3>1
    <3> QED BY <3>2 DEF row
  <2> QED BY <2>1, <2>2, Zenon
<1>2. /\ DOMAIN p.by \subseteq Slugs
      /\ \A w \in DOMAIN p.by : p.by[w].tabs \in Seq(PinnableTab) /\ Distinct(p.by[w].tabs)
      /\ \A w, x \in DOMAIN p.by : \A m \in 1 .. Len(p.by[w].tabs) : \A n \in 1 .. Len(p.by[x].tabs) :
           p.by[w].tabs[m].id = p.by[x].tabs[n].id => w = x
  BY GroupsOfOK
<1>3. MergedSlugs(p) \subseteq DOMAIN p.by
  BY DEF MergedSlugs
<1>4. ASSUME NEW w \in MergedSlugs(p)
      PROVE  /\ GroupGood(h.by[w], w, c)
             /\ \A n \in 1 .. Len(h.by[w].tabs) :
                  /\ h.by[w].tabs[n].router.at = 1
                  /\ \E m \in 1 .. Len(p.by[w].tabs) : h.by[w].tabs[n].id = p.by[w].tabs[m].id
  <2> DEFINE tabs == Rehydrated(w, p.by[w].tabs)
  <2>1. p.by[w].tabs \in Seq(PinnableTab) /\ Distinct(p.by[w].tabs)
    BY <1>2, <1>3
  <2>2. /\ TabsGood(tabs, w, c)
        /\ \A n \in 1 .. Len(tabs) : /\ tabs[n].router.at = 1
                                     /\ \E m \in 1 .. Len(p.by[w].tabs) : tabs[n].id = p.by[w].tabs[m].id
    <3> SUFFICES ASSUME NEW rows, rows = p.by[w].tabs
                 PROVE  /\ TabsGood(Rehydrated(w, rows), w, c)
                        /\ \A n \in 1 .. Len(Rehydrated(w, rows)) :
                             /\ Rehydrated(w, rows)[n].router.at = 1
                             /\ \E m \in 1 .. Len(rows) : Rehydrated(w, rows)[n].id = rows[m].id
      OBVIOUS
    <3>1. rows \in Seq(PinnableTab) /\ Distinct(rows)
      BY <2>1
    <3>2. \A y \in Seq(PinnableTab) : \A z, d : Distinct(y) => Revived(y, z, d)
      BY RehydratedGood, Zenon DEF Revived
    <3>3. Revived(rows, w, c)
      BY ONLY <3>1, <3>2
    <3> QED BY <3>3 DEF Revived
  <2>3. tabs # <<>>
    BY DEF MergedSlugs
  <2>4. h.by[w] = [tabs |-> tabs, active |-> ActiveOf(p.by[w], tabs)]
    BY <1>1
  <2> HIDE DEF tabs
  <2>5. GroupGood(h.by[w], w, c)
    BY <2>2, <2>3, <2>4, RestoredGroupGood
  <2> QED BY <2>2, <2>4, <2>5
<1>5. Apart(h.by)
  <2> SUFFICES ASSUME NEW w \in DOMAIN h.by, NEW x \in DOMAIN h.by,
                      NEW m \in 1 .. Len(h.by[w].tabs), NEW n \in 1 .. Len(h.by[x].tabs),
                      h.by[w].tabs[m].id = h.by[x].tabs[n].id
               PROVE  w = x
    BY DEF Apart
  <2>1. w \in MergedSlugs(p) /\ x \in MergedSlugs(p)
    BY <1>1
  <2>2. PICK j \in 1 .. Len(p.by[w].tabs) : h.by[w].tabs[m].id = p.by[w].tabs[j].id
    BY <1>4, <2>1
  <2>3. PICK k \in 1 .. Len(p.by[x].tabs) : h.by[x].tabs[n].id = p.by[x].tabs[k].id
    BY <1>4, <2>1
  <2>4. w \in DOMAIN p.by /\ x \in DOMAIN p.by
    BY <1>3, <2>1
  <2> QED BY <1>2, <2>2, <2>3, <2>4
<1>6. IF DOMAIN h.by = {} THEN h.ws = None ELSE h.ws \in DOMAIN h.by
  BY <1>1 DEF Repoint, IsFirst
<1>7. StoreGood(h, c)
  <2>1. DOMAIN h.by \subseteq Slugs
    BY <1>1, <1>2, <1>3
  <2>2. \A w \in DOMAIN h.by : GroupGood(h.by[w], w, c)
    BY <1>1, <1>4
  <2> QED BY <1>1, <1>5, <1>6, <2>1, <2>2 DEF StoreGood
<1>8. ASSUME NEW u \in TabsIn(h) PROVE u.router.at = 1
  <2>1. PICK w \in DOMAIN h.by : \E n \in 1 .. Len(h.by[w].tabs) : u = h.by[w].tabs[n]
    BY <1>7, TabsInOK
  <2>2. w \in MergedSlugs(p)
    BY <1>1
  <2> QED BY <1>4, <2>1, <2>2
<1> QED BY <1>7, <1>8

(* What Partialize saves, and what a migration makes of an older state.    *)
LEMMA GroupsOfFrom ==
  ASSUME NEW Row, NEW by, DOMAIN by \subseteq Slugs, Apart(by),
         \A w \in DOMAIN by : by[w].tabs \in Seq(Row) /\ Distinct(by[w].tabs)
  PROVE  GroupsOf(by, Row)
<1>1. \A w \in DOMAIN by : Len(by[w].tabs) \in Nat /\ DOMAIN by[w].tabs = 1 .. Len(by[w].tabs)
  BY LenProperties
<1>2. OneTabPerId(by)
  <2> SUFFICES ASSUME NEW w \in DOMAIN by, NEW x \in DOMAIN by,
                      NEW m \in DOMAIN by[w].tabs, NEW n \in DOMAIN by[x].tabs,
                      by[w].tabs[m].id = by[x].tabs[n].id
               PROVE  w = x /\ m = n
    BY DEF OneTabPerId
  <2>1. m \in 1 .. Len(by[w].tabs) /\ n \in 1 .. Len(by[x].tabs)
    BY <1>1
  <2>2. w = x
    BY <2>1 DEF Apart
  <2> QED BY <2>1, <2>2 DEF Distinct
<1> QED BY <1>2 DEF GroupsOf

SavedRow(t) == SavedTab(t.id, t.path, t.pinned)
SavedGroup(g) == [active |-> g.active, tabs |-> [n \in DOMAIN g.tabs |-> SavedRow(g.tabs[n])]]

LEMMA PartializeIs ==
  ASSUME NEW s
  PROVE  /\ Partialize(s).ws = s.ws
         /\ DOMAIN Partialize(s).by = DOMAIN s.by
         /\ \A w \in DOMAIN s.by : Partialize(s).by[w] = SavedGroup(s.by[w])
  BY DEF Partialize, SavedGroup, SavedRow

LEMMA SavedGroupOK ==
  ASSUME NEW g, g.tabs \in Seq(Tab), Distinct(g.tabs)
  PROVE  /\ SavedGroup(g).tabs \in Seq(PinnableTab)
         /\ SavedGroup(g).active = g.active
         /\ Len(SavedGroup(g).tabs) = Len(g.tabs)
         /\ DOMAIN SavedGroup(g).tabs = 1 .. Len(g.tabs)
         /\ \A n \in 1 .. Len(g.tabs) : SavedGroup(g).tabs[n] = SavedRow(g.tabs[n])
         /\ Distinct(SavedGroup(g).tabs)
<1>1. /\ Len(g.tabs) \in Nat /\ DOMAIN g.tabs = 1 .. Len(g.tabs)
      /\ \A n \in 1 .. Len(g.tabs) : g.tabs[n] \in Tab
  BY Entries
<1>2. \A n \in 1 .. Len(g.tabs) : SavedRow(g.tabs[n]) \in PinnableTab /\ SavedRow(g.tabs[n]).id = g.tabs[n].id
  BY <1>1, TabFields DEF SavedRow, SavedTab, PinnableTab
<1>3. /\ SavedGroup(g).tabs = [n \in 1 .. Len(g.tabs) |-> SavedRow(g.tabs[n])]
      /\ SavedGroup(g).active = g.active
  BY <1>1 DEF SavedGroup
<1>4. /\ SavedGroup(g).tabs \in Seq(PinnableTab)
      /\ Len(SavedGroup(g).tabs) = Len(g.tabs)
      /\ DOMAIN SavedGroup(g).tabs = 1 .. Len(g.tabs)
      /\ \A n \in 1 .. Len(g.tabs) : SavedGroup(g).tabs[n] = SavedRow(g.tabs[n])
  BY <1>1, <1>2, <1>3
<1>5. Distinct(SavedGroup(g).tabs)
  BY <1>2, <1>4 DEF Distinct
<1> QED BY <1>3, <1>4, <1>5

LEMMA PartializeRows ==
  ASSUME NEW s, NEW c, StoreGood(s, c)
  PROVE  GroupsOf(Partialize(s).by, PinnableTab)
<1> DEFINE by == Partialize(s).by
<1>1. DOMAIN by = DOMAIN s.by /\ \A w \in DOMAIN s.by : by[w] = SavedGroup(s.by[w])
  BY PartializeIs
<1> HIDE DEF by
<1>2. ASSUME NEW w \in DOMAIN s.by
      PROVE  /\ by[w].tabs \in Seq(PinnableTab) /\ Distinct(by[w].tabs)
             /\ Len(by[w].tabs) = Len(s.by[w].tabs)
             /\ \A n \in 1 .. Len(s.by[w].tabs) : by[w].tabs[n].id = s.by[w].tabs[n].id
  <2>1. s.by[w].tabs \in Seq(Tab) /\ Distinct(s.by[w].tabs)
    BY GroupFacts
  <2>2. \A n : SavedRow(s.by[w].tabs[n]).id = s.by[w].tabs[n].id
    BY DEF SavedRow, SavedTab
  <2> QED BY <1>1, <2>1, <2>2, SavedGroupOK
<1>3. Apart(by)
  <2> SUFFICES ASSUME NEW w \in DOMAIN by, NEW x \in DOMAIN by,
                      NEW m \in 1 .. Len(by[w].tabs), NEW n \in 1 .. Len(by[x].tabs),
                      by[w].tabs[m].id = by[x].tabs[n].id
               PROVE  w = x
    BY DEF Apart
  <2>1. w \in DOMAIN s.by /\ x \in DOMAIN s.by
    BY <1>1
  <2>2. /\ m \in 1 .. Len(s.by[w].tabs) /\ by[w].tabs[m].id = s.by[w].tabs[m].id
        /\ n \in 1 .. Len(s.by[x].tabs) /\ by[x].tabs[n].id = s.by[x].tabs[n].id
    BY <1>2, <2>1
  <2>3. s.by[w].tabs[m].id = s.by[x].tabs[n].id
    BY <2>2
  <2>4. Apart(s.by)
    BY DEF StoreGood
  <2> QED BY <2>1, <2>2, <2>3, <2>4 DEF Apart
<1>4. DOMAIN by \subseteq Slugs
  BY <1>1 DEF StoreGood
<1> QED BY <1>1, <1>2, <1>3, <1>4, GroupsOfFrom DEF by

FlatRow(t) == SavedTab(t.id, t.path, FALSE)
FlatGroup(g) == [active |-> g.active, tabs |-> [n \in DOMAIN g.tabs |-> FlatRow(g.tabs[n])]]

LEMMA FlatGroupOK ==
  ASSUME NEW g, g.tabs \in Seq(FlatTab), Distinct(g.tabs)
  PROVE  /\ FlatGroup(g).tabs \in Seq(PinnableTab)
         /\ Len(FlatGroup(g).tabs) = Len(g.tabs)
         /\ \A n \in 1 .. Len(g.tabs) : FlatGroup(g).tabs[n].id = g.tabs[n].id
         /\ Distinct(FlatGroup(g).tabs)
<1>1. /\ Len(g.tabs) \in Nat /\ DOMAIN g.tabs = 1 .. Len(g.tabs)
      /\ \A n \in 1 .. Len(g.tabs) : g.tabs[n] \in FlatTab
  BY LenProperties
<1>2. \A n \in 1 .. Len(g.tabs) : FlatRow(g.tabs[n]) \in PinnableTab /\ FlatRow(g.tabs[n]).id = g.tabs[n].id
  BY <1>1 DEF FlatRow, SavedTab, PinnableTab, FlatTab
<1>3. FlatGroup(g).tabs = [n \in 1 .. Len(g.tabs) |-> FlatRow(g.tabs[n])]
  BY <1>1 DEF FlatGroup
<1>4. /\ FlatGroup(g).tabs \in Seq(PinnableTab)
      /\ Len(FlatGroup(g).tabs) = Len(g.tabs)
      /\ \A n \in 1 .. Len(g.tabs) : FlatGroup(g).tabs[n] = FlatRow(g.tabs[n])
  BY <1>1, <1>2, <1>3
<1>5. Distinct(FlatGroup(g).tabs)
  BY <1>2, <1>4 DEF Distinct
<1> QED BY <1>2, <1>4, <1>5

LEMMA MigrateV2Rows ==
  ASSUME NEW v, GroupsOf(v.by, FlatTab)
  PROVE  GroupsOf(MigrateV2ToV3(v).by, PinnableTab)
<1> DEFINE by == MigrateV2ToV3(v).by
<1>1. DOMAIN by = DOMAIN v.by /\ \A w \in DOMAIN v.by : by[w] = FlatGroup(v.by[w])
  BY DEF MigrateV2ToV3, FlatGroup, FlatRow
<1>2. /\ DOMAIN v.by \subseteq Slugs
      /\ \A w \in DOMAIN v.by : v.by[w].tabs \in Seq(FlatTab) /\ Distinct(v.by[w].tabs)
      /\ \A w, x \in DOMAIN v.by : \A m \in 1 .. Len(v.by[w].tabs) : \A n \in 1 .. Len(v.by[x].tabs) :
           v.by[w].tabs[m].id = v.by[x].tabs[n].id => w = x
  BY GroupsOfOK
<1> HIDE DEF by
<1>3. \A w \in DOMAIN v.by :
        /\ by[w].tabs \in Seq(PinnableTab) /\ Distinct(by[w].tabs)
        /\ Len(by[w].tabs) = Len(v.by[w].tabs)
        /\ \A n \in 1 .. Len(v.by[w].tabs) : by[w].tabs[n].id = v.by[w].tabs[n].id
  BY <1>1, <1>2, FlatGroupOK
<1>4. Apart(by)
  BY <1>1, <1>2, <1>3 DEF Apart
<1> QED BY <1>1, <1>2, <1>3, <1>4, GroupsOfFrom DEF by

LEMMA MigrateV1Rows ==
  ASSUME NEW v, NEW first, v.tabs \in Seq(FlatTab), Distinct(v.tabs)
  PROVE  GroupsOf(MigrateV1ToV2(v, first).by, FlatTab)
<1> DEFINE by == MigrateV1ToV2(v, first).by
           slugs == {w \in Slugs : Good(w, v.tabs) # <<>>}
<1>1. DOMAIN by = slugs /\ \A w \in slugs : by[w].tabs = Good(w, v.tabs)
  BY DEF MigrateV1ToV2, Good
<1> HIDE DEF by
<1>2. \A w \in slugs :
        /\ by[w].tabs \in Seq(FlatTab) /\ Distinct(by[w].tabs)
        /\ \A n \in 1 .. Len(by[w].tabs) : /\ by[w].tabs[n].path.ws = w
                                           /\ \E m \in 1 .. Len(v.tabs) : by[w].tabs[n] = v.tabs[m]
  BY <1>1, GoodOK
<1>3. Apart(by)
  <2> SUFFICES ASSUME NEW w \in DOMAIN by, NEW x \in DOMAIN by,
                      NEW m \in 1 .. Len(by[w].tabs), NEW n \in 1 .. Len(by[x].tabs),
                      by[w].tabs[m].id = by[x].tabs[n].id
               PROVE  w = x
    BY DEF Apart
  <2> HIDE DEF slugs
  <2>1. by[w].tabs[m].path.ws = w /\ by[x].tabs[n].path.ws = x
    BY <1>1, <1>2
  <2>2. PICK j \in 1 .. Len(v.tabs) : by[w].tabs[m] = v.tabs[j]
    BY <1>1, <1>2
  <2>3. PICK k \in 1 .. Len(v.tabs) : by[x].tabs[n] = v.tabs[k]
    BY <1>1, <1>2
  <2>4. j = k
    BY <2>2, <2>3 DEF Distinct
  <2> QED BY <2>1, <2>2, <2>3, <2>4
<1>4. DOMAIN by \subseteq Slugs
  BY <1>1
<1> QED BY <1>1, <1>2, <1>3, <1>4, GroupsOfFrom DEF by

LEMMA MigrateRows ==
  ASSUME NEW v \in Saved, NEW first
  PROVE  GroupsOf(Migrate(v, first).by, PinnableTab)
<1>1. CASE v.version = 1
  <2>1. /\ v.tabs \in Seq(FlatTab)
        /\ \A m, n \in DOMAIN v.tabs : v.tabs[m].id = v.tabs[n].id => m = n
    BY <1>1, SavedAssumption
  <2>2. Distinct(v.tabs)
    BY <2>1, LenProperties DEF Distinct
  <2>3. Migrate(v, first) = MigrateV2ToV3(MigrateV1ToV2(v, first))
    BY <1>1 DEF Migrate
  <2>4. GroupsOf(MigrateV1ToV2(v, first).by, FlatTab)
    BY <2>1, <2>2, MigrateV1Rows
  <2> QED BY <2>3, <2>4, MigrateV2Rows
<1>2. CASE v.version = 2
  BY <1>2, SavedAssumption, MigrateV2Rows DEF Migrate
<1>3. CASE v.version = 3
  BY <1>3, SavedAssumption DEF Migrate
<1> QED BY <1>1, <1>2, <1>3, SavedAssumption

(* A first start, a restart or an update: whatever was persisted, the      *)
(* store React commits is well-formed.                                     *)
LEMMA EmptyGood ==
  ASSUME NEW c
  PROVE  StoreGood(Empty, c) /\ TabsIn(Empty) = {}
<1>1. Empty.by = [w \in {} |-> None] /\ DOMAIN Empty.by = {} /\ Empty.ws = None
  BY DEF Empty
<1> QED BY <1>1 DEF Empty, StoreGood, Apart, TabsIn

LEMMA StartGood ==
  ASSUME NEW p, GroupsOf(p.by, PinnableTab), NEW h \in Hydrations(p)
  PROVE  /\ StoreGood(Commit(Empty, h), Now(Commit(Empty, h)))
         /\ \A u \in TabsIn(Commit(Empty, h)) : u.router.at = 1
<1>1. \A c : StoreGood(h, c)
  BY HydrationsGood
<1>2. StoreGood(h, [ws |-> Empty.ws, but |-> {}]) /\ \A u \in TabsIn(h) : u.router.at = 1
  BY <1>1, HydrationsGood
<1>3. StoreGood(Commit(Empty, h), Now(Commit(Empty, h))) /\ Shadows(h, Commit(Empty, h))
  BY <1>2, CommitGood
<1> QED BY <1>2, <1>3 DEF Shadows

LEMMA InitInv == TabInit => StoreInv
<1> SUFFICES ASSUME TabInit PROVE StoreInv
  OBVIOUS
<1>1. PICK v \in Saved : \E first \in Slugs \cup {None} :
        \E s \in Hydrations(Migrate(v, first)) : store = Commit(Empty, s)
  BY DEF TabInit
<1>2. PICK first \in Slugs \cup {None} :
        \E s \in Hydrations(Migrate(v, first)) : store = Commit(Empty, s)
  BY <1>1
<1>3. PICK s \in Hydrations(Migrate(v, first)) : store = Commit(Empty, s)
  BY <1>2
<1>4. GroupsOf(Migrate(v, first).by, PinnableTab)
  BY MigrateRows
<1> QED BY <1>3, <1>4, StartGood DEF StoreInv

LEMMA RestartGood == StoreInv /\ Restart => StoreInv' /\ Steady(store, store')
<1> SUFFICES ASSUME StoreInv, Restart PROVE StoreInv' /\ Steady(store, store')
  OBVIOUS
<1>1. PICK s \in Hydrations(Partialize(store)) : store' = Commit(Empty, s)
  BY DEF Restart
<1>2. GroupsOf(Partialize(store).by, PinnableTab)
  BY PartializeRows DEF StoreInv
<1>3. /\ StoreGood(store', Now(store'))
      /\ \A u \in TabsIn(store') : u.router.at = 1
  BY <1>1, <1>2, StartGood
<1> QED BY <1>3, FirstEntrySteady DEF StoreInv

LEMMA LogoutGood == StoreInv /\ Logout => StoreInv' /\ Steady(store, store')
<1> SUFFICES ASSUME StoreInv, Logout PROVE StoreInv' /\ Steady(store, store')
  OBVIOUS
<1>1. StoreGood(store', Now(store')) /\ TabsIn(store') = {}
  BY EmptyGood DEF Logout
<1> QED BY <1>1, FirstEntrySteady DEF StoreInv

-----------------------------------------------------------------------------
(* Every action keeps the store well-formed and the pinned tab on its page. *)

LEMMA UpdateKeeps ==
  ASSUME NEW s, StoreInv,
         {i \in TabIds : Fresh(store, i)} # {} => StoreGood(s, Now(store)) /\ Steady(store, s),
         Update(s)
  PROVE  StoreInv' /\ Steady(store, store')
<1>0. (~ \A i \in TabIds : Holds(store, i)) /\ store' = Commit(store, s)
  BY DEF Update
<1>1. /\ StoreGood(s, [ws |-> store.ws, but |-> {}]) /\ Steady(store, s)
      /\ store' = Commit(store, s)
  BY <1>0 DEF Fresh, Now
<1>2. StoreGood(store', Now(store')) /\ Shadows(s, store')
  BY <1>1, CommitGood
<1> QED BY <1>1, <1>2, SteadyThen DEF StoreInv

LEMMA NowFacts ==
  ASSUME StoreInv
  PROVE  /\ StoreGood(store, Now(store)) /\ Now(store).ws = store.ws /\ Now(store).but = {}
         /\ StoreGood(store, Now(store)) /\ Steady(store, store)
         /\ store.ws # None => store.ws \in Slugs
<1>1. /\ StoreGood(store, Now(store)) /\ Now(store).ws = store.ws /\ Now(store).but = {}
  BY DEF StoreInv, Now
<1>2. Covers(store, store)
  BY DEF Covers
<1>3. Steady(store, store)
  BY <1>1, <1>2, CoversSteady
<1> QED BY <1>1, <1>3, ActiveOK

LEMMA RootOK == Root \in Path /\ ~Sane(Root)
  BY HomeAssumption DEF Root, Path, Sane

LEMMA ParkKeeps ==
  ASSUME StoreInv, NEW i, Holds(store, i), ParkAtRoot(i)
  PROVE  StoreInv' /\ Steady(store, store')
<1>1. StoreGood(store, Now(store)) /\ Now(store).ws = store.ws /\ Steady(store, store)
  BY NowFacts
<1>2. StoreGood(NavigateReplace(store, i, Root), Now(store)) /\ Steady(store, NavigateReplace(store, i, Root))
  BY <1>1, RootOK, NavigateReplaceGood
<1> DEFINE s == IF Location(TabOf(store, i).router) = Root THEN store
                ELSE NavigateReplace(store, i, Root)
<1>3. Update(s)
  BY DEF ParkAtRoot
<1>4. StoreGood(s, Now(store)) /\ Steady(store, s)
  BY <1>1, <1>2
<1> HIDE DEF s
<1> QED BY <1>3, <1>4, UpdateKeeps

LEMMA SwitchGood ==
  ASSUME StoreInv, {i \in TabIds : Fresh(store, i)} # {}, NEW p \in Path, Sane(p)
  PROVE  /\ StoreGood(SwitchWorkspace(store, p.ws, p), Now(store))
         /\ Steady(store, SwitchWorkspace(store, p.ws, p))
<1>1. StoreGood(store, Now(store))
  BY NowFacts
<1>2. p.ws \in Slugs
  BY SaneOK
<1>3. /\ StoreGood(SwitchWorkspace(store, p.ws, p), Now(store))
      /\ Covers(store, SwitchWorkspace(store, p.ws, p))
  BY <1>1, <1>2, SwitchWorkspaceGood
<1> QED BY <1>1, <1>3, CoversSteady

LEMMA ForegroundGood ==
  ASSUME StoreInv, {i \in TabIds : Fresh(store, i)} # {}, NEW p \in Path, Sane(p), p.ws = store.ws
  PROVE  /\ StoreGood(OpenForeground(store, p), Now(store)) /\ Steady(store, OpenForeground(store, p))
         /\ StoreGood(OpenTab(store, p), Now(store)) /\ Steady(store, OpenTab(store, p))
<1>1. StoreGood(store, Now(store)) /\ store.ws # None
  BY NowFacts DEF Sane
<1>2. /\ StoreGood(OpenForeground(store, p), Now(store)) /\ Covers(store, OpenForeground(store, p))
      /\ StoreGood(OpenTab(store, p), Now(store)) /\ Covers(store, OpenTab(store, p))
  BY <1>1, OpenForegroundGood, OpenTabGood
<1> QED BY <1>1, <1>2, CoversSteady

LEMMA PushKeeps ==
  ASSUME StoreInv, NEW i, Holds(store, i), NEW p \in Path, Push(i, p)
  PROVE  StoreInv' /\ Steady(store, store')
<1>1. CASE ~Sane(p)
  BY <1>1, ParkKeeps DEF Push
<1>2. CASE Sane(p)
  <2> DEFINE s == PushTo(i, p)
  <2>1. Update(s)
    BY <1>2 DEF Push
  <2>2. ASSUME {j \in TabIds : Fresh(store, j)} # {}
        PROVE  StoreGood(s, Now(store)) /\ Steady(store, s)
    <3>1. StoreGood(store, Now(store)) /\ Now(store).ws = store.ws
      BY NowFacts
    <3>2. CASE p.ws # store.ws
      <4>1. s = SwitchWorkspace(store, p.ws, p)
        BY <3>2 DEF PushTo
      <4> QED BY <1>2, <2>2, <4>1, SwitchGood
    <3>3. CASE p.ws = store.ws /\ LeavesPinned(p)
      <4>1. s = OpenForeground(store, p)
        BY <3>3 DEF PushTo
      <4> QED BY <1>2, <2>2, <3>3, <4>1, ForegroundGood
    <3>4. CASE p.ws = store.ws /\ ~LeavesPinned(p)
      <4>1. s = NavigatePush(store, i, p)
        BY <3>4 DEF PushTo
      <4>2. IsActive(store, i) /\ TabOf(store, i).pinned => Location(TabOf(store, i).router) = p
        BY <3>4 DEF LeavesPinned, IsActive
      <4>3. IsActive(store, i) /\ Sane(p) => p.ws = store.ws
        BY <3>4
      <4> QED BY <3>1, <4>1, <4>2, <4>3, NavigatePushGood
    <3> QED BY <3>2, <3>3, <3>4
  <2> HIDE DEF s
  <2> QED BY <2>1, <2>2, UpdateKeeps
<1> QED BY <1>1, <1>2

LEMMA ReplaceKeeps ==
  ASSUME StoreInv, NEW i, Holds(store, i), NEW p \in Path, Replace(i, p)
  PROVE  StoreInv' /\ Steady(store, store')
<1>1. CASE ~Sane(p)
  BY <1>1, ParkKeeps DEF Replace
<1>2. CASE Sane(p)
  <2> DEFINE s == ReplaceTo(i, p)
  <2>1. Update(s)
    BY <1>2 DEF Replace
  <2>2. ASSUME {j \in TabIds : Fresh(store, j)} # {}
        PROVE  StoreGood(s, Now(store)) /\ Steady(store, s)
    <3>1. StoreGood(store, Now(store)) /\ Now(store).ws = store.ws
      BY NowFacts
    <3>2. CASE p.ws # store.ws
      <4>1. s = SwitchWorkspace(store, p.ws, p)
        BY <3>2 DEF ReplaceTo
      <4> QED BY <1>2, <2>2, <4>1, SwitchGood
    <3>3. CASE p.ws = store.ws
      <4>1. s = NavigateReplace(store, i, p)
        BY <3>3 DEF ReplaceTo
      <4> QED BY <3>1, <3>3, <4>1, NavigateReplaceGood
    <3> QED BY <3>2, <3>3
  <2> HIDE DEF s
  <2> QED BY <2>1, <2>2, UpdateKeeps
<1> QED BY <1>1, <1>2

LEMMA ShellPushKeeps ==
  ASSUME StoreInv, NEW p \in Path, ShellPush(p)
  PROVE  StoreInv' /\ Steady(store, store')
<1>1. Sane(p) /\ Update(SwitchWorkspace(store, p.ws, p))
  BY DEF ShellPush
<1> QED BY <1>1, SwitchGood, UpdateKeeps

LEMMA PopKeeps ==
  ASSUME StoreInv, NEW i, Holds(store, i), NEW forward \in BOOLEAN,
         Update(NavigatePop(store, i, forward))
  PROVE  StoreInv' /\ Steady(store, store')
<1>1. StoreGood(store, Now(store)) /\ Now(store).ws = store.ws
  BY NowFacts
<1>2. /\ StoreGood(NavigatePop(store, i, forward), Now(store))
      /\ Steady(store, NavigatePop(store, i, forward))
  BY <1>1, NavigatePopGood
<1> QED BY <1>2, UpdateKeeps

LEMMA GoHistoryKeeps ==
  ASSUME StoreInv, NEW forward \in BOOLEAN, GoHistory(forward)
  PROVE  StoreInv' /\ Steady(store, store')
<1>1. store.ws # None /\ Update(NavigatePop(store, TabOf(store, ActiveId(store)).id, forward))
  BY DEF GoHistory
<1>2. Holds(store, ActiveId(store)) /\ TabOf(store, ActiveId(store)).id = ActiveId(store)
  BY <1>1, NowFacts, ActiveOK
<1> QED BY <1>1, <1>2, PopKeeps

LEMMA OpenInNewTabKeeps ==
  ASSUME StoreInv, NEW p \in Path, NEW a \in BOOLEAN, OpenInNewTab(p, a)
  PROVE  StoreInv' /\ Steady(store, store')
<1> DEFINE s == IF p.ws # store.ws THEN SwitchWorkspace(store, p.ws, p)
                ELSE IF a THEN OpenForeground(store, p) ELSE OpenTab(store, p)
<1>1. Sane(p) /\ Update(s)
  BY DEF OpenInNewTab
<1>2. ASSUME {j \in TabIds : Fresh(store, j)} # {}
      PROVE  StoreGood(s, Now(store)) /\ Steady(store, s)
  <2>1. CASE p.ws # store.ws
    BY <1>1, <1>2, <2>1, SwitchGood
  <2>2. CASE p.ws = store.ws /\ a
    BY <1>1, <1>2, <2>2, ForegroundGood
  <2>3. CASE p.ws = store.ws /\ ~a
    BY <1>1, <1>2, <2>3, ForegroundGood
  <2> QED BY <2>1, <2>2, <2>3
<1> HIDE DEF s
<1> QED BY <1>1, <1>2, UpdateKeeps

LEMMA SelectTabKeeps ==
  ASSUME StoreInv, NEW i, SelectTab(i)
  PROVE  StoreInv' /\ Steady(store, store')
<1>1. Update(SetActiveTab(store, i))
  BY DEF SelectTab
<1>2. StoreGood(SetActiveTab(store, i), Now(store)) /\ Covers(store, SetActiveTab(store, i))
  BY NowFacts, SetActiveTabGood
<1>3. Steady(store, SetActiveTab(store, i))
  BY <1>2, NowFacts, CoversSteady
<1> QED BY <1>1, <1>2, <1>3, UpdateKeeps

LEMMA CloseKeeps ==
  ASSUME StoreInv, NEW i, Holds(store, i), Update(CloseTab(store, i))
  PROVE  StoreInv' /\ Steady(store, store')
<1>1. ASSUME {j \in TabIds : Fresh(store, j)} # {}
      PROVE  StoreGood(CloseTab(store, i), Now(store)) /\ Steady(store, CloseTab(store, i))
  <2>1. StoreGood(CloseTab(store, i), Now(store)) /\ Covers(store, CloseTab(store, i))
    BY <1>1, NowFacts, CloseTabGood
  <2> QED BY <2>1, NowFacts, CoversSteady
<1> QED BY <1>1, UpdateKeeps

LEMMA CrashReloadKeeps ==
  ASSUME StoreInv, CrashReload
  PROVE  StoreInv' /\ Steady(store, store')
<1>1. store.ws # None /\ Update(ReloadActiveTab(store))
  BY DEF CrashReload
<1>2. StoreGood(ReloadActiveTab(store), Now(store)) /\ Steady(store, ReloadActiveTab(store))
  BY <1>1, NowFacts, ReloadActiveTabGood
<1> QED BY <1>1, <1>2, UpdateKeeps

LEMMA CrashGoToIssuesKeeps ==
  ASSUME StoreInv, CrashGoToIssues
  PROVE  StoreInv' /\ Steady(store, store')
<1> DEFINE i == ActiveId(store)
           t == TabOf(store, i)
           at == Location(t.router)
           p == DefaultPath(at.ws)
<1>1. store.ws # None /\ Sane(at) /\ Update(NavigateReplace(store, i, p))
  BY DEF CrashGoToIssues
<1>2. /\ Holds(store, i) /\ Owner(store, i) = store.ws
      /\ StoreGood(store, Now(store)) /\ Now(store).ws = store.ws /\ Now(store).but = {}
  BY <1>1, NowFacts, ActiveOK
<1> HIDE DEF i
<1>3. TabGood(t, store.ws, Now(store)) /\ t \in Tab
  BY <1>2, HeldGood
<1> HIDE DEF t
<1>4. /\ t.router.stack \in Seq(Path) /\ t.router.at \in 1 .. Len(t.router.stack)
      /\ at = t.router.stack[t.router.at]
  BY <1>3, TabFields DEF Location
<1> HIDE DEF at
<1>5. at \in Path
  BY <1>4
<1>6. at.ws \in Slugs
  BY <1>1, <1>5, SaneOK
<1>7. p \in Path /\ p.ws = at.ws
  BY <1>6, DefaultPathOK
<1>8. ~t.stray => p.ws = store.ws
  BY <1>2, <1>3, <1>4, <1>7 DEF TabGood, AtHome
<1> HIDE DEF p
<1>9. ~TabOf(store, i).stray => p.ws = store.ws
  BY <1>8 DEF t
<1>10. /\ StoreGood(NavigateReplace(store, i, p), Now(store))
       /\ Steady(store, NavigateReplace(store, i, p))
  BY <1>2, <1>7, <1>9, NavigateReplaceGood
<1> QED BY <1>1, <1>10, UpdateKeeps

LEMMA DragTabKeeps ==
  ASSUME StoreInv, NEW from, NEW to, DragTab(from, to)
  PROVE  StoreInv' /\ Steady(store, store')
<1>1. /\ store.ws # None /\ Update(MoveTab(store, from, to))
      /\ from \in DOMAIN store.by[store.ws].tabs /\ to \in DOMAIN store.by[store.ws].tabs
  BY DEF DragTab
<1>2. StoreGood(MoveTab(store, from, to), Now(store)) /\ Covers(store, MoveTab(store, from, to))
  BY <1>1, NowFacts, MoveTabGood
<1>3. Steady(store, MoveTab(store, from, to))
  BY <1>2, NowFacts, CoversSteady
<1> QED BY <1>1, <1>2, <1>3, UpdateKeeps

LEMMA PinClickedKeeps ==
  ASSUME StoreInv, NEW i, Holds(store, i), PinClicked(i)
  PROVE  StoreInv' /\ Steady(store, store')
<1>1. Update(TogglePin(store, i))
  BY DEF PinClicked
<1>2. StoreGood(TogglePin(store, i), Now(store)) /\ Covers(store, TogglePin(store, i))
  BY NowFacts, TogglePinGood
<1>3. Steady(store, TogglePin(store, i))
  BY <1>2, NowFacts, CoversSteady
<1> QED BY <1>1, <1>2, <1>3, UpdateKeeps

LEMMA WorkspacesChangeKeeps ==
  ASSUME StoreInv, NEW valid \in SUBSET Slugs, WorkspacesChange(valid)
  PROVE  StoreInv' /\ Steady(store, store')
<1>1. PICK first \in Slugs \cup {None}, fallback \in valid \cup {None} :
        /\ IsFirst(Surviving(store.by, valid), first)
        /\ Update(ValidateWorkspaceSlugs(store, valid, first, fallback))
  BY DEF WorkspacesChange
<1>2. ASSUME {j \in TabIds : Fresh(store, j)} # {}
      PROVE  /\ StoreGood(ValidateWorkspaceSlugs(store, valid, first, fallback), Now(store))
             /\ Steady(store, ValidateWorkspaceSlugs(store, valid, first, fallback))
  BY <1>1, <1>2, NowFacts, ValidateGood
<1> QED BY <1>1, <1>2, UpdateKeeps

LEMMA NewTabKeeps ==
  ASSUME StoreInv, NewTab
  PROVE  StoreInv' /\ Steady(store, store')
<1> DEFINE p == DefaultPath(store.ws)
           s == AddTab(store, p)
           i == Last(s.by[s.ws].tabs).id
<1>1. store.ws # None /\ Update(SetActiveTab(s, i))
  BY DEF NewTab
<1>2. StoreGood(store, Now(store)) /\ store.ws \in DOMAIN store.by /\ store.ws \in Slugs
  BY <1>1, NowFacts, ActiveOK
<1>3. p \in Path /\ p.ws = store.ws
  BY <1>2, DefaultPathOK
<1> HIDE DEF p
<1>4. s = WithGroup(store, store.ws, store.ws, Grown(store, store.ws, p), store.by[store.ws].active)
  BY DEF AddTab, Grown
<1> HIDE DEF s, i
<1>5. ASSUME {j \in TabIds : Fresh(store, j)} # {}
      PROVE  StoreGood(SetActiveTab(s, i), Now(store)) /\ Steady(store, SetActiveTab(s, i))
  <2>1. store.by[store.ws].active \in {store.by[store.ws].active, FreshId(store)}
    OBVIOUS
  <2>2. StoreGood(s, Now(store)) /\ Covers(store, s)
    BY <1>2, <1>3, <1>4, <1>5, <2>1, AddGood
  <2>3. StoreGood(SetActiveTab(s, i), Now(store)) /\ Shadows(s, SetActiveTab(s, i))
    BY <2>2, SetActiveTabGood
  <2>4. Covers(store, SetActiveTab(s, i))
    BY <2>2, <2>3, CoversThen
  <2> QED BY <1>2, <2>3, <2>4, CoversSteady
<1> QED BY <1>1, <1>5, UpdateKeeps

(* A link to another workspace is added to the active group and marked as  *)
(* stray: until the mark is set, its fresh id is the exception of StoreGood. *)
LEMMA MarkedGood ==
  ASSUME NEW t, NEW w, NEW c, TabGood(t, w, c), NEW b, NEW d, d.ws = c.ws,
         b \/ t.id \notin c.but, NEW u, u = [t EXCEPT !.stray = @ \/ b]
  PROVE  TabGood(u, w, d) /\ u.id = t.id /\ u.pinned = t.pinned /\ u.router = t.router
<1>1. t \in Tab
  BY DEF TabGood
<1>2. /\ u \in Tab /\ u.id = t.id /\ u.path = t.path /\ u.pinned = t.pinned
      /\ u.kept = t.kept /\ u.router = t.router /\ u.index = t.index
      /\ u.length = t.length /\ u.ref = t.ref
      /\ (u.stray <=> t.stray \/ b)
  BY <1>1, StrayOK
<1>3. AtHome(u, w)
  BY <1>2 DEF TabGood, AtHome
<1>4. Trail(u) /\ (w = d.ws => Counted(u))
  BY <1>2 DEF TabGood, Trail, Counted
<1> QED BY <1>2, <1>3, <1>4 DEF TabGood

LEMMA MarkedStoreGood ==
  ASSUME NEW s, NEW c, StoreGood(s, c), s.ws # None, NEW b, NEW d, d.ws = c.ws,
         c.but \subseteq {ActiveId(s)}, d.but = {}, b \/ c.but = {}, NEW s2,
         s2 = SetTab(s, ActiveId(s), [TabOf(s, ActiveId(s)) EXCEPT !.stray = @ \/ b])
  PROVE  StoreGood(s2, d) /\ Shadows(s, s2)
<1> DEFINE t == TabOf(s, ActiveId(s))
           u == [t EXCEPT !.stray = @ \/ b]
<1>1. Holds(s, ActiveId(s)) /\ t.id = ActiveId(s)
  BY ActiveOK
<1>2. TabGood(t, Owner(s, ActiveId(s)), c)
  BY <1>1, HeldGood
<1>3. s2 = SetTab(s, ActiveId(s), u)
  OBVIOUS
<1> HIDE DEF u
<1>4. /\ TabGood(u, Owner(s, ActiveId(s)), c) /\ TabGood(u, Owner(s, ActiveId(s)), d)
      /\ u.id = t.id /\ u.pinned = t.pinned /\ u.router = t.router
  <2>1. b \/ t.id \notin c.but
    OBVIOUS
  <2> HIDE DEF t
  <2> QED BY <1>2, <2>1, MarkedGood DEF u
<1>5. /\ Holds(s, u.id) /\ TabOf(s, u.id) = t /\ Owner(s, u.id) = Owner(s, ActiveId(s))
      /\ s2 = SetTab(s, u.id, u)
  BY <1>1, <1>3, <1>4
<1>6. StoreGood(s2, c) /\ DOMAIN s2.by = DOMAIN s.by
      /\ \A w \in DOMAIN s.by :
           /\ Len(s2.by[w].tabs) = Len(s.by[w].tabs)
           /\ \A n \in 1 .. Len(s.by[w].tabs) :
                \/ s2.by[w].tabs[n] = u /\ w = Owner(s, u.id)
                \/ /\ s2.by[w].tabs[n] = s.by[w].tabs[n]
                   /\ s.by[w].tabs[n].id # u.id
  <2>1. /\ Holds(s, u.id) /\ u.pinned = TabOf(s, u.id).pinned /\ TabGood(u, Owner(s, u.id), c)
    BY <1>4, <1>5
  <2>2. StoreGood(s, c)
    OBVIOUS
  <2> SUFFICES ASSUME NEW x, x = SetTab(s, u.id, u)
               PROVE  /\ StoreGood(x, c) /\ DOMAIN x.by = DOMAIN s.by
                      /\ \A w \in DOMAIN s.by :
                           /\ Len(x.by[w].tabs) = Len(s.by[w].tabs)
                           /\ \A n \in 1 .. Len(s.by[w].tabs) :
                                \/ x.by[w].tabs[n] = u /\ w = Owner(s, u.id)
                                \/ /\ x.by[w].tabs[n] = s.by[w].tabs[n]
                                   /\ s.by[w].tabs[n].id # u.id
    BY <1>5
  <2> QED BY ONLY <2>1, <2>2, x = SetTab(s, u.id, u), SetTabGood
<1>7. Shadows(s, s2)
  BY <1>4, <1>5, SetTabSteady
<1>8. ASSUME NEW w \in DOMAIN s2.by, NEW n \in 1 .. Len(s2.by[w].tabs)
      PROVE  TabGood(s2.by[w].tabs[n], w, d)
  <2>1. CASE s2.by[w].tabs[n] = u /\ w = Owner(s, u.id)
    BY <1>4, <1>5, <2>1
  <2>2. CASE s2.by[w].tabs[n] = s.by[w].tabs[n] /\ s.by[w].tabs[n].id # u.id
    <3>1. TabGood(s.by[w].tabs[n], w, c)
      BY <1>6, GroupFacts
    <3>2. s.by[w].tabs[n].id \notin c.but
      BY <1>1, <1>4, <2>2
    <3> QED BY <2>2, <3>1, <3>2 DEF TabGood
  <2> QED BY <1>6, <2>1, <2>2
<1> QED BY <1>6, <1>7, <1>8, Recontext

LEMMA OpenLinkKeeps ==
  ASSUME StoreInv, NEW p \in Path, OpenLink(p)
  PROVE  StoreInv' /\ Steady(store, store')
<1> DEFINE opened == OpenForeground(store, p)
           t == TabOf(opened, ActiveId(opened))
           b == p.ws # store.ws
           s == IF Sane(p) THEN SetTab(opened, ActiveId(opened), [t EXCEPT !.stray = @ \/ b]) ELSE store
<1>1. store.ws # None /\ Update(s)
  BY DEF OpenLink
<1>2. StoreGood(store, Now(store)) /\ Now(store).ws = store.ws /\ Now(store).but = {} /\ Steady(store, store)
  BY NowFacts
<1>3. ASSUME {j \in TabIds : Fresh(store, j)} # {}
      PROVE  StoreGood(s, Now(store)) /\ Steady(store, s)
  <2>1. CASE ~Sane(p)
    BY <1>2, <2>1
  <2>2. CASE Sane(p)
    <3> DEFINE d == [ws |-> store.ws, but |-> {FreshId(store)}]
    <3>1. s = SetTab(opened, ActiveId(opened), [TabOf(opened, ActiveId(opened)) EXCEPT !.stray = @ \/ b])
      BY <2>2
    <3> HIDE DEF s, t, opened, b
    <3>2. CASE ShowsPath(store.by[store.ws].tabs, p) \/ p.ws = store.ws
      <4>1. StoreGood(opened, Now(store)) /\ Covers(store, opened) /\ opened.ws = store.ws
        BY <1>1, <1>2, <1>3, <2>2, <3>2, OpenForegroundGood DEF opened
      <4>2. StoreGood(s, Now(store)) /\ Shadows(opened, s)
        BY <1>1, <1>2, <3>1, <4>1, MarkedStoreGood
      <4>3. Covers(store, s)
        BY <4>1, <4>2, CoversThen
      <4> QED BY <1>2, <4>2, <4>3, CoversSteady
    <3>3. CASE ~ShowsPath(store.by[store.ws].tabs, p) /\ p.ws # store.ws
      <4>1. \A w \in DOMAIN store.by : \A n \in 1 .. Len(store.by[w].tabs) : TabGood(store.by[w].tabs[n], w, d)
        <5>1. \A w \in DOMAIN store.by : \A n \in 1 .. Len(store.by[w].tabs) : TabGood(store.by[w].tabs[n], w, Now(store))
          BY <1>2, GroupFacts
        <5> QED BY <1>2, <5>1 DEF TabGood
      <4>2. StoreGood(store, d)
        BY <1>2, <4>1, Recontext
      <4>3. d.ws = store.ws /\ d.but = {FreshId(store)}
        OBVIOUS
      <4> HIDE DEF d
      <4>4. /\ StoreGood(opened, d) /\ Covers(store, opened) /\ opened.ws = store.ws
            /\ ActiveId(opened) = FreshId(store)
        BY <1>1, <1>3, <2>2, <3>3, <4>2, <4>3, OpenForegroundGood DEF opened
      <4>5. b
        BY <3>3 DEF b
      <4>6. StoreGood(s, Now(store)) /\ Shadows(opened, s)
        BY <1>1, <1>2, <3>1, <4>3, <4>4, <4>5, MarkedStoreGood
      <4>7. Covers(store, s)
        BY <4>4, <4>6, CoversThen
      <4> QED BY <1>2, <4>6, <4>7, CoversSteady
    <3> QED BY <3>2, <3>3
  <2> QED BY <2>1, <2>2
<1> HIDE DEF s
<1> QED BY <1>1, <1>3, UpdateKeeps

LEMMA NextKeeps == StoreInv /\ TabNext => StoreInv' /\ Steady(store, store')
<1> SUFFICES ASSUME StoreInv, TabNext
             PROVE  StoreInv' /\ Steady(store, store')
  OBVIOUS
<1>1. \A i \in OpenIds : Holds(store, i)
  <2> SUFFICES ASSUME NEW t \in TabsIn(store) PROVE Holds(store, t.id)
    BY DEF OpenIds
  <2>1. \E w \in DOMAIN store.by : \E n \in 1 .. Len(store.by[w].tabs) : t = store.by[w].tabs[n]
    BY TabsInOK DEF StoreInv
  <2> QED BY <2>1, HoldsOK DEF StoreInv, Has
<1>2. CASE \E i \in OpenIds : \/ \E p \in Path : Push(i, p) \/ Replace(i, p)
                              \/ AdapterBack(i) \/ SelectTab(i) \/ CloseClicked(i) \/ PinClicked(i)
  <2>1. PICK i \in OpenIds : \/ \E p \in Path : Push(i, p) \/ Replace(i, p)
                             \/ AdapterBack(i) \/ SelectTab(i) \/ CloseClicked(i) \/ PinClicked(i)
    BY <1>2
  <2>2. Holds(store, i)
    BY <1>1
  <2>3. CASE \E p \in Path : Push(i, p)
    BY <2>2, <2>3, PushKeeps
  <2>4. CASE \E p \in Path : Replace(i, p)
    BY <2>2, <2>4, ReplaceKeeps
  <2>5. CASE AdapterBack(i)
    <3>1. Update(NavigatePop(store, i, FALSE)) /\ FALSE \in BOOLEAN
      BY <2>5 DEF AdapterBack
    <3> QED BY <2>2, <3>1, PopKeeps
  <2>6. CASE SelectTab(i)
    BY <2>6, SelectTabKeeps
  <2>7. CASE CloseClicked(i)
    BY <2>2, <2>7, CloseKeeps DEF CloseClicked
  <2>8. CASE PinClicked(i)
    BY <2>2, <2>8, PinClickedKeeps
  <2> QED BY <2>1, <2>3, <2>4, <2>5, <2>6, <2>7, <2>8
<1>3. CASE \E p \in Path : ShellPush(p) \/ OpenLink(p) \/ \E a \in BOOLEAN : OpenInNewTab(p, a)
  BY <1>3, ShellPushKeeps, OpenLinkKeeps, OpenInNewTabKeeps
<1>4. CASE \E forward \in BOOLEAN : GoHistory(forward)
  BY <1>4, GoHistoryKeeps
<1>5. CASE \E from, to \in 1 .. MaxTabs : DragTab(from, to)
  BY <1>5, DragTabKeeps
<1>6. CASE \E valid \in SUBSET Slugs : WorkspacesChange(valid)
  BY <1>6, WorkspacesChangeKeeps
<1>7. CASE NewTab
  BY <1>7, NewTabKeeps
<1>8. CASE CrashReload
  BY <1>8, CrashReloadKeeps
<1>9. CASE CrashGoToIssues
  BY <1>9, CrashGoToIssuesKeeps
<1>10. CASE CrashClose
  <2>1. store.ws # None /\ Update(CloseTab(store, ActiveId(store)))
    BY <1>10 DEF CrashClose
  <2>2. Holds(store, ActiveId(store))
    BY <2>1, NowFacts, ActiveOK
  <2> QED BY <2>1, <2>2, CloseKeeps
<1>11. CASE Logout
  BY <1>11, LogoutGood
<1>12. CASE Restart
  BY <1>12, RestartGood
<1> QED BY <1>2, <1>3, <1>4, <1>5, <1>6, <1>7, <1>8, <1>9, <1>10, <1>11, <1>12 DEF TabNext

(* The inductive invariant: whatever was persisted, and whatever handlers  *)
(* run in whatever order, the store is well-formed after each commit.      *)
THEOREM StoreInvariant == TabSpec => []StoreInv
<1>1. TabInit => StoreInv
  BY InitInv
<1>2. StoreInv /\ [TabNext]_tabVars => StoreInv'
  <2>1. StoreInv /\ UNCHANGED tabVars => StoreInv'
    BY DEF tabVars, StoreInv
  <2> QED BY <2>1, NextKeeps
<1> QED BY <1>1, <1>2, PTL DEF TabSpec

LEMMA RouterIn ==
  ASSUME NEW r \in Router
  PROVE  RouterOK(r)
<1>1. r.stack \in Seq(Path) /\ r.at \in 1 .. Len(r.stack) /\ DOMAIN r.stack = 1 .. Len(r.stack)
  BY LenProperties DEF Router
<1>2. \A k \in DOMAIN r.stack : r.stack[k] \in Path
  BY <1>1
<1> QED BY <1>1, <1>2 DEF RouterOK, ToSet

LEMMA StoreInvType == StoreInv => TabTypeOK
<1> SUFFICES ASSUME StoreInv PROVE TabTypeOK
  OBVIOUS
<1>1. StoreGood(store, Now(store))
  BY DEF StoreInv
<1>2. ASSUME NEW w \in DOMAIN store.by
      PROVE  LET tabs == store.by[w].tabs
             IN /\ \E n \in DOMAIN tabs : tabs[n].id = store.by[w].active
                /\ \A m, n \in DOMAIN tabs : m < n /\ tabs[n].pinned => tabs[m].pinned
                /\ \A n \in DOMAIN tabs : RouterOK(tabs[n].router) /\ tabs[n].path \in Path
  <2> DEFINE tabs == store.by[w].tabs
  <2>1. /\ DOMAIN tabs = 1 .. Len(tabs) /\ PinsFirst(tabs) /\ Has(tabs, store.by[w].active)
        /\ \A n \in 1 .. Len(tabs) : tabs[n] \in Tab
    BY <1>1, GroupFacts
  <2>2. \A n \in 1 .. Len(tabs) : RouterOK(tabs[n].router) /\ tabs[n].path \in Path
    BY <2>1, TabFields, RouterIn
  <2> QED BY <2>1, <2>2 DEF Has, PinsFirst
<1>3. OneTabPerId(store.by)
  <2> SUFFICES ASSUME NEW w \in DOMAIN store.by, NEW x \in DOMAIN store.by,
                      NEW m \in DOMAIN store.by[w].tabs, NEW n \in DOMAIN store.by[x].tabs,
                      store.by[w].tabs[m].id = store.by[x].tabs[n].id
               PROVE  w = x /\ m = n
    BY DEF OneTabPerId
  <2>1. m \in 1 .. Len(store.by[w].tabs) /\ n \in 1 .. Len(store.by[x].tabs)
    BY <1>1, GroupFacts
  <2>2. w = x
    BY <1>1, <2>1 DEF StoreGood, Apart
  <2>3. Distinct(store.by[w].tabs)
    BY <1>1, GroupFacts
  <2> QED BY <2>1, <2>2, <2>3 DEF Distinct
<1>4. /\ DOMAIN store.by \subseteq Slugs
      /\ IF DOMAIN store.by = {} THEN store.ws = None ELSE store.ws \in DOMAIN store.by
  BY <1>1 DEF StoreGood
<1> QED BY <1>2, <1>3, <1>4 DEF TabTypeOK

(* The store is always well-formed: every group has tabs and an active tab *)
(* among them, pinned tabs come first, and no two tabs share an id, across *)
(* every store method, migration and merge.                                *)
THEOREM TabTypeSafe == TabSpec => []TabTypeOK
<1>1. TabSpec => []StoreInv
  BY StoreInvariant
<1> QED BY <1>1, StoreInvType, PTL

(* A tab shows only pages of its group's workspace, unless a link in       *)
(* content opened it there or a late callback moved it.                    *)
THEOREM PathsInGroup == TabSpec => []PathInGroup
<1>1. StoreInv => PathInGroup
  <2> SUFFICES ASSUME StoreInv, NEW w \in DOMAIN store.by,
                      NEW t \in ToSet(store.by[w].tabs), ~t.stray
               PROVE  t.path.ws = w /\ \A p \in ToSet(t.router.stack) : p.ws = w
    BY DEF PathInGroup
  <2>1. StoreGood(store, Now(store)) /\ Now(store).but = {}
    BY NowFacts
  <2>2. PICK n \in DOMAIN store.by[w].tabs : t = store.by[w].tabs[n]
    BY DEF ToSet
  <2>3. TabGood(t, w, Now(store)) /\ t \in Tab
    BY <2>1, <2>2, GroupFacts
  <2>4. t.path.ws = w /\ \A k \in 1 .. Len(t.router.stack) : t.router.stack[k].ws = w
    BY <2>1, <2>3 DEF TabGood, AtHome
  <2>5. DOMAIN t.router.stack = 1 .. Len(t.router.stack)
    BY <2>3, TabFields, LenProperties
  <2> QED BY <2>4, <2>5 DEF ToSet
<1>2. TabSpec => []StoreInv
  BY StoreInvariant
<1> QED BY <1>1, <1>2, PTL

(* The history that the back and forward buttons read is the router's,     *)
(* for every visible tab whose component has seen each navigation.         *)
THEOREM HistoryTrue == TabSpec => []HistoryHonest
<1>1. StoreInv => HistoryHonest
  <2> SUFFICES ASSUME StoreInv, store.ws # None
               PROVE  LET t == TabOf(store, ActiveId(store))
                      IN t.kept => t.index = t.router.at - 1 /\ t.length = Len(t.router.stack)
    BY DEF HistoryHonest
  <2>1. StoreGood(store, Now(store)) /\ Holds(store, ActiveId(store))
    BY NowFacts, ActiveOK
  <2>2. TabGood(TabOf(store, ActiveId(store)), Owner(store, ActiveId(store)), Now(store))
    BY <2>1, HeldGood
  <2> QED BY <2>2 DEF TabGood, Trail
<1>2. TabSpec => []StoreInv
  BY StoreInvariant
<1> QED BY <1>1, <1>2, PTL

(* No push in the visible tab, and no other handler, takes a pinned tab    *)
(* forward to another page: pushes elsewhere open a tab of their own.      *)
THEOREM PinnedStays == TabSpec => PinnedParked
<1> DEFINE Parked ==
      store.ws # None =>
        LET t == TabOf(store, ActiveId(store))
        IN t.pinned /\ Holds(store', t.id) =>
             LET u == TabOf(store', t.id)
             IN u.router.at > t.router.at /\ u.router.stack # t.router.stack
                  => Location(u.router) = Location(t.router)
<1>1. StoreInv /\ StoreInv' /\ Steady(store, store') => Parked
  <2> SUFFICES ASSUME StoreInv, StoreInv', Steady(store, store'), store.ws # None
               PROVE  LET t == TabOf(store, ActiveId(store))
                      IN t.pinned /\ Holds(store', t.id) => Parks(t, TabOf(store', t.id))
    BY DEF Parks
  <2>1. /\ StoreGood(store, Now(store)) /\ StoreGood(store', Now(store'))
        /\ Holds(store, ActiveId(store))
    BY NowFacts, ActiveOK DEF StoreInv
  <2>2. /\ TabOf(store, ActiveId(store)) \in TabsIn(store)
        /\ TabOf(store, ActiveId(store)).id = ActiveId(store)
    BY <2>1, HeldGood
  <2>3. \A i : Holds(store', i) => TabOf(store', i) \in TabsIn(store') /\ TabOf(store', i).id = i
    BY <2>1, HeldGood
  <2> QED BY <2>2, <2>3 DEF Steady
<1>2. StoreInv /\ StoreInv' /\ [TabNext]_tabVars => [Parked]_tabVars
  BY <1>1, NextKeeps
<1>3. TabSpec => []StoreInv
  BY StoreInvariant
<1>4. TabSpec => [][Parked]_tabVars
  BY <1>2, <1>3, PTL DEF TabSpec
<1> QED BY <1>4 DEF PinnedParked

-----------------------------------------------------------------------------
(* A restart.  Filtering an interval of positions keeps a segment, and the *)
(* pinned tabs of a well-formed group are a prefix: so merge rebuilds each *)
(* group in the order in which it was saved.                               *)

LEMMA IntervalPosition ==
  ASSUME NEW a \in Nat, NEW b \in Nat, a <= b, NEW K, K = a + 1 .. b
  PROVE  /\ Cardinality(K) = b - a
         /\ \A k \in 1 .. b - a : Position(K, k) = a + k
<1>1. \A n \in Int : a + 1 <= n + 1 => Cardinality(a + 1 .. n) = n - a
  <2> SUFFICES ASSUME NEW n \in Int, a + 1 <= n + 1
               PROVE  Cardinality(a + 1 .. n) = n - a
    OBVIOUS
  <2>1. a + 1 \in Int /\ (IF a + 1 > n THEN 0 ELSE n - (a + 1) + 1) = n - a
    OBVIOUS
  <2>2. Cardinality(a + 1 .. n) = IF a + 1 > n THEN 0 ELSE n - (a + 1) + 1
    BY <2>1, FS_Interval, Zenon
  <2> QED BY <2>1, <2>2
<1>2. Cardinality(K) = b - a
  BY <1>1
<1>3. ASSUME NEW k \in 1 .. b - a
      PROVE  Position(K, k) = a + k
  <2>1. K \in SUBSET (1 .. b) /\ k \in 1 .. Cardinality(K)
    BY <1>2
  <2>2. Position(K, k) \in K /\ Rank(K, Position(K, k)) = k
    BY <2>1, PositionOK
  <2> DEFINE n == Position(K, k)
  <2>3. n \in Int /\ a + 1 <= n + 1 /\ K \cap 1 .. n = a + 1 .. n
    BY <2>2
  <2>4. Cardinality(K \cap 1 .. n) = n - a
    BY <1>1, <2>3
  <2>5. n - a = k
    BY <2>2, <2>4 DEF Rank
  <2> QED BY <2>3, <2>5
<1> QED BY <1>2, <1>3

Segment(f, tabs, a, b) ==
  /\ f = [k \in 1 .. b - a |-> tabs[a + k]]
  /\ Len(f) = b - a
  /\ \A k \in 1 .. b - a : f[k] = tabs[a + k]

LEMMA FilteredSegment ==
  ASSUME NEW tabs, NEW a \in Nat, NEW b \in Nat, a <= b, NEW K, K = a + 1 .. b
  PROVE  Segment(Filtered(tabs, K), tabs, a, b)
<1>1. Cardinality(K) = b - a /\ \A k \in 1 .. b - a : Position(K, k) = a + k
  BY IntervalPosition
<1>2. Filtered(tabs, K) = [k \in 1 .. b - a |-> tabs[Position(K, k)]]
  BY <1>1 DEF Filtered
<1>3. Filtered(tabs, K) = [k \in 1 .. b - a |-> tabs[a + k]]
  BY <1>1, <1>2
<1>4. b - a \in Nat
  OBVIOUS
<1>5. Len(Filtered(tabs, K)) = b - a
  <2> SUFFICES ASSUME NEW S, NEW n \in Nat, NEW f, n = b - a,
                      f = [k \in 1 .. n |-> tabs[a + k]], \A k \in 1 .. n : tabs[a + k] \in S
               PROVE  Len(f) = n
    <3> DEFINE S == {tabs[a + k] : k \in 1 .. b - a}
    <3>1. \A k \in 1 .. b - a : tabs[a + k] \in S
      OBVIOUS
    <3> HIDE DEF S
    <3> QED BY <1>3, <1>4, <3>1
  <2>1. f \in Seq(S)
    OBVIOUS
  <2> QED BY <2>1, LenProperties
<1> QED BY <1>3, <1>5 DEF Segment

LEMMA PinnedPrefix ==
  ASSUME NEW tabs \in Seq(Tab), PinsFirst(tabs)
  PROVE  /\ PinsThenRest(tabs) \in Seq(Tab)
         /\ Len(PinsThenRest(tabs)) = Len(tabs)
         /\ \A n \in 1 .. Len(tabs) : PinsThenRest(tabs)[n] = tabs[n]
<1> DEFINE L == Len(tabs)
           K == Pins(tabs)
           b == Cardinality(K)
           f == Filtered(tabs, K)
           g == Filtered(tabs, DOMAIN tabs \ K)
<1>1. L \in Nat /\ DOMAIN tabs = 1 .. L /\ \A n \in 1 .. L : tabs[n] \in Tab
  BY Entries
<1>2. K \in SUBSET (1 .. L) /\ \A m, n \in 1 .. L : m < n /\ n \in K => m \in K
  BY <1>1 DEF Pins, PinsFirst
<1> HIDE DEF L, K
<1>3. b \in 0 .. L /\ K = 1 .. b
  BY <1>1, <1>2, PrefixCount
<1> HIDE DEF b
<1>4. b \in Nat /\ 0 <= b /\ b <= L /\ K = 0 + 1 .. b /\ DOMAIN tabs \ K = b + 1 .. L
  BY <1>1, <1>3
<1>5. Len(f) = b /\ \A k \in 1 .. b : f[k] = tabs[k]
  <2> SUFFICES ASSUME NEW z \in Nat, z = 0
               PROVE  Len(f) = b - z /\ \A k \in 1 .. b - z : f[k] = tabs[z + k]
    BY <1>4
  <2>1. z <= b /\ K = z + 1 .. b
    BY <1>4
  <2>2. Segment(f, tabs, z, b)
    BY <1>4, <2>1, FilteredSegment, Zenon
  <2> QED BY <2>2 DEF Segment
<1>6. Len(g) = L - b /\ \A k \in 1 .. L - b : g[k] = tabs[b + k]
  <2>1. Segment(g, tabs, b, L)
    BY <1>1, <1>4, FilteredSegment, Zenon
  <2> QED BY <2>1 DEF Segment
<1>7. f \in Seq(Tab) /\ g \in Seq(Tab)
  BY <1>1, <1>2, FilteredFacts DEF L
<1>8. PinsThenRest(tabs) = f \o g
  BY DEF PinsThenRest, K
<1> HIDE DEF f, g
<1>9. f \o g \in Seq(Tab) /\ Len(f \o g) = L
  <2>1. b + (L - b) = L
    BY <1>1, <1>4
  <2> QED BY <1>5, <1>6, <1>7, <2>1, ConcatProperties
<1>10. ASSUME NEW n \in 1 .. L PROVE (f \o g)[n] = tabs[n]
  <2>1. CASE n <= b
    <3>1. n \in 1 .. b
      BY <1>1, <1>4, <2>1
    <3> QED BY <1>5, <1>7, <3>1
  <2>2. CASE n > b
    <3>1. n - b \in 1 .. L - b /\ b + (n - b) = n
      BY <1>1, <1>4, <2>2
    <3>2. n \in Len(f) + 1 .. Len(f) + Len(g)
      BY <1>1, <1>4, <1>5, <1>6, <2>2
    <3>3. (f \o g)[n] = g[n - Len(f)]
      BY <1>7, <3>2
    <3> QED BY <1>5, <1>6, <3>1, <3>3
  <2>3. n <= b \/ n > b
    BY <1>1, <1>4
  <2> QED BY <2>1, <2>2, <2>3
<1> QED BY <1>8, <1>9, <1>10 DEF L

LEMMA RebuiltGroup ==
  ASSUME NEW g, NEW w, NEW c, GroupGood(g, w, c),
         \A n \in 1 .. Len(g.tabs) : g.tabs[n].path.ws = w,
         NEW rows, rows = SavedGroup(g).tabs, NEW tabs, tabs = Rehydrated(w, rows)
  PROVE  /\ Len(tabs) = Len(g.tabs) /\ DOMAIN tabs = DOMAIN g.tabs /\ tabs # <<>>
         /\ \A n \in DOMAIN g.tabs : /\ tabs[n].id = g.tabs[n].id /\ tabs[n].path = g.tabs[n].path
                                     /\ tabs[n].pinned = g.tabs[n].pinned
         /\ ActiveOf(SavedGroup(g), tabs) = g.active
<1> DEFINE L == Len(g.tabs)
           good == Good(w, rows)
           b == Built(w, rows)
<1>1. /\ g.tabs \in Seq(Tab) /\ L \in Nat /\ DOMAIN g.tabs = 1 .. L
      /\ \A n \in 1 .. L : g.tabs[n] \in Tab
      /\ PinsFirst(g.tabs) /\ Distinct(g.tabs) /\ Has(g.tabs, g.active)
  BY Entries DEF GroupGood, TabsGood
<1>2. /\ rows \in Seq(PinnableTab) /\ SavedGroup(g).active = g.active
      /\ Len(rows) = L /\ DOMAIN rows = 1 .. L
      /\ \A n \in 1 .. L : rows[n] = SavedRow(g.tabs[n])
  BY <1>1, SavedGroupOK
<1>3. \A n \in 1 .. L : /\ rows[n] \in PinnableTab
                        /\ rows[n].id = g.tabs[n].id /\ rows[n].path = g.tabs[n].path
                        /\ rows[n].pinned = g.tabs[n].pinned
  <2>1. \A n \in 1 .. L : rows[n] \in PinnableTab
    BY <1>2
  <2>2. \A t : /\ SavedRow(t).id = t.id /\ SavedRow(t).path = t.path
               /\ SavedRow(t).pinned = t.pinned
    BY DEF SavedRow, SavedTab
  <2> QED BY <1>2, <2>1, <2>2
<1> HIDE DEF L, good, b
<1>4. InWorkspace(rows, w) = 1 .. L
  BY <1>2, <1>3 DEF InWorkspace, L
<1>5. Len(good) = L /\ DOMAIN good = 1 .. L /\ \A n \in 1 .. L : good[n] = rows[n]
  <2> SUFFICES ASSUME NEW z \in Nat, z = 0
               PROVE  /\ Len(good) = L - z /\ DOMAIN good = 1 .. L - z
                      /\ \A k \in 1 .. L - z : good[k] = rows[z + k]
    BY <1>1
  <2>1. z <= L /\ InWorkspace(rows, w) = z + 1 .. L
    BY <1>1, <1>4
  <2>2. Segment(Filtered(rows, InWorkspace(rows, w)), rows, z, L)
    BY <1>1, <2>1, FilteredSegment, Zenon
  <2> QED BY <2>2 DEF Segment, good, Good
<1>6. b = [n \in 1 .. L |-> Restored(good[n])]
  BY <1>5 DEF b, Built, good
<1>7. \A n \in 1 .. L : /\ Restored(good[n]) \in Tab
                        /\ Restored(good[n]).id = g.tabs[n].id
                        /\ Restored(good[n]).path = g.tabs[n].path
                        /\ Restored(good[n]).pinned = g.tabs[n].pinned
  <2> SUFFICES ASSUME NEW n \in 1 .. L, NEW row, row = rows[n]
               PROVE  /\ Restored(row) \in Tab /\ Restored(row).id = g.tabs[n].id
                      /\ Restored(row).path = g.tabs[n].path
                      /\ Restored(row).pinned = g.tabs[n].pinned
    BY <1>5
  <2>1. row \in PinnableTab /\ row.path.ws = w
    BY <1>3 DEF L
  <2>2. /\ Restored(row) \in Tab /\ Restored(row).id = row.id
        /\ Restored(row).path = row.path /\ Restored(row).pinned = row.pinned
    BY <2>1, RestoredGood
  <2> QED BY <1>3, <2>2
<1>8. b \in Seq(Tab) /\ Len(b) = L /\ \A n \in 1 .. L : b[n] = Restored(good[n])
  BY <1>1, <1>6, <1>7
<1>9. PinsFirst(b)
  BY <1>1, <1>7, <1>8 DEF PinsFirst, L
<1>10. tabs = PinsThenRest(b)
  BY RehydratedIs DEF b
<1>11. /\ PinsThenRest(b) \in Seq(Tab) /\ Len(PinsThenRest(b)) = L
       /\ \A n \in 1 .. L : PinsThenRest(b)[n] = b[n]
  BY ONLY <1>8, <1>9, PinnedPrefix
<1>12. tabs \in Seq(Tab) /\ Len(tabs) = L /\ DOMAIN tabs = 1 .. L /\ \A n \in 1 .. L : tabs[n] = b[n]
  BY <1>10, <1>11, Entries
<1>13. \A n \in 1 .. L : /\ tabs[n].id = g.tabs[n].id /\ tabs[n].path = g.tabs[n].path
                         /\ tabs[n].pinned = g.tabs[n].pinned
  BY <1>7, <1>8, <1>12
<1>14. PICK k \in 1 .. L : g.tabs[k].id = g.active
  BY <1>1 DEF Has, L
<1>15. tabs # <<>>
  BY <1>12, <1>14
<1>16. ActiveOf(SavedGroup(g), tabs) = g.active
  BY <1>2, <1>12, <1>13, <1>14 DEF ActiveOf, ToSet
<1> QED BY <1>1, <1>12, <1>13, <1>15, <1>16 DEF L

ShapeOf(g) ==
  [active |-> g.active,
   tabs |-> [n \in DOMAIN g.tabs |-> <<g.tabs[n].id, g.tabs[n].path, g.tabs[n].pinned>>]]

(* A restart loses nothing: if every tab is in its own workspace, what     *)
(* merge makes of the persisted store has the same groups, tabs, order,    *)
(* pins and active tabs.                                                   *)
THEOREM RestartLosesNothing == TabSpec => []RestartKeepsTabs
<1>1. StoreInv => RestartKeepsTabs
  <2> SUFFICES ASSUME StoreInv,
                      \A w \in DOMAIN store.by : \A t \in ToSet(store.by[w].tabs) : t.path.ws = w,
                      NEW s \in Hydrations(Partialize(store))
               PROVE  /\ s.ws = store.ws /\ DOMAIN s.by = DOMAIN store.by
                      /\ \A w \in DOMAIN store.by : ShapeOf(s.by[w]) = ShapeOf(store.by[w])
    <3> SUFFICES ASSUME StoreInv,
                        \A w \in DOMAIN store.by : \A t \in ToSet(store.by[w].tabs) : t.path.ws = w,
                        NEW s \in Hydrations(Partialize(store)),
                        /\ s.ws = store.ws /\ DOMAIN s.by = DOMAIN store.by
                        /\ \A w \in DOMAIN store.by : ShapeOf(s.by[w]) = ShapeOf(store.by[w])
                 PROVE  [ws |-> s.ws, by |-> [w \in DOMAIN s.by |-> ShapeOf(s.by[w])]]
                          = [ws |-> store.ws, by |-> [w \in DOMAIN store.by |-> ShapeOf(store.by[w])]]
      BY DEF RestartKeepsTabs, ShapeOf
    <3>1. [w \in DOMAIN s.by |-> ShapeOf(s.by[w])] = [w \in DOMAIN store.by |-> ShapeOf(store.by[w])]
      OBVIOUS
    <3> QED BY <3>1
  <2> DEFINE p == Partialize(store)
  <2>1. StoreGood(store, Now(store))
    BY DEF StoreInv
  <2>2. /\ p.ws = store.ws /\ DOMAIN p.by = DOMAIN store.by
        /\ \A w \in DOMAIN store.by : p.by[w] = SavedGroup(store.by[w])
    BY PartializeIs
  <2> HIDE DEF p
  <2>3. ASSUME NEW w \in DOMAIN store.by, NEW tabs, tabs = Rehydrated(w, p.by[w].tabs)
        PROVE  /\ tabs # <<>>
               /\ ShapeOf([tabs |-> tabs, active |-> ActiveOf(p.by[w], tabs)]) = ShapeOf(store.by[w])
    <3> DEFINE g == store.by[w]
               rows == SavedGroup(g).tabs
    <3>1. GroupGood(g, w, Now(store)) /\ DOMAIN g.tabs = 1 .. Len(g.tabs)
      BY <2>1, GroupFacts DEF StoreGood
    <3>2. \A n \in 1 .. Len(g.tabs) : g.tabs[n].path.ws = w
      BY <3>1 DEF ToSet
    <3>3. p.by[w] = SavedGroup(g) /\ tabs = Rehydrated(w, rows)
      BY <2>2, <2>3
    <3> HIDE DEF g, rows
    <3>4. /\ DOMAIN tabs = DOMAIN g.tabs /\ tabs # <<>>
          /\ \A n \in DOMAIN g.tabs : /\ tabs[n].id = g.tabs[n].id /\ tabs[n].path = g.tabs[n].path
                                      /\ tabs[n].pinned = g.tabs[n].pinned
          /\ ActiveOf(SavedGroup(g), tabs) = g.active
      BY <3>1, <3>2, <3>3, RebuiltGroup DEF rows
    <3>5. ShapeOf([tabs |-> tabs, active |-> g.active]) = ShapeOf(g)
      BY <3>4 DEF ShapeOf
    <3> QED BY <3>3, <3>4, <3>5 DEF g
  <2>4. MergedSlugs(p) = DOMAIN store.by
    BY <2>2, <2>3 DEF MergedSlugs
  <2>5. /\ s.by = [w \in MergedSlugs(p) |->
                     [tabs |-> Rehydrated(w, p.by[w].tabs),
                      active |-> ActiveOf(p.by[w], Rehydrated(w, p.by[w].tabs))]]
        /\ \E first : IsFirst(s.by, first) /\ s.ws = Repoint(s.by, p.ws, first)
    BY MergeIs, Zenon DEF p
  <2>6. DOMAIN s.by = DOMAIN store.by
    BY <2>4, <2>5
  <2>7. s.ws = store.ws
    <3>1. IF DOMAIN store.by = {} THEN store.ws = None ELSE store.ws \in DOMAIN store.by
      BY <2>1 DEF StoreGood
    <3> QED BY <2>2, <2>5, <2>6, <3>1 DEF Repoint, IsFirst
  <2>8. ASSUME NEW w \in DOMAIN store.by
        PROVE  ShapeOf(s.by[w]) = ShapeOf(store.by[w])
    <3> DEFINE tabs == Rehydrated(w, p.by[w].tabs)
    <3>1. s.by[w] = [tabs |-> tabs, active |-> ActiveOf(p.by[w], tabs)]
      BY <2>4, <2>5
    <3> HIDE DEF tabs
    <3>2. ShapeOf([tabs |-> tabs, active |-> ActiveOf(p.by[w], tabs)]) = ShapeOf(store.by[w])
      BY <2>3 DEF tabs
    <3> QED BY <3>1, <3>2
  <2> QED BY <2>6, <2>7, <2>8
<1>2. TabSpec => []StoreInv
  BY StoreInvariant
<1> QED BY <1>1, <1>2, PTL

=============================================================================
