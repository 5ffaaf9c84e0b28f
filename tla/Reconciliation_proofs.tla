------------------------- MODULE Reconciliation_proofs -------------------------
(***************************************************************************)
(* For any number of instruments, orders, lots and days, any window and    *)
(* any worth of a lot: a Run that finds nothing has overlooked nothing,    *)
(* and one that finds something where all was well has one of three        *)
(* causes.  First the books of broker and bot, which hold at all times,    *)
(* then what a Run knows at each of its reads.                             *)
(***************************************************************************)
EXTENDS Reconciliation, Amounts_proofs

AnyRows == [Orders -> AnyRow \cup {None}]
AnyBook == [Orders -> [open: BOOLEAN, filled: 0..Lots]]

(* The variables that Runs only read keep their types. *)
MarketOK ==
    /\ now \in 0..MaxTime
    /\ orders \in AnyRows
    /\ broker \in AnyBook
    /\ pos \in [Instruments -> [Days -> 0..Lots]]
    /\ ops \subseteq AnyOp

(* An order that works is one of today's rows and has lots left. *)
BrokerFits ==
    \A o \in Orders :
        /\ broker[o].open => o \in Rows /\ Day(orders[o].at) = Day(now) /\ broker[o].filled < orders[o].qty
        /\ o \notin Rows => broker[o].filled = 0
        /\ o \in Rows => broker[o].filled <= orders[o].qty

(* A row has no more than the broker filled, nothing before its status      *)
(* tells of a fill, and something after.  A buy is one of its own day.     *)
RowsFit ==
    \A o \in Rows :
        /\ orders[o].filled <= broker[o].filled
        /\ orders[o].at <= now
        /\ orders[o].status \in {"SENT", "REJECTED", "FAILED"} => orders[o].filled = 0
        /\ orders[o].status \in {"FILLED", "PARTIALLY_FILLED"} => orders[o].filled > 0
        /\ orders[o].side = "BUY" => orders[o].of = Day(orders[o].at)

(* o is the order that bought the position of i of day d. *)
Entry(o, i, d) == o \in Rows /\ orders[o].side = "BUY" /\ orders[o].instrument = i /\ orders[o].of = d

(* A position has one entry, and not more lots than its row. *)
Bought ==
    /\ \A i \in Instruments, d \in Days : \A o, p \in Orders : Entry(o, i, d) /\ Entry(p, i, d) => o = p
    /\ \A i \in Instruments, d \in Days : pos[i][d] > 0 => \E o \in Orders : Entry(o, i, d) /\ pos[i][d] <= orders[o].filled

(* o is an order by which the bot, as far as it knows, sells i. *)
Selling(o, i) ==
    o \in Rows /\ orders[o].side = "SELL" /\ orders[o].instrument = i /\ isActiveOrder(o) /\ orders[o].known

(* The bot sells an instrument by one order, of lots it believes to have. *)
Sold ==
    \A i \in Instruments : \A o \in Orders : Selling(o, i) =>
        /\ \A p \in Orders : Selling(p, i) => o = p
        /\ orders[o].qty - orders[o].filled <= pos[i][orders[o].of]

(* What an order adds to what is held of i, and what it can still sell. *)
HeldBy(i, r, b) ==
    IF r = None \/ r.instrument # i THEN 0 ELSE IF r.side = "BUY" THEN b.filled ELSE 0 - b.filled
SaleBy(i, r, b) ==
    IF r = None \/ r.instrument # i \/ ~b.open \/ r.side # "SELL" THEN 0 ELSE r.qty - b.filled

(* Over all orders. *)
HeldSum(i, t, b) == Total([o \in Orders |-> HeldBy(i, t[o], b[o])])
SaleSum(i, t, b) == Total([o \in Orders |-> SaleBy(i, t[o], b[o])])

(* Not more is on sale than is held. *)
Covered == \A i \in Instruments : SaleSum(i, orders, broker) <= HeldSum(i, orders, broker)

(* op may be a trade of the order o. *)
TradeOf(op, o) == orders[o].instrument = op.instrument /\ ~op.fee /\ Day(orders[o].at) = Day(op.at)

(* Every operation is of an order of its day that traded, and every order   *)
(* that traded has one.                                                     *)
Traded ==
    /\ \A op \in ops : \E o \in Rows :
          orders[o].instrument = op.instrument /\ broker[o].filled > 0 /\ Day(orders[o].at) = Day(op.at)
    /\ \A o \in Rows : broker[o].filled > 0 => \E op \in ops : TradeOf(op, o)

Books == MarketOK /\ BrokerFits /\ RowsFit /\ Bought /\ Sold /\ Covered /\ Traded

-----------------------------------------------------------------------------
(* Moments and days; orders and days are finitely many. *)
LEMMA DayGrows ==
    ASSUME NEW a \in Nat, NEW b \in Nat, a <= b
    PROVE  Day(a) \in Nat /\ Day(b) \in Nat /\ Day(a) <= Day(b)
BY ReconciliationAssumption, DivisionGrows DEF Day

(* Every moment has its day. *)
LEMMA DaysOfMoments == \A t \in 0..MaxTime : Day(t) \in Days
<1> SUFFICES ASSUME NEW t \in 0..MaxTime PROVE Day(t) \in Days
  OBVIOUS
<1>1. t \in Nat /\ MaxTime \in Nat /\ t <= MaxTime
  BY ReconciliationAssumption
<1>2. Day(t) \in Nat /\ Day(MaxTime) \in Nat /\ Day(t) <= Day(MaxTime)
  BY <1>1, DayGrows
<1> QED
  BY <1>2 DEF Days

(* The sums are over finite sets. *)
LEMMA Finite ==
    /\ IsFiniteSet(Orders) /\ IsFiniteSet(Days) /\ IsFiniteSet(Instruments)
    /\ Days \subseteq Nat /\ Orders \subseteq Nat
    /\ Lots \in Nat \ {0}
    /\ \A t \in 0..MaxTime : t \in Nat
<1>1. MaxTime \in Nat /\ Lots \in Nat \ {0} /\ MaxOrders \in Nat /\ IsFiniteSet(Instruments)
  BY ReconciliationAssumption
<1>2. Day(MaxTime) \in Nat
  BY <1>1, DayGrows
<1>3. IsFiniteSet(1..MaxOrders) /\ IsFiniteSet(0..Day(MaxTime))
  BY <1>1, <1>2, FS_Interval
<1> QED
  BY <1>1, <1>2, <1>3 DEF Orders, Days

-----------------------------------------------------------------------------
(* The sums of the model are totals. *)
LEMMA PositionTotal ==
    ASSUME NEW i \in Instruments
    PROVE  PositionLots(i) = Total([d \in Days |-> pos[i][d]])
<1> DEFINE h == [d \in Days |-> pos[i][d]]
           Def(g) == [s \in SUBSET Days |->
                        IF s = {} THEN 0
                        ELSE pos[i][CHOOSE x \in s : TRUE] + g[s \ {CHOOSE x \in s : TRUE}]]
           iter == CHOOSE g : g = Def(g)
<1>1. PositionLots(i) = iter[Days]
  BY DEF PositionLots, MapThenSumSet, MapThenFoldSet
<1>2. DOMAIN h = Days /\ \A s \in SUBSET Days : s # {} => pos[i][CHOOSE x \in s : TRUE] = h[Some(s)]
  BY SomeElement DEF Some
<1> HIDE DEF h
<1>3. ASSUME NEW g PROVE Sums(g, h, Days) <=> g = Def(g)
  <2>1. Def(g) = [s \in SUBSET Days |-> IF s = {} THEN 0 ELSE h[Some(s)] + g[s \ {Some(s)}]]
    BY <1>2 DEF Some
  <2> QED
    BY <2>1 DEF Sums
<1>4. PICK g : Sums(g, h, Days)
  BY Finite, SumsExist
<1> HIDE DEF Def
<1>5. iter = Def(iter)
  BY <1>3, <1>4
<1>6. Sums(iter, h, Days)
  BY <1>3, <1>5
<1>7. Total(h) = iter[Days]
  BY <1>2, <1>6, Finite, TotalIs
<1> QED
  BY <1>1, <1>7 DEF h

(* Held and OnSale, also of the orders that have no part in them. *)
LEMMA HeldTotal ==
    ASSUME MarketOK, NEW i \in Instruments
    PROVE  Held(i) = HeldSum(i, orders, broker)
<1> DEFINE S == {o \in Rows : orders[o].instrument = i}
           k == [o \in S |-> Signed(o)]
           h == [o \in Orders |-> HeldBy(i, orders[o], broker[o])]
           Def(g) == [s \in SUBSET S |->
                        IF s = {} THEN 0
                        ELSE Signed(CHOOSE x \in s : TRUE) + g[s \ {CHOOSE x \in s : TRUE}]]
           iter == CHOOSE g : g = Def(g)
<1>1. Held(i) = iter[S]
  BY DEF Held, MapThenSumSet, MapThenFoldSet
<1>2. DOMAIN k = S /\ \A s \in SUBSET S : s # {} => Signed(CHOOSE x \in s : TRUE) = k[Some(s)]
  BY SomeElement DEF Some
<1>3. S \in SUBSET Orders /\ IsFiniteSet(S)
  BY Finite, FS_Subset DEF Rows
<1>4. h \in [Orders -> Int]
  BY Finite DEF MarketOK, AnyRows, AnyRow, AnyBook, HeldBy
<1>5. k \in [S -> Int] /\ \A o \in S : k[o] = h[o]
  <2>1. \A o \in S : Signed(o) = HeldBy(i, orders[o], broker[o])
    <3>1. \A o \in S : broker[o].filled \in Nat
      <4>1. \A o \in Orders : broker[o].filled \in 0..Lots
        BY DEF MarketOK, AnyBook
      <4>2. Lots \in Nat
        BY ReconciliationAssumption
      <4>3. \A o \in Orders : broker[o].filled \in Nat
        BY <4>1, <4>2
      <4> QED
        BY <1>3, <4>3
    <3>2. \A n \in Nat : -n = 0 - n
      OBVIOUS
    <3> QED
      BY <3>1, <3>2 DEF HeldBy, Signed, Rows
  <2>2. \A o \in S : HeldBy(i, orders[o], broker[o]) \in Int
    BY <1>3, <1>4
  <2> QED
    BY <1>3, <2>1, <2>2
<1>6. \A o \in Orders \ S : h[o] = 0
  BY DEF HeldBy, Rows
<1> HIDE DEF k, h, S
<1>7. ASSUME NEW g PROVE Sums(g, k, S) <=> g = Def(g)
  <2>1. Def(g) = [s \in SUBSET S |-> IF s = {} THEN 0 ELSE k[Some(s)] + g[s \ {Some(s)}]]
    BY <1>2 DEF Some
  <2> QED
    BY <2>1 DEF Sums
<1>8. PICK g : Sums(g, k, S)
  BY <1>3, SumsExist
<1> HIDE DEF Def
<1>9. iter = Def(iter)
  BY <1>7, <1>8
<1>10. Sums(iter, k, S)
  BY <1>7, <1>9
<1>11. Total(k) = iter[S]
  BY <1>2, <1>3, <1>10, TotalIs
<1>12. Total(k) = Total(h)
  <2>1. IsFiniteSet(Orders)
    BY Finite
  <2>2. \A o \in S : k[o] = h[o]
    BY <1>5
  <2> QED
    BY <1>3, <1>4, <1>5, <1>6, <2>1, <2>2, TotalExtend
<1> QED
  BY <1>1, <1>11, <1>12 DEF HeldSum, h

(* What is on sale: the orders at work are all of rows. *)
LEMMA SaleTotal ==
    ASSUME MarketOK, BrokerFits, NEW i \in Instruments
    PROVE  OnSale(i) = SaleSum(i, orders, broker)
<1> DEFINE S == {o \in Working : orders[o].instrument = i /\ orders[o].side = "SELL"}
           k == [o \in S |-> orders[o].qty - broker[o].filled]
           h == [o \in Orders |-> SaleBy(i, orders[o], broker[o])]
           rest(o) == orders[o].qty - broker[o].filled
           Def(g) == [s \in SUBSET S |->
                        IF s = {} THEN 0
                        ELSE rest(CHOOSE x \in s : TRUE) + g[s \ {CHOOSE x \in s : TRUE}]]
           iter == CHOOSE g : g = Def(g)
<1>1. OnSale(i) = iter[S]
  BY DEF OnSale, MapThenSumSet, MapThenFoldSet
<1>2. DOMAIN k = S /\ \A s \in SUBSET S : s # {} => rest(CHOOSE x \in s : TRUE) = k[Some(s)]
  BY SomeElement DEF Some
<1>3. S \in SUBSET Orders /\ IsFiniteSet(S)
  BY Finite, FS_Subset DEF Working
<1>4. h \in [Orders -> Int]
  BY Finite DEF MarketOK, AnyRows, AnyRow, AnyBook, SaleBy
<1>5. \A o \in S : o \in Rows /\ broker[o].open
  BY <1>3 DEF BrokerFits, Working
<1>6. k \in [S -> Int] /\ \A o \in S : k[o] = h[o]
  <2>1. \A o \in S : orders[o].qty - broker[o].filled = SaleBy(i, orders[o], broker[o])
    BY <1>5 DEF SaleBy, Rows
  <2>2. \A o \in S : SaleBy(i, orders[o], broker[o]) \in Int
    BY <1>3, <1>4
  <2> QED
    BY <1>3, <2>1, <2>2
<1>7. \A o \in Orders \ S : h[o] = 0
  BY DEF SaleBy, Working
<1> HIDE DEF k, h, S, rest
<1>8. ASSUME NEW g PROVE Sums(g, k, S) <=> g = Def(g)
  <2>1. Def(g) = [s \in SUBSET S |-> IF s = {} THEN 0 ELSE k[Some(s)] + g[s \ {Some(s)}]]
    BY <1>2 DEF Some
  <2> QED
    BY <2>1 DEF Sums
<1>9. PICK g : Sums(g, k, S)
  BY <1>3, SumsExist
<1> HIDE DEF Def
<1>10. iter = Def(iter)
  BY <1>8, <1>9
<1>11. Sums(iter, k, S)
  BY <1>8, <1>10
<1>12. Total(k) = iter[S]
  BY <1>2, <1>3, <1>11, TotalIs
<1>13. Total(k) = Total(h)
  <2>1. IsFiniteSet(Orders)
    BY Finite
  <2>2. \A o \in S : k[o] = h[o]
    BY <1>6
  <2> QED
    BY <1>3, <1>4, <1>6, <1>7, <2>1, <2>2, TotalExtend
<1> QED
  BY <1>1, <1>12, <1>13 DEF SaleSum, h

(* Both are integers and change as the one order that does. *)
LEMMA SumsMove ==
    ASSUME NEW i \in Instruments, NEW o \in Orders,
           NEW t \in AnyRows, NEW u \in AnyRows, NEW b \in AnyBook, NEW c \in AnyBook,
           \A p \in Orders : p # o => u[p] = t[p] /\ c[p] = b[p]
    PROVE  /\ HeldSum(i, t, b) \in Int /\ SaleSum(i, t, b) \in Int
           /\ HeldSum(i, u, c) = HeldSum(i, t, b) + HeldBy(i, u[o], c[o]) - HeldBy(i, t[o], b[o])
           /\ SaleSum(i, u, c) = SaleSum(i, t, b) + SaleBy(i, u[o], c[o]) - SaleBy(i, t[o], b[o])
<1> DEFINE h == [p \in Orders |-> HeldBy(i, t[p], b[p])]
           k == [p \in Orders |-> HeldBy(i, u[p], c[p])]
           l == [p \in Orders |-> SaleBy(i, t[p], b[p])]
           m == [p \in Orders |-> SaleBy(i, u[p], c[p])]
<1>1. h \in [Orders -> Int] /\ k \in [Orders -> Int]
  BY Finite DEF AnyRows, AnyRow, AnyBook, HeldBy
<1>2. l \in [Orders -> Int] /\ m \in [Orders -> Int]
  BY Finite DEF AnyRows, AnyRow, AnyBook, SaleBy
<1>3. \A p \in Orders : p # o => k[p] = h[p] /\ m[p] = l[p]
  OBVIOUS
<1>4. /\ h[o] = HeldBy(i, t[o], b[o]) /\ k[o] = HeldBy(i, u[o], c[o])
      /\ l[o] = SaleBy(i, t[o], b[o]) /\ m[o] = SaleBy(i, u[o], c[o])
      /\ HeldSum(i, t, b) = Total(h) /\ HeldSum(i, u, c) = Total(k)
      /\ SaleSum(i, t, b) = Total(l) /\ SaleSum(i, u, c) = Total(m)
  BY DEF HeldSum, SaleSum
<1> HIDE DEF h, k, l, m
<1>5. Total(k) = Total(h) + k[o] - h[o] /\ Total(m) = Total(l) + m[o] - l[o]
  <2>1. IsFiniteSet(Orders)
    BY Finite
  <2>2. Total(k) = Total(h) + k[o] - h[o]
    BY <1>1, <1>3, <2>1, TotalUpdate
  <2>3. Total(m) = Total(l) + m[o] - l[o]
    BY <1>2, <1>3, <2>1, TotalUpdate
  <2> QED
    BY <2>2, <2>3
<1>6. Total(h) \in Int /\ Total(l) \in Int
  BY <1>1, <1>2, Finite, TotalType
<1> QED
  BY <1>4, <1>5, <1>6

-----------------------------------------------------------------------------
(* The steps keep the books.  Those of a Run and of halts touch nothing.    *)
LEMMA Unmoved ==
    ASSUME Books, UNCHANGED <<now, orders, pos, broker, ops>>
    PROVE  Books'
BY DEF Books, MarketOK, BrokerFits, RowsFit, Bought, Sold, Covered, Traded, TradeOf, Entry, Selling, Rows, isActiveOrder

(* What a row and its order are. *)
LEMMA RowFacts ==
    ASSUME MarketOK, NEW o \in Rows
    PROVE  /\ o \in Orders
           /\ orders[o] \in AnyRow /\ orders[o] # None
           /\ orders[o].instrument \in Instruments /\ orders[o].of \in Days
           /\ orders[o].qty \in Nat /\ orders[o].qty <= Lots /\ orders[o].filled \in Nat /\ orders[o].at \in Nat
           /\ broker[o].filled \in Nat /\ broker[o].open \in BOOLEAN
<1>1. o \in Orders /\ orders[o] \in AnyRow /\ orders[o] # None
  BY DEF MarketOK, AnyRows, Rows
<1>2. broker[o] \in [open: BOOLEAN, filled: 0..Lots]
  BY <1>1 DEF MarketOK, AnyBook
<1> QED
  BY <1>1, <1>2, Finite DEF AnyRow

(* The broker trades a lot. *)
LEMMA FillsKeep ==
    ASSUME Books, NEW o \in Orders, Fills(o)
    PROVE  Books'
<1> DEFINE i0 == orders[o].instrument
<1>1. /\ o \in Rows /\ broker[o].open /\ Day(orders[o].at) = Day(now) /\ broker[o].filled < orders[o].qty
      /\ UNCHANGED <<now, orders, pos>> /\ now \in 0..MaxTime
  BY DEF Books, BrokerFits, MarketOK, Fills, tables
<1>2. /\ orders[o] \in AnyRow /\ orders[o] # None /\ i0 \in Instruments
      /\ orders[o].qty \in Nat /\ orders[o].qty <= Lots /\ broker[o].filled \in Nat
  BY <1>1, RowFacts DEF Books
<1> DEFINE more == broker[o].filled + 1 < orders[o].qty
           now_at == [open |-> more, filled |-> broker[o].filled + 1]
<1>3. /\ broker' \in AnyBook /\ broker'[o] = now_at
      /\ \A p \in Orders : p # o => broker'[p] = broker[p]
  <2>1. now_at \in [open: BOOLEAN, filled: 0..Lots]
    BY <1>1, <1>2, Finite
  <2>2. broker' = [broker EXCEPT ![o] = now_at]
    BY DEF Fills
  <2>3. broker \in AnyBook
    BY DEF Books, MarketOK
  <2> HIDE DEF now_at
  <2> QED
    BY <2>1, <2>2, <2>3 DEF AnyBook
<1>4. broker'[o].filled = broker[o].filled + 1 /\ broker'[o].open = more
  <2>1. now_at.filled = broker[o].filled + 1 /\ now_at.open = more
    OBVIOUS
  <2> QED
    BY <1>3, <2>1
<1> HIDE DEF now_at, more
<1>12. (broker'[o].open => more) /\ (~broker'[o].open => ~more)
  BY <1>4
<1>5. /\ ops \subseteq ops' /\ ops' \subseteq AnyOp
      /\ \A op \in ops' : op \in ops \/ (op.instrument = i0 /\ op.at = now)
      /\ \E op \in ops' : op.instrument = i0 /\ op.at = now /\ ~op.fee
  <2>1. PICK fees \in SUBSET {TRUE} :
          ops' = ops \cup {[instrument |-> i0, at |-> now, fee |-> fee] : fee \in fees \cup {FALSE}}
    BY DEF Fills
  <2>2. ops \subseteq AnyOp
    BY DEF Books, MarketOK
  <2>3. \A fee \in fees \cup {FALSE} : [instrument |-> i0, at |-> now, fee |-> fee] \in AnyOp
    BY <1>1, <1>2 DEF AnyOp
  <2>4. \A fee \in fees \cup {FALSE} : LET op == [instrument |-> i0, at |-> now, fee |-> fee]
                                     IN  op.instrument = i0 /\ op.at = now
    OBVIOUS
  <2>5. \E op \in ops' : op.instrument = i0 /\ op.at = now /\ ~op.fee
    <3> DEFINE trade == [instrument |-> i0, at |-> now, fee |-> FALSE]
    <3>1. trade \in ops' /\ trade.instrument = i0 /\ trade.at = now /\ ~trade.fee
      BY <2>1
    <3> QED
      BY <3>1
  <2> QED
    BY <2>1, <2>2, <2>3, <2>4, <2>5
<1>6. MarketOK'
  BY <1>1, <1>3, <1>5 DEF Books, MarketOK
<1>7. BrokerFits'
  <2> SUFFICES ASSUME NEW p \in Orders
               PROVE  /\ broker'[p].open => p \in Rows /\ Day(orders[p].at) = Day(now) /\ broker'[p].filled < orders[p].qty
                      /\ p \notin Rows => broker'[p].filled = 0
                      /\ p \in Rows => broker'[p].filled <= orders[p].qty
    BY <1>1 DEF BrokerFits, Rows
  <2>1. CASE p # o
    BY <1>3, <2>1 DEF Books, BrokerFits
  <2>2. CASE p = o
    BY <1>1, <1>2, <1>4, <1>12, <2>2 DEF more
  <2> QED
    BY <2>1, <2>2
<1>8. RowsFit'
  <2> SUFFICES ASSUME NEW p \in Rows PROVE orders[p].filled <= broker'[p].filled
    BY <1>1 DEF Books, RowsFit, Rows
  <2>1. orders[p].filled <= broker[p].filled /\ orders[p].filled \in Nat /\ p \in Orders
    BY RowFacts DEF Books, RowsFit
  <2> QED
    BY <1>2, <1>3, <1>4, <2>1
<1>9. Bought' /\ Sold'
  BY <1>1 DEF Books, Bought, Sold, Entry, Selling, Rows, isActiveOrder
<1>10. Covered'
  <2> SUFFICES ASSUME NEW i \in Instruments
               PROVE  SaleSum(i, orders, broker') <= HeldSum(i, orders, broker')
    BY <1>1 DEF Covered
  <2>1. orders \in AnyRows /\ broker \in AnyBook
    BY DEF Books, MarketOK
  <2>2. /\ HeldSum(i, orders, broker) \in Int /\ SaleSum(i, orders, broker) \in Int
        /\ HeldSum(i, orders, broker') =
             HeldSum(i, orders, broker) + HeldBy(i, orders[o], broker'[o]) - HeldBy(i, orders[o], broker[o])
        /\ SaleSum(i, orders, broker') =
             SaleSum(i, orders, broker) + SaleBy(i, orders[o], broker'[o]) - SaleBy(i, orders[o], broker[o])
    BY <1>3, <2>1, SumsMove
  <2>3. SaleSum(i, orders, broker) <= HeldSum(i, orders, broker)
    BY DEF Books, Covered
  <2>4. /\ HeldBy(i, orders[o], broker'[o]) \in Int /\ HeldBy(i, orders[o], broker[o]) \in Int
        /\ SaleBy(i, orders[o], broker'[o]) \in Int /\ SaleBy(i, orders[o], broker[o]) \in Int
        /\ SaleBy(i, orders[o], broker'[o]) - SaleBy(i, orders[o], broker[o])
             <= HeldBy(i, orders[o], broker'[o]) - HeldBy(i, orders[o], broker[o])
    <3>1. CASE i # i0
      BY <1>2, <3>1 DEF HeldBy, SaleBy
    <3>2. CASE i = i0 /\ orders[o].side = "BUY"
      BY <1>2, <1>4, <3>2 DEF HeldBy, SaleBy
    <3>3. CASE i = i0 /\ orders[o].side = "SELL"
      <4>1. /\ HeldBy(i, orders[o], broker'[o]) = 0 - (broker[o].filled + 1)
            /\ HeldBy(i, orders[o], broker[o]) = 0 - broker[o].filled
        BY <1>2, <1>4, <3>3 DEF HeldBy
      <4>2. SaleBy(i, orders[o], broker[o]) = orders[o].qty - broker[o].filled
        BY <1>1, <1>2, <3>3 DEF SaleBy
      <4>3. SaleBy(i, orders[o], broker'[o]) = orders[o].qty - (broker[o].filled + 1)
        <5>1. CASE more
          <6>1. broker'[o].open
            BY <1>12, <5>1
          <6> QED
            BY <1>2, <1>4, <3>3, <6>1 DEF SaleBy
        <5>2. CASE ~more
          <6>1. ~broker'[o].open
            BY <1>12, <5>2
          <6>2. orders[o].qty - (broker[o].filled + 1) = 0
            BY <1>1, <1>2, <5>2 DEF more
          <6> QED
            BY <6>1, <6>2 DEF SaleBy
        <5> QED
          BY <5>1, <5>2
      <4> QED
        BY <1>2, <4>1, <4>2, <4>3
    <3>4. orders[o].side \in {"BUY", "SELL"}
      BY <1>2 DEF AnyRow
    <3> QED
      BY <3>1, <3>2, <3>3, <3>4
  <2> QED
    BY <2>2, <2>3, <2>4
<1>11. Traded'
  <2>1. ASSUME NEW op \in ops'
        PROVE  \E p \in Rows : orders[p].instrument = op.instrument /\ broker'[p].filled > 0
                               /\ Day(orders[p].at) = Day(op.at)
    <3>1. CASE op \in ops
      <4>1. PICK p \in Rows : /\ orders[p].instrument = op.instrument /\ broker[p].filled > 0
                              /\ Day(orders[p].at) = Day(op.at)
        BY <3>1 DEF Books, Traded
      <4>2. broker'[p].filled > 0
        BY <1>2, <1>3, <1>4, <4>1 DEF Rows
      <4> QED
        BY <4>1, <4>2
    <3>2. CASE op \notin ops
      BY <1>1, <1>2, <1>4, <1>5, <3>2
    <3> QED
      BY <3>1, <3>2
  <2>2. ASSUME NEW p \in Rows, broker'[p].filled > 0
        PROVE  \E op \in ops' : TradeOf(op, p)
    <3>1. CASE p = o
      BY <1>1, <1>5, <3>1 DEF TradeOf
    <3>2. CASE p # o
      BY <1>3, <1>5, <2>2, <3>2 DEF Books, Traded, Rows
    <3> QED
      BY <3>1, <3>2
  <2> QED
    BY <1>1, <2>1, <2>2 DEF Traded, TradeOf, Rows
<1> QED
  BY <1>6, <1>7, <1>8, <1>9, <1>10, <1>11 DEF Books

(* The broker ends an order. *)
LEMMA EndsKeep ==
    ASSUME Books, NEW o \in Orders, Ends(o)
    PROVE  Books'
<1>1. /\ o \in Rows /\ broker[o].filled < orders[o].qty
      /\ UNCHANGED <<now, orders, pos, ops>>
  BY DEF Books, BrokerFits, Ends, tables
<1>2. /\ orders[o] \in AnyRow /\ orders[o] # None
      /\ orders[o].qty \in Nat /\ orders[o].qty <= Lots /\ broker[o].filled \in Nat
  BY <1>1, RowFacts DEF Books
<1>3. /\ broker' \in AnyBook
      /\ \A p \in Orders : p # o => broker'[p] = broker[p]
      /\ broker'[o].filled = broker[o].filled /\ ~broker'[o].open
      /\ \A p \in Orders : broker'[p].filled = broker[p].filled
  BY DEF Ends, Books, MarketOK, AnyBook
<1>4. MarketOK'
  BY <1>1, <1>3 DEF Books, MarketOK
<1>5. BrokerFits'
  BY <1>1, <1>2, <1>3 DEF Books, BrokerFits, Rows
<1>6. RowsFit'
  BY <1>1, <1>3 DEF Books, RowsFit, Rows
<1>7. Bought' /\ Sold'
  BY <1>1 DEF Books, Bought, Sold, Entry, Selling, Rows, isActiveOrder
<1>8. Covered'
  <2> SUFFICES ASSUME NEW i \in Instruments
               PROVE  SaleSum(i, orders, broker') <= HeldSum(i, orders, broker')
    BY <1>1 DEF Covered
  <2>1. orders \in AnyRows /\ broker \in AnyBook
    BY DEF Books, MarketOK
  <2>2. /\ HeldSum(i, orders, broker) \in Int /\ SaleSum(i, orders, broker) \in Int
        /\ HeldSum(i, orders, broker') =
             HeldSum(i, orders, broker) + HeldBy(i, orders[o], broker'[o]) - HeldBy(i, orders[o], broker[o])
        /\ SaleSum(i, orders, broker') =
             SaleSum(i, orders, broker) + SaleBy(i, orders[o], broker'[o]) - SaleBy(i, orders[o], broker[o])
    BY <1>3, <2>1, SumsMove
  <2>3. SaleSum(i, orders, broker) <= HeldSum(i, orders, broker)
    BY DEF Books, Covered
  <2>4. HeldBy(i, orders[o], broker'[o]) = HeldBy(i, orders[o], broker[o]) /\ HeldBy(i, orders[o], broker[o]) \in Int
    BY <1>2, <1>3 DEF HeldBy
  <2>5. SaleBy(i, orders[o], broker'[o]) = 0 /\ SaleBy(i, orders[o], broker[o]) \in Nat
    BY <1>1, <1>2, <1>3 DEF SaleBy
  <2> QED
    BY <2>2, <2>3, <2>4, <2>5
<1>9. Traded'
  BY <1>1, <1>3 DEF Books, Traded, TradeOf, Rows
<1> QED
  BY <1>4, <1>5, <1>6, <1>7, <1>8, <1>9 DEF Books

(* Time goes on, over the end of the day when nothing works. *)
LEMMA TickKeeps ==
    ASSUME Books, Tick
    PROVE  Books'
<1>1. /\ now' = now + 1 /\ UNCHANGED <<orders, pos, broker, ops>>
      /\ Day(now') # Day(now) => \A o \in Orders : ~broker[o].open
  BY DEF Tick, tables, market, Working
<1>2. now \in Nat /\ now' \in 0..MaxTime /\ now < now'
  <2>1. now \in 0..MaxTime /\ now < MaxTime /\ MaxTime \in Nat
    BY ReconciliationAssumption DEF Tick, Books, MarketOK
  <2> QED
    BY <1>1, <2>1
<1>3. MarketOK'
  BY <1>1, <1>2 DEF Books, MarketOK
<1>4. BrokerFits'
  BY <1>1 DEF Books, BrokerFits, Rows
<1>5. RowsFit'
  <2> SUFFICES ASSUME NEW o \in Rows PROVE orders[o].at <= now'
    BY <1>1 DEF Books, RowsFit, Rows
  <2>1. orders[o].at <= now /\ orders[o].at \in Nat
    BY RowFacts DEF Books, RowsFit
  <2> QED
    BY <1>2, <2>1
<1>6. Bought' /\ Sold' /\ Covered' /\ Traded'
  BY <1>1 DEF Books, Bought, Sold, Covered, Traded, TradeOf, Entry, Selling, Rows, isActiveOrder
<1> QED
  BY <1>3, <1>4, <1>5, <1>6 DEF Books

(* A new row, of a buy or a sell, accepted or not. *)
LEMMA PlaceKeeps ==
    ASSUME Books, NEW i \in Instruments, NEW side \in {"BUY", "SELL"}, NEW day \in Days, NEW lots \in 1..Lots,
           Place(i, side, day, lots),
           side = "BUY" => day = Day(now) /\ Today(i, "BUY") = {},
           side = "SELL" => ~hasActiveBrokerOrder(i) /\ lots = pos[i][day]
    PROVE  Books'
<1>1. PICK o \in Orders \ Rows, outcome \in {"accepted", "rejected", "lost", "died"}, works \in BOOLEAN :
         /\ works /\ side = "SELL" => lots <= Held(i) - OnSale(i)
         /\ orders' = [orders EXCEPT ![o] =
              [instrument |-> i, side |-> side, of |-> day, at |-> now, qty |-> lots, filled |-> 0,
               status |-> CASE outcome = "lost" -> "FAILED" [] outcome = "rejected" -> "REJECTED" [] OTHER -> "SENT",
               known |-> outcome = "accepted"]]
         /\ broker' = [broker EXCEPT ![o].open = works]
  BY DEF Place
<1> DEFINE status == CASE outcome = "lost" -> "FAILED" [] outcome = "rejected" -> "REJECTED" [] OTHER -> "SENT"
           known == outcome = "accepted"
           r == [instrument |-> i, side |-> side, of |-> day, at |-> now, qty |-> lots, filled |-> 0,
                 status |-> status, known |-> known]
<1>2. UNCHANGED <<now, pos, ops>>
  BY DEF Place
<1>3. now \in 0..MaxTime /\ lots \in Nat /\ lots > 0 /\ orders \in AnyRows /\ broker \in AnyBook /\ now \in Nat
  BY Finite DEF Books, MarketOK
<1>4. status \in {"SENT", "REJECTED", "FAILED"} /\ known \in BOOLEAN
  OBVIOUS
<1> HIDE DEF status, known
<1>5. /\ r \in AnyRow /\ r # None
      /\ r.instrument = i /\ r.side = side /\ r.of = day /\ r.at = now /\ r.qty = lots /\ r.filled = 0
      /\ r.status \in {"SENT", "REJECTED", "FAILED"} /\ r.known = known
  <2>1. r \in AnyRow
    BY <1>3, <1>4, Finite DEF AnyRow
  <2> QED
    BY <1>4, <2>1, NoneAssumption
<1>6. orders' = [orders EXCEPT ![o] = r]
  BY <1>1 DEF status, known
<1> HIDE DEF r
<1>7. /\ orders' \in AnyRows /\ orders'[o] = r
      /\ \A p \in Orders : p # o => orders'[p] = orders[p]
      /\ orders[o] = None /\ Rows' = Rows \cup {o} /\ o \notin Rows
  BY <1>3, <1>5, <1>6 DEF AnyRows, Rows
<1>8. broker[o].filled = 0 /\ ~broker[o].open
  BY <1>1 DEF Books, BrokerFits
<1>9. /\ broker' \in AnyBook /\ broker'[o].open = works /\ broker'[o].filled = 0
      /\ \A p \in Orders : p # o => broker'[p] = broker[p]
  BY <1>1, <1>3, <1>8 DEF AnyBook
<1>10. MarketOK'
  BY <1>2, <1>7, <1>9 DEF Books, MarketOK
<1>11. BrokerFits'
  <2> SUFFICES ASSUME NEW p \in Orders
               PROVE  /\ broker'[p].open =>
                           p \in Rows' /\ Day(orders'[p].at) = Day(now) /\ broker'[p].filled < orders'[p].qty
                      /\ p \notin Rows' => broker'[p].filled = 0
                      /\ p \in Rows' => broker'[p].filled <= orders'[p].qty
    BY <1>2 DEF BrokerFits
  <2>1. CASE p # o
    BY <1>7, <1>9, <2>1 DEF Books, BrokerFits
  <2>2. CASE p = o
    BY <1>3, <1>5, <1>7, <1>9, <2>2
  <2> QED
    BY <2>1, <2>2
<1>12. RowsFit'
  <2> SUFFICES ASSUME NEW p \in Rows'
               PROVE  /\ orders'[p].filled <= broker'[p].filled
                      /\ orders'[p].at <= now
                      /\ orders'[p].status \in {"SENT", "REJECTED", "FAILED"} => orders'[p].filled = 0
                      /\ orders'[p].status \in {"FILLED", "PARTIALLY_FILLED"} => orders'[p].filled > 0
                      /\ orders'[p].side = "BUY" => orders'[p].of = Day(orders'[p].at)
    BY <1>2 DEF RowsFit
  <2>1. CASE p # o
    BY <1>7, <1>9, <2>1 DEF Books, RowsFit, Rows
  <2>2. CASE p = o
    BY <1>3, <1>5, <1>7, <1>9, <2>2
  <2> QED
    BY <2>1, <2>2
<1>13. Bought'
  <2>1. ASSUME NEW j \in Instruments, NEW d \in Days, NEW p \in Orders
        PROVE  /\ p # o => (Entry(p, j, d)' <=> Entry(p, j, d))
               /\ Entry(o, j, d)' => side = "BUY" /\ j = i /\ d = Day(now) /\ ~Entry(p, j, d)
    <3>1. p # o => (Entry(p, j, d)' <=> Entry(p, j, d))
      BY <1>7 DEF Entry
    <3>2. Entry(o, j, d)' => side = "BUY" /\ j = i /\ d = Day(now)
      BY <1>5, <1>7 DEF Entry
    <3>3. Entry(p, j, d) => orders[p].of = Day(orders[p].at)
      BY DEF Entry, Books, RowsFit
    <3>4. ASSUME side = "BUY", Entry(p, i, Day(now)) PROVE FALSE
      <4>1. p \in Today(i, "BUY")
        BY <3>4, RowFacts DEF Entry, Today, Books, RowsFit
      <4> QED
        BY <3>4, <4>1
    <3> QED
      BY <3>1, <3>2, <3>4
  <2>2. ASSUME NEW j \in Instruments, NEW d \in Days, NEW p \in Orders, NEW q \in Orders,
               Entry(p, j, d)', Entry(q, j, d)'
        PROVE  p = q
    BY <2>1, <2>2 DEF Books, Bought
  <2>3. ASSUME NEW j \in Instruments, NEW d \in Days, pos'[j][d] > 0
        PROVE  \E p \in Orders : Entry(p, j, d)' /\ pos'[j][d] <= orders'[p].filled
    <3>1. PICK p \in Orders : Entry(p, j, d) /\ pos[j][d] <= orders[p].filled
      BY <1>2, <2>3 DEF Books, Bought
    <3>2. p # o
      BY <1>7, <3>1 DEF Entry
    <3> QED
      BY <1>2, <1>7, <2>1, <3>1, <3>2
  <2> QED
    BY <2>2, <2>3 DEF Bought
<1>14. Sold'
  <2>1. ASSUME NEW j \in Instruments, NEW p \in Orders
        PROVE  /\ p # o => (Selling(p, j)' <=> Selling(p, j))
               /\ Selling(o, j)' => side = "SELL" /\ j = i /\ ~Selling(p, j)
    <3>1. p # o => (Selling(p, j)' <=> Selling(p, j))
      BY <1>7 DEF Selling, isActiveOrder
    <3>2. Selling(o, j)' => side = "SELL" /\ j = i
      BY <1>5, <1>7 DEF Selling
    <3>3. Selling(p, i) => hasActiveBrokerOrder(i)
      BY DEF Selling, hasActiveBrokerOrder
    <3> QED
      BY <3>1, <3>2, <3>3
  <2>2. ASSUME NEW j \in Instruments, NEW p \in Orders, Selling(p, j)',
               NEW q \in Orders, Selling(q, j)'
        PROVE  p = q
    BY <2>1, <2>2 DEF Books, Sold
  <2>3. ASSUME NEW j \in Instruments, NEW p \in Orders, Selling(p, j)'
        PROVE  orders'[p].qty - orders'[p].filled <= pos'[j][orders'[p].of]
    <3>1. CASE p # o
      BY <1>2, <1>7, <2>1, <2>3, <3>1 DEF Books, Sold
    <3>2. CASE p = o
      <4>1. side = "SELL" /\ j = i
        BY <2>1, <2>3, <3>2
      <4> QED
        BY <1>2, <1>3, <1>5, <1>7, <3>2, <4>1
    <3> QED
      BY <3>1, <3>2
  <2> QED
    BY <2>2, <2>3 DEF Sold
<1>15. Covered'
  <2> SUFFICES ASSUME NEW j \in Instruments
               PROVE  SaleSum(j, orders', broker') <= HeldSum(j, orders', broker')
    BY DEF Covered
  <2>1. /\ HeldSum(j, orders, broker) \in Int /\ SaleSum(j, orders, broker) \in Int
        /\ HeldSum(j, orders', broker') =
             HeldSum(j, orders, broker) + HeldBy(j, orders'[o], broker'[o]) - HeldBy(j, orders[o], broker[o])
        /\ SaleSum(j, orders', broker') =
             SaleSum(j, orders, broker) + SaleBy(j, orders'[o], broker'[o]) - SaleBy(j, orders[o], broker[o])
    BY <1>3, <1>7, <1>9, SumsMove
  <2>2. SaleSum(j, orders, broker) <= HeldSum(j, orders, broker)
    BY DEF Books, Covered
  <2>3. /\ HeldBy(j, orders[o], broker[o]) = 0 /\ SaleBy(j, orders[o], broker[o]) = 0
        /\ HeldBy(j, orders'[o], broker'[o]) = 0
    <3>1. orders[o] = None /\ broker'[o].filled = 0
      BY <1>7, <1>9
    <3>2. HeldBy(j, orders[o], broker[o]) = 0 /\ SaleBy(j, orders[o], broker[o]) = 0
      BY <3>1 DEF HeldBy, SaleBy
    <3>3. HeldBy(j, orders'[o], broker'[o]) = 0
      BY <3>1 DEF HeldBy
    <3> QED
      BY <3>2, <3>3
  <2>4. CASE works /\ side = "SELL" /\ j = i
    <3>1. SaleBy(j, orders'[o], broker'[o]) = lots
      BY <1>3, <1>5, <1>7, <1>9, <2>4 DEF SaleBy
    <3>2. Held(i) = HeldSum(i, orders, broker) /\ OnSale(i) = SaleSum(i, orders, broker)
      BY HeldTotal, SaleTotal DEF Books
    <3> QED
      BY <1>1, <1>3, <2>1, <2>3, <2>4, <3>1, <3>2
  <2>5. CASE ~(works /\ side = "SELL" /\ j = i)
    <3>1. SaleBy(j, orders'[o], broker'[o]) = 0
      BY <1>5, <1>7, <1>9, <2>5 DEF SaleBy
    <3> QED
      BY <2>1, <2>2, <2>3, <3>1
  <2> QED
    BY <2>4, <2>5
<1>16. Traded'
  <2>1. \A p \in Rows : p \in Rows' /\ orders'[p] = orders[p] /\ broker'[p] = broker[p]
    BY <1>7, <1>9 DEF Rows
  <2>2. ASSUME NEW op \in ops
        PROVE  \E p \in Rows' : orders'[p].instrument = op.instrument /\ broker'[p].filled > 0
                                /\ Day(orders'[p].at) = Day(op.at)
    <3>1. PICK p \in Rows : /\ orders[p].instrument = op.instrument /\ broker[p].filled > 0
                            /\ Day(orders[p].at) = Day(op.at)
      BY DEF Books, Traded
    <3> QED
      BY <2>1, <3>1
  <2>3. ASSUME NEW p \in Rows', broker'[p].filled > 0
        PROVE  p \in Rows /\ \E op \in ops : TradeOf(op, p)
    <3>1. p # o
      BY <1>9, <2>3
    <3> QED
      BY <1>7, <1>9, <2>1, <2>3, <3>1 DEF Books, Traded
  <2>4. \A p \in Rows : \A op \in ops : TradeOf(op, p) => TradeOf(op, p)'
    BY <1>2, <2>1 DEF TradeOf
  <2> QED
    BY <1>2, <2>2, <2>3, <2>4 DEF Traded
<1> QED
  BY <1>10, <1>11, <1>12, <1>13, <1>14, <1>15, <1>16 DEF Books

(* placeEntryOrders: the first buy of its day. *)
LEMMA BuyKeeps ==
    ASSUME Books, NEW i \in Instruments, Buy(i)
    PROVE  Books'
<1>1. Place(i, "BUY", Day(now), Lots) /\ Today(i, "BUY") = {}
  BY DEF Buy
<1>2. Day(now) \in Days /\ Lots \in 1..Lots
  BY Finite, DaysOfMoments DEF Books, MarketOK
<1> QED
  BY <1>1, <1>2, PlaceKeeps

(* placeExitOrders: the lots of the position. *)
LEMMA SellKeeps ==
    ASSUME Books, NEW i \in Instruments, NEW day \in Days, Sell(i, day)
    PROVE  Books'
<1>1. Place(i, "SELL", day, pos[i][day]) /\ ~hasActiveBrokerOrder(i) /\ pos[i][day] > 0
  BY DEF Sell
<1>2. pos[i][day] \in 1..Lots
  BY <1>1, Finite DEF Books, MarketOK
<1> QED
  BY <1>1, <1>2, PlaceKeeps

(* A row is written: its status and what it knows of the fills. *)
LEMMA RowWritten ==
    ASSUME Books, NEW o \in Rows, NEW r \in AnyRow, orders' = [orders EXCEPT ![o] = r], UNCHANGED <<now, broker, ops>>,
           r.instrument = orders[o].instrument, r.side = orders[o].side, r.of = orders[o].of,
           r.at = orders[o].at, r.qty = orders[o].qty,
           orders[o].filled <= r.filled, r.filled <= broker[o].filled,
           r.status \in {"SENT", "REJECTED", "FAILED"} => r.filled = 0,
           r.status \in {"FILLED", "PARTIALLY_FILLED"} => r.filled > 0
    PROVE  /\ orders' \in AnyRows /\ orders'[o] = r /\ \A p \in Orders : p # o => orders'[p] = orders[p]
           /\ Rows' = Rows
           /\ \A p \in Orders : \A j, d : Entry(p, j, d)' <=> Entry(p, j, d)
           /\ BrokerFits' /\ RowsFit' /\ Covered' /\ Traded'
<1>1. /\ o \in Orders /\ r # None /\ orders \in AnyRows /\ broker \in AnyBook
  BY NoneAssumption DEF Books, MarketOK, Rows
<1>2. /\ orders' \in AnyRows /\ orders'[o] = r /\ \A p \in Orders : p # o => orders'[p] = orders[p]
  BY <1>1 DEF AnyRows
<1>3. Rows' = Rows
  BY <1>1, <1>2 DEF Rows
<1>4. \A p \in Orders : \A j, d : Entry(p, j, d)' <=> Entry(p, j, d)
  BY <1>2, <1>3 DEF Entry
<1>5. \A p \in Orders : p \in Rows => /\ orders'[p].at = orders[p].at /\ orders'[p].qty = orders[p].qty
                                      /\ orders'[p].instrument = orders[p].instrument
                                      /\ orders'[p].side = orders[p].side /\ orders'[p].of = orders[p].of
  BY <1>2
<1>6. BrokerFits'
  BY <1>3, <1>5 DEF Books, BrokerFits
<1>7. RowsFit'
  <2> SUFFICES ASSUME NEW p \in Rows
               PROVE  /\ orders'[p].filled <= broker[p].filled
                      /\ orders'[p].at <= now
                      /\ orders'[p].status \in {"SENT", "REJECTED", "FAILED"} => orders'[p].filled = 0
                      /\ orders'[p].status \in {"FILLED", "PARTIALLY_FILLED"} => orders'[p].filled > 0
                      /\ orders'[p].side = "BUY" => orders'[p].of = Day(orders'[p].at)
    BY <1>3 DEF RowsFit
  <2>1. CASE p # o
    BY <1>2, <2>1 DEF Books, RowsFit, Rows
  <2>2. CASE p = o
    BY <1>2, <2>2 DEF Books, RowsFit
  <2> QED
    BY <2>1, <2>2
<1>8. Covered'
  <2> SUFFICES ASSUME NEW j \in Instruments
               PROVE  SaleSum(j, orders', broker) <= HeldSum(j, orders', broker)
    BY DEF Covered
  <2>0. \A p \in Orders : p # o => orders'[p] = orders[p] /\ broker[p] = broker[p]
    BY <1>2
  <2>1. /\ HeldSum(j, orders, broker) \in Int /\ SaleSum(j, orders, broker) \in Int
        /\ HeldSum(j, orders', broker) =
             HeldSum(j, orders, broker) + HeldBy(j, r, broker[o]) - HeldBy(j, orders[o], broker[o])
        /\ SaleSum(j, orders', broker) =
             SaleSum(j, orders, broker) + SaleBy(j, r, broker[o]) - SaleBy(j, orders[o], broker[o])
    <3>1. /\ HeldSum(j, orders, broker) \in Int /\ SaleSum(j, orders, broker) \in Int
          /\ HeldSum(j, orders', broker) =
               HeldSum(j, orders, broker) + HeldBy(j, orders'[o], broker[o]) - HeldBy(j, orders[o], broker[o])
          /\ SaleSum(j, orders', broker) =
               SaleSum(j, orders, broker) + SaleBy(j, orders'[o], broker[o]) - SaleBy(j, orders[o], broker[o])
      <4>1. ASSUME NEW c \in AnyBook, c = broker, NEW u \in AnyRows, u = orders'
            PROVE  /\ HeldSum(j, orders, broker) \in Int /\ SaleSum(j, orders, broker) \in Int
                   /\ HeldSum(j, u, c) = HeldSum(j, orders, broker) + HeldBy(j, u[o], c[o]) - HeldBy(j, orders[o], broker[o])
                   /\ SaleSum(j, u, c) = SaleSum(j, orders, broker) + SaleBy(j, u[o], c[o]) - SaleBy(j, orders[o], broker[o])
        <5>1. \A p \in Orders : p # o => u[p] = orders[p] /\ c[p] = broker[p]
          BY <1>2, <4>1
        <5> QED
          BY <1>1, <5>1, SumsMove
      <4> QED
        BY <1>1, <1>2, <4>1
    <3> QED
      BY <1>2, <3>1
  <2>2. SaleSum(j, orders, broker) <= HeldSum(j, orders, broker)
    BY DEF Books, Covered
  <2>3. orders[o] # None
    BY DEF Rows
  <2>4. /\ HeldBy(j, r, broker[o]) = HeldBy(j, orders[o], broker[o])
        /\ SaleBy(j, r, broker[o]) = SaleBy(j, orders[o], broker[o])
    BY <1>1, <2>3 DEF HeldBy, SaleBy
  <2>5. HeldBy(j, orders[o], broker[o]) \in Int /\ SaleBy(j, orders[o], broker[o]) \in Int
    BY <2>3, RowFacts DEF HeldBy, SaleBy, Books
  <2> QED
    BY <2>1, <2>2, <2>4, <2>5
<1>9. Traded'
  BY <1>3, <1>5 DEF Books, Traded, TradeOf, Rows
<1> QED
  BY <1>2, <1>3, <1>4, <1>6, <1>7, <1>8, <1>9

(* cancelActiveOrders: the row is not active any more. *)
LEMMA CancelKeeps ==
    ASSUME Books, NEW o \in Orders, CancelActive(o)
    PROVE  Books'
<1> DEFINE r == [orders[o] EXCEPT !.status = "CANCELLED"]
<1>1. o \in Rows /\ orders' = [orders EXCEPT ![o] = r] /\ UNCHANGED <<now, pos, broker, ops>>
  BY DEF CancelActive, market
<1>2. orders[o] \in AnyRow /\ orders[o].filled <= broker[o].filled /\ orders[o].filled \in Nat
  BY <1>1, RowFacts DEF Books, RowsFit
<1>3. /\ r \in AnyRow /\ r.status = "CANCELLED"
      /\ r.instrument = orders[o].instrument /\ r.side = orders[o].side /\ r.of = orders[o].of
      /\ r.at = orders[o].at /\ r.qty = orders[o].qty /\ r.filled = orders[o].filled
  BY <1>2 DEF AnyRow
<1> HIDE DEF r
<1>10. /\ orders[o].filled <= r.filled /\ r.filled <= broker[o].filled
       /\ r.status \notin {"SENT", "REJECTED", "FAILED", "FILLED", "PARTIALLY_FILLED"}
       /\ UNCHANGED <<now, broker, ops>>
  BY <1>1, <1>2, <1>3
<1>4. /\ orders' \in AnyRows /\ orders'[o] = r /\ \A p \in Orders : p # o => orders'[p] = orders[p]
      /\ Rows' = Rows
      /\ \A p \in Orders : \A j, d : Entry(p, j, d)' <=> Entry(p, j, d)
      /\ BrokerFits' /\ RowsFit' /\ Covered' /\ Traded'
  BY <1>1, <1>3, <1>10, RowWritten
<1>5. MarketOK'
  BY <1>1, <1>4 DEF Books, MarketOK
<1>6. \A p \in Orders : orders'[p].filled = orders[p].filled
  BY <1>3, <1>4
<1>7. Bought'
  BY <1>1, <1>4, <1>6 DEF Books, Bought
<1>8. ASSUME NEW p \in Orders, NEW j \in Instruments, Selling(p, j)'
      PROVE  p # o /\ Selling(p, j)
  BY <1>3, <1>4, <1>8 DEF Selling, isActiveOrder
<1>9. Sold'
  BY <1>1, <1>4, <1>8 DEF Books, Sold
<1> QED
  BY <1>4, <1>5, <1>7, <1>9 DEF Books

(* Refresh and the booking: row and position learn what was filled.         *)
LEMMA MonitorKeeps ==
    ASSUME Books, NEW o \in Orders, Monitor(o)
    PROVE  Books'
<1> DEFINE i0 == orders[o].instrument
           fill == FillDelta(o)
           lots == IF orders[o].side = "BUY" THEN fill ELSE -fill
           r == [orders[o] EXCEPT !.status = Reported(o), !.filled = broker[o].filled]
<1>1. /\ o \in Rows /\ isActiveOrder(o) /\ orders[o].known
      /\ orders' = [orders EXCEPT ![o] = r]
      /\ UNCHANGED <<now, broker, ops>>
  <2>1. orders' = [orders EXCEPT ![o].status = Reported(o), ![o].filled = broker[o].filled]
    BY DEF Monitor
  <2>2. orders' = [orders EXCEPT ![o] = r]
    BY <2>1 DEF Books, MarketOK, AnyRows
  <2> QED
    BY <2>2 DEF Monitor, market
<1>1a. PICK d0 \in Days :
        /\ orders[o].side = "BUY" => d0 = orders[o].of
        /\ \/ pos' = pos
           \/ /\ pos' = [pos EXCEPT ![i0][d0] = IF orders[o].side = "BUY" THEN @ + fill ELSE @ - fill]
              /\ orders[o].side = "SELL" => fill <= pos[i0][d0]
  <2>1. orders[o].of \in Days
    BY <1>1, RowFacts DEF Books
  <2>2. CASE UNCHANGED pos
    BY <2>1, <2>2
  <2>3. CASE ~UNCHANGED pos
    <3>1. PICK day \in BookedOn(o) :
             /\ orders[o].side = "SELL" => fill <= pos[i0][day]
             /\ pos' = [pos EXCEPT ![i0][day] = IF orders[o].side = "BUY" THEN @ + fill ELSE @ - fill]
      BY <2>3 DEF Monitor
    <3>2. day \in Days /\ (orders[o].side = "BUY" => day = orders[o].of)
      BY <2>1, <3>1 DEF BookedOn, Opened
    <3> QED
      BY <3>1, <3>2
  <2> QED
    BY <2>2, <2>3
<1>2. /\ orders[o] \in AnyRow /\ orders[o].filled <= broker[o].filled /\ orders[o].filled \in Nat
      /\ broker[o].filled \in Nat /\ orders[o].qty \in Nat \ {0} /\ broker[o].filled <= orders[o].qty
      /\ i0 \in Instruments /\ orders[o].of \in Days /\ broker[o].filled <= Lots /\ orders[o].qty <= Lots
      /\ orders[o].side \in {"BUY", "SELL"}
  <2>1. broker[o].filled <= orders[o].qty /\ orders[o].filled <= broker[o].filled
    BY <1>1 DEF Books, BrokerFits, RowsFit
  <2>2. orders[o].side \in {"BUY", "SELL"} /\ orders[o].qty > 0
    BY <1>1, RowFacts, Finite DEF Books, AnyRow
  <2> QED
    BY <1>1, <2>1, <2>2, RowFacts, Finite DEF Books
<1>3. /\ Reported(o) \in {"FILLED", "CANCELLED", "PARTIALLY_FILLED", "SENT"}
      /\ Reported(o) = "SENT" => broker[o].filled = 0
      /\ Reported(o) \in {"FILLED", "PARTIALLY_FILLED"} => broker[o].filled > 0
  <2>1. CASE broker[o].filled = orders[o].qty
    BY <1>2, <2>1 DEF Reported
  <2>2. CASE broker[o].filled < orders[o].qty /\ ~broker[o].open
    BY <1>2, <2>2 DEF Reported
  <2>3. CASE broker[o].filled # orders[o].qty /\ ~(broker[o].filled < orders[o].qty /\ ~broker[o].open)
    <3>1. Reported(o) = IF broker[o].filled > 0 THEN "PARTIALLY_FILLED" ELSE "SENT"
      BY <2>3 DEF Reported
    <3> QED
      BY <1>2, <3>1
  <2> QED
    BY <2>1, <2>2, <2>3
<1>4. /\ r \in AnyRow /\ r.status = Reported(o) /\ r.filled = broker[o].filled
      /\ r.instrument = i0 /\ r.side = orders[o].side /\ r.of = orders[o].of
      /\ r.at = orders[o].at /\ r.qty = orders[o].qty /\ r.known = orders[o].known
  <2>1. broker[o].filled \in 0..Lots
    BY <1>2, Finite
  <2> QED
    BY <1>2, <1>3, <2>1 DEF AnyRow
<1> HIDE DEF r
<1>5. /\ orders[o].filled <= r.filled /\ r.filled <= broker[o].filled
      /\ r.status \in {"SENT", "REJECTED", "FAILED"} => r.filled = 0
      /\ r.status \in {"FILLED", "PARTIALLY_FILLED"} => r.filled > 0
  BY <1>2, <1>3, <1>4
<1>6. /\ orders' \in AnyRows /\ orders'[o] = r /\ \A p \in Orders : p # o => orders'[p] = orders[p]
      /\ Rows' = Rows
      /\ \A p \in Orders : \A j, d : Entry(p, j, d)' <=> Entry(p, j, d)
      /\ BrokerFits' /\ RowsFit' /\ Covered' /\ Traded'
  BY <1>1, <1>4, <1>5, RowWritten
<1>7. /\ pos \in [Instruments -> [Days -> 0..Lots]] /\ pos[i0][d0] \in Nat
      /\ fill = broker[o].filled - orders[o].filled /\ fill \in Nat
      /\ lots = fill \/ lots = -fill
  BY <1>1a, <1>2, Finite DEF Books, MarketOK, FillDelta
<1> DEFINE x == pos'[i0][d0]
<1>8. /\ pos' = [pos EXCEPT ![i0][d0] = x]
      /\ \/ x = pos[i0][d0]
         \/ x = pos[i0][d0] + lots /\ (orders[o].side = "SELL" => fill <= pos[i0][d0])
  <2>1. CASE pos' = pos
    BY <1>1a, <1>2, <1>7, <2>1
  <2>2. CASE pos' = [pos EXCEPT ![i0][d0] = IF orders[o].side = "BUY" THEN @ + fill ELSE @ - fill]
    <3>1. x = IF orders[o].side = "BUY" THEN pos[i0][d0] + fill ELSE pos[i0][d0] - fill
      BY <1>1a, <1>2, <1>7, <2>2
    <3>2. x = pos[i0][d0] + lots
      <4> HIDE DEF i0, fill, x
      <4>1. lots = IF orders[o].side = "BUY" THEN fill ELSE -fill
        OBVIOUS
      <4> HIDE DEF lots
      <4> QED
        BY <1>7, <3>1, <4>1
    <3>3. orders[o].side = "SELL" => pos' = pos \/ fill <= pos[i0][d0]
      BY <1>1a
    <3>4. pos' = pos => x = pos[i0][d0]
      BY <1>1a, <1>2, <1>7
    <3> HIDE DEF x, lots, fill, i0
    <3> QED
      BY <2>2, <3>1, <3>2, <3>3, <3>4
  <2> QED
    BY <1>1a, <2>1, <2>2
<1> HIDE DEF x
<1>9. /\ orders[o].side = "BUY" => pos[i0][d0] <= x /\ x <= broker[o].filled
      /\ orders[o].side = "SELL" => pos[i0][d0] - fill <= x /\ x <= pos[i0][d0]
      /\ x \in 0..Lots
  <2>1. Lots \in Nat
    BY Finite
  <2>2. CASE orders[o].side = "BUY"
    <3>1. Entry(o, i0, d0)
      BY <1>1a, <1>1, <2>2 DEF Entry
    <3>2. pos[i0][d0] <= orders[o].filled
      BY <1>1, <1>2, <1>7, <3>1 DEF Books, Bought
    <3>3. lots = fill
      BY <2>2
    <3> HIDE DEF lots, fill, i0
    <3>4. pos[i0][d0] <= x /\ x <= broker[o].filled /\ x \in Int
      BY <1>2, <1>7, <1>8, <3>2, <3>3
    <3>5. x \in 0..Lots
      BY <1>2, <1>7, <2>1, <3>4
    <3> QED
      BY <2>2, <3>4, <3>5
  <2>3. CASE orders[o].side = "SELL"
    <3>1. lots = -fill /\ pos[i0][d0] <= Lots
      BY <1>1a, <1>2, <1>7, <2>3
    <3> HIDE DEF lots, fill, i0
    <3>2. pos[i0][d0] - fill <= x /\ x <= pos[i0][d0] /\ 0 <= x /\ x \in Int
      BY <1>7, <1>8, <2>3, <3>1
    <3>3. x \in 0..Lots
      BY <1>7, <2>1, <3>1, <3>2
    <3> QED
      BY <2>3, <3>2, <3>3
  <2> QED
    BY <1>2, <2>2, <2>3
<1> HIDE DEF fill, lots
<1>10. /\ pos' \in [Instruments -> [Days -> 0..Lots]]
       /\ \A j \in Instruments, d \in Days : j # i0 \/ d # d0 => pos'[j][d] = pos[j][d]
       /\ pos'[i0][d0] = x
  BY <1>1a, <1>2, <1>7, <1>8, <1>9
<1>11. MarketOK'
  BY <1>1, <1>6, <1>10 DEF Books, MarketOK
<1>12. \A p \in Orders : p \in Rows => orders[p].filled <= orders'[p].filled /\ orders[p].filled \in Nat
  <2> SUFFICES ASSUME NEW p \in Rows PROVE orders[p].filled <= orders'[p].filled /\ orders[p].filled \in Nat
    OBVIOUS
  <2>1. p \in Orders /\ orders[p].filled \in Nat
    BY RowFacts DEF Books
  <2> QED
    BY <1>5, <1>6, <2>1
<1>13. Bought'
  <2>1. ASSUME NEW j \in Instruments, NEW d \in Days, NEW p \in Orders, NEW q \in Orders,
               Entry(p, j, d)', Entry(q, j, d)'
        PROVE  p = q
    BY <1>6, <2>1 DEF Books, Bought
  <2>2. ASSUME NEW j \in Instruments, NEW d \in Days, pos'[j][d] > 0
        PROVE  \E p \in Orders : Entry(p, j, d)' /\ pos'[j][d] <= orders'[p].filled
    <3>1. CASE j = i0 /\ d = d0 /\ orders[o].side = "BUY"
      <4>1. Entry(o, j, d)
        BY <1>1a, <1>1, <3>1 DEF Entry
      <4> QED
        BY <1>4, <1>6, <1>9, <1>10, <3>1, <4>1
    <3>2. CASE ~(j = i0 /\ d = d0 /\ orders[o].side = "BUY")
      <4>1. pos'[j][d] <= pos[j][d] /\ pos'[j][d] \in Nat /\ pos[j][d] \in Nat
        <5>1. pos'[j][d] \in 0..Lots /\ pos[j][d] \in 0..Lots
          BY <1>7, <1>10
        <5> QED
          BY <1>2, <1>9, <1>10, <3>2, <5>1
      <4>2. pos[j][d] > 0
        BY <2>2, <4>1
      <4>3. PICK p \in Orders : Entry(p, j, d) /\ pos[j][d] <= orders[p].filled
        BY <4>2 DEF Books, Bought
      <4>4. p \in Rows
        BY <4>3 DEF Entry
      <4>5. orders[p].filled <= orders'[p].filled /\ orders[p].filled \in Nat /\ orders'[p].filled \in Nat
        BY <1>2, <1>4, <1>6, <1>12, <4>4
      <4>6. pos'[j][d] <= orders'[p].filled
        BY <4>1, <4>3, <4>5
      <4> QED
        BY <1>6, <4>3, <4>6
    <3> QED
      BY <3>1, <3>2
  <2> QED
    BY <2>1, <2>2 DEF Bought
<1>14. ASSUME NEW p \in Orders, NEW j \in Instruments, Selling(p, j)'
       PROVE  Selling(p, j)
  <2>1. CASE p = o
    BY <1>1, <1>4, <1>6, <1>14, <2>1 DEF Selling
  <2>2. CASE p # o
    BY <1>6, <1>14, <2>2 DEF Selling, isActiveOrder
  <2> QED
    BY <2>1, <2>2
<1>15. Sold'
  <2>1. ASSUME NEW j \in Instruments, NEW p \in Orders, Selling(p, j)', NEW q \in Orders, Selling(q, j)'
        PROVE  p = q
    BY <1>14, <2>1 DEF Books, Sold
  <2>2. ASSUME NEW j \in Instruments, NEW p \in Orders, Selling(p, j)'
        PROVE  orders'[p].qty - orders'[p].filled <= pos'[j][orders'[p].of]
    <3>1. Selling(p, j) /\ orders[p].qty - orders[p].filled <= pos[j][orders[p].of]
      BY <1>14, <2>2 DEF Books, Sold
    <3>2. /\ p \in Rows /\ orders[p].qty \in Nat /\ orders[p].filled \in Nat /\ orders[p].of \in Days
          /\ orders[p].side = "SELL" /\ orders[p].instrument = j
      BY <3>1, RowFacts DEF Selling, Books
    <3>3. CASE p = o
      <4>1. fill \in Nat /\ fill = broker[o].filled - orders[o].filled /\ pos[i0][d0] - fill <= x /\ x \in Int
        BY <1>7, <1>9, <3>2, <3>3
      <4>2. CASE orders[o].of = d0
        <5>1. orders[o].qty - broker[o].filled <= x
          BY <1>2, <1>7, <3>1, <3>2, <3>3, <4>1, <4>2
        <5> QED
          BY <1>4, <1>6, <1>10, <3>2, <3>3, <4>2, <5>1
      <4>3. CASE orders[o].of # d0
        <5>1. pos'[i0][orders[o].of] = pos[i0][orders[o].of] /\ pos[i0][orders[o].of] \in 0..Lots
          BY <1>2, <1>7, <1>10, <4>3
        <5>2. orders[o].qty - broker[o].filled <= pos'[i0][orders[o].of]
          BY <1>2, <1>7, <3>1, <3>2, <3>3, <5>1
        <5> QED
          BY <1>4, <1>6, <3>2, <3>3, <5>2
      <4> QED
        BY <4>2, <4>3
    <3>4. CASE p # o
      <4>1. orders'[p] = orders[p]
        BY <1>6, <3>4
      <4>2. pos[j][orders[p].of] <= pos'[j][orders[p].of]
        <5>1. pos[j][orders[p].of] \in 0..Lots /\ pos'[j][orders[p].of] \in 0..Lots
          BY <1>7, <1>10, <3>2
        <5>2. CASE j = i0 /\ orders[p].of = d0
          <6>1. orders[o].side = "BUY"
            <7> SUFFICES ASSUME orders[o].side = "SELL" PROVE FALSE
              BY <1>2
            <7>1. Selling(o, i0)
              BY <1>1 DEF Selling
            <7> QED
              BY <3>1, <3>4, <5>2, <7>1 DEF Books, Sold
          <6> QED
            BY <1>9, <1>10, <5>2, <6>1
        <5>3. CASE j # i0 \/ orders[p].of # d0
          BY <1>10, <3>2, <5>1, <5>3
        <5> QED
          BY <5>2, <5>3
      <4>3. pos[j][orders[p].of] \in Int /\ pos'[j][orders[p].of] \in Int
        BY <1>7, <1>10, <3>2
      <4> QED
        BY <3>1, <3>2, <4>1, <4>2, <4>3
    <3> QED
      BY <3>3, <3>4
  <2> QED
    BY <2>1, <2>2 DEF Sold
<1> QED
  BY <1>6, <1>11, <1>13, <1>15 DEF Books

-----------------------------------------------------------------------------
(* The comparison of holdings.  An instrument of which nothing is open has  *)
(* no lots, one of which a position is open at least as many.              *)
LEMMA PositionBounds ==
    ASSUME MarketOK, NEW i \in Instruments
    PROVE  /\ PositionLots(i) \in Nat
           /\ Opened(i) = {} => PositionLots(i) = 0
           /\ \A d \in Days : pos[i][d] \in Nat /\ pos[i][d] <= PositionLots(i)
           /\ \A d \in Opened(i) : Opened(i) = {d} => PositionLots(i) = pos[i][d]
<1> DEFINE h == [d \in Days |-> pos[i][d]]
<1>1. PositionLots(i) = Total(h)
  BY PositionTotal
<1>2. \A d \in Days : pos[i][d] \in Nat
  <2>1. \A d \in Days : pos[i][d] \in 0..Lots
    BY DEF MarketOK
  <2>2. Lots \in Nat
    BY Finite
  <2> QED
    BY <2>1, <2>2
<1>3. h \in [Days -> Int] /\ \A d \in Days : h[d] = pos[i][d] /\ 0 <= h[d]
  BY <1>2
<1>4. IsFiniteSet(Days)
  BY Finite
<1>5. ASSUME NEW d \in Days PROVE h[d] <= Total(h)
  <2> HIDE DEF h
  <2> QED
    BY <1>3, <1>4, TotalPart
<1>6. Total(h) \in Int
  <2> HIDE DEF h
  <2> QED
    BY <1>3, <1>4, TotalType
<1>7. ASSUME NEW d \in Days, Opened(i) \subseteq {d} PROVE Total(h) = pos[i][d]
  <2>1. \A e \in Days : e # d => h[e] = 0
    BY <1>2, <1>3, <1>7 DEF Opened
  <2>2. Total(h) = h[d]
    <3> HIDE DEF h
    <3> QED
      BY <1>3, <1>4, <2>1, TotalSingle
  <2> QED
    BY <1>3, <2>2
<1>8. 0 \in Days
  BY Finite, DayGrows, ReconciliationAssumption DEF Days
<1>9. Opened(i) = {} => Total(h) = 0
  <2> SUFFICES ASSUME Opened(i) = {} PROVE Total(h) = 0
    OBVIOUS
  <2>1. Total(h) = pos[i][0]
    BY <1>7, <1>8
  <2>2. pos[i][0] = 0
    BY <1>2, <1>8 DEF Opened
  <2> QED
    BY <2>1, <2>2
<1>10. Total(h) \in Nat
  <2>1. h[0] <= Total(h) /\ h[0] \in Nat
    BY <1>2, <1>3, <1>5, <1>8
  <2> QED
    BY <1>6, <2>1
<1>11. \A d \in Opened(i) : d \in Days
  BY DEF Opened
<1> HIDE DEF h
<1> QED
  BY <1>1, <1>2, <1>3, <1>5, <1>7, <1>9, <1>10, <1>11

(* What is held is not negative: it covers what is on sale. *)
LEMMA HeldIsNat ==
    ASSUME Books, NEW i \in Instruments
    PROVE  Held(i) \in Nat
<1> DEFINE l == [o \in Orders |-> SaleBy(i, orders[o], broker[o])]
           h == [o \in Orders |-> HeldBy(i, orders[o], broker[o])]
           z == [o \in Orders |-> 0]
<1>1. \A o \in Orders : SaleBy(i, orders[o], broker[o]) \in Nat /\ HeldBy(i, orders[o], broker[o]) \in Int
  <2> SUFFICES ASSUME NEW o \in Orders
               PROVE  SaleBy(i, orders[o], broker[o]) \in Nat /\ HeldBy(i, orders[o], broker[o]) \in Int
    OBVIOUS
  <2>1. CASE o \notin Rows
    BY <2>1 DEF SaleBy, HeldBy, Rows
  <2>2. CASE o \in Rows
    <3>1. orders[o].qty \in Nat /\ broker[o].filled \in Nat /\ broker[o].filled <= orders[o].qty
      BY <2>2, RowFacts DEF Books, BrokerFits
    <3> QED
      BY <3>1 DEF SaleBy, HeldBy
  <2> QED
    BY <2>1, <2>2
<1>2. l \in [Orders -> Int] /\ h \in [Orders -> Int] /\ z \in [Orders -> Int] /\ \A o \in Orders : z[o] <= l[o]
  BY <1>1
<1>3. Total(z) = 0 /\ IsFiniteSet(Orders)
  BY Finite, TotalZero
<1>4. SaleSum(i, orders, broker) = Total(l) /\ HeldSum(i, orders, broker) = Total(h)
  BY DEF SaleSum, HeldSum
<1> HIDE DEF l, h, z
<1>5. 0 <= Total(l) /\ Total(l) \in Int /\ Total(h) \in Int
  BY <1>2, <1>3, TotalLeq, TotalType
<1>6. Held(i) = Total(h) /\ Total(l) <= Total(h)
  BY <1>4, HeldTotal DEF Books, Covered
<1> QED
  BY <1>5, <1>6

(* The worth of the positions is a total. *)
LEMMA LocalTotal == LocalWorth = Total([i \in Instruments |-> Value[i] * PositionLots(i)])
<1> DEFINE h == [i \in Instruments |-> Value[i] * PositionLots(i)]
           w(i) == Value[i] * PositionLots(i)
           Def(g) == [s \in SUBSET Instruments |->
                        IF s = {} THEN 0
                        ELSE w(CHOOSE x \in s : TRUE) + g[s \ {CHOOSE x \in s : TRUE}]]
           iter == CHOOSE g : g = Def(g)
<1>1. LocalWorth = iter[Instruments]
  BY DEF LocalWorth, MapThenSumSet, MapThenFoldSet
<1>2. DOMAIN h = Instruments /\ \A s \in SUBSET Instruments : s # {} => w(CHOOSE x \in s : TRUE) = h[Some(s)]
  BY SomeElement DEF Some
<1> HIDE DEF h, w
<1>3. ASSUME NEW g PROVE Sums(g, h, Instruments) <=> g = Def(g)
  <2>1. Def(g) = [s \in SUBSET Instruments |-> IF s = {} THEN 0 ELSE h[Some(s)] + g[s \ {Some(s)}]]
    BY <1>2 DEF Some
  <2> QED
    BY <2>1 DEF Sums
<1>4. PICK g : Sums(g, h, Instruments)
  BY Finite, SumsExist
<1> HIDE DEF Def
<1>5. iter = Def(iter)
  BY <1>3, <1>4
<1>6. Sums(iter, h, Instruments)
  BY <1>3, <1>5
<1>7. Total(h) = iter[Instruments]
  BY <1>2, <1>6, Finite, TotalIs
<1> QED
  BY <1>1, <1>7 DEF h

(* The same of what is held. *)
LEMMA HeldWorthTotal == HeldWorth = Total([i \in Instruments |-> Value[i] * Held(i)])
<1> DEFINE h == [i \in Instruments |-> Value[i] * Held(i)]
           w(i) == Value[i] * Held(i)
           Def(g) == [s \in SUBSET Instruments |->
                        IF s = {} THEN 0
                        ELSE w(CHOOSE x \in s : TRUE) + g[s \ {CHOOSE x \in s : TRUE}]]
           iter == CHOOSE g : g = Def(g)
<1>1. HeldWorth = iter[Instruments]
  BY DEF HeldWorth, MapThenSumSet, MapThenFoldSet
<1>2. DOMAIN h = Instruments /\ \A s \in SUBSET Instruments : s # {} => w(CHOOSE x \in s : TRUE) = h[Some(s)]
  BY SomeElement DEF Some
<1> HIDE DEF h, w
<1>3. ASSUME NEW g PROVE Sums(g, h, Instruments) <=> g = Def(g)
  <2>1. Def(g) = [s \in SUBSET Instruments |-> IF s = {} THEN 0 ELSE h[Some(s)] + g[s \ {Some(s)}]]
    BY <1>2 DEF Some
  <2> QED
    BY <2>1 DEF Sums
<1>4. PICK g : Sums(g, h, Instruments)
  BY Finite, SumsExist
<1> HIDE DEF Def
<1>5. iter = Def(iter)
  BY <1>3, <1>4
<1>6. Sums(iter, h, Instruments)
  BY <1>3, <1>5
<1>7. Total(h) = iter[Instruments]
  BY <1>2, <1>6, Finite, TotalIs
<1> QED
  BY <1>1, <1>7 DEF h

(* HoldingDiffs overlooks nothing.  Each position alone may be all that is  *)
(* held of its instrument while there are several; then the positions are  *)
(* worth more than what is held, of no instrument are they worth less, and *)
(* the comparison of cash tells.                                           *)
LEMMA HoldingsCompared ==
    ASSUME Books, ~HoldingDiffs
    PROVE  \A i \in Instruments : PositionLots(i) = Held(i)
<1>1. /\ \A i \in Instruments : \A d \in Opened(i) : pos[i][d] = Held(i)
      /\ \A i \in Instruments : ~(Held(i) > 0 /\ PositionLots(i) = 0)
      /\ ~CashDiff
  BY DEF HoldingDiffs
<1>2. \A i \in Instruments : Held(i) \in Nat /\ PositionLots(i) \in Nat
  BY HeldIsNat, PositionBounds DEF Books
<1>3. \A i \in Instruments : Opened(i) = {} => Held(i) = 0 /\ PositionLots(i) = 0
  BY <1>1, <1>2, PositionBounds DEF Books
<1>4. \A i \in Instruments : Opened(i) # {} => Held(i) > 0 /\ Held(i) <= PositionLots(i)
  <2> SUFFICES ASSUME NEW i \in Instruments, NEW d \in Opened(i) PROVE Held(i) > 0 /\ Held(i) <= PositionLots(i)
    OBVIOUS
  <2>1. d \in Days /\ pos[i][d] > 0
    BY DEF Opened
  <2>2. pos[i][d] <= PositionLots(i)
    BY <2>1, PositionBounds DEF Books
  <2> QED
    BY <1>1, <2>1, <2>2
<1>5. LocalWorth = HeldWorth
  BY <1>1, <1>3, <1>4 DEF CashDiff
<1> DEFINE h == [i \in Instruments |-> Value[i] * Held(i)]
           k == [i \in Instruments |-> Value[i] * PositionLots(i)]
<1>6. \A i \in Instruments : Value[i] \in Nat \ {0}
  BY ReconciliationAssumption
<1>7. \A i \in Instruments : Held(i) <= PositionLots(i)
  BY <1>2, <1>3, <1>4
<1>8. \A i \in Instruments : Value[i] * Held(i) \in Int /\ Value[i] * PositionLots(i) \in Int
  BY <1>2, <1>6
<1>9. \A i \in Instruments : Value[i] * Held(i) <= Value[i] * PositionLots(i)
  <2>1. ASSUME NEW v \in Nat, NEW a \in Nat, NEW b \in Nat, a <= b PROVE v * a <= v * b
    <3>1. PICK c \in Nat : b = a + c
      <4>1. b - a \in Nat /\ b = a + (b - a)
        BY <2>1
      <4> QED
        BY <4>1
    <3>2. v * b = v * a + v * c /\ v * c \in Nat /\ v * a \in Nat
      BY <3>1
    <3> QED
      BY <3>2
  <2> QED
    BY <1>2, <1>6, <1>7, <2>1
<1>10. h \in [Instruments -> Int] /\ k \in [Instruments -> Int] /\ \A i \in Instruments : h[i] <= k[i]
  BY <1>8, <1>9
<1>11. Total(h) = Total(k)
  BY <1>5, LocalTotal, HeldWorthTotal
<1>12. \A i \in Instruments : h[i] = k[i]
  <2> HIDE DEF h, k
  <2>1. IsFiniteSet(Instruments)
    BY Finite
  <2> QED
    BY <1>10, <1>11, <2>1, TotalEqual
<1>13. \A i \in Instruments : Value[i] * Held(i) = Value[i] * PositionLots(i)
  BY <1>12
<1>14. ASSUME NEW v \in Nat \ {0}, NEW a \in Nat, NEW b \in Nat, v * a = v * b PROVE a = b
  BY <1>14
<1> QED
  BY <1>2, <1>6, <1>13, <1>14

(* Where lots and holdings agree it only takes offence at several positions *)
(* of one instrument.                                                      *)
LEMMA HoldingsMisread ==
    ASSUME Books, HoldingDiffs, \A i \in Instruments : PositionLots(i) = Held(i)
    PROVE  \E i \in Instruments : SeveralPositions(i)
<1>1. ~CashDiff
  <2>1. [i \in Instruments |-> Value[i] * Held(i)] = [i \in Instruments |-> Value[i] * PositionLots(i)]
    OBVIOUS
  <2> QED
    BY <2>1, LocalTotal, HeldWorthTotal DEF CashDiff
<1>2. \A i \in Instruments : Held(i) \in Nat
  BY HeldIsNat
<1>3. PICK i \in Instruments : \E d \in Opened(i) : pos[i][d] # Held(i)
  BY <1>1, <1>2 DEF HoldingDiffs
<1>4. PICK d \in Opened(i) : pos[i][d] # PositionLots(i)
  BY <1>3
<1>5. Opened(i) # {d}
  BY <1>4, PositionBounds DEF Books
<1>6. PICK e \in Opened(i) : e # d
  BY <1>5
<1>7. IsFiniteSet(Opened(i))
  BY Finite, FS_Subset DEF Opened
<1>8. IsFiniteSet({d}) /\ Cardinality({d}) = 1
  BY FS_Singleton
<1>9. IsFiniteSet({d} \cup {e}) /\ Cardinality({d} \cup {e}) = 2
  BY <1>6, <1>8, FS_AddElement
<1>10. Cardinality({d} \cup {e}) <= Cardinality(Opened(i))
  BY <1>7, FS_Subset
<1>11. Cardinality(Opened(i)) \in Nat
  BY <1>7, FS_CardinalityType
<1> QED
  BY <1>9, <1>10, <1>11 DEF SeveralPositions

-----------------------------------------------------------------------------
(* What a Run knows.                                                       *)
Reading == run.pc \in {"holdings", "operations", "done"}

AnyRun ==
    [pc: {"idle", "orders", "holdings", "operations", "done"}, by: {"bot", "unhalt", None},
     at: 0..MaxTime, ops: SUBSET AnyOp, critical: BOOLEAN]

RunOK == run \in AnyRun /\ quarantined \subseteq Instruments /\ halted \in BOOLEAN /\ calm \in BOOLEAN

(* The history tells of the present. *)
HistoryFits == standing \subseteq Discrepancies /\ (run.pc # "idle" /\ calm => Quiet)

(* The operations it has read are in the past, and tell of every fill that  *)
(* a row knows.                                                            *)
Taken ==
    Reading =>
        /\ run.ops \subseteq ops /\ run.at <= now
        /\ \A o \in Rows : orders[o].filled > 0 => \E op \in run.ops : TradeOf(op, o)

(* A charge that stands was among them; while all was well there was none. *)
ChargesRead ==
    Reading =>
        /\ \A i \in Instruments : <<"fee", i>> \in standing => i \in brokerCommission(run.at, run.ops)
        /\ calm => brokerCommission(run.at, run.ops) = {}

(* Of what it has compared without a difference nothing has stood. *)
Overlooked ==
    Reading /\ ~run.critical =>
        /\ \A o \in Orders : <<"order", o>> \notin standing
        /\ run.pc \in {"operations", "done"} => \A i \in Instruments : <<"holding", i>> \notin standing
        /\ run.pc = "done" => \A i \in Instruments : <<"fee", i>> \notin standing

(* A difference where all was well has its cause by the time it is found. *)
Grounds ==
    Reading /\ calm /\ run.critical =>
        \/ run.pc \in {"operations", "done"} /\ \E i \in Instruments : SeveralPositions(i)
        \/ run.pc = "done" /\ \E i \in Instruments : OutOfWindow(i) \/ PartlyCancelled(i)

RunInv == RunOK /\ HistoryFits /\ Taken /\ ChargesRead /\ Overlooked /\ Grounds

Inv == Books /\ RunInv

-----------------------------------------------------------------------------
(* The kinds of a discrepancy. *)
LEMMA Kinds ==
    /\ \A o : <<"order", o>> \in Discrepancies =>
           o \in Rows /\ OrderDiffers(o) /\ (broker[o].open \/ orders[o].at < now)
    /\ \A i : <<"holding", i>> \in Discrepancies => i \in Instruments /\ PositionLots(i) # Held(i)
    /\ \A i : <<"fee", i>> \in Discrepancies => i \in brokerCommission(now, ops)
    /\ Discrepancies = {} =>
           /\ \A i \in Instruments : PositionLots(i) = Held(i)
           /\ brokerCommission(now, ops) = {}
    /\ \A x \in Discrepancies :
           \/ \E o \in Rows : x = <<"order", o>>
           \/ \E i \in Instruments : x = <<"holding", i>>
           \/ \E i \in brokerCommission(now, ops) : x = <<"fee", i>>
<1> DEFINE A == {<<"order", o>> : o \in {o \in Rows : OrderDiffers(o) /\ (broker[o].open \/ orders[o].at < now)}}
           B == {<<"holding", i>> : i \in {i \in Instruments : PositionLots(i) # Held(i)}}
           C == {<<"fee", i>> : i \in brokerCommission(now, ops)}
<1>1. Discrepancies = A \cup B \cup C
  BY DEF Discrepancies
<1>2. \A x : /\ x \in A <=> \E o \in Rows : OrderDiffers(o) /\ (broker[o].open \/ orders[o].at < now) /\ x = <<"order", o>>
             /\ x \in B <=> \E i \in Instruments : PositionLots(i) # Held(i) /\ x = <<"holding", i>>
             /\ x \in C <=> \E i \in brokerCommission(now, ops) : x = <<"fee", i>>
  OBVIOUS
<1> HIDE DEF A, B, C
<1>3. \A y, z : <<"order", y>> # <<"holding", z>> /\ <<"order", y>> # <<"fee", z>> /\ <<"holding", y>> # <<"fee", z>>
  OBVIOUS
<1>4. \A k, y, z : <<k, y>> = <<k, z>> => y = z
  OBVIOUS
<1>5. ASSUME NEW o, <<"order", o>> \in Discrepancies
      PROVE  o \in Rows /\ OrderDiffers(o) /\ (broker[o].open \/ orders[o].at < now)
  <2>1. <<"order", o>> \in A
    BY <1>1, <1>2, <1>3, <1>5
  <2>2. PICK p \in Rows : OrderDiffers(p) /\ (broker[p].open \/ orders[p].at < now) /\ <<"order", o>> = <<"order", p>>
    BY <1>2, <2>1
  <2> QED
    BY <1>4, <2>2
<1>6. ASSUME NEW i, <<"holding", i>> \in Discrepancies PROVE i \in Instruments /\ PositionLots(i) # Held(i)
  <2>1. <<"holding", i>> \in B
    BY <1>1, <1>2, <1>3, <1>6
  <2>2. PICK j \in Instruments : PositionLots(j) # Held(j) /\ <<"holding", i>> = <<"holding", j>>
    BY <1>2, <2>1
  <2> QED
    BY <1>4, <2>2
<1>7. ASSUME NEW i, <<"fee", i>> \in Discrepancies PROVE i \in brokerCommission(now, ops)
  <2>1. <<"fee", i>> \in C
    BY <1>1, <1>2, <1>3, <1>7
  <2>2. PICK j \in brokerCommission(now, ops) : <<"fee", i>> = <<"fee", j>>
    BY <1>2, <2>1
  <2> QED
    BY <1>4, <2>2
<1>8. ASSUME Discrepancies = {}
      PROVE  (\A i \in Instruments : PositionLots(i) = Held(i)) /\ brokerCommission(now, ops) = {}
  <2>1. \A i \in Instruments : PositionLots(i) # Held(i) => <<"holding", i>> \in Discrepancies
    BY <1>1, <1>2
  <2>2. \A i \in brokerCommission(now, ops) : <<"fee", i>> \in Discrepancies
    BY <1>1, <1>2
  <2> QED
    BY <1>8, <2>1, <2>2
<1>9. \A x \in Discrepancies :
           \/ \E o \in Rows : x = <<"order", o>>
           \/ \E i \in Instruments : x = <<"holding", i>>
           \/ \E i \in brokerCommission(now, ops) : x = <<"fee", i>>
  BY <1>1, <1>2
<1> QED
  BY <1>5, <1>6, <1>7, <1>8, <1>9

(* Sums stay when their terms do. *)
LEMMA Totals ==
    MarketOK => \A i \in Instruments : /\ Held(i) = HeldSum(i, orders, broker)
                                       /\ PositionLots(i) = Total([d \in Days |-> pos[i][d]])
BY HeldTotal, PositionTotal

(* Also after a step. *)
LEMMA TotalsNext ==
    (MarketOK => \A i \in Instruments : /\ Held(i) = HeldSum(i, orders, broker)
                                        /\ PositionLots(i) = Total([d \in Days |-> pos[i][d]]))'
BY Totals, PTL

(* The truth changes with the market and the tables only. *)
LEMMA SameTruth ==
    ASSUME Books, UNCHANGED <<now, orders, pos, broker, ops>>
    PROVE  Discrepancies' = Discrepancies /\ (Quiet' <=> Quiet)
<1>1. MarketOK /\ MarketOK'
  BY DEF Books, MarketOK
<1>2. \A i \in Instruments : Held(i)' = Held(i) /\ PositionLots(i)' = PositionLots(i)
  BY <1>1, Totals, TotalsNext
<1>3. Rows' = Rows
  BY DEF Rows
<1>4. brokerCommission(now, ops)' = brokerCommission(now, ops)
  BY DEF brokerCommission, RecentOps
<1>5. \A o : OrderDiffers(o)' <=> OrderDiffers(o)
  BY <1>3 DEF OrderDiffers, isActiveOrder
<1>6. Discrepancies' = Discrepancies
  BY <1>2, <1>3, <1>4, <1>5 DEF Discrepancies
<1> QED
  BY <1>3, <1>5, <1>6 DEF Quiet

(* What Recorded makes of the history. *)
LEMMA RecordedFits ==
    ASSUME RunInv, Recorded
    PROVE  /\ HistoryFits' /\ calm' \in BOOLEAN
           /\ run'.pc \in {"holdings", "operations", "done"} =>
                standing' \subseteq standing /\ (calm' => calm /\ Quiet')
<1>1. Quiet' \in BOOLEAN
  BY DEF Quiet
<1>2. CASE run'.pc = "orders" /\ Idle
  <2>1. standing' = Discrepancies' /\ calm' = Quiet'
    BY <1>2 DEF Recorded
  <2> QED
    BY <1>1, <1>2, <2>1 DEF HistoryFits
<1>3. CASE ~(run'.pc = "orders" /\ Idle) /\ run'.pc = "idle"
  <2>1. standing' = {} /\ calm' = TRUE
    BY <1>3 DEF Recorded
  <2> QED
    BY <1>3, <2>1 DEF HistoryFits
<1>4. CASE ~(run'.pc = "orders" /\ Idle) /\ run'.pc # "idle"
  <2>1. standing' = standing \cap Discrepancies' /\ calm' = (calm /\ Quiet')
    BY <1>4 DEF Recorded
  <2>2. calm \in BOOLEAN
    BY DEF RunInv, RunOK
  <2>3. (calm' => calm /\ Quiet') /\ calm' \in BOOLEAN
    BY <1>1, <2>1, <2>2
  <2> QED
    BY <1>4, <2>1, <2>3 DEF HistoryFits
<1> QED
  BY <1>2, <1>3, <1>4

(* The broker, or the clock, moves while a Run is under way, or not. *)
LEMMA MarketMoves ==
    ASSUME Inv, Recorded, UNCHANGED <<orders, pos, quarantined, run>>, halted' \in BOOLEAN,
           now \in Nat, now' \in Nat, now <= now', ops \subseteq ops'
    PROVE  RunInv'
<1>1. /\ HistoryFits' /\ calm' \in BOOLEAN
      /\ Reading => standing' \subseteq standing /\ (calm' => calm)
  BY RecordedFits DEF Inv, Reading
<1>2. RunOK'
  BY <1>1 DEF Inv, RunInv, RunOK
<1>3. Reading' <=> Reading
  BY DEF Reading
<1>4. Taken'
  <2> SUFFICES ASSUME Reading PROVE run.ops \subseteq ops' /\ run.at <= now'
    BY <1>3 DEF Inv, RunInv, Taken, TradeOf, Rows
  <2>1. run.ops \subseteq ops /\ run.at <= now
    BY DEF Inv, RunInv, Taken
  <2>2. run.at \in Nat
    BY Finite DEF Inv, RunInv, RunOK, AnyRun
  <2> QED
    BY <2>1, <2>2
<1>5. \A i : brokerCommission(run.at, run.ops)' = brokerCommission(run.at, run.ops)
  BY DEF brokerCommission, RecentOps
<1>6. ChargesRead'
  BY <1>1, <1>3, <1>5 DEF Inv, RunInv, ChargesRead
<1>7. Overlooked'
  BY <1>1, <1>3 DEF Inv, RunInv, Overlooked
<1>8. \A i \in Instruments : /\ SeveralPositions(i)' <=> SeveralPositions(i)
                             /\ OutOfWindow(i)' <=> OutOfWindow(i)
                             /\ PartlyCancelled(i)' <=> PartlyCancelled(i)
  BY DEF SeveralPositions, OutOfWindow, PartlyCancelled, Opened, localTraded, brokerTraded, RecentRows, RecentOps, Rows
<1>9. Grounds'
  BY <1>1, <1>3, <1>8 DEF Inv, RunInv, Grounds
<1> QED
  BY <1>1, <1>2, <1>4, <1>6, <1>7, <1>9 DEF RunInv

(* No Run is reading any more, or none yet. *)
LEMMA NotReading ==
    ASSUME Inv, Recorded, run' \in AnyRun, run'.pc \in {"idle", "orders"}, halted' \in BOOLEAN,
           quarantined' \subseteq Instruments
    PROVE  RunInv'
<1>1. HistoryFits' /\ calm' \in BOOLEAN
  BY RecordedFits DEF Inv
<1>2. ~Reading'
  BY DEF Reading
<1>3. RunOK'
  BY <1>1 DEF RunOK
<1> QED
  BY <1>1, <1>2, <1>3 DEF RunInv, Taken, ChargesRead, Overlooked, Grounds

(* GetActiveOrders and the clock.                                          *)
LEMMA ReadOrdersKeeps ==
    ASSUME Inv, Recorded, ReadOrders
    PROVE  RunInv'
<1>1. PICK since \in {now, now + 1} :
         run' = [run EXCEPT !.pc = "holdings", !.at = now, !.ops = ops, !.critical = OrderDiffs(Working, since)]
  BY DEF ReadOrders
<1>2. UNCHANGED <<now, orders, pos, quarantined, halted, broker, ops>>
  BY DEF ReadOrders, tables, market
<1>3. run \in AnyRun /\ now \in 0..MaxTime /\ ops \subseteq AnyOp /\ now \in Nat
  BY Finite DEF Inv, Books, MarketOK, RunInv, RunOK
<1>4. OrderDiffs(Working, since) \in BOOLEAN
  BY DEF OrderDiffs
<1>5. /\ run' \in AnyRun /\ run'.pc = "holdings" /\ run'.at = now /\ run'.ops = ops
      /\ run'.critical = OrderDiffs(Working, since)
  BY <1>1, <1>3, <1>4 DEF AnyRun
<1>6. /\ HistoryFits' /\ calm' \in BOOLEAN /\ standing' \subseteq Discrepancies'
      /\ calm' => Quiet'
  BY <1>5, RecordedFits DEF Inv, HistoryFits
<1>7. Discrepancies' = Discrepancies /\ (Quiet' <=> Quiet)
  BY <1>2, SameTruth DEF Inv
<1>8. RunOK'
  BY <1>2, <1>5, <1>6 DEF Inv, RunInv, RunOK
<1>9. Taken'
  <2>1. \A o \in Rows : orders[o].filled > 0 => broker[o].filled > 0
    BY RowFacts DEF Inv, Books, RowsFit
  <2>2. \A o \in Rows : orders[o].filled > 0 => \E op \in ops : TradeOf(op, o)
    BY <2>1 DEF Inv, Books, Traded
  <2> QED
    BY <1>2, <1>3, <1>5, <2>2 DEF Taken, TradeOf, Rows
<1>10. ChargesRead'
  <2>1. brokerCommission(run.at, run.ops)' = brokerCommission(now, ops)
    BY <1>2, <1>5 DEF brokerCommission, RecentOps
  <2>2. \A i : <<"fee", i>> \in standing' => i \in brokerCommission(now, ops)
    BY <1>6, <1>7, Kinds
  <2>3. calm' => brokerCommission(now, ops) = {}
    BY <1>6, <1>7, Kinds DEF Quiet
  <2> QED
    BY <2>1, <2>2, <2>3 DEF ChargesRead
<1>11. Overlooked'
  <2> SUFFICES ASSUME ~OrderDiffs(Working, since), NEW o \in Orders, <<"order", o>> \in standing' PROVE FALSE
    BY <1>5 DEF Overlooked
  <2>1. o \in Rows /\ OrderDiffers(o) /\ (broker[o].open \/ orders[o].at < now)
    BY <1>6, <1>7, Kinds
  <2>2. CASE broker[o].open
    <3>1. o \in Working /\ ~(isActiveOrder(o) /\ orders[o].known)
      BY <2>1, <2>2 DEF Working, OrderDiffers
    <3> QED
      BY <3>1 DEF OrderDiffs
  <2>3. CASE ~broker[o].open
    <3>1. o \in Rows /\ isActiveOrder(o) /\ o \notin Working
      <4>1. broker[o].open = FALSE /\ ~(broker[o].open /\ ~orders[o].known)
        BY <2>1, <2>3, RowFacts DEF Inv, Books
      <4>2. o \in Rows /\ isActiveOrder(o)
        BY <2>1, <4>1 DEF OrderDiffers
      <4> QED
        BY <2>3, <4>2 DEF Working
    <3>2. orders[o].at < since
      <4>1. orders[o].at < now /\ orders[o].at \in Nat
        BY <2>1, <2>3, RowFacts DEF Inv, Books
      <4> QED
        BY <1>3, <4>1
    <3> QED
      BY <3>1, <3>2 DEF OrderDiffs
  <2> QED
    BY <2>2, <2>3
<1>12. Grounds'
  <2> SUFFICES ASSUME Quiet, OrderDiffs(Working, since) PROVE FALSE
    BY <1>5, <1>6, <1>7 DEF Grounds
  <2>1. \A o \in Rows : ~OrderDiffers(o)
    BY DEF Quiet
  <2>2. CASE \E o \in Working : ~(isActiveOrder(o) /\ orders[o].known)
    <3>1. PICK o \in Working : ~(isActiveOrder(o) /\ orders[o].known)
      BY <2>2
    <3>2. o \in Rows /\ broker[o].open
      BY DEF Inv, Books, BrokerFits, Working
    <3> QED
      BY <2>1, <3>1, <3>2 DEF OrderDiffers
  <2>3. CASE \E o \in Rows : isActiveOrder(o) /\ orders[o].at < since /\ ~(orders[o].known /\ o \in Working)
    <3>1. PICK o \in Rows : isActiveOrder(o) /\ ~(orders[o].known /\ o \in Working)
      BY <2>3
    <3>2. broker[o].open /\ orders[o].known /\ o \in Orders
      BY <2>1, <3>1 DEF OrderDiffers, isActiveOrder, Rows
    <3> QED
      BY <3>1, <3>2 DEF Working
  <2> QED
    BY <2>2, <2>3 DEF OrderDiffs
<1> QED
  BY <1>6, <1>8, <1>9, <1>10, <1>11, <1>12 DEF RunInv

(* GetPortfolio. *)
LEMMA ReadHoldingsKeeps ==
    ASSUME Inv, Recorded, ReadHoldings
    PROVE  RunInv'
<1>1. /\ run' = [run EXCEPT !.pc = "operations", !.critical = @ \/ HoldingDiffs]
      /\ run.pc = "holdings"
      /\ UNCHANGED <<now, orders, pos, quarantined, halted, broker, ops>>
  BY DEF ReadHoldings, tables, market
<1>2. run \in AnyRun /\ run.critical \in BOOLEAN /\ HoldingDiffs \in BOOLEAN /\ Reading
  BY <1>1 DEF Inv, RunInv, RunOK, AnyRun, HoldingDiffs, Reading
<1>3. /\ run' \in AnyRun /\ run'.pc = "operations" /\ run'.at = run.at /\ run'.ops = run.ops
      /\ run'.critical = (run.critical \/ HoldingDiffs)
  BY <1>1, <1>2 DEF AnyRun
<1>4. /\ HistoryFits' /\ calm' \in BOOLEAN /\ standing' \subseteq Discrepancies' /\ standing' \subseteq standing
      /\ calm' => calm /\ Quiet'
  BY <1>3, RecordedFits DEF Inv, HistoryFits
<1>5. Discrepancies' = Discrepancies /\ (Quiet' <=> Quiet)
  BY <1>1, SameTruth DEF Inv
<1>6. RunOK'
  BY <1>1, <1>3, <1>4 DEF Inv, RunInv, RunOK
<1>7. Taken'
  BY <1>1, <1>2, <1>3 DEF Inv, RunInv, Taken, TradeOf, Rows
<1>8. ChargesRead'
  <2>1. brokerCommission(run.at, run.ops)' = brokerCommission(run.at, run.ops)
    BY <1>3 DEF brokerCommission, RecentOps
  <2> QED
    BY <1>2, <1>4, <2>1 DEF Inv, RunInv, ChargesRead
<1>9. Overlooked'
  <2> SUFFICES ASSUME ~run.critical, ~HoldingDiffs
               PROVE  /\ \A o \in Orders : <<"order", o>> \notin standing'
                      /\ \A i \in Instruments : <<"holding", i>> \notin standing'
    BY <1>3 DEF Overlooked
  <2>1. \A o \in Orders : <<"order", o>> \notin standing'
    BY <1>2, <1>4 DEF Inv, RunInv, Overlooked
  <2>2. \A i \in Instruments : PositionLots(i) = Held(i)
    BY HoldingsCompared DEF Inv
  <2>3. \A i \in Instruments : <<"holding", i>> \notin Discrepancies
    BY <2>2, Kinds
  <2> QED
    BY <1>4, <1>5, <2>1, <2>3
<1>10. Grounds'
  <2> SUFFICES ASSUME calm, Quiet, run.critical \/ HoldingDiffs
               PROVE  \E i \in Instruments : SeveralPositions(i)'
    BY <1>3, <1>4, <1>5 DEF Grounds
  <2>1. HoldingDiffs
    BY <1>1, <1>2 DEF Inv, RunInv, Grounds
  <2>2. \A i \in Instruments : PositionLots(i) = Held(i)
    BY Kinds DEF Quiet
  <2>3. \E i \in Instruments : SeveralPositions(i)
    BY <2>1, <2>2, HoldingsMisread DEF Inv
  <2> QED
    BY <1>1, <2>3 DEF SeveralPositions, Opened
<1> QED
  BY <1>4, <1>6, <1>7, <1>8, <1>9, <1>10 DEF RunInv

(* Where all was well, the broker has traded what the rows tell of, but for *)
(* orders that were cancelled.                                             *)
LEMMA TradesTold ==
    ASSUME Books, Quiet, NEW at \in Nat, NEW read \in SUBSET ops,
           NEW i \in brokerTraded(at, read) \ localTraded(at)
    PROVE  i \in Instruments /\ PartlyCancelled(i)
<1>1. PICK op \in read : op.instrument = i /\ op.at >= at - Window
  BY DEF brokerTraded, RecentOps
<1>2. op \in ops /\ op.at \in 0..MaxTime /\ op.at \in Nat /\ i \in Instruments
  BY <1>1, Finite DEF Books, MarketOK, AnyOp
<1>3. PICK o \in Rows : orders[o].instrument = i /\ broker[o].filled > 0 /\ Day(orders[o].at) = Day(op.at)
  BY <1>1, <1>2 DEF Books, Traded
<1>4. o \in RecentRows(at)
  <2>1. Window \in Nat /\ at - Window \in Int
    BY ReconciliationAssumption
  <2>2. Larger(at - Window, 0) \in Nat /\ Larger(at - Window, 0) <= op.at
    BY <1>1, <1>2, <2>1 DEF Larger
  <2>3. Day(op.at) >= Day(Larger(at - Window, 0))
    BY <1>2, <2>2, DayGrows
  <2> QED
    BY <1>3, <2>3 DEF RecentRows
<1>5. orders[o].status \notin {"FILLED", "PARTIALLY_FILLED"}
  BY <1>3, <1>4 DEF localTraded
<1>6. orders[o].filled > 0
  BY <1>3 DEF Quiet
<1>7. orders[o].status \notin {"SENT", "REJECTED", "FAILED"}
  BY <1>6, RowFacts DEF Books, RowsFit
<1>8. orders[o].status \in {"SENT", "PARTIALLY_FILLED", "FILLED", "CANCELLED", "REJECTED", "FAILED"}
  BY RowFacts DEF Books, AnyRow
<1>9. orders[o].status = "CANCELLED"
  BY <1>5, <1>7, <1>8
<1> QED
  BY <1>2, <1>3, <1>6, <1>9 DEF PartlyCancelled

(* A fill a row tells of was read with the operations: if the broker is not  *)
(* found to have traded, it is older than what was asked for, though not by *)
(* its day.                                                                *)
LEMMA TradesMissed ==
    ASSUME Books, RunInv, Reading,
           NEW i \in localTraded(run.at), i \notin brokerTraded(run.at, run.ops)
    PROVE  OutOfWindow(i)
<1>1. PICK o \in RecentRows(run.at) : orders[o].instrument = i /\ orders[o].status \in {"FILLED", "PARTIALLY_FILLED"}
  BY DEF localTraded
<1>2. o \in Rows /\ orders[o].filled > 0 /\ Day(orders[o].at) >= Day(Larger(run.at - Window, 0))
      /\ orders[o].at \in Nat
  BY <1>1, RowFacts DEF RecentRows, Books, RowsFit
<1>3. PICK op \in run.ops : TradeOf(op, o)
  BY <1>2 DEF RunInv, Taken
<1>4. \A t \in run.ops : t \in AnyOp /\ t.at \in Nat
  BY Finite DEF RunInv, Taken, Books, MarketOK, AnyOp
<1>5. ASSUME NEW t \in run.ops, t.instrument = i, ~t.fee PROVE t.at < run.at - Window
  <2>1. ~(t.at >= run.at - Window)
    BY <1>5 DEF brokerTraded, RecentOps
  <2> QED
    BY <1>4, <2>1, Finite, ReconciliationAssumption DEF RunInv, RunOK, AnyRun
<1>6. op.instrument = i /\ ~op.fee /\ Day(op.at) = Day(orders[o].at) /\ op.at < run.at - Window /\ op.at \in Nat
  BY <1>1, <1>3, <1>4, <1>5 DEF TradeOf
<1>7. run.at - Window \in Nat /\ Larger(run.at - Window, 0) = run.at - Window
  BY <1>6, Finite, ReconciliationAssumption DEF RunInv, RunOK, AnyRun, Larger
<1>8. Day(op.at) \in Nat /\ Day(run.at - Window) \in Nat /\ Day(op.at) <= Day(run.at - Window)
  BY <1>6, <1>7, DayGrows
<1>9. Day(op.at) = Day(run.at - Window)
  BY <1>2, <1>6, <1>7, <1>8
<1> QED
  BY <1>5, <1>6, <1>9 DEF OutOfWindow

(* GetOperations. *)
LEMMA ReadOperationsKeeps ==
    ASSUME Inv, Recorded, ReadOperations
    PROVE  RunInv'
<1>1. /\ run' = [run EXCEPT !.pc = "done", !.critical = @ \/ OperationDiffs(run.at, run.ops)]
      /\ run.pc = "operations"
      /\ UNCHANGED <<now, orders, pos, halted, broker, ops>>
      /\ \E done \in SUBSET brokerCommission(run.at, run.ops) : quarantined' = quarantined \cup done
  BY DEF ReadOperations, market, QuarantineInstrument
<1>2. run \in AnyRun /\ run.critical \in BOOLEAN /\ OperationDiffs(run.at, run.ops) \in BOOLEAN /\ Reading
  BY <1>1 DEF Inv, RunInv, RunOK, AnyRun, OperationDiffs, Reading
<1>3. /\ run' \in AnyRun /\ run'.pc = "done" /\ run'.at = run.at /\ run'.ops = run.ops
      /\ run'.critical = (run.critical \/ OperationDiffs(run.at, run.ops))
  BY <1>1, <1>2 DEF AnyRun
<1>4. /\ HistoryFits' /\ calm' \in BOOLEAN /\ standing' \subseteq standing
      /\ calm' => calm /\ Quiet'
  BY <1>3, RecordedFits DEF Inv
<1>5. Quiet' <=> Quiet
  BY <1>1, SameTruth DEF Inv
<1>6. RunOK'
  <2>1. brokerCommission(run.at, run.ops) \subseteq Instruments
    BY <1>2 DEF brokerCommission, RecentOps, AnyRun, AnyOp
  <2>2. quarantined' \subseteq Instruments
    BY <1>1, <2>1 DEF Inv, RunInv, RunOK
  <2> QED
    BY <1>1, <1>3, <1>4, <2>2 DEF Inv, RunInv, RunOK
<1>7. Taken'
  BY <1>1, <1>2, <1>3 DEF Inv, RunInv, Taken, TradeOf, Rows
<1>8. /\ \A i \in Instruments : <<"fee", i>> \in standing => i \in brokerCommission(run.at, run.ops)
      /\ calm => brokerCommission(run.at, run.ops) = {}
  BY <1>2 DEF Inv, RunInv, ChargesRead
<1>9. ChargesRead'
  <2>1. brokerCommission(run.at, run.ops)' = brokerCommission(run.at, run.ops)
    BY <1>3 DEF brokerCommission, RecentOps
  <2> QED
    BY <1>4, <1>8, <2>1 DEF ChargesRead
<1>10. Overlooked'
  <2> SUFFICES ASSUME ~run.critical, ~OperationDiffs(run.at, run.ops)
               PROVE  /\ \A o \in Orders : <<"order", o>> \notin standing'
                      /\ \A i \in Instruments : <<"holding", i>> \notin standing' /\ <<"fee", i>> \notin standing'
    BY <1>3 DEF Overlooked
  <2>1. /\ \A o \in Orders : <<"order", o>> \notin standing
        /\ \A i \in Instruments : <<"holding", i>> \notin standing
    BY <1>1, <1>2 DEF Inv, RunInv, Overlooked
  <2>2. \A i \in Instruments : <<"fee", i>> \notin standing
    BY <1>8 DEF OperationDiffs
  <2> QED
    BY <1>4, <2>1, <2>2
<1>11. Grounds'
  <2> SUFFICES ASSUME calm, Quiet, run.critical \/ OperationDiffs(run.at, run.ops)
               PROVE  \E i \in Instruments : SeveralPositions(i)' \/ OutOfWindow(i)' \/ PartlyCancelled(i)'
    BY <1>3, <1>4, <1>5 DEF Grounds
  <2>1. \A i \in Instruments : /\ SeveralPositions(i)' <=> SeveralPositions(i)
                               /\ OutOfWindow(i)' <=> OutOfWindow(i)
                               /\ PartlyCancelled(i)' <=> PartlyCancelled(i)
    BY <1>1, <1>3
       DEF SeveralPositions, OutOfWindow, PartlyCancelled, Opened, localTraded, brokerTraded, RecentRows, RecentOps, Rows
  <2>2. CASE run.critical
    <3>1. \E i \in Instruments : SeveralPositions(i)
      BY <1>1, <1>2, <2>2 DEF Inv, RunInv, Grounds
    <3> QED
      BY <2>1, <3>1
  <2>3. CASE OperationDiffs(run.at, run.ops)
    <3>1. localTraded(run.at) # brokerTraded(run.at, run.ops)
      BY <1>8, <2>3 DEF OperationDiffs
    <3>2. CASE \E i \in localTraded(run.at) : i \notin brokerTraded(run.at, run.ops)
      <4>1. PICK i \in localTraded(run.at) : i \notin brokerTraded(run.at, run.ops)
        BY <3>2
      <4>2. i \in Instruments
        BY <4>1, RowFacts DEF localTraded, RecentRows, Inv, Books
      <4>3. OutOfWindow(i)
        BY <1>2, <4>1, TradesMissed DEF Inv
      <4> QED
        BY <2>1, <4>2, <4>3
    <3>3. CASE \E i \in brokerTraded(run.at, run.ops) : i \notin localTraded(run.at)
      <4>1. PICK i \in brokerTraded(run.at, run.ops) : i \notin localTraded(run.at)
        BY <3>3
      <4>2. run.at \in Nat /\ run.ops \in SUBSET ops
        BY <1>2, Finite DEF Inv, RunInv, Taken, AnyRun
      <4>3. i \in Instruments /\ PartlyCancelled(i)
        BY <4>1, <4>2, TradesTold DEF Inv
      <4> QED
        BY <2>1, <4>3
    <3> QED
      BY <3>1, <3>2, <3>3
  <2> QED
    BY <2>2, <2>3
<1> QED
  BY <1>4, <1>6, <1>7, <1>9, <1>10, <1>11 DEF RunInv

-----------------------------------------------------------------------------
(* The beginning: no orders, no positions, nothing held. *)
LEMMA InitBooks ==
    ASSUME Init
    PROVE  Inv
<1>1. Rows = {} /\ \A o \in Orders : orders[o] = None
  BY DEF Init, Rows
<1>2. MarketOK
  <2>1. 0 \in 0..MaxTime /\ 0 \in 0..Lots
    BY ReconciliationAssumption, Finite
  <2> QED
    BY <2>1 DEF Init, MarketOK, AnyRows, AnyBook
<1>3. BrokerFits /\ RowsFit /\ Sold /\ Traded
  BY <1>1 DEF Init, BrokerFits, RowsFit, Sold, Selling, Traded
<1>4. Bought
  BY <1>1 DEF Init, Bought, Entry
<1>5. Covered
  <2> SUFFICES ASSUME NEW i \in Instruments PROVE SaleSum(i, orders, broker) <= HeldSum(i, orders, broker)
    BY DEF Covered
  <2>1. /\ [o \in Orders |-> HeldBy(i, orders[o], broker[o])] = [o \in Orders |-> 0]
        /\ [o \in Orders |-> SaleBy(i, orders[o], broker[o])] = [o \in Orders |-> 0]
    BY <1>1 DEF HeldBy, SaleBy
  <2>2. Total([o \in Orders |-> 0]) = 0
    BY Finite, TotalZero
  <2> QED
    BY <2>1, <2>2 DEF HeldSum, SaleSum
<1>6. RunOK
  <2>1. 0 \in 0..MaxTime
    BY ReconciliationAssumption
  <2> QED
    BY <2>1 DEF Init, RunOK, AnyRun, NoRun
<1>7. run.pc = "idle" /\ standing = {}
  BY DEF Init, NoRun
<1> QED
  BY <1>2, <1>3, <1>4, <1>5, <1>6, <1>7
     DEF Inv, Books, RunInv, HistoryFits, Taken, ChargesRead, Overlooked, Grounds, Reading

(* Every step keeps the invariant, one action after the other. *)
LEMMA StepKeeps ==
    ASSUME Inv, [Next]_vars
    PROVE  Inv'
<1>1. ASSUME Next PROVE Inv'
  <2>0. Recorded
    BY <1>1 DEF Next
  <2>1. /\ Books /\ run \in AnyRun /\ quarantined \subseteq Instruments /\ halted \in BOOLEAN /\ NoRun \in AnyRun
        /\ now \in Nat /\ now \in 0..MaxTime /\ NoRun.pc = "idle"
    BY ReconciliationAssumption DEF Inv, RunInv, RunOK, Books, MarketOK, NoRun, AnyRun
  <2>2. ASSUME NEW o \in Orders, Fills(o) PROVE Inv'
    <3>1. UNCHANGED <<now, orders, pos, quarantined, halted, run>> /\ ops \subseteq ops'
      BY <2>2 DEF Fills, tables
    <3>2. RunInv'
      BY <2>0, <2>1, <3>1, MarketMoves
    <3> QED
      BY <2>1, <2>2, <3>2, FillsKeep DEF Inv
  <2>3. ASSUME NEW o \in Orders, Ends(o) PROVE Inv'
    <3>1. UNCHANGED <<now, orders, pos, quarantined, halted, run, ops>>
      BY <2>3 DEF Ends, tables
    <3>2. RunInv'
      BY <2>0, <2>1, <3>1, MarketMoves
    <3> QED
      BY <2>1, <2>3, <3>2, EndsKeep DEF Inv
  <2>4. ASSUME NEW o \in Orders, Monitor(o) PROVE Inv'
    <3>1. /\ UNCHANGED quarantined /\ halted' \in BOOLEAN /\ run.pc = "idle"
          /\ run' = [NoRun EXCEPT !.pc = "orders", !.by = "bot"] \/ run' = run
      BY <2>1, <2>4 DEF Monitor, Idle
    <3>2. run' \in AnyRun /\ run'.pc \in {"idle", "orders"}
      BY <2>1, <3>1 DEF AnyRun
    <3>3. RunInv'
      BY <2>0, <2>1, <3>1, <3>2, NotReading
    <3> QED
      BY <2>1, <2>4, <3>3, MonitorKeeps DEF Inv
  <2>5. ASSUME NEW o \in Orders, CancelActive(o) PROVE Inv'
    <3>1. UNCHANGED <<quarantined, halted, run>> /\ run.pc = "idle"
      BY <2>5 DEF CancelActive, Idle
    <3>2. RunInv'
      BY <2>0, <2>1, <3>1, NotReading
    <3> QED
      BY <2>1, <2>5, <3>2, CancelKeeps DEF Inv
  <2>6. ASSUME NEW i \in Instruments, NEW side, NEW day, NEW lots, Place(i, side, day, lots) PROVE RunInv'
    <3>1. UNCHANGED <<quarantined, run>> /\ run.pc = "idle" /\ halted' \in BOOLEAN
      BY <2>6 DEF Place, Idle
    <3> QED
      BY <2>0, <2>1, <3>1, NotReading
  <2>7. ASSUME NEW i \in Instruments, Buy(i) PROVE Inv'
    BY <2>1, <2>6, <2>7, BuyKeeps DEF Inv, Buy
  <2>8. ASSUME NEW i \in Instruments, NEW day \in Days, Sell(i, day) PROVE Inv'
    BY <2>1, <2>6, <2>8, SellKeeps DEF Inv, Sell
  <2>9. ASSUME Tick PROVE Inv'
    <3>1. UNCHANGED <<orders, pos, quarantined, halted, run, ops>> /\ now' = now + 1
      BY <2>9 DEF Tick, tables, market
    <3>2. RunInv'
      BY <2>0, <2>1, <3>1, MarketMoves
    <3> QED
      BY <2>1, <2>9, <3>2, TickKeeps DEF Inv
  <2>10. ASSUME NEW by \in {"bot", "unhalt"}, Begin(by) PROVE Inv'
    <3>1. /\ run' = [NoRun EXCEPT !.pc = "orders", !.by = by]
          /\ UNCHANGED <<now, orders, pos, quarantined, halted, broker, ops>>
      BY <2>10 DEF Begin, tables, market
    <3>2. run' \in AnyRun /\ run'.pc = "orders"
      BY <2>1, <3>1 DEF AnyRun
    <3>3. RunInv'
      BY <2>0, <2>1, <3>1, <3>2, NotReading
    <3> QED
      BY <2>1, <3>1, <3>3, Unmoved DEF Inv
  <2>11. ASSUME ReadOrders PROVE Inv'
    BY <2>0, <2>1, <2>11, ReadOrdersKeeps, Unmoved DEF Inv, ReadOrders, tables, market
  <2>12. ASSUME ReadHoldings PROVE Inv'
    BY <2>0, <2>1, <2>12, ReadHoldingsKeeps, Unmoved DEF Inv, ReadHoldings, tables, market
  <2>13. ASSUME ReadOperations PROVE Inv'
    BY <2>0, <2>1, <2>13, ReadOperationsKeeps, Unmoved DEF Inv, ReadOperations, market
  <2>14. ASSUME Concludes PROVE Inv'
    <3>1. /\ halted' = run.critical /\ run' = NoRun
          /\ quarantined' = quarantined \cup (IF run.by = "bot" THEN brokerCommission(run.at, run.ops) ELSE {})
          /\ UNCHANGED <<now, orders, pos, broker, ops>>
      BY <2>14 DEF Concludes, QuarantineInstrument, market
    <3>2. halted' \in BOOLEAN /\ quarantined' \subseteq Instruments
      BY <2>1, <3>1 DEF brokerCommission, RecentOps, AnyRun, AnyOp
    <3>3. RunInv'
      BY <2>0, <2>1, <3>1, <3>2, NotReading
    <3> QED
      BY <2>1, <3>1, <3>3, Unmoved DEF Inv
  <2>15. ASSUME RunFails PROVE Inv'
    <3>1. run' = NoRun /\ halted' \in BOOLEAN /\ UNCHANGED <<now, orders, pos, quarantined, broker, ops>>
      BY <2>1, <2>15 DEF RunFails, tables, market
    <3>2. RunInv'
      BY <2>0, <2>1, <3>1, NotReading
    <3> QED
      BY <2>1, <3>1, <3>2, Unmoved DEF Inv
  <2> QED
    BY <1>1, <2>2, <2>3, <2>4, <2>5, <2>7, <2>8, <2>9, <2>10, <2>11, <2>12, <2>13, <2>14, <2>15 DEF Next, Running
<1>2. ASSUME UNCHANGED vars PROVE Inv'
  <2>1. /\ UNCHANGED <<now, orders, pos, quarantined, halted, broker, ops, run, standing, calm>> /\ Books
    BY <1>2 DEF vars, tables, market, history, Inv
  <2>2. Books' /\ Discrepancies' = Discrepancies /\ (Quiet' <=> Quiet)
    BY <2>1, Unmoved, SameTruth
  <2>3. RunOK' /\ HistoryFits' /\ Taken' /\ ChargesRead' /\ Overlooked'
    BY <2>1, <2>2
       DEF Inv, RunInv, RunOK, HistoryFits, Taken, TradeOf, Rows, ChargesRead, Overlooked, Reading, brokerCommission,
           RecentOps
  <2>4. Grounds'
    BY <2>1 DEF Inv, RunInv, Grounds, Reading, SeveralPositions, OutOfWindow, PartlyCancelled, Opened, localTraded,
                brokerTraded, RecentRows, RecentOps, Rows
  <2> QED
    BY <2>2, <2>3, <2>4 DEF Inv, RunInv
<1> QED
  BY <1>1, <1>2

(* The invariant, of every behaviour. *)
LEMMA AlwaysInv == Spec => []Inv
BY InitBooks, StepKeeps, PTL DEF Spec

(* TypeOK: the tables, the market and the Run in progress stay within       *)
(* their bounds: no position falls below zero or exceeds what was bought,  *)
(* though bookings get lost.                                               *)
THEOREM TypeCorrect == Spec => []TypeOK
<1>1. Inv => TypeOK
  BY DEF Inv, Books, MarketOK, RowsFit, AnyRows, AnyBook, RunInv, RunOK, AnyRun, TypeOK
<1> QED
  BY <1>1, AlwaysInv, PTL

(* NothingStands: a Run that finds nothing has overlooked nothing, however  *)
(* many instruments and positions there are.                               *)
THEOREM CleanRuns == Spec => []NothingStands
<1>1. Inv => NothingStands
  <2> SUFFICES ASSUME Inv, Clean, NEW x \in standing PROVE FALSE
    BY DEF NothingStands
  <2>1. Reading /\ run.pc = "done" /\ ~run.critical
    BY DEF Clean, Reading
  <2>2. x \in Discrepancies
    BY DEF Inv, RunInv, HistoryFits
  <2>3. \/ \E o \in Rows : x = <<"order", o>>
        \/ \E i \in Instruments : x = <<"holding", i>>
        \/ \E i \in brokerCommission(now, ops) : x = <<"fee", i>>
    BY <2>2, Kinds
  <2>4. brokerCommission(now, ops) \subseteq Instruments /\ Rows \subseteq Orders
    BY DEF Inv, Books, MarketOK, brokerCommission, RecentOps, AnyOp, Rows
  <2> QED
    BY <2>1, <2>3, <2>4 DEF Inv, RunInv, Overlooked
<1> QED
  BY <1>1, AlwaysInv, PTL

(* AlarmsExplained: where nothing differed and nothing moved, a critical    *)
(* difference has one of the three causes.                                 *)
THEOREM JustifiedAlarms == Spec => []AlarmsExplained
<1>1. Inv => AlarmsExplained
  <2> SUFFICES ASSUME Inv, run.pc = "done", run.critical, calm
               PROVE  \E i \in Instruments : OutOfWindow(i) \/ PartlyCancelled(i) \/ SeveralPositions(i)
    BY DEF AlarmsExplained
  <2> QED
    BY DEF Inv, RunInv, Grounds, Reading
<1> QED
  BY <1>1, AlwaysInv, PTL

=============================================================================
