------------------------- MODULE EntryBudget_proofs -------------------------
(***************************************************************************)
(* For any number of instruments, any worth of their lots, any limits and  *)
(* any number of faults: what is held and may yet be bought stays within   *)
(* the cap of the exposure, the slots, the cash and the reduced size.      *)
(* First the sizer and the signals, then what is committed: to every       *)
(* instrument what its row may yet buy, and to the loop of                 *)
(* placeEntryOrders what its counters know of that.                        *)
(***************************************************************************)
EXTENDS EntryBudget, Amounts_proofs

(* There are finitely many instruments. *)
LEMMA Finite == IsFiniteSet(Instruments) /\ IsFiniteSet(0..N)
BY FS_Interval, BudgetAssumption DEF Instruments

(* A lot is worth something, a limit is an amount. *)
LEMMA Lot == \A i \in Instruments : LotNotional[i] \in Nat \ {0} /\ Limit[i] \in Nat
BY BudgetAssumption DEF Instruments

(* A product grows with each of its factors. *)
LEMMA ProductGrows ==
    ASSUME NEW a \in Int, NEW b \in Int, NEW c \in Nat, a <= b
    PROVE  a * c \in Int /\ b * c \in Int /\ a * c <= b * c
<1>1. b - a \in Nat /\ b = a + (b - a)
  OBVIOUS
<1>2. PICK z \in Nat : b = a + z
  BY <1>1
<1>3. b * c = a * c + z * c /\ z * c \in Nat /\ a * c \in Int
  BY <1>2
<1> QED
  BY <1>3

(* ... and only with it. *)
LEMMA ProductCancels ==
    ASSUME NEW a \in Int, NEW b \in Int, NEW c \in Nat \ {0}, a * c <= b * c
    PROVE  a <= b
<1> SUFFICES ASSUME b < a PROVE FALSE
  OBVIOUS
<1>1. b + 1 <= a /\ b + 1 \in Int
  OBVIOUS
<1>2. (b + 1) * c <= a * c
  BY <1>1, ProductGrows
<1>3. (b + 1) * c = b * c + c /\ b * c \in Int /\ a * c \in Int
  OBVIOUS
<1> QED
  BY <1>2, <1>3

(* An integral part, multiplied again. *)
LEMMA Quotient ==
    ASSUME NEW a \in Nat, NEW q \in Nat \ {0}
    PROVE  a \div q \in Nat /\ (a \div q) * q <= a
<1>1. /\ a \div q \in Nat /\ a % q \in 0..(q - 1)
      /\ a = (q * (a \div q)) + (a % q)
  BY SMT
<1>2. (a \div q) * q = q * (a \div q)
  BY <1>1
<1> QED
  BY <1>1, <1>2

(* The amount of some lots, divided by that of one, gives them back. *)
LEMMA QuotientOfProduct ==
    ASSUME NEW a \in Nat, NEW q \in Nat \ {0}
    PROVE  (q * a) \div q = a
<1>1. q * a \in Nat
  OBVIOUS
<1> DEFINE d == (q * a) \div q
<1>2. d \in Nat /\ d * q <= q * a /\ q * a < d * q + q
  <2>1. /\ d \in Nat /\ (q * a) % q \in 0..(q - 1)
        /\ q * a = (q * d) + ((q * a) % q)
    BY <1>1, SMT
  <2>2. d * q = q * d
    BY <2>1
  <2> QED
    BY <2>1, <2>2
<1> HIDE DEF d
<1>3. d <= a
  <2>1. d * q <= a * q
    BY <1>2
  <2> QED
    BY <1>2, <2>1, ProductCancels
<1>4. a <= d
  <2> SUFFICES ASSUME d + 1 <= a PROVE FALSE
    BY <1>2
  <2>1. (d + 1) * q <= a * q
    BY <1>2, ProductGrows
  <2>2. (d + 1) * q = d * q + q /\ a * q = q * a
    BY <1>2
  <2> QED
    BY <1>1, <1>2, <2>1, <2>2
<1> QED
  BY <1>2, <1>3, <1>4 DEF d

(* The least of two or three integers is one of them and exceeds none. *)
LEMMA LeastOf ==
    ASSUME NEW a \in Int, NEW b \in Int, NEW c \in Int
    PROVE  LET least == Min({a, b, c})
           IN  least \in {a, b, c} /\ least <= a /\ least <= b /\ least <= c
<1>1. \E x \in {a, b, c} : \A y \in {a, b, c} : x <= y
  OBVIOUS
<1> QED
  BY <1>1 DEF Min

(* The lesser of two integers. *)
LEMMA LesserOf ==
    ASSUME NEW a \in Int, NEW b \in Int
    PROVE  LET least == Min({a, b})
           IN  least \in {a, b} /\ least <= a /\ least <= b
<1>1. \E x \in {a, b} : \A y \in {a, b} : x <= y
  OBVIOUS
<1> QED
  BY <1>1 DEF Min

(* The larger of two integers. *)
LEMMA LargerOf ==
    ASSUME NEW a \in Int, NEW b \in Int
    PROVE  Larger(a, b) \in {a, b} /\ a <= Larger(a, b) /\ b <= Larger(a, b)
BY DEF Larger

(* What a percentage of a non-negative amount allows, shared by some. *)
LEMMA Allowance ==
    ASSUME NEW lots \in Nat, NEW lot \in Nat, NEW amount \in Nat, NEW percent \in 0..100, NEW share \in Nat \ {0},
           lots * (share * 100 * lot) <= amount * percent
    PROVE  lots * lot <= amount /\ (lots * lot) * share <= amount
<1> DEFINE worth == lots * lot
<1>1. worth \in Nat
  OBVIOUS
<1>2. lots * (share * 100 * lot) = (worth * share) * 100
  <2>1. (share * 100 * lot) = 100 * (share * lot) /\ share * lot \in Nat
    OBVIOUS
  <2>2. lots * (100 * (share * lot)) = 100 * (lots * (share * lot)) /\ lots * (share * lot) \in Nat
    BY <2>1
  <2>3. lots * (share * lot) = worth * share
    BY SMT
  <2> QED
    BY <2>1, <2>2, <2>3
<1> HIDE DEF worth
<1>3. worth <= worth * share /\ worth * share \in Nat
  <2>1. 1 * worth <= share * worth
    BY <1>1, ProductGrows
  <2> QED
    BY <1>1, <2>1
<1>4. amount * percent <= amount * 100
  <2>1. percent * amount <= 100 * amount
    BY ProductGrows
  <2> QED
    BY <2>1
<1>5. (worth * share) * 100 <= amount * 100
  BY <1>1, <1>2, <1>3, <1>4
<1>6. worth * share <= amount
  BY <1>3, <1>5
<1> QED
  BY <1>1, <1>3, <1>6 DEF worth

(* Sizer.Size: the lots are worth no more than what the cap and the cash    *)
(* leave, and no more than the limits of the instrument, reduced or not.   *)
LEMMA SizeBounds ==
    ASSUME NEW i \in Instruments, NEW selected \in Nat \ {0}, NEW exposure \in Int, NEW reserved \in Int,
           NEW available \in Int, NEW less \in BOOLEAN
    PROVE  LET lots == Size(i, selected, exposure, reserved, available, less)
           IN  /\ lots \in Nat
               /\ lots > 0 => /\ lots * LotNotional[i] <= MaxTotalExposure - exposure
                              /\ lots * LotNotional[i] <= available - reserved
               /\ (lots * LotNotional[i]) * selected <= Larger(MaxTotalExposure - exposure, 0)
               /\ 100 * lots * LotNotional[i] <= effectiveSizeFactor(less) * Limit[i]
<1> DEFINE lot == LotNotional[i]
           percent == effectiveSizeFactor(less)
           room == Larger(MaxTotalExposure - exposure, 0)
           money == Larger(available - reserved, 0)
           ofLimit == (Limit[i] * percent) \div (100 * lot)
           ofRoom == (room * percent) \div (selected * 100 * lot)
           ofMoney == (money * CashUsageBuffer * percent) \div (10000 * lot)
           least == Min({ofLimit, ofRoom, ofMoney})
<1>1. lot \in Nat \ {0} /\ Limit[i] \in Nat
  BY Lot
<1>2. percent \in 1..100 /\ CashUsageBuffer \in 1..100 /\ MaxTotalExposure \in Nat
  BY BudgetAssumption DEF effectiveSizeFactor
<1>3. room \in Nat /\ (room > 0 => room = MaxTotalExposure - exposure)
  BY <1>2 DEF Larger
<1>4. money \in Nat /\ (money > 0 => money = available - reserved)
  BY DEF Larger
<1>5. Size(i, selected, exposure, reserved, available, less) = IF least * lot < MinOrderNotional THEN 0 ELSE least
  BY DEF Size
<1> HIDE DEF lot, percent, room, money
<1>6. 100 * lot \in Nat \ {0} /\ selected * 100 * lot \in Nat \ {0} /\ 10000 * lot \in Nat \ {0}
  <2>1. selected * 100 * lot = 100 * (selected * lot) /\ selected * lot \in Nat /\ selected * lot # 0
    BY <1>1, SMT
  <2> QED
    BY <1>1, <2>1
<1>7. Limit[i] * percent \in Nat /\ room * percent \in Nat /\ money * CashUsageBuffer * percent \in Nat
  <2>1. percent \in Nat /\ CashUsageBuffer \in Nat
    BY <1>2
  <2>2. Limit[i] * percent \in Nat /\ room * percent \in Nat /\ money * CashUsageBuffer \in Nat
    BY <1>1, <1>3, <1>4, <2>1
  <2> QED
    BY <2>1, <2>2
<1>8. ofLimit \in Nat /\ ofLimit * (100 * lot) <= Limit[i] * percent
  BY <1>6, <1>7, Quotient
<1>9. ofRoom \in Nat /\ ofRoom * (selected * 100 * lot) <= room * percent
  BY <1>6, <1>7, Quotient
<1>10. ofMoney \in Nat /\ ofMoney * (10000 * lot) <= money * CashUsageBuffer * percent
  BY <1>6, <1>7, Quotient
<1> HIDE DEF ofLimit, ofRoom, ofMoney
<1>11. least \in Nat /\ least <= ofLimit /\ least <= ofRoom /\ least <= ofMoney
  <2>1. ofLimit \in Int /\ ofRoom \in Int /\ ofMoney \in Int
    BY <1>8, <1>9, <1>10
  <2>2. least \in {ofLimit, ofRoom, ofMoney} /\ least <= ofLimit /\ least <= ofRoom /\ least <= ofMoney
    BY <2>1, LeastOf, Zenon
  <2> QED
    BY <1>8, <1>9, <1>10, <2>2
<1> HIDE DEF least
<1>12. least * (100 * lot) <= Limit[i] * percent
  BY <1>6, <1>7, <1>8, <1>11, ProductGrows
<1>13. least * lot <= room /\ (least * lot) * selected <= room
  <2>1. least * (selected * 100 * lot) <= room * percent
    BY <1>6, <1>7, <1>9, <1>11, ProductGrows
  <2> QED
    BY <1>1, <1>2, <1>3, <1>11, <2>1, Allowance
<1>14. least * lot <= money
  <2>1. least * (10000 * lot) <= money * CashUsageBuffer * percent
    BY <1>6, <1>7, <1>10, <1>11, ProductGrows
  <2>2. money * CashUsageBuffer \in Nat
    BY <1>2, <1>4
  <2>3. 10000 * lot = 1 * 100 * (100 * lot) /\ 100 * lot = 1 * 100 * lot /\ 100 * lot \in Nat
    BY <1>1
  <2>4. percent \in 0..100 /\ CashUsageBuffer \in 0..100 /\ 1 \in Nat \ {0} /\ lot \in Nat
    BY <1>1, <1>2
  <2>5. least * (100 * lot) <= money * CashUsageBuffer
    BY <1>11, <2>1, <2>2, <2>3, <2>4, Allowance
  <2> QED
    BY <1>4, <1>11, <2>3, <2>4, <2>5, Allowance
<1>15. 100 * least * lot = least * (100 * lot) /\ least * lot \in Nat
  BY <1>1, <1>11, SMT
<1>16. least > 0 => least * lot > 0
  BY <1>1, <1>11, SMT
<1>17. percent * Limit[i] = Limit[i] * percent /\ percent * Limit[i] \in Nat /\ 100 * 0 * lot = 0
  BY <1>1, <1>2
<1> DEFINE lots == Size(i, selected, exposure, reserved, available, less)
<1>18. lots = least \/ lots = 0
  BY <1>5
<1> HIDE DEF lots
<1>19. lots \in Nat /\ 100 * lots * lot <= percent * Limit[i]
  BY <1>11, <1>12, <1>15, <1>17, <1>18
<1>20. lots > 0 => lots * lot <= MaxTotalExposure - exposure /\ lots * lot <= available - reserved
  <2> SUFFICES ASSUME lots > 0 PROVE lots * lot <= MaxTotalExposure - exposure /\ lots * lot <= available - reserved
    OBVIOUS
  <2>1. lots = least
    BY <1>18
  <2>2. room > 0 /\ money > 0
    BY <1>3, <1>4, <1>13, <1>14, <1>15, <1>16, <2>1
  <2> QED
    BY <1>3, <1>4, <1>13, <1>14, <2>1, <2>2
<1>21. (0 * lot) * selected = 0
  BY <1>1
<1>22. (lots * lot) * selected <= room
  BY <1>3, <1>13, <1>18, <1>21
<1> QED
  BY <1>19, <1>20, <1>22 DEF lots, lot, percent, room

(* What holds at first and from one instrument to the next holds of all. *)
LEMMA CountingUp ==
    ASSUME NEW P, 0 \in P, \A n \in Instruments : n - 1 \in P => n \in P
    PROVE  \A n \in 0..N : n \in P
<1> DEFINE Q == {T \in SUBSET (0..N) : \A n \in 0..N : T = 0..n => n \in P}
<1>1. ASSUME NEW T \in SUBSET (0..N), \A U \in SUBSET T : U # T => U \in Q
      PROVE  T \in Q
  <2> SUFFICES ASSUME NEW n \in 0..N, T = 0..n, n # 0 PROVE n \in P
    OBVIOUS
  <2>1. n - 1 \in 0..N /\ 0..(n - 1) \in SUBSET T /\ 0..(n - 1) # T /\ n \in T /\ n \in Instruments
    BY BudgetAssumption DEF Instruments
  <2> QED
    BY <1>1, <2>1
<1> HIDE DEF Q
<1>2. \A T \in SUBSET (0..N) : T \in Q
  BY <1>1, Finite, SubsetInduction
<1>3. \A n \in 0..N : 0..n \in SUBSET (0..N)
  BY BudgetAssumption
<1> QED
  BY <1>2, <1>3 DEF Q

(* Of some instruments one comes last. *)
LEMMA LastOf ==
    ASSUME NEW U \in SUBSET Instruments, U # {}
    PROVE  \E i \in U : \A j \in U : j <= i
<1> DEFINE P == {T \in SUBSET Instruments : T # {} => \E i \in T : \A j \in T : j <= i}
<1>1. ASSUME NEW T \in SUBSET Instruments, \A V \in SUBSET T : V # T => V \in P
      PROVE  T \in P
  <2> SUFFICES ASSUME T # {} PROVE \E i \in T : \A j \in T : j <= i
    OBVIOUS
  <2>1. PICK x \in T : TRUE
    OBVIOUS
  <2> DEFINE V == T \ {x}
  <2>2. V \in P
    BY <1>1, <2>1
  <2>3. x \in Int /\ \A j \in T : j \in Int
    BY <2>1 DEF Instruments
  <2>4. CASE V = {}
    BY <2>1, <2>3, <2>4
  <2>5. CASE V # {}
    <3>1. PICK i \in V : \A j \in V : j <= i
      BY <2>2, <2>5
    <3> QED
      BY <2>1, <2>3, <3>1
  <2> QED
    BY <2>4, <2>5
<1> HIDE DEF P
<1>2. U \in P
  BY <1>1, Finite, SubsetInduction
<1> QED
  BY <1>2 DEF P

(* The slots of a batch, and the signals that get one. *)
BatchSlots(enter) == Min({Larger(MaxOpenPositions - OpenPositions, 0), Cardinality(enter)})

Rank(enter, i) == Cardinality({j \in enter : j <= i})

Chosen(enter) == {i \in enter : Rank(enter, i) <= BatchSlots(enter)}

(* What applyBatchSignalLimits has reserved after each instrument: every    *)
(* chosen one is sized with what those before it reserved.                 *)
Reserving(reserved, enter, less) ==
    /\ reserved \in [0..N -> Int] /\ reserved[0] = 0
    /\ \A i \in Instruments :
         LET lots == applyBatchSignalLimits(enter, less)[i]
         IN  /\ lots = IF i \in Chosen(enter)
                       THEN Size(i, BatchSlots(enter), positionsExposure, reserved[i - 1], cash, less)
                       ELSE 0
             /\ reserved[i] = reserved[i - 1] + lots * LotNotional[i]

(* There are as many slots as the free ones allow, and no signal is chosen  *)
(* without one.                                                            *)
LEMMA SlotsOfBatch ==
    ASSUME NEW enter \in SUBSET Instruments, OpenPositions \in Int
    PROVE  /\ BatchSlots(enter) \in Nat /\ BatchSlots(enter) <= Larger(MaxOpenPositions - OpenPositions, 0)
           /\ Cardinality(Chosen(enter)) \in Nat /\ Cardinality(Chosen(enter)) <= BatchSlots(enter)
           /\ \A i \in Chosen(enter) : BatchSlots(enter) \in Nat \ {0}
<1> DEFINE free == Larger(MaxOpenPositions - OpenPositions, 0)
<1>1. IsFiniteSet(enter) /\ Cardinality(enter) \in Nat
  BY Finite, FS_Subset, FS_CardinalityType
<1>2. free \in Nat
  BY BudgetAssumption DEF Larger
<1> HIDE DEF free
<1>3. BatchSlots(enter) \in Nat /\ BatchSlots(enter) <= free
  <2>1. free \in Int /\ Cardinality(enter) \in Int
    BY <1>1, <1>2
  <2>2. /\ Min({free, Cardinality(enter)}) \in {free, Cardinality(enter)}
        /\ Min({free, Cardinality(enter)}) <= free
    BY <2>1, LesserOf, Zenon
  <2> QED
    BY <1>1, <1>2, <2>2 DEF BatchSlots, free
<1>4. ASSUME NEW i \in enter
      PROVE  /\ Rank(enter, i) \in Nat \ {0}
             /\ \A T \in SUBSET {j \in enter : j <= i} : Cardinality(T) <= Rank(enter, i)
  <2> DEFINE U == {j \in enter : j <= i}
  <2>1. i \in U /\ U \subseteq enter
    BY DEF Instruments
  <2> HIDE DEF U
  <2>2. IsFiniteSet(U) /\ Cardinality(U) \in Nat /\ Cardinality(U) # 0
    BY <1>1, <2>1, FS_Subset, FS_CardinalityType, FS_EmptySet
  <2>3. \A T \in SUBSET U : Cardinality(T) <= Cardinality(U)
    BY <2>2, FS_Subset
  <2> QED
    BY <2>2, <2>3 DEF U, Rank
<1>5. Chosen(enter) \subseteq enter /\ \A i \in Chosen(enter) : Rank(enter, i) <= BatchSlots(enter)
  BY DEF Chosen
<1>6. ASSUME NEW i \in Chosen(enter) PROVE BatchSlots(enter) \in Nat \ {0}
  <2>1. Rank(enter, i) \in Nat \ {0} /\ Rank(enter, i) <= BatchSlots(enter)
    BY <1>4, <1>5
  <2> QED
    BY <1>3, <2>1
<1>7. IsFiniteSet(Chosen(enter)) /\ Cardinality(Chosen(enter)) \in Nat
  BY <1>1, <1>5, FS_Subset, FS_CardinalityType
<1>8. Cardinality(Chosen(enter)) <= BatchSlots(enter)
  <2>1. CASE Chosen(enter) = {}
    BY <1>3, <2>1, FS_EmptySet
  <2>2. CASE Chosen(enter) # {}
    <3>1. PICK i \in Chosen(enter) : \A j \in Chosen(enter) : j <= i
      BY <1>5, <1>7, <2>2, LastOf DEF Instruments
    <3>2. Chosen(enter) \in SUBSET {j \in enter : j <= i} /\ i \in enter
      BY <1>5, <3>1
    <3>3. Cardinality(Chosen(enter)) <= Rank(enter, i) /\ Rank(enter, i) \in Nat
      BY <1>4, <3>2
    <3>4. Rank(enter, i) <= BatchSlots(enter)
      BY <1>5, <3>1
    <3> QED
      BY <1>3, <1>7, <3>3, <3>4
  <2> QED
    BY <2>1, <2>2
<1> QED
  BY <1>3, <1>6, <1>7, <1>8 DEF free

(* applyBatchSignalLimits reserves in the order of the ranks. *)
LEMMA BatchReserves ==
    ASSUME NEW enter \in SUBSET Instruments, NEW less \in BOOLEAN,
           positionsExposure \in Int, cash \in Int, OpenPositions \in Int
    PROVE  \E reserved : Reserving(reserved, enter, less)
<1> DEFINE slots == BatchSlots(enter)
           chosen == Chosen(enter)
           size(i, before) == Size(i, slots, positionsExposure, before, cash, less)
           body(i, before) == IF i \notin chosen THEN before ELSE before + LotNotional[i] * size(i, before)
           Def(g) == [i \in 0..N |-> IF i = 0 THEN 0
                                     ELSE IF i \notin chosen THEN g[i - 1]
                                     ELSE g[i - 1] + LotNotional[i] * Size(i, slots, positionsExposure, g[i - 1], cash, less)]
           Upto(g, n) == g = [i \in 0..n |-> IF i = 0 THEN 0 ELSE body(i, g[i - 1])]
           reserved == CHOOSE g : g = Def(g)
           new == applyBatchSignalLimits(enter, less)
           lots(i, before) == IF i \in chosen THEN size(i, before) ELSE 0
<1>1. new = [i \in Instruments |-> (reserved[i] - reserved[i - 1]) \div LotNotional[i]]
  BY DEF applyBatchSignalLimits, BatchSlots, Chosen, Rank
<1> HIDE DEF slots, chosen
<1>2. Def(reserved) = reserved
  <2> DEFINE P == {n \in 0..N : \E g : Upto(g, n)}
  <2> HIDE DEF body
  <2>1. 0 \in P
    <3> DEFINE g == [i \in 0..0 |-> 0]
    <3>1. Upto(g, 0) /\ 0 \in 0..N
      BY BudgetAssumption
    <3> QED
      BY <3>1
  <2>2. ASSUME NEW n \in Instruments, n - 1 \in P
        PROVE  n \in P
    <3>1. n \in 0..N /\ n # 0
      BY BudgetAssumption DEF Instruments
    <3>2. PICK f : Upto(f, n - 1)
      BY <2>2
    <3> DEFINE g == [i \in 0..n |-> IF i = n THEN body(n, f[n - 1]) ELSE f[i]]
    <3>3. \A i \in 0..n : i # 0 => i - 1 \in 0..n /\ i - 1 # n /\ (i # n => i \in 0..(n - 1) /\ i - 1 \in 0..(n - 1))
      BY <3>1
    <3>4. \A i \in 0..(n - 1) : f[i] = IF i = 0 THEN 0 ELSE body(i, f[i - 1])
      BY <3>2
    <3>5. g[0] = 0
      <4>1. 0 \in 0..(n - 1) /\ 0 \in 0..n
        BY <3>1
      <4> QED
        BY <3>1, <3>4, <4>1
    <3>6. \A i \in 0..n : i # 0 => g[i] = body(i, g[i - 1])
      BY <3>3, <3>4
    <3>7. Upto(g, n)
      <4>1. \A i \in 0..n : g[i] = IF i = 0 THEN 0 ELSE body(i, g[i - 1])
        BY <3>5, <3>6
      <4> HIDE DEF g
      <4>2. g = [i \in 0..n |-> g[i]]
        BY DEF g
      <4> QED
        BY <4>1, <4>2
    <3> QED
      BY <3>1, <3>7
  <2>3. N \in P
    <3> HIDE DEF P
    <3>1. N \in 0..N
      BY BudgetAssumption
    <3> QED
      BY <2>1, <2>2, <3>1, CountingUp
  <2>4. PICK g : Upto(g, N)
    BY <2>3
  <2>5. \A f : Upto(f, N) <=> f = Def(f)
    BY DEF body
  <2> HIDE DEF Upto, Def
  <2>6. g = Def(g)
    BY <2>4, <2>5
  <2> QED
    BY <2>6
<1> HIDE DEF reserved
<1>3. /\ reserved[0] = 0
      /\ \A i \in Instruments : reserved[i] = body(i, reserved[i - 1])
  <2>1. 0 \in 0..N /\ \A i \in Instruments : i \in 0..N /\ i # 0
    BY BudgetAssumption DEF Instruments
  <2>2. \A i \in 0..N : reserved[i] = IF i = 0 THEN 0 ELSE body(i, reserved[i - 1])
    BY <1>2
  <2> HIDE DEF body
  <2> QED
    BY <2>1, <2>2
<1>4. ASSUME NEW i \in Instruments, NEW before \in Int
      PROVE  /\ body(i, before) \in Int
             /\ body(i, before) = before + lots(i, before) * LotNotional[i]
             /\ (body(i, before) - before) \div LotNotional[i] = lots(i, before)
  <2>1. LotNotional[i] \in Nat \ {0}
    BY Lot
  <2>2. i \in chosen => size(i, before) \in Nat
    <3>1. i \in chosen => slots \in Nat \ {0}
      BY SlotsOfBatch DEF slots, chosen
    <3> QED
      BY <3>1, SizeBounds
  <2> HIDE DEF size
  <2>3. lots(i, before) \in Nat
    BY <2>2
  <2>4. body(i, before) = before + LotNotional[i] * lots(i, before)
    BY <2>1
  <2> HIDE DEF lots, body
  <2>5. LotNotional[i] * lots(i, before) \in Int /\ LotNotional[i] * lots(i, before) = lots(i, before) * LotNotional[i]
    BY <2>1, <2>3
  <2>6. (LotNotional[i] * lots(i, before)) \div LotNotional[i] = lots(i, before)
    BY <2>1, <2>3, QuotientOfProduct
  <2>7. body(i, before) - before = LotNotional[i] * lots(i, before)
    BY <2>4, <2>5
  <2> QED
    BY <2>4, <2>5, <2>6, <2>7
<1> HIDE DEF body, lots
<1>5. \A n \in 0..N : reserved[n] \in Int
  <2> DEFINE P == {n \in 0..N : reserved[n] \in Int}
  <2>1. 0 \in P /\ Instruments \subseteq 0..N
    BY <1>3, BudgetAssumption DEF Instruments
  <2>2. \A n \in Instruments : n - 1 \in P => n \in P
    BY <1>3, <1>4, <2>1
  <2> HIDE DEF P
  <2>3. \A n \in 0..N : n \in P
    BY <2>1, <2>2, CountingUp
  <2> QED
    BY <2>3 DEF P
<1> HIDE DEF new
<1>6. \A i \in Instruments : i - 1 \in 0..N
  BY BudgetAssumption DEF Instruments
<1>7. \A i \in Instruments : /\ new[i] = lots(i, reserved[i - 1])
                             /\ reserved[i] = reserved[i - 1] + lots(i, reserved[i - 1]) * LotNotional[i]
  <2> SUFFICES ASSUME NEW i \in Instruments
               PROVE  /\ new[i] = lots(i, reserved[i - 1])
                      /\ reserved[i] = reserved[i - 1] + lots(i, reserved[i - 1]) * LotNotional[i]
    OBVIOUS
  <2>1. reserved[i - 1] \in Int
    BY <1>5, <1>6
  <2>2. new[i] = (body(i, reserved[i - 1]) - reserved[i - 1]) \div LotNotional[i]
    BY <1>1, <1>3
  <2> QED
    BY <1>3, <1>4, <2>1, <2>2
<1>8. reserved \in [0..N -> Int]
  <2>1. Def(reserved) = [n \in 0..N |-> Def(reserved)[n]]
    OBVIOUS
  <2> HIDE DEF Def, reserved
  <2> QED
    BY <1>2, <1>5, <2>1
<1>9. \A i \in Instruments :
         /\ new[i] = IF i \in Chosen(enter)
                     THEN Size(i, BatchSlots(enter), positionsExposure, reserved[i - 1], cash, less) ELSE 0
         /\ reserved[i] = reserved[i - 1] + new[i] * LotNotional[i]
  BY <1>7 DEF lots, size, slots, chosen
<1>10. reserved[0] = 0
  BY <1>3
<1> HIDE DEF reserved
<1>11. Reserving(reserved, enter, less)
  BY <1>8, <1>9, <1>10 DEF Reserving, new
<1> QED
  BY <1>11

(* applyBatchSignalLimits: no signal exceeds the limits of its instrument,  *)
(* reduced when the rule asks for it.                                      *)
LEMMA SignalsLimited ==
    ASSUME NEW enter \in SUBSET Instruments, NEW less \in BOOLEAN,
           positionsExposure \in Int, cash \in Int, OpenPositions \in Int
    PROVE  LET new == applyBatchSignalLimits(enter, less)
           IN  /\ new \in [Instruments -> Nat]
               /\ \A i \in Instruments : 100 * new[i] * LotNotional[i] <= effectiveSizeFactor(less) * Limit[i]
<1> DEFINE new == applyBatchSignalLimits(enter, less)
<1>1. PICK reserved : Reserving(reserved, enter, less)
  BY BatchReserves
<1>2. new = [i \in Instruments |-> new[i]]
  BY DEF applyBatchSignalLimits
<1>3. ASSUME NEW i \in Instruments
      PROVE  new[i] \in Nat /\ 100 * new[i] * LotNotional[i] <= effectiveSizeFactor(less) * Limit[i]
  <2>1. i - 1 \in 0..N
    BY BudgetAssumption DEF Instruments
  <2>2. LotNotional[i] \in Nat \ {0} /\ Limit[i] \in Nat /\ effectiveSizeFactor(less) \in Nat /\ reserved[i - 1] \in Int
    <3>1. effectiveSizeFactor(less) \in Nat
      BY BudgetAssumption DEF effectiveSizeFactor
    <3>2. reserved[i - 1] \in Int
      BY <1>1, <2>1 DEF Reserving
    <3> QED
      BY <3>1, <3>2, Lot
  <2>3. new[i] = IF i \in Chosen(enter)
                 THEN Size(i, BatchSlots(enter), positionsExposure, reserved[i - 1], cash, less) ELSE 0
    BY <1>1 DEF Reserving
  <2> HIDE DEF new
  <2>4. CASE i \in Chosen(enter)
    BY <2>2, <2>3, <2>4, SizeBounds, SlotsOfBatch
  <2>5. CASE i \notin Chosen(enter)
    <3>1. 100 * 0 * LotNotional[i] = 0 /\ effectiveSizeFactor(less) * Limit[i] \in Nat
      BY <2>2
    <3> QED
      BY <2>3, <2>5, <3>1
  <2> QED
    BY <2>4, <2>5
<1> HIDE DEF new
<1>4. new \in [Instruments -> Nat]
  BY <1>2, <1>3
<1> QED
  BY <1>3, <1>4 DEF new

-----------------------------------------------------------------------------
(* Worths. *)

Worths(lots) == [i \in Instruments |-> lots[i] * LotNotional[i]]

(* Worth is the total of the worths. *)
LEMMA WorthIs ==
    ASSUME NEW lots
    PROVE  Worth(lots) = Total(Worths(lots))
<1> DEFINE h == Worths(lots)
           Def(g) == [s \in SUBSET Instruments |->
                        IF s = {} THEN 0
                        ELSE lots[CHOOSE x \in s : TRUE] * LotNotional[CHOOSE x \in s : TRUE]
                                 + g[s \ {CHOOSE x \in s : TRUE}]]
           iter == CHOOSE g : g = Def(g)
<1>1. Worth(lots) = iter[Instruments]
  BY DEF Worth, MapThenSumSet, MapThenFoldSet
<1>2. DOMAIN h = Instruments
  BY DEF Worths
<1>3. \A s \in SUBSET Instruments : s # {} =>
          lots[CHOOSE x \in s : TRUE] * LotNotional[CHOOSE x \in s : TRUE] = h[Some(s)]
  BY SomeElement DEF Some, Worths
<1> HIDE DEF h
<1>4. ASSUME NEW g PROVE Sums(g, h, Instruments) <=> g = Def(g)
  <2>1. Def(g) = [s \in SUBSET Instruments |-> IF s = {} THEN 0 ELSE h[Some(s)] + g[s \ {Some(s)}]]
    BY <1>3 DEF Some
  <2> QED
    BY <2>1 DEF Sums
<1>5. PICK g : Sums(g, h, Instruments)
  BY Finite, SumsExist
<1> HIDE DEF Def
<1>6. iter = Def(iter)
  BY <1>4, <1>5
<1>7. Sums(iter, h, Instruments)
  BY <1>4, <1>6
<1>8. Total(h) = iter[Instruments]
  BY <1>2, <1>7, Finite, TotalIs
<1> QED
  BY <1>1, <1>8 DEF h

(* The worth of lots, instrument by instrument ... *)
LEMMA WorthsType ==
    ASSUME NEW f \in [Instruments -> Int]
    PROVE  Worths(f) \in [Instruments -> Int] /\ \A i \in Instruments : Worths(f)[i] = f[i] * LotNotional[i]
<1>1. \A i \in Instruments : f[i] * LotNotional[i] \in Int
  BY Lot
<1> QED
  BY <1>1 DEF Worths

(* ... and in sum. *)
LEMMA WorthType ==
    ASSUME NEW f \in [Instruments -> Int]
    PROVE  Worth(f) \in Int
BY WorthIs, WorthsType, Finite, TotalType

(* More lots are worth more. *)
LEMMA WorthGrows ==
    ASSUME NEW f \in [Instruments -> Int], NEW g \in [Instruments -> Int], \A i \in Instruments : f[i] <= g[i]
    PROVE  Worth(f) <= Worth(g)
<1>1. \A i \in Instruments : Worths(f)[i] <= Worths(g)[i]
  BY ProductGrows, WorthsType, Lot
<1>2. Worths(f) \in [Instruments -> Int] /\ Worths(g) \in [Instruments -> Int]
  BY WorthsType
<1>3. Total(Worths(f)) <= Total(Worths(g))
  BY <1>1, <1>2, Finite, TotalLeq
<1> QED
  BY <1>3, WorthIs

(* No lots are worth nothing. *)
LEMMA WorthNone == Worth([i \in Instruments |-> 0]) = 0
<1> DEFINE zero == [i \in Instruments |-> 0]
<1>1. Worths(zero) = zero
  <2>1. \A i \in Instruments : 0 * LotNotional[i] = 0
    BY Lot
  <2> QED
    BY <2>1 DEF Worths
<1> QED
  BY <1>1, WorthIs, Finite, TotalZero

(* Lots that are not negative have a worth that is not. *)
LEMMA WorthPositive ==
    ASSUME NEW f \in [Instruments -> Nat]
    PROVE  Worth(f) \in Nat
<1> DEFINE zero == [i \in Instruments |-> 0]
<1>1. zero \in [Instruments -> Int] /\ f \in [Instruments -> Int] /\ \A i \in Instruments : zero[i] <= f[i]
  OBVIOUS
<1>2. Worth(zero) = 0
  BY WorthNone
<1> HIDE DEF zero
<1>3. 0 <= Worth(f) /\ Worth(f) \in Int
  BY <1>1, <1>2, WorthGrows, WorthType
<1> QED
  BY <1>3

(* Some lots more of an instrument. *)
LEMMA WorthOfMore ==
    ASSUME NEW f \in [Instruments -> Int], NEW g \in [Instruments -> Int], NEW a \in Instruments, NEW lots \in Int,
           g[a] = f[a] + lots, \A i \in Instruments : i # a => g[i] = f[i]
    PROVE  /\ Worth(g) = Worth(f) + lots * LotNotional[a]
           /\ lots * LotNotional[a] \in Int
<1>1. Worths(f) \in [Instruments -> Int] /\ Worths(g) \in [Instruments -> Int]
  BY WorthsType
<1>2. \A i \in Instruments : i # a => Worths(g)[i] = Worths(f)[i]
  BY WorthsType
<1>3. Total(Worths(g)) = Total(Worths(f)) + Worths(g)[a] - Worths(f)[a]
  <2>1. IsFiniteSet(Instruments)
    BY Finite
  <2>2. \A i \in Instruments : i # a => Worths(g)[i] = Worths(f)[i]
    BY <1>2
  <2> DEFINE p == Worths(f)
             q == Worths(g)
  <2>3. p \in [Instruments -> Int] /\ q \in [Instruments -> Int] /\ \A i \in Instruments : i # a => q[i] = p[i]
    BY <1>1, <2>2
  <2> HIDE DEF p, q
  <2>4. Total(q) = Total(p) + q[a] - p[a]
    BY <2>1, <2>3, TotalUpdate
  <2> QED
    BY <2>4 DEF p, q
<1>4. LotNotional[a] \in Int /\ f[a] \in Int
  BY Lot
<1>5. (f[a] + lots) * LotNotional[a] = f[a] * LotNotional[a] + lots * LotNotional[a]
  BY <1>4, SMT
<1>6. f[a] * LotNotional[a] \in Int /\ lots * LotNotional[a] \in Int
  BY <1>4
<1>7. Worths(g)[a] = f[a] * LotNotional[a] + lots * LotNotional[a] /\ Worths(f)[a] = f[a] * LotNotional[a]
  BY <1>5, WorthsType
<1>8. Worth(f) \in Int
  BY WorthType
<1> QED
  BY <1>3, <1>6, <1>7, <1>8, WorthIs

(* applyBatchSignalLimits: the signals of a batch fit together into what    *)
(* the cap leaves beside the positions, into the cash and into the free     *)
(* slots, though each is sized by itself: reservedCash carries the cash,    *)
(* the share of selectedCount the exposure.                                 *)
LEMMA BatchFits ==
    ASSUME NEW enter \in SUBSET Instruments, NEW less \in BOOLEAN,
           positionsExposure \in Int, cash \in Int, OpenPositions \in Int
    PROVE  LET new == applyBatchSignalLimits(enter, less)
           IN  /\ Worth(new) <= Larger(MaxTotalExposure - positionsExposure, 0)
               /\ Worth(new) <= Larger(cash, 0)
               /\ Cardinality({i \in Instruments : new[i] > 0}) <= Larger(MaxOpenPositions - OpenPositions, 0)
<1> DEFINE new == applyBatchSignalLimits(enter, less)
           room == Larger(MaxTotalExposure - positionsExposure, 0)
           money == Larger(cash, 0)
           slots == BatchSlots(enter)
           upto(n) == {i \in Chosen(enter) : i <= n}
           first(n) == [i \in Instruments |-> IF i <= n THEN new[i] ELSE 0]
<1>1. PICK reserved : Reserving(reserved, enter, less)
  BY BatchReserves
<1>2. new \in [Instruments -> Nat]
  BY SignalsLimited
<1>3. room \in Nat /\ money \in Nat /\ cash <= money
  BY BudgetAssumption DEF Larger
<1>4. /\ slots \in Nat /\ slots <= Larger(MaxOpenPositions - OpenPositions, 0)
      /\ Cardinality(Chosen(enter)) \in Nat /\ Cardinality(Chosen(enter)) <= slots
      /\ \A i \in Chosen(enter) : slots \in Nat \ {0}
  BY SlotsOfBatch
<1>5. Chosen(enter) \subseteq Instruments /\ Instruments \subseteq 0..N /\ \A i \in Instruments : i - 1 \in 0..N
  <2>1. Chosen(enter) \subseteq Instruments
    BY DEF Chosen
  <2>2. Instruments \subseteq 0..N /\ \A i \in Instruments : i - 1 \in 0..N
    BY BudgetAssumption DEF Instruments
  <2> QED
    BY <2>1, <2>2
<1>6. IsFiniteSet(Chosen(enter)) /\ \A n \in Int : IsFiniteSet(upto(n)) /\ Cardinality(upto(n)) \in Nat
  <2>1. \A n : upto(n) \in SUBSET Chosen(enter)
    OBVIOUS
  <2> HIDE DEF upto
  <2> QED
    BY <1>5, <2>1, Finite, FS_Subset, FS_CardinalityType
<1>7. /\ reserved \in [0..N -> Int] /\ reserved[0] = 0
      /\ \A i \in Instruments :
           /\ new[i] = IF i \in Chosen(enter)
                       THEN Size(i, slots, positionsExposure, reserved[i - 1], cash, less) ELSE 0
           /\ reserved[i] = reserved[i - 1] + new[i] * LotNotional[i]
  BY <1>1 DEF Reserving
<1> HIDE DEF new
<1>8. ASSUME NEW n \in Instruments
      PROVE  /\ new[n] * LotNotional[n] \in Nat /\ (n \notin Chosen(enter) => new[n] = 0 /\ new[n] * LotNotional[n] = 0)
             /\ (new[n] * LotNotional[n]) * slots <= room
             /\ new[n] * LotNotional[n] > 0 => new[n] * LotNotional[n] <= cash - reserved[n - 1]
  <2>1. LotNotional[n] \in Nat \ {0} /\ reserved[n - 1] \in Int /\ new[n] \in Nat
    BY <1>2, <1>5, <1>7, Lot
  <2>2. CASE n \in Chosen(enter)
    <3>1. new[n] = Size(n, slots, positionsExposure, reserved[n - 1], cash, less) /\ slots \in Nat \ {0}
      BY <1>4, <1>7, <2>2
    <3>2. /\ new[n] > 0 => new[n] * LotNotional[n] <= cash - reserved[n - 1]
          /\ (new[n] * LotNotional[n]) * slots <= room
      BY <2>1, <3>1, SizeBounds
    <3>3. new[n] * LotNotional[n] > 0 => new[n] > 0
      BY <2>1
    <3> QED
      BY <2>1, <2>2, <3>2, <3>3
  <2>3. CASE n \notin Chosen(enter)
    <3>1. new[n] = 0
      BY <1>7, <2>3
    <3>2. 0 * LotNotional[n] = 0 /\ 0 * slots = 0
      BY <1>4, <2>1
    <3> QED
      BY <1>3, <3>1, <3>2
  <2> QED
    BY <2>2, <2>3
<1>9. ASSUME NEW n \in Int PROVE first(n) \in [Instruments -> Int]
  BY <1>2
<1> DEFINE P == {n \in 0..N : /\ Worth(first(n)) = reserved[n]
                              /\ reserved[n] <= money
                              /\ reserved[n] * slots <= Cardinality(upto(n)) * room
                              /\ Chosen(enter) = {} => reserved[n] = 0}
<1>10. 0 \in P
  <2>1. first(0) = [i \in Instruments |-> 0]
    BY DEF Instruments
  <2>2. Worth(first(0)) = 0
    BY <2>1, WorthNone
  <2>3. upto(0) = {}
    BY <1>5 DEF Instruments
  <2>4. Cardinality(upto(0)) = 0
    BY <2>3, FS_EmptySet
  <2>5. 0 \in 0..N /\ 0 * slots = 0 /\ 0 * room = 0
    BY <1>3, <1>4, BudgetAssumption
  <2> QED
    BY <1>3, <1>7, <2>2, <2>4, <2>5
<1>11. ASSUME NEW n \in Instruments, n - 1 \in P
       PROVE  n \in P
  <2> DEFINE x == new[n] * LotNotional[n]
             r == reserved[n - 1]
             c == Cardinality(upto(n - 1))
             d == Cardinality(upto(n))
  <2>1. /\ n \in 0..N /\ n \in Int /\ n - 1 \in Int /\ r \in Int /\ new[n] \in Int
        /\ c \in Nat /\ d \in Nat
    <3>1. n \in 0..N /\ n \in Int /\ n - 1 \in Int /\ n - 1 \in 0..N
      BY <1>5
    <3>2. r \in Int
      BY <1>7, <3>1
    <3>3. c \in Nat /\ d \in Nat
      BY <1>6, <3>1
    <3> QED
      BY <1>2, <3>1, <3>2, <3>3
  <2>2. /\ Worth(first(n - 1)) = r /\ r <= money /\ r * slots <= c * room
        /\ Chosen(enter) = {} => r = 0
    BY <1>11
  <2>3. x \in Nat /\ x * slots <= room /\ (n \notin Chosen(enter) => x = 0) /\ (x > 0 => x <= cash - r)
    BY <1>8
  <2>4. reserved[n] = r + x
    BY <1>7
  <2>5. Worth(first(n)) = r + x
    <3>1. /\ first(n)[n] = first(n - 1)[n] + new[n]
          /\ \A i \in Instruments : i # n => first(n)[i] = first(n - 1)[i]
      BY <1>2 DEF Instruments
    <3>2. first(n) \in [Instruments -> Int] /\ first(n - 1) \in [Instruments -> Int]
      BY <1>9, <2>1
    <3> HIDE DEF first
    <3> QED
      BY <2>1, <2>2, <3>1, <3>2, WorthOfMore
  <2>6. r + x <= money
    <3> HIDE DEF x, r, money
    <3> QED
      BY <1>3, <2>1, <2>2, <2>3
  <2>7. (r + x) * slots = r * slots + x * slots /\ r * slots \in Int /\ x * slots \in Int
    BY <1>4, <2>1, <2>3
  <2>8. d = IF n \in Chosen(enter) THEN c + 1 ELSE c
    <3>1. upto(n) = IF n \in Chosen(enter) THEN upto(n - 1) \cup {n} ELSE upto(n - 1)
      BY <1>5 DEF Instruments
    <3>2. n \notin upto(n - 1)
      BY <2>1
    <3>3. IsFiniteSet(upto(n - 1))
      BY <1>6, <2>1
    <3> HIDE DEF upto
    <3> QED
      BY <3>1, <3>2, <3>3, FS_AddElement
  <2>9. (c + 1) * room = c * room + room /\ c * room \in Int
    BY <1>3, <2>1
  <2> HIDE DEF x, r, c, d
  <2>10. (r + x) * slots <= d * room
    <3>1. CASE n \in Chosen(enter)
      BY <1>3, <2>2, <2>3, <2>7, <2>8, <2>9, <3>1
    <3>2. CASE n \notin Chosen(enter)
      BY <2>1, <2>2, <2>3, <2>8, <3>2
    <3> QED
      BY <3>1, <3>2
  <2>11. Chosen(enter) = {} => r + x = 0
    BY <2>2, <2>3
  <2> QED
    BY <2>1, <2>4, <2>5, <2>6, <2>10, <2>11 DEF d
<1>12. N \in P
  <2> HIDE DEF P
  <2>1. N \in 0..N
    BY BudgetAssumption
  <2> QED
    BY <1>10, <1>11, <2>1, CountingUp
<1>13. first(N) = new
  <2>1. \A i \in Instruments : i <= N
    BY BudgetAssumption DEF Instruments
  <2> QED
    BY <1>2, <2>1
<1>14. upto(N) = Chosen(enter)
  BY <1>5, BudgetAssumption DEF Instruments
<1>15. /\ Worth(new) = reserved[N] /\ Worth(new) <= money /\ reserved[N] \in Int
       /\ reserved[N] * slots <= Cardinality(Chosen(enter)) * room
       /\ Chosen(enter) = {} => reserved[N] = 0
  BY <1>7, <1>12, <1>13, <1>14, BudgetAssumption
<1> HIDE DEF P, first, upto
<1>16. Worth(new) <= room
  <2>1. CASE Chosen(enter) = {}
    BY <1>3, <1>15, <2>1
  <2>2. CASE Chosen(enter) # {}
    <3>1. slots \in Nat \ {0}
      BY <1>4, <2>2
    <3>2. Cardinality(Chosen(enter)) * room <= slots * room /\ Cardinality(Chosen(enter)) * room \in Int
      BY <1>3, <1>4, ProductGrows
    <3>3. reserved[N] * slots <= room * slots
      <4>1. slots * room = room * slots /\ slots * room \in Int /\ reserved[N] * slots \in Int
        BY <1>3, <1>4, <1>15
      <4> QED
        BY <1>15, <3>2, <4>1
    <3>4. reserved[N] <= room
      BY <1>3, <1>15, <3>1, <3>3, ProductCancels
    <3> QED
      BY <1>15, <3>4
  <2> QED
    BY <2>1, <2>2
<1>17. Cardinality({i \in Instruments : new[i] > 0}) <= Larger(MaxOpenPositions - OpenPositions, 0)
  <2> DEFINE U == {i \in Instruments : new[i] > 0}
             free == Larger(MaxOpenPositions - OpenPositions, 0)
  <2>1. U \subseteq Chosen(enter)
    BY <1>8
  <2>2. free \in Int
    BY BudgetAssumption DEF Larger
  <2> HIDE DEF U, free
  <2>3. Cardinality(U) <= Cardinality(Chosen(enter)) /\ Cardinality(U) \in Nat
    BY <1>6, <2>1, FS_Subset, FS_CardinalityType
  <2>4. Cardinality(U) <= free
    BY <1>4, <2>2, <2>3 DEF free
  <2> QED
    BY <2>4 DEF U, free
<1> QED
  BY <1>15, <1>16, <1>17 DEF new, room, money

(* The worth of lots of two kinds is the sum of their worths. *)
LEMMA WorthAdds ==
    ASSUME NEW f \in [Instruments -> Int], NEW g \in [Instruments -> Int], NEW h \in [Instruments -> Int],
           \A i \in Instruments : h[i] = f[i] + g[i]
    PROVE  Worth(h) = Worth(f) + Worth(g)
<1>1. /\ Worths(f) \in [Instruments -> Int] /\ Worths(g) \in [Instruments -> Int]
      /\ Worths(h) \in [Instruments -> Int]
  BY WorthsType
<1>2. \A i \in Instruments : Worths(h)[i] = Worths(f)[i] + Worths(g)[i]
  <2> SUFFICES ASSUME NEW i \in Instruments PROVE Worths(h)[i] = Worths(f)[i] + Worths(g)[i]
    OBVIOUS
  <2>1. LotNotional[i] \in Int /\ f[i] \in Int /\ g[i] \in Int
    BY Lot
  <2>2. (f[i] + g[i]) * LotNotional[i] = f[i] * LotNotional[i] + g[i] * LotNotional[i]
    BY <2>1, SMT
  <2> QED
    BY <2>2, WorthsType
<1>3. Total(Worths(h)) = Total(Worths(f)) + Total(Worths(g))
  <2>1. IsFiniteSet(Instruments)
    BY Finite
  <2> DEFINE p == Worths(f)
             q == Worths(g)
             r == Worths(h)
  <2>2. /\ p \in [Instruments -> Int] /\ q \in [Instruments -> Int] /\ r \in [Instruments -> Int]
        /\ \A i \in Instruments : r[i] = p[i] + q[i]
    BY <1>1, <1>2
  <2> HIDE DEF p, q, r
  <2>3. Total(r) = Total(p) + Total(q)
    BY <2>1, <2>2, TotalAdd
  <2> QED
    BY <2>3 DEF p, q, r
<1> QED
  BY <1>3, WorthIs

(* ordersExposure: what is left of the orders that work. *)
Left == [i \in Instruments |-> IF Active(i) THEN orders[i].qty - orders[i].filled ELSE 0]

(* The exposure of the orders is the worth of what they leave. *)
LEMMA OrdersTotal ==
    ASSUME \A i \in Instruments : Active(i) => orders[i].qty \in Int /\ orders[i].filled \in Int
    PROVE  Left \in [Instruments -> Int] /\ ordersExposure = Worth(Left)
<1> DEFINE S == {i \in Instruments : Active(i)}
           k == [i \in S |-> orderRemainingNotional(i)]
           h == Worths(Left)
           Def(g) == [s \in SUBSET S |->
                        IF s = {} THEN 0
                        ELSE orderRemainingNotional(CHOOSE x \in s : TRUE) + g[s \ {CHOOSE x \in s : TRUE}]]
           iter == CHOOSE g : g = Def(g)
<1>0. Left \in [Instruments -> Int]
  BY DEF Left
<1>1. ordersExposure = iter[S]
  BY DEF ordersExposure, MapThenSumSet, MapThenFoldSet
<1>2. DOMAIN k = S /\ \A s \in SUBSET S : s # {} => orderRemainingNotional(CHOOSE x \in s : TRUE) = k[Some(s)]
  BY SomeElement DEF Some
<1>3. S \in SUBSET Instruments /\ IsFiniteSet(S)
  BY Finite, FS_Subset
<1>4. h \in [Instruments -> Int] /\ \A i \in Instruments : h[i] = Left[i] * LotNotional[i]
  BY <1>0, WorthsType
<1>5. \A i \in S : k[i] = h[i]
  BY <1>3, <1>4 DEF Left, orderRemainingNotional
<1>6. \A i \in Instruments \ S : h[i] = 0
  <2>1. \A i \in Instruments : 0 * LotNotional[i] = 0
    BY Lot
  <2> QED
    BY <1>4, <2>1 DEF Left
<1>7. k \in [S -> Int]
  BY <1>3, <1>4, <1>5
<1> HIDE DEF k, h, S
<1>8. ASSUME NEW g PROVE Sums(g, k, S) <=> g = Def(g)
  <2>1. Def(g) = [s \in SUBSET S |-> IF s = {} THEN 0 ELSE k[Some(s)] + g[s \ {Some(s)}]]
    BY <1>2 DEF Some
  <2> QED
    BY <2>1 DEF Sums
<1>9. PICK g : Sums(g, k, S)
  BY <1>3, SumsExist
<1> HIDE DEF Def
<1>10. iter = Def(iter)
  BY <1>8, <1>9
<1>11. Sums(iter, k, S)
  BY <1>8, <1>10
<1>12. Total(k) = iter[S]
  BY <1>2, <1>3, <1>11, TotalIs
<1>13. Total(k) = Total(h)
  BY <1>3, <1>4, <1>5, <1>6, <1>7, Finite, TotalExtend
<1> QED
  BY <1>0, <1>1, <1>12, <1>13, WorthIs DEF h

-----------------------------------------------------------------------------
(* The places of a Step that places orders ... *)
Posting == job.pc \in {"post", "SENT", "REJECTED", "FAILED"}
Placing == job.pc \in {"turn", "sized", "placed"} \/ (Posting /\ ~job.repost)

(* ... and of one that monitors them. *)
Monitoring == job.pc \in {"monitor", "cancel", "repost", "book", "reconcile"} \/ (Posting /\ job.repost)

Jobs == [pc: Places, i: Nat, base: Nat, pending: Nat, projected: Nat, candidates: SUBSET Instruments,
         lots: Nat, money: Int, seen: SUBSET Instruments, fill: Nat, repost: BOOLEAN]

Shapes ==
    /\ signals \in [Instruments -> Nat] /\ pos \in [Instruments -> Nat] /\ old \in [Instruments -> Nat]
    /\ orders \in [Instruments -> AnyRow \cup {None}]
    /\ broker \in [Instruments -> [open: Nat, cancelling: BOOLEAN]]
    /\ held \in [Instruments -> Nat] /\ cash \in Int
    /\ poor \in BOOLEAN /\ reduced \in BOOLEAN /\ open \in BOOLEAN /\ halted \in BOOLEAN
    /\ state \in {"INIT", "READY", "PLACE", "MONITOR"}
    /\ job \in Jobs
    /\ faults \in 0..MaxFaults

(* What all attempts of an instrument may buy together. *)
Target(i) == orders[i].before + orders[i].qty

(* The row of an instrument, its order at the broker and what is held. *)
RowFits(i) ==
    /\ orders[i] = None => held[i] = 0 /\ broker[i].open = 0
    /\ orders[i] # None =>
         /\ open
         /\ orders[i].before + orders[i].filled <= held[i]
         /\ held[i] + broker[i].open <= Target(i)
         /\ Target(i) <= signals[i]
RowsFit == \A i \in Instruments : RowFits(i)

(* What a Step has found out stays true while it is at an instrument. *)
JobFits ==
    /\ Placing => state = "PLACE" /\ open
    /\ Monitoring => state = "MONITOR"
    /\ job.pc \notin {"down", "idle", "turn", "monitor", "closing"} => job.i \in Instruments
    /\ job.pc = "turn" => job.i # 0
    /\ job.pc = "sized" => job.i \in job.candidates
    /\ Posting \/ job.pc \in {"placed", "cancel", "repost"} => orders[job.i] # None
    /\ Posting => /\ orders[job.i].status = "SENT" /\ ~orders[job.i].known
                  /\ ~job.repost => orders[job.i].before = 0
    /\ job.pc \in {"post", "REJECTED"} => held[job.i] = orders[job.i].before /\ broker[job.i].open = 0
    /\ Monitoring => \A j \in job.candidates : j # job.i /\ Active(j) /\ orders[j].known
    /\ job.pc \in {"cancel", "repost"} => orders[job.i].attempt < MaxAttempts
    /\ job.pc = "cancel" => Active(job.i) /\ orders[job.i].known
    /\ job.pc = "repost" => broker[job.i].open = 0 /\ job.lots > 0 /\ held[job.i] + job.lots = Target(job.i)
    /\ job.repost => Monitoring /\ job.pc # "monitor"
    /\ job.pc \in {"cancel", "repost"} => job.repost

(* The signals of a day whose sizes are to be reduced. *)
SignalsFit == poor => \A i \in Instruments : 100 * signals[i] * LotNotional[i] <= SizeFactor * Limit[i]

Books == Shapes /\ RowsFit /\ JobFits /\ SignalsFit

-----------------------------------------------------------------------------
(* What a row of an instrument holds. *)
LEMMA RowType ==
    ASSUME Shapes, NEW i \in Instruments, orders[i] # None
    PROVE  /\ orders[i] \in AnyRow
           /\ orders[i].attempt \in 1..MaxAttempts /\ orders[i].status \in Statuses /\ orders[i].known \in BOOLEAN
           /\ orders[i].qty \in Nat /\ orders[i].qty > 0 /\ orders[i].filled \in Nat /\ orders[i].before \in Nat
           /\ Target(i) \in Nat
<1>1. orders[i] \in AnyRow
  BY DEF Shapes
<1> QED
  BY <1>1 DEF AnyRow, Target

(* What broker and tables hold of an instrument. *)
LEMMA MarketType ==
    ASSUME Shapes, NEW i \in Instruments
    PROVE  /\ broker[i] \in [open: Nat, cancelling: BOOLEAN] /\ broker[i].open \in Nat
           /\ broker[i].cancelling \in BOOLEAN
           /\ held[i] \in Nat /\ old[i] \in Nat /\ pos[i] \in Nat /\ signals[i] \in Nat
BY DEF Shapes

(* What a Step holds in its variables. *)
LEMMA JobType ==
    ASSUME Shapes
    PROVE  /\ job.pc \in Places /\ job.i \in Nat /\ job.base \in Nat /\ job.pending \in Nat /\ job.projected \in Nat
           /\ job.candidates \in SUBSET Instruments /\ job.lots \in Nat /\ job.money \in Int
           /\ job.seen \in SUBSET Instruments /\ job.fill \in Nat /\ job.repost \in BOOLEAN
BY DEF Shapes, Jobs

(* A Step that begins holds nothing yet. *)
LEMMA DoingType ==
    ASSUME NEW pc \in Places
    PROVE  Doing(pc) \in Jobs
BY DEF Doing, Jobs

(* Rows that are not touched stay as they are. *)
LEMMA RowsStay ==
    ASSUME RowsFit, UNCHANGED <<signals, orders, broker, held>>, open => open'
    PROVE  RowsFit'
BY DEF RowsFit, RowFits, Target

(* Nothing is known of an instrument when no Step runs. *)
LEMMA JobRests ==
    ASSUME NEW pc \in {"idle", "down", "closing"}, job' = Doing(pc)
    PROVE  JobFits'
BY DEF JobFits, Doing, Placing, Monitoring, Posting

(* Signals that are not touched stay as they are. *)
LEMMA SignalsStay ==
    ASSUME SignalsFit, UNCHANGED <<signals, poor>>
    PROVE  SignalsFit'
BY DEF SignalsFit

(* The bookkeeping holds on an empty day, whatever older positions there   *)
(* are.                                                                    *)
LEMMA InitBooks == Init => Books
<1> SUFFICES ASSUME Init PROVE Books
  OBVIOUS
<1>1. Shapes
  <2>1. old \in [Instruments -> Nat] /\ cash \in Int /\ faults \in 0..MaxFaults
    BY BudgetAssumption DEF Init, Instruments
  <2>2. "idle" \in Places
    BY DEF Places
  <2> QED
    BY <2>1, <2>2, DoingType DEF Init, Shapes
<1>2. RowsFit
  BY DEF RowsFit, RowFits, Init
<1>3. JobFits
  BY DEF JobFits, Doing, Placing, Monitoring, Posting, Init
<1>4. SignalsFit
  <2>1. \A i \in Instruments : 100 * 0 * LotNotional[i] = 0 /\ SizeFactor * Limit[i] \in Nat
    BY Lot, BudgetAssumption
  <2> QED
    BY <2>1 DEF SignalsFit, Init
<1> QED
  BY <1>1, <1>2, <1>3, <1>4 DEF Books

(* A fill moves lots from the order to the holdings. *)
LEMMA BooksBrokerFills ==
    ASSUME Books, NEW i \in Instruments, BrokerFills(i)
    PROVE  Books'
<1> USE DEF Books
<1>1. PICK lots \in 1..broker[i].open :
          /\ broker' = [broker EXCEPT ![i].open = @ - lots]
          /\ held' = [held EXCEPT ![i] = @ + lots]
          /\ cash' = cash - lots * LotNotional[i]
  BY DEF BrokerFills
<1>2. UNCHANGED <<signals, orders, pos, old, poor, open, reduced, state, halted, job, faults>>
  BY DEF BrokerFills, tables, given
<1>3. broker[i].open \in Nat /\ lots \in Nat /\ lots <= broker[i].open
  BY <1>1, MarketType
<1>4. /\ broker'[i].open = broker[i].open - lots /\ held'[i] = held[i] + lots
      /\ \A j \in Instruments : j # i => broker'[j] = broker[j] /\ held'[j] = held[j]
  BY <1>1 DEF Shapes
<1>5. Shapes'
  <2>1. broker' \in [Instruments -> [open: Nat, cancelling: BOOLEAN]]
    BY <1>1, <1>3 DEF Shapes
  <2>2. held' \in [Instruments -> Nat] /\ cash' \in Int
    <3>1. lots * LotNotional[i] \in Int
      BY <1>3, Lot
    <3> QED
      BY <1>1, <1>3, <3>1 DEF Shapes
  <2> QED
    BY <1>2, <2>1, <2>2 DEF Shapes
<1>6. RowsFit'
  <2> SUFFICES ASSUME NEW j \in Instruments PROVE RowFits(j)'
    BY DEF RowsFit
  <2>1. RowFits(j)
    BY DEF RowsFit
  <2>2. CASE j = i
    <3>1. orders[i] # None
      BY <1>1, <1>3, <2>1, <2>2 DEF RowFits
    <3>2. orders[i].filled \in Nat /\ orders[i].before \in Nat /\ Target(i) \in Nat /\ held[i] \in Nat
      BY <3>1, RowType, MarketType
    <3> QED
      BY <1>2, <1>3, <1>4, <2>1, <2>2, <3>1, <3>2 DEF RowFits, Target
  <2>3. CASE j # i
    BY <1>2, <1>4, <2>1, <2>3 DEF RowFits, Target
  <2> QED
    BY <2>2, <2>3
<1>7. JobFits'
  <2>1. job.pc \in {"post", "REJECTED"} => job.i # i
    BY <1>1, <1>3 DEF JobFits
  <2>2. job.pc = "repost" => job.i # i
    BY <1>1, <1>3 DEF JobFits
  <2>3. job.pc \in {"post", "REJECTED", "repost"} => job.i \in Instruments
    BY DEF JobFits
  <2>4. \A j \in Instruments : j # i => broker'[j] = broker[j] /\ held'[j] = held[j]
    BY <1>4
  <2> QED
    BY <1>2, <2>1, <2>2, <2>3, <2>4 DEF JobFits, Placing, Monitoring, Posting, Active, Target
<1>8. SignalsFit'
  BY <1>2, SignalsStay
<1> QED
  BY <1>5, <1>6, <1>7, <1>8

(* A cancellation that takes effect leaves less at work. *)
LEMMA BooksBrokerCancels ==
    ASSUME Books, NEW i \in Instruments, BrokerCancels(i)
    PROVE  Books'
<1> USE DEF Books
<1>1. broker' = [broker EXCEPT ![i].open = 0]
  BY DEF BrokerCancels
<1>2. /\ UNCHANGED <<signals, orders, pos, old, poor, open, held, cash, reduced, state, halted, job>>
      /\ faults' \in 0..MaxFaults
  BY BudgetAssumption DEF BrokerCancels, tables, fixed, Fault, Shapes
<1>3. broker'[i].open = 0 /\ \A j \in Instruments : j # i => broker'[j] = broker[j]
  BY <1>1 DEF Shapes
<1>4. Shapes'
  BY <1>1, <1>2 DEF Shapes
<1>5. RowsFit'
  <2> SUFFICES ASSUME NEW j \in Instruments PROVE RowFits(j)'
    BY DEF RowsFit
  <2>1. RowFits(j)
    BY DEF RowsFit
  <2>2. held[j] \in Nat /\ broker[j].open \in Nat /\ (orders[j] # None => Target(j) \in Nat)
    BY RowType, MarketType
  <2>3. CASE j = i
    BY <1>2, <1>3, <2>1, <2>2, <2>3 DEF RowFits, Target
  <2>4. CASE j # i
    BY <1>2, <1>3, <2>1, <2>4 DEF RowFits, Target
  <2> QED
    BY <2>3, <2>4
<1>6. JobFits'
  <2>1. \A j \in Instruments : broker[j].open = 0 => broker'[j].open = 0
    BY <1>3
  <2>2. job.pc \in {"post", "REJECTED", "repost"} => job.i \in Instruments
    BY DEF JobFits
  <2> QED
    BY <1>2, <2>1, <2>2 DEF JobFits, Placing, Monitoring, Posting, Active, Target
<1>7. SignalsFit'
  BY <1>2, SignalsStay
<1> QED
  BY <1>4, <1>5, <1>6, <1>7

(* Rows are only written from then on. *)
LEMMA BooksEntryWindowOpens ==
    ASSUME Books, EntryWindowOpens
    PROVE  Books'
<1> USE DEF Books
<1>1. UNCHANGED <<signals, orders, pos, old, poor, broker, held, cash, reduced, state, halted, job, faults>> /\ open'
  BY DEF EntryWindowOpens, tables, market
<1>2. Shapes'
  BY <1>1 DEF Shapes, EntryWindowOpens
<1>3. RowsFit'
  BY <1>1, RowsStay
<1>4. JobFits'
  BY <1>1 DEF JobFits, Placing, Monitoring, Posting, Active, Target
<1>5. SignalsFit'
  BY <1>1, SignalsStay
<1> QED
  BY <1>2, <1>3, <1>4, <1>5

(* The amounts that the sizer starts from. *)
LEMMA AmountsType ==
    ASSUME Shapes
    PROVE  /\ positionsExposure \in Nat /\ Worth(old) <= positionsExposure
           /\ Worth([i \in Instruments |-> old[i] + held[i]]) <= positionsExposure
           /\ OpenPositions \in Nat /\ countActiveOrders \in Nat
<1> DEFINE f == [i \in Instruments |-> old[i] + pos[i]]
           g == [i \in Instruments |-> old[i] + held[i]]
<1>1. /\ f \in [Instruments -> Nat] /\ g \in [Instruments -> Nat] /\ old \in [Instruments -> Nat]
      /\ f \in [Instruments -> Int] /\ g \in [Instruments -> Int] /\ old \in [Instruments -> Int]
      /\ \A i \in Instruments : old[i] <= g[i]
  BY DEF Shapes
<1>2. positionsExposure = Larger(Worth(f), Worth(g))
  BY DEF positionsExposure
<1> HIDE DEF f, g
<1>3. Worth(f) \in Nat /\ Worth(g) \in Nat /\ Worth(old) \in Nat /\ Worth(old) <= Worth(g)
  BY <1>1, WorthPositive, WorthGrows
<1>4. positionsExposure \in Nat /\ Worth(g) <= positionsExposure /\ Worth(old) <= positionsExposure
  BY <1>2, <1>3 DEF Larger
<1>5. \A U \in SUBSET Instruments : Cardinality(U) \in Nat
  BY Finite, FS_Subset, FS_CardinalityType
<1>6. OpenPositions \in Nat /\ countActiveOrders \in Nat
  BY <1>5 DEF OpenPositions, countActiveOrders
<1> QED
  BY <1>4, <1>6 DEF g

(* Signals are only written before the first row is. *)
LEMMA BooksPrepareSignals ==
    ASSUME Books, PrepareSignals
    PROVE  Books'
<1> USE DEF Books
<1>1. ~open /\ reduced' = poor /\ UNCHANGED <<orders, pos, old, poor, open, faults, broker, held, cash>>
  BY DEF PrepareSignals, applySizeReductionRule, given, market
<1>2. PICK enter \in SUBSET Instruments :
         LET new == applyBatchSignalLimits(enter, poor)
         IN  \/ UpsertSignals(new, N) /\ state' = "READY" /\ UNCHANGED <<halted, job>>
             \/ (\E last \in Instruments : UpsertSignals(new, last)) /\ StepFails /\ UNCHANGED state
  BY DEF PrepareSignals
<1> DEFINE new == applyBatchSignalLimits(enter, poor)
<1>3. /\ new \in [Instruments -> Nat]
      /\ \A i \in Instruments : 100 * new[i] * LotNotional[i] <= effectiveSizeFactor(poor) * Limit[i]
  <2>1. positionsExposure \in Int /\ OpenPositions \in Int
    BY AmountsType
  <2>2. poor \in BOOLEAN /\ cash \in Int
    BY DEF Shapes
  <2> QED
    BY <2>1, <2>2, SignalsLimited
<1>5. At("idle") /\ (job' = job \/ job' = Doing("idle"))
  BY <1>2 DEF StepFails, PrepareSignals
<1>6. PICK last \in Int : signals' = [i \in Instruments |-> IF i <= last THEN new[i] ELSE signals[i]]
  <2>1. N \in Int /\ \A i \in Instruments : i \in Int
    BY BudgetAssumption DEF Instruments
  <2> HIDE DEF new
  <2> QED
    BY <1>2, <2>1 DEF UpsertSignals, new
<1> HIDE DEF new
<1>7. signals' \in [Instruments -> Nat] /\ \A i \in Instruments : signals'[i] \in {new[i], signals[i]}
  BY <1>3, <1>6 DEF Shapes
<1>8. Shapes'
  <2>1. job' \in Jobs
    <3>1. "idle" \in Places /\ job \in Jobs
      BY DEF Places, Shapes
    <3> QED
      BY <1>5, <3>1, DoingType
  <2>2. halted' \in BOOLEAN /\ state' \in {"INIT", "READY", "PLACE", "MONITOR"}
    BY <1>2 DEF Shapes, StepFails
  <2> QED
    BY <1>1, <1>7, <2>1, <2>2 DEF Shapes
<1>9. RowsFit'
  BY <1>1 DEF RowsFit, RowFits
<1>10. JobFits'
  <2>1. CASE job' = Doing("idle")
    BY <2>1, JobRests
  <2>2. CASE job' = job
    BY <1>5, <2>2 DEF JobFits, At, Placing, Monitoring, Posting
  <2> QED
    BY <1>5, <2>1, <2>2
<1>11. SignalsFit'
  <2> SUFFICES ASSUME poor, NEW i \in Instruments
               PROVE  100 * signals'[i] * LotNotional[i] <= SizeFactor * Limit[i]
    BY <1>1 DEF SignalsFit
  <2>1. effectiveSizeFactor(poor) = SizeFactor
    BY DEF effectiveSizeFactor
  <2> QED
    BY <1>3, <1>7, <2>1 DEF SignalsFit
<1> QED
  BY <1>8, <1>9, <1>10, <1>11

(* An order's rest is not negative. *)
LEMMA LeftType ==
    ASSUME Shapes, RowsFit
    PROVE  Left \in [Instruments -> Nat] /\ ordersExposure = Worth(Left) /\ ordersExposure \in Nat
<1>1. \A i \in Instruments : orders[i] # None =>
          orders[i].qty \in Int /\ orders[i].filled \in Int /\ orders[i].qty - orders[i].filled \in Nat
  <2> SUFFICES ASSUME NEW i \in Instruments, orders[i] # None
               PROVE orders[i].qty \in Int /\ orders[i].filled \in Int /\ orders[i].qty - orders[i].filled \in Nat
    OBVIOUS
  <2>1. RowFits(i)
    BY DEF RowsFit
  <2>2. /\ orders[i].qty \in Nat /\ orders[i].filled \in Nat /\ orders[i].before \in Nat
        /\ held[i] \in Nat /\ broker[i].open \in Nat
    BY RowType, MarketType
  <2> QED
    BY <2>1, <2>2 DEF RowFits, Target
<1>2. Left \in [Instruments -> Nat]
  BY <1>1 DEF Left, Active
<1>3. ordersExposure = Worth(Left)
  BY <1>1, OrdersTotal DEF Active
<1> QED
  BY <1>2, <1>3, WorthPositive

(* placeEntryOrders up to the loop. *)
LEMMA BooksStepPlace ==
    ASSUME Books, StepPlace
    PROVE  Books'
<1> USE DEF Books
<1>1. /\ open /\ state' = "PLACE"
      /\ UNCHANGED <<signals, orders, pos, old, poor, open, faults, broker, held, cash, reduced, halted>>
  BY DEF StepPlace, tables, given, market
<1>2. /\ job'.pc = "turn" /\ job'.i = 1 /\ job'.repost = FALSE /\ job'.candidates = entryOrderCandidates
      /\ job' \in Jobs
  <2>1. entryOrderCandidates \in SUBSET Instruments
    BY DEF entryOrderCandidates
  <2>2. positionsExposure \in Nat /\ ordersExposure \in Nat /\ OpenPositions + countActiveOrders \in Nat
    BY AmountsType, LeftType
  <2>3. Doing("turn") \in Jobs
    BY DoingType DEF Places
  <2>4. Doing("turn").pc = "turn" /\ Doing("turn").repost = FALSE
    BY DEF Doing
  <2>5. job' = [Doing("turn") EXCEPT !.i = 1, !.base = positionsExposure, !.pending = ordersExposure,
                                     !.projected = OpenPositions + countActiveOrders,
                                     !.candidates = entryOrderCandidates]
    BY DEF StepPlace
  <2> HIDE DEF Books
  <2>6. /\ job'.pc = "turn" /\ job'.i = 1 /\ job'.repost = FALSE /\ job'.candidates = entryOrderCandidates
    BY <2>3, <2>4, <2>5 DEF Jobs
  <2>7. job' \in Jobs
    BY <2>1, <2>2, <2>3, <2>5 DEF Jobs
  <2> QED
    BY <2>6, <2>7
<1>3. Shapes'
  BY <1>1, <1>2 DEF Shapes
<1>4. RowsFit'
  BY <1>1, RowsStay
<1>5. JobFits'
  BY <1>1, <1>2 DEF JobFits, Placing, Monitoring, Posting
<1>6. SignalsFit'
  BY <1>1, SignalsStay
<1> QED
  BY <1>3, <1>4, <1>5, <1>6

(* The loop goes on to the next instrument. *)
LEMMA SkipFits ==
    ASSUME Books, job.pc \in {"turn", "sized"}, Skip, UNCHANGED <<open, state>>
    PROVE  job' \in Jobs /\ JobFits'
<1> USE DEF Books
<1>1. /\ job.i \in Nat /\ job.repost = FALSE /\ "turn" \in Places
  BY JobType DEF JobFits, Monitoring, Posting, Places
<1>2. job'.pc = "turn" /\ job'.i = job.i + 1 /\ job'.repost = FALSE /\ job' \in Jobs
  <2>1. job \in Jobs
    BY DEF Shapes
  <2> HIDE DEF Books
  <2>2. job'.pc = "turn" /\ job'.i = job.i + 1 /\ job'.repost = FALSE
    BY <1>1, <2>1 DEF Skip, Jobs
  <2>3. job' \in Jobs
    <3>1. job' = [job EXCEPT !.pc = "turn", !.i = job.i + 1]
      BY DEF Skip
    <3>2. job.i + 1 \in Nat
      BY <1>1
    <3> QED
      BY <1>1, <2>1, <3>1, <3>2 DEF Jobs
  <2> QED
    BY <2>2, <2>3
<1> QED
  BY <1>1, <1>2 DEF JobFits, Placing, Monitoring, Posting

(* The loop skips an instrument. *)
LEMMA BooksTurnSkips ==
    ASSUME Books, TurnSkips
    PROVE  Books'
<1> USE DEF Books
<1>1. UNCHANGED <<signals, orders, pos, old, poor, open, faults, broker, held, cash, reduced, state, halted>>
  BY DEF TurnSkips, tables, given, market
<1>2. job' \in Jobs /\ JobFits'
  BY <1>1, SkipFits DEF TurnSkips, At
<1>3. Shapes'
  BY <1>1, <1>2 DEF Shapes
<1> QED
  BY <1>1, <1>2, <1>3, RowsStay, SignalsStay

(* GetPortfolio touches no row. *)
LEMMA BooksTurnReads ==
    ASSUME Books, TurnReads
    PROVE  Books'
<1> USE DEF Books
<1>1. UNCHANGED <<signals, orders, pos, old, poor, open, faults, broker, held, cash, reduced, state, halted>>
  BY DEF TurnReads, tables, given, market
<1>2. /\ job'.pc = "sized" /\ job'.i = job.i /\ job'.repost = job.repost /\ job'.candidates = job.candidates
      /\ job' \in Jobs /\ job.pc = "turn" /\ job.i \in job.candidates
  <2>1. "sized" \in Places /\ cash \in Int
    BY DEF Places, Shapes
  <2> QED
    BY <2>1 DEF TurnReads, At, Shapes, Jobs
<1>3. Shapes'
  BY <1>1, <1>2 DEF Shapes
<1>4. JobFits'
  <2>1. job.i \in Instruments
    BY <1>2, JobType
  <2> QED
    BY <1>1, <1>2, <2>1 DEF JobFits, Placing, Monitoring, Posting
<1> QED
  BY <1>1, <1>3, <1>4, RowsStay, SignalsStay

(* What the sizer gives, and the check before placing. *)
LEMMA EntryLotsType ==
    ASSUME Books, At("sized")
    PROVE  /\ job.i \in Instruments /\ remainingSignalCount \in Nat \ {0}
           /\ EntryLots \in Nat /\ EntryLots <= signals[job.i]
           /\ EntryLots > 0 => /\ EntryLots * LotNotional[job.i] <= MaxTotalExposure - (job.base + job.pending)
                               /\ EntryLots * LotNotional[job.i] <= job.money - job.pending
<1>1. job.i \in job.candidates /\ job.candidates \subseteq Instruments /\ job.i \in Instruments
  BY JobType DEF Books, JobFits, At
<1>2. /\ job.base + job.pending \in Int /\ job.pending \in Int /\ job.money \in Int /\ reduced \in BOOLEAN
      /\ signals[job.i] \in Nat
  BY <1>1, JobType, MarketType DEF Books, Shapes
<1>3. remainingSignalCount \in Nat \ {0}
  <2> DEFINE U == {j \in job.candidates : j >= job.i}
  <2>1. job.i \in U /\ U \subseteq Instruments
    BY <1>1 DEF Instruments
  <2> HIDE DEF U
  <2>2. IsFiniteSet(U) /\ Cardinality(U) \in Nat /\ Cardinality(U) # 0
    BY <2>1, Finite, FS_Subset, FS_CardinalityType, FS_EmptySet
  <2> QED
    BY <2>2 DEF remainingSignalCount, U
<1> DEFINE size == sizeSignal
           lot == LotNotional[job.i]
<1>4. /\ size \in Nat
      /\ size > 0 => size * lot <= MaxTotalExposure - (job.base + job.pending) /\ size * lot <= job.money - job.pending
  BY <1>1, <1>2, <1>3, SizeBounds DEF sizeSignal
<1>5. EntryLots \in {signals[job.i], size} /\ EntryLots <= signals[job.i] /\ EntryLots <= size
  <2> HIDE DEF size
  <2>1. EntryLots = Min({signals[job.i], size})
    BY DEF EntryLots, size
  <2>2. signals[job.i] \in Int /\ size \in Int
    BY <1>2, <1>4
  <2> QED
    BY <2>1, <2>2, LesserOf, Zenon
<1> HIDE DEF size, lot
<1>6. EntryLots \in Nat
  BY <1>2, <1>4, <1>5
<1>7. EntryLots > 0 => EntryLots * lot <= size * lot /\ size > 0 /\ EntryLots * lot \in Int /\ size * lot \in Int
  <2>1. lot \in Nat
    BY <1>1, Lot DEF lot
  <2> QED
    BY <1>4, <1>5, <1>6, <2>1, ProductGrows
<1>8. EntryLots > 0 => EntryLots * lot <= MaxTotalExposure - (job.base + job.pending) /\ EntryLots * lot <= job.money - job.pending
  <2>1. MaxTotalExposure - (job.base + job.pending) \in Int /\ job.money - job.pending \in Int
    BY <1>2, BudgetAssumption
  <2> QED
    BY <1>4, <1>7, <2>1
<1> QED
  BY <1>1, <1>3, <1>5, <1>6, <1>8 DEF lot

(* A row that is saved anew. *)
LEMMA DraftFits ==
    ASSUME Books, NEW i \in Instruments, NEW attempt \in 1..MaxAttempts, NEW lots \in Nat, lots > 0,
           Draft(i, attempt, lots)
    PROVE  /\ orders' \in [Instruments -> AnyRow \cup {None}]
           /\ orders'[i] = [attempt |-> attempt, status |-> "SENT", known |-> FALSE, qty |-> lots,
                            filled |-> 0, before |-> held[i]]
           /\ orders'[i] # None
           /\ \A j \in Instruments : j # i => orders'[j] = orders[j]
<1> DEFINE row == [attempt |-> attempt, status |-> "SENT", known |-> FALSE, qty |-> lots,
                   filled |-> 0, before |-> held[i]]
<1>1. held[i] \in Nat
  BY MarketType DEF Books
<1>2. row \in AnyRow
  BY <1>1 DEF AnyRow, Statuses
<1>3. row # None
  BY <1>2, NoneAssumption
<1>4. orders' = [orders EXCEPT ![i] = row]
  BY DEF Draft, UpsertOrder
<1> HIDE DEF row
<1>5. orders \in [Instruments -> AnyRow \cup {None}]
  BY DEF Books, Shapes
<1>6. orders' \in [Instruments -> AnyRow \cup {None}] /\ orders'[i] = row /\ \A j \in Instruments : j # i => orders'[j] = orders[j]
  BY <1>2, <1>4, <1>5
<1> QED
  BY <1>3, <1>6 DEF row

(* A first draft orders no more than the signal. *)
LEMMA BooksTurnChecks ==
    ASSUME Books, TurnChecks
    PROVE  Books'
<1>1. /\ UNCHANGED <<signals, pos, old, poor, open, faults, broker, held, cash, reduced, state>>
      /\ At("sized")
  BY DEF TurnChecks, given, market
<1>2. CASE EntryLots = 0 /\ Skip /\ UNCHANGED <<orders, halted>>
  <2>1. job' \in Jobs /\ JobFits'
    BY <1>1, <1>2, SkipFits DEF At
  <2>2. Shapes'
    BY <1>1, <1>2, <2>1 DEF Shapes, Books
  <2> QED
    BY <1>1, <1>2, <2>1, <2>2, RowsStay, SignalsStay DEF Books
<1>3. CASE StepFails /\ UNCHANGED orders
  <2>1. Shapes'
    <3>1. job' \in Jobs /\ halted' \in BOOLEAN
      BY <1>3, DoingType DEF StepFails, Places
    <3> QED
      BY <1>1, <1>3, <3>1 DEF Shapes, Books
  <2>2. JobFits'
    BY <1>3, JobRests DEF StepFails
  <2> QED
    BY <1>1, <1>3, <2>1, <2>2, RowsStay, SignalsStay DEF Books
<1>4. CASE Skip /\ UNCHANGED <<orders, halted>>
  <2>1. job' \in Jobs /\ JobFits'
    BY <1>1, <1>4, SkipFits DEF At
  <2>2. Shapes'
    BY <1>1, <1>4, <2>1 DEF Shapes, Books
  <2> QED
    BY <1>1, <1>4, <2>1, <2>2, RowsStay, SignalsStay DEF Books
<1>5. CASE /\ EntryLots > 0
           /\ job' = [job EXCEPT !.pc = IF orders[job.i] = None THEN "post" ELSE "placed", !.lots = EntryLots]
           /\ IF orders[job.i] = None THEN Draft(job.i, 1, EntryLots) ELSE UNCHANGED orders
           /\ UNCHANGED halted
  <2>1. /\ job.i \in Instruments /\ EntryLots \in Nat /\ EntryLots <= signals[job.i]
    BY <1>1, EntryLotsType
  <2>2. /\ job'.pc = (IF orders[job.i] = None THEN "post" ELSE "placed") /\ job'.i = job.i
        /\ job'.repost = job.repost /\ job'.candidates = job.candidates
    <3>1. job \in Jobs
      BY DEF Books, Shapes
    <3> QED
      BY <1>5, <3>1 DEF Jobs
  <2>3. job' \in Jobs
    <3>1. job \in Jobs /\ {"post", "placed"} \subseteq Places
      BY DEF Books, Shapes, Places
    <3> QED
      BY <1>5, <2>1, <3>1 DEF Jobs
  <2>4. job.repost = FALSE /\ state = "PLACE" /\ open
    BY <1>1, JobType DEF Books, JobFits, Monitoring, Posting, Placing, At
  <2>5. CASE orders[job.i] = None
    <3>1. /\ orders' \in [Instruments -> AnyRow \cup {None}]
          /\ orders'[job.i] = [attempt |-> 1, status |-> "SENT", known |-> FALSE, qty |-> EntryLots,
                               filled |-> 0, before |-> held[job.i]]
          /\ orders'[job.i] # None
          /\ \A j \in Instruments : j # job.i => orders'[j] = orders[j]
      <4>1. 1 \in 1..MaxAttempts
        BY BudgetAssumption
      <4> QED
        BY <1>5, <2>1, <2>5, <4>1, DraftFits
    <3>2. /\ orders'[job.i].status = "SENT" /\ orders'[job.i].known = FALSE /\ orders'[job.i].qty = EntryLots
          /\ orders'[job.i].filled = 0 /\ orders'[job.i].before = held[job.i]
      BY <3>1
    <3>3. held[job.i] = 0 /\ broker[job.i].open = 0
      BY <2>1, <2>5 DEF Books, RowsFit, RowFits
    <3>4. Shapes'
      BY <1>1, <1>5, <2>3, <3>1 DEF Books, Shapes
    <3>5. RowsFit'
      <4> SUFFICES ASSUME NEW j \in Instruments PROVE RowFits(j)'
        BY DEF RowsFit
      <4>1. CASE j = job.i
        BY <1>1, <2>1, <2>4, <3>1, <3>2, <3>3, <4>1 DEF RowFits, Target
      <4>2. CASE j # job.i
        <5>1. RowFits(j) /\ orders'[j] = orders[j]
          BY <3>1, <4>2 DEF Books, RowsFit
        <5> QED
          BY <1>1, <5>1 DEF RowFits, Target
      <4> QED
        BY <4>1, <4>2
    <3>6. JobFits'
      BY <1>1, <2>1, <2>2, <2>4, <2>5, <3>1, <3>2, <3>3 DEF JobFits, Placing, Monitoring, Posting
    <3> QED
      BY <1>1, <3>4, <3>5, <3>6, SignalsStay DEF Books
  <2>6. CASE orders[job.i] # None
    <3>1. UNCHANGED orders /\ job'.pc = "placed"
      BY <1>5, <2>2, <2>6
    <3>2. Shapes'
      BY <1>1, <1>5, <2>3, <3>1 DEF Books, Shapes
    <3>3. JobFits'
      BY <1>1, <2>1, <2>2, <2>4, <2>6, <3>1 DEF JobFits, Placing, Monitoring, Posting
    <3> QED
      BY <1>1, <3>1, <3>2, <3>3, RowsStay, SignalsStay DEF Books
  <2> QED
    BY <2>5, <2>6
<1> QED
  BY <1>2, <1>3, <1>4, <1>5 DEF TurnChecks

(* The broker takes the order of the draft, or does not. *)
LEMMA BooksPost ==
    ASSUME Books, Post
    PROVE  Books'
<1>1. /\ UNCHANGED <<signals, orders, pos, old, poor, open, faults, held, cash, reduced, state, halted>>
      /\ job.pc = "post"
  BY DEF Post, tables, given, At
<1>2. PICK accepted \in BOOLEAN, answer \in {"SENT", "REJECTED", "FAILED"} :
         /\ (answer = "SENT" => accepted) /\ (answer = "REJECTED" => ~accepted)
         /\ broker' = IF accepted
                      THEN [broker EXCEPT ![job.i] = [open |-> orders[job.i].qty, cancelling |-> FALSE]]
                      ELSE broker
         /\ job' = [job EXCEPT !.pc = answer]
  BY DEF Post
<1>3. /\ job.i \in Instruments /\ orders[job.i] # None /\ orders[job.i].status = "SENT"
      /\ held[job.i] = orders[job.i].before /\ broker[job.i].open = 0
  BY <1>1 DEF Books, JobFits, Posting
<1>4. /\ job'.pc = answer /\ job'.i = job.i /\ job'.repost = job.repost /\ job'.candidates = job.candidates
      /\ job' \in Jobs
  <2>1. job \in Jobs /\ answer \in Places
    BY DEF Books, Shapes, Places
  <2> QED
    BY <1>2, <2>1 DEF Jobs
<1>5. orders[job.i].qty \in Nat /\ held[job.i] \in Nat /\ orders[job.i].before \in Nat
  BY <1>3, RowType, MarketType DEF Books
<1>6. /\ broker' \in [Instruments -> [open: Nat, cancelling: BOOLEAN]]
      /\ \A j \in Instruments : j # job.i => broker'[j] = broker[j]
      /\ broker'[job.i].open \in {0, orders[job.i].qty}
      /\ answer = "REJECTED" => broker'[job.i].open = 0
  <2>1. broker \in [Instruments -> [open: Nat, cancelling: BOOLEAN]]
    BY DEF Books, Shapes
  <2>2. CASE accepted
    <3>1. broker' = [broker EXCEPT ![job.i] = [open |-> orders[job.i].qty, cancelling |-> FALSE]] /\ answer # "REJECTED"
      BY <1>2, <2>2
    <3> QED
      BY <1>3, <1>5, <2>1, <3>1
  <2>3. CASE ~accepted
    BY <1>2, <1>3, <2>1, <2>3
  <2> QED
    BY <2>2, <2>3
<1>7. Shapes'
  BY <1>1, <1>4, <1>6 DEF Books, Shapes
<1>8. RowsFit'
  <2> SUFFICES ASSUME NEW j \in Instruments PROVE RowFits(j)'
    BY DEF RowsFit
  <2>1. RowFits(j)
    BY DEF Books, RowsFit
  <2>2. CASE j = job.i
    BY <1>1, <1>3, <1>5, <1>6, <2>1, <2>2 DEF RowFits, Target
  <2>3. CASE j # job.i
    BY <1>1, <1>6, <2>1, <2>3 DEF RowFits, Target
  <2> QED
    BY <2>2, <2>3
<1>9. JobFits'
  BY <1>1, <1>3, <1>4, <1>6 DEF Books, JobFits, Placing, Monitoring, Posting, Active
<1> QED
  BY <1>1, <1>7, <1>8, <1>9, SignalsStay DEF Books

(* A row of which some fields change. *)
LEMMA RowChanges ==
    ASSUME Shapes, NEW i \in Instruments, orders[i] # None,
           NEW row \in AnyRow, orders' = [orders EXCEPT ![i] = row]
    PROVE  /\ orders' \in [Instruments -> AnyRow \cup {None}]
           /\ orders'[i] = row /\ orders'[i] # None
           /\ \A j \in Instruments : j # i => orders'[j] = orders[j]
BY NoneAssumption DEF Shapes

(* The answer changes the status of the row and no quantity. *)
LEMMA BooksPersist ==
    ASSUME Books, Persist
    PROVE  Books'
<1>1. /\ UNCHANGED <<signals, pos, old, poor, open, faults, broker, held, cash, reduced, state>>
      /\ job.pc \in {"SENT", "REJECTED", "FAILED"}
      /\ orders' = [orders EXCEPT ![job.i] = [orders[job.i] EXCEPT !.status = job.pc, !.known = ~At("FAILED")]]
  BY DEF Persist, UpsertOrder, given, market
<1>2. /\ job.i \in Instruments /\ orders[job.i] # None
      /\ job.repost = FALSE => orders[job.i].before = 0 /\ state = "PLACE" /\ open
      /\ job.repost => state = "MONITOR"
      /\ job.repost => \A j \in job.candidates : j # job.i /\ Active(j) /\ orders[j].known
  BY <1>1, JobType DEF Books, JobFits, Posting, Placing, Monitoring
<1> DEFINE row == [orders[job.i] EXCEPT !.status = job.pc, !.known = ~At("FAILED")]
<1>3. /\ row \in AnyRow /\ row.qty = orders[job.i].qty /\ row.filled = orders[job.i].filled
      /\ row.before = orders[job.i].before
  <2>1. orders[job.i] \in AnyRow /\ job.pc \in Statuses
    BY <1>1, <1>2, RowType DEF Books, Statuses
  <2> QED
    BY <2>1 DEF AnyRow
<1> HIDE DEF row
<1>4. /\ orders' \in [Instruments -> AnyRow \cup {None}]
      /\ orders'[job.i] = row /\ orders'[job.i] # None
      /\ \A j \in Instruments : j # job.i => orders'[j] = orders[j]
  <2>1. orders' = [orders EXCEPT ![job.i] = row]
    BY <1>1 DEF row
  <2>2. Shapes
    BY DEF Books
  <2> QED
    BY <1>2, <1>3, <2>1, <2>2, RowChanges
<1>5. RowsFit'
  <2> SUFFICES ASSUME NEW j \in Instruments PROVE RowFits(j)'
    BY DEF RowsFit
  <2>1. RowFits(j)
    BY DEF Books, RowsFit
  <2>2. CASE j = job.i
    BY <1>1, <1>2, <1>3, <1>4, <2>1, <2>2 DEF RowFits, Target
  <2>3. CASE j # job.i
    BY <1>1, <1>4, <2>1, <2>3 DEF RowFits, Target
  <2> QED
    BY <2>2, <2>3
<1>6. CASE At("FAILED")
  <2>1. StepFails
    BY <1>6 DEF Persist
  <2>2. Shapes'
    <3>1. job' \in Jobs /\ halted' \in BOOLEAN
      BY <2>1, DoingType DEF StepFails, Places
    <3> QED
      BY <1>1, <1>4, <3>1 DEF Shapes, Books
  <2>3. JobFits'
    BY <2>1, JobRests DEF StepFails
  <2> QED
    BY <1>1, <1>5, <2>2, <2>3, SignalsStay DEF Books
<1>7. CASE ~At("FAILED")
  <2>1. UNCHANGED halted /\ job' = [job EXCEPT !.pc = IF job.repost THEN "book" ELSE "placed"]
    BY <1>7 DEF Persist
  <2>2. /\ job'.pc = (IF job.repost THEN "book" ELSE "placed") /\ job'.i = job.i
        /\ job'.repost = job.repost /\ job'.candidates = job.candidates /\ job' \in Jobs
    <3>1. job \in Jobs /\ {"book", "placed"} \subseteq Places
      BY DEF Books, Shapes, Places
    <3> QED
      BY <2>1, <3>1 DEF Jobs
  <2>3. Shapes'
    BY <1>1, <1>4, <2>1, <2>2 DEF Shapes, Books
  <2>4. JobFits'
    <3>1. CASE job.repost
      <4>1. \A j \in job.candidates : j # job.i /\ j \in Instruments /\ Active(j) /\ orders[j].known
        BY <1>2, <3>1, JobType DEF Books
      <4>2. \A j \in job.candidates : j # job.i /\ Active(j)' /\ orders'[j].known
        BY <1>4, <4>1 DEF Active
      <4> QED
        BY <1>1, <1>2, <1>4, <2>2, <3>1, <4>2 DEF JobFits, Placing, Monitoring, Posting
    <3>2. CASE ~job.repost
      BY <1>1, <1>2, <1>4, <2>2, <3>2 DEF JobFits, Placing, Monitoring, Posting
    <3> QED
      BY <3>1, <3>2
  <2> QED
    BY <1>1, <1>5, <2>3, <2>4, SignalsStay DEF Books
<1> QED
  BY <1>6, <1>7

(* The loop goes on after an order. *)
LEMMA BooksTurnEnds ==
    ASSUME Books, TurnEnds
    PROVE  Books'
<1>1. /\ UNCHANGED <<signals, orders, pos, old, poor, open, faults, broker, held, cash, reduced, state, halted>>
      /\ job.pc = "placed"
      /\ job' = [job EXCEPT !.pc = "turn", !.i = job.i + 1, !.projected = job.projected + 1,
                            !.pending = job.pending + orderNotional(job.i)]
  BY DEF TurnEnds, tables, given, market, At
<1>2. job.i \in Instruments /\ orders[job.i] # None /\ state = "PLACE" /\ open
  BY <1>1 DEF Books, JobFits, Placing
<1>3. orderNotional(job.i) \in Nat
  <2>1. orders[job.i].qty \in Nat /\ LotNotional[job.i] \in Nat
    BY <1>2, RowType, Lot DEF Books
  <2> QED
    BY <2>1 DEF orderNotional
<1>4. /\ job'.pc = "turn" /\ job'.i = job.i + 1 /\ job'.repost = job.repost /\ job.repost = FALSE /\ job.i \in Nat
  <2>1. job \in Jobs /\ job.repost = FALSE
    BY <1>1, JobType DEF Books, Shapes, JobFits, Monitoring, Posting
  <2> QED
    BY <1>1, <2>1 DEF Jobs
<1>5. job' \in Jobs
  <2>1. job \in Jobs /\ "turn" \in Places
    BY DEF Books, Shapes, Places
  <2>2. job.i + 1 \in Nat /\ job.projected + 1 \in Nat /\ job.pending + orderNotional(job.i) \in Nat
    BY <1>3, JobType DEF Books
  <2> QED
    BY <1>1, <2>1, <2>2 DEF Jobs
<1>6. Shapes'
  BY <1>1, <1>5 DEF Books, Shapes
<1>7. JobFits'
  BY <1>1, <1>2, <1>4 DEF JobFits, Placing, Monitoring, Posting
<1> QED
  BY <1>1, <1>6, <1>7, RowsStay, SignalsStay DEF Books

(* Steps after which no instrument is at hand. *)
LEMMA BooksRest ==
    ASSUME Books, NEW pc \in {"idle", "down", "closing"}, job' = Doing(pc),
           UNCHANGED <<signals, orders, pos, old, poor, broker, held, cash, open>>,
           reduced' \in BOOLEAN, halted' \in BOOLEAN, state' \in {"INIT", "READY", "PLACE", "MONITOR"},
           faults' \in 0..MaxFaults
    PROVE  Books'
<1>1. job' \in Jobs
  BY DoingType DEF Places
<1>2. Shapes'
  BY <1>1 DEF Books, Shapes
<1>3. JobFits'
  BY JobRests
<1> QED
  BY <1>2, <1>3, RowsStay, SignalsStay DEF Books

(* The faults are bounded. *)
LEMMA FaultType ==
    ASSUME Shapes, Fault
    PROVE  faults' \in 0..MaxFaults
BY BudgetAssumption DEF Shapes, Fault

(* The steps that end or begin what the scheduler does. *)
LEMMA BooksQuiet ==
    ASSUME Books, PlacingEnds \/ JobFails \/ Crash \/ Start \/ Unhalt \/ OperatorHalts
    PROVE  Books'
<1>1. /\ reduced \in BOOLEAN /\ halted \in BOOLEAN /\ state \in {"INIT", "READY", "PLACE", "MONITOR"}
      /\ faults \in 0..MaxFaults
  BY DEF Books, Shapes
<1>2. Fault => faults' \in 0..MaxFaults
  BY FaultType DEF Books
<1>3. CASE PlacingEnds
  <2>1. /\ job' = Doing("idle") /\ UNCHANGED <<signals, orders, pos, old, poor, broker, held, cash, open>>
        /\ reduced' = reduced /\ halted' = halted /\ state' \in {state, "MONITOR"} /\ faults' = faults
    BY <1>3 DEF PlacingEnds, tables, given, market
  <2> QED
    BY <1>1, <2>1, BooksRest
<1>4. CASE JobFails
  <2>1. /\ job' = Doing("idle") /\ UNCHANGED <<signals, orders, pos, old, poor, broker, held, cash, open>>
        /\ reduced' = reduced /\ halted' = TRUE /\ state' = state /\ Fault
    BY <1>4 DEF JobFails, StepFails, tables, fixed, market
  <2> QED
    BY <1>1, <1>2, <2>1, BooksRest
<1>5. CASE Crash
  <2>1. /\ job' = Doing("down") /\ UNCHANGED <<signals, orders, pos, old, poor, broker, held, cash, open>>
        /\ reduced' = FALSE /\ halted' = halted /\ state' = state /\ (Fault \/ faults' = faults)
    BY <1>5 DEF Crash, tables, fixed, market
  <2> QED
    BY <1>1, <1>2, <2>1, BooksRest
<1>6. CASE Start
  <2>1. PICK verdict \in BOOLEAN : halted' = verdict /\ job' = Doing(IF verdict THEN "down" ELSE "idle")
    BY <1>6 DEF Start
  <2>2. /\ UNCHANGED <<signals, orders, pos, old, poor, broker, held, cash, open>>
        /\ reduced' = reduced /\ state' = state /\ faults' = faults
    BY <1>6 DEF Start, tables, given, market
  <2>3. PICK pc \in {"idle", "down", "closing"} : job' = Doing(pc)
    BY <2>1
  <2> QED
    BY <1>1, <2>1, <2>2, <2>3, BooksRest
<1>7. CASE Unhalt
  <2>1. /\ UNCHANGED <<signals, orders, pos, old, poor, broker, held, cash, open, job, reduced, faults>>
        /\ halted' = FALSE /\ state' = "INIT" /\ job.pc \in {"idle", "down"}
    BY <1>7 DEF Unhalt, tables, given, market, At
  <2>2. Shapes'
    BY <1>1, <2>1 DEF Books, Shapes
  <2>3. JobFits'
    BY <2>1 DEF Books, JobFits, Placing, Monitoring, Posting
  <2> QED
    BY <2>1, <2>2, <2>3, RowsStay, SignalsStay DEF Books
<1>8. CASE OperatorHalts
  <2>1. /\ UNCHANGED <<signals, orders, pos, old, poor, broker, held, cash, open, job, reduced, state>>
        /\ halted' = TRUE /\ Fault
    BY <1>8 DEF OperatorHalts, tables, fixed, market
  <2>2. Shapes'
    BY <1>1, <1>2, <2>1 DEF Books, Shapes
  <2>3. JobFits'
    BY <2>1 DEF Books, JobFits, Placing, Monitoring, Posting, Active, Target
  <2> QED
    BY <2>1, <2>2, <2>3, RowsStay, SignalsStay DEF Books
<1> QED
  BY <1>3, <1>4, <1>5, <1>6, <1>7, <1>8

(* What the row of an order at work says of its fills. *)
LEMMA FilledFits ==
    ASSUME Books, NEW i \in Instruments, orders[i] # None
    PROVE  /\ FilledOf(i) \in Nat /\ orders[i].filled <= FilledOf(i) /\ FilledOf(i) <= orders[i].qty
           /\ FilledOf(i) + orders[i].before = held[i]
           /\ FilledOf(i) = orders[i].qty => ~Working(i)
           /\ FilledOf(i) - orders[i].filled \in Nat
<1>1. RowFits(i)
  BY DEF Books, RowsFit
<1>2. /\ orders[i].qty \in Nat /\ orders[i].filled \in Nat /\ orders[i].before \in Nat
      /\ held[i] \in Nat /\ broker[i].open \in Nat
  BY RowType, MarketType DEF Books
<1> QED
  BY <1>1, <1>2 DEF RowFits, Target, FilledOf, Working

(* MonitorOnce refreshes a row. *)
LEMMA RefreshFits ==
    ASSUME Books, NEW i \in Instruments, orders[i] # None, Refresh(i), UNCHANGED <<signals, broker, held, open>>
    PROVE  /\ orders' \in [Instruments -> AnyRow \cup {None}]
           /\ orders'[i] # None
           /\ \A j \in Instruments : j # i => orders'[j] = orders[j]
           /\ orders'[i].attempt = orders[i].attempt /\ orders'[i].known = orders[i].known
           /\ orders'[i].qty = orders[i].qty /\ orders'[i].before = orders[i].before
           /\ orders'[i].status = ReportedStatus(i) /\ orders'[i].filled = FilledOf(i)
           /\ Working(i) => Active(i)'
           /\ RowsFit'
<1> DEFINE row == [orders[i] EXCEPT !.status = ReportedStatus(i), !.filled = FilledOf(i)]
<1>1. FilledOf(i) \in Nat /\ FilledOf(i) <= orders[i].qty /\ FilledOf(i) + orders[i].before = held[i]
      /\ (FilledOf(i) = orders[i].qty => ~Working(i)) /\ orders[i].qty \in Nat /\ orders[i].before \in Nat
  BY FilledFits, RowType DEF Books
<1>2. ReportedStatus(i) \in Statuses /\ (Working(i) => isActiveOrder(ReportedStatus(i)))
  BY <1>1 DEF ReportedStatus, Statuses, isActiveOrder
<1>3. /\ row \in AnyRow /\ row.attempt = orders[i].attempt /\ row.known = orders[i].known
      /\ row.qty = orders[i].qty /\ row.before = orders[i].before
      /\ row.status = ReportedStatus(i) /\ row.filled = FilledOf(i)
  <2>1. orders[i] \in AnyRow
    BY RowType DEF Books
  <2> QED
    BY <1>1, <1>2, <2>1 DEF AnyRow
<1>4. orders' = [orders EXCEPT ![i] = row]
  BY DEF Refresh, UpsertOrder
<1> HIDE DEF row
<1>5. /\ orders' \in [Instruments -> AnyRow \cup {None}] /\ orders'[i] = row /\ orders'[i] # None
      /\ \A j \in Instruments : j # i => orders'[j] = orders[j]
  BY <1>3, <1>4, RowChanges DEF Books
<1>6. RowsFit'
  <2> SUFFICES ASSUME NEW j \in Instruments PROVE RowFits(j)'
    BY DEF RowsFit
  <2>1. RowFits(j)
    BY DEF Books, RowsFit
  <2>2. CASE j = i
    BY <1>1, <1>3, <1>5, <2>1, <2>2 DEF RowFits, Target
  <2>3. CASE j # i
    BY <1>5, <2>1, <2>3 DEF RowFits, Target
  <2> QED
    BY <2>2, <2>3
<1> QED
  BY <1>2, <1>3, <1>5, <1>6 DEF Active

(* monitorEntryOrders takes up the orders that are known. *)
LEMMA BooksStepMonitor ==
    ASSUME Books, StepMonitor
    PROVE  Books'
<1>1. /\ UNCHANGED <<signals, orders, pos, old, poor, open, faults, broker, held, cash, reduced, state, halted>>
      /\ state = "MONITOR"
      /\ job' = [Doing("monitor") EXCEPT !.candidates = {i \in Instruments : Active(i) /\ orders[i].known}]
  BY DEF StepMonitor, tables, given, market
<1>2. /\ job'.pc = "monitor" /\ job'.i = 0 /\ job'.repost = FALSE
      /\ job'.candidates = {i \in Instruments : Active(i) /\ orders[i].known}
      /\ job' \in Jobs
  <2>1. Doing("monitor") \in Jobs
    BY DoingType DEF Places
  <2>2. Doing("monitor").pc = "monitor" /\ Doing("monitor").i = 0 /\ Doing("monitor").repost = FALSE
    BY DEF Doing
  <2> QED
    BY <1>1, <2>1, <2>2 DEF Jobs
<1>3. Shapes'
  BY <1>1, <1>2 DEF Books, Shapes
<1>4. JobFits'
  <2>1. \A j \in job'.candidates : j # 0 /\ Active(j)' /\ orders'[j].known
    BY <1>1, <1>2 DEF Instruments, Active
  <2> QED
    BY <1>1, <1>2, <2>1 DEF JobFits, Placing, Monitoring, Posting
<1> QED
  BY <1>1, <1>3, <1>4, RowsStay, SignalsStay DEF Books

(* A refresh brings the row to what the broker has. *)
LEMMA BooksMonitorTurn ==
    ASSUME Books, NEW i \in Instruments, MonitorTurn(i)
    PROVE  Books'
<1>1. /\ UNCHANGED <<signals, pos, old, poor, open, faults, broker, held, cash, reduced, state>>
      /\ job.pc = "monitor" /\ i \in job.candidates /\ Refresh(i)
  BY DEF MonitorTurn, given, market, At
<1>2. PICK pc \in {"book", "cancel"}, halts \in BOOLEAN :
         /\ pc = "cancel" \/ halts => MayRepost(i)
         /\ pc = "cancel" => ~halts
         /\ halted' = (halted \/ halts)
         /\ job' = [Doing(pc) EXCEPT !.i = i, !.fill = FilledOf(i) - orders[i].filled, !.repost = TRUE,
                                      !.candidates = job.candidates \ {i}]
  BY DEF MonitorTurn
<1>3. state = "MONITOR" /\ \A j \in job.candidates : j \in Instruments /\ Active(j) /\ orders[j].known
  BY <1>1, JobType DEF Books, JobFits, Monitoring
<1>4. orders[i] # None
  BY <1>1, <1>3 DEF Active
<1>5. /\ orders' \in [Instruments -> AnyRow \cup {None}]
      /\ orders'[i] # None
      /\ \A j \in Instruments : j # i => orders'[j] = orders[j]
      /\ orders'[i].attempt = orders[i].attempt /\ orders'[i].known = orders[i].known
      /\ orders'[i].status = ReportedStatus(i)
      /\ RowsFit'
  BY <1>1, <1>4, RefreshFits
<1>6. /\ job'.pc = pc /\ job'.i = i /\ job'.repost = TRUE /\ job'.candidates = job.candidates \ {i}
      /\ job' \in Jobs
  <2>1. Doing(pc) \in Jobs /\ Doing(pc).pc = pc
    BY DoingType DEF Places, Doing
  <2>2. FilledOf(i) - orders[i].filled \in Nat /\ i \in Nat /\ job.candidates \in SUBSET Instruments
    BY <1>4, FilledFits, JobType DEF Books, Instruments
  <2> QED
    BY <1>2, <2>1, <2>2 DEF Jobs
<1>7. Shapes'
  <2>1. halted' \in BOOLEAN
    BY <1>2 DEF Books, Shapes
  <2> QED
    BY <1>1, <1>5, <1>6, <2>1 DEF Books, Shapes
<1>8. JobFits'
  <2>1. \A j \in job'.candidates : j # i /\ Active(j)' /\ orders'[j].known
    BY <1>3, <1>5, <1>6 DEF Active
  <2>2. pc = "cancel" => Active(i)' /\ orders'[i].known /\ orders'[i].attempt < MaxAttempts
    BY <1>1, <1>2, <1>3, <1>5 DEF Active, MayRepost
  <2> QED
    BY <1>1, <1>3, <1>5, <1>6, <2>1, <2>2 DEF JobFits, Placing, Monitoring, Posting
<1> QED
  BY <1>1, <1>5, <1>7, <1>8, SignalsStay DEF Books

(* A cancellation leaves the lots that are not filled to the next attempt. *)
LEMMA BooksCancelled ==
    ASSUME Books, Cancelled
    PROVE  Books'
<1> DEFINE i == job.i
<1>1. /\ UNCHANGED <<signals, pos, old, poor, open, faults, broker, held, cash, reduced, state, halted>>
      /\ job.pc = "cancel" /\ ~Working(i) /\ Refresh(i)
      /\ job' = [job EXCEPT !.fill = job.fill + FilledOf(job.i) - orders[job.i].filled,
                          !.lots = orders[job.i].qty - FilledOf(job.i),
                          !.pc = IF FilledOf(job.i) = orders[job.i].qty THEN "book" ELSE "repost"]
  BY DEF Cancelled, given, market, At
<1>2. /\ i \in Instruments /\ orders[i] # None /\ orders[i].attempt < MaxAttempts /\ state = "MONITOR"
      /\ \A j \in job.candidates : j # i /\ j \in Instruments /\ Active(j) /\ orders[j].known
  BY <1>1, JobType DEF Books, JobFits, Monitoring
<1>3. /\ FilledOf(i) \in Nat /\ FilledOf(i) <= orders[i].qty /\ FilledOf(i) + orders[i].before = held[i]
      /\ FilledOf(i) - orders[i].filled \in Nat /\ orders[i].qty \in Nat /\ orders[i].filled \in Nat
      /\ orders[i].before \in Nat /\ job.fill \in Nat /\ broker[i].open \in Nat
  BY <1>2, FilledFits, RowType, JobType, MarketType DEF Books
<1>4. /\ orders' \in [Instruments -> AnyRow \cup {None}]
      /\ orders'[i] # None
      /\ \A j \in Instruments : j # i => orders'[j] = orders[j]
      /\ orders'[i].attempt = orders[i].attempt
      /\ orders'[i].qty = orders[i].qty /\ orders'[i].before = orders[i].before
      /\ RowsFit'
  BY <1>1, <1>2, RefreshFits
<1>5. /\ job'.pc = (IF FilledOf(i) = orders[i].qty THEN "book" ELSE "repost") /\ job'.i = i
      /\ job'.repost = job.repost /\ job'.candidates = job.candidates /\ job'.lots = orders[i].qty - FilledOf(i)
  <2>1. job \in Jobs
    BY DEF Books, Shapes
  <2> QED
    BY <1>1, <2>1 DEF Jobs
<1>6. job' \in Jobs
  <2>1. job \in Jobs /\ {"book", "repost"} \subseteq Places
    BY DEF Books, Shapes, Places
  <2>2. job.fill + FilledOf(i) - orders[i].filled \in Nat /\ orders[i].qty - FilledOf(i) \in Nat
    BY <1>3
  <2> QED
    BY <1>1, <2>1, <2>2 DEF Jobs
<1>7. Shapes'
  BY <1>1, <1>4, <1>6 DEF Books, Shapes
<1>8. JobFits'
  <2>1. \A j \in job'.candidates : j # i /\ Active(j)' /\ orders'[j].known
    BY <1>2, <1>4, <1>5 DEF Active
  <2>2. job'.pc = "repost" => /\ broker'[i].open = 0 /\ job'.lots > 0
                              /\ held'[i] + job'.lots = orders'[i].before + orders'[i].qty
    <3>1. FilledOf(i) # orders[i].qty => orders[i].qty - FilledOf(i) > 0
                                          /\ held[i] + (orders[i].qty - FilledOf(i)) = orders[i].before + orders[i].qty
      BY <1>3
    <3>2. broker[i].open = 0
      BY <1>1, <1>3 DEF Working
    <3> QED
      BY <1>1, <1>4, <1>5, <3>1, <3>2 DEF Target
  <2>3. job'.pc \in {"book", "repost"} /\ job'.i = i /\ job'.repost = TRUE /\ state' = "MONITOR"
    BY <1>1, <1>2, <1>5, JobType DEF Books, JobFits
  <2>4. i \in Instruments /\ orders'[i] # None /\ orders'[i].attempt < MaxAttempts
    BY <1>2, <1>4
  <2> HIDE DEF i
  <2> QED
    BY <2>1, <2>2, <2>3, <2>4 DEF JobFits, Placing, Monitoring, Posting, Target
<1> QED
  BY <1>1, <1>4, <1>7, <1>8, SignalsStay DEF Books

(* A request to cancel changes no quantity. *)
LEMMA BooksRequestCancel ==
    ASSUME Books, RequestCancel
    PROVE  Books'
<1>1. /\ UNCHANGED <<signals, orders, pos, old, poor, open, faults, held, cash, reduced, state, halted, job>>
      /\ job.pc = "cancel" /\ broker' = [broker EXCEPT ![job.i].cancelling = TRUE]
  BY DEF RequestCancel, tables, given, At
<1>2. /\ broker' \in [Instruments -> [open: Nat, cancelling: BOOLEAN]]
      /\ \A j \in Instruments : broker'[j].open = broker[j].open
  BY <1>1 DEF Books, Shapes
<1>3. Shapes'
  BY <1>1, <1>2 DEF Books, Shapes
<1>4. RowsFit'
  BY <1>1, <1>2 DEF Books, RowsFit, RowFits, Target
<1>5. JobFits'
  BY <1>1 DEF Books, JobFits, Placing, Monitoring, Posting, Active
<1> QED
  BY <1>1, <1>3, <1>4, <1>5, SignalsStay DEF Books

(* The draft of the next attempt takes over what the last has left. *)
LEMMA BooksRepost ==
    ASSUME Books, Repost
    PROVE  Books'
<1> DEFINE i == job.i
<1>1. /\ UNCHANGED <<signals, pos, old, poor, open, faults, broker, held, cash, reduced, state>>
      /\ job.pc = "repost" /\ i = job.i
  BY DEF Repost, given, market, At
<1>2. /\ i \in Instruments /\ orders[i] # None /\ orders[i].attempt < MaxAttempts /\ state = "MONITOR"
      /\ broker[i].open = 0 /\ job.lots > 0 /\ held[i] + job.lots = Target(i)
      /\ \A j \in job.candidates : j # i /\ j \in Instruments /\ Active(j) /\ orders[j].known
  BY <1>1, JobType DEF Books, JobFits, Monitoring
<1>3. PICK reason \in PreTradeCheck(unknownBrokerState({j \in Instruments : old[j] + held[j] > 0}), OpenPositions) :
         \/ /\ reason # "allowed"
            /\ halted' = (halted \/ isHardHaltPreTradeReason(reason))
            /\ job' = [job EXCEPT !.pc = "book"]
            /\ UNCHANGED orders
         \/ /\ reason = "allowed"
            /\ Draft(job.i, orders[job.i].attempt + 1, job.lots)
            /\ job' = [job EXCEPT !.pc = "post"]
            /\ UNCHANGED halted
  BY DEF Repost
<1>4. \A pc \in {"book", "post"} : job' = [job EXCEPT !.pc = pc] =>
          /\ job'.pc = pc /\ job'.i = i /\ job'.repost = job.repost /\ job'.candidates = job.candidates
          /\ job' \in Jobs
  <2>1. job \in Jobs /\ {"book", "post"} \subseteq Places
    BY DEF Books, Shapes, Places
  <2> QED
    BY <2>1 DEF Jobs
<1>5. CASE /\ halted' = (halted \/ isHardHaltPreTradeReason(reason))
           /\ job' = [job EXCEPT !.pc = "book"] /\ UNCHANGED orders
  <2>1. job'.pc = "book" /\ job'.i = i /\ job'.repost = job.repost /\ job'.candidates = job.candidates /\ job' \in Jobs
    BY <1>4, <1>5
  <2>2. Shapes'
    <3>1. halted' \in BOOLEAN
      BY <1>5 DEF isHardHaltPreTradeReason, Books, Shapes
    <3> QED
      BY <1>1, <1>5, <2>1, <3>1 DEF Books, Shapes
  <2>3. JobFits'
    <3>1. \A j \in job'.candidates : j # i /\ Active(j)' /\ orders'[j].known
      BY <1>2, <1>5, <2>1 DEF Active
    <3> QED
      BY <1>1, <1>2, <2>1, <3>1 DEF JobFits, Placing, Monitoring, Posting
  <2> QED
    BY <1>1, <1>5, <2>2, <2>3, RowsStay, SignalsStay DEF Books
<1>6. CASE /\ Draft(job.i, orders[job.i].attempt + 1, job.lots)
           /\ job' = [job EXCEPT !.pc = "post"] /\ UNCHANGED halted
  <2>1. job'.pc = "post" /\ job'.i = i /\ job'.repost = job.repost /\ job'.candidates = job.candidates /\ job' \in Jobs
    BY <1>4, <1>6
  <2>2. orders[i].attempt + 1 \in 1..MaxAttempts /\ job.lots \in Nat /\ MaxAttempts \in Nat
    <3>1. orders[i].attempt \in 1..MaxAttempts /\ job.lots \in Nat
      BY <1>2, RowType, JobType DEF Books
    <3>2. MaxAttempts \in Nat
      BY BudgetAssumption
    <3> QED
      BY <1>2, <3>1, <3>2
  <2>3. /\ orders' \in [Instruments -> AnyRow \cup {None}]
        /\ orders'[i] = [attempt |-> orders[i].attempt + 1, status |-> "SENT", known |-> FALSE, qty |-> job.lots,
                         filled |-> 0, before |-> held[i]]
        /\ orders'[i] # None
        /\ \A j \in Instruments : j # i => orders'[j] = orders[j]
    BY <1>2, <1>6, <2>2, DraftFits
  <2>4. /\ orders'[i].status = "SENT" /\ orders'[i].known = FALSE /\ orders'[i].qty = job.lots
        /\ orders'[i].filled = 0 /\ orders'[i].before = held[i]
    BY <2>3
  <2>5. job.repost = TRUE
    BY <1>1, JobType DEF Books, JobFits
  <2>6. Shapes'
    BY <1>1, <1>6, <2>1, <2>3 DEF Books, Shapes
  <2>7. RowsFit'
    <3> SUFFICES ASSUME NEW j \in Instruments PROVE RowFits(j)'
      BY DEF RowsFit
    <3>1. RowFits(j) /\ held[j] \in Nat
      BY MarketType DEF Books, RowsFit
    <3>2. CASE j = i
      BY <1>1, <1>2, <2>2, <2>3, <2>4, <3>1, <3>2 DEF RowFits, Target
    <3>3. CASE j # i
      BY <1>1, <2>3, <3>1, <3>3 DEF RowFits, Target
    <3> QED
      BY <3>2, <3>3
  <2>8. JobFits'
    <3>1. \A j \in job'.candidates : j # i /\ Active(j)' /\ orders'[j].known
      BY <1>2, <2>1, <2>3 DEF Active
    <3> HIDE DEF i
    <3> QED
      BY <1>1, <1>2, <2>1, <2>3, <2>4, <2>5, <3>1 DEF JobFits, Placing, Monitoring, Posting
  <2> QED
    BY <1>1, <2>6, <2>7, <2>8, SignalsStay DEF Books
<1> QED
  BY <1>3, <1>5, <1>6

(* The next order of the loop, or its end. *)
LEMMA MonitoredFits ==
    ASSUME Books, job.pc \in {"book", "reconcile"}, Monitored, UNCHANGED <<orders, state>>
    PROVE  /\ job' \in Jobs /\ JobFits'
           /\ job'.pc \in {"idle", "monitor"}
<1>1. CASE job.candidates = {}
  <2>1. job' = Doing("idle")
    BY <1>1 DEF Monitored
  <2> QED
    BY <2>1, DoingType, JobRests DEF Places, Doing
<1>2. CASE job.candidates # {}
  <2>1. job' = [Doing("monitor") EXCEPT !.candidates = job.candidates]
    BY <1>2 DEF Monitored
  <2>2. /\ job'.pc = "monitor" /\ job'.i = 0 /\ job'.repost = FALSE /\ job'.candidates = job.candidates
        /\ job' \in Jobs
    <3>1. Doing("monitor") \in Jobs
      BY DoingType DEF Places
    <3>2. Doing("monitor").pc = "monitor" /\ Doing("monitor").i = 0 /\ Doing("monitor").repost = FALSE
      BY DEF Doing
    <3>3. job.candidates \in SUBSET Instruments
      BY JobType DEF Books
    <3> QED
      BY <2>1, <3>1, <3>2, <3>3 DEF Jobs
  <2>3. state = "MONITOR" /\ \A j \in job.candidates : j # 0 /\ Active(j) /\ orders[j].known
    BY JobType DEF Books, JobFits, Monitoring, Instruments
  <2>4. JobFits'
    BY <2>2, <2>3 DEF JobFits, Placing, Monitoring, Posting, Active
  <2> QED
    BY <2>2, <2>4
<1> QED
  BY <1>1, <1>2

(* A fill is booked on the position. *)
LEMMA BooksBook ==
    ASSUME Books, Book
    PROVE  Books'
<1>1. /\ UNCHANGED <<signals, orders, old, poor, open, faults, broker, held, cash, reduced, state, halted>>
      /\ job.pc = "book" /\ pos' = [pos EXCEPT ![job.i] = @ + job.fill]
  BY DEF Book, given, market, At
<1>2. job.i \in Instruments /\ job.fill \in Nat
  BY <1>1, JobType DEF Books, JobFits
<1>3. pos' \in [Instruments -> Nat]
  BY <1>1, <1>2 DEF Books, Shapes
<1>4. job' \in Jobs /\ JobFits'
  <2>1. CASE job.fill > 0
    <3>1. job' = [job EXCEPT !.pc = "reconcile"]
      BY <2>1 DEF Book
    <3>2. /\ job'.pc = "reconcile" /\ job'.i = job.i /\ job'.repost = job.repost /\ job'.candidates = job.candidates
          /\ job' \in Jobs
      <4>1. job \in Jobs /\ "reconcile" \in Places
        BY DEF Books, Shapes, Places
      <4> QED
        BY <3>1, <4>1 DEF Jobs
    <3> QED
      BY <1>1, <1>2, <3>2 DEF Books, JobFits, Placing, Monitoring, Posting, Active
  <2>2. CASE ~(job.fill > 0)
    BY <1>1, <2>2, MonitoredFits DEF Book
  <2> QED
    BY <2>1, <2>2
<1>5. Shapes'
  BY <1>1, <1>3, <1>4 DEF Books, Shapes
<1> QED
  BY <1>1, <1>4, <1>5, RowsStay, SignalsStay DEF Books

(* A reconciliation touches no row. *)
LEMMA BooksReconcileAfterFill ==
    ASSUME Books, ReconcileAfterFill
    PROVE  Books'
<1>1. /\ UNCHANGED <<signals, orders, pos, old, poor, open, faults, broker, held, cash, reduced, state>>
      /\ job.pc = "reconcile" /\ Monitored
  BY DEF ReconcileAfterFill, tables, given, market, At
<1>2. halted' \in BOOLEAN
  BY DEF ReconcileAfterFill, Books, Shapes
<1>3. job' \in Jobs /\ JobFits'
  BY <1>1, MonitoredFits
<1>4. Shapes'
  BY <1>1, <1>2, <1>3 DEF Books, Shapes
<1> QED
  BY <1>1, <1>3, <1>4, RowsStay, SignalsStay DEF Books

(* A shutdown marks an order and leaves what it may yet trade. *)
LEMMA BooksShutdownCancels ==
    ASSUME Books, NEW i \in Instruments, ShutdownCancels(i)
    PROVE  Books'
<1>1. /\ UNCHANGED <<signals, pos, old, poor, open, faults, held, cash, reduced, state, halted>>
      /\ orders' = [orders EXCEPT ![i].status = "CANCELLED"] /\ orders[i] # None /\ job' = Doing("closing")
      /\ broker' = IF orders[i].known THEN [broker EXCEPT ![i].cancelling = TRUE] ELSE broker
  BY DEF ShutdownCancels, UpdateOrderStatus, Active, given
<1> DEFINE row == [orders[i] EXCEPT !.status = "CANCELLED"]
<1>2. row \in AnyRow /\ row.qty = orders[i].qty /\ row.filled = orders[i].filled /\ row.before = orders[i].before
  <2>1. orders[i] \in AnyRow
    BY <1>1, RowType DEF Books
  <2> QED
    BY <2>1 DEF AnyRow, Statuses
<1>3. orders' = [orders EXCEPT ![i] = row]
  BY <1>1 DEF Books, Shapes
<1> HIDE DEF row
<1>4. /\ orders' \in [Instruments -> AnyRow \cup {None}] /\ orders'[i] = row /\ orders'[i] # None
      /\ \A j \in Instruments : j # i => orders'[j] = orders[j]
  BY <1>1, <1>2, <1>3, RowChanges DEF Books
<1>5. /\ broker' \in [Instruments -> [open: Nat, cancelling: BOOLEAN]]
      /\ \A j \in Instruments : broker'[j].open = broker[j].open
  BY <1>1 DEF Books, Shapes
<1>6. Shapes'
  <2>1. job' \in Jobs
    BY <1>1, DoingType DEF Places
  <2> QED
    BY <1>1, <1>4, <1>5, <2>1 DEF Books, Shapes
<1>7. RowsFit'
  <2> SUFFICES ASSUME NEW j \in Instruments PROVE RowFits(j)'
    BY DEF RowsFit
  <2>1. RowFits(j) /\ broker'[j].open = broker[j].open
    BY <1>5 DEF Books, RowsFit
  <2>2. CASE j = i
    BY <1>1, <1>2, <1>4, <2>1, <2>2 DEF RowFits, Target
  <2>3. CASE j # i
    BY <1>1, <1>4, <2>1, <2>3 DEF RowFits, Target
  <2> QED
    BY <2>2, <2>3
<1>8. JobFits'
  BY <1>1, JobRests
<1> QED
  BY <1>1, <1>6, <1>7, <1>8, SignalsStay DEF Books

(* Every step keeps the books. *)
LEMMA NextBooks == Books /\ [Next]_vars => Books'
<1> SUFFICES ASSUME Books, [Next]_vars PROVE Books'
  OBVIOUS
<1>1. ASSUME NEW i \in Instruments, BrokerFills(i) \/ BrokerCancels(i) \/ MonitorTurn(i) \/ ShutdownCancels(i)
      PROVE  Books'
  BY <1>1, BooksBrokerFills, BooksBrokerCancels, BooksMonitorTurn, BooksShutdownCancels
<1>2. ASSUME \/ EntryWindowOpens \/ PrepareSignals \/ StepPlace \/ TurnSkips \/ TurnReads \/ TurnChecks \/ Post
             \/ Persist \/ TurnEnds
      PROVE  Books'
  BY <1>2, BooksEntryWindowOpens, BooksPrepareSignals, BooksStepPlace, BooksTurnSkips, BooksTurnReads,
     BooksTurnChecks, BooksPost, BooksPersist, BooksTurnEnds
<1>3. ASSUME \/ StepMonitor \/ Cancelled \/ RequestCancel \/ Repost \/ Book \/ ReconcileAfterFill
      PROVE  Books'
  BY <1>3, BooksStepMonitor, BooksCancelled, BooksRequestCancel, BooksRepost, BooksBook, BooksReconcileAfterFill
<1>4. ASSUME PlacingEnds \/ JobFails \/ Crash \/ Start \/ Unhalt \/ OperatorHalts
      PROVE  Books'
  BY <1>4, BooksQuiet
<1>5. ASSUME UNCHANGED vars
      PROVE  Books'
  <2>1. UNCHANGED <<signals, orders, pos, old, broker, held, cash, poor, reduced, open, state, halted, job, faults>>
    BY <1>5 DEF vars
  <2>2. Shapes'
    BY <2>1 DEF Books, Shapes
  <2>3. JobFits'
    BY <2>1 DEF Books, JobFits, Placing, Monitoring, Posting, Active, Target
  <2> QED
    BY <2>1, <2>2, <2>3, RowsStay, SignalsStay DEF Books
<1> QED
  BY <1>1, <1>2, <1>3, <1>4, <1>5 DEF Next

-----------------------------------------------------------------------------
(* What may yet be bought of an instrument: all of its order, while that    *)
(* works or is to be placed again, else what the broker has.               *)
Pending(i) == orders[i] # None /\ (Active(i) \/ (job.pc = "repost" /\ job.i = i))
Commit(i) == IF Pending(i) THEN Target(i) ELSE held[i] + broker[i].open
Committed == [i \in Instruments |-> Commit(i)]

(* The worth of what is held or committed, of what is committed beyond what *)
(* is held, and the instruments of both.                                   *)
Exposure(earlier, lots) == Worth([i \in Instruments |-> earlier[i] + lots[i]])
Reserve(lots, had) == Worth([i \in Instruments |-> lots[i] - had[i]])
Taken(earlier, lots) == Cardinality({i \in Instruments : earlier[i] + lots[i] > 0})

Exposed == Exposure(old, Committed)
Reserved == Reserve(Committed, held)
Slots == Taken(old, Committed)

(* Holdings without a position or an order at work that explains them. *)
Stray == {i \in Instruments : held[i] > 0 /\ old[i] + pos[i] = 0 /\ ~Active(i)}

(* The loop between two orders, and at one. *)
Between == job.pc \in {"turn", "sized"}
Adding == Placing /\ ~Between

(* An order that works is known to the bot, unless the bot rests and is     *)
(* halted, has yet to save what the broker said, or is to reconcile first. *)
Explained(i) ==
    \/ Active(i) /\ orders[i].known
    \/ job.pc \in {"down", "idle", "closing"} /\ halted
    \/ job.pc \in {"SENT", "FAILED"} /\ job.i = i
    \/ job.pc \in {"down", "closing"} /\ (state \in {"PLACE", "MONITOR"} \/ broker[i].cancelling)
OrdersKnown == \A i \in Instruments : Working(i) => Explained(i)

(* The counters of the loop cover what is committed, and the checks kept    *)
(* that within the limits.                                                 *)
ExposureKept ==
    /\ Exposed <= Larger(MaxTotalExposure, Worth(old))
    /\ Between => Exposed <= job.base + job.pending
    /\ Adding => Exposed <= job.base + job.pending + orderNotional(job.i)
CashKept ==
    /\ Reserved <= cash
    /\ Between => Reserved <= job.pending
    /\ Adding => Reserved <= job.pending + orderNotional(job.i)
    /\ job.pc = "sized" => job.money - job.pending <= cash - Reserved
SlotsKept ==
    /\ Slots <= Larger(MaxOpenPositions, Cardinality({i \in Instruments : old[i] > 0}))
    /\ Between => Slots <= job.projected \/ Stray # {}
    /\ job.pc = "sized" => Stray \subseteq job.seen /\ job.projected < MaxOpenPositions
    /\ Adding => Slots <= job.projected + 1

Kept == ExposureKept /\ CashKept /\ SlotsKept

IInv == Books /\ OrdersKnown /\ Kept

-----------------------------------------------------------------------------
(* A larger set of instruments has more of them. *)
LEMMA CardinalityGrows ==
    ASSUME NEW U \in SUBSET Instruments, NEW V \in SUBSET Instruments, U \subseteq V
    PROVE  Cardinality(U) \in Nat /\ Cardinality(V) \in Nat /\ Cardinality(U) <= Cardinality(V)
BY Finite, FS_Subset, FS_CardinalityType

(* The more is committed, the more is exposed, reserved and taken. *)
LEMMA ExposureGrows ==
    ASSUME NEW earlier \in [Instruments -> Nat], NEW less \in [Instruments -> Nat], NEW more \in [Instruments -> Nat],
           \A i \in Instruments : less[i] <= more[i]
    PROVE  /\ Exposure(earlier, less) \in Nat /\ Exposure(earlier, more) \in Nat
           /\ Exposure(earlier, less) <= Exposure(earlier, more)
           /\ Taken(earlier, less) \in Nat /\ Taken(earlier, more) \in Nat
           /\ Taken(earlier, less) <= Taken(earlier, more)
<1> DEFINE f == [i \in Instruments |-> earlier[i] + less[i]]
           g == [i \in Instruments |-> earlier[i] + more[i]]
           U == {i \in Instruments : earlier[i] + less[i] > 0}
           V == {i \in Instruments : earlier[i] + more[i] > 0}
<1>1. /\ f \in [Instruments -> Nat] /\ g \in [Instruments -> Nat]
      /\ f \in [Instruments -> Int] /\ g \in [Instruments -> Int]
      /\ \A i \in Instruments : f[i] <= g[i]
  OBVIOUS
<1>2. U \in SUBSET Instruments /\ V \in SUBSET Instruments /\ U \subseteq V
  OBVIOUS
<1> HIDE DEF f, g, U, V
<1>3. Worth(f) \in Nat /\ Worth(g) \in Nat /\ Worth(f) <= Worth(g)
  BY <1>1, WorthPositive, WorthGrows
<1>4. Cardinality(U) \in Nat /\ Cardinality(V) \in Nat /\ Cardinality(U) <= Cardinality(V)
  BY <1>2, CardinalityGrows
<1> QED
  BY <1>3, <1>4 DEF Exposure, Taken, f, g, U, V

(* The more is committed, the more cash it takes. *)
LEMMA ReserveGrows ==
    ASSUME NEW had \in [Instruments -> Nat], NEW less \in [Instruments -> Nat], NEW more \in [Instruments -> Nat],
           \A i \in Instruments : less[i] <= more[i]
    PROVE  Reserve(less, had) \in Int /\ Reserve(more, had) \in Int /\ Reserve(less, had) <= Reserve(more, had)
<1> DEFINE f == [i \in Instruments |-> less[i] - had[i]]
           g == [i \in Instruments |-> more[i] - had[i]]
<1>1. /\ f \in [Instruments -> Int] /\ g \in [Instruments -> Int]
      /\ \A i \in Instruments : f[i] <= g[i]
  OBVIOUS
<1> HIDE DEF f, g
<1>2. Worth(f) \in Int /\ Worth(g) \in Int /\ Worth(f) <= Worth(g)
  BY <1>1, WorthType, WorthGrows
<1> QED
  BY <1>2 DEF Reserve, f, g

(* What is committed of an instrument. *)
CommitFits ==
    \A i \in Instruments :
        /\ Commit(i) \in Nat /\ held[i] \in Nat /\ broker[i].open \in Nat
        /\ held[i] + broker[i].open <= Commit(i)
        /\ orders[i] = None => Commit(i) = 0
        /\ orders[i] # None => Commit(i) <= Target(i) /\ Target(i) \in Nat

(* What an instrument has bought or works on is committed, and no more     *)
(* than its row says.                                                      *)
LEMMA CommitBounds == Books => CommitFits
<1> SUFFICES ASSUME Books, NEW i \in Instruments
             PROVE  /\ Commit(i) \in Nat /\ held[i] \in Nat /\ broker[i].open \in Nat
                    /\ held[i] + broker[i].open <= Commit(i)
                    /\ orders[i] = None => Commit(i) = 0
                    /\ orders[i] # None => Commit(i) <= Target(i) /\ Target(i) \in Nat
  BY DEF CommitFits
<1>1. RowFits(i)
  BY DEF Books, RowsFit
<1>2. held[i] \in Nat /\ broker[i].open \in Nat /\ (orders[i] # None => Target(i) \in Nat)
  BY RowType, MarketType DEF Books
<1> QED
  BY <1>1, <1>2 DEF RowFits, Commit, Pending

CommitTyped ==
    /\ Committed \in [Instruments -> Nat] /\ \A i \in Instruments : Committed[i] = Commit(i)
    /\ old \in [Instruments -> Nat] /\ held \in [Instruments -> Nat]
    /\ Exposed \in Nat /\ Reserved \in Nat /\ Slots \in Nat /\ Worth(old) \in Nat
    /\ Cardinality({i \in Instruments : old[i] > 0}) \in Nat

(* The sums over what is committed are amounts. *)
LEMMA CommittedType == Books => CommitTyped
<1> SUFFICES ASSUME Books PROVE CommitTyped
  OBVIOUS
<1>1. /\ Committed \in [Instruments -> Nat] /\ old \in [Instruments -> Nat] /\ held \in [Instruments -> Nat]
      /\ \A i \in Instruments : Committed[i] = Commit(i) /\ held[i] <= Committed[i]
  BY CommitBounds DEF CommitFits, Committed, Books, Shapes
<1>2. Exposed \in Nat /\ Slots \in Nat
  BY <1>1, ExposureGrows DEF Exposed, Slots
<1>3. Reserved \in Nat
  <2> DEFINE f == [i \in Instruments |-> Committed[i] - held[i]]
  <2>1. f \in [Instruments -> Nat]
    BY <1>1
  <2> HIDE DEF f
  <2>2. Worth(f) \in Nat
    BY <2>1, WorthPositive
  <2> QED
    BY <2>2 DEF Reserved, Reserve, f
<1>4. Worth(old) \in Nat
  BY <1>1, WorthPositive
<1>5. Cardinality({i \in Instruments : old[i] > 0}) \in Nat
  BY Finite, FS_Subset, FS_CardinalityType
<1> QED
  BY <1>1, <1>2, <1>3, <1>4, <1>5 DEF CommitTyped

(* A step that lets the commitments fall: the limits of the loop stay.      *)
LEMMA KeptOn ==
    ASSUME Books, Books', Kept, UNCHANGED <<old, held, cash>>,
           \A i \in Instruments : Commit(i)' <= Commit(i),
           Between' => Between /\ Stray' = Stray,
           Between' \/ Adding' => job'.base = job.base /\ job'.pending = job.pending /\ job'.projected = job.projected,
           Adding' => Adding /\ orderNotional(job.i)' = orderNotional(job.i),
           job'.pc = "sized" => job.pc = "sized" /\ job'.money = job.money /\ job'.seen = job.seen
    PROVE  Kept'
<1>0. CommitTyped /\ CommitTyped'
  <2>1. CommitTyped'
    BY CommittedType, PTL
  <2> QED
    BY <2>1, CommittedType
<1>1. /\ Committed \in [Instruments -> Nat] /\ Committed' \in [Instruments -> Nat]
      /\ \A i \in Instruments : Committed'[i] <= Committed[i]
  <2>1. \A i \in Instruments : Committed[i] = Commit(i)
    BY <1>0 DEF CommitTyped
  <2>2. \A i \in Instruments : Committed'[i] = Commit(i)'
    BY DEF Committed
  <2>3. Committed' \in [Instruments -> Nat]
    BY <1>0 DEF CommitTyped
  <2> QED
    BY <1>0, <2>1, <2>2, <2>3 DEF CommitTyped
<1>2. Exposed' <= Exposed /\ Slots' <= Slots
  <2>1. old \in [Instruments -> Nat] /\ old' = old
    BY DEF Books, Shapes
  <2>2. Exposure(old, Committed') <= Exposure(old, Committed) /\ Taken(old, Committed') <= Taken(old, Committed)
    BY <1>1, <2>1, ExposureGrows
  <2> QED
    BY <2>1, <2>2 DEF Exposed, Slots
<1>3. Reserved' <= Reserved
  <2>1. held \in [Instruments -> Nat] /\ held' = held
    BY DEF Books, Shapes
  <2>2. Reserve(Committed', held) <= Reserve(Committed, held)
    BY <1>1, <2>1, ReserveGrows
  <2> QED
    BY <2>1, <2>2 DEF Reserved
<1>4. Exposed \in Nat /\ Slots \in Nat /\ Reserved \in Nat
  BY <1>0 DEF CommitTyped
<1>5. Exposed' \in Nat /\ Slots' \in Nat /\ Reserved' \in Nat
  BY <1>0 DEF CommitTyped
<1>6. /\ job.base \in Nat /\ job.pending \in Nat /\ job.projected \in Nat /\ job.money \in Int /\ cash \in Int
      /\ MaxTotalExposure \in Nat /\ MaxOpenPositions \in Nat /\ Worth(old) \in Nat
      /\ Cardinality({i \in Instruments : old[i] > 0}) \in Nat
  BY <1>0, JobType, BudgetAssumption DEF CommitTyped, Books, Shapes
<1>7. Adding => orderNotional(job.i) \in Nat
  <2> SUFFICES ASSUME Adding PROVE orderNotional(job.i) \in Nat
    OBVIOUS
  <2>1. job.i \in Instruments /\ orders[job.i] # None
    BY DEF Adding, Between, Placing, Posting, Books, JobFits
  <2>2. orders[job.i].qty \in Nat /\ LotNotional[job.i] \in Nat
    BY <2>1, RowType, Lot DEF Books
  <2> QED
    BY <2>2 DEF orderNotional
<1>8. ExposureKept'
  <2>1. Exposed' <= Larger(MaxTotalExposure, Worth(old'))
    BY <1>2, <1>4, <1>5, <1>6 DEF Kept, ExposureKept, Larger
  <2>2. Between' => Exposed' <= job'.base + job'.pending
    BY <1>2, <1>4, <1>5, <1>6 DEF Kept, ExposureKept
  <2>3. Adding' => Exposed' <= job'.base + job'.pending + orderNotional(job.i)'
    BY <1>2, <1>4, <1>5, <1>6, <1>7 DEF Kept, ExposureKept
  <2> QED
    BY <2>1, <2>2, <2>3 DEF ExposureKept
<1>9. CashKept'
  <2>1. Reserved' <= cash'
    BY <1>3, <1>4, <1>5, <1>6 DEF Kept, CashKept
  <2>2. Between' => Reserved' <= job'.pending
    BY <1>3, <1>4, <1>5, <1>6 DEF Kept, CashKept
  <2>3. Adding' => Reserved' <= job'.pending + orderNotional(job.i)'
    BY <1>3, <1>4, <1>5, <1>6, <1>7 DEF Kept, CashKept
  <2>4. job'.pc = "sized" => job'.money - job'.pending <= cash' - Reserved'
    <3> SUFFICES ASSUME job'.pc = "sized" PROVE job'.money - job'.pending <= cash' - Reserved'
      OBVIOUS
    <3>1. job'.pending = job.pending /\ job'.money = job.money /\ job.money - job.pending <= cash - Reserved
      BY DEF Between, Kept, CashKept
    <3> QED
      BY <1>3, <1>4, <1>5, <1>6, <3>1
  <2> QED
    BY <2>1, <2>2, <2>3, <2>4 DEF CashKept
<1>10. SlotsKept'
  <2>1. Slots' <= Larger(MaxOpenPositions, Cardinality({i \in Instruments : old'[i] > 0}))
    BY <1>2, <1>4, <1>5, <1>6 DEF Kept, SlotsKept, Larger
  <2>2. Between' => Slots' <= job'.projected \/ Stray' # {}
    BY <1>2, <1>4, <1>5, <1>6 DEF Kept, SlotsKept
  <2>3. Adding' => Slots' <= job'.projected + 1
    BY <1>2, <1>4, <1>5, <1>6 DEF Kept, SlotsKept
  <2>4. job'.pc = "sized" => Stray' \subseteq job'.seen /\ job'.projected < MaxOpenPositions
    BY DEF Between, Kept, SlotsKept
  <2> QED
    BY <2>1, <2>2, <2>3, <2>4 DEF SlotsKept
<1> QED
  BY <1>8, <1>9, <1>10 DEF Kept

(* Steps that leave the rows alone, or change that of one order at work.    *)
LEMMA CommitStays ==
    ASSUME Books, Books', UNCHANGED <<orders, held>>, \A i \in Instruments : broker'[i].open <= broker[i].open,
           job'.pc = "repost" => job.pc = "repost" /\ job'.i = job.i
    PROVE  \A i \in Instruments : Commit(i)' <= Commit(i)
<1> SUFFICES ASSUME NEW i \in Instruments PROVE Commit(i)' <= Commit(i)
  OBVIOUS
<1>1. CommitFits /\ CommitFits'
  <2>1. CommitFits'
    BY CommitBounds, PTL
  <2> QED
    BY <2>1, CommitBounds
<1>2. /\ Commit(i) \in Nat /\ held[i] \in Nat /\ broker[i].open \in Nat /\ held[i] + broker[i].open <= Commit(i)
      /\ broker'[i].open \in Nat /\ broker'[i].open <= broker[i].open
  BY <1>1 DEF CommitFits
<1>3. CASE Pending(i)'
  <2>1. Pending(i)
    BY <1>3 DEF Pending, Active
  <2> QED
    BY <1>2, <1>3, <2>1 DEF Commit, Target
<1>4. CASE ~Pending(i)'
  <2>1. Commit(i)' = held[i] + broker'[i].open
    BY <1>4 DEF Commit
  <2> QED
    BY <1>2, <2>1
<1> QED
  BY <1>3, <1>4

(* An instrument whose row says the same of what it may buy. *)
LEMMA CommitAt ==
    ASSUME Books, Books', NEW a \in Instruments, Pending(a),
           orders'[a] # None, orders'[a].before + orders'[a].qty = Target(a), UNCHANGED held,
           \A j \in Instruments : j # a => orders'[j] = orders[j] /\ broker'[j].open <= broker[j].open,
           job'.pc = "repost" => job'.i = a
    PROVE  \A i \in Instruments : Commit(i)' <= Commit(i)
<1> SUFFICES ASSUME NEW i \in Instruments PROVE Commit(i)' <= Commit(i)
  OBVIOUS
<1>1. CommitFits /\ CommitFits'
  <2>1. CommitFits'
    BY CommitBounds, PTL
  <2> QED
    BY <2>1, CommitBounds
<1>2. CASE i = a
  <2>1. Commit(i)' <= orders'[i].before + orders'[i].qty
    BY <1>1, <1>2 DEF CommitFits, Target
  <2> QED
    BY <1>2, <2>1 DEF Commit
<1>3. CASE i # a
  <2>1. /\ Commit(i) \in Nat /\ held[i] \in Nat /\ broker[i].open \in Nat /\ held[i] + broker[i].open <= Commit(i)
        /\ broker'[i].open \in Nat /\ broker'[i].open <= broker[i].open /\ orders'[i] = orders[i]
    BY <1>1, <1>3 DEF CommitFits
  <2>2. CASE Pending(i)'
    <3>1. Pending(i)
      BY <1>3, <2>1, <2>2 DEF Pending, Active
    <3> QED
      BY <2>1, <2>2, <3>1 DEF Commit, Target
  <2>3. CASE ~Pending(i)'
    <3>1. Commit(i)' = held[i] + broker'[i].open
      BY <2>3 DEF Commit
    <3> QED
      BY <2>1, <3>1
  <2> QED
    BY <2>2, <2>3
<1> QED
  BY <1>2, <1>3

(* A Step that is neither resting nor awaits an answer knows all orders.    *)
LEMMA AllKnown ==
    ASSUME OrdersKnown, \/ job.pc \notin {"down", "idle", "closing", "SENT", "FAILED"}
                        \/ job.pc = "idle" /\ ~halted
    PROVE  \A i \in Instruments : Working(i) => Active(i) /\ orders[i].known
BY DEF OrdersKnown, Explained

(* ... and steps that disturb no order leave it so. *)
LEMMA KnownStays ==
    ASSUME Shapes, \A i \in Instruments : Working(i) => Active(i) /\ orders[i].known,
           UNCHANGED orders, \A i \in Instruments : broker'[i].open = broker[i].open
    PROVE  OrdersKnown'
<1> SUFFICES ASSUME NEW i \in Instruments, Working(i)' PROVE Explained(i)'
  BY DEF OrdersKnown
<1>1. Working(i)
  BY DEF Working
<1> QED
  BY <1>1 DEF Explained, Active

(* Fills and cancellations bring forth no order. *)
LEMMA KnownBroker ==
    ASSUME IInv, NEW i \in Instruments, BrokerFills(i) \/ BrokerCancels(i)
    PROVE  OrdersKnown'
<1> SUFFICES ASSUME NEW j \in Instruments, Working(j)' PROVE Explained(j)'
  BY DEF OrdersKnown
<1>1. UNCHANGED <<orders, job, halted, state>>
  BY DEF BrokerFills, BrokerCancels, tables
<1>2. Working(j) /\ broker'[j].cancelling = broker[j].cancelling
  <2>1. broker \in [Instruments -> [open: Nat, cancelling: BOOLEAN]] /\ broker[j].open \in Nat
    BY MarketType DEF IInv, Books, Shapes
  <2>2. CASE BrokerFills(i)
    <3>1. PICK lots \in 1..broker[i].open : broker' = [broker EXCEPT ![i].open = @ - lots]
      BY <2>2 DEF BrokerFills
    <3>2. CASE j = i
      BY <2>1, <3>1, <3>2 DEF Working
    <3>3. CASE j # i
      BY <2>1, <3>1, <3>3 DEF Working
    <3> QED
      BY <3>2, <3>3
  <2>3. CASE BrokerCancels(i)
    <3>1. broker' = [broker EXCEPT ![i].open = 0]
      BY <2>3 DEF BrokerCancels
    <3> QED
      BY <2>1, <3>1 DEF Working
  <2> QED
    BY <2>2, <2>3
<1>3. Explained(j)
  BY <1>2 DEF IInv, OrdersKnown
<1> QED
  BY <1>1, <1>2, <1>3 DEF Explained, Active

(* Places that know all orders, and steps from them. *)
LEMMA KnownInStep ==
    ASSUME IInv, \/ EntryWindowOpens \/ PrepareSignals \/ StepPlace \/ TurnSkips \/ TurnReads \/ TurnEnds \/ PlacingEnds
                 \/ StepMonitor \/ RequestCancel \/ Book \/ ReconcileAfterFill \/ OperatorHalts
    PROVE  OrdersKnown'
<1>1. UNCHANGED orders
  BY DEF EntryWindowOpens, PrepareSignals, StepPlace, TurnSkips, TurnReads, TurnEnds, PlacingEnds,
         StepMonitor, RequestCancel, Book, ReconcileAfterFill, OperatorHalts, tables
<1>2. \A i \in Instruments : broker'[i].open = broker[i].open /\ (~RequestCancel => broker'[i] = broker[i])
  <2>1. CASE RequestCancel
    BY <2>1 DEF RequestCancel, IInv, Books, Shapes
  <2>2. CASE ~RequestCancel
    BY <2>2 DEF EntryWindowOpens, PrepareSignals, StepPlace, TurnSkips, TurnReads, TurnEnds, PlacingEnds,
                StepMonitor, Book, ReconcileAfterFill, OperatorHalts, market
  <2> QED
    BY <2>1, <2>2
<1>3. CASE EntryWindowOpens \/ OperatorHalts
  <2> SUFFICES ASSUME NEW i \in Instruments, Working(i)' PROVE Explained(i)'
    BY DEF OrdersKnown
  <2>1. /\ UNCHANGED <<job, state>> /\ (halted => halted') /\ broker'[i] = broker[i] /\ Explained(i)
    <3>1. Working(i) /\ broker'[i] = broker[i]
      BY <1>2, <1>3 DEF Working, EntryWindowOpens, OperatorHalts, market
    <3> QED
      BY <1>3, <3>1 DEF EntryWindowOpens, OperatorHalts, IInv, OrdersKnown
  <2> QED
    BY <1>1, <2>1 DEF Explained, Active
<1>4. CASE ~(EntryWindowOpens \/ OperatorHalts)
  <2>1. \/ job.pc \notin {"down", "idle", "closing", "SENT", "FAILED"}
        \/ job.pc = "idle" /\ ~halted
    BY <1>4 DEF PrepareSignals, StepPlace, TurnSkips, TurnReads, TurnEnds, PlacingEnds,
                StepMonitor, RequestCancel, Book, ReconcileAfterFill, At
  <2>2. \A i \in Instruments : Working(i) => Active(i) /\ orders[i].known
    BY <2>1, AllKnown DEF IInv
  <2> QED
    BY <1>1, <1>2, <2>2, KnownStays DEF IInv, Books
<1> QED
  BY <1>3, <1>4

(* The draft is written over no order that works. *)
LEMMA KnownTurnChecks ==
    ASSUME IInv, TurnChecks
    PROVE  OrdersKnown'
<1>1. job.pc = "sized" /\ UNCHANGED broker
  BY DEF TurnChecks, market, At
<1>2. \A i \in Instruments : Working(i) => Active(i) /\ orders[i].known
  BY <1>1, AllKnown DEF IInv
<1>3. CASE UNCHANGED orders
  BY <1>1, <1>2, <1>3, KnownStays DEF IInv, Books
<1>4. CASE orders[job.i] = None /\ EntryLots > 0 /\ Draft(job.i, 1, EntryLots)
  <2>1. job.i \in Instruments /\ EntryLots \in Nat
    BY <1>1, EntryLotsType DEF IInv, At
  <2>2. broker[job.i].open = 0
    BY <1>4, <2>1 DEF IInv, Books, RowsFit, RowFits
  <2>3. \A j \in Instruments : j # job.i => orders'[j] = orders[j]
    <3>1. 1 \in 1..MaxAttempts
      BY BudgetAssumption
    <3> QED
      BY <1>4, <2>1, <3>1, DraftFits DEF IInv
  <2> SUFFICES ASSUME NEW j \in Instruments, Working(j)' PROVE Explained(j)'
    BY DEF OrdersKnown
  <2>4. Working(j) /\ j # job.i
    BY <1>1, <2>2 DEF Working
  <2> QED
    BY <1>2, <2>3, <2>4 DEF Explained, Active
<1> QED
  BY <1>3, <1>4 DEF TurnChecks

(* An order that was just placed has its answer yet to be saved. *)
LEMMA KnownPost ==
    ASSUME IInv, Post
    PROVE  OrdersKnown'
<1>1. job.pc = "post" /\ UNCHANGED orders
  BY DEF Post, tables, At
<1>2. PICK accepted \in BOOLEAN, answer \in {"SENT", "REJECTED", "FAILED"} :
         /\ (answer = "REJECTED" => ~accepted)
         /\ broker' = IF accepted
                      THEN [broker EXCEPT ![job.i] = [open |-> orders[job.i].qty, cancelling |-> FALSE]]
                      ELSE broker
         /\ job' = [job EXCEPT !.pc = answer]
  BY DEF Post
<1>3. job'.pc = answer /\ job'.i = job.i
  BY <1>2 DEF IInv, Books, Shapes, Jobs
<1>4. \A i \in Instruments : Working(i) => Active(i) /\ orders[i].known
  BY <1>1, AllKnown DEF IInv
<1> SUFFICES ASSUME NEW j \in Instruments, Working(j)' PROVE Explained(j)'
  BY DEF OrdersKnown
<1>5. CASE ~accepted \/ j # job.i
  <2>1. broker'[j] = broker[j]
    BY <1>2, <1>5 DEF IInv, Books, Shapes
  <2> QED
    BY <1>1, <1>4, <2>1 DEF Working, Explained, Active
<1>6. CASE accepted /\ j = job.i
  BY <1>2, <1>3, <1>6 DEF Explained
<1> QED
  BY <1>5, <1>6

(* A saved answer makes the order known, an error halts the bot. *)
LEMMA KnownPersist ==
    ASSUME IInv, Persist
    PROVE  OrdersKnown'
<1>1. /\ UNCHANGED broker /\ job.pc \in {"SENT", "REJECTED", "FAILED"}
      /\ orders' = [orders EXCEPT ![job.i] = [orders[job.i] EXCEPT !.status = job.pc, !.known = ~At("FAILED")]]
  BY DEF Persist, UpsertOrder, market
<1>2. job.i \in Instruments /\ orders[job.i] # None /\ (job.pc = "REJECTED" => broker[job.i].open = 0)
  BY <1>1 DEF IInv, Books, JobFits, Posting
<1> DEFINE row == [orders[job.i] EXCEPT !.status = job.pc, !.known = ~At("FAILED")]
<1>3. row \in AnyRow /\ row.status = job.pc /\ row.known = ~At("FAILED")
  <2>1. orders[job.i] \in AnyRow /\ job.pc \in Statuses
    BY <1>1, <1>2, RowType DEF IInv, Books, Statuses
  <2> QED
    BY <2>1 DEF AnyRow
<1>4. orders' = [orders EXCEPT ![job.i] = row]
  BY <1>1
<1> HIDE DEF row
<1>5. orders'[job.i] = row /\ orders'[job.i] # None /\ \A j \in Instruments : j # job.i => orders'[j] = orders[j]
  BY <1>2, <1>3, <1>4, RowChanges DEF IInv, Books
<1>6. job.pc = "FAILED" => halted' = TRUE /\ job'.pc = "idle"
  BY DEF Persist, At, StepFails, Doing
<1> SUFFICES ASSUME NEW j \in Instruments, Working(j)' PROVE Explained(j)'
  BY DEF OrdersKnown
<1>7. Working(j)
  BY <1>1 DEF Working
<1>8. CASE job.pc = "FAILED"
  BY <1>6, <1>8 DEF Explained
<1>9. CASE job.pc # "FAILED" /\ j = job.i
  <2>1. job.pc = "SENT"
    BY <1>1, <1>2, <1>7, <1>9 DEF Working
  <2> QED
    BY <1>3, <1>5, <1>9, <2>1 DEF Explained, Active, isActiveOrder, At
<1>10. CASE job.pc # "FAILED" /\ j # job.i
  <2>1. Active(j) /\ orders[j].known
    BY <1>1, <1>7, <1>10 DEF IInv, OrdersKnown, Explained
  <2> QED
    BY <1>5, <1>10, <2>1 DEF Explained, Active
<1> QED
  BY <1>8, <1>9, <1>10

(* The rows of orders that work stay active. *)
LEMMA KnownMonitor ==
    ASSUME IInv, Cancelled \/ Repost \/ \E i \in Instruments : MonitorTurn(i)
    PROVE  OrdersKnown'
<1>1. job.pc \in {"monitor", "cancel", "repost"} /\ UNCHANGED <<signals, broker, held, open>>
  BY DEF Cancelled, Repost, MonitorTurn, given, market, At
<1>2. \A i \in Instruments : Working(i) => Active(i) /\ orders[i].known
  BY <1>1, AllKnown DEF IInv
<1>3. ASSUME NEW i \in Instruments, Active(i), Refresh(i) PROVE OrdersKnown'
  <2>1. /\ \A j \in Instruments : j # i => orders'[j] = orders[j]
        /\ orders'[i].known = orders[i].known
        /\ Working(i) => Active(i)'
    BY <1>1, <1>3, RefreshFits DEF IInv, Active
  <2> SUFFICES ASSUME NEW j \in Instruments, Working(j)' PROVE Explained(j)'
    BY DEF OrdersKnown
  <2>2. Working(j) /\ Active(j) /\ orders[j].known
    BY <1>1, <1>2 DEF Working
  <2>3. CASE j = i
    BY <2>1, <2>2, <2>3 DEF Explained
  <2>4. CASE j # i
    BY <2>1, <2>2, <2>4 DEF Explained, Active
  <2> QED
    BY <2>3, <2>4
<1>4. CASE Repost
  <2>1. CASE UNCHANGED orders
    BY <1>1, <1>2, <2>1, KnownStays DEF IInv, Books
  <2>2. CASE Draft(job.i, orders[job.i].attempt + 1, job.lots)
    <3>1. job.pc = "repost"
      BY <1>4 DEF Repost, At
    <3>2. job.i \in Instruments /\ orders[job.i] # None /\ orders[job.i].attempt < MaxAttempts /\ broker[job.i].open = 0
          /\ job.lots > 0
      BY <3>1 DEF IInv, Books, JobFits
    <3>3. orders[job.i].attempt + 1 \in 1..MaxAttempts /\ job.lots \in Nat
      <4>1. orders[job.i].attempt \in 1..MaxAttempts /\ job.lots \in Nat
        BY <3>2, RowType, JobType DEF IInv, Books
      <4>2. MaxAttempts \in Nat
        BY BudgetAssumption
      <4> QED
        BY <3>2, <4>1, <4>2
    <3>4. \A j \in Instruments : j # job.i => orders'[j] = orders[j]
      BY <2>2, <3>2, <3>3, DraftFits DEF IInv
    <3> SUFFICES ASSUME NEW j \in Instruments, Working(j)' PROVE Explained(j)'
      BY DEF OrdersKnown
    <3>5. Working(j) /\ j # job.i
      BY <1>1, <3>2 DEF Working
    <3> QED
      BY <1>2, <3>4, <3>5 DEF Explained, Active
  <2> QED
    BY <1>4, <2>1, <2>2 DEF Repost
<1>5. CASE Cancelled
  <2>1. job.i \in Instruments /\ Active(job.i) /\ Refresh(job.i)
    BY <1>5 DEF Cancelled, At, IInv, Books, JobFits
  <2> QED
    BY <1>3, <2>1
<1>6. ASSUME NEW i \in Instruments, MonitorTurn(i) PROVE OrdersKnown'
  <2>1. Active(i) /\ Refresh(i)
    BY <1>6 DEF MonitorTurn, At, IInv, Books, JobFits, Monitoring
  <2> QED
    BY <1>3, <2>1
<1> QED
  BY <1>4, <1>5, <1>6

(* Who does not know an order is halted, or reconciles before he starts. *)
LEMMA KnownRest ==
    ASSUME ~LateCancels, IInv, \/ JobFails \/ Crash \/ Start \/ Unhalt \/ \E i \in Instruments : ShutdownCancels(i)
    PROVE  OrdersKnown'
<1>1. CASE JobFails
  BY <1>1 DEF JobFails, StepFails, Doing, OrdersKnown, Explained
<1>2. CASE Crash
  <2>1. UNCHANGED <<orders, broker, state, halted>> /\ job'.pc = "down" /\ job.pc # "down"
    BY <1>2 DEF Crash, tables, market, Doing, At
  <2> SUFFICES ASSUME NEW j \in Instruments, Working(j)' PROVE Explained(j)'
    BY DEF OrdersKnown
  <2>2. Explained(j)
    BY <2>1 DEF IInv, OrdersKnown, Working
  <2>3. job.pc \in {"SENT", "FAILED"} => state \in {"PLACE", "MONITOR"}
    BY JobType DEF IInv, Books, JobFits, Placing, Monitoring, Posting
  <2> QED
    BY <2>1, <2>2, <2>3 DEF Explained, Active
<1>3. CASE Start
  <2>1. PICK verdict \in BOOLEAN :
           /\ IF state \in {"PLACE", "MONITOR"} THEN Critical(verdict) ELSE ~verdict
           /\ halted' = verdict
           /\ job' = Doing(IF verdict THEN "down" ELSE "idle")
    BY <1>3 DEF Start
  <2>2. /\ UNCHANGED <<orders, broker, state>> /\ job.pc = "down" /\ ~halted
        /\ state \in {"PLACE", "MONITOR"} \/ \A i \in Instruments : ~(Working(i) /\ broker[i].cancelling)
    BY <1>3 DEF Start, tables, market, At
  <2> SUFFICES ASSUME NEW j \in Instruments, Working(j)' PROVE Explained(j)'
    BY DEF OrdersKnown
  <2>3. Working(j) /\ Explained(j)
    BY <2>2 DEF IInv, OrdersKnown, Working
  <2>4. CASE verdict
    BY <2>1, <2>4 DEF Explained, Doing
  <2>5. CASE ~verdict
    <3>1. Active(j) /\ orders[j].known
      <4>1. CASE state \in {"PLACE", "MONITOR"}
        BY <2>1, <2>3, <2>5, <4>1 DEF Critical, Mismatch
      <4>2. CASE state \notin {"PLACE", "MONITOR"}
        BY <2>2, <2>3, <4>2 DEF Explained
      <4> QED
        BY <4>1, <4>2
    <3> QED
      BY <2>2, <3>1 DEF Explained, Active
  <2> QED
    BY <2>4, <2>5
<1>4. CASE Unhalt
  <2>1. UNCHANGED <<orders, broker>> /\ ~Mismatch
    BY <1>4 DEF Unhalt, Critical, tables, market
  <2> QED
    BY <2>1 DEF OrdersKnown, Explained, Working, Active, Mismatch
<1>5. ASSUME NEW i \in Instruments, ShutdownCancels(i) PROVE OrdersKnown'
  <2>1. /\ job.pc # "down" /\ job'.pc = "closing" /\ UNCHANGED <<state, halted>>
        /\ orders' = [orders EXCEPT ![i].status = "CANCELLED"]
        /\ broker' = IF orders[i].known THEN [broker EXCEPT ![i].cancelling = TRUE] ELSE broker
    BY <1>5 DEF ShutdownCancels, UpdateOrderStatus, At, Doing
  <2> SUFFICES ASSUME NEW j \in Instruments, Working(j)' PROVE Explained(j)'
    BY DEF OrdersKnown
  <2>2. /\ orders \in [Instruments -> AnyRow \cup {None}]
        /\ broker \in [Instruments -> [open: Nat, cancelling: BOOLEAN]]
    BY DEF IInv, Books, Shapes
  <2>3. /\ Working(j) /\ (broker[j].cancelling => broker'[j].cancelling)
        /\ j = i /\ orders[i].known => broker'[j].cancelling
        /\ j # i => orders'[j] = orders[j]
    BY <2>1, <2>2 DEF Working
  <2>4. Explained(j)
    BY <2>3 DEF IInv, OrdersKnown
  <2>5. job.pc \in {"SENT", "FAILED"} => state \in {"PLACE", "MONITOR"}
    BY JobType DEF IInv, Books, JobFits, Placing, Monitoring, Posting
  <2> QED
    BY <2>1, <2>3, <2>4, <2>5 DEF Explained, Active
<1> QED
  BY <1>1, <1>2, <1>3, <1>4, <1>5

-----------------------------------------------------------------------------
(* Steps after which no order is being placed. *)
LEMMA KeptAside ==
    ASSUME Books, Books', Kept, UNCHANGED <<old, held, cash>>,
           \A i \in Instruments : Commit(i)' <= Commit(i), ~Placing'
    PROVE  Kept'
<1>1. ~Between' /\ ~Adding' /\ job'.pc # "sized"
  BY DEF Between, Adding, Placing
<1> QED
  BY <1>1, KeptOn

(* Where no Step places orders there are no counters. *)
LEMMA KeptAtRest ==
    ASSUME IInv, Books', PlacingEnds \/ StepMonitor \/ JobFails \/ Crash \/ Start \/ Unhalt \/ PrepareSignals
    PROVE  Kept'
<1>1. UNCHANGED <<orders, old, broker, held, cash>>
  BY DEF PlacingEnds, StepMonitor, JobFails, Crash, Start, Unhalt, PrepareSignals, tables, given, fixed, market
<1>2. job'.pc \in {"down", "idle", "monitor"}
  <2>1. CASE StepMonitor
    BY <2>1 DEF StepMonitor, Doing
  <2>2. CASE Unhalt
    BY <2>2 DEF Unhalt, At
  <2>3. CASE PrepareSignals
    BY <2>3 DEF PrepareSignals, At, StepFails, Doing
  <2>4. CASE PlacingEnds \/ JobFails \/ Crash \/ Start
    BY <2>4 DEF PlacingEnds, JobFails, Crash, Start, StepFails, Doing
  <2> QED
    BY <2>1, <2>2, <2>3, <2>4
<1>3. ~Placing' /\ job'.pc # "repost"
  BY <1>2 DEF Placing, Posting
<1>4. \A i \in Instruments : broker'[i].open <= broker[i].open
  BY <1>1, CommitBounds DEF CommitFits, IInv
<1>5. \A i \in Instruments : Commit(i)' <= Commit(i)
  BY <1>1, <1>3, <1>4, CommitStays DEF IInv
<1> QED
  BY <1>1, <1>3, <1>5, KeptAside DEF IInv

(* monitorEntryOrders away from the rows. *)
LEMMA KeptInMonitor ==
    ASSUME IInv, Books', RequestCancel \/ Book \/ ReconcileAfterFill \/ (Repost /\ UNCHANGED orders)
    PROVE  Kept'
<1>1. UNCHANGED <<orders, old, held, cash>>
  BY DEF RequestCancel, Book, ReconcileAfterFill, Repost, tables, given, market
<1>2. \A i \in Instruments : broker'[i].open <= broker[i].open
  <2>1. \A i \in Instruments : broker'[i].open = broker[i].open
    <3>1. CASE RequestCancel
      BY <3>1 DEF RequestCancel, IInv, Books, Shapes
    <3>2. CASE ~RequestCancel
      BY <3>2 DEF Book, ReconcileAfterFill, Repost, market
    <3> QED
      BY <3>1, <3>2
  <2> QED
    BY <2>1, CommitBounds DEF CommitFits, IInv
<1>3. job'.pc \in {"cancel", "reconcile", "idle", "monitor", "book", "post"} /\ (job'.pc = "post" => job'.repost)
  <2>1. job \in Jobs
    BY DEF IInv, Books, Shapes
  <2>2. CASE RequestCancel
    BY <2>2 DEF RequestCancel, At
  <2>3. CASE Book
    <3>1. Monitored => job'.pc \in {"idle", "monitor"}
      BY DEF Monitored, Doing
    <3> QED
      BY <2>1, <2>3, <3>1 DEF Book, Jobs
  <2>4. CASE ReconcileAfterFill
    BY <2>4 DEF ReconcileAfterFill, Monitored, Doing
  <2>5. CASE Repost
    <3>1. job.repost
      BY <2>5 DEF Repost, At, IInv, Books, JobFits
    <3> QED
      BY <2>1, <2>5, <3>1 DEF Repost, Jobs
  <2> QED
    BY <2>2, <2>3, <2>4, <2>5
<1>4. ~Placing' /\ job'.pc # "repost"
  BY <1>3 DEF Placing, Posting
<1>5. \A i \in Instruments : Commit(i)' <= Commit(i)
  BY <1>1, <1>2, <1>4, CommitStays DEF IInv
<1> QED
  BY <1>1, <1>4, <1>5, KeptAside DEF IInv

(* Refreshing, cancelling and placing again commit no more than the first  *)
(* attempt.                                                                *)
LEMMA KeptAtOrder ==
    ASSUME IInv, Books', \/ Cancelled \/ (\E i \in Instruments : MonitorTurn(i) \/ ShutdownCancels(i))
                         \/ (Repost /\ Draft(job.i, orders[job.i].attempt + 1, job.lots)
                              /\ job' = [job EXCEPT !.pc = "post"])
    PROVE  Kept'
<1>0. job \in Jobs
  BY DEF IInv, Books, Shapes
<1>1. CASE Cancelled
  <2>1. /\ UNCHANGED <<signals, old, open, broker, held, cash>> /\ Refresh(job.i) /\ job.pc = "cancel"
        /\ job'.i = job.i /\ job'.pc \in {"book", "repost"}
    BY <1>0, <1>1 DEF Cancelled, given, market, At, Jobs
  <2>2. job.i \in Instruments /\ Active(job.i)
    BY <2>1 DEF IInv, Books, JobFits
  <2>3. /\ orders'[job.i] # None
        /\ \A j \in Instruments : j # job.i => orders'[j] = orders[j]
        /\ orders'[job.i].qty = orders[job.i].qty /\ orders'[job.i].before = orders[job.i].before
    BY <2>1, <2>2, RefreshFits DEF IInv, Active
  <2>4. \A j \in Instruments : broker'[j].open <= broker[j].open
    BY <2>1, CommitBounds DEF CommitFits, IInv
  <2>5. Pending(job.i) /\ orders'[job.i].before + orders'[job.i].qty = Target(job.i)
    BY <2>2, <2>3 DEF Pending, Active, Target
  <2>6. \A i \in Instruments : Commit(i)' <= Commit(i)
    BY <2>1, <2>2, <2>3, <2>4, <2>5, CommitAt DEF IInv
  <2>7. ~Placing'
    BY <2>1 DEF Placing, Posting
  <2> QED
    BY <2>1, <2>6, <2>7, KeptAside DEF IInv
<1>2. ASSUME NEW i \in Instruments, MonitorTurn(i) PROVE Kept'
  <2>1. /\ UNCHANGED <<signals, old, open, broker, held, cash>> /\ Refresh(i) /\ job.pc = "monitor" /\ i \in job.candidates
        /\ job'.pc \in {"book", "cancel"}
    BY <1>2 DEF MonitorTurn, given, market, At, Doing
  <2>2. Active(i)
    BY <2>1 DEF IInv, Books, JobFits, Monitoring
  <2>3. /\ orders'[i] # None
        /\ \A j \in Instruments : j # i => orders'[j] = orders[j]
        /\ orders'[i].qty = orders[i].qty /\ orders'[i].before = orders[i].before
    BY <2>1, <2>2, RefreshFits DEF IInv, Active
  <2>4. \A j \in Instruments : broker'[j].open <= broker[j].open
    BY <2>1, CommitBounds DEF CommitFits, IInv
  <2>5. Pending(i) /\ orders'[i].before + orders'[i].qty = Target(i)
    BY <2>2, <2>3 DEF Pending, Active, Target
  <2>6. \A j \in Instruments : Commit(j)' <= Commit(j)
    BY <2>1, <2>2, <2>3, <2>4, <2>5, CommitAt DEF IInv
  <2>7. ~Placing'
    BY <2>1 DEF Placing, Posting
  <2> QED
    BY <2>1, <2>6, <2>7, KeptAside DEF IInv
<1>3. ASSUME NEW i \in Instruments, ShutdownCancels(i) PROVE Kept'
  <2>1. /\ UNCHANGED <<signals, old, open, held, cash>> /\ job'.pc = "closing" /\ Active(i)
        /\ orders' = [orders EXCEPT ![i].status = "CANCELLED"]
        /\ broker' = IF orders[i].known THEN [broker EXCEPT ![i].cancelling = TRUE] ELSE broker
    BY <1>3 DEF ShutdownCancels, UpdateOrderStatus, given, Doing
  <2> DEFINE row == [orders[i] EXCEPT !.status = "CANCELLED"]
  <2>2. row \in AnyRow /\ row.qty = orders[i].qty /\ row.before = orders[i].before
    <3>1. orders[i] \in AnyRow
      BY <2>1, RowType DEF IInv, Books, Active
    <3> QED
      BY <3>1 DEF AnyRow, Statuses
  <2>3. orders' = [orders EXCEPT ![i] = row]
    BY <2>1 DEF IInv, Books, Shapes
  <2> HIDE DEF row
  <2>4. /\ orders'[i] # None /\ orders'[i] = row
        /\ \A j \in Instruments : j # i => orders'[j] = orders[j]
    BY <2>1, <2>2, <2>3, RowChanges DEF IInv, Books, Active
  <2>5. \A j \in Instruments : broker'[j].open <= broker[j].open
    <3>1. \A j \in Instruments : broker'[j].open = broker[j].open
      BY <2>1 DEF IInv, Books, Shapes
    <3> QED
      BY <3>1, CommitBounds DEF CommitFits, IInv
  <2>6. Pending(i) /\ orders'[i].before + orders'[i].qty = Target(i)
    BY <2>1, <2>2, <2>4 DEF Pending, Active, Target
  <2>7. \A j \in Instruments : Commit(j)' <= Commit(j)
    BY <2>1, <2>4, <2>5, <2>6, CommitAt DEF IInv
  <2>8. ~Placing'
    BY <2>1 DEF Placing, Posting
  <2> QED
    BY <2>1, <2>7, <2>8, KeptAside DEF IInv
<1>4. CASE Repost /\ Draft(job.i, orders[job.i].attempt + 1, job.lots) /\ job' = [job EXCEPT !.pc = "post"]
  <2>1. /\ UNCHANGED <<old, broker, held, cash>> /\ job.pc = "repost" /\ job'.pc = "post" /\ job'.repost = job.repost
    BY <1>0, <1>4 DEF Repost, given, market, At, Jobs
  <2>2. /\ job.i \in Instruments /\ orders[job.i] # None /\ orders[job.i].attempt < MaxAttempts /\ job.repost
        /\ job.lots > 0 /\ held[job.i] + job.lots = Target(job.i)
    BY <2>1 DEF IInv, Books, JobFits
  <2>3. orders[job.i].attempt + 1 \in 1..MaxAttempts /\ job.lots \in Nat
    <3>1. orders[job.i].attempt \in 1..MaxAttempts /\ job.lots \in Nat
      BY <2>2, RowType, JobType DEF IInv, Books
    <3>2. MaxAttempts \in Nat
      BY BudgetAssumption
    <3> QED
      BY <2>2, <3>1, <3>2
  <2>4. /\ orders'[job.i] = [attempt |-> orders[job.i].attempt + 1, status |-> "SENT", known |-> FALSE,
                             qty |-> job.lots, filled |-> 0, before |-> held[job.i]]
        /\ orders'[job.i] # None
        /\ \A j \in Instruments : j # job.i => orders'[j] = orders[j]
    BY <1>4, <2>2, <2>3, DraftFits DEF IInv
  <2>5. Pending(job.i) /\ orders'[job.i].before + orders'[job.i].qty = Target(job.i)
    BY <2>1, <2>2, <2>4 DEF Pending
  <2>6. \A j \in Instruments : broker'[j].open <= broker[j].open
    BY <2>1, CommitBounds DEF CommitFits, IInv
  <2>7. \A j \in Instruments : Commit(j)' <= Commit(j)
    BY <2>1, <2>2, <2>4, <2>5, <2>6, CommitAt DEF IInv
  <2>8. ~Placing'
    BY <2>1, <2>2 DEF Placing, Posting
  <2> QED
    BY <2>1, <2>7, <2>8, KeptAside DEF IInv
<1> QED
  BY <1>1, <1>2, <1>3, <1>4

(* Steps at which the loop stays where it is, or skips an instrument. *)
LEMMA KeptInPlace ==
    ASSUME IInv, Books', \/ EntryWindowOpens \/ OperatorHalts \/ (\E i \in Instruments : BrokerCancels(i))
                         \/ (Skip /\ job.pc \in {"turn", "sized"} /\ UNCHANGED <<orders, pos, old, broker, held, cash>>)
    PROVE  Kept'
<1>1. /\ UNCHANGED <<orders, pos, old, held, cash>>
      /\ job' = job \/ (Skip /\ job.pc \in {"turn", "sized"})
  BY DEF EntryWindowOpens, OperatorHalts, BrokerCancels, tables, given, fixed, market
<1>2. \A i \in Instruments : broker'[i].open <= broker[i].open
  <2>1. \A i \in Instruments : broker[i].open \in Nat /\ broker'[i].open \in {broker[i].open, 0}
    <3>1. \A i \in Instruments : broker[i].open \in Nat
      BY CommitBounds DEF CommitFits, IInv
    <3>2. ASSUME NEW a \in Instruments, BrokerCancels(a), NEW i \in Instruments
          PROVE broker'[i].open \in {broker[i].open, 0}
      BY <3>2 DEF BrokerCancels, IInv, Books, Shapes
    <3>3. EntryWindowOpens \/ OperatorHalts => broker' = broker
      BY DEF EntryWindowOpens, OperatorHalts, market
    <3> QED
      BY <3>1, <3>2, <3>3
  <2> QED
    BY <2>1
<1>3. /\ job'.base = job.base /\ job'.pending = job.pending /\ job'.projected = job.projected
      /\ job' = job \/ (job'.pc = "turn" /\ job.pc \in {"turn", "sized"})
  <2>1. job \in Jobs
    BY DEF IInv, Books, Shapes
  <2>2. CASE job' = job
    BY <2>2
  <2>3. CASE Skip /\ job.pc \in {"turn", "sized"}
    BY <2>1, <2>3 DEF Skip, Jobs
  <2> QED
    BY <1>1, <2>2, <2>3
<1>4. \A i \in Instruments : Commit(i)' <= Commit(i)
  <2>1. job'.pc = "repost" => job.pc = "repost" /\ job'.i = job.i
    BY <1>3
  <2> QED
    BY <1>1, <1>2, <2>1, CommitStays DEF IInv
<1>5. Stray' = Stray
  BY <1>1 DEF Stray, Active
<1>6. Between' => Between
  BY <1>3 DEF Between
<1>7. Adding' => Adding /\ orderNotional(job.i)' = orderNotional(job.i)
  <2>1. CASE job' = job
    BY <1>1, <2>1 DEF Adding, Between, Placing, Posting, orderNotional
  <2>2. CASE job'.pc = "turn"
    BY <2>2 DEF Adding, Between
  <2> QED
    BY <1>3, <2>1, <2>2
<1>8. job'.pc = "sized" => job.pc = "sized" /\ job'.money = job.money /\ job'.seen = job.seen
  BY <1>3
<1> QED
  BY <1>1, <1>3, <1>4, <1>5, <1>6, <1>7, <1>8, KeptOn DEF IInv

(* The loop skips an instrument. *)
LEMMA KeptTurnSkips ==
    ASSUME IInv, Books', TurnSkips
    PROVE  Kept'
BY KeptInPlace DEF TurnSkips, tables, given, market, At

(* Steps that touch neither rows nor the market commit the same. *)
LEMMA CommitSame ==
    ASSUME UNCHANGED <<orders, broker, held, old>>, job.pc # "repost", job'.pc # "repost"
    PROVE  /\ Committed' = Committed /\ Exposed' = Exposed /\ Reserved' = Reserved /\ Slots' = Slots
<1>1. \A i \in Instruments : Commit(i)' = Commit(i)
  BY DEF Commit, Pending, Active, Target
<1>2. Committed' = Committed
  BY <1>1 DEF Committed
<1> QED
  BY <1>2 DEF Exposed, Reserved, Slots

(* The cash read from the portfolio is no more than what there is. *)
LEMMA KeptTurnReads ==
    ASSUME IInv, Books', TurnReads
    PROVE  Kept'
<1>1. /\ UNCHANGED <<orders, pos, old, broker, held, cash>> /\ job.pc = "turn" /\ job.projected < MaxOpenPositions
      /\ job' = [job EXCEPT !.pc = "sized", !.money = cash, !.seen = {i \in Instruments : old[i] + held[i] > 0}]
  BY DEF TurnReads, SlotFree, tables, given, market, At
<1>2. /\ job'.pc = "sized" /\ job'.base = job.base /\ job'.pending = job.pending /\ job'.projected = job.projected
      /\ job'.money = cash /\ job'.seen = {i \in Instruments : old[i] + held[i] > 0}
  BY <1>1 DEF IInv, Books, Shapes, Jobs
<1>3. Exposed' = Exposed /\ Reserved' = Reserved /\ Slots' = Slots
  BY <1>1, <1>2, CommitSame
<1>4. Stray' = Stray /\ Stray \subseteq job'.seen
  <2>1. \A i \in Instruments : old[i] \in Nat /\ held[i] \in Nat
    BY MarketType DEF IInv, Books
  <2> QED
    BY <1>1, <1>2, <2>1 DEF Stray, Active
<1>5. Between /\ Between' /\ ~Adding'
  BY <1>1, <1>2 DEF Between, Adding
<1>6. /\ Reserved \in Int /\ job.pending \in Int /\ cash \in Int
  BY CommittedType, JobType DEF CommitTyped, IInv, Books, Shapes
<1>7. ExposureKept'
  BY <1>1, <1>2, <1>3, <1>5 DEF ExposureKept, Kept, IInv
<1>8. CashKept'
  <2>1. Reserved <= cash /\ Reserved <= job.pending
    BY <1>5 DEF CashKept, Kept, IInv
  <2>2. cash - job.pending <= cash - Reserved
    BY <1>6, <2>1
  <2> QED
    BY <1>1, <1>2, <1>3, <1>5, <2>1, <2>2 DEF CashKept
<1>9. SlotsKept'
  <2>1. /\ Slots <= Larger(MaxOpenPositions, Cardinality({i \in Instruments : old[i] > 0}))
        /\ Slots <= job.projected \/ Stray # {}
    BY <1>5 DEF SlotsKept, Kept, IInv
  <2> QED
    BY <1>1, <1>2, <1>3, <1>4, <1>5, <2>1 DEF SlotsKept
<1> QED
  BY <1>7, <1>8, <1>9 DEF Kept

(* The counters take up what was just placed. *)
LEMMA KeptTurnEnds ==
    ASSUME IInv, Books', TurnEnds
    PROVE  Kept'
<1>1. /\ UNCHANGED <<orders, pos, old, broker, held, cash>> /\ job.pc = "placed"
      /\ job' = [job EXCEPT !.pc = "turn", !.i = @ + 1, !.projected = @ + 1,
                            !.pending = @ + orderNotional(job.i)]
  BY DEF TurnEnds, tables, given, market, At
<1>2. /\ job'.pc = "turn" /\ job'.base = job.base /\ job'.pending = job.pending + orderNotional(job.i)
      /\ job'.projected = job.projected + 1
  BY <1>1 DEF IInv, Books, Shapes, Jobs
<1>3. Exposed' = Exposed /\ Reserved' = Reserved /\ Slots' = Slots
  BY <1>1, <1>2, CommitSame
<1>4. Adding /\ Between' /\ ~Adding'
  BY <1>1, <1>2 DEF Between, Adding, Placing
<1>5. /\ job.base \in Int /\ job.pending \in Int /\ orderNotional(job.i) \in Int
  <2>1. job.i \in Instruments /\ orders[job.i] # None
    BY <1>1 DEF IInv, Books, JobFits
  <2>2. orders[job.i].qty \in Nat /\ LotNotional[job.i] \in Nat
    BY <2>1, RowType, Lot DEF IInv, Books
  <2> QED
    BY <2>2, JobType DEF orderNotional, IInv, Books
<1>6. ExposureKept'
  <2>1. Exposed <= Larger(MaxTotalExposure, Worth(old)) /\ Exposed <= job.base + job.pending + orderNotional(job.i)
    BY <1>4 DEF ExposureKept, Kept, IInv
  <2>2. job'.base + job'.pending = job.base + job.pending + orderNotional(job.i)
    BY <1>2, <1>5
  <2> QED
    BY <1>1, <1>3, <1>4, <2>1, <2>2 DEF ExposureKept
<1>7. CashKept'
  BY <1>1, <1>2, <1>3, <1>4 DEF CashKept, Kept, IInv
<1>8. SlotsKept'
  BY <1>1, <1>2, <1>3, <1>4 DEF SlotsKept, Kept, IInv
<1> QED
  BY <1>6, <1>7, <1>8 DEF Kept

(* The order is at the broker or rejected, and then saved. *)
LEMMA KeptPostPersist ==
    ASSUME IInv, Books', Post \/ Persist
    PROVE  Kept'
<1>1. /\ UNCHANGED <<pos, old, held, cash>> /\ job.pc \in {"post", "SENT", "REJECTED", "FAILED"}
  BY DEF Post, Persist, tables, given, market, At
<1>2. job.i \in Instruments /\ orders[job.i] # None /\ orders[job.i].status = "SENT" /\ job \in Jobs
  BY <1>1 DEF IInv, Books, Shapes, JobFits, Posting
<1>3. /\ orders'[job.i] # None /\ orders'[job.i].qty = orders[job.i].qty
      /\ orders'[job.i].before = orders[job.i].before
      /\ \A j \in Instruments : j # job.i => orders'[j] = orders[j] /\ broker'[j].open = broker[j].open
  <2>1. CASE Post
    <3>1. PICK accepted \in BOOLEAN :
             broker' = IF accepted
                       THEN [broker EXCEPT ![job.i] = [open |-> orders[job.i].qty, cancelling |-> FALSE]]
                       ELSE broker
      BY <2>1 DEF Post
    <3>2. UNCHANGED orders /\ broker \in [Instruments -> [open: Nat, cancelling: BOOLEAN]]
      BY <2>1 DEF Post, tables, IInv, Books, Shapes
    <3> QED
      BY <1>2, <3>1, <3>2
  <2>2. CASE Persist
    <3> DEFINE row == [orders[job.i] EXCEPT !.status = job.pc, !.known = ~At("FAILED")]
    <3>1. row \in AnyRow /\ row.qty = orders[job.i].qty /\ row.before = orders[job.i].before
      <4>1. orders[job.i] \in AnyRow /\ job.pc \in Statuses
        BY <1>2, <2>2, RowType DEF IInv, Books, Statuses, Persist
      <4> QED
        BY <4>1 DEF AnyRow
    <3>2. orders' = [orders EXCEPT ![job.i] = row] /\ UNCHANGED broker
      BY <2>2 DEF Persist, UpsertOrder, market
    <3> HIDE DEF row
    <3>3. orders'[job.i] = row /\ orders'[job.i] # None /\ \A j \in Instruments : j # job.i => orders'[j] = orders[j]
      BY <1>2, <3>1, <3>2, RowChanges DEF IInv, Books
    <3> QED
      BY <3>1, <3>2, <3>3
  <2> QED
    BY <2>1, <2>2
<1>4. /\ job'.pc # "repost" /\ ~Between'
      /\ Adding' => /\ Adding /\ job'.i = job.i /\ job'.base = job.base /\ job'.pending = job.pending
                    /\ job'.projected = job.projected
  <2>1. CASE Post
    <3>1. PICK answer \in {"SENT", "REJECTED", "FAILED"} : job' = [job EXCEPT !.pc = answer]
      BY <2>1 DEF Post
    <3>2. job'.pc = answer /\ job'.i = job.i /\ job'.base = job.base /\ job'.pending = job.pending
          /\ job'.projected = job.projected /\ job'.repost = job.repost
      BY <1>2, <3>1 DEF Jobs
    <3> QED
      BY <1>1, <3>2 DEF Adding, Between, Placing, Posting
  <2>2. CASE Persist /\ At("FAILED")
    BY <2>2 DEF Persist, StepFails, Doing, Adding, Between, Placing, Posting
  <2>3. CASE Persist /\ ~At("FAILED")
    <3>1. job' = [job EXCEPT !.pc = IF job.repost THEN "book" ELSE "placed"]
      BY <2>3 DEF Persist
    <3>2. job'.pc = (IF job.repost THEN "book" ELSE "placed") /\ job'.i = job.i /\ job'.base = job.base
          /\ job'.pending = job.pending /\ job'.projected = job.projected /\ job'.repost = job.repost
      BY <1>2, <3>1 DEF Jobs
    <3> QED
      BY <1>1, <3>2 DEF Adding, Between, Placing, Posting
  <2> QED
    BY <2>1, <2>2, <2>3
<1>5. \A j \in Instruments : Commit(j)' <= Commit(j)
  <2>1. Pending(job.i) /\ orders'[job.i].before + orders'[job.i].qty = Target(job.i)
    BY <1>2, <1>3 DEF Pending, Active, isActiveOrder, Target
  <2>2. \A j \in Instruments : j # job.i => broker'[j].open <= broker[j].open
    BY <1>3, CommitBounds DEF CommitFits, IInv
  <2> QED
    BY <1>1, <1>2, <1>3, <1>4, <2>1, <2>2, CommitAt DEF IInv
<1>6. Adding' => orderNotional(job.i)' = orderNotional(job.i)
  BY <1>3, <1>4 DEF orderNotional
<1>7. job'.pc # "sized"
  BY <1>4 DEF Between
<1> QED
  BY <1>1, <1>4, <1>5, <1>6, <1>7, KeptOn DEF IInv

(* A fill turns what is committed into what is held, and pays for it. *)
LEMMA KeptBrokerFills ==
    ASSUME IInv, Books', NEW a \in Instruments, BrokerFills(a)
    PROVE  Kept'
<1>1. PICK lots \in 1..broker[a].open :
          /\ broker' = [broker EXCEPT ![a].open = @ - lots]
          /\ held' = [held EXCEPT ![a] = @ + lots]
          /\ cash' = cash - lots * LotNotional[a]
  BY DEF BrokerFills
<1>2. UNCHANGED <<orders, pos, old, job>> /\ broker[a].open > 0
  BY DEF BrokerFills, tables, given
<1>3. /\ lots \in Nat /\ broker[a].open \in Nat /\ lots <= broker[a].open /\ held[a] \in Nat
      /\ broker'[a].open = broker[a].open - lots /\ held'[a] = held[a] + lots
      /\ \A i \in Instruments : i # a => broker'[i] = broker[i] /\ held'[i] = held[i]
  <2>1. broker[a].open \in Nat /\ held[a] \in Nat
    BY MarketType DEF IInv, Books
  <2> QED
    BY <1>1, <2>1 DEF IInv, Books, Shapes
<1>4. \A i \in Instruments : Commit(i)' = Commit(i)
  <2> SUFFICES ASSUME NEW i \in Instruments PROVE Commit(i)' = Commit(i)
    OBVIOUS
  <2>1. held'[i] + broker'[i].open = held[i] + broker[i].open
    BY <1>3
  <2> QED
    BY <1>2, <2>1 DEF Commit, Pending, Active, Target
<1>5. Committed' = Committed
  BY <1>4 DEF Committed
<1>6. Exposed' = Exposed /\ Slots' = Slots
  BY <1>2, <1>5 DEF Exposed, Slots
<1>7. CommitTyped /\ CommitTyped'
  <2>1. CommitTyped'
    BY CommittedType, PTL
  <2> QED
    BY <2>1, CommittedType DEF IInv
<1>8. Reserved' = Reserved - lots * LotNotional[a] /\ lots * LotNotional[a] \in Nat
  <2> DEFINE f == [i \in Instruments |-> Committed[i] - held[i]]
             g == [i \in Instruments |-> Committed[i] - held'[i]]
  <2>1. /\ f \in [Instruments -> Int] /\ g \in [Instruments -> Int]
        /\ f[a] = g[a] + lots /\ \A i \in Instruments : i # a => f[i] = g[i]
    BY <1>3, <1>5, <1>7 DEF CommitTyped
  <2> HIDE DEF f, g
  <2>2. Worth(f) = Worth(g) + lots * LotNotional[a] /\ lots * LotNotional[a] \in Int /\ Worth(g) \in Int
    <3>1. lots \in Int
      BY <1>3
    <3>2. Worth(f) = Worth(g) + lots * LotNotional[a] /\ lots * LotNotional[a] \in Int
      BY <2>1, <3>1, WorthOfMore
    <3> QED
      BY <2>1, <3>2, WorthType
  <2>3. Reserved = Worth(f) /\ Reserved' = Worth(g)
    BY <1>5 DEF Reserved, Reserve, f, g
  <2>4. lots * LotNotional[a] \in Nat
    BY <1>3, Lot
  <2> QED
    BY <2>2, <2>3, <2>4
<1>9. Between => Stray' = Stray
  <2> SUFFICES ASSUME Between PROVE Stray' = Stray
    OBVIOUS
  <2>1. Active(a)
    BY <1>2, AllKnown DEF Between, IInv, Working
  <2> QED
    BY <1>2, <1>3, <2>1 DEF Stray, Active
<1>10. /\ (Between' <=> Between) /\ (Adding' <=> Adding) /\ orderNotional(job.i)' = orderNotional(job.i)
  BY <1>2 DEF Between, Adding, Placing, Posting, orderNotional
<1>11. /\ Reserved \in Nat /\ Reserved' \in Nat /\ cash \in Int /\ job.pending \in Nat /\ job.money \in Int
  BY <1>7, JobType DEF CommitTyped, IInv, Books, Shapes
<1>12. ExposureKept'
  BY <1>2, <1>6, <1>10 DEF ExposureKept, Kept, IInv
<1>13. CashKept'
  <2>1. Reserved' <= cash' /\ cash' - Reserved' = cash - Reserved /\ Reserved' <= Reserved
    BY <1>1, <1>8, <1>11 DEF CashKept, Kept, IInv
  <2>2. Between' => Reserved' <= job'.pending
    BY <1>2, <1>10, <1>11, <2>1 DEF CashKept, Kept, IInv
  <2>3. Adding' => Reserved' <= job'.pending + orderNotional(job.i)'
    <3> SUFFICES ASSUME Adding PROVE Reserved' <= job.pending + orderNotional(job.i)
      BY <1>2, <1>10
    <3>1. orderNotional(job.i) \in Int
      <4>1. job.i \in Instruments /\ orders[job.i] # None
        BY DEF Adding, Between, Placing, Posting, IInv, Books, JobFits
      <4>2. orders[job.i].qty \in Nat /\ LotNotional[job.i] \in Nat
        BY <4>1, RowType, Lot DEF IInv, Books
      <4> QED
        BY <4>2 DEF orderNotional
    <3> QED
      BY <1>11, <2>1, <3>1 DEF CashKept, Kept, IInv
  <2>4. job'.pc = "sized" => job'.money - job'.pending <= cash' - Reserved'
    BY <1>2, <2>1 DEF CashKept, Kept, IInv
  <2> QED
    BY <2>1, <2>2, <2>3, <2>4 DEF CashKept
<1>14. SlotsKept'
  <2>1. job.pc = "sized" => Stray' \subseteq job.seen /\ job.projected < MaxOpenPositions
    BY <1>9 DEF Between, SlotsKept, Kept, IInv
  <2> QED
    BY <1>2, <1>6, <1>9, <1>10, <2>1 DEF SlotsKept, Kept, IInv
<1> QED
  BY <1>12, <1>13, <1>14 DEF Kept

(* placeEntryOrders takes stock: its counters cover what is committed,      *)
(* unless there are holdings nobody can explain.                           *)
LEMMA KeptStepPlace ==
    ASSUME IInv, Books', StepPlace
    PROVE  Kept'
<1>1. /\ UNCHANGED <<orders, pos, old, broker, held, cash>> /\ job.pc = "idle" /\ ~halted
      /\ job' = [Doing("turn") EXCEPT !.i = 1, !.base = positionsExposure, !.pending = ordersExposure,
                                      !.projected = OpenPositions + countActiveOrders,
                                      !.candidates = entryOrderCandidates]
  BY DEF StepPlace, tables, given, market, At
<1>2. /\ job'.pc = "turn" /\ job'.base = positionsExposure /\ job'.pending = ordersExposure
      /\ job'.projected = OpenPositions + countActiveOrders
  <2>1. Doing("turn") \in Jobs /\ Doing("turn").pc = "turn"
    BY DoingType DEF Places, Doing
  <2> QED
    BY <1>1, <2>1 DEF Jobs
<1>3. Exposed' = Exposed /\ Reserved' = Reserved /\ Slots' = Slots
  BY <1>1, <1>2, CommitSame
<1>4. \A i \in Instruments : ~Active(i) => broker[i].open = 0
  <2>1. \A i \in Instruments : broker[i].open \in Nat
    BY CommitBounds DEF CommitFits, IInv
  <2> QED
    BY <1>1, <2>1, AllKnown DEF IInv, Working
<1>5. Left \in [Instruments -> Nat] /\ ordersExposure = Worth(Left) /\ ordersExposure \in Nat
  BY LeftType DEF IInv, Books
<1>6. CommitTyped
  BY CommittedType DEF IInv
<1>7. \A i \in Instruments : Committed[i] - held[i] <= Left[i] /\ held[i] <= Committed[i]
  <2> SUFFICES ASSUME NEW i \in Instruments PROVE Committed[i] - held[i] <= Left[i] /\ held[i] <= Committed[i]
    OBVIOUS
  <2>1. Committed[i] = Commit(i) /\ held[i] \in Nat /\ Commit(i) \in Nat /\ held[i] + broker[i].open <= Commit(i) /\ broker[i].open \in Nat
    BY <1>6, CommitBounds DEF CommitTyped, CommitFits, IInv
  <2>2. CASE Active(i)
    <3>1. orders[i] # None /\ Commit(i) = Target(i) /\ Left[i] = orders[i].qty - orders[i].filled
      BY <2>2 DEF Active, Commit, Pending, Left
    <3>2. /\ orders[i].before + orders[i].filled <= held[i]
          /\ orders[i].before \in Nat /\ orders[i].filled \in Nat /\ orders[i].qty \in Nat
      BY <3>1, RowType DEF IInv, Books, RowsFit, RowFits
    <3> QED
      BY <2>1, <3>1, <3>2 DEF Target
  <2>3. CASE ~Active(i)
    <3>1. Commit(i) = held[i] + broker[i].open /\ broker[i].open = 0 /\ Left[i] = 0
      BY <1>1, <1>4, <2>3 DEF Commit, Pending, Left
    <3> QED
      BY <2>1, <3>1
  <2> QED
    BY <2>2, <2>3
<1>8. Reserved <= ordersExposure
  <2> DEFINE f == [i \in Instruments |-> Committed[i] - held[i]]
  <2>1. f \in [Instruments -> Int] /\ Left \in [Instruments -> Int] /\ \A i \in Instruments : f[i] <= Left[i]
    BY <1>5, <1>6, <1>7 DEF CommitTyped
  <2> HIDE DEF f
  <2>2. Worth(f) <= Worth(Left)
    BY <2>1, WorthGrows
  <2> QED
    BY <1>5, <2>2 DEF Reserved, Reserve, f
<1>9. Exposed <= positionsExposure + ordersExposure
  <2> DEFINE f == [i \in Instruments |-> old[i] + held[i]]
             g == [i \in Instruments |-> Committed[i] - held[i]]
             h == [i \in Instruments |-> old[i] + Committed[i]]
  <2>1. /\ f \in [Instruments -> Int] /\ g \in [Instruments -> Int] /\ h \in [Instruments -> Int]
        /\ \A i \in Instruments : h[i] = f[i] + g[i]
    BY <1>6 DEF CommitTyped
  <2>2. Worth(f) <= positionsExposure /\ positionsExposure \in Nat
    BY AmountsType DEF IInv, Books
  <2>3. Exposed = Worth(h) /\ Reserved = Worth(g)
    BY DEF Exposed, Exposure, Reserved, Reserve
  <2> HIDE DEF f, g, h
  <2>4. Worth(h) = Worth(f) + Worth(g) /\ Worth(f) \in Int /\ Worth(g) \in Int
    BY <2>1, WorthAdds, WorthType
  <2> QED
    BY <1>5, <1>8, <2>2, <2>3, <2>4
<1>10. Slots <= OpenPositions + countActiveOrders \/ Stray # {}
  <2> SUFFICES ASSUME Stray = {} PROVE Slots <= OpenPositions + countActiveOrders
    OBVIOUS
  <2> DEFINE A == {i \in Instruments : old[i] > 0}
             B == {i \in Instruments : pos[i] > 0}
             C == {i \in Instruments : Active(i)}
             D == {i \in Instruments : old[i] + Committed[i] > 0}
  <2>1. D \subseteq (A \cup B) \cup C
    <3> SUFFICES ASSUME NEW i \in Instruments, old[i] + Committed[i] > 0, ~(old[i] > 0), ~(pos[i] > 0), ~Active(i)
                 PROVE  FALSE
      OBVIOUS
    <3>1. old[i] \in Nat /\ pos[i] \in Nat /\ held[i] \in Nat
      BY MarketType DEF IInv, Books
    <3>2. Committed[i] = held[i]
      BY <1>1, <1>4, <1>6, <3>1 DEF CommitTyped, Commit, Pending
    <3>3. i \in Stray
      BY <3>1, <3>2 DEF Stray
    <3> QED
      BY <3>3
  <2>2. /\ A \in SUBSET Instruments /\ B \in SUBSET Instruments /\ C \in SUBSET Instruments
        /\ D \in SUBSET Instruments
    OBVIOUS
  <2>3. OpenPositions = Cardinality(A) + Cardinality(B) /\ countActiveOrders = Cardinality(C) /\ Slots = Cardinality(D)
    BY DEF OpenPositions, countActiveOrders, Slots, Taken
  <2> HIDE DEF A, B, C, D
  <2>4. IsFiniteSet(A) /\ IsFiniteSet(B) /\ IsFiniteSet(C) /\ IsFiniteSet(A \cup B)
    BY <2>2, Finite, FS_Subset, FS_Union
  <2>5. /\ Cardinality(A) \in Nat /\ Cardinality(B) \in Nat /\ Cardinality(C) \in Nat
        /\ Cardinality(A \cup B) \in Nat /\ Cardinality(A \cap B) \in Nat /\ Cardinality((A \cup B) \cap C) \in Nat
        /\ Cardinality((A \cup B) \cup C) \in Nat
    <3>1. \A U \in SUBSET Instruments : Cardinality(U) \in Nat
      BY Finite, FS_Subset, FS_CardinalityType
    <3> QED
      BY <2>2, <3>1
  <2>6. Cardinality(A \cup B) = Cardinality(A) + Cardinality(B) - Cardinality(A \cap B)
    BY <2>4, FS_Union
  <2>7. Cardinality((A \cup B) \cup C) = Cardinality(A \cup B) + Cardinality(C) - Cardinality((A \cup B) \cap C)
    BY <2>4, FS_Union
  <2>8. Cardinality(D) \in Nat /\ Cardinality(D) <= Cardinality((A \cup B) \cup C)
    BY <2>1, <2>2, CardinalityGrows
  <2> QED
    BY <2>3, <2>5, <2>6, <2>7, <2>8
<1>11. Stray' = Stray
  BY <1>1 DEF Stray, Active
<1>12. Between' /\ ~Adding'
  BY <1>2 DEF Between, Adding
<1>13. ExposureKept'
  BY <1>1, <1>2, <1>3, <1>9, <1>12 DEF ExposureKept, Kept, IInv
<1>14. CashKept'
  BY <1>1, <1>2, <1>3, <1>8, <1>12 DEF CashKept, Kept, IInv
<1>15. SlotsKept'
  BY <1>1, <1>2, <1>3, <1>10, <1>11, <1>12 DEF SlotsKept, Kept, IInv
<1> QED
  BY <1>13, <1>14, <1>15 DEF Kept

(* Only a check that knows all holdings allows an order. *)
LEMMA NothingStray ==
    ASSUME Shapes, Stray \subseteq job.seen, NEW openPositions,
           "allowed" \in PreTradeCheck(unknownBrokerState(job.seen), openPositions)
    PROVE  Stray = {}
<1>1. unknownBrokerState(job.seen) = {}
  BY DEF PreTradeCheck, preTradeClockDrift, unknownBrokerState
<1>2. ~\E i \in job.seen : old[i] + pos[i] = 0
  BY <1>1 DEF unknownBrokerState
<1> QED
  BY <1>2 DEF Stray

(* A first order adds to what is committed what it may buy. *)
LEMMA CommitMore ==
    ASSUME Books, Books', NEW a \in Instruments, NEW lots \in Nat, lots > 0, orders[a] = None,
           Draft(a, 1, lots), UNCHANGED <<old, broker, held>>, job.pc # "repost", job'.pc # "repost"
    PROVE  /\ Exposed' = Exposed + lots * LotNotional[a] /\ Reserved' = Reserved + lots * LotNotional[a]
           /\ Slots' <= Slots + 1
           /\ orderNotional(a)' = lots * LotNotional[a] /\ lots * LotNotional[a] \in Nat
<1>1. CommitTyped /\ CommitTyped'
  <2>1. CommitTyped'
    BY CommittedType, PTL
  <2> QED
    BY <2>1, CommittedType
<1>2. /\ orders'[a] = [attempt |-> 1, status |-> "SENT", known |-> FALSE, qty |-> lots,
                       filled |-> 0, before |-> held[a]]
      /\ orders'[a] # None
      /\ \A j \in Instruments : j # a => orders'[j] = orders[j]
  <2>1. 1 \in 1..MaxAttempts
    BY BudgetAssumption
  <2> QED
    BY <2>1, DraftFits
<1>3. orders'[a].status = "SENT" /\ orders'[a].qty = lots /\ orders'[a].before = held[a]
  BY <1>2
<1>4. held[a] = 0 /\ broker[a].open = 0
  BY DEF Books, RowsFit, RowFits
<1>5. /\ Committed[a] = 0 /\ Committed'[a] = lots
      /\ \A j \in Instruments : j # a => Committed'[j] = Committed[j]
  <2>1. Commit(a) = 0
    BY <1>4 DEF Commit, Pending
  <2>2. Commit(a)' = lots
    BY <1>2, <1>3, <1>4 DEF Commit, Pending, Active, isActiveOrder, Target
  <2>3. \A j \in Instruments : j # a => Commit(j)' = Commit(j)
    BY <1>2 DEF Commit, Pending, Active, Target
  <2> QED
    BY <2>1, <2>2, <2>3 DEF Committed
<1>6. Committed' \in [Instruments -> Nat] /\ Committed \in [Instruments -> Nat]
  BY <1>1 DEF CommitTyped
<1>7. Exposed' = Exposed + lots * LotNotional[a]
  <2> DEFINE f == [i \in Instruments |-> old[i] + Committed[i]]
             g == [i \in Instruments |-> old[i] + Committed'[i]]
  <2>1. /\ f \in [Instruments -> Int] /\ g \in [Instruments -> Int]
        /\ g[a] = f[a] + lots /\ \A i \in Instruments : i # a => g[i] = f[i]
    BY <1>1, <1>5, <1>6 DEF CommitTyped
  <2>2. Exposed = Worth(f) /\ Exposed' = Worth(g)
    BY DEF Exposed, Exposure
  <2> HIDE DEF f, g
  <2> QED
    BY <2>1, <2>2, WorthOfMore
<1>8. Reserved' = Reserved + lots * LotNotional[a]
  <2> DEFINE f == [i \in Instruments |-> Committed[i] - held[i]]
             g == [i \in Instruments |-> Committed'[i] - held[i]]
  <2>1. /\ f \in [Instruments -> Int] /\ g \in [Instruments -> Int]
        /\ g[a] = f[a] + lots /\ \A i \in Instruments : i # a => g[i] = f[i]
    BY <1>1, <1>5, <1>6 DEF CommitTyped
  <2>2. Reserved = Worth(f) /\ Reserved' = Worth(g)
    BY DEF Reserved, Reserve
  <2> HIDE DEF f, g
  <2> QED
    BY <2>1, <2>2, WorthOfMore
<1>9. Slots' <= Slots + 1
  <2> DEFINE U == {i \in Instruments : old[i] + Committed[i] > 0}
             V == {i \in Instruments : old[i] + Committed'[i] > 0}
  <2>1. U \in SUBSET Instruments /\ V \in SUBSET Instruments /\ V \subseteq U \cup {a} /\ U \cup {a} \in SUBSET Instruments
    BY <1>5
  <2>2. Slots = Cardinality(U) /\ Slots' = Cardinality(V)
    BY DEF Slots, Taken
  <2> HIDE DEF U, V
  <2>3. IsFiniteSet(U)
    BY <2>1, Finite, FS_Subset
  <2>4. Cardinality(U) \in Nat /\ Cardinality(U \cup {a}) \in {Cardinality(U), Cardinality(U) + 1}
    BY <2>3, FS_AddElement, FS_CardinalityType
  <2>5. Cardinality(V) \in Nat /\ Cardinality(V) <= Cardinality(U \cup {a})
    BY <2>1, CardinalityGrows
  <2> QED
    BY <2>2, <2>4, <2>5
<1>10. orderNotional(a)' = lots * LotNotional[a] /\ lots * LotNotional[a] \in Nat
  BY <1>3, Lot DEF orderNotional
<1> QED
  BY <1>7, <1>8, <1>9, <1>10

(* The check before placing, and the draft. *)
LEMMA KeptTurnChecks ==
    ASSUME IInv, Books', TurnChecks
    PROVE  Kept'
<1>1. UNCHANGED <<pos, old, broker, held, cash>> /\ job.pc = "sized" /\ Between
  BY DEF TurnChecks, given, market, At, Between
<1>2. CASE Skip /\ UNCHANGED orders
  BY <1>1, <1>2, KeptInPlace
<1>3. CASE StepFails /\ UNCHANGED orders
  <2>1. job'.pc = "idle"
    BY <1>3 DEF StepFails, Doing
  <2>2. \A i \in Instruments : Commit(i)' <= Commit(i)
    <3>1. \A i \in Instruments : broker'[i].open <= broker[i].open
      BY <1>1, CommitBounds DEF CommitFits, IInv
    <3> QED
      BY <1>1, <1>3, <2>1, <3>1, CommitStays DEF IInv
  <2>3. ~Placing'
    BY <2>1 DEF Placing, Posting
  <2> QED
    BY <1>1, <2>2, <2>3, KeptAside DEF IInv
<1>4. CASE /\ EntryLots > 0
           /\ "allowed" \in PreTradeCheck(unknownBrokerState(job.seen), job.projected)
           /\ job' = [job EXCEPT !.pc = IF orders[job.i] = None THEN "post" ELSE "placed", !.lots = EntryLots]
           /\ IF orders[job.i] = None THEN Draft(job.i, 1, EntryLots) ELSE UNCHANGED orders
  <2>1. /\ job.i \in Instruments /\ EntryLots \in Nat
        /\ EntryLots * LotNotional[job.i] <= MaxTotalExposure - (job.base + job.pending)
        /\ EntryLots * LotNotional[job.i] <= job.money - job.pending
    BY <1>1, <1>4, EntryLotsType DEF IInv, At
  <2>2. /\ job'.pc = (IF orders[job.i] = None THEN "post" ELSE "placed") /\ job'.i = job.i
        /\ job'.base = job.base /\ job'.pending = job.pending /\ job'.projected = job.projected
        /\ job'.repost = job.repost
    <3>1. job \in Jobs
      BY DEF IInv, Books, Shapes
    <3> QED
      BY <1>4, <3>1 DEF Jobs
  <2>3. ~Between' /\ job'.pc \notin {"sized", "repost"}
    BY <2>2 DEF Between
  <2>4. /\ Exposed <= Larger(MaxTotalExposure, Worth(old)) /\ Exposed <= job.base + job.pending
        /\ Reserved <= cash /\ Reserved <= job.pending /\ job.money - job.pending <= cash - Reserved
        /\ Slots <= Larger(MaxOpenPositions, Cardinality({i \in Instruments : old[i] > 0}))
        /\ Slots <= job.projected /\ job.projected < MaxOpenPositions
    <3>1. Stray = {}
      BY <1>1, <1>4, NothingStray DEF SlotsKept, Kept, IInv, Books
    <3> QED
      BY <1>1, <3>1 DEF ExposureKept, CashKept, SlotsKept, Kept, IInv
  <2>5. /\ job.base \in Nat /\ job.pending \in Nat /\ job.projected \in Nat /\ job.money \in Int /\ cash \in Int
        /\ MaxTotalExposure \in Nat /\ MaxOpenPositions \in Nat
        /\ Exposed \in Nat /\ Reserved \in Nat /\ Slots \in Nat /\ Worth(old) \in Nat
        /\ Cardinality({i \in Instruments : old[i] > 0}) \in Nat
    BY CommittedType, JobType, BudgetAssumption DEF CommitTyped, IInv, Books, Shapes
  <2>6. /\ Exposed' <= Larger(MaxTotalExposure, Worth(old))
        /\ Exposed' <= job.base + job.pending + orderNotional(job.i)'
        /\ Reserved' <= cash /\ Reserved' <= job.pending + orderNotional(job.i)'
        /\ Slots' <= Larger(MaxOpenPositions, Cardinality({i \in Instruments : old[i] > 0}))
        /\ Slots' <= job.projected + 1
    <3>1. CASE orders[job.i] = None
      <4>1. /\ Exposed' = Exposed + EntryLots * LotNotional[job.i] /\ Reserved' = Reserved + EntryLots * LotNotional[job.i]
            /\ Slots' <= Slots + 1
            /\ orderNotional(job.i)' = EntryLots * LotNotional[job.i] /\ EntryLots * LotNotional[job.i] \in Nat
        <5>1. Draft(job.i, 1, EntryLots)
          BY <1>4, <3>1
        <5>2. /\ Exposed' = Exposed + EntryLots * LotNotional[job.i] /\ Reserved' = Reserved + EntryLots * LotNotional[job.i]
              /\ Slots' <= Slots + 1 /\ EntryLots * LotNotional[job.i] \in Nat
          BY <1>1, <1>4, <2>1, <2>3, <3>1, <5>1, CommitMore DEF IInv
        <5>3. orders'[job.i].qty = EntryLots
          <6>1. 1 \in 1..MaxAttempts
            BY BudgetAssumption
          <6>2. orders'[job.i] = [attempt |-> 1, status |-> "SENT", known |-> FALSE, qty |-> EntryLots,
                                  filled |-> 0, before |-> held[job.i]]
            BY <1>4, <2>1, <5>1, <6>1, DraftFits DEF IInv
          <6> QED
            BY <6>2
        <5> QED
          BY <2>2, <5>2, <5>3 DEF orderNotional
      <4>2. Slots' \in Nat
        <5>1. CommitTyped'
          BY CommittedType, PTL DEF IInv
        <5> QED
          BY <5>1 DEF CommitTyped
      <4> DEFINE more == EntryLots * LotNotional[job.i]
      <4>3. /\ Exposed' = Exposed + more /\ Reserved' = Reserved + more /\ orderNotional(job.i)' = more /\ more \in Nat
            /\ more <= MaxTotalExposure - (job.base + job.pending) /\ more <= job.money - job.pending
        BY <2>1, <4>1
      <4> HIDE DEF more
      <4>4. Exposed' <= MaxTotalExposure /\ Exposed' <= job.base + job.pending + orderNotional(job.i)'
        BY <2>4, <2>5, <4>3
      <4>5. Reserved' <= cash /\ Reserved' <= job.pending + orderNotional(job.i)'
        BY <2>4, <2>5, <4>3
      <4>6. Slots' <= MaxOpenPositions /\ Slots' <= job.projected + 1
        BY <2>4, <2>5, <4>1, <4>2
      <4>7. /\ MaxTotalExposure <= Larger(MaxTotalExposure, Worth(old))
            /\ MaxOpenPositions <= Larger(MaxOpenPositions, Cardinality({i \in Instruments : old[i] > 0}))
            /\ Larger(MaxTotalExposure, Worth(old)) \in Nat
            /\ Larger(MaxOpenPositions, Cardinality({i \in Instruments : old[i] > 0})) \in Nat
        BY <2>5 DEF Larger
      <4> QED
        BY <2>5, <4>2, <4>3, <4>4, <4>5, <4>6, <4>7
    <3>2. CASE orders[job.i] # None
      <4>1. UNCHANGED orders /\ Exposed' = Exposed /\ Reserved' = Reserved /\ Slots' = Slots
        BY <1>1, <1>4, <2>3, <3>2, CommitSame
      <4>2. orderNotional(job.i)' \in Nat
        <5>1. orders[job.i].qty \in Nat /\ LotNotional[job.i] \in Nat
          BY <2>1, <3>2, RowType, Lot DEF IInv, Books
        <5> QED
          BY <2>2, <4>1, <5>1 DEF orderNotional
      <4> QED
        BY <2>4, <2>5, <4>1, <4>2
    <3> QED
      BY <3>1, <3>2
  <2>7. ExposureKept'
    BY <1>1, <2>2, <2>3, <2>6 DEF ExposureKept
  <2>8. CashKept'
    BY <1>1, <2>2, <2>3, <2>6 DEF CashKept
  <2>9. SlotsKept'
    BY <1>1, <2>2, <2>3, <2>6 DEF SlotsKept
  <2> QED
    BY <2>7, <2>8, <2>9 DEF Kept
<1> QED
  BY <1>2, <1>3, <1>4 DEF TurnChecks

-----------------------------------------------------------------------------
(* At first nothing is committed. *)
LEMMA InitInv == Init => IInv
<1> SUFFICES ASSUME Init PROVE IInv
  OBVIOUS
<1>1. Books
  BY InitBooks
<1>2. CommitTyped
  BY <1>1, CommittedType
<1>3. /\ \A i \in Instruments : orders[i] = None /\ held[i] = 0 /\ broker[i].open = 0
      /\ job.pc = "idle" /\ cash \in Nat
  BY BudgetAssumption DEF Init, Doing
<1>4. \A i \in Instruments : Committed[i] = 0
  BY <1>2, <1>3 DEF CommitTyped, Commit, Pending
<1>5. OrdersKnown
  BY <1>3 DEF OrdersKnown, Working
<1>6. ~Between /\ ~Adding /\ job.pc # "sized"
  BY <1>3 DEF Between, Adding, Placing, Posting
<1>7. Exposed = Worth(old)
  <2> DEFINE f == [i \in Instruments |-> old[i] + Committed[i]]
  <2>1. f = old
    BY <1>2, <1>4 DEF CommitTyped
  <2> QED
    BY <2>1 DEF Exposed, Exposure
<1>8. Reserved <= cash
  <2> DEFINE f == [i \in Instruments |-> Committed[i] - held[i]]
             zero == [i \in Instruments |-> 0]
  <2>1. f = zero
    BY <1>3, <1>4
  <2>2. zero \in [Instruments -> Int] /\ \A i \in Instruments : zero[i] = zero[i] + zero[i]
    OBVIOUS
  <2>3. Reserved = Worth(f)
    BY DEF Reserved, Reserve
  <2> HIDE DEF f, zero
  <2>4. Worth(zero) = Worth(zero) + Worth(zero) /\ Worth(zero) \in Int
    BY <2>2, WorthAdds, WorthType
  <2> QED
    BY <1>3, <2>1, <2>3, <2>4
<1>9. Slots = Cardinality({i \in Instruments : old[i] > 0})
  <2> DEFINE U == {i \in Instruments : old[i] + Committed[i] > 0}
  <2>1. U = {i \in Instruments : old[i] > 0}
    BY <1>2, <1>4 DEF CommitTyped
  <2> QED
    BY <2>1 DEF Slots, Taken
<1>10. Kept
  <2>1. ExposureKept
    BY <1>2, <1>6, <1>7, BudgetAssumption DEF ExposureKept, Larger, CommitTyped
  <2>2. CashKept
    BY <1>6, <1>8 DEF CashKept
  <2>3. SlotsKept
    BY <1>2, <1>6, <1>9, BudgetAssumption DEF SlotsKept, Larger, CommitTyped
  <2> QED
    BY <2>1, <2>2, <2>3 DEF Kept
<1> QED
  BY <1>1, <1>5, <1>10 DEF IInv

(* Placing again what is left, or giving it up. *)
LEMMA KeptRepost ==
    ASSUME IInv, Books', Repost
    PROVE  Kept'
<1>1. \/ Repost /\ UNCHANGED orders
      \/ Repost /\ Draft(job.i, orders[job.i].attempt + 1, job.lots) /\ job' = [job EXCEPT !.pc = "post"]
  BY DEF Repost
<1>2. CASE Repost /\ UNCHANGED orders
  BY <1>2, KeptInMonitor
<1>3. CASE Repost /\ Draft(job.i, orders[job.i].attempt + 1, job.lots) /\ job' = [job EXCEPT !.pc = "post"]
  BY <1>3, KeptAtOrder
<1> QED
  BY <1>1, <1>2, <1>3

(* Every step keeps the budget. *)
LEMMA NextInv == ~LateCancels /\ IInv /\ [Next]_vars => IInv'
<1> SUFFICES ASSUME ~LateCancels, IInv, [Next]_vars PROVE IInv'
  OBVIOUS
<1>1. Books'
  BY NextBooks DEF IInv
<1> SUFFICES OrdersKnown' /\ Kept'
  BY <1>1 DEF IInv
<1>2. ASSUME NEW i \in Instruments, BrokerFills(i) \/ BrokerCancels(i) \/ MonitorTurn(i) \/ ShutdownCancels(i)
      PROVE  OrdersKnown' /\ Kept'
  <2>1. CASE BrokerFills(i)
    BY <1>1, <2>1, KnownBroker, KeptBrokerFills
  <2>2. CASE BrokerCancels(i)
    BY <1>1, <2>2, KnownBroker, KeptInPlace
  <2>3. CASE MonitorTurn(i)
    BY <1>1, <2>3, KnownMonitor, KeptAtOrder
  <2>4. CASE ShutdownCancels(i)
    BY <1>1, <2>4, KnownRest, KeptAtOrder
  <2> QED
    BY <1>2, <2>1, <2>2, <2>3, <2>4
<1>3. CASE EntryWindowOpens \/ OperatorHalts
  BY <1>1, <1>3, KnownInStep, KeptInPlace
<1>4. CASE PrepareSignals \/ StepMonitor \/ PlacingEnds
  BY <1>1, <1>4, KnownInStep, KeptAtRest
<1>5. CASE StepPlace
  BY <1>1, <1>5, KnownInStep, KeptStepPlace
<1>6. CASE TurnSkips
  BY <1>1, <1>6, KnownInStep, KeptTurnSkips
<1>7. CASE TurnReads
  BY <1>1, <1>7, KnownInStep, KeptTurnReads
<1>8. CASE TurnChecks
  BY <1>1, <1>8, KnownTurnChecks, KeptTurnChecks
<1>9. CASE Post
  BY <1>1, <1>9, KnownPost, KeptPostPersist
<1>10. CASE Persist
  BY <1>1, <1>10, KnownPersist, KeptPostPersist
<1>11. CASE TurnEnds
  BY <1>1, <1>11, KnownInStep, KeptTurnEnds
<1>12. CASE Cancelled
  BY <1>1, <1>12, KnownMonitor, KeptAtOrder
<1>13. CASE RequestCancel \/ Book \/ ReconcileAfterFill
  BY <1>1, <1>13, KnownInStep, KeptInMonitor
<1>14. CASE Repost
  BY <1>1, <1>14, KnownMonitor, KeptRepost
<1>15. CASE JobFails \/ Crash \/ Start \/ Unhalt
  BY <1>1, <1>15, KnownRest, KeptAtRest
<1>16. CASE UNCHANGED vars
  <2>1. UNCHANGED <<signals, orders, pos, old, broker, held, cash, state, halted, job>>
    BY <1>16 DEF vars
  <2>2. OrdersKnown'
    BY <2>1 DEF IInv, OrdersKnown, Working, Explained, Active
  <2>3. \A i \in Instruments : Commit(i)' = Commit(i)
    BY <2>1 DEF Commit, Pending, Active, Target
  <2>4. Committed' = Committed
    BY <2>3 DEF Committed
  <2>5. Exposed' = Exposed /\ Reserved' = Reserved /\ Slots' = Slots /\ Stray' = Stray
    BY <2>1, <2>4 DEF Exposed, Reserved, Slots, Stray, Active
  <2>6. (Between' <=> Between) /\ (Adding' <=> Adding) /\ orderNotional(job.i)' = orderNotional(job.i)
    BY <2>1 DEF Between, Adding, Placing, Posting, orderNotional
  <2>7. ExposureKept'
    BY <2>1, <2>5, <2>6 DEF ExposureKept, Kept, IInv
  <2>8. CashKept'
    BY <2>1, <2>5, <2>6 DEF CashKept, Kept, IInv
  <2>9. SlotsKept'
    BY <2>1, <2>5, <2>6 DEF SlotsKept, Kept, IInv
  <2> QED
    BY <2>2, <2>7, <2>8, <2>9 DEF Kept
<1> QED
  BY <1>2, <1>3, <1>4, <1>5, <1>6, <1>7, <1>8, <1>9, <1>10, <1>11, <1>12, <1>13, <1>14, <1>15, <1>16 DEF Next

(* What is held and works at the broker is part of what is committed. *)
LEMMA CommitLimits ==
    ASSUME IInv
    PROVE  ExposureBounded /\ SlotsBounded /\ CashCovers
<1> DEFINE had == [i \in Instruments |-> held[i] + broker[i].open]
           works == [i \in Instruments |-> broker[i].open]
           free == [i \in Instruments |-> Committed[i] - held[i]]
           all == [i \in Instruments |-> old[i] + held[i] + broker[i].open]
           sum == [i \in Instruments |-> old[i] + had[i]]
<1>1. CommitTyped /\ CommitFits /\ Kept /\ \A i \in Instruments : old[i] \in Nat
  BY CommittedType, CommitBounds DEF IInv, Books, Shapes
<1>2. /\ had \in [Instruments -> Nat] /\ Committed \in [Instruments -> Nat]
      /\ \A i \in Instruments : had[i] <= Committed[i]
      /\ old \in [Instruments -> Nat]
  BY <1>1 DEF CommitTyped, CommitFits
<1>3. /\ works \in [Instruments -> Int] /\ free \in [Instruments -> Int]
      /\ \A i \in Instruments : works[i] <= free[i]
  BY <1>1 DEF CommitTyped, CommitFits
<1>4. all = sum
  BY <1>1 DEF CommitFits
<1>5. {i \in Instruments : old[i] + held[i] > 0 \/ Working(i)} \subseteq {i \in Instruments : old[i] + had[i] > 0}
  BY <1>1 DEF CommitFits, Working
<1>6. Exposure(old, had) = Worth(sum)
  BY DEF Exposure
<1>7. Reserved = Worth(free)
  BY DEF Reserved, Reserve
<1> HIDE DEF had, works, free, all, sum
<1>8. /\ Exposure(old, had) <= Exposure(old, Committed) /\ Taken(old, had) <= Taken(old, Committed)
      /\ Exposure(old, had) \in Nat /\ Taken(old, had) \in Nat
  BY <1>2, ExposureGrows
<1>9. /\ Exposed \in Nat /\ Slots \in Nat /\ Reserved \in Nat /\ Worth(old) \in Nat /\ cash \in Int
      /\ Cardinality({i \in Instruments : old[i] > 0}) \in Nat
      /\ MaxTotalExposure \in Nat /\ MaxOpenPositions \in Nat
  BY <1>1, BudgetAssumption DEF CommitTyped, IInv, Books, Shapes
<1>10. ExposureBounded
  <2>1. Worth(sum) <= Exposed /\ Worth(sum) \in Nat
    BY <1>6, <1>8 DEF Exposed
  <2>2. Exposed <= Larger(MaxTotalExposure, Worth(old)) /\ Larger(MaxTotalExposure, Worth(old)) \in Nat
    BY <1>1, <1>9 DEF Kept, ExposureKept, Larger
  <2>3. Worth(all) <= Larger(MaxTotalExposure, Worth(old))
    BY <1>4, <1>9, <2>1, <2>2
  <2> QED
    BY <2>3 DEF ExposureBounded, all
<1>11. SlotsBounded
  <2> DEFINE U == {i \in Instruments : old[i] + held[i] > 0 \/ Working(i)}
             V == {i \in Instruments : old[i] + had[i] > 0}
             most == Larger(MaxOpenPositions, Cardinality({i \in Instruments : old[i] > 0}))
  <2>1. U \in SUBSET Instruments /\ V \in SUBSET Instruments /\ U \subseteq V
    BY <1>5
  <2>2. Taken(old, had) = Cardinality(V)
    BY DEF Taken
  <2>3. Slots <= most /\ most \in Nat
    BY <1>1, <1>9 DEF Kept, SlotsKept, Larger
  <2>4. U = {i \in Instruments : old[i] + held[i] > 0 \/ Working(i)}
    OBVIOUS
  <2>5. SlotsBounded <=> Cardinality(U) <= most
    BY DEF SlotsBounded
  <2> HIDE DEF U, V, most
  <2>6. Cardinality(U) \in Nat /\ Cardinality(V) \in Nat /\ Cardinality(U) <= Cardinality(V)
    BY <2>1, CardinalityGrows
  <2>7. Cardinality(V) <= Slots
    BY <1>8, <2>2 DEF Slots
  <2> QED
    BY <1>9, <2>3, <2>5, <2>6, <2>7
<1>12. CashCovers
  <2>1. Worth(works) <= Worth(free) /\ Worth(works) \in Int /\ Worth(free) \in Int
    BY <1>3, WorthGrows, WorthType
  <2>2. Worth(free) <= cash
    BY <1>1, <1>7 DEF Kept, CashKept
  <2>3. Worth(works) <= cash
    BY <1>9, <2>1, <2>2
  <2> QED
    BY <2>3 DEF CashCovers, works
<1> QED
  BY <1>10, <1>11, <1>12

-----------------------------------------------------------------------------
(* The bookkeeping of one instrument holds whatever a shutdown left behind. *)
LEMMA BooksKept == Spec => []Books
BY InitBooks, NextBooks, PTL DEF Spec

(* Rows, signals and jobs have their types, and no row was filled beyond    *)
(* its quantity: UpsertOrder and UpdateOrderStatus write no other.          *)
THEOREM TypeCorrect == Spec => []TypeOK
<1>1. Books => TypeOK
  <2> SUFFICES ASSUME Books PROVE TypeOK
    OBVIOUS
  <2>1. \A i \in Instruments : orders[i] # None => orders[i].filled <= orders[i].qty
    <3> SUFFICES ASSUME NEW i \in Instruments, orders[i] # None PROVE orders[i].filled <= orders[i].qty
      OBVIOUS
    <3>1. RowFits(i)
      BY DEF Books, RowsFit
    <3>2. /\ orders[i].qty \in Nat /\ orders[i].filled \in Nat /\ orders[i].before \in Nat
          /\ held[i] \in Nat /\ broker[i].open \in Nat
      BY RowType, MarketType DEF Books
    <3> QED
      BY <3>1, <3>2 DEF RowFits, Target
  <2>2. \A i \in Instruments : broker[i].open \in Nat /\ held[i] \in Nat
    BY MarketType DEF Books
  <2>3. job.pc \in Places /\ job.fill \in Nat /\ job.pending \in Nat
    BY JobType DEF Books
  <2> QED
    BY <2>1, <2>2, <2>3 DEF TypeOK, Books, Shapes
<1> QED
  BY <1>1, BooksKept, PTL

(* Reposts and second passes of placeEntryOrders never buy more than the    *)
(* signal, and that was sized with the factor: what is bought stays reduced *)
(* though Services.Sizer forgets the factor with the process.               *)
THEOREM ReductionKept == Spec => []ReducedKept
<1>1. Books => ReducedKept
  <2> SUFFICES ASSUME Books, poor, NEW i \in Instruments
               PROVE  100 * (held[i] + broker[i].open) * LotNotional[i] <= SizeFactor * Limit[i]
    BY DEF ReducedKept
  <2>1. /\ held[i] \in Nat /\ broker[i].open \in Nat /\ signals[i] \in Nat
        /\ LotNotional[i] \in Nat /\ Limit[i] \in Nat /\ SizeFactor \in Nat
    BY MarketType, Lot, BudgetAssumption DEF Books
  <2>2. held[i] + broker[i].open <= signals[i]
    <3>1. RowFits(i) /\ (orders[i] # None => Target(i) \in Nat)
      BY RowType DEF Books, RowsFit
    <3> QED
      BY <2>1, <3>1 DEF RowFits
  <2>3. 100 * (held[i] + broker[i].open) <= 100 * signals[i]
    BY <2>1, <2>2
  <2>4. /\ 100 * (held[i] + broker[i].open) * LotNotional[i] <= 100 * signals[i] * LotNotional[i]
        /\ 100 * (held[i] + broker[i].open) * LotNotional[i] \in Int /\ 100 * signals[i] * LotNotional[i] \in Int
    <3> DEFINE a == 100 * (held[i] + broker[i].open)
               b == 100 * signals[i]
    <3>1. a \in Int /\ b \in Int /\ a <= b
      BY <2>1, <2>3
    <3> HIDE DEF a, b
    <3>2. a * LotNotional[i] <= b * LotNotional[i] /\ a * LotNotional[i] \in Int /\ b * LotNotional[i] \in Int
      BY <2>1, <3>1, ProductGrows
    <3> QED
      BY <3>2 DEF a, b
  <2>5. 100 * signals[i] * LotNotional[i] <= SizeFactor * Limit[i]
    BY DEF Books, SignalsFit
  <2>6. SizeFactor * Limit[i] \in Int
    BY <2>1
  <2> QED
    BY <2>4, <2>5, <2>6
<1> QED
  BY <1>1, BooksKept, PTL

(* No instrument is bought beyond its signal, be its order lost, cancelled, *)
(* repeated or found again after a restart, also by an order that outlives  *)
(* a shutdown (LateCancels).                                               *)
THEOREM SignalsAreObeyed == Spec => [](\A i \in Instruments : held[i] + broker[i].open <= signals[i])
<1>1. Books => \A i \in Instruments : held[i] + broker[i].open <= signals[i]
  <2> SUFFICES ASSUME Books, NEW i \in Instruments PROVE held[i] + broker[i].open <= signals[i]
    OBVIOUS
  <2>1. held[i] \in Nat /\ broker[i].open \in Nat /\ signals[i] \in Nat
    BY MarketType DEF Books
  <2>2. RowFits(i) /\ (orders[i] # None => Target(i) \in Nat)
    BY RowType DEF Books, RowsFit
  <2> QED
    BY <2>1, <2>2 DEF RowFits
<1> QED
  BY <1>1, BooksKept, PTL

(* Signals that fit together: into what the cap leaves, into the cash and   *)
(* into the free slots.                                                    *)
Together ==
    /\ Worth(signals') <= Larger(MaxTotalExposure - positionsExposure, 0)
    /\ Worth(signals') <= Larger(cash, 0)
    /\ Cardinality({i \in Instruments : signals'[i] > 0}) <= Larger(MaxOpenPositions - OpenPositions, 0)

SignalsFitTogether == [][state # "READY" /\ state' = "READY" => Together]_vars

(* However many instruments have an edge, what prepareSignals allots them   *)
(* together exceeds no limit, before the loop that places them checks one. *)
THEOREM SignalsFitTheLimits == Spec => SignalsFitTogether
<1>1. Books /\ [Next]_vars => [state # "READY" /\ state' = "READY" => Together]_vars
  <2> SUFFICES ASSUME Books, [Next]_vars, state # "READY", state' = "READY" PROVE Together
    OBVIOUS
  <2>1. PrepareSignals
    <3>1. ASSUME NEW i \in Instruments
          PROVE  ~BrokerFills(i) /\ ~BrokerCancels(i) /\ ~MonitorTurn(i) /\ ~ShutdownCancels(i)
      BY DEF BrokerFills, BrokerCancels, MonitorTurn, ShutdownCancels
    <3>2. ~EntryWindowOpens /\ ~StepPlace /\ ~TurnSkips /\ ~TurnReads /\ ~TurnChecks
      BY DEF EntryWindowOpens, StepPlace, TurnSkips, TurnReads, TurnChecks
    <3>3. ~Post /\ ~Persist /\ ~TurnEnds /\ ~PlacingEnds
      BY DEF Post, Persist, TurnEnds, PlacingEnds
    <3>4. ~StepMonitor /\ ~Cancelled /\ ~RequestCancel /\ ~Repost /\ ~Book /\ ~ReconcileAfterFill
      BY DEF StepMonitor, Cancelled, RequestCancel, Repost, Book, ReconcileAfterFill
    <3>5. ~JobFails /\ ~Crash /\ ~Start /\ ~Unhalt /\ ~OperatorHalts
      BY DEF JobFails, Crash, Start, Unhalt, OperatorHalts
    <3>6. vars' # vars
      BY DEF vars
    <3> QED
      BY <3>1, <3>2, <3>3, <3>4, <3>5, <3>6 DEF Next
  <2>2. PICK enter \in SUBSET Instruments : UpsertSignals(applyBatchSignalLimits(enter, poor), N)
    BY <2>1 DEF PrepareSignals
  <2> DEFINE new == applyBatchSignalLimits(enter, poor)
  <2>3. /\ poor \in BOOLEAN /\ cash \in Int /\ positionsExposure \in Int /\ OpenPositions \in Int
    BY AmountsType DEF Books, Shapes
  <2>4. /\ Worth(new) <= Larger(MaxTotalExposure - positionsExposure, 0)
        /\ Worth(new) <= Larger(cash, 0)
        /\ Cardinality({i \in Instruments : new[i] > 0}) <= Larger(MaxOpenPositions - OpenPositions, 0)
    BY <2>3, BatchFits
  <2>5. new \in [Instruments -> Nat]
    BY <2>3, SignalsLimited
  <2> HIDE DEF new
  <2>6. signals' = new
    <3>1. \A i \in Instruments : i <= N
      BY BudgetAssumption DEF Instruments
    <3> QED
      BY <2>2, <2>5, <3>1 DEF UpsertSignals, new
  <2> QED
    BY <2>4, <2>6 DEF Together
<1> QED
  BY <1>1, BooksKept, PTL DEF Spec, SignalsFitTogether

(* The budget stands as long as no order a shutdown cancelled trades after  *)
(* a start that did not reconcile: System.Recover reconciles only where     *)
(* orders may be open.                                                      *)
LEMMA Invariance == ~LateCancels => (Spec => []IInv)
<1> SUFFICES ASSUME ~LateCancels PROVE Spec => []IInv
  OBVIOUS
<1>1. IInv /\ [Next]_vars => IInv'
  BY NextInv
<1> QED
  BY <1>1, InitInv, PTL DEF Spec

(* What is held and what works at the broker stays within the cap on        *)
(* exposure: the pendingExposure of placeEntryOrders misses nothing, be it  *)
(* filled, lost, placed again or left by an earlier pass.                   *)
THEOREM ExposureIsBounded == ~LateCancels => (Spec => []ExposureBounded)
<1>1. IInv => ExposureBounded
  BY CommitLimits
<1> QED
  BY <1>1, Invariance, PTL

(* ... and so do the instruments: projectedOpenPositions counts every one,  *)
(* or unknownBrokerState lets no order pass.                                *)
THEOREM SlotsAreBounded == ~LateCancels => (Spec => []SlotsBounded)
<1>1. IInv => SlotsBounded
  BY CommitLimits
<1> QED
  BY <1>1, Invariance, PTL

(* Every order was sized with the cash of GetPortfolio less what was        *)
(* reserved for those before: all that work can be paid.                    *)
THEOREM CashIsCovered == ~LateCancels => (Spec => []CashCovers)
<1>1. IInv => CashCovers
  BY CommitLimits
<1> QED
  BY <1>1, Invariance, PTL
=============================================================================
