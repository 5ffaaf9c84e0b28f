---------------------------- MODULE Amounts_proofs ----------------------------
(***************************************************************************)
(* What the proofs know of prices and of lots: the limit prices of Pricing *)
(* are passive, by the bounds of integer division; and sums over finite    *)
(* sets, the totals of MapThenSumSet, change and compare term by term.     *)
(***************************************************************************)
EXTENDS Pricing, FiniteSetTheorems, WellFoundedInduction, TLAPS

(* A quote is not crossed. *)
Quote(bestBid, bestAsk, tick) ==
    /\ bestBid \in Int /\ bestAsk \in Int /\ bestBid < bestAsk
    /\ tick \in Nat \ {0}

(* What decimal.Floor does to the number of ticks. *)
LEMMA FloorBounds ==
    ASSUME NEW price \in Int, NEW tick \in Nat \ {0}
    PROVE  /\ RoundFloor(price, tick) \in Int
           /\ RoundFloor(price, tick) <= price
           /\ price < RoundFloor(price, tick) + tick
<1>1. /\ price \div tick \in Int
      /\ price % tick \in 0..(tick - 1)
      /\ price = (tick * (price \div tick)) + (price % tick)
  BY SMT
<1> QED
  BY <1>1 DEF RoundFloor

(* The same of the number of ticks rounded up. *)
LEMMA CeilBounds ==
    ASSUME NEW price \in Int, NEW tick \in Nat \ {0}
    PROVE  /\ RoundCeil(price, tick) \in Int
           /\ RoundCeil(price, tick) >= price
           /\ price > RoundCeil(price, tick) - tick
<1>1. \A p \in Int : /\ RoundFloor(p, tick) \in Int
                      /\ RoundFloor(p, tick) <= p
                      /\ p < RoundFloor(p, tick) + tick
  BY FloorBounds
<1>2. -price \in Int
  OBVIOUS
<1>3. /\ RoundFloor(-price, tick) \in Int
      /\ RoundFloor(-price, tick) <= -price
      /\ -price < RoundFloor(-price, tick) + tick
  BY <1>1, <1>2
<1> QED
  BY <1>3 DEF RoundCeil

(* How far an order improves on the quote. *)
LEMMA Improvement ==
    ASSUME NEW tick \in Nat \ {0}, NEW improveTicks \in Int
    PROVE  tick * Ticks(improveTicks) \in Nat
<1>1. Ticks(improveTicks) \in Nat
  BY DEF Ticks
<1> QED
  BY <1>1

(* LimitBuyPrice: a buy order never reaches the best ask, whatever the      *)
(* spread, the tick and the improvement asked for, also of a quote that is *)
(* off the grid; it is not more than a tick behind the best bid, and ahead *)
(* of it by the improvement at most.                                       *)
THEOREM BuyIsPassive ==
    ASSUME NEW bestBid, NEW bestAsk, NEW tick, NEW improveTicks \in Int, Quote(bestBid, bestAsk, tick)
    PROVE  LET price == LimitBuyPrice(bestBid, bestAsk, tick, improveTicks)
           IN  /\ price < bestAsk
               /\ bestBid - tick < price
               /\ price <= bestBid + tick * Ticks(improveTicks)
<1> DEFINE better == tick * Ticks(improveTicks)
           candidate == bestBid + better
           wanted == IF candidate <= bestAsk - tick THEN candidate ELSE bestBid
<1>1. better \in Nat
  BY Improvement DEF Quote
<1>2. /\ wanted \in Int
      /\ bestBid <= wanted /\ wanted <= bestBid + better /\ wanted < bestAsk
  BY <1>1 DEF Quote
<1>3. /\ RoundFloor(wanted, tick) \in Int
      /\ RoundFloor(wanted, tick) <= wanted
      /\ wanted < RoundFloor(wanted, tick) + tick
  BY <1>2, FloorBounds DEF Quote
<1>4. LimitBuyPrice(bestBid, bestAsk, tick, improveTicks) = RoundFloor(wanted, tick)
  BY DEF LimitBuyPrice
<1> HIDE DEF better, candidate, wanted
<1>5. /\ RoundFloor(wanted, tick) < bestAsk
      /\ bestBid - tick < RoundFloor(wanted, tick)
      /\ RoundFloor(wanted, tick) <= bestBid + better
  BY <1>1, <1>2, <1>3 DEF Quote
<1> QED
  BY <1>4, <1>5 DEF better

(* LimitSellPrice, the other way round. *)
THEOREM SellIsPassive ==
    ASSUME NEW bestBid, NEW bestAsk, NEW tick, NEW improveTicks \in Int, Quote(bestBid, bestAsk, tick)
    PROVE  LET price == LimitSellPrice(bestBid, bestAsk, tick, improveTicks)
           IN  /\ price > bestBid
               /\ price < bestAsk + tick
               /\ bestAsk - tick * Ticks(improveTicks) <= price
<1> DEFINE better == tick * Ticks(improveTicks)
           candidate == bestAsk - better
           wanted == IF candidate >= bestBid + tick THEN candidate ELSE bestAsk
<1>1. better \in Nat
  BY Improvement DEF Quote
<1>2. /\ wanted \in Int
      /\ wanted <= bestAsk /\ bestAsk - better <= wanted /\ bestBid < wanted
  BY <1>1 DEF Quote
<1>3. /\ RoundCeil(wanted, tick) \in Int
      /\ RoundCeil(wanted, tick) >= wanted
      /\ wanted > RoundCeil(wanted, tick) - tick
  BY <1>2, CeilBounds DEF Quote
<1>4. LimitSellPrice(bestBid, bestAsk, tick, improveTicks) = RoundCeil(wanted, tick)
  BY DEF LimitSellPrice
<1> HIDE DEF better, candidate, wanted
<1>5. /\ RoundCeil(wanted, tick) > bestBid
      /\ RoundCeil(wanted, tick) < bestAsk + tick
      /\ bestAsk - better <= RoundCeil(wanted, tick)
  BY <1>1, <1>2, <1>3 DEF Quote
<1> QED
  BY <1>4, <1>5 DEF better

-----------------------------------------------------------------------------
(* Some element of a set, the one MapThenSumSet takes. *)
Some(s) == CHOOSE x \in s : TRUE

(* g sums h over the subsets of S, element by element. *)
Sums(g, h, S) ==
    g = [s \in SUBSET S |-> IF s = {} THEN 0 ELSE h[Some(s)] + g[s \ {Some(s)}]]

(* What h sums to, over all it is defined for. *)
Total(h) == (CHOOSE g : Sums(g, h, DOMAIN h))[DOMAIN h]

(* Whichever element is taken out of a set, its sum is that and the rest's. *)
Divides(g, h, S) ==
    \A T \in SUBSET S : g[T] \in Int /\ \A x \in T : g[T] = h[x] + g[T \ {x}]

(* Induction over the subsets of a finite set: what holds of a set whenever *)
(* it holds of all smaller ones holds of all.                              *)
LEMMA SubsetInduction ==
    ASSUME NEW S, IsFiniteSet(S), NEW P,
           \A T \in SUBSET S : (\A U \in SUBSET T : U # T => U \in P) => T \in P
    PROVE  \A T \in SUBSET S : T \in P
<1> SUFFICES ASSUME NEW T \in SUBSET S, T \notin P PROVE FALSE
  OBVIOUS
<1> DEFINE Bad == {U \in SUBSET S : U \notin P}
<1>1. IsWellFoundedOn(StrictSubsetOrdering(S), SUBSET S)
  <2>1. FiniteSubsetsOf(S) = SUBSET S
    BY FS_FiniteSubsetsOfFinite
  <2>2. IsWellFoundedOn(StrictSubsetOrdering(S), FiniteSubsetsOf(S))
    BY FS_StrictSubsetOrderingWellFounded
  <2> QED
    BY <2>1, <2>2
<1>2. Bad \subseteq SUBSET S /\ Bad # {}
  OBVIOUS
<1> HIDE DEF Bad
<1>3. PICK U \in Bad : \A V \in Bad : ~(<<V, U>> \in StrictSubsetOrdering(S))
  BY <1>1, <1>2, WFMin
<1>4. \A V \in SUBSET U : V # U => V \in P
  <2> SUFFICES ASSUME NEW V \in SUBSET U, V # U, V \notin P PROVE FALSE
    OBVIOUS
  <2>1. V \in Bad
    BY <1>2, <1>3 DEF Bad
  <2>2. <<V, U>> \in StrictSubsetOrdering(S)
    BY <1>2, <1>3, <2>1 DEF StrictSubsetOrdering
  <2> QED
    BY <1>3, <2>1, <2>2
<1> QED
  BY <1>2, <1>3, <1>4 DEF Bad

(* It is one of the set's. *)
LEMMA SomeElement == \A s : s # {} => Some(s) \in s
BY DEF Some

(* Two functions agree on a set. *)
Agree(h, l, U) == \A x \in U : h[x] = l[x]

(* Sums of functions that agree on a set agree there. *)
LEMMA SumsAgree ==
    ASSUME NEW S, NEW T, NEW U, U \subseteq S, U \subseteq T, IsFiniteSet(U),
           NEW g, NEW h, NEW k, NEW l, Sums(g, h, S), Sums(k, l, T), Agree(h, l, U)
    PROVE  g[U] = k[U]
<1> DEFINE P == {V \in SUBSET U : g[V] = k[V]}
<1>1. ASSUME NEW V \in SUBSET U, \A W \in SUBSET V : W # V => W \in P
      PROVE  V \in P
  <2>1. V \in SUBSET S /\ V \in SUBSET T
    OBVIOUS
  <2>2. CASE V = {}
    BY <2>1, <2>2 DEF Sums
  <2>3. CASE V # {}
    <3>1. Some(V) \in V
      BY <2>3, SomeElement
    <3>2. V \ {Some(V)} \in SUBSET V /\ V \ {Some(V)} # V
      BY <3>1
    <3>3. g[V \ {Some(V)}] = k[V \ {Some(V)}]
      BY <1>1, <3>2
    <3>4. g[V] = h[Some(V)] + g[V \ {Some(V)}] /\ k[V] = l[Some(V)] + k[V \ {Some(V)}]
      BY <2>1, <2>3 DEF Sums
    <3> QED
      BY <3>1, <3>3, <3>4 DEF Agree
  <2> QED
    BY <2>2, <2>3
<1> HIDE DEF P
<1>2. U \in P
  BY <1>1, SubsetInduction
<1> QED
  BY <1>2 DEF P

(* There are sums. *)
LEMMA SumsExist ==
    ASSUME NEW S, IsFiniteSet(S), NEW h
    PROVE  \E g : Sums(g, h, S)
<1> DEFINE P == {T \in SUBSET S : \E g : Sums(g, h, T)}
<1>1. ASSUME NEW T \in SUBSET S, \A U \in SUBSET T : U # T => U \in P
      PROVE  T \in P
  <2> DEFINE G == [U \in SUBSET T |-> (CHOOSE g : Sums(g, h, U))[U]]
             g == [s \in SUBSET T |-> IF s = {} THEN 0 ELSE h[Some(s)] + G[s \ {Some(s)}]]
  <2>1. ASSUME NEW U \in SUBSET T, U # T PROVE Sums(CHOOSE f : Sums(f, h, U), h, U)
    BY <1>1, <2>1
  <2>2. ASSUME NEW U \in SUBSET T, U # T PROVE g[U] = G[U]
    <3> DEFINE k == CHOOSE f : Sums(f, h, U)
    <3>1. Sums(k, h, U) /\ G[U] = k[U]
      BY <2>1, <2>2
    <3>2. CASE U = {}
      <4> HIDE DEF k, G
      <4> QED
        BY <3>1, <3>2 DEF Sums
    <3>3. CASE U # {}
      <4> DEFINE W == U \ {Some(U)}
                 l == CHOOSE f : Sums(f, h, W)
      <4>1. Some(U) \in U
        BY <3>3, SomeElement
      <4>2. W \in SUBSET T /\ W # T /\ W \in SUBSET U
        BY <2>2, <4>1
      <4>3. Sums(l, h, W) /\ G[W] = l[W]
        BY <2>1, <4>2
      <4>4. IsFiniteSet(W) /\ W \subseteq U /\ W \subseteq W
        BY <4>2, FS_Subset
      <4> HIDE DEF k, l, G, W
      <4>5. Agree(h, h, W)
        BY DEF Agree
      <4>8. k[W] = l[W]
        BY <3>1, <4>3, <4>4, <4>5, SumsAgree
      <4>6. k[U] = h[Some(U)] + k[W]
        BY <3>1, <3>3 DEF Sums, W
      <4>7. g[U] = h[Some(U)] + G[W]
        BY <3>3 DEF W
      <4> QED
        BY <3>1, <4>3, <4>8, <4>6, <4>7
    <3> QED
      BY <3>2, <3>3
  <2> HIDE DEF G
  <2>3. Sums(g, h, T)
    <3>1. ASSUME NEW s \in SUBSET T, s # {} PROVE g[s \ {Some(s)}] = G[s \ {Some(s)}]
      <4>1. Some(s) \in s
        BY <3>1, SomeElement
      <4> QED
        BY <2>2, <4>1
    <3> QED
      BY <3>1 DEF Sums
  <2> QED
    BY <2>3
<1> HIDE DEF P
<1>2. S \in P
  BY <1>1, SubsetInduction
<1> QED
  BY <1>2 DEF P

(* An element may be taken out of a sum, whichever it is. *)
LEMMA SumsRemove ==
    ASSUME NEW S, IsFiniteSet(S), NEW h, \A x \in S : h[x] \in Int, NEW g, Sums(g, h, S)
    PROVE  Divides(g, h, S)
<1> DEFINE P == {T \in SUBSET S : g[T] \in Int /\ \A x \in T : g[T] = h[x] + g[T \ {x}]}
<1>1. ASSUME NEW T \in SUBSET S, \A U \in SUBSET T : U # T => U \in P
      PROVE  T \in P
  <2>1. CASE T = {}
    BY <2>1 DEF Sums
  <2>2. CASE T # {}
    <3> DEFINE y == Some(T)
    <3>1. y \in T
      BY <2>2, SomeElement
    <3> HIDE DEF y
    <3>2. g[T] = h[y] + g[T \ {y}]
      BY <2>2 DEF Sums, y
    <3>3. T \ {y} \in P
      BY <1>1, <3>1
    <3>4. g[T] \in Int
      BY <3>1, <3>2, <3>3
    <3>5. ASSUME NEW x \in T, x # y PROVE g[T] = h[x] + g[T \ {x}]
      <4>1. T \ {x} \in P
        BY <1>1
      <4>2. (T \ {x}) \ {y} = (T \ {y}) \ {x}
        OBVIOUS
      <4>3. g[T \ {x}] = h[y] + g[(T \ {x}) \ {y}]
        BY <3>1, <3>5, <4>1
      <4>4. g[T \ {y}] = h[x] + g[(T \ {y}) \ {x}]
        BY <3>3, <3>5
      <4>5. (T \ {x}) \ {y} \in P
        BY <1>1, <3>1
      <4>6. h[x] \in Int /\ h[y] \in Int /\ g[(T \ {x}) \ {y}] \in Int
        BY <3>1, <4>5
      <4> DEFINE rest == g[(T \ {x}) \ {y}]
      <4>7. /\ g[T] = h[y] + g[T \ {y}] /\ g[T \ {y}] = h[x] + rest /\ g[T \ {x}] = h[y] + rest
            /\ rest \in Int
        BY <3>2, <4>2, <4>3, <4>4, <4>6
      <4> HIDE DEF rest
      <4> QED
        BY <4>6, <4>7
    <3> QED
      BY <3>2, <3>4, <3>5
  <2> QED
    BY <2>1, <2>2
<1> HIDE DEF P
<1>2. \A T \in SUBSET S : T \in P
  BY <1>1, SubsetInduction
<1> QED
  BY <1>2 DEF P, Divides

(* Of every function to integers on a finite set there is a sum, which      *)
(* divides and whose value on the whole set is the total.                   *)
LEMMA TotalSums ==
    ASSUME NEW S, IsFiniteSet(S), NEW h \in [S -> Int]
    PROVE  \E g : Sums(g, h, S) /\ Divides(g, h, S) /\ Total(h) = g[S]
<1> DEFINE g == CHOOSE f : Sums(f, h, S)
<1>1. Sums(g, h, S)
  BY SumsExist
<1>2. Total(h) = g[S]
  BY DEF Total
<1> HIDE DEF g
<1>3. \A x \in S : h[x] \in Int
  OBVIOUS
<1>4. Divides(g, h, S)
  BY <1>1, <1>3, SumsRemove
<1> QED
  BY <1>1, <1>2, <1>4

(* Whatever sums h, it has its total. *)
LEMMA TotalIs ==
    ASSUME NEW S, IsFiniteSet(S), NEW h, DOMAIN h = S, NEW g, Sums(g, h, S)
    PROVE  Total(h) = g[S]
<1> DEFINE f == CHOOSE k : Sums(k, h, S)
<1>1. Sums(f, h, S)
  BY SumsExist
<1>2. Total(h) = f[S]
  BY DEF Total
<1>3. Agree(h, h, S) /\ S \subseteq S
  BY DEF Agree
<1> HIDE DEF f
<1>4. f[S] = g[S]
  BY <1>1, <1>3, SumsAgree
<1> QED
  BY <1>2, <1>4

(* A sum is an integer. *)
LEMMA TotalType ==
    ASSUME NEW S, IsFiniteSet(S), NEW h \in [S -> Int]
    PROVE  Total(h) \in Int
<1>1. PICK g : Sums(g, h, S) /\ Divides(g, h, S) /\ Total(h) = g[S]
  BY TotalSums
<1> QED
  BY <1>1 DEF Divides

(* A sum changes as one of its terms does. *)
LEMMA TotalUpdate ==
    ASSUME NEW S, IsFiniteSet(S), NEW h \in [S -> Int], NEW k \in [S -> Int], NEW a \in S,
           \A b \in S : b # a => k[b] = h[b]
    PROVE  Total(k) = Total(h) + k[a] - h[a]
<1>1. PICK g : Sums(g, h, S) /\ Divides(g, h, S) /\ Total(h) = g[S]
  BY TotalSums
<1>2. PICK f : Sums(f, k, S) /\ Divides(f, k, S) /\ Total(k) = f[S]
  BY TotalSums
<1>3. IsFiniteSet(S \ {a})
  BY FS_RemoveElement
<1> DEFINE U == S \ {a}
<1>4. U \subseteq S /\ IsFiniteSet(U) /\ Agree(h, k, U)
  BY <1>3 DEF Agree
<1>5. g[U] = f[U]
  <2> HIDE DEF U
  <2> QED
    BY <1>1, <1>2, <1>4, SumsAgree
<1>6. g[S] = h[a] + g[U] /\ f[S] = k[a] + f[U] /\ g[U] \in Int
  BY <1>1, <1>2 DEF Divides, U
<1> QED
  BY <1>1, <1>2, <1>5, <1>6

(* A sum of larger terms is larger. *)
LEMMA TotalLeq ==
    ASSUME NEW S, IsFiniteSet(S), NEW h \in [S -> Int], NEW k \in [S -> Int],
           \A a \in S : h[a] <= k[a]
    PROVE  Total(h) <= Total(k)
<1>1. PICK g : Sums(g, h, S) /\ Divides(g, h, S) /\ Total(h) = g[S]
  BY TotalSums
<1>2. PICK f : Sums(f, k, S) /\ Divides(f, k, S) /\ Total(k) = f[S]
  BY TotalSums
<1> DEFINE P == {T \in SUBSET S : g[T] <= f[T]}
<1>3. ASSUME NEW T \in SUBSET S, \A U \in SUBSET T : U # T => U \in P
      PROVE  T \in P
  <2>1. CASE T = {}
    <3>1. g[T] = 0 /\ f[T] = 0
      BY <1>1, <1>2, <2>1 DEF Sums
    <3> QED
      BY <3>1
  <2>2. CASE T # {}
    <3>1. PICK x \in T : TRUE
      BY <2>2
    <3>2. T \ {x} \in P
      BY <1>3
    <3>3. /\ g[T] = h[x] + g[T \ {x}] /\ f[T] = k[x] + f[T \ {x}]
          /\ g[T \ {x}] \in Int /\ f[T \ {x}] \in Int
      BY <1>1, <1>2 DEF Divides
    <3>4. h[x] <= k[x] /\ h[x] \in Int /\ k[x] \in Int
      OBVIOUS
    <3> QED
      BY <3>2, <3>3, <3>4
  <2> QED
    BY <2>1, <2>2
<1> HIDE DEF P
<1>4. S \in P
  BY <1>3, SubsetInduction
<1> QED
  BY <1>1, <1>2, <1>4 DEF P

(* The sum of two sums is that of their terms. *)
LEMMA TotalAdd ==
    ASSUME NEW S, IsFiniteSet(S), NEW h \in [S -> Int], NEW k \in [S -> Int], NEW l \in [S -> Int],
           \A a \in S : l[a] = h[a] + k[a]
    PROVE  Total(l) = Total(h) + Total(k)
<1>1. PICK g : Sums(g, h, S) /\ Divides(g, h, S) /\ Total(h) = g[S]
  BY TotalSums
<1>2. PICK f : Sums(f, k, S) /\ Divides(f, k, S) /\ Total(k) = f[S]
  BY TotalSums
<1>3. PICK e : Sums(e, l, S) /\ Divides(e, l, S) /\ Total(l) = e[S]
  BY TotalSums
<1> DEFINE P == {T \in SUBSET S : e[T] = g[T] + f[T]}
<1>4. ASSUME NEW T \in SUBSET S, \A U \in SUBSET T : U # T => U \in P
      PROVE  T \in P
  <2>1. CASE T = {}
    <3>1. g[T] = 0 /\ f[T] = 0 /\ e[T] = 0
      BY <1>1, <1>2, <1>3, <2>1 DEF Sums
    <3> QED
      BY <3>1
  <2>2. CASE T # {}
    <3>1. PICK x \in T : TRUE
      BY <2>2
    <3>2. T \ {x} \in P
      BY <1>4
    <3>3. /\ g[T] = h[x] + g[T \ {x}] /\ f[T] = k[x] + f[T \ {x}] /\ e[T] = l[x] + e[T \ {x}]
          /\ g[T \ {x}] \in Int /\ f[T \ {x}] \in Int
      BY <1>1, <1>2, <1>3 DEF Divides
    <3>4. l[x] = h[x] + k[x] /\ h[x] \in Int /\ k[x] \in Int
      OBVIOUS
    <3>5. e[T \ {x}] = g[T \ {x}] + f[T \ {x}]
      BY <3>2
    <3>6. e[T] = g[T] + f[T]
      BY <3>3, <3>4, <3>5
    <3> QED
      BY <3>6
  <2> QED
    BY <2>1, <2>2
<1> HIDE DEF P
<1>5. \A T \in SUBSET S : T \in P
  BY <1>4, SubsetInduction
<1> QED
  BY <1>1, <1>2, <1>3, <1>5 DEF P

(* A sum of zeros is zero. *)
LEMMA TotalZero ==
    ASSUME NEW S, IsFiniteSet(S)
    PROVE  Total([a \in S |-> 0]) = 0
<1> DEFINE h == [a \in S |-> 0]
<1>1. h \in [S -> Int] /\ \A x \in S : h[x] = 0
  OBVIOUS
<1> HIDE DEF h
<1>2. PICK g : Sums(g, h, S) /\ Divides(g, h, S) /\ Total(h) = g[S]
  BY <1>1, TotalSums
<1> DEFINE P == {T \in SUBSET S : g[T] = 0}
<1>3. ASSUME NEW T \in SUBSET S, \A U \in SUBSET T : U # T => U \in P
      PROVE  T \in P
  <2>1. CASE T = {}
    BY <1>2, <2>1 DEF Sums
  <2>2. CASE T # {}
    <3>1. PICK x \in T : TRUE
      BY <2>2
    <3>2. T \ {x} \in P
      BY <1>3
    <3>3. g[T] = h[x] + g[T \ {x}]
      BY <1>2 DEF Divides
    <3> QED
      BY <1>1, <3>2, <3>3
  <2> QED
    BY <2>1, <2>2
<1> HIDE DEF P
<1>4. S \in P
  BY <1>3, SubsetInduction
<1> QED
  BY <1>2, <1>4 DEF P, h

(* Terms that are zero count for nothing. *)
LEMMA TotalExtend ==
    ASSUME NEW S, IsFiniteSet(S), NEW T \in SUBSET S, NEW h \in [S -> Int], NEW k \in [T -> Int],
           \A a \in T : k[a] = h[a], \A a \in S \ T : h[a] = 0
    PROVE  Total(k) = Total(h)
<1>1. PICK g : Sums(g, h, S) /\ Divides(g, h, S) /\ Total(h) = g[S]
  BY TotalSums
<1>2. PICK f : Sums(f, k, T) /\ Divides(f, k, T) /\ Total(k) = f[T]
  BY TotalSums, FS_Subset
<1> DEFINE P == {U \in SUBSET S : g[U] = f[U \cap T]}
<1>3. ASSUME NEW U \in SUBSET S, \A V \in SUBSET U : V # U => V \in P
      PROVE  U \in P
  <2>1. CASE U = {}
    <3>1. g[U] = 0 /\ U \cap T = {} /\ f[{}] = 0
      BY <1>1, <1>2, <2>1 DEF Sums
    <3> QED
      BY <3>1
  <2>2. CASE U # {}
    <3>1. PICK x \in U : TRUE
      BY <2>2
    <3> DEFINE V == U \ {x}
    <3>2. V \in P /\ g[U] = h[x] + g[V]
      BY <1>1, <1>3 DEF Divides
    <3>3. CASE x \in T
      <4>1. U \cap T \in SUBSET T /\ x \in U \cap T /\ (U \cap T) \ {x} = V \cap T
        BY <3>3
      <4>2. f[U \cap T] = k[x] + f[V \cap T]
        BY <1>2, <4>1 DEF Divides
      <4>3. g[V] = f[V \cap T] /\ k[x] = h[x]
        BY <3>2, <3>3
      <4>4. g[U] = f[U \cap T]
        BY <3>2, <4>2, <4>3
      <4> QED
        BY <4>4
    <3>4. CASE x \notin T
      <4>1. V \cap T = U \cap T /\ h[x] = 0 /\ V \in SUBSET S
        BY <3>4
      <4>2. g[V] \in Int
        BY <1>1, <4>1 DEF Divides
      <4>3. g[U] = f[U \cap T]
        BY <3>2, <4>1, <4>2
      <4> QED
        BY <4>3
    <3> QED
      BY <3>3, <3>4
  <2> QED
    BY <2>1, <2>2
<1> HIDE DEF P
<1>4. S \in P
  BY <1>3, SubsetInduction
<1>5. S \cap T = T
  OBVIOUS
<1> QED
  BY <1>1, <1>2, <1>4, <1>5 DEF P

(* A sum with one term that is not zero. *)
LEMMA TotalSingle ==
    ASSUME NEW S, IsFiniteSet(S), NEW h \in [S -> Int], NEW a \in S, \A b \in S : b # a => h[b] = 0
    PROVE  Total(h) = h[a]
<1> DEFINE zero == [b \in S |-> 0]
<1>1. zero \in [S -> Int] /\ \A b \in S : zero[b] = 0
  OBVIOUS
<1>2. Total(zero) = 0
  BY TotalZero
<1> HIDE DEF zero
<1>3. Total(h) = Total(zero) + h[a] - zero[a]
  BY <1>1, TotalUpdate
<1> QED
  BY <1>1, <1>2, <1>3

(* No term of a sum of terms that are not negative exceeds it. *)
LEMMA TotalPart ==
    ASSUME NEW S, IsFiniteSet(S), NEW h \in [S -> Int], NEW a \in S, \A b \in S : 0 <= h[b]
    PROVE  h[a] <= Total(h)
<1> DEFINE k == [b \in S |-> IF b = a THEN h[a] ELSE 0]
<1>1. k \in [S -> Int] /\ k[a] = h[a] /\ \A b \in S : b # a => k[b] = 0
  OBVIOUS
<1>2. \A b \in S : k[b] <= h[b]
  OBVIOUS
<1> HIDE DEF k
<1>3. Total(k) = k[a]
  BY <1>1, TotalSingle
<1>4. Total(k) <= Total(h)
  BY <1>1, <1>2, TotalLeq
<1> QED
  BY <1>1, <1>3, <1>4

(* Sums of larger terms that come to the same are sums of the same terms. *)
LEMMA TotalEqual ==
    ASSUME NEW S, IsFiniteSet(S), NEW h \in [S -> Int], NEW k \in [S -> Int],
           \A a \in S : h[a] <= k[a], Total(h) = Total(k)
    PROVE  \A a \in S : h[a] = k[a]
<1> SUFFICES ASSUME NEW a \in S, h[a] # k[a] PROVE FALSE
  OBVIOUS
<1> DEFINE l == [b \in S |-> IF b = a THEN k[a] ELSE h[b]]
<1>1. l \in [S -> Int] /\ l[a] = k[a] /\ \A b \in S : b # a => l[b] = h[b]
  OBVIOUS
<1>2. \A b \in S : l[b] <= k[b]
  OBVIOUS
<1> HIDE DEF l
<1>3. Total(l) = Total(h) + l[a] - h[a]
  BY <1>1, TotalUpdate
<1>4. Total(l) <= Total(k)
  BY <1>1, <1>2, TotalLeq
<1>5. Total(h) \in Int /\ Total(l) \in Int /\ h[a] \in Int /\ k[a] \in Int /\ h[a] <= k[a]
  BY <1>1, TotalType
<1> QED
  BY <1>1, <1>3, <1>4, <1>5

(* Integer division grows with what is divided. *)
LEMMA DivisionGrows ==
    ASSUME NEW q \in Nat \ {0}, NEW a \in Nat, NEW b \in Nat, a <= b
    PROVE  a \div q \in Nat /\ b \div q \in Nat /\ a \div q <= b \div q
<1>1. /\ a \div q \in Nat /\ a % q \in 0..(q - 1) /\ a = (q * (a \div q)) + (a % q)
      /\ b \div q \in Nat /\ b % q \in 0..(q - 1) /\ b = (q * (b \div q)) + (b % q)
  BY SMT
<1>2. ASSUME NEW x \in Nat, NEW y \in Nat, NEW r \in 0..(q - 1), NEW s \in 0..(q - 1), q * x + r <= q * y + s, y < x
      PROVE  FALSE
  <2>1. PICK z \in Nat : x = y + 1 + z
    <3>1. x - (y + 1) \in Nat /\ x = y + 1 + (x - (y + 1))
      BY <1>2
    <3> QED
      BY <3>1
  <2>2. q * x = q * y + q + q * z /\ q * z \in Nat /\ q * y \in Nat
    BY <2>1
  <2> QED
    BY <1>2, <2>2
<1>3. ~(b \div q < a \div q)
  BY <1>1, <1>2
<1> QED
  BY <1>1, <1>3
=============================================================================
