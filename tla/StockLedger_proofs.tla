-------------------------- MODULE StockLedger_proofs --------------------------
(***************************************************************************)
(* Theorems about StockLedger, for every value of its constants.           *)
(*                                                                         *)
(* The first part is about sums over finite sets, whatever they are of     *)
(* (SumFunctionOnSet of the module Functions): a sum does not depend on    *)
(* the order its elements are taken in.  The induction theorems of the     *)
(* library take an operator; here induction is over a set of numbers,      *)
(* which needs none.                                                       *)
(***************************************************************************)
EXTENDS StockLedger, SequenceTheorems, FiniteSetTheorems, WellFoundedInduction, TLAPS

-----------------------------------------------------------------------------
(* A set of numbers with zero and with each successor holds them all. *)
LEMMA SetInduction ==
    ASSUME NEW T, 0 \in T, \A n \in Nat : n \in T => n + 1 \in T
    PROVE  Nat \subseteq T
<1> SUFFICES ASSUME Nat \ T # {}
             PROVE  FALSE
  OBVIOUS
<1> DEFINE Less == OpToRel(<, Nat)
<1>1. \A x, y \in Nat : <<x, y>> \in Less <=> x < y
  BY DEF OpToRel
<1>2. PICK m \in Nat \ T : \A k \in Nat \ T : ~(<<k, m>> \in Less)
  <2> HIDE DEF Less
  <2>1. IsWellFoundedOn(Less, Nat)
    BY NatLessThanWellFounded DEF Less
  <2>2. Nat \ T \subseteq Nat
    OBVIOUS
  <2> QED
    BY <2>1, <2>2, WFMin
<1> HIDE DEF Less
<1>3. m - 1 \in Nat /\ m - 1 < m /\ m = (m - 1) + 1
  BY <1>2
<1>4. m - 1 \in T
  BY <1>1, <1>2, <1>3
<1> QED
  BY <1>2, <1>3, <1>4

(* Of a finite set without one of its elements *)
LEMMA OneLess ==
    ASSUME NEW S, IsFiniteSet(S), NEW n \in Nat, Cardinality(S) = n + 1
    PROVE  /\ S # {}
           /\ \A x \in S : IsFiniteSet(S \ {x}) /\ Cardinality(S \ {x}) = n
<1>1. S # {}
  BY FS_EmptySet
<1>2. ASSUME NEW x \in S
      PROVE  IsFiniteSet(S \ {x}) /\ Cardinality(S \ {x}) = n
  BY FS_RemoveElement
<1> QED
  BY <1>1, <1>2

-----------------------------------------------------------------------------
(* How the sum is defined: by a function over the subsets of S, each set's   *)
(* sum from that of the set without one chosen element.                      *)
Chosen(s) == CHOOSE x \in s : TRUE
FoldStep(fun, iter, s) == IF s = {} THEN 0 ELSE fun[Chosen(s)] + iter[s \ {Chosen(s)}]
IsFold(fun, iter, sets) == iter = [s \in sets |-> FoldStep(fun, iter, s)]
FoldOver(fun, S) == CHOOSE iter : IsFold(fun, iter, SUBSET S)

LEMMA SumIsFold == ASSUME NEW fun, NEW S PROVE SumFunctionOnSet(fun, S) = FoldOver(fun, S)[S]
  BY DEF SumFunctionOnSet, FoldFunctionOnSet, MapThenFoldSet, FoldOver, IsFold, FoldStep, Chosen

LEMMA ChosenIn == ASSUME NEW s, s # {} PROVE Chosen(s) \in s
  BY DEF Chosen

Small(S, n) == {s \in SUBSET S : IsFiniteSet(s) /\ Cardinality(s) <= n}

(* There is such a function: it is built up from the smallest sets. *)
LEMMA FoldExists ==
    ASSUME NEW fun, NEW S, IsFiniteSet(S)
    PROVE  IsFold(fun, FoldOver(fun, S), SUBSET S)
<1> DEFINE Has == {n \in Nat : \E g : IsFold(fun, g, Small(S, n))}
<1>1. 0 \in Has
  <2> DEFINE g == [s \in Small(S, 0) |-> 0]
  <2>1. \A s \in Small(S, 0) : s = {}
    BY FS_EmptySet, FS_CardinalityType DEF Small
  <2>2. IsFold(fun, g, Small(S, 0))
    BY <2>1 DEF IsFold, FoldStep
  <2> QED
    BY <2>2
<1>2. ASSUME NEW n \in Nat, n \in Has
      PROVE  n + 1 \in Has
  <2>1. PICK g : IsFold(fun, g, Small(S, n))
    BY <1>2
  <2> DEFINE h == [s \in Small(S, n + 1) |-> FoldStep(fun, g, s)]
  <2>2. ASSUME NEW s \in Small(S, n + 1), s # {}
        PROVE  s \ {Chosen(s)} \in Small(S, n) /\ s \ {Chosen(s)} \in Small(S, n + 1)
    <3>1. IsFiniteSet(s) /\ Cardinality(s) \in Nat /\ Cardinality(s) <= n + 1 /\ s \subseteq S
      BY FS_CardinalityType DEF Small
    <3>2. Chosen(s) \in s
      BY <2>2, ChosenIn
    <3>3. /\ IsFiniteSet(s \ {Chosen(s)})
          /\ Cardinality(s \ {Chosen(s)}) = Cardinality(s) - 1
      BY <3>1, <3>2, FS_RemoveElement
    <3> QED
      BY <3>1, <3>3 DEF Small
  <2>3. ASSUME NEW s \in Small(S, n + 1), s # {}
        PROVE  h[s \ {Chosen(s)}] = g[s \ {Chosen(s)}]
    BY <2>1, <2>2, <2>3 DEF IsFold
  <2>4. \A s \in Small(S, n + 1) : FoldStep(fun, g, s) = FoldStep(fun, h, s)
    BY <2>3 DEF FoldStep
  <2>5. h = [s \in Small(S, n + 1) |-> FoldStep(fun, h, s)]
    BY <2>4
  <2> HIDE DEF h
  <2> QED
    BY <2>5 DEF IsFold
<1> HIDE DEF Has
<1>3. Cardinality(S) \in Has
  BY <1>1, <1>2, SetInduction, FS_CardinalityType
<1>4. Small(S, Cardinality(S)) = SUBSET S
  BY FS_Subset DEF Small
<1>5. \E g : IsFold(fun, g, SUBSET S)
  BY <1>3, <1>4 DEF Has
<1> QED
  BY <1>5 DEF FoldOver

(* The sum of a smaller set, whichever set the function is built for *)
LEMMA FoldsAgree ==
    ASSUME NEW fun, NEW S, IsFiniteSet(S), NEW T, T \subseteq S
    PROVE  FoldOver(fun, S)[T] = FoldOver(fun, T)[T]
<1> DEFINE g == FoldOver(fun, S)
           h == FoldOver(fun, T)
<1>1. IsFiniteSet(T) /\ Cardinality(T) \in Nat
  BY FS_Subset, FS_CardinalityType
<1>2. IsFold(fun, g, SUBSET S) /\ IsFold(fun, h, SUBSET T)
  BY <1>1, FoldExists
<1> HIDE DEF g, h
<1> DEFINE Agree == {n \in Nat : \A s \in SUBSET T :
                        IsFiniteSet(s) /\ Cardinality(s) = n => g[s] = h[s]}
<1>3. ASSUME NEW s \in SUBSET T
      PROVE  g[s] = FoldStep(fun, g, s) /\ h[s] = FoldStep(fun, h, s)
  <2>1. g[s] = FoldStep(fun, g, s)
    BY <1>2 DEF IsFold
  <2>2. h[s] = FoldStep(fun, h, s)
    BY <1>2 DEF IsFold
  <2> QED
    BY <2>1, <2>2
<1>4. 0 \in Agree
  BY <1>3, FS_EmptySet DEF FoldStep
<1>5. ASSUME NEW n \in Nat, n \in Agree
      PROVE  n + 1 \in Agree
  <2> SUFFICES ASSUME NEW s \in SUBSET T, IsFiniteSet(s), Cardinality(s) = n + 1
               PROVE  g[s] = h[s]
    OBVIOUS
  <2>1. s # {} /\ Chosen(s) \in s
    BY OneLess, ChosenIn
  <2>2. IsFiniteSet(s \ {Chosen(s)}) /\ Cardinality(s \ {Chosen(s)}) = n
    BY <2>1, OneLess
  <2>3. s \ {Chosen(s)} \in SUBSET T
    OBVIOUS
  <2>4. g[s \ {Chosen(s)}] = h[s \ {Chosen(s)}]
    BY <1>5, <2>2, <2>3
  <2> QED
    BY <1>3, <2>1, <2>4 DEF FoldStep
<1> HIDE DEF Agree
<1>6. Cardinality(T) \in Agree
  BY <1>1, <1>4, <1>5, SetInduction
<1>7. g[T] = h[T]
  BY <1>1, <1>6 DEF Agree
<1> QED
  BY <1>7 DEF g, h

-----------------------------------------------------------------------------
(* The sum over no element *)
LEMMA SumEmpty == ASSUME NEW fun PROVE SumFunctionOnSet(fun, {}) = 0
<1>1. IsFold(fun, FoldOver(fun, {}), SUBSET {})
  BY FoldExists, FS_EmptySet
<1> QED
  BY <1>1, SumIsFold DEF IsFold, FoldStep

(* The sum, with the element the definition takes first *)
LEMMA SumChosen ==
    ASSUME NEW fun, NEW S, IsFiniteSet(S), S # {}
    PROVE  SumFunctionOnSet(fun, S) =
              fun[Chosen(S)] + SumFunctionOnSet(fun, S \ {Chosen(S)})
<1> DEFINE g == FoldOver(fun, S)
           T == S \ {Chosen(S)}
<1>1. IsFold(fun, g, SUBSET S)
  BY FoldExists
<1>2. T \subseteq S
  OBVIOUS
<1>3. g[T] = FoldOver(fun, T)[T]
  <2> HIDE DEF T
  <2> QED
    BY <1>2, FoldsAgree
<1>4. g[S] = FoldStep(fun, g, S)
  BY <1>1 DEF IsFold
<1>5. g[S] = fun[Chosen(S)] + g[T]
  BY <1>4 DEF FoldStep
<1> QED
  BY <1>3, <1>5, SumIsFold

(* A sum of integers is one. *)
LEMMA SumType ==
    ASSUME NEW fun, NEW S, IsFiniteSet(S), \A x \in S : fun[x] \in Int
    PROVE  SumFunctionOnSet(fun, S) \in Int
<1> DEFINE Ok == {n \in Nat : \A s \in SUBSET S :
                    IsFiniteSet(s) /\ Cardinality(s) = n => SumFunctionOnSet(fun, s) \in Int}
<1>1. 0 \in Ok
  BY SumEmpty, FS_EmptySet
<1>2. ASSUME NEW n \in Nat, n \in Ok
      PROVE  n + 1 \in Ok
  <2> SUFFICES ASSUME NEW s \in SUBSET S, IsFiniteSet(s), Cardinality(s) = n + 1
               PROVE  SumFunctionOnSet(fun, s) \in Int
    OBVIOUS
  <2>1. s # {} /\ Chosen(s) \in s
    BY OneLess, ChosenIn
  <2>2. IsFiniteSet(s \ {Chosen(s)}) /\ Cardinality(s \ {Chosen(s)}) = n
    BY <2>1, OneLess
  <2>3. SumFunctionOnSet(fun, s \ {Chosen(s)}) \in Int
    BY <1>2, <2>2
  <2>4. fun[Chosen(s)] \in Int
    BY <2>1
  <2> QED
    BY <2>1, <2>3, <2>4, SumChosen
<1> HIDE DEF Ok
<1>3. Cardinality(S) \in Ok
  BY <1>1, <1>2, SetInduction, FS_CardinalityType
<1> QED
  BY <1>3 DEF Ok

(* Any element may be taken first. *)
LEMMA SumAny ==
    ASSUME NEW fun, NEW S, IsFiniteSet(S), \A x \in S : fun[x] \in Int, NEW a \in S
    PROVE  SumFunctionOnSet(fun, S) = fun[a] + SumFunctionOnSet(fun, S \ {a})
<1> DEFINE Ok == {n \in Nat : \A s \in SUBSET S :
                    IsFiniteSet(s) /\ Cardinality(s) = n =>
                       \A x \in s : SumFunctionOnSet(fun, s) =
                                       fun[x] + SumFunctionOnSet(fun, s \ {x})}
<1>1. 0 \in Ok
  BY FS_EmptySet
<1>2. ASSUME NEW n \in Nat, n \in Ok
      PROVE  n + 1 \in Ok
  <2> SUFFICES ASSUME NEW s \in SUBSET S, IsFiniteSet(s), Cardinality(s) = n + 1, NEW x \in s
               PROVE  SumFunctionOnSet(fun, s) = fun[x] + SumFunctionOnSet(fun, s \ {x})
    OBVIOUS
  <2> DEFINE c == Chosen(s)
  <2>1. s # {} /\ c \in s
    BY OneLess, ChosenIn
  <2>2. /\ IsFiniteSet(s \ {c}) /\ Cardinality(s \ {c}) = n
        /\ IsFiniteSet(s \ {x}) /\ Cardinality(s \ {x}) = n
    BY <2>1, OneLess
  <2>3. SumFunctionOnSet(fun, s) = fun[c] + SumFunctionOnSet(fun, s \ {c})
    BY <2>1, SumChosen
  <2> HIDE DEF c
  <2>4. CASE x = c
    BY <2>3, <2>4
  <2>5. CASE x # c
    <3>1. SumFunctionOnSet(fun, s \ {c}) = fun[x] + SumFunctionOnSet(fun, (s \ {c}) \ {x})
      BY <1>2, <2>2, <2>5
    <3>2. SumFunctionOnSet(fun, s \ {x}) = fun[c] + SumFunctionOnSet(fun, (s \ {x}) \ {c})
      BY <1>2, <2>1, <2>2, <2>5
    <3> DEFINE rest == SumFunctionOnSet(fun, (s \ {c}) \ {x})
    <3>3. (s \ {x}) \ {c} = (s \ {c}) \ {x}
      OBVIOUS
    <3>4. IsFiniteSet((s \ {c}) \ {x})
      BY <2>2, FS_RemoveElement
    <3>5. rest \in Int
      BY <3>4, SumType
    <3>6. fun[x] \in Int /\ fun[c] \in Int
      BY <2>1
    <3>7. /\ SumFunctionOnSet(fun, s) = fun[c] + (fun[x] + rest)
          /\ SumFunctionOnSet(fun, s \ {x}) = fun[c] + rest
      BY <2>3, <3>1, <3>2, <3>3
    <3> HIDE DEF rest
    <3> QED
      BY <3>5, <3>6, <3>7
  <2> QED
    BY <2>4, <2>5
<1> HIDE DEF Ok
<1>3. Cardinality(S) \in Ok
  BY <1>1, <1>2, SetInduction, FS_CardinalityType
<1> QED
  BY <1>3 DEF Ok

(* Functions that agree on a set have the same sum over it. *)
LEMMA SumAgree ==
    ASSUME NEW f, NEW g, NEW S, IsFiniteSet(S), \A x \in S : f[x] = g[x]
    PROVE  SumFunctionOnSet(f, S) = SumFunctionOnSet(g, S)
<1> DEFINE Ok == {n \in Nat : \A s \in SUBSET S :
                    IsFiniteSet(s) /\ Cardinality(s) = n =>
                       SumFunctionOnSet(f, s) = SumFunctionOnSet(g, s)}
<1>1. 0 \in Ok
  BY SumEmpty, FS_EmptySet
<1>2. ASSUME NEW n \in Nat, n \in Ok
      PROVE  n + 1 \in Ok
  <2> SUFFICES ASSUME NEW s \in SUBSET S, IsFiniteSet(s), Cardinality(s) = n + 1
               PROVE  SumFunctionOnSet(f, s) = SumFunctionOnSet(g, s)
    OBVIOUS
  <2>1. s # {} /\ Chosen(s) \in s
    BY OneLess, ChosenIn
  <2>2. IsFiniteSet(s \ {Chosen(s)}) /\ Cardinality(s \ {Chosen(s)}) = n
    BY <2>1, OneLess
  <2>3. SumFunctionOnSet(f, s \ {Chosen(s)}) = SumFunctionOnSet(g, s \ {Chosen(s)})
    BY <1>2, <2>2
  <2>4. f[Chosen(s)] = g[Chosen(s)]
    BY <2>1
  <2> QED
    BY <2>1, <2>3, <2>4, SumChosen
<1> HIDE DEF Ok
<1>3. Cardinality(S) \in Ok
  BY <1>1, <1>2, SetInduction, FS_CardinalityType
<1> QED
  BY <1>3 DEF Ok

(* An element that is added adds its value. *)
LEMMA SumExtend ==
    ASSUME NEW fun, NEW S, IsFiniteSet(S), NEW a, a \notin S,
           \A x \in S \cup {a} : fun[x] \in Int
    PROVE  SumFunctionOnSet(fun, S \cup {a}) = fun[a] + SumFunctionOnSet(fun, S)
<1>1. IsFiniteSet(S \cup {a})
  BY FS_AddElement
<1>2. (S \cup {a}) \ {a} = S
  OBVIOUS
<1> QED
  BY <1>1, <1>2, SumAny

-----------------------------------------------------------------------------
(* Type correctness *)

(* A basket takes a whole number of each product. *)
LEMMA TakenType ==
    ASSUME NEW basket \in Baskets, NEW p \in Products
    PROVE  /\ basket[p][1] \in Nat /\ basket[p][2] \in Nat
           /\ Taken(basket, p) \in Nat
<1>1. basket[p] \in Line \X Line
  BY DEF Baskets
<1>2. PICK x \in Line, y \in Line : basket[p] = <<x, y>>
  BY <1>1
<1>3. x \in Nat /\ y \in Nat
  BY StockAssumption DEF Line
<1>4. basket[p][1] = x /\ basket[p][2] = y
  BY <1>2
<1> QED
  BY <1>3, <1>4 DEF Taken

(* Writing one balance keeps the type of the balances. *)
LEMMA WriteType ==
    ASSUME NEW f \in Amount, NEW b \in Branches, NEW p \in Products, NEW x \in Int
    PROVE  [f EXCEPT ![b][p] = x] \in Amount
BY DEF Amount

(* So does writing two of them in turn. *)
LEMMA WriteTwiceType ==
    ASSUME NEW f \in Amount, NEW b \in Branches, NEW d \in Branches, NEW p \in Products,
           NEW x \in Int, NEW y \in Int
    PROVE  [[f EXCEPT ![b][p] = x] EXCEPT ![d][p] = y] \in Amount
<1>1. [f EXCEPT ![b][p] = x] \in Amount
  BY WriteType
<1> QED
  BY <1>1, WriteType

(* A voided or new sale is a sale, and the list stays a list of sales. *)
LEMMA AppendSale ==
    ASSUME sales \in Seq(Sales), NEW s \in Sales
    PROVE  /\ Append(sales, s) \in Seq(Sales)
           /\ Len(sales) \in Nat /\ DOMAIN sales = 1 .. Len(sales)
           /\ Len(Append(sales, s)) = Len(sales) + 1
           /\ DOMAIN Append(sales, s) = 1 .. Len(sales) + 1
           /\ \A i \in DOMAIN sales : Append(sales, s)[i] = sales[i]
           /\ Append(sales, s)[Len(sales) + 1] = s
  OBVIOUS

(* What a checkout does, with its basket named. *)
LEMMA CheckoutShape ==
    ASSUME TypeOK, NEW b \in Branches, NEW k \in Uuids \cup {NoKey}, Checkout(b, k)
    PROVE  \E basket \in Baskets :
              /\ \A p \in Products, l \in {1, 2} :
                    basket[p][l] > 0 => Covers(b, p, basket[p][l])
              /\ stock' = [stock EXCEPT ![b] = [p \in Products |-> @[p] - Taken(basket, p)]]
              /\ booked' = [booked EXCEPT ![b] = [p \in Products |-> @[p] - Taken(basket, p)]]
              /\ [key |-> k, branch |-> b, basket |-> basket, status |-> "CONFIRMED"] \in Sales
              /\ sales' = Append(sales, [key |-> k, branch |-> b, basket |-> basket,
                                         status |-> "CONFIRMED"])
  BY DEF Checkout, Sales

(* Voiding sale i changes its status and nothing else of the list. *)
LEMMA VoidShape ==
    ASSUME TypeOK, NEW i \in DOMAIN sales, VoidSale(i)
    PROVE  /\ sales[i] \in Sales
           /\ sales' \in Seq(Sales) /\ DOMAIN sales' = DOMAIN sales
           /\ \A j \in DOMAIN sales : sales'[j].key = sales[j].key
           /\ \A j \in DOMAIN sales : sales'[j].branch = sales[j].branch
           /\ \A j \in DOMAIN sales : sales'[j].basket = sales[j].basket
<1>1. DOMAIN sales = 1 .. Len(sales) /\ \A j \in DOMAIN sales : sales[j] \in Sales
  BY DEF TypeOK
<1>2. [sales[i] EXCEPT !.status = "VOID"] \in Sales
  BY <1>1 DEF Sales
<1>3. sales' = [sales EXCEPT ![i] = [sales[i] EXCEPT !.status = "VOID"]]
  BY DEF VoidSale
<1> QED
  BY <1>1, <1>2, <1>3, ExceptSeq DEF TypeOK

LEMMA StepType == TypeOK /\ [Next]_vars => TypeOK'
<1> SUFFICES ASSUME TypeOK, [Next]_vars PROVE TypeOK'
  OBVIOUS
<1>1. ASSUME NEW k \in Uuids \cup {NoKey}, NEW offline \in BOOLEAN, Acted(k, offline)
      PROVE  known' \subseteq Uuids /\ sales' \in Seq(Sales)
  BY <1>1, StockAssumption DEF Acted, Remember, TypeOK
<1>2. ASSUME NEW b \in Branches, NEW p \in Products, NEW k \in Uuids \cup {NoKey},
             NEW offline \in BOOLEAN, MoveIn(b, p, k, offline)
      PROVE  TypeOK'
  <2>1. PICK q \in Quantities : /\ stock' = [stock EXCEPT ![b][p] = @ + q]
                                /\ booked' = [booked EXCEPT ![b][p] = @ + q]
    BY <1>2 DEF MoveIn
  <2>2. stock[b][p] + q \in Int /\ booked[b][p] + q \in Int
    BY StockAssumption DEF Amount, TypeOK
  <2>3. stock' \in Amount /\ booked' \in Amount
    BY <2>1, <2>2, WriteType DEF TypeOK
  <2> QED
    BY <1>1, <1>2, <2>3 DEF MoveIn, TypeOK
<1>8. ASSUME NEW b \in Branches, NEW p \in Products, NEW k \in Uuids \cup {NoKey},
             NEW offline \in BOOLEAN, MoveOut(b, p, k, offline)
      PROVE  TypeOK'
  <2>1. PICK q \in Quantities : /\ stock' = [stock EXCEPT ![b][p] = @ - q]
                                /\ booked' = [booked EXCEPT ![b][p] = @ - q]
    BY <1>8 DEF MoveOut
  <2>2. stock[b][p] - q \in Int /\ booked[b][p] - q \in Int
    BY StockAssumption DEF Amount, TypeOK
  <2>3. stock' \in Amount /\ booked' \in Amount
    BY <2>1, <2>2, WriteType DEF TypeOK
  <2> QED
    BY <1>1, <1>8, <2>3 DEF MoveOut, TypeOK
<1>3. ASSUME NEW b \in Branches, NEW d \in Branches, NEW p \in Products,
             NEW k \in Uuids \cup {NoKey}, NEW offline \in BOOLEAN,
             Transfer(b, d, p, k, offline)
      PROVE  TypeOK'
  <2>1. PICK q \in Quantities :
           /\ stock' = Shift(stock, b, d, p, q)
           /\ booked' = Carry(booked, b, d, p, q)
           /\ IF b = d THEN looped' = [looped EXCEPT ![b][p] = @ + q] ELSE UNCHANGED looped
    BY <1>3 DEF Transfer
  <2>2. q \in Nat /\ stock \in Amount /\ booked \in Amount
    BY StockAssumption DEF TypeOK
  <2>3. stock[b][p] - q \in Int /\ stock[d][p] + q \in Int /\ booked[b][p] - q \in Int
    BY <2>2 DEF Amount
  <2>4. stock' \in Amount
    BY <2>1, <2>2, <2>3, WriteTwiceType DEF Shift
  <2>5. booked' \in Amount
    <3> DEFINE g == [booked EXCEPT ![b][p] = @ - q]
    <3>1. g \in Amount
      BY <2>2, <2>3, WriteType
    <3>2. g[d][p] + q \in Int
      BY <2>2, <3>1 DEF Amount
    <3>3. booked' = [g EXCEPT ![d][p] = g[d][p] + q]
      BY <2>1 DEF Carry
    <3> QED
      BY <3>1, <3>2, <3>3, WriteType
  <2>6. looped' \in [Branches -> [Products -> Nat]]
    <3>1. looped[b][p] + q \in Nat
      BY <2>2 DEF TypeOK
    <3>2. [looped EXCEPT ![b][p] = looped[b][p] + q] \in [Branches -> [Products -> Nat]]
      BY <3>1 DEF TypeOK
    <3>3. CASE b = d
      BY <2>1, <3>2, <3>3
    <3>4. CASE b # d
      BY <2>1, <3>4 DEF TypeOK
    <3> QED
      BY <3>3, <3>4
  <2> QED
    BY <1>1, <1>3, <2>4, <2>5, <2>6 DEF Transfer, TypeOK
<1>4. ASSUME NEW b \in Branches, NEW k \in Uuids \cup {NoKey}, Checkout(b, k)
      PROVE  TypeOK'
  <2>1. PICK basket \in Baskets :
          /\ stock' = [stock EXCEPT ![b] = [p \in Products |-> @[p] - Taken(basket, p)]]
          /\ booked' = [booked EXCEPT ![b] = [p \in Products |-> @[p] - Taken(basket, p)]]
          /\ sales' \in Seq(Sales)
    BY <1>4, CheckoutShape, AppendSale DEF TypeOK
  <2>2. \A p \in Products : Taken(basket, p) \in Nat
    BY TakenType
  <2>3. stock' \in Amount /\ booked' \in Amount
    BY <2>1, <2>2 DEF Amount, TypeOK
  <2> QED
    BY <1>4, <2>1, <2>3, StockAssumption DEF Checkout, Remember, TypeOK
<1>5. ASSUME NEW i \in DOMAIN sales, VoidSale(i)
      PROVE  TypeOK'
  <2>1. sales[i].branch \in Branches /\ sales[i].basket \in Baskets
    BY <1>5, VoidShape DEF Sales
  <2>2. \A p \in Products : Taken(sales[i].basket, p) \in Nat
    BY <2>1, TakenType
  <2>3. stock' \in Amount
    BY <1>5, <2>1, <2>2 DEF VoidSale, Amount, TypeOK
  <2> QED
    BY <1>5, <2>3, VoidShape DEF VoidSale, TypeOK
<1>6. ASSUME NEW k \in Uuids, OtherOperation(k)
      PROVE  TypeOK'
  BY <1>6 DEF OtherOperation, Remember, TypeOK
<1>7. CASE UNCHANGED vars
  BY <1>7 DEF vars, TypeOK
<1> QED
  BY <1>2, <1>3, <1>4, <1>5, <1>6, <1>7, <1>8 DEF Next

(* The variables of StockLedger keep their types. *)
THEOREM StockTypes == Spec => []TypeOK
<1>1. Init => TypeOK
  BY StockAssumption DEF Init, TypeOK, Amount
<1> QED
  BY <1>1, StepType, PTL DEF Spec

-----------------------------------------------------------------------------
(* One sale per key *)

(* SoldOncePerKey is not inductive: a sale could have left its key free. *)
SoldKeysKnown == \A i \in DOMAIN sales : sales[i].key \in known \cup {NoKey}
KInv == TypeOK /\ SoldOncePerKey /\ SoldKeysKnown

LEMMA StepKeepsKeys == KInv /\ [Next]_vars => KInv'
<1> SUFFICES ASSUME KInv, [Next]_vars PROVE KInv'
  OBVIOUS
<1> USE DEF KInv
<1>1. TypeOK'
  BY StepType
<1>2. ASSUME sales' = sales, known \subseteq known'
      PROVE  KInv'
  BY <1>1, <1>2 DEF SoldOncePerKey, SoldKeysKnown
<1>3. ASSUME NEW k, NEW offline \in BOOLEAN, Acted(k, offline)
      PROVE  KInv'
  BY <1>2, <1>3 DEF Acted, Remember
<1>4. ASSUME NEW b \in Branches, NEW k \in Uuids \cup {NoKey}, Checkout(b, k)
      PROVE  KInv'
  <2>1. PICK s \in Sales : s.key = k /\ sales' = Append(sales, s)
    BY <1>4, CheckoutShape
  <2>2. /\ DOMAIN sales = 1 .. Len(sales) /\ Len(sales) \in Nat
        /\ DOMAIN sales' = 1 .. Len(sales) + 1
        /\ \A i \in DOMAIN sales : sales'[i] = sales[i]
        /\ sales'[Len(sales) + 1] = s
    BY <2>1, AppendSale DEF TypeOK
  <2>3. Fresh(k) /\ known' = known \cup ({k} \ {NoKey})
    BY <1>4 DEF Checkout, Remember
  <2>4. \A i \in DOMAIN sales : sales[i].key = k => k = NoKey
    BY <2>3 DEF Fresh, SoldKeysKnown
  <2>5. \A i \in DOMAIN sales' : i \in DOMAIN sales \/ i = Len(sales) + 1
    BY <2>2
  <2>6. SoldOncePerKey'
    BY <2>1, <2>2, <2>4, <2>5 DEF SoldOncePerKey
  <2>7. SoldKeysKnown'
    BY <2>1, <2>2, <2>3, <2>5 DEF SoldKeysKnown
  <2> QED
    BY <1>1, <2>6, <2>7
<1>5. ASSUME NEW i \in DOMAIN sales, VoidSale(i)
      PROVE  KInv'
  <2>1. DOMAIN sales' = DOMAIN sales /\ \A j \in DOMAIN sales : sales'[j].key = sales[j].key
    BY <1>5, VoidShape
  <2>2. known' = known
    BY <1>5 DEF VoidSale
  <2> QED
    BY <1>1, <2>1, <2>2 DEF SoldOncePerKey, SoldKeysKnown
<1>6. ASSUME NEW k \in Uuids, OtherOperation(k)
      PROVE  KInv'
  BY <1>2, <1>6 DEF OtherOperation, Remember
<1>7. CASE UNCHANGED vars
  BY <1>2, <1>7 DEF vars
<1> QED
  BY <1>3, <1>4, <1>5, <1>6, <1>7 DEF Next, MoveIn, MoveOut, Transfer

(* No key pays for two sales, however checkouts are sent again and           *)
(* interleaved with stock movements, voids and other operations.             *)
THEOREM OneSalePerKey == Spec => []SoldOncePerKey
<1>1. Init => KInv
  <2>1. Init => TypeOK
    BY StockAssumption DEF Init, TypeOK, Amount
  <2> QED
    BY <2>1 DEF Init, KInv, SoldOncePerKey, SoldKeysKnown
<1>2. KInv => SoldOncePerKey
  BY DEF KInv
<1> QED
  BY <1>1, <1>2, StepKeepsKeys, PTL DEF Spec

-----------------------------------------------------------------------------
(* Overdrawn balances *)

(* Writing one balance leaves the others. *)
LEMMA WriteAt ==
    ASSUME NEW f \in Amount, NEW b \in Branches, NEW p \in Products, NEW x \in Int,
           NEW c \in Branches, NEW r \in Products
    PROVE  [f EXCEPT ![b][p] = x][c][r] = IF c = b /\ r = p THEN x ELSE f[c][r]
BY DEF Amount

(* The balance of product p in branch b does not fall below zero. *)
Held(b, p) == stock'[b][p] < 0 => stock'[b][p] >= stock[b][p]

LEMMA OthersHold ==
    ASSUME TypeOK, [Next]_vars, \A b \in Branches, k \in Uuids \cup {NoKey} : ~Checkout(b, k),
           NEW c \in Branches, NEW r \in Products
    PROVE  Held(c, r)
<1>0. stock \in Amount /\ Quantities \subseteq Nat /\ stock[c][r] \in Int
  BY StockAssumption DEF TypeOK, Amount
<1>1. ASSUME NEW b \in Branches, NEW p \in Products, NEW k, NEW offline,
             MoveIn(b, p, k, offline) \/ MoveOut(b, p, k, offline)
      PROVE  Held(c, r)
  <2>1. stock[b][p] \in Int
    BY <1>0 DEF Amount
  <2>2. PICK x \in Int : x >= 0 /\ stock' = [stock EXCEPT ![b][p] = x]
    <3>1. CASE MoveIn(b, p, k, offline)
      <4>1. PICK q \in Quantities : Covers(b, p, -q) /\ stock' = [stock EXCEPT ![b][p] = @ + q]
        BY <3>1 DEF MoveIn
      <4>2. stock[b][p] + q \in Int /\ stock[b][p] + q >= 0
        BY <1>0, <2>1, <4>1 DEF Covers
      <4> QED
        BY <4>1, <4>2
    <3>2. CASE MoveOut(b, p, k, offline)
      <4>1. PICK q \in Quantities : Covers(b, p, q) /\ stock' = [stock EXCEPT ![b][p] = @ - q]
        BY <3>2 DEF MoveOut
      <4>2. stock[b][p] - q \in Int /\ stock[b][p] - q >= 0
        BY <1>0, <2>1, <4>1 DEF Covers
      <4> QED
        BY <4>1, <4>2
    <3> QED
      BY <1>1, <3>1, <3>2
  <2>3. stock'[c][r] = IF c = b /\ r = p THEN x ELSE stock[c][r]
    BY <1>0, <2>2, WriteAt
  <2> QED
    BY <1>0, <2>2, <2>3 DEF Held
<1>2. ASSUME NEW b \in Branches, NEW d \in Branches, NEW p \in Products, NEW k, NEW offline,
             Transfer(b, d, p, k, offline)
      PROVE  Held(c, r)
  <2>1. PICK q \in Quantities : Covers(b, p, q) /\ stock' = Shift(stock, b, d, p, q)
    BY <1>2 DEF Transfer
  <2> DEFINE f == [stock EXCEPT ![b][p] = stock[b][p] - q]
  <2>2. q \in Nat /\ stock[b][p] \in Int /\ stock[d][p] \in Int /\ stock[b][p] - q >= 0
    BY <1>0, <2>1 DEF Amount, Covers
  <2>3. f \in Amount
    BY <1>0, <2>2, WriteType
  <2>4. f[c][r] = IF c = b /\ r = p THEN stock[b][p] - q ELSE stock[c][r]
    BY <1>0, <2>2, WriteAt
  <2>5. stock' = [f EXCEPT ![d][p] = stock[d][p] + q]
    BY <2>1 DEF Shift
  <2> HIDE DEF f
  <2>6. stock'[c][r] = IF c = d /\ r = p THEN stock[d][p] + q ELSE f[c][r]
    BY <2>2, <2>3, <2>5, WriteAt
  <2> QED
    BY <1>0, <2>2, <2>4, <2>6 DEF Held
<1>3. ASSUME NEW i \in DOMAIN sales, VoidSale(i)
      PROVE  Held(c, r)
  <2>1. sales[i].basket \in Baskets /\ sales[i].branch \in Branches
    BY <1>3, VoidShape DEF Sales
  <2>2. Taken(sales[i].basket, r) \in Nat
    BY <2>1, TakenType
  <2>3. stock'[c][r] = IF c = sales[i].branch THEN stock[c][r] + Taken(sales[i].basket, r)
                                              ELSE stock[c][r]
    BY <1>0, <1>3, <2>1 DEF VoidSale, Amount
  <2> QED
    BY <1>0, <2>2, <2>3 DEF Held
<1>4. ASSUME UNCHANGED stock
      PROVE  Held(c, r)
  BY <1>0, <1>4 DEF Held
<1> QED
  BY <1>1, <1>2, <1>3, <1>4 DEF Next, OtherOperation, vars

(* A checkout overdraws only what both lines of the product take. *)
LEMMA CheckoutOverdraws ==
    ASSUME TypeOK, NEW b \in Branches, NEW k \in Uuids \cup {NoKey}, Checkout(b, k),
           NEW c \in Branches, NEW r \in Products,
           stock'[c][r] < 0, stock'[c][r] < stock[c][r]
    PROVE  /\ Len(sales') = Len(sales) + 1
           /\ LET taken == sales'[Len(sales')].basket[r]
              IN  taken[1] \in 1 .. stock[c][r] /\ taken[2] \in 1 .. stock[c][r]
<1>1. PICK basket \in Baskets :
         /\ \A p \in Products, l \in {1, 2} : basket[p][l] > 0 => Covers(b, p, basket[p][l])
         /\ stock' = [stock EXCEPT ![b] = [p \in Products |-> @[p] - Taken(basket, p)]]
         /\ [key |-> k, branch |-> b, basket |-> basket, status |-> "CONFIRMED"] \in Sales
         /\ sales' = Append(sales, [key |-> k, branch |-> b, basket |-> basket,
                                    status |-> "CONFIRMED"])
  BY CheckoutShape
<1>2. Len(sales') = Len(sales) + 1 /\ sales'[Len(sales')].basket = basket
  BY <1>1, AppendSale DEF TypeOK
<1>3. /\ stock[c][r] \in Int
      /\ basket[r][1] \in Nat /\ basket[r][2] \in Nat
      /\ Taken(basket, r) = basket[r][1] + basket[r][2]
  BY TakenType DEF TypeOK, Amount, Taken
<1>4. stock'[c][r] = IF c = b THEN stock[c][r] - Taken(basket, r) ELSE stock[c][r]
  BY <1>1 DEF TypeOK, Amount
<1>5. c = b /\ stock[c][r] - (basket[r][1] + basket[r][2]) < 0
  BY <1>3, <1>4
<1>6. /\ basket[r][1] > 0 => basket[r][1] <= stock[c][r]
      /\ basket[r][2] > 0 => basket[r][2] <= stock[c][r]
  BY <1>1, <1>5 DEF Covers
<1>7. stock[c][r] - (basket[r][1] + basket[r][2]) < stock[c][r]
  BY <1>3, <1>4, <1>5
<1>8. basket[r][1] \in 1 .. stock[c][r] /\ basket[r][2] \in 1 .. stock[c][r]
  BY <1>3, <1>5, <1>6, <1>7
<1> QED
  BY <1>2, <1>8

(* No stock movement, transfer or void overdraws a balance, and a checkout   *)
(* does so only through two lines of one product, each within the balance.   *)
THEOREM OverdraftNeedsTwoLines == Spec => OverdrawnBySplitLinesOnly
<1>1. TypeOK /\ [Next]_vars =>
        [\A b \in Branches, p \in Products :
            stock'[b][p] < 0 /\ stock'[b][p] < stock[b][p] =>
               /\ Len(sales') = Len(sales) + 1
               /\ LET taken == sales'[Len(sales')].basket[p]
                  IN  /\ taken[1] \in 1 .. stock[b][p]
                      /\ taken[2] \in 1 .. stock[b][p]]_vars
  <2> SUFFICES ASSUME TypeOK, [Next]_vars, NEW c \in Branches, NEW r \in Products,
                      stock'[c][r] < 0, stock'[c][r] < stock[c][r]
               PROVE  /\ Len(sales') = Len(sales) + 1
                      /\ LET taken == sales'[Len(sales')].basket[r]
                         IN  /\ taken[1] \in 1 .. stock[c][r]
                             /\ taken[2] \in 1 .. stock[c][r]
    OBVIOUS
  <2>1. CASE \E b \in Branches, k \in Uuids \cup {NoKey} : Checkout(b, k)
    BY <2>1, CheckoutOverdraws
  <2>2. CASE \A b \in Branches, k \in Uuids \cup {NoKey} : ~Checkout(b, k)
    <3>1. Held(c, r)
      BY <2>2, OthersHold
    <3>2. stock[c][r] \in Int /\ stock'[c][r] \in Int
      BY StepType DEF TypeOK, Amount
    <3> QED
      BY <3>1, <3>2 DEF Held
  <2> QED
    BY <2>1, <2>2
<1> QED
  BY <1>1, StockTypes, PTL DEF Spec, OverdrawnBySplitLinesOnly

(* A sale of branch b names product p in two lines, neither of them smaller  *)
(* than what the balance lacks.                                              *)
OverdrawnBySale(b, p) ==
    \E i \in DOMAIN sales :
        /\ sales[i].branch = b
        /\ sales[i].basket[p][1] > 0 /\ sales[i].basket[p][2] > 0
        /\ stock[b][p] + sales[i].basket[p][1] >= 0
        /\ stock[b][p] + sales[i].basket[p][2] >= 0
(* checkout: what is missing from a balance is owed to one such sale.        *)
OverdrawnByOneSale ==
    \A b \in Branches, p \in Products : stock[b][p] < 0 => OverdrawnBySale(b, p)

(* The sales stay, whatever happens to their status. *)
LEMMA SalesStay ==
    ASSUME TypeOK, [Next]_vars, NEW i \in DOMAIN sales
    PROVE  /\ i \in DOMAIN sales'
           /\ sales'[i].branch = sales[i].branch /\ sales'[i].basket = sales[i].basket
<1>1. CASE \E b \in Branches, k \in Uuids \cup {NoKey} : Checkout(b, k)
  <2>1. PICK s \in Sales : sales' = Append(sales, s)
    BY <1>1, CheckoutShape
  <2> QED
    BY <2>1, AppendSale DEF TypeOK
<1>2. CASE \E j \in DOMAIN sales : VoidSale(j)
  BY <1>2, VoidShape
<1>3. CASE sales' = sales
  BY <1>3
<1> QED
  BY <1>1, <1>2, <1>3 DEF Next, MoveIn, MoveOut, Transfer, Acted, OtherOperation, vars

(* The checkout that overdraws a balance is there to be seen, and overdraws  *)
(* it by no more than either of its lines.                                   *)
LEMMA CheckoutIsOverdrawn ==
    ASSUME TypeOK, NEW b \in Branches, NEW k \in Uuids \cup {NoKey}, Checkout(b, k),
           NEW c \in Branches, NEW r \in Products,
           stock'[c][r] < 0, stock'[c][r] < stock[c][r]
    PROVE  OverdrawnBySale(c, r)'
<1>1. PICK basket \in Baskets :
         /\ stock' = [stock EXCEPT ![b] = [p \in Products |-> @[p] - Taken(basket, p)]]
         /\ sales' = Append(sales, [key |-> k, branch |-> b, basket |-> basket,
                                    status |-> "CONFIRMED"])
         /\ [key |-> k, branch |-> b, basket |-> basket, status |-> "CONFIRMED"] \in Sales
  BY CheckoutShape
<1> DEFINE n == Len(sales')
<1>2. /\ n \in DOMAIN sales' /\ Len(sales') = Len(sales) + 1
      /\ sales'[n].branch = b /\ sales'[n].basket = basket
  BY <1>1, AppendSale DEF TypeOK
<1>3. basket[r][1] \in 1 .. stock[c][r] /\ basket[r][2] \in 1 .. stock[c][r]
  BY <1>2, CheckoutOverdraws
<1>4. stock[c][r] \in Int
  BY DEF TypeOK, Amount
<1>5. c = b /\ stock'[c][r] = stock[c][r] - (basket[r][1] + basket[r][2])
  BY <1>1 DEF TypeOK, Amount, Taken
<1>6. stock'[c][r] + basket[r][1] >= 0 /\ stock'[c][r] + basket[r][2] >= 0
  <2> DEFINE s == stock[c][r]  x == basket[r][1]  y == basket[r][2]
  <2>1. x \in 1 .. s /\ y \in 1 .. s /\ s \in Int
    BY <1>3, <1>4
  <2>2. stock'[c][r] = s - (x + y)
    BY <1>5
  <2> HIDE DEF s, x, y
  <2>3. s - (x + y) + x >= 0 /\ s - (x + y) + y >= 0
    BY <2>1
  <2> QED
    BY <2>2, <2>3 DEF x, y
<1>7. basket[r][1] > 0 /\ basket[r][2] > 0
  BY <1>3, <1>4
<1> QED
  BY <1>2, <1>5, <1>6, <1>7 DEF OverdrawnBySale

(* No negative stock but the one that split lines leave: while a balance is  *)
(* negative, one sale of that branch names the product in two lines, and the *)
(* balance lacks no more than the smaller of them.  Retransmissions, other   *)
(* checkouts, movements, transfers and voids never add to it.                *)
THEOREM OverdraftIsBounded == Spec => []OverdrawnByOneSale
<1>1. Init => OverdrawnByOneSale
  BY StockAssumption DEF Init, OverdrawnByOneSale
<1>2. TypeOK /\ OverdrawnByOneSale /\ [Next]_vars => OverdrawnByOneSale'
  <2> SUFFICES ASSUME TypeOK, OverdrawnByOneSale, [Next]_vars,
                      NEW c \in Branches, NEW r \in Products, stock'[c][r] < 0
               PROVE  OverdrawnBySale(c, r)'
    BY DEF OverdrawnByOneSale
  <2>1. stock[c][r] \in Int /\ stock'[c][r] \in Int
    BY StepType DEF TypeOK, Amount
  <2>2. CASE stock'[c][r] < stock[c][r]
    <3>1. CASE \E b \in Branches, k \in Uuids \cup {NoKey} : Checkout(b, k)
      BY <2>2, <3>1, CheckoutIsOverdrawn
    <3>2. CASE \A b \in Branches, k \in Uuids \cup {NoKey} : ~Checkout(b, k)
      BY <2>1, <2>2, <3>2, OthersHold DEF Held
    <3> QED
      BY <3>1, <3>2
  <2>3. CASE stock'[c][r] >= stock[c][r]
    <3>1. stock[c][r] < 0
      BY <2>1, <2>3
    <3>2. PICK i \in DOMAIN sales :
              /\ sales[i].branch = c /\ sales[i].basket[r][1] > 0 /\ sales[i].basket[r][2] > 0
              /\ stock[c][r] + sales[i].basket[r][1] >= 0
              /\ stock[c][r] + sales[i].basket[r][2] >= 0
      BY <3>1 DEF OverdrawnByOneSale, OverdrawnBySale
    <3>3. sales[i].basket[r][1] \in Nat /\ sales[i].basket[r][2] \in Nat
      <4>1. sales[i] \in Sales
        BY DEF TypeOK
      <4>2. sales[i].basket \in Baskets
        BY <4>1 DEF Sales
      <4> QED
        BY <4>2, TakenType
    <3>4. /\ stock'[c][r] + sales[i].basket[r][1] >= 0
          /\ stock'[c][r] + sales[i].basket[r][2] >= 0
      BY <2>1, <2>3, <3>2, <3>3
    <3>5. i \in DOMAIN sales' /\ sales'[i].branch = c /\ sales'[i].basket = sales[i].basket
      BY <3>2, SalesStay
    <3> QED
      BY <3>2, <3>4, <3>5 DEF OverdrawnBySale
  <2> QED
    BY <2>1, <2>2, <2>3
<1> QED
  BY <1>1, <1>2, StockTypes, PTL DEF Spec

-----------------------------------------------------------------------------
(* Every balance is explained *)

(* What has been returned is a sum of whole numbers over finitely many sales. *)
LEMMA ReturnedType ==
    ASSUME TypeOK, NEW b \in Branches, NEW p \in Products
    PROVE  /\ IsFiniteSet(VoidedOf(b)) /\ VoidedOf(b) \subseteq DOMAIN sales
           /\ \A i \in DOMAIN sales : TakenBySale(p)[i] \in Int
           /\ Returned(b, p) \in Int
<1>1. DOMAIN sales = 1 .. Len(sales) /\ Len(sales) \in Nat
      /\ \A i \in DOMAIN sales : sales[i] \in Sales
  BY DEF TypeOK
<1>2. IsFiniteSet(DOMAIN sales)
  BY <1>1, FS_Interval
<1>3. VoidedOf(b) \subseteq DOMAIN sales
  BY DEF VoidedOf
<1>4. IsFiniteSet(VoidedOf(b))
  BY <1>2, <1>3, FS_Subset
<1>5. ASSUME NEW i \in DOMAIN sales
      PROVE  TakenBySale(p)[i] \in Int
  <2>1. sales[i].basket \in Baskets
    BY <1>1 DEF Sales
  <2> QED
    BY <2>1, TakenType DEF TakenBySale
<1>6. Returned(b, p) \in Int
  BY <1>3, <1>4, <1>5, SumType DEF Returned
<1> QED
  BY <1>3, <1>4, <1>5, <1>6

(* A balance less what explains it: zero, if it is explained. *)
Unexplained(b, p) == stock[b][p] - booked[b][p] - looped[b][p]

LEMMA ExplainedIff ==
    TypeOK =>
      \A b \in Branches, p \in Products :
         /\ Unexplained(b, p) \in Int /\ Returned(b, p) \in Int /\ Opening[b][p] \in Int
         /\ (stock[b][p] = Opening[b][p] + booked[b][p] + Returned(b, p) + looped[b][p])
            <=> (Unexplained(b, p) = Opening[b][p] + Returned(b, p))
<1> SUFFICES ASSUME TypeOK, NEW b \in Branches, NEW p \in Products
             PROVE  /\ Unexplained(b, p) \in Int /\ Returned(b, p) \in Int /\ Opening[b][p] \in Int
                    /\ (stock[b][p] = Opening[b][p] + booked[b][p] + Returned(b, p) + looped[b][p])
                       <=> (Unexplained(b, p) = Opening[b][p] + Returned(b, p))
  OBVIOUS
<1>1. stock[b][p] \in Int /\ booked[b][p] \in Int /\ looped[b][p] \in Int
  BY DEF TypeOK, Amount
<1>2. Opening[b][p] \in Int /\ Returned(b, p) \in Int
  BY ReturnedType, StockAssumption
<1>3. Unexplained(b, p) \in Int
  BY <1>1 DEF Unexplained
<1>4. \A s, l, v, o, x \in Int : (s = o + l + v + x) <=> (s - l - x = o + v)
  OBVIOUS
<1>5. (stock[b][p] = Opening[b][p] + booked[b][p] + Returned(b, p) + looped[b][p])
         <=> (stock[b][p] - booked[b][p] - looped[b][p] = Opening[b][p] + Returned(b, p))
  BY <1>1, <1>2, <1>4
<1> QED
  BY <1>2, <1>3, <1>5 DEF Unexplained

(* Moving stock in or out of a branch is logged with the same quantity. *)
LEMMA MoveExplained ==
    ASSUME TypeOK, NEW b \in Branches, NEW p \in Products, NEW k, NEW offline,
           MoveIn(b, p, k, offline) \/ MoveOut(b, p, k, offline),
           NEW c \in Branches, NEW r \in Products
    PROVE  Unexplained(c, r)' = Unexplained(c, r)
<1>1. stock \in Amount /\ booked \in Amount /\ Quantities \subseteq Nat
  BY StockAssumption DEF TypeOK
<1>2. /\ stock[c][r] \in Int /\ booked[c][r] \in Int /\ looped[c][r] \in Int
      /\ stock[b][p] \in Int /\ booked[b][p] \in Int
  BY <1>1 DEF TypeOK, Amount
<1>3. \E x, y \in Int : /\ stock' = [stock EXCEPT ![b][p] = x]
                        /\ booked' = [booked EXCEPT ![b][p] = y]
                        /\ x - y = stock[b][p] - booked[b][p]
  <2>1. CASE MoveIn(b, p, k, offline)
    <3>1. PICK q \in Quantities : /\ stock' = [stock EXCEPT ![b][p] = stock[b][p] + q]
                                  /\ booked' = [booked EXCEPT ![b][p] = booked[b][p] + q]
      BY <2>1 DEF MoveIn
    <3>2. /\ stock[b][p] + q \in Int /\ booked[b][p] + q \in Int
          /\ (stock[b][p] + q) - (booked[b][p] + q) = stock[b][p] - booked[b][p]
      BY <1>1, <1>2
    <3> QED
      BY <3>1, <3>2
  <2>2. CASE MoveOut(b, p, k, offline)
    <3>1. PICK q \in Quantities : /\ stock' = [stock EXCEPT ![b][p] = stock[b][p] - q]
                                  /\ booked' = [booked EXCEPT ![b][p] = booked[b][p] - q]
      BY <2>2 DEF MoveOut
    <3>2. /\ stock[b][p] - q \in Int /\ booked[b][p] - q \in Int
          /\ (stock[b][p] - q) - (booked[b][p] - q) = stock[b][p] - booked[b][p]
      BY <1>1, <1>2
    <3> QED
      BY <3>1, <3>2
  <2> QED
    BY <2>1, <2>2
<1>4. PICK x \in Int, y \in Int : /\ stock' = [stock EXCEPT ![b][p] = x]
                                  /\ booked' = [booked EXCEPT ![b][p] = y]
                                  /\ x - y = stock[b][p] - booked[b][p]
  BY <1>3
<1>5. stock'[c][r] = IF c = b /\ r = p THEN x ELSE stock[c][r]
  BY <1>1, <1>4, WriteAt
<1>6. booked'[c][r] = IF c = b /\ r = p THEN y ELSE booked[c][r]
  BY <1>1, <1>4, WriteAt
<1>7. stock'[c][r] - booked'[c][r] = stock[c][r] - booked[c][r]
  BY <1>4, <1>5, <1>6
<1>8. looped' = looped
  BY DEF MoveIn, MoveOut
<1> QED
  BY <1>7, <1>8 DEF Unexplained

(* A transfer is explained too: one to the branch itself leaves no trace in  *)
(* the ledger and adds the quantity, which is what "looped" counts.          *)
LEMMA TransferExplained ==
    ASSUME TypeOK, NEW b \in Branches, NEW d \in Branches, NEW p \in Products,
           NEW k, NEW offline, Transfer(b, d, p, k, offline),
           NEW c \in Branches, NEW r \in Products
    PROVE  Unexplained(c, r)' = Unexplained(c, r)
<1>1. stock \in Amount /\ booked \in Amount /\ looped \in Amount /\ Quantities \subseteq Nat
  <2>1. [Branches -> [Products -> Nat]] \subseteq Amount
    BY DEF Amount
  <2> QED
    BY <2>1, StockAssumption DEF TypeOK
<1>2. /\ stock[c][r] \in Int /\ booked[c][r] \in Int /\ looped[c][r] \in Int
      /\ stock[b][p] \in Int /\ booked[b][p] \in Int /\ looped[b][p] \in Int
      /\ stock[d][p] \in Int /\ booked[d][p] \in Int
  BY <1>1 DEF Amount
<1>3. PICK q \in Quantities :
         /\ stock' = Shift(stock, b, d, p, q)
         /\ booked' = Carry(booked, b, d, p, q)
         /\ IF b = d THEN looped' = [looped EXCEPT ![b][p] = looped[b][p] + q]
                     ELSE looped' = looped
  BY DEF Transfer
<1>4. /\ q \in Int /\ stock[b][p] - q \in Int /\ stock[d][p] + q \in Int
      /\ booked[b][p] - q \in Int /\ looped[b][p] + q \in Int
  BY <1>1, <1>2
<1> DEFINE f == [stock EXCEPT ![b][p] = stock[b][p] - q]
           g == [booked EXCEPT ![b][p] = booked[b][p] - q]
<1>5. f \in Amount /\ f[c][r] = IF c = b /\ r = p THEN stock[b][p] - q ELSE stock[c][r]
  BY <1>1, <1>4, WriteType, WriteAt
<1>6. g \in Amount /\ g[c][r] = IF c = b /\ r = p THEN booked[b][p] - q ELSE booked[c][r]
  BY <1>1, <1>4, WriteType, WriteAt
<1>7. g[d][p] = IF d = b THEN booked[b][p] - q ELSE booked[d][p]
  BY <1>1, <1>4, WriteAt
<1>8. stock' = [f EXCEPT ![d][p] = stock[d][p] + q] /\ booked' = [g EXCEPT ![d][p] = g[d][p] + q]
  BY <1>3 DEF Shift, Carry
<1> HIDE DEF f, g
<1>9. g[d][p] + q \in Int
  BY <1>2, <1>4, <1>7
<1>10. stock'[c][r] = IF c = d /\ r = p THEN stock[d][p] + q ELSE f[c][r]
  BY <1>4, <1>5, <1>8, WriteAt
<1>11. booked'[c][r] = IF c = d /\ r = p THEN g[d][p] + q ELSE g[c][r]
  BY <1>6, <1>8, <1>9, WriteAt
<1>12. looped'[c][r] = IF b = d /\ c = b /\ r = p THEN looped[b][p] + q ELSE looped[c][r]
  <2>1. CASE b = d
    BY <1>1, <1>3, <1>4, <2>1, WriteAt
  <2>2. CASE b # d
    BY <1>3, <2>2
  <2> QED
    BY <2>1, <2>2
<1>13. CASE b = d /\ c = b /\ r = p
  <2>1. /\ stock'[c][r] = stock[c][r] + q
        /\ booked'[c][r] = (booked[c][r] - q) + q
        /\ looped'[c][r] = looped[c][r] + q
    BY <1>7, <1>10, <1>11, <1>12, <1>13
  <2> QED
    BY <1>2, <1>4, <2>1 DEF Unexplained
<1>14. CASE ~(b = d /\ c = b /\ r = p)
  <2>1. looped'[c][r] = looped[c][r]
    BY <1>12, <1>14
  <2>2. CASE c = d /\ r = p
    <3>1. stock'[c][r] = stock[c][r] + q /\ booked'[c][r] = booked[c][r] + q
      BY <1>7, <1>10, <1>11, <1>14, <2>2
    <3> QED
      BY <1>2, <1>4, <2>1, <3>1 DEF Unexplained
  <2>3. CASE c = b /\ r = p /\ c # d
    <3>1. stock'[c][r] = stock[c][r] - q /\ booked'[c][r] = booked[c][r] - q
      BY <1>5, <1>6, <1>10, <1>11, <2>3
    <3> QED
      BY <1>2, <1>4, <2>1, <3>1 DEF Unexplained
  <2>4. CASE r # p \/ (c # b /\ c # d)
    <3>1. stock'[c][r] = stock[c][r] /\ booked'[c][r] = booked[c][r]
      BY <1>5, <1>6, <1>10, <1>11, <2>4
    <3> QED
      BY <2>1, <3>1 DEF Unexplained
  <2> QED
    BY <2>2, <2>3, <2>4
<1> QED
  BY <1>13, <1>14

(* A checkout deducts and logs the same, and nothing has been brought back. *)
LEMMA CheckoutExplained ==
    ASSUME TypeOK, NEW b \in Branches, NEW k \in Uuids \cup {NoKey}, Checkout(b, k),
           NEW c \in Branches, NEW r \in Products
    PROVE  Unexplained(c, r)' = Unexplained(c, r) /\ Returned(c, r)' = Returned(c, r)
<1>1. PICK basket \in Baskets :
         /\ stock' = [stock EXCEPT ![b] = [p \in Products |-> @[p] - Taken(basket, p)]]
         /\ booked' = [booked EXCEPT ![b] = [p \in Products |-> @[p] - Taken(basket, p)]]
         /\ [key |-> k, branch |-> b, basket |-> basket, status |-> "CONFIRMED"] \in Sales
         /\ sales' = Append(sales, [key |-> k, branch |-> b, basket |-> basket,
                                    status |-> "CONFIRMED"])
  BY CheckoutShape
<1>2. /\ stock[c][r] \in Int /\ booked[c][r] \in Int /\ looped[c][r] \in Int
      /\ Taken(basket, r) \in Int /\ looped' = looped
  BY TakenType DEF TypeOK, Amount, Checkout
<1>3. /\ stock'[c][r] = IF c = b THEN stock[c][r] - Taken(basket, r) ELSE stock[c][r]
      /\ booked'[c][r] = IF c = b THEN booked[c][r] - Taken(basket, r) ELSE booked[c][r]
  BY <1>1 DEF TypeOK, Amount
<1>4. Unexplained(c, r)' = Unexplained(c, r)
  BY <1>2, <1>3 DEF Unexplained
<1>5. /\ DOMAIN sales = 1 .. Len(sales) /\ Len(sales) \in Nat
      /\ DOMAIN sales' = 1 .. Len(sales) + 1
      /\ \A i \in DOMAIN sales : sales'[i] = sales[i]
      /\ sales'[Len(sales) + 1].status = "CONFIRMED"
  BY <1>1, AppendSale DEF TypeOK
<1>6. VoidedOf(c)' = VoidedOf(c)
  <2>1. \A i \in DOMAIN sales' : i \in DOMAIN sales \/ i = Len(sales) + 1
    BY <1>5
  <2>2. DOMAIN sales \subseteq DOMAIN sales'
    BY <1>5
  <2> QED
    BY <1>5, <2>1, <2>2 DEF VoidedOf
<1>7. \A i \in VoidedOf(c) : TakenBySale(r)'[i] = TakenBySale(r)[i]
  <2>1. \A i \in DOMAIN sales : i \in DOMAIN sales' /\ sales'[i] = sales[i]
    BY <1>5
  <2> QED
    BY <2>1 DEF TakenBySale, VoidedOf
<1>8. SumFunctionOnSet(TakenBySale(r)', VoidedOf(c)) = SumFunctionOnSet(TakenBySale(r), VoidedOf(c))
  BY <1>7, ReturnedType, SumAgree
<1> QED
  BY <1>4, <1>6, <1>8 DEF Returned

(* A void brings back what its sale took, once, since no sale is voided      *)
(* twice.                                                                    *)
LEMMA VoidExplained ==
    ASSUME TypeOK, NEW i \in DOMAIN sales, VoidSale(i),
           NEW c \in Branches, NEW r \in Products
    PROVE  Unexplained(c, r)' - Unexplained(c, r) = Returned(c, r)' - Returned(c, r)
<1> DEFINE t == Taken(sales[i].basket, r)
<1>1. sales[i].branch \in Branches /\ sales[i].basket \in Baskets
  BY VoidShape DEF Sales
<1>2. /\ stock[c][r] \in Int /\ booked[c][r] \in Int /\ looped[c][r] \in Int
      /\ t \in Int /\ Returned(c, r) \in Int /\ UNCHANGED <<booked, looped>>
  BY <1>1, TakenType, ReturnedType DEF TypeOK, Amount, VoidSale
<1>3. stock'[c][r] = IF c = sales[i].branch THEN stock[c][r] + t ELSE stock[c][r]
  BY <1>1 DEF VoidSale, TypeOK, Amount
<1>4. /\ DOMAIN sales' = DOMAIN sales
      /\ sales[i].status # "VOID" /\ sales'[i].status = "VOID"
      /\ \A j \in DOMAIN sales : /\ sales'[j].branch = sales[j].branch
                                 /\ sales'[j].basket = sales[j].basket
                                 /\ j # i => sales'[j].status = sales[j].status
  <2>1. \A j \in DOMAIN sales : sales[j] \in Sales
    BY DEF TypeOK
  <2>2. sales' = [sales EXCEPT ![i] = [sales[i] EXCEPT !.status = "VOID"]]
    BY DEF VoidSale
  <2> QED
    BY <2>1, <2>2, VoidShape DEF VoidSale, Voidable, Sales
<1>5. TakenBySale(r)' = TakenBySale(r)
  BY <1>4 DEF TakenBySale, Taken
<1>6. CASE c = sales[i].branch
  <2>1. i \notin VoidedOf(c) /\ VoidedOf(c)' = VoidedOf(c) \cup {i}
    BY <1>4, <1>6 DEF VoidedOf
  <2>2. \A x \in VoidedOf(c) \cup {i} : TakenBySale(r)[x] \in Int
    BY ReturnedType
  <2>3. SumFunctionOnSet(TakenBySale(r), VoidedOf(c) \cup {i})
           = TakenBySale(r)[i] + SumFunctionOnSet(TakenBySale(r), VoidedOf(c))
    BY <2>1, <2>2, ReturnedType, SumExtend
  <2>4. TakenBySale(r)[i] = t
    BY DEF TakenBySale
  <2>5. Returned(c, r)' = t + Returned(c, r)
    BY <1>5, <2>1, <2>3, <2>4 DEF Returned
  <2> QED
    BY <1>2, <1>3, <1>6, <2>5 DEF Unexplained
<1>7. CASE c # sales[i].branch
  <2>1. VoidedOf(c)' = VoidedOf(c)
    BY <1>4, <1>7 DEF VoidedOf
  <2>2. Returned(c, r)' = Returned(c, r)
    BY <1>5, <2>1 DEF Returned
  <2> QED
    BY <1>2, <1>3, <1>7, <2>2 DEF Unexplained
<1> QED
  BY <1>6, <1>7

LEMMA StepExplained == TypeOK /\ StockExplained /\ [Next]_vars => StockExplained'
<1> SUFFICES ASSUME TypeOK, StockExplained, [Next]_vars PROVE StockExplained'
  OBVIOUS
<1>1. ASSUME NEW c \in Branches, NEW r \in Products
      PROVE  Unexplained(c, r)' - Unexplained(c, r) = Returned(c, r)' - Returned(c, r)
  <2>1. Unexplained(c, r) \in Int /\ Returned(c, r) \in Int
    BY ReturnedType DEF Unexplained, TypeOK, Amount
  <2>2. ASSUME Unexplained(c, r)' = Unexplained(c, r), sales' = sales
        PROVE  Unexplained(c, r)' - Unexplained(c, r) = Returned(c, r)' - Returned(c, r)
    <3>1. Returned(c, r)' = Returned(c, r)
      BY <2>2 DEF Returned, VoidedOf, TakenBySale
    <3> QED
      BY <2>1, <2>2, <3>1
  <2>3. ASSUME NEW b \in Branches, NEW p \in Products, NEW k, NEW offline,
               MoveIn(b, p, k, offline) \/ MoveOut(b, p, k, offline)
        PROVE  Unexplained(c, r)' - Unexplained(c, r) = Returned(c, r)' - Returned(c, r)
    BY <2>2, <2>3, MoveExplained DEF MoveIn, MoveOut, Acted
  <2>4. ASSUME NEW b \in Branches, NEW d \in Branches, NEW p \in Products, NEW k, NEW offline,
               Transfer(b, d, p, k, offline)
        PROVE  Unexplained(c, r)' - Unexplained(c, r) = Returned(c, r)' - Returned(c, r)
    BY <2>2, <2>4, TransferExplained DEF Transfer, Acted
  <2>5. ASSUME NEW b \in Branches, NEW k \in Uuids \cup {NoKey}, Checkout(b, k)
        PROVE  Unexplained(c, r)' - Unexplained(c, r) = Returned(c, r)' - Returned(c, r)
    BY <2>1, <2>5, CheckoutExplained
  <2>6. ASSUME NEW i \in DOMAIN sales, VoidSale(i)
        PROVE  Unexplained(c, r)' - Unexplained(c, r) = Returned(c, r)' - Returned(c, r)
    BY <2>6, VoidExplained
  <2>7. ASSUME UNCHANGED <<stock, booked, sales, looped>>
        PROVE  Unexplained(c, r)' - Unexplained(c, r) = Returned(c, r)' - Returned(c, r)
    BY <2>2, <2>7 DEF Unexplained
  <2> QED
    BY <2>3, <2>4, <2>5, <2>6, <2>7 DEF Next, OtherOperation, vars
<1>2. TypeOK'
  BY StepType
<1>3. (\A b \in Branches, p \in Products :
         /\ Unexplained(b, p) \in Int /\ Returned(b, p) \in Int /\ Opening[b][p] \in Int
         /\ (stock[b][p] = Opening[b][p] + booked[b][p] + Returned(b, p) + looped[b][p])
            <=> (Unexplained(b, p) = Opening[b][p] + Returned(b, p)))'
  BY <1>2, ExplainedIff, PTL
<1>4. ASSUME NEW c \in Branches, NEW r \in Products
      PROVE  Unexplained(c, r)' = Opening[c][r] + Returned(c, r)'
  <2>1. Unexplained(c, r) \in Int /\ Returned(c, r) \in Int /\ Opening[c][r] \in Int
    BY ExplainedIff
  <2>2. Unexplained(c, r) = Opening[c][r] + Returned(c, r)
    BY ExplainedIff DEF StockExplained
  <2>3. Unexplained(c, r)' \in Int /\ Returned(c, r)' \in Int
    BY <1>3
  <2>4. \A u, v, w, x \in Int : x - u = v - w /\ u = Opening[c][r] + w
                                  => x = Opening[c][r] + v
    BY <2>1
  <2> QED
    BY <1>1, <2>1, <2>2, <2>3, <2>4
<1> QED
  BY <1>3, <1>4 DEF StockExplained

(* Every balance is explained to the unit, for any branches, products and    *)
(* quantities: by the opening stock, the ledger, the voided sales, each      *)
(* counted once, and the transfers of a branch to itself.                    *)
THEOREM BalancesExplained == Spec => []StockExplained
<1>1. Init => TypeOK /\ StockExplained
  <2> SUFFICES ASSUME Init PROVE TypeOK /\ StockExplained
    OBVIOUS
  <2>1. TypeOK
    BY StockAssumption DEF Init, TypeOK, Amount
  <2>2. ASSUME NEW b \in Branches, NEW p \in Products
        PROVE  Unexplained(b, p) = Opening[b][p] + Returned(b, p)
    <3>1. VoidedOf(b) = {}
      BY DEF VoidedOf, Init
    <3>2. Returned(b, p) = 0
      BY <3>1, SumEmpty DEF Returned
    <3>3. Opening[b][p] \in Int
      BY StockAssumption
    <3> QED
      BY <3>2, <3>3 DEF Unexplained, Init
  <2> QED
    BY <2>1, <2>2, ExplainedIff DEF StockExplained
<1> QED
  BY <1>1, StepType, StepExplained, PTL DEF Spec
=============================================================================
