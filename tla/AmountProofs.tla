---------------------------- MODULE AmountProofs ----------------------------
(***************************************************************************)
(* The safety of the two modules about numbers.                            *)
(*                                                                         *)
(* CoinAdd, for any limits, any numbers that may be typed and any number   *)
(* of dialogs.  SpoiltByItsLots is not inductive: a quantity that is tiny  *)
(* though no lot was could bring the price down.  What is: the quantity is *)
(* not tiny until a lot with a tiny number is added.                       *)
(*                                                                         *)
(* Valuation, for any coins, prices and holdings.  A total is a sum over a *)
(* finite set of coins, and cutString a loop over digits: what either      *)
(* gives is shown by induction, with a set of numbers or of subsets for    *)
(* the property.  The invariant keeps what the screens forget: that each   *)
(* row was made of a text of the price now shown, and the label of the     *)
(* rows.                                                                   *)
(***************************************************************************)
EXTENDS CoinAdd, Valuation, FiniteSetTheorems, WellFoundedInduction, TLAPS

\* What explains the entry.
Explained(e, lots_) ==
    /\ e.quantity = "tiny" => "tiny" \in lots_
    /\ e.price \in {"zero", "tiny"} => "tiny" \in lots_ \/ e.quantity = "infinite"
    /\ e.price \in {"infinite", "nan"} => e.quantity \in {"huge", "infinite"}
    /\ e.quantity \in {"huge", "infinite"} => lots_ \intersect {"huge", "infinite"} # {}

DialogInv == DialogTypeOK /\ OpenHasSentNothing /\ (entry # NoEntry => Explained(entry, odd))

Entry == [price : PriceKinds, quantity : QuantityKinds]
CostKind == {"usual", "tiny", "zero", "huge", "infinite", "nan"}

-----------------------------------------------------------------------------
(* The arithmetic of the kinds of numbers.                                  *)

\* A sum of quantities is tiny or great only if one of them is.
LEMMA SumOfQuantities ==
  ASSUME NEW a \in QuantityKinds, NEW b \in QuantityKinds, NEW s \in Sum(a, b)
  PROVE  /\ s \in QuantityKinds
         /\ s = "tiny" => a = "tiny" /\ b = "tiny"
         /\ s \in {"huge", "infinite"} <=> (a \in {"huge", "infinite"} \/ b \in {"huge", "infinite"})
         /\ a = "infinite" \/ b = "infinite" => s = "infinite"
<1> QED BY DEF Sum, QuantityKinds

\* A sum of two costs vanishes only with both, and overflows only if one is great.
LEMMA SumOfCosts ==
  ASSUME NEW a \in CostKind, NEW b \in CostKind, NEW s \in Sum(a, b)
  PROVE  /\ s \in CostKind
         /\ s = "zero" => a = "zero" /\ b = "zero"
         /\ s \in {"infinite", "nan"} => a \in {"huge", "infinite", "nan"} \/ b \in {"huge", "infinite", "nan"}
<1> QED BY DEF Sum, CostKind

\* What a product may be: it vanishes only if one factor is small, and overflows only
\* if one is great.
LEMMA ProductOf ==
  ASSUME NEW p \in PriceKinds, NEW q \in QuantityKinds, NEW c \in Product(p, q)
  PROVE  /\ c \in CostKind
         /\ c = "zero" => p \in {"zero", "tiny"} \/ q = "tiny"
         /\ c \in {"huge", "infinite", "nan"} => p \in {"infinite", "nan"} \/ q \in {"huge", "infinite"}
<1> QED BY DEF Product, PriceKinds, QuantityKinds, CostKind

\* What a mean price may be.
LEMMA QuotientOf ==
  ASSUME NEW c \in CostKind, NEW q \in QuantityKinds, NEW small \in BOOLEAN, NEW e \in Quotient(c, q, small)
  PROVE  /\ e \in PriceKinds
         /\ e \in {"infinite", "nan"} => c \in {"infinite", "nan"}
         /\ e \in {"zero", "tiny"} => c = "zero" \/ q = "infinite" \/ small
<1> QED BY DEF Quotient, PriceKinds, CostKind

\* The entry that a lot leaves is explained by the lots before it and its own numbers.
LEMMA MergedExplained ==
  ASSUME entry \in Entry, NEW before, NEW after, Explained(entry, before), before \subseteq after,
         NEW p \in {"usual", "tiny"}, NEW q \in QuantityKinds, NEW e \in Merged(p, q),
         \A k \in {p, q} \ {"usual"} : k \in after
  PROVE  e \in Entry /\ Explained(e, after)
<1> DEFINE sum == e.quantity
           p1 == entry.price
           q1 == entry.quantity
           small == {p1, q1, p, q} \intersect {"zero", "tiny"} # {}
<1>1. e \in [price : PriceKinds, quantity : Sum(q1, q)] /\ Averages(e.price, sum, p, q)
  BY DEF Merged
<1>2. PICK a \in Product(p1, q1), b \in Product(p, q) :
        \E cost \in Sum(a, b) : e.price \in Quotient(cost, sum, small)
  BY <1>1 DEF Averages
<1>3. PICK cost \in Sum(a, b) : e.price \in Quotient(cost, sum, small)
  BY <1>2
<1>4. p1 \in PriceKinds /\ q1 \in QuantityKinds /\ p \in PriceKinds
  BY DEF Entry, PriceKinds
<1>5. sum \in Sum(q1, q)
  BY <1>1
<1>6. /\ p1 \in {"zero", "tiny"} => "tiny" \in before \/ q1 = "infinite"
      /\ q1 = "tiny" => "tiny" \in before
      /\ p1 \in {"infinite", "nan"} => q1 \in {"huge", "infinite"}
      /\ q1 \in {"huge", "infinite"} => before \intersect {"huge", "infinite"} # {}
  BY DEF Explained
<1>7. small \in BOOLEAN /\ (small => p1 \in {"zero", "tiny"} \/ q1 = "tiny" \/ p = "tiny" \/ q = "tiny")
  BY DEF QuantityKinds
<1> HIDE DEF small, p1, q1
<1>8. /\ a \in CostKind
      /\ a = "zero" => p1 \in {"zero", "tiny"} \/ q1 = "tiny"
      /\ a \in {"huge", "infinite", "nan"} =>
            p1 \in {"infinite", "nan"} \/ q1 \in {"huge", "infinite"}
  BY <1>2, <1>4, ProductOf
<1>9. /\ b \in CostKind
      /\ b = "zero" => p = "tiny" \/ q = "tiny"
      /\ b \in {"huge", "infinite", "nan"} => q \in {"huge", "infinite"}
  BY <1>2, <1>4, ProductOf
<1>10. /\ cost \in CostKind
       /\ cost = "zero" => a = "zero" /\ b = "zero"
       /\ cost \in {"infinite", "nan"} => a \in {"huge", "infinite", "nan"} \/ b \in {"huge", "infinite", "nan"}
  BY <1>3, <1>8, <1>9, SumOfCosts
<1>11. /\ sum \in QuantityKinds
       /\ sum = "tiny" => q1 = "tiny" /\ q = "tiny"
       /\ sum \in {"huge", "infinite"} <=> (q1 \in {"huge", "infinite"} \/ q \in {"huge", "infinite"})
       /\ q1 = "infinite" => sum = "infinite"
  BY <1>4, <1>5, SumOfQuantities
<1>12. /\ e.price \in PriceKinds
       /\ e.price \in {"infinite", "nan"} => cost \in {"infinite", "nan"}
       /\ e.price \in {"zero", "tiny"} => cost = "zero" \/ sum = "infinite" \/ small
  BY <1>3, <1>7, <1>10, <1>11, QuotientOf
<1>13. e.quantity = sum /\ e \in Entry
  BY <1>1, <1>11 DEF Entry
<1>14. /\ p = "tiny" => "tiny" \in after
       /\ q # "usual" => q \in after
  <2>1. p = "tiny" => p \in {p, q} \ {"usual"}
    OBVIOUS
  <2>2. q # "usual" => q \in {p, q} \ {"usual"}
    OBVIOUS
  <2> QED BY <2>1, <2>2
<1>15. e.quantity = "tiny" => "tiny" \in after
  BY <1>11, <1>14
<1>16. e.price \in {"zero", "tiny"} => "tiny" \in after \/ e.quantity = "infinite"
  <2>1. cost = "zero" => "tiny" \in after
    BY <1>9, <1>10, <1>14
  <2>2. small => "tiny" \in after \/ sum = "infinite"
    BY <1>6, <1>7, <1>11, <1>14
  <2> QED BY <1>12, <2>1, <2>2
<1>17. e.price \in {"infinite", "nan"} => e.quantity \in {"huge", "infinite"}
  BY <1>6, <1>8, <1>9, <1>10, <1>11, <1>12
<1>18. e.quantity \in {"huge", "infinite"} => after \intersect {"huge", "infinite"} # {}
  BY <1>6, <1>11, <1>14
<1> QED BY <1>13, <1>15, <1>16, <1>17, <1>18 DEF Explained

-----------------------------------------------------------------------------
\* The inductive invariant holds at first.
LEMMA InitDialogInv == DialogInit => DialogInv
<1> SUFFICES ASSUME DialogInit PROVE DialogInv
  OBVIOUS
<1>1. Empty \in Texts
  BY DEF Empty, Texts
<1>2. fields \in [{"price", "quantity"} -> Texts]
  BY <1>1 DEF DialogInit
<1>3. dialogs \in 0..MaxDialogs
  BY CoinAddAssumption DEF DialogInit
<1>4. odd \subseteq {"tiny", "huge", "infinite"}
  BY DEF DialogInit
<1>5. OpenHasSentNothing
  <2>1. lots = 0 /\ dialog # "open"
    BY DEF DialogInit
  <2> QED BY <2>1 DEF OpenHasSentNothing
<1> QED BY <1>2, <1>3, <1>4, <1>5 DEF DialogInit, DialogInv, DialogTypeOK

\* A lot leaves the dialog and reaches the portfolio.
LEMMA TapAddStep ==
  ASSUME DialogInv, TapAdd
  PROVE  DialogInv'
<1> DEFINE p == fields["price"].kind
           q == fields["quantity"].kind
<1>1. /\ dialog = "open" /\ dialog' = "none" /\ error' = "hidden" /\ Add(p, q)
      /\ limits' = limits /\ fields' = fields /\ dialogs' = dialogs
      /\ Within(fields["price"]) /\ Positive(fields["quantity"])
  BY DEF TapAdd
<1>2. p \in {"usual", "tiny"} /\ q \in QuantityKinds
  BY <1>1 DEF Within, Positive, QuantityKinds
<1> HIDE DEF p, q
<1>3. lots = 0 /\ lots' = 1 /\ odd' = odd \union ({p, q} \ {"usual"}) /\ odd \subseteq {"tiny", "huge", "infinite"}
  BY <1>1 DEF Add, DialogInv, DialogTypeOK, OpenHasSentNothing
<1>4. entry' \in Entry /\ Explained(entry', odd')
  <2>1. CASE entry = NoEntry
    <3>1. entry' = [price |-> p, quantity |-> q]
      BY <2>1, <1>1 DEF Add
    <3>2. entry' \in Entry /\ entry'.price = p /\ entry'.quantity = q
      BY <3>1, <1>2 DEF Entry, PriceKinds
    <3> QED BY <3>2, <1>2, <1>3 DEF Explained, QuantityKinds
  <2>2. CASE entry # NoEntry
    <3>1. entry' \in Merged(p, q)
      BY <2>2, <1>1 DEF Add
    <3>2. entry \in Entry /\ Explained(entry, odd)
      BY <2>2 DEF DialogInv, DialogTypeOK, Entry, PriceKinds, QuantityKinds
    <3>3. odd \subseteq odd' /\ \A k \in {p, q} \ {"usual"} : k \in odd'
      BY <1>3
    <3> QED BY <3>1, <3>2, <3>3, <1>2, MergedExplained
  <2> QED BY <2>1, <2>2
<1>5. DialogTypeOK'
  <2>1. odd' \subseteq {"tiny", "huge", "infinite"}
    BY <1>2, <1>3 DEF QuantityKinds
  <2>2. lots' \in Nat
    BY <1>3
  <2> QED BY <2>1, <2>2, <1>1, <1>4 DEF DialogInv, DialogTypeOK, Entry, PriceKinds, QuantityKinds
<1>6. OpenHasSentNothing'
  BY <1>1, <1>3 DEF OpenHasSentNothing
<1> QED BY <1>4, <1>5, <1>6 DEF DialogInv

\* Every step keeps the inductive invariant.
LEMMA StepDialogInv == DialogInv /\ [DialogNext]_dialogVars => DialogInv'
<1> SUFFICES ASSUME DialogInv, [DialogNext]_dialogVars PROVE DialogInv'
  OBVIOUS
<1> USE DEF DialogInv, DialogTypeOK, OpenHasSentNothing
<1>1. CASE Open
  <2>1. Empty \in Texts
    BY DEF Empty, Texts
  <2>2. fields' \in [{"price", "quantity"} -> Texts]
    BY <1>1, <2>1 DEF Open
  <2>3. dialogs' \in 0..MaxDialogs
    BY <1>1, CoinAddAssumption DEF Open
  <2> QED BY <1>1, <2>2, <2>3 DEF Open
<1>2. CASE Type
  <2>1. fields' \in [{"price", "quantity"} -> Texts]
    BY <1>2 DEF Type
  <2> QED BY <1>2, <2>1 DEF Type
<1>3. CASE Cancel
  BY <1>3 DEF Cancel
<1>4. CASE Delete
  BY <1>4 DEF Delete
<1>5. CASE TapUnfilled
  BY <1>5 DEF TapUnfilled
<1>6. CASE TapTraps
  BY <1>6 DEF TapTraps
<1>7. CASE TapOutOfRange
  BY <1>7 DEF TapOutOfRange
<1>8. CASE TapAdd
  BY <1>8, TapAddStep
<1>9. CASE UNCHANGED dialogVars
  BY <1>9 DEF dialogVars
<1> QED
  BY <1>1, <1>2, <1>3, <1>4, <1>5, <1>6, <1>7, <1>8, <1>9 DEF DialogNext

-----------------------------------------------------------------------------
\* A dialog that shows an error has sent nothing, and one that sent its lot is gone:
\* whatever is typed and tapped, a dialog sends at most one lot.
THEOREM DialogSendsOneLot == DialogSpec => []DialogConsistent
<1>1. DialogInv => DialogConsistent
  BY DEF DialogInv, DialogConsistent
<1> QED BY <1>1, InitDialogInv, StepDialogInv, PTL DEF DialogSpec

\* In any sequence of lots and deletions, the mean price of a coin is brought down to
\* nothing only by a lot with a number so small that products vanish or by an infinite
\* quantity, and overflows only with a quantity that is great, by a lot that was great.
THEOREM OnlyUnusualLotsSpoil == DialogSpec => []SpoiltByItsLots
<1>1. DialogInv => SpoiltByItsLots
  BY DEF DialogInv, DialogTypeOK, Explained, NoEntry, SpoiltByItsLots
<1> QED BY <1>1, InitDialogInv, StepDialogInv, PTL DEF DialogSpec

-----------------------------------------------------------------------------
(* Induction, with a set for the property.                                  *)

\* A set of natural numbers has a least element.
LEMMA LeastNatural ==
  ASSUME NEW T, T \subseteq Nat, T # {}
  PROVE  \E n \in T : \A m \in T : n <= m
<1> DEFINE R == {ss \in Nat \X Nat : ss[1] < ss[2]}
<1>1. OpToRel(<, Nat) = R
  BY DEF OpToRel
<1>2. PICK n \in T : \A m \in T : ~ (<<m, n>> \in R)
  BY <1>1, NatLessThanWellFounded, WFMin
<1>3. \A m \in T : n <= m
  <2> SUFFICES ASSUME NEW m \in T, m < n PROVE FALSE
    BY <1>2
  <2>1. <<m, n>> \in R
    BY <1>2
  <2> QED BY <2>1, <1>2
<1> QED BY <1>2, <1>3

\* A set that holds zero and, with a number, the next one, holds them all.
LEMMA NaturalsBySteps ==
  ASSUME NEW T, 0 \in T, \A n \in Nat : n \in T => n + 1 \in T
  PROVE  \A n \in Nat : n \in T
<1> DEFINE U == {n \in Nat : n \notin T}
<1> SUFFICES ASSUME U # {} PROVE FALSE
  OBVIOUS
<1>1. PICK n \in U : \A m \in U : n <= m
  <2> HIDE DEF U
  <2>1. U \subseteq Nat
    BY DEF U
  <2> QED BY <2>1, LeastNatural
<1>2. n \in Nat /\ n # 0 /\ n \notin T
  BY <1>1
<1>3. n - 1 \in Nat /\ ~ (n <= n - 1)
  BY <1>2
<1>4. n - 1 \in T
  BY <1>1, <1>3
<1>5. (n - 1) + 1 \in T
  BY <1>3, <1>4
<1> QED BY <1>2, <1>5

\* The element with which a sum over a set begins.
Pick(s) == CHOOSE x \in s : TRUE

\* It is one of the set.
LEMMA PickIn ==
  ASSUME NEW s, s # {}
  PROVE  Pick(s) \in s
<1> QED BY DEF Pick

\* A set of subsets of a finite set D that holds the empty one and, with a set
\* without its first element, the set itself, holds them all.
LEMMA SubsetsBySteps ==
  ASSUME NEW D, IsFiniteSet(D), NEW T, {} \in T,
         \A s \in SUBSET D : s # {} /\ s \ {Pick(s)} \in T => s \in T
  PROVE  \A s \in SUBSET D : s \in T
<1> DEFINE N == {n \in Nat : \A s \in SUBSET D : Cardinality(s) = n => s \in T}
<1>1. \A s \in SUBSET D : IsFiniteSet(s) /\ Cardinality(s) \in Nat /\ (Cardinality(s) = 0 <=> s = {})
  BY FS_Subset, FS_CardinalityType, FS_EmptySet
<1>2. 0 \in N
  BY <1>1
<1>3. \A n \in Nat : n \in N => n + 1 \in N
  <2> SUFFICES ASSUME NEW n \in Nat, n \in N, NEW s \in SUBSET D, Cardinality(s) = n + 1
               PROVE  s \in T
    BY <1>1
  <2>1. s # {} /\ Pick(s) \in s
    BY <1>1, PickIn
  <2>2. Cardinality(s \ {Pick(s)}) = Cardinality(s) - 1
    BY <1>1, <2>1, FS_RemoveElement
  <2>3. Cardinality(s \ {Pick(s)}) = n
    BY <2>2
  <2>4. s \ {Pick(s)} \in T
    BY <2>3
  <2> QED BY <2>1, <2>4
<1>4. \A n \in Nat : n \in N
  <2> HIDE DEF N
  <2> QED BY <1>2, <1>3, NaturalsBySteps
<1> QED BY <1>1, <1>4

-----------------------------------------------------------------------------
(* Totals.                                                                  *)

\* What the sum over a set s is, in the table g of the sums of f.
SumIn(f, g, s) == IF s = {} THEN 0 ELSE f[Pick(s)] + g[s \ {Pick(s)}]

\* g holds the sums of f over all sets of its arguments.
IsTable(f, g) ==
    /\ g \in [SUBSET DOMAIN f -> Int]
    /\ \A s \in SUBSET DOMAIN f : g[s] = SumIn(f, g, s)

\* There is such a table.
LEMMA TableExists ==
  ASSUME NEW D, IsFiniteSet(D), NEW f \in [D -> Int]
  PROVE  \E g : IsTable(f, g)
<1> DEFINE Upto(n) == {s \in SUBSET D : Cardinality(s) <= n}
           Fits(n, g) == g \in [Upto(n) -> Int] /\ \A s \in Upto(n) : g[s] = SumIn(f, g, s)
           N == {n \in Nat : \E g : Fits(n, g)}
<1>1. \A s \in SUBSET D : IsFiniteSet(s) /\ Cardinality(s) \in Nat /\ (Cardinality(s) = 0 <=> s = {})
                            /\ Cardinality(s) <= Cardinality(D)
  BY FS_Subset, FS_CardinalityType, FS_EmptySet
<1>2. 0 \in N
  <2>1. Fits(0, [s \in Upto(0) |-> 0])
    BY <1>1 DEF SumIn
  <2> QED BY <2>1
<1>3. \A n \in Nat : n \in N => n + 1 \in N
  <2> SUFFICES ASSUME NEW n \in Nat, n \in N
               PROVE  n + 1 \in N
    OBVIOUS
  <2> PICK g : Fits(n, g)
    OBVIOUS
  <2> DEFINE h == [s \in Upto(n + 1) |-> SumIn(f, g, s)]
  <2>1. \A s \in Upto(n + 1) : s # {} => Pick(s) \in D /\ s \ {Pick(s)} \in Upto(n) /\ s \ {Pick(s)} \in Upto(n + 1)
    <3> SUFFICES ASSUME NEW s \in Upto(n + 1), s # {}
                 PROVE  Pick(s) \in D /\ s \ {Pick(s)} \in Upto(n) /\ s \ {Pick(s)} \in Upto(n + 1)
      OBVIOUS
    <3>1. Pick(s) \in s
      BY PickIn
    <3>2. Cardinality(s \ {Pick(s)}) = Cardinality(s) - 1
      BY <1>1, <3>1, FS_RemoveElement
    <3>3. Cardinality(s) \in Nat /\ Cardinality(s) <= n + 1
      BY <1>1
    <3>4. Cardinality(s \ {Pick(s)}) <= n /\ Cardinality(s \ {Pick(s)}) <= n + 1
      BY <3>2, <3>3
    <3> QED BY <3>1, <3>4
  <2>2. \A s \in Upto(n) : h[s] = g[s]
    <3>1. \A s \in Upto(n) : s \in Upto(n + 1)
      BY <1>1
    <3> QED BY <3>1
  <2>3. h \in [Upto(n + 1) -> Int]
    <3> SUFFICES ASSUME NEW s \in Upto(n + 1) PROVE SumIn(f, g, s) \in Int
      OBVIOUS
    <3>1. CASE s = {}
      BY <3>1 DEF SumIn
    <3>2. CASE s # {}
      <4>1. f[Pick(s)] \in Int /\ g[s \ {Pick(s)}] \in Int
        BY <2>1, <3>2
      <4> QED BY <3>2, <4>1 DEF SumIn
    <3> QED BY <3>1, <3>2
  <2>4. \A s \in Upto(n + 1) : h[s] = SumIn(f, h, s)
    <3> SUFFICES ASSUME NEW s \in Upto(n + 1) PROVE SumIn(f, g, s) = SumIn(f, h, s)
      OBVIOUS
    <3>1. s # {} => h[s \ {Pick(s)}] = g[s \ {Pick(s)}]
      BY <2>1, <2>2
    <3> HIDE DEF h
    <3> QED BY <3>1 DEF SumIn
  <2>5. Fits(n + 1, h)
    BY <2>3, <2>4
  <2>6. n + 1 \in Nat
    OBVIOUS
  <2> HIDE DEF h, Fits, Upto
  <2> QED BY <2>5, <2>6
<1>4. Cardinality(D) \in Nat
  BY FS_CardinalityType
<1>5. \A n \in Nat : n \in N
  <2> HIDE DEF N
  <2> QED BY <1>2, <1>3, NaturalsBySteps
<1>6. PICK g : Fits(Cardinality(D), g)
  BY <1>4, <1>5
<1>7. Upto(Cardinality(D)) = SUBSET D /\ DOMAIN f = D
  BY <1>1
<1>8. IsTable(f, g)
  BY <1>6, <1>7 DEF IsTable
<1> QED BY <1>8

\* Total is the sum that such a table holds for the whole set.
LEMMA TotalFromTable ==
  ASSUME NEW D, IsFiniteSet(D), NEW f \in [D -> Int]
  PROVE  \E g : IsTable(f, g) /\ Total(f) = g[D]
<1> DEFINE Same(g) == g = [s \in SUBSET DOMAIN f |->
                             IF s = {} THEN 0 ELSE f[Pick(s)] + g[s \ {Pick(s)}]]
<1>1. PICK g : IsTable(f, g)
  BY TableExists
<1>2. Same(g)
  BY <1>1 DEF IsTable, SumIn
<1>3. Total(f) = (CHOOSE h : Same(h))[DOMAIN f]
  BY DEF Total, MapThenSumSet, MapThenFoldSet, Pick
<1> DEFINE t == CHOOSE h : Same(h)
<1>4. Same(t)
  BY <1>2
<1> HIDE DEF t
<1>5. \A s \in SUBSET D : t[s] = SumIn(f, t, s)
  BY <1>4 DEF SumIn
<1>6. \A s \in SUBSET D : t[s] \in Int
  <2> DEFINE T == {s \in SUBSET D : t[s] \in Int}
  <2>1. {} \in T
    <3>1. {} \in SUBSET D /\ SumIn(f, t, {}) = 0
      BY DEF SumIn
    <3> QED BY <1>5, <3>1
  <2>2. \A s \in SUBSET D : s # {} /\ s \ {Pick(s)} \in T => s \in T
    <3> SUFFICES ASSUME NEW s \in SUBSET D, s # {}, t[s \ {Pick(s)}] \in Int
                 PROVE  t[s] \in Int
      OBVIOUS
    <3>1. f[Pick(s)] \in Int
      BY PickIn
    <3>2. t[s] = f[Pick(s)] + t[s \ {Pick(s)}]
      BY <1>5 DEF SumIn
    <3> QED BY <3>1, <3>2
  <2> HIDE DEF T
  <2>3. \A s \in SUBSET D : s \in T
    BY <2>1, <2>2, SubsetsBySteps
  <2> QED BY <2>3 DEF T
<1>7. IsTable(f, t)
  BY <1>4, <1>5, <1>6 DEF IsTable
<1> QED BY <1>3, <1>7 DEF t

\* F adds up f over the subsets of D, one element after the other.
Adds(D, f, F) ==
    /\ F[{}] = 0
    /\ \A s \in SUBSET D : s # {} =>
          /\ Pick(s) \in D /\ F[s \ {Pick(s)}] \in Int
          /\ F[s] = f[Pick(s)] + F[s \ {Pick(s)}]

\* A total is a sum that is added up so, and an integer.
LEMMA TotalAdds ==
  ASSUME NEW D, IsFiniteSet(D), NEW f \in [D -> Int]
  PROVE  \E F : Adds(D, f, F) /\ Total(f) = F[D] /\ Total(f) \in Int
<1> PICK g : IsTable(f, g) /\ Total(f) = g[D]
  BY TotalFromTable
<1>1. DOMAIN f = D
  OBVIOUS
<1>2. g[{}] = 0
  <2>1. {} \in SUBSET D /\ SumIn(f, g, {}) = 0
    BY DEF SumIn
  <2> QED BY <2>1, <1>1 DEF IsTable
<1>3. ASSUME NEW s \in SUBSET D, s # {}
      PROVE  /\ Pick(s) \in D /\ g[s \ {Pick(s)}] \in Int
             /\ g[s] = f[Pick(s)] + g[s \ {Pick(s)}]
  <2>1. Pick(s) \in D
    BY <1>3, PickIn
  <2>2. g[s \ {Pick(s)}] \in Int
    BY <1>1 DEF IsTable
  <2>3. SumIn(f, g, s) = f[Pick(s)] + g[s \ {Pick(s)}]
    BY <1>3 DEF SumIn
  <2> QED BY <1>1, <2>1, <2>2, <2>3 DEF IsTable
<1>4. g[D] \in Int
  BY <1>1 DEF IsTable
<1> QED BY <1>2, <1>3, <1>4 DEF Adds

\* The total of natural numbers is one.
LEMMA TotalNat ==
  ASSUME NEW D, IsFiniteSet(D), NEW f \in [D -> Nat]
  PROVE  Total(f) \in Nat
<1>1. f \in [D -> Int]
  OBVIOUS
<1>2. PICK g : Adds(D, f, g) /\ Total(f) = g[D]
  BY <1>1, TotalAdds
<1> DEFINE T == {s \in SUBSET D : g[s] \in Nat}
<1>3. {} \in T
  BY <1>2 DEF Adds
<1>4. ASSUME NEW s \in SUBSET D, s # {}, s \ {Pick(s)} \in T
      PROVE  s \in T
  <2>1. Pick(s) \in D /\ g[s] = f[Pick(s)] + g[s \ {Pick(s)}]
    BY <1>2, <1>4 DEF Adds
  <2>2. f[Pick(s)] \in Nat /\ g[s \ {Pick(s)}] \in Nat
    BY <1>4, <2>1
  <2> QED BY <2>1, <2>2
<1>5. D \in T
  <2> HIDE DEF T
  <2> QED BY <1>3, <1>4, SubsetsBySteps
<1> QED BY <1>2, <1>5

\* The total of multiples of ten is one.
LEMMA TotalTens ==
  ASSUME NEW D, IsFiniteSet(D), NEW f \in [D -> Nat], \A c \in D : f[c] % 10 = 0
  PROVE  Total(f) % 10 = 0
<1>1. f \in [D -> Int]
  OBVIOUS
<1>2. PICK g : Adds(D, f, g) /\ Total(f) = g[D]
  BY <1>1, TotalAdds
<1> DEFINE T == {s \in SUBSET D : g[s] \in Int /\ g[s] % 10 = 0}
<1>3. {} \in T
  BY <1>2 DEF Adds
<1>4. ASSUME NEW s \in SUBSET D, s # {}, s \ {Pick(s)} \in T
      PROVE  s \in T
  <2>1. Pick(s) \in D /\ g[s] = f[Pick(s)] + g[s \ {Pick(s)}]
    BY <1>2, <1>4 DEF Adds
  <2>2. /\ f[Pick(s)] \in Int /\ f[Pick(s)] % 10 = 0
        /\ g[s \ {Pick(s)}] \in Int /\ g[s \ {Pick(s)}] % 10 = 0
    BY <1>4, <2>1
  <2>3. \A a, b \in Int : a % 10 = 0 /\ b % 10 = 0 => a + b \in Int /\ (a + b) % 10 = 0
    OBVIOUS
  <2>4. g[s] \in Int /\ g[s] % 10 = 0
    BY <2>1, <2>2, <2>3
  <2> QED BY <2>4
<1>5. D \in T
  <2> HIDE DEF T
  <2> QED BY <1>3, <1>4, SubsetsBySteps
<1> QED BY <1>2, <1>5

\* A bound on every term, and the same bound on the totals.
TermsWithin(D, f, g, h, a, b, e) == \A c \in D : a * f[c] <= b * g[c] + e * h[c]
SumsWithin(f, g, h, a, b, e) == a * Total(f) <= b * Total(g) + e * Total(h)

\* What holds of the amounts of each coin holds of their totals: a of f is at most b of g
\* and e of h.
LEMMA TotalsWithin ==
  ASSUME NEW D, IsFiniteSet(D), NEW f \in [D -> Int], NEW g \in [D -> Int], NEW h \in [D -> Int],
         NEW a \in Int, NEW b \in Int, NEW e \in Int,
         TermsWithin(D, f, g, h, a, b, e)
  PROVE  SumsWithin(f, g, h, a, b, e)
<1>0. \A c \in D : a * f[c] <= b * g[c] + e * h[c]
  BY DEF TermsWithin
<1>1. PICK F : Adds(D, f, F) /\ Total(f) = F[D]
  BY TotalAdds
<1>2. PICK G : Adds(D, g, G) /\ Total(g) = G[D]
  BY TotalAdds
<1>3. PICK H : Adds(D, h, H) /\ Total(h) = H[D]
  BY TotalAdds
<1> DEFINE T == {s \in SUBSET D : a * F[s] <= b * G[s] + e * H[s]}
<1>4. {} \in T
  <2>1. F[{}] = 0 /\ G[{}] = 0 /\ H[{}] = 0
    BY <1>1, <1>2, <1>3 DEF Adds
  <2>2. a * 0 = 0 /\ b * 0 = 0 /\ e * 0 = 0
    OBVIOUS
  <2> QED BY <2>1, <2>2
<1>5. ASSUME NEW s \in SUBSET D, s # {}, s \ {Pick(s)} \in T
      PROVE  s \in T
  <2> DEFINE p == Pick(s)
             r == s \ {Pick(s)}
  <2>1. p \in D /\ F[r] \in Int /\ F[s] = f[p] + F[r]
    BY <1>1, <1>5 DEF Adds
  <2>2. G[r] \in Int /\ G[s] = g[p] + G[r]
    BY <1>2, <1>5 DEF Adds
  <2>3. H[r] \in Int /\ H[s] = h[p] + H[r]
    BY <1>3, <1>5 DEF Adds
  <2>4. a * F[r] <= b * G[r] + e * H[r]
    BY <1>5
  <2> HIDE DEF p, r
  <2>5. f[p] \in Int /\ g[p] \in Int /\ h[p] \in Int /\ a * f[p] <= b * g[p] + e * h[p]
    BY <1>0, <2>1
  <2>6. /\ a * F[s] = a * f[p] + a * F[r]
        /\ b * G[s] = b * g[p] + b * G[r]
        /\ e * H[s] = e * h[p] + e * H[r]
    BY <2>1, <2>2, <2>3, <2>5
  <2>7. /\ a * f[p] \in Int /\ a * F[r] \in Int /\ b * g[p] \in Int
        /\ b * G[r] \in Int /\ e * h[p] \in Int /\ e * H[r] \in Int
    BY <2>1, <2>2, <2>3, <2>5
  <2>8. a * F[s] <= b * G[s] + e * H[s]
    BY <2>4, <2>5, <2>6, <2>7
  <2> QED BY <2>8
<1>6. D \in T
  <2> HIDE DEF T
  <2> QED BY <1>4, <1>5, SubsetsBySteps
<1>7. a * F[D] <= b * G[D] + e * H[D]
  BY <1>6
<1> QED BY <1>1, <1>2, <1>3, <1>7 DEF SumsWithin

-----------------------------------------------------------------------------
(* The zeros that are removed.                                              *)

\* One turn of the loop.
StripIn(g, w) == IF w = 0 \/ w % 10 # 0 THEN w ELSE g[w \div 10]

\* The function Stripped is what its equation says, and its values are natural.
LEMMA StrippedSteps ==
  /\ Stripped \in [Nat -> Nat]
  /\ \A w \in Nat : Stripped[w] = StripIn(Stripped, w)
<1> DEFINE Fits(n, g) == g \in [0..n -> Nat] /\ \A w \in 0..n : g[w] = StripIn(g, w)
           N == {n \in Nat : \E g : Fits(n, g)}
<1>0. \A w \in Nat : w # 0 => w \div 10 \in Nat /\ w \div 10 < w
  OBVIOUS
<1>1. 0 \in N
  <2>1. Fits(0, [w \in 0..0 |-> 0])
    BY DEF StripIn
  <2> QED BY <2>1
<1>2. ASSUME NEW n \in Nat, n \in N
      PROVE  n + 1 \in N
  <2> PICK g : Fits(n, g)
    BY <1>2
  <2> DEFINE h == [w \in 0..(n + 1) |-> StripIn(g, w)]
  <2>1. \A w \in 0..(n + 1) : w # 0 => w \div 10 \in 0..n /\ w \div 10 \in 0..(n + 1)
    BY <1>0
  <2>2. \A w \in 0..n : h[w] = g[w]
    OBVIOUS
  <2>3. h \in [0..(n + 1) -> Nat]
    <3> SUFFICES ASSUME NEW w \in 0..(n + 1) PROVE StripIn(g, w) \in Nat
      OBVIOUS
    <3>1. CASE w = 0 \/ w % 10 # 0
      BY <3>1 DEF StripIn
    <3>2. CASE ~ (w = 0 \/ w % 10 # 0)
      <4>1. g[w \div 10] \in Nat
        BY <2>1, <3>2
      <4> QED BY <3>2, <4>1 DEF StripIn
    <3> QED BY <3>1, <3>2
  <2>4. \A w \in 0..(n + 1) : h[w] = StripIn(h, w)
    <3> SUFFICES ASSUME NEW w \in 0..(n + 1) PROVE StripIn(g, w) = StripIn(h, w)
      OBVIOUS
    <3>1. w # 0 => h[w \div 10] = g[w \div 10]
      BY <2>1, <2>2
    <3> HIDE DEF h
    <3> QED BY <3>1 DEF StripIn
  <2>5. Fits(n + 1, h)
    BY <2>3, <2>4
  <2>6. n + 1 \in Nat
    OBVIOUS
  <2> HIDE DEF h, Fits
  <2> QED BY <2>5, <2>6
<1>3. \A n \in Nat : n \in N
  <2> HIDE DEF N
  <2> QED BY <1>1, <1>2, NaturalsBySteps
<1> DEFINE F == [n \in Nat |-> CHOOSE g : Fits(n, g)]
<1>4. \A n \in Nat : Fits(n, F[n])
  <2> SUFFICES ASSUME NEW n \in Nat PROVE Fits(n, F[n])
    OBVIOUS
  <2>1. \E g : Fits(n, g)
    BY <1>3
  <2> HIDE DEF Fits
  <2> QED BY <2>1
<1> HIDE DEF F, N
\* The tables agree where both are defined.
<1>5. \A w \in Nat : \A m, n \in Nat : w <= m /\ w <= n => F[m][w] = F[n][w]
  <2> DEFINE U == {w \in Nat : \E m, n \in Nat : w <= m /\ w <= n /\ F[m][w] # F[n][w]}
  <2> SUFFICES ASSUME U # {} PROVE FALSE
    OBVIOUS
  <2>1. PICK w \in U : \A v \in U : w <= v
    <3>1. U \subseteq Nat
      OBVIOUS
    <3> HIDE DEF U
    <3> QED BY <3>1, LeastNatural
  <2>2. PICK m \in Nat, n \in Nat : w <= m /\ w <= n /\ F[m][w] # F[n][w]
    BY <2>1
  <2>3. w \in Nat /\ w \in 0..m /\ w \in 0..n
    BY <2>1, <2>2
  <2>4. F[m][w] = StripIn(F[m], w) /\ F[n][w] = StripIn(F[n], w)
    BY <1>4, <2>3
  <2>5. w # 0 /\ w % 10 = 0
    BY <2>2, <2>4 DEF StripIn
  <2>6. w \div 10 \in Nat /\ w \div 10 < w
    BY <1>0, <2>3, <2>5
  <2>7. w \div 10 \notin U
    BY <2>1, <2>3, <2>6
  <2>8. w \div 10 <= m /\ w \div 10 <= n
    BY <2>2, <2>3, <2>6
  <2>9. F[m][w \div 10] = F[n][w \div 10]
    BY <2>6, <2>7, <2>8
  <2> QED BY <2>2, <2>4, <2>9 DEF StripIn
<1> DEFINE S == [w \in Nat |-> F[w][w]]
<1>6. \A w \in Nat : S[w] \in Nat /\ S[w] = StripIn(S, w)
  <2> SUFFICES ASSUME NEW w \in Nat PROVE F[w][w] \in Nat /\ F[w][w] = StripIn(S, w)
    OBVIOUS
  <2>1. F[w][w] \in Nat /\ F[w][w] = StripIn(F[w], w)
    <3>1. w \in 0..w
      OBVIOUS
    <3> QED BY <3>1, <1>4
  <2>2. w # 0 => F[w][w \div 10] = S[w \div 10]
    <3>1. w # 0 => w \div 10 \in Nat /\ w \div 10 <= w /\ w \div 10 <= w \div 10
      BY <1>0
    <3> QED BY <3>1, <1>5
  <2> HIDE DEF S
  <2> QED BY <2>1, <2>2 DEF StripIn
<1> DEFINE Same(g) == g = [w \in Nat |-> IF w = 0 \/ w % 10 # 0 THEN w ELSE g[w \div 10]]
<1>7. Same(S)
  <2> HIDE DEF S
  <2>1. S = [w \in Nat |-> S[w]]
    BY DEF S
  <2>2. \A w \in Nat : S[w] = IF w = 0 \/ w % 10 # 0 THEN w ELSE S[w \div 10]
    BY <1>6 DEF StripIn
  <2> QED BY <2>1, <2>2
<1>8. Stripped = CHOOSE g : Same(g)
  BY DEF Stripped
<1>9. Same(Stripped)
  <2> HIDE DEF Same, S
  <2> QED BY <1>7, <1>8
<1>10. \A w \in Nat : Stripped[w] = StripIn(Stripped, w)
  BY <1>9 DEF StripIn
\* Its values are natural: the first that was not would be stripped of a digit.
<1>11. \A w \in Nat : Stripped[w] \in Nat
  <2> DEFINE U == {w \in Nat : Stripped[w] \notin Nat}
  <2> SUFFICES ASSUME U # {} PROVE FALSE
    OBVIOUS
  <2>1. PICK w \in U : \A v \in U : w <= v
    <3>1. U \subseteq Nat
      OBVIOUS
    <3> HIDE DEF U
    <3> QED BY <3>1, LeastNatural
  <2>2. w \in Nat /\ Stripped[w] \notin Nat
    BY <2>1
  <2>3. w # 0 /\ w % 10 = 0 /\ Stripped[w] = Stripped[w \div 10]
    BY <1>10, <2>2 DEF StripIn
  <2>4. w \div 10 \in Nat /\ w \div 10 < w
    BY <1>0, <2>2, <2>3
  <2>5. w \div 10 \notin U
    BY <2>1, <2>2, <2>4
  <2> QED BY <2>2, <2>3, <2>4, <2>5
<1> QED BY <1>9, <1>10, <1>11

-----------------------------------------------------------------------------
(* Texts of Doubles.                                                        *)

Double == [size : Nat, whole : BOOLEAN]

\* Division with a rest.
LEMMA DivMod ==
  ASSUME NEW n \in Nat, NEW k \in Nat \ {0}
  PROVE  n \div k \in Nat /\ n % k \in Nat /\ n % k < k /\ n = k * (n \div k) + (n % k)
<1> QED OBVIOUS

\* A whole number is thousands of thousandths, none of them broken.
LEMMA WholeThousandths ==
  ASSUME NEW n \in Nat, n % (1000 * Fine) = 0
  PROVE  n \div Fine \in Nat /\ Fine * (n \div Fine) = n /\ (n \div Fine) % 10 = 0
<1> DEFINE k == 1000 * Fine
<1>1. k \in Nat \ {0} /\ n % k = 0 /\ Fine \in Nat \ {0}
  BY ValuationAssumption
<1> HIDE DEF k
<1> DEFINE q == n \div k
<1>2. q \in Nat /\ n = k * q
  BY <1>1, DivMod
<1> HIDE DEF q
<1>3. n = Fine * (1000 * q)
  BY <1>1, <1>2 DEF k
<1>4. \A f \in Nat \ {0}, x \in Nat : (f * x) \div f = x
  OBVIOUS
<1>5. n \div Fine = 1000 * q
  BY <1>1, <1>2, <1>3, <1>4
<1>6. \A x \in Nat : (1000 * x) % 10 = 0
  OBVIOUS
<1> QED BY <1>2, <1>3, <1>5, <1>6

\* Thousandths are off by half of one at most, and exact where that can be.
LEMMA ThousandthsClose ==
  ASSUME NEW n \in Nat, NEW m \in Thousandths(n)
  PROVE  /\ m \in Nat /\ 2 * (Fine * m) <= 2 * n + Fine /\ 2 * n <= 2 * (Fine * m) + Fine
         /\ \A k \in Nat : n = Fine * k => m = k
<1>1. Fine \in Nat \ {0}
  BY ValuationAssumption
<1>2. n \div Fine \in Nat
  BY <1>1, DivMod
<1>3. m \in Nat /\ 2 * Abs(Fine * m - n) <= Fine
  BY <1>2 DEF Thousandths
<1> DEFINE x == Fine * m
<1>4. x \in Nat
  BY <1>1, <1>3
<1>5. 2 * Abs(x - n) <= Fine
  BY <1>3
<1> HIDE DEF x
<1>6. 2 * x <= 2 * n + Fine /\ 2 * n <= 2 * x + Fine
  BY <1>1, <1>4, <1>5 DEF Abs
<1>7. ASSUME NEW k \in Nat, n = Fine * k
      PROVE  m = k
  <2>1. \A f \in Nat \ {0}, a, b \in Nat : a < b => f * a + f <= f * b
    <3> SUFFICES ASSUME NEW f \in Nat \ {0}, NEW a \in Nat, NEW b \in Nat, a < b
                 PROVE  f * a + f <= f * b
      OBVIOUS
    <3>1. PICK v \in Nat : b = a + 1 + v
      <4>1. b - a - 1 \in Nat /\ b = a + 1 + (b - a - 1)
        OBVIOUS
      <4> QED BY <4>1
    <3>2. f * b = f * a + f + f * v /\ f * v \in Nat
      BY <3>1
    <3>3. f * a \in Nat
      OBVIOUS
    <3> QED BY <3>2, <3>3
  <2>2. m < k => x + Fine <= n
    BY <1>1, <1>3, <1>7, <2>1 DEF x
  <2>3. k < m => n + Fine <= x
    BY <1>1, <1>3, <1>7, <2>1 DEF x
  <2>4. ~(m < k) /\ ~(k < m)
    BY <1>1, <1>4, <1>6, <2>2, <2>3
  <2> QED BY <1>3, <1>7, <2>4
<1> QED BY <1>3, <1>6, <1>7 DEF x

\* What "%.2f" makes of a natural number of thousandths.
LEMMA TwoPlacesClose ==
  ASSUME NEW m \in Nat, NEW h \in TwoPlaces(m)
  PROVE  h \in Nat /\ 10 * h <= m + 5 /\ m <= 10 * h + 5 /\ (m % 10 = 0 => 10 * h = m)
<1>1. h \in Nat /\ Abs(10 * h - m) <= 5
  BY DEF TwoPlaces
<1>2. 10 * h - m <= 5 /\ m - 10 * h <= 5
  BY <1>1 DEF Abs
<1> QED BY <1>1, <1>2

\* Hundredths are off by five thousandths and a half at most, and exact where that can be.
LEMMA HundredthsClose ==
  ASSUME NEW d \in Double, NEW h \in Hundredths(d)
  PROVE  /\ h \in Nat
         /\ 2 * Fine * (10 * h) <= 2 * d.size + 11 * Fine
         /\ 2 * d.size <= 2 * Fine * (10 * h) + 11 * Fine
         /\ d.size % (10 * Fine) = 0 => Fine * (10 * h) = d.size
<1> DEFINE n == d.size
<1>1. n \in Nat /\ Fine \in Nat \ {0}
  BY ValuationAssumption DEF Double
<1>2. PICK m \in Thousandths(n) : h \in TwoPlaces(m)
  BY DEF Hundredths
<1>3. /\ m \in Nat /\ 2 * (Fine * m) <= 2 * n + Fine /\ 2 * n <= 2 * (Fine * m) + Fine
      /\ \A k \in Nat : n = Fine * k => m = k
  BY <1>1, <1>2, ThousandthsClose
<1>4. h \in Nat /\ 10 * h <= m + 5 /\ m <= 10 * h + 5 /\ (m % 10 = 0 => 10 * h = m)
  BY <1>2, <1>3, TwoPlacesClose
<1> HIDE DEF n
<1>5. \A f, a, b \in Nat : a <= b + 5 => f * a <= f * b + 5 * f
  <2> SUFFICES ASSUME NEW f \in Nat, NEW a \in Nat, NEW b \in Nat, a <= b + 5
               PROVE  f * a <= f * b + 5 * f
    OBVIOUS
  <2>1. PICK v \in Nat : b + 5 = a + v
    <3>1. b + 5 - a \in Nat /\ b + 5 = a + (b + 5 - a)
      OBVIOUS
    <3> QED BY <3>1
  <2>2. f * b + 5 * f = f * a + f * v
    <3>1. f * (b + 5) = f * b + 5 * f /\ f * (a + v) = f * a + f * v
      OBVIOUS
    <3> QED BY <2>1, <3>1
  <2>3. f * a \in Nat /\ f * v \in Nat
    OBVIOUS
  <2> QED BY <2>2, <2>3
<1> DEFINE t == 10 * h
           x == Fine * t
           y == Fine * m
<1>6. t \in Nat /\ x \in Nat /\ y \in Nat
  BY <1>1, <1>3, <1>4
<1>7. x <= y + 5 * Fine /\ y <= x + 5 * Fine
  BY <1>1, <1>3, <1>4, <1>5, <1>6
<1>8. 2 * Fine * t = 2 * x
  BY <1>1, <1>6
<1>9. 2 * y <= 2 * n + Fine /\ 2 * n <= 2 * y + Fine
  BY <1>3
<1>10. ASSUME n % (10 * Fine) = 0
       PROVE  x = n
  <2> DEFINE k == 10 * Fine
             q == n \div k
  <2>1. k \in Nat \ {0} /\ n % k = 0
    BY <1>1, <1>10
  <2> HIDE DEF k
  <2>2. q \in Nat /\ n = k * q
    BY <1>1, <2>1, DivMod
  <2> HIDE DEF q
  <2>3. n = Fine * (10 * q) /\ 10 * q \in Nat
    BY <1>1, <2>2 DEF k
  <2>4. m = 10 * q
    BY <1>3, <2>3
  <2>5. \A v \in Nat : (10 * v) % 10 = 0
    OBVIOUS
  <2>6. m % 10 = 0
    BY <2>2, <2>4, <2>5
  <2> QED BY <1>4, <2>3, <2>4, <2>6
<1> HIDE DEF x, y
<1>11. 2 * x <= 2 * n + 11 * Fine /\ 2 * n <= 2 * x + 11 * Fine
  BY <1>1, <1>6, <1>7, <1>9
<1> QED BY <1>4, <1>8, <1>10, <1>11 DEF n, x

\* A whole number that does not end in a zero loses nothing, and none becomes greater.
LEMMA StrippedKeeps ==
  ASSUME NEW w \in Nat
  PROVE  /\ Stripped[w] \in Nat /\ Stripped[w] <= w
         /\ w = 0 \/ w % 10 # 0 => Stripped[w] = w
<1>1. \A v \in Nat : Stripped[v] \in Nat /\ Stripped[v] = StripIn(Stripped, v)
  BY StrippedSteps
<1> DEFINE U == {v \in Nat : ~(Stripped[v] <= v)}
<1>2. U = {}
  <2> SUFFICES ASSUME U # {} PROVE FALSE
    OBVIOUS
  <2>1. PICK v \in U : \A u \in U : v <= u
    <3>1. U \subseteq Nat
      OBVIOUS
    <3> HIDE DEF U
    <3> QED BY <3>1, LeastNatural
  <2>2. v \in Nat /\ ~(Stripped[v] <= v)
    BY <2>1
  <2>3. v # 0 /\ Stripped[v] = Stripped[v \div 10]
    BY <1>1, <2>2 DEF StripIn
  <2>4. v \div 10 \in Nat /\ v \div 10 < v
    BY <2>2, <2>3
  <2>5. v \div 10 \notin U
    BY <2>1, <2>2, <2>4
  <2>6. Stripped[v \div 10] \in Nat /\ Stripped[v \div 10] <= v \div 10
    BY <1>1, <2>4, <2>5
  <2> QED BY <2>2, <2>3, <2>4, <2>6
<1> QED BY <1>1, <1>2 DEF StripIn

\* The text of a Double that is not whole, for two places h.
LEMMA TextOfPlaces ==
  ASSUME NEW h \in Nat
  PROVE  LET text == IF h % 100 = 0 THEN 1000 * Stripped[h \div 100] ELSE 10 * h IN
         /\ text \in Nat /\ text % 10 = 0 /\ text <= 10 * h
         /\ h = 0 \/ h % 1000 # 0 => text = 10 * h
<1>1. CASE h % 100 = 0
  <2>1. h \div 100 \in Nat /\ h = 100 * (h \div 100)
    BY <1>1
  <2>2. h = 0 \/ h % 1000 # 0 => h \div 100 = 0 \/ (h \div 100) % 10 # 0
    BY <1>1
  <2>3. /\ Stripped[h \div 100] \in Nat /\ Stripped[h \div 100] <= h \div 100
        /\ h = 0 \/ h % 1000 # 0 => Stripped[h \div 100] = h \div 100
    BY <2>1, <2>2, StrippedKeeps
  <2>4. \A v \in Nat : 1000 * v \in Nat /\ (1000 * v) % 10 = 0
    OBVIOUS
  <2>5. /\ 1000 * Stripped[h \div 100] <= 10 * h
        /\ h = 0 \/ h % 1000 # 0 => 1000 * Stripped[h \div 100] = 10 * h
    BY <2>1, <2>3
  <2> QED BY <1>1, <2>3, <2>4, <2>5
<1>2. CASE h % 100 # 0
  <2>1. 10 * h \in Nat /\ (10 * h) % 10 = 0 /\ 10 * h <= 10 * h
    OBVIOUS
  <2> QED BY <1>2, <2>1
<1> QED BY <1>1, <1>2

\* cutString gives a number of hundredths that is never more than the Double but for the
\* rounding, never less but for that unless digits are lost, and the Double itself
\* if that is a number of hundredths and no digits are lost.
THEOREM CutStringIsClose ==
  ASSUME NEW d \in Double, d.whole => d.size % (1000 * Fine) = 0, NEW text \in CutString(d)
  PROVE  /\ text \in Nat /\ text % 10 = 0
         /\ 2 * Fine * text <= 2 * d.size + 11 * Fine
         /\ ~LosesDigits(d) => 2 * d.size <= 2 * Fine * text + 11 * Fine
         /\ d.size % (10 * Fine) = 0 =>
               Fine * text <= d.size /\ (~LosesDigits(d) => Fine * text = d.size)
<1>1. d.size \in Nat /\ d.whole \in BOOLEAN /\ Fine \in Nat \ {0}
  BY ValuationAssumption DEF Double
<1>2. CASE d.whole
  <2>1. text = d.size \div Fine
    BY <1>2 DEF CutString
  <2>2. text \in Nat /\ text % 10 = 0 /\ Fine * text = d.size
    BY <1>1, <1>2, <2>1, WholeThousandths
  <2>3. 2 * Fine * text = 2 * d.size
    <3>1. 2 * Fine * text = 2 * (Fine * text)
      BY <1>1, <2>2
    <3> QED BY <2>2, <3>1
  <2>4. 2 * d.size <= 2 * d.size + 11 * Fine /\ d.size <= d.size
    BY <1>1
  <2> QED BY <2>2, <2>3, <2>4
<1>3. CASE ~d.whole
  <2>1. PICK h \in Hundredths(d) :
           text = IF h % 100 = 0 THEN 1000 * Stripped[h \div 100] ELSE 10 * h
    BY <1>3 DEF CutString
  <2>2. /\ h \in Nat
        /\ 2 * Fine * (10 * h) <= 2 * d.size + 11 * Fine
        /\ 2 * d.size <= 2 * Fine * (10 * h) + 11 * Fine
        /\ d.size % (10 * Fine) = 0 => Fine * (10 * h) = d.size
    BY <2>1, HundredthsClose
  <2>3. /\ text \in Nat /\ text % 10 = 0 /\ text <= 10 * h
        /\ h = 0 \/ h % 1000 # 0 => text = 10 * h
    BY <2>1, <2>2, TextOfPlaces
  <2>4. ~LosesDigits(d) => text = 10 * h
    BY <1>3, <2>1, <2>3 DEF LosesDigits
  <2>5. Fine * text <= Fine * (10 * h) /\ 2 * Fine * text <= 2 * Fine * (10 * h)
    <3> DEFINE t == 10 * h
    <3>1. t \in Nat /\ text \in Nat /\ text <= t
      BY <2>2, <2>3
    <3> HIDE DEF t
    <3>2. \A f \in Nat : f * text <= f * t
      BY <3>1
    <3>3. 2 * Fine \in Nat
      BY <1>1
    <3> QED BY <1>1, <3>2, <3>3 DEF t
  <2>6. 2 * Fine * text <= 2 * d.size + 11 * Fine
    <3>1. 2 * Fine * text \in Int /\ 2 * Fine * (10 * h) \in Int /\ 2 * d.size + 11 * Fine \in Int
      BY <1>1, <2>2, <2>3
    <3> QED BY <2>2, <2>5, <3>1
  <2> QED BY <2>2, <2>3, <2>4, <2>5, <2>6
<1> QED BY <1>1, <1>2, <1>3

\* A Double of a natural value.
LEMMA DoublesAre ==
  ASSUME NEW n \in Nat, NEW exact, NEW d \in Doubles(n, exact)
  PROVE  d \in Double /\ d.size = n /\ (d.whole => d.size % (1000 * Fine) = 0)
<1> DEFINE Z == n % (1000 * Fine)
           W == IF Z # 0 THEN {FALSE} ELSE IF exact THEN {TRUE} ELSE BOOLEAN
<1>1. PICK w \in W : d = [size |-> n, whole |-> w]
  BY Zenon DEF Doubles
<1> HIDE DEF Z
<1>2. W \in {{FALSE}, {TRUE}, BOOLEAN}
  BY Zenon
<1>3. Z # 0 => W = {FALSE}
  OBVIOUS
<1> HIDE DEF W
<1>4. w \in BOOLEAN
  BY <1>2, Zenon
<1>5. Z # 0 => w = FALSE
  BY <1>3, Zenon
<1>6. d.size = n /\ d.whole = w
  BY <1>1
<1>7. d \in Double
  BY <1>1, <1>4 DEF Double
<1>8. d.whole => Z = 0
  BY <1>5, <1>6, Zenon
<1> QED BY <1>6, <1>7, <1>8 DEF Z

\* What is held of a coin and costs, and what it may be priced at.
LEMMA HeldAndPriced ==
  /\ \A x \in Holdings : x.quantity \in Nat /\ x.cost \in Nat
  /\ \A p \in Prices : p \in Double /\ (p.whole => p.size % (1000 * Fine) = 0)
<1> QED BY ValuationAssumption DEF Double

\* d is the Double of a row of quantity q at the number in text.
IsRow(d, q, text) ==
    d \in Double /\ d.size = q * text /\ (d.whole => d.size % (1000 * Fine) = 0)

\* A row is quantity times text.
LEMMA RowOf ==
  ASSUME NEW q \in Nat, NEW text \in Nat, NEW d \in Products(q, text)
  PROVE  IsRow(d, q, text)
<1> DEFINE n == q * text
           exact == q % Fine = 0 /\ text % 1000 = 0
<1>1. d \in Doubles(n, exact)
  BY DEF Products
<1>2. n \in Nat
  OBVIOUS
<1> HIDE DEF n, exact
<1>3. d \in Double /\ d.size = n /\ (d.whole => d.size % (1000 * Fine) = 0)
  BY <1>1, <1>2, DoublesAre
<1> QED BY <1>3 DEF IsRow, n

\* What a price may be off by, all pieces are off by together.
LEMMA PiecesApart ==
  ASSUME NEW q \in Nat, NEW f \in Nat, NEW a \in Nat, NEW b \in Nat
  PROVE  /\ 2 * f * a <= 2 * b + 11 * f => 2 * f * (q * a) <= 2 * (q * b) + 11 * f * q
         /\ 2 * b <= 2 * f * a + 11 * f => 2 * (q * b) <= 2 * f * (q * a) + 11 * f * q
<1>1. \A x, y \in Nat : x <= y => q * x <= q * y
  OBVIOUS
<1> DEFINE x == 2 * f * a
           y == 2 * b
           z == 11 * f
<1>2. x \in Nat /\ y \in Nat /\ z \in Nat
  OBVIOUS
<1>3. /\ q * x = 2 * f * (q * a) /\ q * (y + z) = 2 * (q * b) + 11 * f * q
      /\ q * y = 2 * (q * b) /\ q * (x + z) = 2 * f * (q * a) + 11 * f * q
  OBVIOUS
<1>4. x <= y + z => q * x <= q * (y + z)
  <2> HIDE DEF x, y, z
  <2>1. y + z \in Nat
    BY <1>2
  <2> QED BY <1>1, <1>2, <2>1
<1>5. y <= x + z => q * y <= q * (x + z)
  <2> HIDE DEF x, y, z
  <2>1. x + z \in Nat
    BY <1>2
  <2> QED BY <1>1, <1>2, <2>1
<1> QED BY <1>3, <1>4, <1>5

-----------------------------------------------------------------------------
(* The screens.                                                             *)

\* What the rows and the label are made of: every row the quantity times a text of
\* its price, and the label the total of the rows.
RowsFromTexts ==
    rows.shown =>
        /\ market.prices \in [Listed -> Prices]
        /\ rows.worth \in [Listed -> [size : Nat, whole : BOOLEAN]]
        /\ \A c \in Listed : \E text \in CutString(market.prices[c]) : rows.worth[c] \in Worth(c, text)
        /\ label \in Label(Total([c \in Listed |-> rows.worth[c].size]))

ScreensInv ==
    /\ held \in [DOMAIN held -> Holdings]
    /\ TypeOK
    /\ RowsFromTexts

Costs == [c \in DOMAIN held |-> held[c].cost]
Quantities == [c \in Listed |-> held[c].quantity]
TrueRows == [c \in Listed |-> held[c].quantity * market.prices[c].size]
RowAmounts == [c \in Listed |-> rows.worth[c].size]
Broken == [c \in Listed |-> IF rows.worth[c].size % (10 * Fine) = 0 THEN 0 ELSE 1]

\* What is held, and what it cost.
LEMMA HeldFacts ==
  ASSUME held \in [DOMAIN held -> Holdings], DOMAIN held \subseteq Coins
  PROVE  /\ IsFiniteSet(DOMAIN held)
         /\ \A c \in DOMAIN held : held[c].quantity \in Nat /\ held[c].cost \in Nat
         /\ Costs \in [DOMAIN held -> Nat] /\ Total(Costs) \in Nat
<1>1. IsFiniteSet(DOMAIN held)
  BY ValuationAssumption, FS_Subset
<1>2. \A c \in DOMAIN held : held[c].quantity \in Nat /\ held[c].cost \in Nat
  BY HeldAndPriced
<1>3. Costs \in [DOMAIN held -> Nat]
  BY <1>2 DEF Costs
<1> QED BY <1>1, <1>2, <1>3, TotalNat

\* The coins in the rows are some of those held.
LEMMA ListedFacts ==
  ASSUME ScreensInv, rows.shown
  PROVE  /\ IsFiniteSet(Listed) /\ Listed \subseteq DOMAIN held
         /\ \A c \in Listed : held[c].quantity \in Nat
         /\ Quantities \in [Listed -> Nat] /\ Total(Quantities) \in Nat
<1>1. Listed \subseteq DOMAIN held
  BY DEF ScreensInv, TypeOK
<1>2. IsFiniteSet(DOMAIN held) /\ \A c \in DOMAIN held : held[c].quantity \in Nat
  BY HeldFacts DEF ScreensInv, TypeOK
<1>3. IsFiniteSet(Listed) /\ \A c \in Listed : held[c].quantity \in Nat
  BY <1>1, <1>2, FS_Subset
<1>4. Quantities \in [Listed -> Nat]
  BY <1>3 DEF Quantities
<1> QED BY <1>1, <1>3, <1>4, TotalNat

\* The label of a total: the change is the distance to the cost, and the colour that
\* of a gain or a loss when it is one.
LEMMA LabelOf ==
  ASSUME NEW total \in Nat, Total(Costs) \in Nat, NEW l \in Label(total)
  PROVE  /\ l.shown = TRUE /\ l.total = total /\ l.change \in Nat
         /\ total > Total(Costs) => l.green
         /\ total < Total(Costs) => ~l.green
<1> DEFINE cost == Total(Costs)
<1>1. cost \in Nat
  OBVIOUS
<1>2. Label(total) = {[shown |-> TRUE, total |-> total, change |-> Abs(total - cost), green |-> g] :
                         g \in IF total = cost THEN BOOLEAN ELSE {total > cost}}
  BY Zenon DEF Label, Costs
<1> HIDE DEF cost
<1> DEFINE G == IF total = cost THEN BOOLEAN ELSE {total > cost}
<1>3. PICK g \in G : l = [shown |-> TRUE, total |-> total, change |-> Abs(total - cost), green |-> g]
  BY <1>2, Zenon
<1>4. Abs(total - cost) \in Nat
  BY <1>1 DEF Abs
<1>5. total # cost => g = (total > cost)
  BY Zenon
<1>6. total > cost => total # cost
  BY <1>1
<1>7. total < cost => total # cost /\ ~(total > cost)
  BY <1>1
<1> HIDE DEF G
<1>8. (total > cost => g) /\ (total < cost => ~g)
  BY <1>5, <1>6, <1>7, Zenon
<1>9. l.shown = TRUE /\ l.total = total /\ l.change = Abs(total - cost) /\ l.green = g
  BY <1>3
<1> QED BY <1>4, <1>8, <1>9 DEF cost

\* A row is a Double, never more than quantity times price but for the rounding, and
\* never less but for that unless the price loses digits.
LEMMA RowFacts ==
  ASSUME ScreensInv, rows.shown, NEW c \in Listed
  PROVE  /\ market.prices[c] \in Prices
         /\ rows.worth[c] \in Double
         /\ rows.worth[c].whole => rows.worth[c].size % (1000 * Fine) = 0
         /\ 2 * Fine * rows.worth[c].size
               <= 2 * (held[c].quantity * market.prices[c].size) + 11 * Fine * held[c].quantity
         /\ ~LosesDigits(market.prices[c]) =>
               2 * (held[c].quantity * market.prices[c].size)
                  <= 2 * Fine * rows.worth[c].size + 11 * Fine * held[c].quantity
<1> DEFINE p == market.prices[c]
           q == held[c].quantity
           d == rows.worth[c]
<1>1. PICK text \in CutString(p) : d \in Products(q, text)
  BY DEF ScreensInv, RowsFromTexts, Worth
<1>2. p \in Prices
  BY DEF ScreensInv, RowsFromTexts
<1>3. q \in Nat
  BY ListedFacts
<1> HIDE DEF p, q, d
<1>4. p \in Double /\ (p.whole => p.size % (1000 * Fine) = 0)
  BY <1>2, HeldAndPriced
<1>5. /\ text \in Nat
      /\ 2 * Fine * text <= 2 * p.size + 11 * Fine
      /\ ~LosesDigits(p) => 2 * p.size <= 2 * Fine * text + 11 * Fine
  BY <1>4, CutStringIsClose
<1>6. d \in Double /\ d.size = q * text /\ (d.whole => d.size % (1000 * Fine) = 0)
  <2>1. IsRow(d, q, text)
    BY <1>1, <1>3, <1>5, RowOf
  <2> QED BY <2>1 DEF IsRow
<1>7. p.size \in Nat /\ Fine \in Nat
  BY <1>4, ValuationAssumption DEF Double
<1>8. /\ 2 * Fine * d.size <= 2 * (q * p.size) + 11 * Fine * q
      /\ ~LosesDigits(p) => 2 * (q * p.size) <= 2 * Fine * d.size + 11 * Fine * q
  BY <1>3, <1>5, <1>6, <1>7, PiecesApart
<1> QED BY <1>2, <1>6, <1>8 DEF p, q, d

\* The label shows the total of the rows, which is never more than what their coins are
\* worth but for the rounding, and never less but for that if no price loses digits.
LEMMA TotalFacts ==
  ASSUME ScreensInv, label.shown
  PROVE  /\ RowAmounts \in [Listed -> Nat] /\ Total(RowAmounts) \in Nat
         /\ label \in Label(Total(RowAmounts)) /\ label.total = Total(RowAmounts)
         /\ TrueWorth \in Int /\ Pieces \in Nat
         /\ 2 * Fine * label.total <= 2 * TrueWorth + 11 * Fine * Pieces
         /\ KeepsDigits => 2 * TrueWorth <= 2 * Fine * label.total + 11 * Fine * Pieces
<1>1. rows.shown
  BY DEF ScreensInv, TypeOK
<1>2. /\ IsFiniteSet(Listed) /\ Quantities \in [Listed -> Nat] /\ Total(Quantities) \in Nat
      /\ \A c \in Listed : held[c].quantity \in Nat
  BY <1>1, ListedFacts
<1>3. Total(Costs) \in Nat
  BY HeldFacts DEF ScreensInv, TypeOK
<1>4. \A c \in Listed : rows.worth[c].size \in Nat
  BY <1>1, RowFacts DEF Double
<1>5. RowAmounts \in [Listed -> Nat]
  BY <1>4 DEF RowAmounts
<1>6. Total(RowAmounts) \in Nat
  BY <1>2, <1>5, TotalNat
<1>7. label \in Label(Total(RowAmounts))
  BY <1>1 DEF ScreensInv, RowsFromTexts, RowAmounts
<1>8. \A c \in Listed : market.prices[c].size \in Nat
  BY <1>1, RowFacts, HeldAndPriced DEF Double
<1>9. \A c \in Listed : held[c].quantity * market.prices[c].size \in Int
  BY <1>2, <1>8
<1>10. TrueRows \in [Listed -> Int] /\ RowAmounts \in [Listed -> Int] /\ Quantities \in [Listed -> Int]
  BY <1>2, <1>5, <1>9 DEF TrueRows
<1>11. Total(TrueRows) \in Int
  BY <1>2, <1>10, TotalAdds
<1>12. TrueWorth = Total(TrueRows) /\ Pieces = Total(Quantities)
  BY DEF TrueWorth, TrueRows, Pieces, Quantities
<1>13. label.total = Total(RowAmounts)
  BY <1>3, <1>6, <1>7, LabelOf
<1> DEFINE a == 2 * Fine
           e == 11 * Fine
<1>14. a \in Int /\ e \in Int
  BY ValuationAssumption
<1>15. /\ \A c \in Listed : a * RowAmounts[c] <= 2 * TrueRows[c] + e * Quantities[c]
       /\ KeepsDigits => \A c \in Listed : 2 * TrueRows[c] <= a * RowAmounts[c] + e * Quantities[c]
  BY <1>1, RowFacts DEF KeepsDigits, RowAmounts, TrueRows, Quantities
<1> HIDE DEF a, e
<1>16. a * Total(RowAmounts) <= 2 * Total(TrueRows) + e * Total(Quantities)
  <2>1. TermsWithin(Listed, RowAmounts, TrueRows, Quantities, a, 2, e)
    BY <1>15 DEF TermsWithin
  <2>2. SumsWithin(RowAmounts, TrueRows, Quantities, a, 2, e)
    BY <1>2, <1>10, <1>14, <2>1, TotalsWithin
  <2> QED BY <2>2 DEF SumsWithin
<1>17. KeepsDigits => 2 * Total(TrueRows) <= a * Total(RowAmounts) + e * Total(Quantities)
  <2> SUFFICES ASSUME KeepsDigits
               PROVE  2 * Total(TrueRows) <= a * Total(RowAmounts) + e * Total(Quantities)
    OBVIOUS
  <2>1. TermsWithin(Listed, TrueRows, RowAmounts, Quantities, 2, a, e)
    BY <1>15 DEF TermsWithin
  <2>2. SumsWithin(TrueRows, RowAmounts, Quantities, 2, a, e)
    BY <1>2, <1>10, <1>14, <2>1, TotalsWithin
  <2> QED BY <2>2 DEF SumsWithin
<1> QED BY <1>2, <1>5, <1>6, <1>7, <1>11, <1>12, <1>13, <1>16, <1>17 DEF a, e

-----------------------------------------------------------------------------
\* The invariant holds at first.
LEMMA InitScreens == Init => ScreensInv
<1> SUFFICES ASSUME Init PROVE ScreensInv
  OBVIOUS
<1>1. PICK S \in SUBSET Coins : held \in [S -> Holdings]
  BY DEF Init
<1>2. DOMAIN held = S
  BY <1>1
<1>3. held \in [DOMAIN held -> Holdings] /\ DOMAIN held \subseteq Coins
  BY <1>1, <1>2
<1>4. \A c \in DOMAIN held : held[c] \in Holdings
  BY <1>3
<1>5. market.shown = FALSE /\ rows.shown = FALSE /\ label.shown = FALSE /\ chart.shown = FALSE
  BY DEF Init, Blank
<1> QED BY <1>3, <1>4, <1>5 DEF ScreensInv, TypeOK, RowsFromTexts

\* What the chart does leaves the rest as it is.
LEMMA SameScreens ==
  ASSUME ScreensInv, UNCHANGED <<held, market, rows, label>>,
         chart'.shown => rows.shown /\ chart'.centre \in Nat /\ DOMAIN chart'.slices = Listed
  PROVE  ScreensInv'
<1>1. /\ held' = held /\ market' = market /\ rows' = rows /\ label' = label
      /\ Listed' = Listed
  BY DEF Listed
<1>2. RowsFromTexts'
  <2> SUFFICES ASSUME rows'.shown PROVE RowsFromTexts'
    BY DEF RowsFromTexts
  <2>1. rows.shown
    BY <1>1
  <2>2. /\ market'.prices \in [Listed' -> Prices]
        /\ rows'.worth \in [Listed' -> [size : Nat, whole : BOOLEAN]]
    BY <1>1, <2>1 DEF ScreensInv, RowsFromTexts
  <2>3. (\A c \in Listed : \E text \in CutString(market.prices[c]) : rows.worth[c] \in Worth(c, text))'
    <3>1. \A c \in Listed : \E text \in CutString(market.prices[c]) :
             rows.worth[c] \in Products(held[c].quantity, text)
      BY <2>1 DEF ScreensInv, RowsFromTexts, Worth
    <3> QED BY <1>1, <3>1 DEF Worth
  <2>4. (label \in Label(Total([c \in Listed |-> rows.worth[c].size])))'
    <3>1. label \in Label(Total([c \in Listed |-> rows.worth[c].size]))
      BY <2>1 DEF ScreensInv, RowsFromTexts
    <3> QED BY <1>1, <3>1 DEF Label
  <2> QED BY <2>2, <2>3, <2>4, Zenon DEF RowsFromTexts
<1>3. TypeOK'
  BY <1>1 DEF ScreensInv, TypeOK
<1>4. held' \in [DOMAIN held' -> Holdings]
  BY <1>1 DEF ScreensInv
<1> QED BY <1>2, <1>3, <1>4 DEF ScreensInv

\* An answer of the price service keeps it: the rows are made of texts of the prices.
LEMMA PricesComeStep ==
  ASSUME ScreensInv, PricesCome
  PROVE  ScreensInv'
<1>1. PICK listed \in SUBSET DOMAIN held : \E prices \in [listed -> Prices] :
        \E texts \in [listed -> UNION {CutString(d) : d \in Prices}] :
           /\ \A c \in listed : texts[c] \in CutString(prices[c])
           /\ \E worth \in [listed -> UNION {Worth(c, texts[c]) : c \in listed}] :
                 /\ \A c \in listed : worth[c] \in Worth(c, texts[c])
                 /\ market' = [shown |-> TRUE, prices |-> prices]
                 /\ rows' = [shown |-> TRUE, worth |-> worth]
                 /\ label' \in Label(Total([c \in listed |-> worth[c].size]))
  BY DEF PricesCome
<1>p. PICK prices \in [listed -> Prices], texts \in [listed -> UNION {CutString(d) : d \in Prices}] :
        /\ \A c \in listed : texts[c] \in CutString(prices[c])
        /\ \E worth \in [listed -> UNION {Worth(c, texts[c]) : c \in listed}] :
              /\ \A c \in listed : worth[c] \in Worth(c, texts[c])
              /\ market' = [shown |-> TRUE, prices |-> prices]
              /\ rows' = [shown |-> TRUE, worth |-> worth]
              /\ label' \in Label(Total([c \in listed |-> worth[c].size]))
  BY <1>1
<1>2. PICK worth \in [listed -> UNION {Worth(c, texts[c]) : c \in listed}] :
        /\ \A c \in listed : worth[c] \in Worth(c, texts[c])
        /\ market' = [shown |-> TRUE, prices |-> prices]
        /\ rows' = [shown |-> TRUE, worth |-> worth]
        /\ label' \in Label(Total([c \in listed |-> worth[c].size]))
  BY <1>p
<1>3. held' = held /\ chart' = chart /\ ~chart.shown
  BY DEF PricesCome
<1>4. held \in [DOMAIN held -> Holdings] /\ DOMAIN held \subseteq Coins /\ \A c \in DOMAIN held : held[c] \in Holdings
  BY DEF ScreensInv, TypeOK
<1>5. /\ IsFiniteSet(DOMAIN held) /\ Total(Costs) \in Nat
      /\ \A c \in DOMAIN held : held[c].quantity \in Nat
  BY <1>4, HeldFacts
<1>6. ASSUME NEW c \in listed
      PROVE  /\ prices[c] \in Prices
             /\ worth[c] \in Double /\ (worth[c].whole => worth[c].size % (1000 * Fine) = 0)
             /\ \E text \in CutString(prices[c]) : worth[c] \in Products(held[c].quantity, text)
  <2> DEFINE p == prices[c]
             q == held[c].quantity
             d == worth[c]
             text == texts[c]
  <2>1. p \in Prices /\ text \in CutString(p) /\ d \in Products(q, text) /\ q \in Nat
    BY <1>p, <1>2, <1>5 DEF Worth
  <2> HIDE DEF p, q, d, text
  <2>2. text \in Nat
    BY <2>1, HeldAndPriced, CutStringIsClose
  <2>3. IsRow(d, q, text)
    BY <2>1, <2>2, RowOf
  <2>4. d \in Double /\ (d.whole => d.size % (1000 * Fine) = 0)
    BY <2>3 DEF IsRow
  <2>5. \E t \in CutString(p) : d \in Products(q, t)
    BY <2>1
  <2> QED BY <2>1, <2>4, <2>5 DEF p, q, d
<1> DEFINE amounts == [c \in listed |-> worth[c].size]
<1>7. amounts \in [listed -> Nat] /\ IsFiniteSet(listed)
  BY <1>5, <1>6, FS_Subset DEF Double
<1>8. label' \in Label(Total(amounts))
  BY <1>2
<1> HIDE DEF amounts
<1>9. Total(amounts) \in Nat
  BY <1>7, TotalNat
<1>10. label'.shown = TRUE /\ label'.total \in Nat /\ label'.change \in Nat
  BY <1>5, <1>8, <1>9, LabelOf
<1>11. /\ market'.shown = TRUE /\ market'.prices = prices
       /\ rows'.shown = TRUE /\ rows'.worth = worth
       /\ DOMAIN worth = listed /\ DOMAIN prices = listed
  BY <1>2
<1>a. Listed' = listed
  BY <1>11 DEF Listed
<1>12. TypeOK'
  <2>1. DOMAIN held' \subseteq Coins /\ \A c \in DOMAIN held' : held'[c] \in Holdings
    BY <1>3, <1>4
  <2>2. market'.shown = rows'.shown /\ rows'.shown = label'.shown /\ ~chart'.shown
    BY <1>3, <1>10, <1>11
  <2>3. /\ Listed' \subseteq DOMAIN held' /\ DOMAIN market'.prices = Listed'
        /\ \A c \in Listed' : market'.prices[c] \in Prices
    BY <1>3, <1>6, <1>11, <1>a
  <2>4. \A c \in Listed' : rows'.worth[c].whole => rows'.worth[c].size % (1000 * Fine) = 0
    BY <1>6, <1>11, <1>a
  <2> QED BY <2>1, <2>2, <2>3, <2>4, <1>10, Zenon DEF TypeOK
<1>13. worth \in [listed -> [size : Nat, whole : BOOLEAN]]
  <2>1. worth = [c \in listed |-> worth[c]]
    OBVIOUS
  <2> QED BY <1>6, <2>1 DEF Double
<1>14. RowsFromTexts'
  <2>1. /\ market'.prices \in [Listed' -> Prices]
        /\ rows'.worth \in [Listed' -> [size : Nat, whole : BOOLEAN]]
    BY <1>11, <1>13, <1>a
  <2>2. \A c \in Listed' : \E text \in CutString(market'.prices[c]) :
           rows'.worth[c] \in Products(held'[c].quantity, text)
    BY <1>3, <1>6, <1>11, <1>a
  <2>3. label' \in Label(Total([c \in Listed |-> rows.worth[c].size]))'
    <3>1. label' \in Label(Total([c \in listed |-> worth[c].size]))
      BY <1>2
    <3> QED BY <1>3, <1>11, <1>a, <3>1 DEF Label
  <2> QED BY <2>1, <2>2, <2>3 DEF RowsFromTexts, Worth
<1> QED BY <1>3, <1>4, <1>12, <1>14 DEF ScreensInv

\* The chart opens: its centre and its slices are texts, of the total of the slices and of
\* the rows.
LEMMA ShowChartFacts ==
  ASSUME ScreensInv, ShowChart
  PROVE  /\ chart'.shown = TRUE /\ chart'.centre \in Nat /\ DOMAIN chart'.slices = Listed
         /\ UNCHANGED <<held, market, rows, label>> /\ rows.shown
         /\ chart'.centre <= Total(chart'.slices)
         /\ Total(chart'.slices) = 0 \/ Total(chart'.slices) % 10000 # 0 =>
               chart'.centre = Total(chart'.slices)
         /\ 2 * Fine * Total(chart'.slices) <= 2 * label.total + 11 * Fine * Rounded
         /\ \/ 2 * label.total <= 2 * Fine * Total(chart'.slices) + 11 * Fine * Rounded
            \/ \E c \in Listed : LosesDigits(rows.worth[c])
<1>1. PICK slices \in [Listed -> UNION {CutString(rows.worth[c]) : c \in Listed}] :
        /\ \A c \in Listed : slices[c] \in CutString(rows.worth[c])
        /\ \E sum \in Doubles(Fine * Total(slices), \A c \in Listed : slices[c] % 1000 = 0) :
           \E centre \in CutString(sum) :
              chart' = [shown |-> TRUE, slices |-> slices, centre |-> centre]
  BY DEF ShowChart
<1> DEFINE exact == \A c \in Listed : slices[c] % 1000 = 0
<1> HIDE DEF exact
<1>2. PICK sum \in Doubles(Fine * Total(slices), exact) :
        \E centre \in CutString(sum) :
           chart' = [shown |-> TRUE, slices |-> slices, centre |-> centre]
  BY <1>1 DEF exact
<1> PICK centre \in CutString(sum) : chart' = [shown |-> TRUE, slices |-> slices, centre |-> centre]
  BY <1>2
<1>3. UNCHANGED <<held, market, rows, label>> /\ rows.shown
  BY DEF ShowChart
<1>4. label.shown /\ Fine \in Nat \ {0}
  BY <1>3, ValuationAssumption DEF ScreensInv, TypeOK
<1>5. IsFiniteSet(Listed)
  BY <1>3, ListedFacts
<1>6. ASSUME NEW c \in Listed
      PROVE  /\ slices[c] \in Nat /\ slices[c] % 10 = 0 /\ rows.worth[c].size \in Nat
             /\ 2 * Fine * slices[c] <= 2 * rows.worth[c].size + 11 * Fine * Broken[c]
             /\ ~LosesDigits(rows.worth[c]) =>
                   2 * rows.worth[c].size <= 2 * Fine * slices[c] + 11 * Fine * Broken[c]
  <2> DEFINE d == rows.worth[c]
             s == slices[c]
             r == d.size % (10 * Fine) = 0
  <2>1. d \in Double /\ (d.whole => d.size % (1000 * Fine) = 0)
    BY <1>3, RowFacts
  <2>2. s \in CutString(d)
    BY <1>1
  <2>3. Broken[c] = IF r THEN 0 ELSE 1
    BY DEF Broken
  <2> HIDE DEF d, s
  <2>4. /\ s \in Nat /\ s % 10 = 0
        /\ 2 * Fine * s <= 2 * d.size + 11 * Fine
        /\ ~LosesDigits(d) => 2 * d.size <= 2 * Fine * s + 11 * Fine
        /\ r => Fine * s <= d.size /\ (~LosesDigits(d) => Fine * s = d.size)
    BY <2>1, <2>2, CutStringIsClose
  <2>5. d.size \in Nat
    BY <2>1 DEF Double
  <2>6. 2 * Fine * s = 2 * (Fine * s) /\ Fine * s \in Nat
    BY <1>4, <2>4
  <2>7. 11 * Fine * 0 = 0 /\ 11 * Fine * 1 = 11 * Fine
    BY <1>4
  <2> HIDE DEF r
  <2>8. CASE r
    <3>1. 11 * Fine * Broken[c] = 0
      BY <2>3, <2>7, <2>8
    <3>2. Fine * s <= d.size /\ (~LosesDigits(d) => Fine * s = d.size)
      BY <2>4, <2>8
    <3>3. /\ 2 * Fine * s <= 2 * d.size + 0
          /\ ~LosesDigits(d) => 2 * d.size <= 2 * Fine * s + 0
      BY <2>5, <2>6, <3>2
    <3> QED BY <2>4, <2>5, <3>1, <3>3 DEF d, s
  <2>9. CASE ~r
    <3>1. 11 * Fine * Broken[c] = 11 * Fine
      BY <2>3, <2>7, <2>9
    <3> QED BY <2>4, <2>5, <3>1 DEF d, s
  <2> QED BY <2>8, <2>9
<1>7. slices \in [Listed -> Nat] /\ \A c \in Listed : slices[c] % 10 = 0
  BY <1>6
<1>8. Total(slices) \in Nat /\ Total(slices) % 10 = 0
  BY <1>5, <1>7, TotalNat, TotalTens
<1> DEFINE n == Total(slices)
           x == Fine * n
<1>9. x \in Nat /\ sum \in Double /\ sum.size = x /\ (sum.whole => sum.size % (1000 * Fine) = 0)
  <2>1. x \in Nat
    BY <1>4, <1>8
  <2>2. sum \in Doubles(x, exact)
    BY <1>2
  <2> HIDE DEF x
  <2> QED BY <2>1, <2>2, DoublesAre
<1>10. n \in Nat /\ n % 10 = 0
  BY <1>8
<1> HIDE DEF n
<1>11. x % (10 * Fine) = 0
  <2> DEFINE k == 10 * Fine
             t == n \div 10
  <2>1. t \in Nat /\ n = 10 * t
    BY <1>10
  <2> HIDE DEF t
  <2>2. x = k * t /\ k \in Nat \ {0}
    BY <1>4, <2>1
  <2> HIDE DEF k
  <2>3. \A f \in Nat \ {0}, v \in Nat : (f * v) % f = 0
    OBVIOUS
  <2>4. (k * t) % k = 0
    BY <2>1, <2>2, <2>3
  <2>5. x % k = 0
    BY <2>2, <2>4
  <2> QED BY <2>5 DEF k
<1>12. centre \in Nat /\ centre <= n /\ (~LosesDigits(sum) => centre = n)
  <2>1. /\ centre \in Nat /\ Fine * centre <= x
        /\ ~LosesDigits(sum) => Fine * centre = x
    <3> HIDE DEF x
    <3>1. sum.size % (10 * Fine) = 0
      BY <1>9, <1>11
    <3> QED BY <1>9, <3>1, CutStringIsClose
  <2>2. \A f \in Nat \ {0}, a, b \in Nat : (f * a <= f * b => a <= b) /\ (f * a = f * b => a = b)
    OBVIOUS
  <2> QED BY <1>4, <1>10, <2>1, <2>2
<1>13. n = 0 \/ n % 10000 # 0 => centre = n
  <2> SUFFICES ASSUME LosesDigits(sum) PROVE n # 0 /\ n % 10000 = 0
    BY <1>12
  <2>1. PICK h \in Hundredths(sum) : h # 0 /\ h % 1000 = 0
    BY DEF LosesDigits
  <2>2. h \in Nat /\ Fine * (10 * h) = x
    <3> HIDE DEF x
    <3>1. sum.size % (10 * Fine) = 0
      BY <1>9, <1>11
    <3> QED BY <1>9, <2>1, <3>1, HundredthsClose
  <2>3. \A f \in Nat \ {0}, a, b \in Nat : f * a = f * b => a = b
    OBVIOUS
  <2>4. 10 * h \in Nat
    BY <2>2
  <2>5. 10 * h = n
    BY <1>4, <1>10, <2>2, <2>3, <2>4
  <2> QED BY <2>1, <2>2, <2>5
<1>14. label.total = Total(RowAmounts) /\ RowAmounts \in [Listed -> Nat] /\ label.total \in Nat
  BY <1>4, TotalFacts
<1>15. /\ Rounded = Total(Broken)
       /\ Broken \in [Listed -> Int] /\ slices \in [Listed -> Int] /\ RowAmounts \in [Listed -> Int]
  BY <1>7, <1>14 DEF Rounded, Broken
<1> DEFINE a == 2 * Fine
           e == 11 * Fine
<1>16. a \in Int /\ e \in Int
  BY <1>4
<1>17. /\ \A c \in Listed : a * slices[c] <= 2 * RowAmounts[c] + e * Broken[c]
       /\ (\A c \in Listed : ~LosesDigits(rows.worth[c])) =>
             \A c \in Listed : 2 * RowAmounts[c] <= a * slices[c] + e * Broken[c]
  BY <1>6 DEF RowAmounts
<1> HIDE DEF a, e
<1>18. a * Total(slices) <= 2 * Total(RowAmounts) + e * Total(Broken)
  <2>1. TermsWithin(Listed, slices, RowAmounts, Broken, a, 2, e)
    BY <1>17 DEF TermsWithin
  <2>2. SumsWithin(slices, RowAmounts, Broken, a, 2, e)
    BY <1>5, <1>15, <1>16, <2>1, TotalsWithin
  <2> QED BY <2>2 DEF SumsWithin
<1>19. (\A c \in Listed : ~LosesDigits(rows.worth[c])) =>
          2 * Total(RowAmounts) <= a * Total(slices) + e * Total(Broken)
  <2> SUFFICES ASSUME \A c \in Listed : ~LosesDigits(rows.worth[c])
               PROVE  2 * Total(RowAmounts) <= a * Total(slices) + e * Total(Broken)
    OBVIOUS
  <2>1. TermsWithin(Listed, RowAmounts, slices, Broken, 2, a, e)
    BY <1>17 DEF TermsWithin
  <2>2. SumsWithin(RowAmounts, slices, Broken, 2, a, e)
    BY <1>5, <1>15, <1>16, <2>1, TotalsWithin
  <2> QED BY <2>2 DEF SumsWithin
<1>20. chart'.shown = TRUE /\ chart'.centre = centre /\ chart'.slices = slices
       /\ DOMAIN slices = Listed
  BY <1>7
<1> QED BY <1>3, <1>12, <1>13, <1>14, <1>15, <1>18, <1>19, <1>20 DEF n, a, e

\* Every step keeps the invariant.
LEMMA StepScreens == ScreensInv /\ [Next]_vars => ScreensInv'
<1> SUFFICES ASSUME ScreensInv, [Next]_vars PROVE ScreensInv'
  OBVIOUS
<1>1. CASE PricesCome
  BY <1>1, PricesComeStep
<1>2. CASE ShowChart
  <2>1. /\ chart'.shown = TRUE /\ chart'.centre \in Nat /\ DOMAIN chart'.slices = Listed
        /\ held' = held /\ market' = market /\ rows' = rows /\ label' = label /\ rows.shown
    BY <1>2, ShowChartFacts
  <2> QED BY <2>1, SameScreens
<1>3. CASE CloseChart
  <2>1. chart'.shown = FALSE /\ held' = held /\ market' = market /\ rows' = rows /\ label' = label
    BY <1>3 DEF CloseChart, Blank
  <2> QED BY <2>1, SameScreens
<1>4. CASE UNCHANGED vars
  <2>1. chart' = chart /\ held' = held /\ market' = market /\ rows' = rows /\ label' = label
    BY <1>4 DEF vars
  <2>2. chart.shown => rows.shown /\ chart.centre \in Nat /\ DOMAIN chart.slices = Listed
    BY DEF ScreensInv, TypeOK
  <2> QED BY <2>1, <2>2, SameScreens
<1> QED BY <1>1, <1>2, <1>3, <1>4 DEF Next

-----------------------------------------------------------------------------
\* The total under the bag is never more than what the coins in the rows are worth, but
\* for 0.0055 a piece, and a loss that is more than that is never green, for any prices,
\* holdings, rows that are missing and number of coins; and neither is the total less, nor
\* a gain red, as long as no price is next to a multiple of ten.
THEOREM TotalAndColourAreRight == Spec => []WorthIsRight
<1>1. ScreensInv => WorthIsRight
  <2> SUFFICES ASSUME ScreensInv PROVE TotalIsClose /\ ColourTellsTheGain
    BY DEF ScreensInv, WorthIsRight
  <2> DEFINE cost == Total(Costs)
             total == label.total
             slack == 11 * Fine * Pieces
             most == 2 * TrueWorth
  <2> SUFFICES ASSUME label.shown
               PROVE  /\ 2 * Fine * total <= most + slack
                      /\ KeepsDigits => most <= 2 * Fine * total + slack
                      /\ most + slack < 2 * Fine * cost => ~label.green
                      /\ KeepsDigits /\ most > 2 * Fine * cost + slack => label.green
    BY Zenon DEF TotalIsClose, ColourTellsTheGain, Cost, Costs
  <2>1. /\ Total(RowAmounts) \in Nat /\ label \in Label(Total(RowAmounts)) /\ total = Total(RowAmounts)
        /\ TrueWorth \in Int /\ Pieces \in Nat
        /\ 2 * Fine * total <= most + slack
        /\ KeepsDigits => most <= 2 * Fine * total + slack
    BY TotalFacts
  <2>2. cost \in Nat /\ Fine \in Nat \ {0}
    BY HeldFacts, ValuationAssumption DEF ScreensInv, TypeOK
  <2>3. /\ total > cost => label.green
        /\ total < cost => ~label.green
    BY <2>1, <2>2, LabelOf
  <2>4. most \in Int /\ slack \in Int /\ total \in Nat
    BY <2>1, <2>2
  <2> HIDE DEF cost, total, slack, most
  <2>5. \A f \in Nat \ {0}, a, b \in Nat : 2 * f * a < 2 * f * b => a < b
    OBVIOUS
  <2>6. 2 * Fine * cost \in Int /\ 2 * Fine * total \in Int
    BY <2>2, <2>4
  <2>7. most + slack < 2 * Fine * cost => 2 * Fine * total < 2 * Fine * cost
    BY <2>1, <2>4, <2>6
  <2>8. KeepsDigits /\ most > 2 * Fine * cost + slack => 2 * Fine * cost < 2 * Fine * total
    BY <2>1, <2>4, <2>6
  <2>9. /\ most + slack < 2 * Fine * cost => total < cost
        /\ KeepsDigits /\ most > 2 * Fine * cost + slack => cost < total
    BY <2>2, <2>4, <2>5, <2>7, <2>8
  <2>10. cost < total => total > cost
    BY <2>2, <2>4
  <2> QED BY <2>1, <2>3, <2>9, <2>10
<1> QED BY <1>1, InitScreens, StepScreens, PTL DEF Spec

\* The chart that opens over the wallet never shows more in its hole than its slices add
\* up to, and the same unless that is a multiple of ten; and these add up to the total of
\* the wallet but for the rounding, and for a row next to a multiple of ten.
THEOREM ChartShowsTheTotal == Spec => ChartAgreesWithWallet
<1> DEFINE Agrees ==
             LET sum == Total(chart'.slices) IN
             /\ chart'.centre <= sum
             /\ sum = 0 \/ sum % 10000 # 0 => chart'.centre = sum
             /\ 2 * Fine * sum <= 2 * label.total + 11 * Fine * Rounded
             /\ \/ 2 * label.total <= 2 * Fine * sum + 11 * Fine * Rounded
                \/ \E c \in Listed : LosesDigits(rows.worth[c])
<1>1. ASSUME ScreensInv, [Next]_vars, chart'.shown, ~chart.shown
      PROVE  Agrees
  <2>1. CASE PricesCome
    BY <1>1, <2>1 DEF PricesCome
  <2>2. CASE ShowChart
    BY <1>1, <2>2, ShowChartFacts
  <2>3. CASE CloseChart
    BY <1>1, <2>3 DEF CloseChart
  <2>4. CASE UNCHANGED vars
    BY <1>1, <2>4 DEF vars
  <2> QED BY <1>1, <2>1, <2>2, <2>3, <2>4 DEF Next
<1>2. ScreensInv /\ [Next]_vars => [chart'.shown /\ ~chart.shown => Agrees]_vars
  BY <1>1
<1> QED BY <1>2, InitScreens, StepScreens, PTL DEF Spec, ChartAgreesWithWallet

=============================================================================
