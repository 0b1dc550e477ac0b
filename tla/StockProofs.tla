---------------------------- MODULE StockProofs ----------------------------
(***************************************************************************)
(* Stock, flags and ledgers agree, for any products, variants, orders and  *)
(* bounds.                                                                 *)
(*                                                                         *)
(* The sums of the model are folds over a set of variants.  The first part *)
(* proves what the rest needs of them, from the definition of the fold: a  *)
(* finite set of counterexamples has a smallest one.                       *)
(*                                                                         *)
(* The inductive invariant is StockInv.  To the properties it adds that    *)
(* what is not there yet has no stock, no ledger and no order lines (a     *)
(* cancellation adds what a line holds to both sides), and, for a product  *)
(* in creation, the difference between its stock and its ledger: the stock *)
(* its creator remembers.                                                  *)
(***************************************************************************)
EXTENDS Stock, FiniteSetTheorems, TLAPS

\* The element a fold takes first, and the function it unrolls.
Any(s) == CHOOSE x \in s : TRUE
Unrolls(g, f, T) ==
  g = [s \in SUBSET T |-> IF s = {} THEN 0 ELSE f[Any(s)] + g[s \ {Any(s)}]]

\* The sum is such a function, at the whole set.
LEMMA TotalIsUnrolled ==
  ASSUME NEW f, NEW T
  PROVE  Total(f, T) = (CHOOSE g : Unrolls(g, f, T))[T]
  BY DEF Total, FoldFunctionOnSet, MapThenFoldSet, Unrolls, Any

\* Among the parts of a finite set, a bad one contains a smallest bad one.
LEMMA SmallestSet ==
  ASSUME NEW S, IsFiniteSet(S), NEW Bad \in SUBSET SUBSET S, Bad # {}
  PROVE  \E T \in Bad : \A U \in SUBSET T : U # T => U \notin Bad
<1>1. IsWellFoundedOn(StrictSubsetOrdering(S), SUBSET S)
  BY FS_StrictSubsetOrderingWellFounded, FS_FiniteSubsetsOfFinite
<1>2. PICK T \in Bad : \A U \in Bad : <<U, T>> \notin StrictSubsetOrdering(S)
  BY <1>1, WFMin
<1>3. QED
  BY <1>2 DEF StrictSubsetOrdering

\* Two such functions agree where both are defined.
LEMMA UnrollsOneWay ==
  ASSUME NEW f, NEW T, IsFiniteSet(T), NEW U \in SUBSET T,
         NEW g, Unrolls(g, f, T), NEW h, Unrolls(h, f, U)
  PROVE  \A s \in SUBSET U : g[s] = h[s]
<1> DEFINE Bad == {s \in SUBSET U : g[s] # h[s]}
<1>1. SUFFICES ASSUME Bad # {} PROVE FALSE
  OBVIOUS
<1>2. IsFiniteSet(U)
  BY FS_Subset
<1>3. PICK s \in Bad : \A r \in SUBSET s : r # s => r \notin Bad
  <2>1. Bad \in SUBSET SUBSET U
    OBVIOUS
  <2> HIDE DEF Bad
  <2>2. QED
    BY <1>1, <1>2, <2>1, SmallestSet
<1>4. s \in SUBSET U /\ g[s] # h[s]
  OBVIOUS
<1>5. /\ g[s] = IF s = {} THEN 0 ELSE f[Any(s)] + g[s \ {Any(s)}]
      /\ h[s] = IF s = {} THEN 0 ELSE f[Any(s)] + h[s \ {Any(s)}]
  BY <1>4 DEF Unrolls
<1>6. s # {}
  BY <1>4, <1>5
<1>7. Any(s) \in s
  BY <1>6 DEF Any
<1>8. s \ {Any(s)} \notin Bad
  BY <1>3, <1>7
<1>9. g[s \ {Any(s)}] = h[s \ {Any(s)}]
  BY <1>8, <1>4
<1>10. QED
  BY <1>4, <1>5, <1>9

\* One unfolding of the sum.
LEMMA TotalUnfolds ==
  ASSUME NEW f, NEW S, IsFiniteSet(S)
  PROVE  /\ Unrolls(CHOOSE g : Unrolls(g, f, S), f, S)
         /\ Total(f, S) = IF S = {} THEN 0 ELSE f[Any(S)] + Total(f, S \ {Any(S)})
<1> DEFINE Sum(T) == CHOOSE g : Unrolls(g, f, T)
           Good(T) == \E g : Unrolls(g, f, T)
           Bad == {T \in SUBSET S : ~ Good(T)}
<1>1. \A T : Good(T) => Unrolls(Sum(T), f, T)
  OBVIOUS
<1>2. \A T : Total(f, T) = Sum(T)[T]
  BY TotalIsUnrolled
<1> HIDE DEF Sum
<1>3. ASSUME NEW T \in SUBSET S, Good(T)
      PROVE  Total(f, T) = IF T = {} THEN 0 ELSE f[Any(T)] + Total(f, T \ {Any(T)})
  <2> DEFINE R == T \ {Any(T)}
             h == [s \in SUBSET R |-> Sum(T)[s]]
  <2>1. IsFiniteSet(T) /\ IsFiniteSet(R)
    BY FS_Subset
  <2>2. Unrolls(Sum(T), f, T)
    BY <1>1, <1>3
  <2>3. /\ \A s \in SUBSET T : Sum(T)[s] =
             IF s = {} THEN 0 ELSE f[Any(s)] + Sum(T)[s \ {Any(s)}]
    BY <2>2 DEF Unrolls
  <2>4. Unrolls(h, f, R)
    <3>1. ASSUME NEW s \in SUBSET R
          PROVE  h[s] = IF s = {} THEN 0 ELSE f[Any(s)] + h[s \ {Any(s)}]
      <4>1. s \in SUBSET T /\ s \ {Any(s)} \in SUBSET R
        OBVIOUS
      <4>2. h[s] = Sum(T)[s] /\ h[s \ {Any(s)}] = Sum(T)[s \ {Any(s)}]
        BY <4>1
      <4>3. QED
        BY <4>1, <4>2, <2>3
    <3>2. h = [s \in SUBSET R |-> h[s]]
      OBVIOUS
    <3> HIDE DEF h, R
    <3>3. QED
      BY <3>1, <3>2 DEF Unrolls
  <2>5. Unrolls(Sum(R), f, R)
    BY <2>4, <1>1
  <2> HIDE DEF h, R
  <2>6. Sum(T)[R] = Sum(R)[R]
    <3>1. PICK r \in SUBSET T : r = R
      BY DEF R
    <3>2. PICK a, b : a = Sum(T) /\ b = Sum(R)
      OBVIOUS
    <3>3. IsFiniteSet(r) /\ Unrolls(a, f, T) /\ Unrolls(b, f, r)
      BY <2>1, <2>2, <2>5, <3>1, <3>2
    <3>4. \A s \in SUBSET r : a[s] = b[s]
      <4>1. IsFiniteSet(T)
        BY <2>1
      <4>2. Unrolls(a, f, T)
        BY <3>3
      <4>3. Unrolls(b, f, r)
        BY <3>3
      <4>4. QED
        BY <4>1, <4>2, <4>3, UnrollsOneWay
    <3>5. QED
      BY <3>1, <3>2, <3>4
  <2>7. Sum(T)[T] = IF T = {} THEN 0 ELSE f[Any(T)] + Sum(T)[R]
    BY <2>3 DEF R
  <2>8. QED
    BY <1>2, <2>6, <2>7 DEF R
<1>4. Bad = {}
  <2>1. SUFFICES ASSUME Bad # {} PROVE FALSE
    OBVIOUS
  <2>2. PICK T \in Bad : \A U \in SUBSET T : U # T => U \notin Bad
    <3>1. Bad \in SUBSET SUBSET S
      OBVIOUS
    <3> HIDE DEF Bad
    <3>2. QED
      BY <2>1, <3>1, SmallestSet
  <2>3. T \in SUBSET S /\ ~ Good(T)
    OBVIOUS
  <2>4. ASSUME NEW U \in SUBSET T, U # T
        PROVE  Total(f, U) = IF U = {} THEN 0 ELSE f[Any(U)] + Total(f, U \ {Any(U)})
    <3>1. Good(U) /\ U \in SUBSET S
      BY <2>2, <2>4
    <3> HIDE DEF Good
    <3>2. QED
      BY <3>1, <1>3
  <2> DEFINE h == [s \in SUBSET T |->
                     IF s = {} THEN 0 ELSE f[Any(s)] + Total(f, s \ {Any(s)})]
  <2>5. ASSUME NEW s \in SUBSET T, s # {}
        PROVE  Total(f, s \ {Any(s)}) = h[s \ {Any(s)}]
    <3>1. Any(s) \in s
      BY <2>5 DEF Any
    <3>2. PICK r : r = s \ {Any(s)}
      OBVIOUS
    <3>3. r \in SUBSET T /\ r # T
      BY <3>1, <3>2
    <3>4. Total(f, r) = IF r = {} THEN 0 ELSE f[Any(r)] + Total(f, r \ {Any(r)})
      BY <3>3, <2>4
    <3>5. QED
      BY <3>2, <3>3, <3>4
  <2>6. Unrolls(h, f, T)
    BY <2>5 DEF Unrolls
  <2>7. Good(T)
    BY <2>6
  <2>8. QED
    BY <2>3, <2>7
<1>5. Good(S)
  BY <1>4
<1> HIDE DEF Good
<1>6. QED
  BY <1>1, <1>3, <1>5 DEF Sum

\* Nothing adds up to zero, whole numbers to a whole number.
LEMMA TotalEmpty ==
  ASSUME NEW f
  PROVE  Total(f, {}) = 0
  BY TotalUnfolds, FS_EmptySet

\* The element a sum takes first.
LEMMA TotalTakesOne ==
  ASSUME NEW f, NEW S, IsFiniteSet(S), S # {}
  PROVE  \E x \in S : /\ Total(f, S) = f[x] + Total(f, S \ {x})
                      /\ S \ {x} \in SUBSET S /\ S \ {x} # S
<1>1. Any(S) \in S
  BY DEF Any
<1>2. Total(f, S) = f[Any(S)] + Total(f, S \ {Any(S)})
  BY TotalUnfolds
<1>3. QED
  BY <1>1, <1>2

LEMMA TotalInt ==
  ASSUME NEW S, IsFiniteSet(S), NEW f, \A x \in S : f[x] \in Int
  PROVE  Total(f, S) \in Int
<1> DEFINE Bad == {T \in SUBSET S : Total(f, T) \notin Int}
<1>1. Bad \in SUBSET SUBSET S
  OBVIOUS
<1>2. \A T : T \in Bad <=> T \in SUBSET S /\ Total(f, T) \notin Int
  OBVIOUS
<1> HIDE DEF Bad
<1>3. SUFFICES ASSUME Bad # {} PROVE FALSE
  BY <1>2
<1>4. PICK T \in Bad : \A U \in SUBSET T : U # T => U \notin Bad
  BY <1>1, <1>3, SmallestSet
<1>5. IsFiniteSet(T) /\ T # {}
  <2>1. IsFiniteSet(T)
    BY <1>2, FS_Subset
  <2>2. Total(f, {}) \in Int
    BY TotalEmpty
  <2>3. {} \notin Bad
    BY <1>2, <2>2
  <2>4. QED
    BY <2>1, <2>3
<1>6. PICK x \in T : /\ Total(f, T) = f[x] + Total(f, T \ {x})
                     /\ T \ {x} \in SUBSET T /\ T \ {x} # T
  BY <1>5, TotalTakesOne
<1>7. Total(f, T \ {x}) \in Int
  BY <1>2, <1>4, <1>6
<1>8. QED
  BY <1>2, <1>6, <1>7

LEMMA TotalNat ==
  ASSUME NEW S, IsFiniteSet(S), NEW f, \A x \in S : f[x] \in Nat
  PROVE  Total(f, S) \in Nat
<1> DEFINE Bad == {T \in SUBSET S : Total(f, T) \notin Nat}
<1>1. Bad \in SUBSET SUBSET S
  OBVIOUS
<1>2. \A T : T \in Bad <=> T \in SUBSET S /\ Total(f, T) \notin Nat
  OBVIOUS
<1> HIDE DEF Bad
<1>3. SUFFICES ASSUME Bad # {} PROVE FALSE
  BY <1>2
<1>4. PICK T \in Bad : \A U \in SUBSET T : U # T => U \notin Bad
  BY <1>1, <1>3, SmallestSet
<1>5. IsFiniteSet(T) /\ T # {}
  <2>1. IsFiniteSet(T)
    BY <1>2, FS_Subset
  <2>2. Total(f, {}) \in Nat
    BY TotalEmpty
  <2>3. {} \notin Bad
    BY <1>2, <2>2
  <2>4. QED
    BY <2>1, <2>3
<1>6. PICK x \in T : /\ Total(f, T) = f[x] + Total(f, T \ {x})
                     /\ T \ {x} \in SUBSET T /\ T \ {x} # T
  BY <1>5, TotalTakesOne
<1>7. Total(f, T \ {x}) \in Nat
  BY <1>2, <1>4, <1>6
<1>8. QED
  BY <1>2, <1>6, <1>7

\* Summing two functions that agree on the set.
LEMMA TotalSame ==
  ASSUME NEW S, IsFiniteSet(S), NEW f, NEW g, \A x \in S : f[x] = g[x]
  PROVE  Total(f, S) = Total(g, S)
<1> DEFINE Bad == {T \in SUBSET S : Total(f, T) # Total(g, T)}
<1>1. Bad \in SUBSET SUBSET S
  OBVIOUS
<1>2. \A T : T \in Bad <=> T \in SUBSET S /\ Total(f, T) # Total(g, T)
  OBVIOUS
<1> HIDE DEF Bad
<1>3. SUFFICES ASSUME Bad # {} PROVE FALSE
  BY <1>2
<1>4. PICK T \in Bad : \A U \in SUBSET T : U # T => U \notin Bad
  BY <1>1, <1>3, SmallestSet
<1>5. IsFiniteSet(T) /\ T # {}
  <2>1. IsFiniteSet(T)
    BY <1>2, FS_Subset
  <2>2. Total(f, {}) = Total(g, {})
    BY TotalEmpty
  <2>3. {} \notin Bad
    BY <1>2, <2>2
  <2>4. QED
    BY <2>1, <2>3
<1>6. /\ Total(f, T) = f[Any(T)] + Total(f, T \ {Any(T)})
      /\ Total(g, T) = g[Any(T)] + Total(g, T \ {Any(T)})
  BY <1>5, TotalUnfolds
<1>7. Any(T) \in T
  BY <1>5 DEF Any
<1>8. Total(f, T \ {Any(T)}) = Total(g, T \ {Any(T)})
  BY <1>2, <1>4, <1>7
<1>9. QED
  BY <1>2, <1>6, <1>7, <1>8

\* Summing two functions and their sum.
LEMMA TotalAdds ==
  ASSUME NEW S, IsFiniteSet(S), NEW f, NEW g, NEW h,
         \A x \in S : f[x] \in Int /\ g[x] \in Int /\ h[x] = f[x] + g[x]
  PROVE  Total(h, S) = Total(f, S) + Total(g, S)
<1> DEFINE Bad == {T \in SUBSET S : Total(h, T) # Total(f, T) + Total(g, T)}
<1>1. Bad \in SUBSET SUBSET S
  OBVIOUS
<1>2. \A T : T \in Bad <=> T \in SUBSET S /\ Total(h, T) # Total(f, T) + Total(g, T)
  OBVIOUS
<1> HIDE DEF Bad
<1>3. SUFFICES ASSUME Bad # {} PROVE FALSE
  BY <1>2
<1>4. PICK T \in Bad : \A U \in SUBSET T : U # T => U \notin Bad
  BY <1>1, <1>3, SmallestSet
<1>5. IsFiniteSet(T) /\ T # {}
  <2>1. IsFiniteSet(T)
    BY <1>2, FS_Subset
  <2>2. Total(h, {}) = Total(f, {}) + Total(g, {})
    BY TotalEmpty
  <2>3. {} \notin Bad
    BY <1>2, <2>2
  <2>4. QED
    BY <2>1, <2>3
<1>6. /\ Total(f, T) = f[Any(T)] + Total(f, T \ {Any(T)})
      /\ Total(g, T) = g[Any(T)] + Total(g, T \ {Any(T)})
      /\ Total(h, T) = h[Any(T)] + Total(h, T \ {Any(T)})
  BY <1>5, TotalUnfolds
<1>7. Any(T) \in T
  BY <1>5 DEF Any
<1> DEFINE R == T \ {Any(T)}
<1>8. R \in SUBSET S /\ IsFiniteSet(R) /\ R \in SUBSET T /\ R # T
  BY <1>2, <1>7, FS_Subset
<1> HIDE DEF R
<1>9. Total(h, R) = Total(f, R) + Total(g, R)
  BY <1>2, <1>4, <1>8
<1>10. Total(f, R) \in Int /\ Total(g, R) \in Int
  BY <1>8, TotalInt
<1>11. /\ f[Any(T)] \in Int /\ g[Any(T)] \in Int
       /\ h[Any(T)] = f[Any(T)] + g[Any(T)]
  BY <1>2, <1>7
<1>12. Total(h, T) = Total(f, T) + Total(g, T)
  BY <1>6, <1>9, <1>10, <1>11 DEF R
<1>13. QED
  BY <1>2, <1>12

\* Any element of the set can be taken first.
LEMMA TotalTakesAny ==
  ASSUME NEW S, IsFiniteSet(S), NEW f, \A x \in S : f[x] \in Int, NEW y \in S
  PROVE  Total(f, S) = f[y] + Total(f, S \ {y})
<1> DEFINE Bad == {T \in SUBSET S :
                     \E x \in T : Total(f, T) # f[x] + Total(f, T \ {x})}
<1>1. Bad \in SUBSET SUBSET S
  OBVIOUS
<1>2. \A T : T \in Bad <=> T \in SUBSET S
               /\ \E x \in T : Total(f, T) # f[x] + Total(f, T \ {x})
  OBVIOUS
<1> HIDE DEF Bad
<1>3. SUFFICES ASSUME Bad # {} PROVE FALSE
  BY <1>2
<1>4. PICK T \in Bad : \A U \in SUBSET T : U # T => U \notin Bad
  BY <1>1, <1>3, SmallestSet
<1>5. PICK x \in T : Total(f, T) # f[x] + Total(f, T \ {x})
  BY <1>2
<1>6. IsFiniteSet(T) /\ T # {} /\ T \in SUBSET S
  BY <1>2, <1>5, FS_Subset
<1>7. PICK a \in T : /\ Total(f, T) = f[a] + Total(f, T \ {a})
                     /\ T \ {a} \in SUBSET T /\ T \ {a} # T
  BY <1>6, TotalTakesOne
<1>8. a # x
  BY <1>5, <1>7
<1>9. Total(f, T \ {a}) = f[x] + Total(f, (T \ {a}) \ {x})
  <2>1. T \ {a} \in SUBSET S /\ x \in T \ {a} /\ T \ {a} \notin Bad
    BY <1>4, <1>6, <1>7, <1>8
  <2>2. QED
    BY <1>2, <2>1
<1>10. Total(f, T \ {x}) = f[a] + Total(f, (T \ {x}) \ {a})
  <2>1. T \ {x} \in SUBSET T /\ T \ {x} # T /\ T \ {x} \in SUBSET S /\ a \in T \ {x}
    BY <1>6, <1>7, <1>8
  <2>2. T \ {x} \notin Bad
    BY <1>4, <2>1
  <2>3. QED
    BY <1>2, <2>1, <2>2
<1>11. (T \ {a}) \ {x} = (T \ {x}) \ {a}
  OBVIOUS
<1>12. Total(f, (T \ {x}) \ {a}) \in Int
  <2>1. PICK R \in SUBSET S : R = (T \ {x}) \ {a}
    BY <1>6
  <2>2. IsFiniteSet(R)
    BY FS_Subset
  <2>3. Total(f, R) \in Int
    BY <2>2, TotalInt
  <2>4. QED
    BY <2>1, <2>3
<1>13. f[a] \in Int /\ f[x] \in Int
  BY <1>6
<1>14. Total(f, T) = f[x] + Total(f, T \ {x})
  <2>1. PICK both \in Int : both = Total(f, (T \ {x}) \ {a})
    BY <1>12
  <2>2. Total(f, T) = f[a] + (f[x] + both)
    BY <1>7, <1>9, <1>11, <2>1, Zenon
  <2>3. Total(f, T \ {x}) = f[a] + both
    BY <1>10, <2>1
  <2>4. QED
    BY <1>13, <2>2, <2>3
<1>15. QED
  BY <1>5, <1>14

\* Elements that count for nothing can be left out.
LEMMA TotalOfPart ==
  ASSUME NEW S, IsFiniteSet(S), NEW f, \A x \in S : f[x] \in Int,
         NEW P \in SUBSET S, \A x \in S \ P : f[x] = 0
  PROVE  Total(f, S) = Total(f, P)
<1> DEFINE Bad == {T \in SUBSET S : P \subseteq T /\ Total(f, T) # Total(f, P)}
<1>1. Bad \in SUBSET SUBSET S
  OBVIOUS
<1>2. \A T : T \in Bad <=>
          T \in SUBSET S /\ P \subseteq T /\ Total(f, T) # Total(f, P)
  OBVIOUS
<1> HIDE DEF Bad
<1>3. SUFFICES ASSUME Bad # {} PROVE FALSE
  BY <1>2
<1>4. PICK T \in Bad : \A U \in SUBSET T : U # T => U \notin Bad
  BY <1>1, <1>3, SmallestSet
<1>5. IsFiniteSet(T) /\ T \in SUBSET S /\ P \subseteq T /\ T # P
  BY <1>2, FS_Subset
<1>6. PICK x \in T : x \notin P
  BY <1>5
<1>7. Total(f, T) = f[x] + Total(f, T \ {x})
  <2>1. \A y \in T : f[y] \in Int
    BY <1>5
  <2>2. QED
    BY <1>5, <2>1, TotalTakesAny
<1>8. PICK R \in SUBSET T : R = T \ {x}
  OBVIOUS
<1>9. R # T /\ P \subseteq R /\ R \in SUBSET S /\ IsFiniteSet(R)
  BY <1>5, <1>6, <1>8, FS_Subset
<1>10. Total(f, R) = Total(f, P)
  BY <1>2, <1>4, <1>9
<1>11. Total(f, R) \in Int
  BY <1>9, TotalInt
<1>12. f[x] = 0
  BY <1>5, <1>6
<1>13. Total(f, T) = Total(f, P)
  BY <1>7, <1>8, <1>10, <1>11, <1>12
<1>14. QED
  BY <1>2, <1>13

\* A sum of units is positive exactly when some summand is.
LEMMA TotalPositive ==
  ASSUME NEW S, IsFiniteSet(S), NEW f, \A x \in S : f[x] \in Nat
  PROVE  Total(f, S) > 0 <=> \E x \in S : f[x] > 0
<1>1. ASSUME NEW x \in S, f[x] > 0
      PROVE  Total(f, S) > 0
  <2>1. Total(f, S) = f[x] + Total(f, S \ {x})
    BY TotalTakesAny
  <2>2. PICK R \in SUBSET S : R = S \ {x}
    OBVIOUS
  <2>3. IsFiniteSet(R)
    BY FS_Subset
  <2>4. Total(f, R) \in Nat
    BY <2>3, TotalNat
  <2>5. f[x] \in Nat
    OBVIOUS
  <2>6. QED
    BY <1>1, <2>1, <2>2, <2>4, <2>5
<1>2. ASSUME ~ \E x \in S : f[x] > 0
      PROVE  Total(f, S) = 0
  <2>1. \A x \in S : f[x] = 0 /\ f[x] \in Int
    BY <1>2
  <2>2. PICK none \in SUBSET S : none = {}
    OBVIOUS
  <2>3. Total(f, S) = Total(f, none)
    BY <2>1, TotalOfPart
  <2>4. QED
    BY <2>2, <2>3, TotalEmpty
<1>3. QED
  BY <1>1, <1>2

-----------------------------------------------------------------------------
\* A product has finitely many variants.
LEMMA VariantsOfAreFinite ==
  ASSUME NEW p \in Products
  PROVE  /\ VariantsOf(p) \in SUBSET Variants /\ IsFiniteSet(VariantsOf(p))
         /\ \A v \in VariantsOf(p) : v \in Items /\ ProductOf[v] = p
  BY VariantsAssumption, FS_Subset DEF VariantsOf, Items

\* A product is no variant, so its lines are not those of a variant.
LEMMA ProductsAreNotVariants ==
  ASSUME NEW p \in Products, NEW v \in Variants
  PROVE  p # v
  BY ItemsAssumption

\* The actions, with the product of a form by its name.
LEMMA StepCases ==
  ASSUME StockTypeOK, [StockNext]_stockVars
  PROVE  \/ \E p \in Products, n \in 0..MaxStock : CreateProduct(p, n)
         \/ \E p \in Products : \E f \in Payloads(p) : CreateVariants(p, f)
         \/ \E p \in Products : CreateLog(p)
         \/ \E p \in Products : CreateAborts(p)
         \/ \E p \in Products : DeleteProduct(p)
         \/ \E p \in Products, n \in Int : MoveProduct(p, n)
         \/ \E v \in Variants, n \in Int : MoveVariant(v, n)
         \/ \E o \in Orders, cart \in [Items -> 0..MaxQuantity] : Reserve(o, cart)
         \/ \E o \in Orders, cart \in [Items -> 0..MaxQuantity] : RingUp(o, cart)
         \/ \E o \in Orders : Restock(o)
         \/ \E e \in Editors, p \in Products : FormLoads(e, p)
         \/ \E e \in Editors, p \in Products, n \in Nat :
              editor[e].product = p /\ editor[e].stock = n /\ FormSaves(e)
         \/ \E e \in Editors, p \in Products : \E f \in Payloads(p) :
              editor[e].product = p /\ FormSyncs(e, f)
         \/ \E e \in Editors : FormEnds(e)
         \/ UNCHANGED stockVars
<1>1. ASSUME NEW e \in Editors, editor[e].step \in {"loaded", "saved"}
      PROVE  editor[e].product \in Products /\ editor[e].stock \in Nat
  <2>1. editor[e] # FormIdle
    BY <1>1 DEF FormIdle
  <2>2. QED
    BY <2>1 DEF StockTypeOK, FormStates
<1>2. ASSUME NEW e \in Editors, FormSaves(e)
      PROVE  \E p \in Products, n \in Nat :
               editor[e].product = p /\ editor[e].stock = n /\ FormSaves(e)
  <2>1. editor[e].step = "loaded"
    BY <1>2 DEF FormSaves
  <2>2. QED
    BY <1>1, <1>2, <2>1
<1>3. ASSUME NEW e \in Editors, editor[e].step = "saved",
             \E f \in Payloads(editor[e].product) : FormSyncs(e, f)
      PROVE  \E p \in Products : \E f \in Payloads(p) :
               editor[e].product = p /\ FormSyncs(e, f)
  <2>1. PICK p \in Products : editor[e].product = p
    BY <1>1, <1>3
  <2>2. QED
    BY <1>3, <2>1
<1>4. \A n \in -MaxQuantity..MaxQuantity \ {0} : n \in Int
  BY StockBoundsAssumption
<1>5. CASE \E p \in Products : Catalogue(p)
  BY <1>5 DEF Catalogue
<1>6. CASE \E n \in -MaxQuantity..MaxQuantity \ {0} : Movement(n)
  BY <1>4, <1>6 DEF Movement
<1>7. CASE \E e \in Editors : Form(e)
  BY <1>2, <1>3, <1>7 DEF Form
<1>8. QED
  BY <1>5, <1>6, <1>7 DEF StockNext

\* What the product form may write on the variants of a product.
LEMMA PayloadTypes ==
  ASSUME NEW p \in Products, NEW payload \in Payloads(p)
  PROVE  /\ DOMAIN payload = VariantsOf(p)
         /\ \A v \in VariantsOf(p) :
              /\ payload[v].row \in {"none", "active", "inactive", "deleted"}
              /\ payload[v].stock \in Nat
              /\ payload[v].row = "none" <=> vRow[v] = "none" /\ payload[v].row = "none"
              /\ payload[v].row \in {"none", "deleted"} => payload[v].stock = 0
<1>1. payload \in [VariantsOf(p) ->
            [row : {"none", "active", "inactive", "deleted"}, stock : 0..MaxStock]]
  BY DEF Payloads
<1>2. \A v \in VariantsOf(p) :
       /\ payload[v].row \in CASE vRow[v] = "none"    -> {"none", "active", "inactive"}
                         [] vRow[v] = "deleted" -> {"deleted"}
                         [] OTHER -> {"active", "inactive", "deleted"}
       /\ payload[v].row \in {"none", "deleted"} => payload[v].stock = 0
  BY DEF Payloads
<1>3. 0..MaxStock \subseteq Nat
  BY StockBoundsAssumption
<1>4. ASSUME NEW v \in VariantsOf(p)
      PROVE  /\ payload[v].row \in {"none", "active", "inactive", "deleted"}
             /\ payload[v].stock \in Nat
  BY <1>1, <1>3
<1>5. ASSUME NEW v \in VariantsOf(p), payload[v].row = "none"
      PROVE  vRow[v] = "none"
  BY <1>2, <1>5
<1>6. QED
  BY <1>1, <1>2, <1>4, <1>5

\* The product form, on the locked product.
LEMMA SyncKeepsTypes ==
  ASSUME StockTypeOK, NEW p \in Products, NEW payload \in Payloads(p),
         SyncVariants(p, payload)
  PROVE  /\ vRow' \in [Variants -> {"none", "active", "inactive", "deleted"}]
         /\ vStock' \in [Variants -> Nat]
         /\ vLedger' \in [Variants -> Int]
         /\ pLedger' \in [Products -> Int]
         /\ items' \in [Orders -> [Items -> Nat]]
         /\ pStock' \in [Products -> Nat]
         /\ pAvail' \in [Products -> BOOLEAN]
<1> DEFINE own == VariantsOf(p)
           gone == {v \in own : Live(v) /\ payload[v].row = "deleted"}
           stock == [v \in own |-> payload[v].stock]
<1>1. /\ own \subseteq Variants /\ IsFiniteSet(own)
      /\ gone \in SUBSET own /\ IsFiniteSet(gone)
      /\ Active(payload) \in SUBSET own /\ IsFiniteSet(Active(payload))
  <2>1. own \subseteq Variants /\ IsFiniteSet(own)
    BY VariantsOfAreFinite
  <2>2. gone \in SUBSET own /\ Active(payload) \in SUBSET own
    BY PayloadTypes DEF Active
  <2>3. QED
    BY <2>1, <2>2, FS_Subset
<1>2. \A v \in own : /\ payload[v].row \in {"none", "active", "inactive", "deleted"}
                     /\ stock[v] \in Nat
  BY PayloadTypes
<1>3. /\ vRow' = [v \in Variants |-> IF v \in own THEN payload[v].row ELSE vRow[v]]
      /\ vStock' = [v \in Variants |-> IF v \in own THEN stock[v] ELSE vStock[v]]
      /\ vLedger' = [v \in Variants |->
           CASE v \in gone -> 0
             [] v \in own \ gone -> vLedger[v] + Recorded(vStock[v], stock[v])
             [] OTHER -> vLedger[v]]
      /\ pLedger' = [pLedger EXCEPT ![p] = @ + Total(vLedger, gone)]
      /\ items' = [o \in Orders |-> [x \in Items |->
           CASE x \in gone -> 0
             [] x = p -> items[o][p] + Total(items[o], gone)
             [] OTHER -> items[o][x]]]
      /\ Resync(p, Active(payload), stock)
  BY DEF SyncVariants
<1> HIDE DEF own, gone, stock
<1>4. vRow' \in [Variants -> {"none", "active", "inactive", "deleted"}]
  BY <1>2, <1>3 DEF StockTypeOK
<1>5. vStock' \in [Variants -> Nat]
  BY <1>2, <1>3 DEF StockTypeOK
<1>6. vLedger' \in [Variants -> Int]
  <2>1. ASSUME NEW v \in Variants
        PROVE  (CASE v \in gone -> 0
             [] v \in own \ gone -> vLedger[v] + Recorded(vStock[v], stock[v])
             [] OTHER -> vLedger[v]) \in Int
    <3>1. vLedger[v] \in Int /\ vStock[v] \in Nat
      BY DEF StockTypeOK
    <3>2. v \in own => vLedger[v] + Recorded(vStock[v], stock[v]) \in Int
      BY <3>1, <1>2 DEF Recorded
    <3>3. QED
      BY <3>1, <3>2, <1>1
  <2>2. QED
    BY <1>3, <2>1
<1>7. pLedger' \in [Products -> Int]
  <2>1. \A v \in gone : vLedger[v] \in Int
    BY <1>1 DEF StockTypeOK
  <2>2. Total(vLedger, gone) \in Int
    BY <1>1, <2>1, TotalInt
  <2>3. QED
    BY <1>3, <2>2 DEF StockTypeOK
<1>8. items' \in [Orders -> [Items -> Nat]]
  <2>1. ASSUME NEW o \in Orders
        PROVE  items[o] \in [Items -> Nat] /\ Total(items[o], gone) \in Nat
    <3>1. items[o] \in [Items -> Nat]
      BY DEF StockTypeOK
    <3>2. \A v \in gone : items[o][v] \in Nat
      BY <1>1, <3>1 DEF Items
    <3>3. QED
      BY <1>1, <3>1, <3>2, TotalNat
  <2>2. ASSUME NEW o \in Orders, NEW x \in Items
        PROVE  (CASE x \in gone -> 0
             [] x = p -> items[o][p] + Total(items[o], gone)
             [] OTHER -> items[o][x]) \in Nat
    <3>1. items[o][x] \in Nat /\ items[o][p] \in Nat /\ Total(items[o], gone) \in Nat
      BY <2>1 DEF Items
    <3>2. QED
      BY <3>1
  <2>3. QED
    BY <1>3, <2>2
<1>9. Active(payload) # {} => Total(stock, Active(payload)) \in Nat
  BY <1>1, <1>2, TotalNat
<1>10. pStock' \in [Products -> Nat] /\ pAvail' \in [Products -> BOOLEAN]
  <2>1. CASE Active(payload) # {}
    <3>1. PICK n \in Nat : n = Total(stock, Active(payload))
      BY <1>9, <2>1
    <3>2. SetStock(p, n)
      BY <1>3, <2>1, <3>1 DEF Resync
    <3>3. QED
      BY <3>2 DEF SetStock, StockTypeOK
  <2>2. CASE Active(payload) = {}
    BY <1>3, <2>2 DEF Resync, StockTypeOK
  <2>3. QED
    BY <2>1, <2>2
<1>11. QED
  BY <1>4, <1>5, <1>6, <1>7, <1>8, <1>10

\* What a cart takes of a product.
LEMMA CartUnits ==
  ASSUME NEW cart \in [Items -> Nat], NEW p \in Products
  PROVE  /\ cart[p] \in Nat
         /\ \A v \in VariantsOf(p) : cart[v] \in Nat
         /\ Total(cart, VariantsOf(p)) \in Nat
         /\ Units(cart, p) = cart[p] + Total(cart, VariantsOf(p))
         /\ Units(cart, p) \in Nat
<1>1. cart[p] \in Nat /\ \A v \in VariantsOf(p) : cart[v] \in Nat
  BY DEF VariantsOf, Items
<1>2. Total(cart, VariantsOf(p)) \in Nat
  BY <1>1, VariantsOfAreFinite, TotalNat
<1>3. QED
  BY <1>1, <1>2 DEF Units

\* Carts hold whole units.
LEMMA CartTypes ==
  ASSUME NEW cart \in [Items -> 0..MaxQuantity]
  PROVE  cart \in [Items -> Nat]
<1>1. 0..MaxQuantity \subseteq Nat
  BY StockBoundsAssumption
<1>2. QED
  BY <1>1

\* A sale, besides the stock of the products.
LEMMA SellKeepsTypes ==
  ASSUME StockTypeOK, NEW o \in Orders, NEW cart \in [Items -> Nat], Sell(o, cart),
         \A v \in Variants : cart[v] > 0 => VariantSells(v, cart[v])
  PROVE  /\ sale' \in [Orders -> {"none", "held", "cancelled"}]
         /\ items' \in [Orders -> [Items -> Nat]]
         /\ vStock' \in [Variants -> Nat]
         /\ pLedger' \in [Products -> Int]
         /\ vLedger' \in [Variants -> Int]
<1>1. /\ \A v \in Variants : cart[v] \in Nat
      /\ \A p \in Products : cart[p] \in Nat
  BY DEF Items
<1>2. \A v \in Variants : vStock[v] - cart[v] \in Nat
  BY <1>1 DEF StockTypeOK, VariantSells
<1>3. QED
  BY <1>1, <1>2 DEF StockTypeOK, Sell

\* A product that takes the sum of its active variants.
LEMMA RecountKeepsTypes ==
  ASSUME StockTypeOK, NEW p \in Products, NEW A \in SUBSET Variants,
         NEW stock \in [Variants -> Nat], Resync(p, A, stock)
  PROVE  pStock' \in [Products -> Nat] /\ pAvail' \in [Products -> BOOLEAN]
<1>1. PICK n \in Nat : n = Total(stock, A)
  <2>1. \A v \in A : stock[v] \in Nat
    OBVIOUS
  <2>2. QED
    BY <2>1, VariantsAssumption, FS_Subset, TotalNat
<1>2. CASE A # {}
  <2>1. SetStock(p, n)
    BY <1>1, <1>2 DEF Resync
  <2>2. QED
    BY <2>1 DEF SetStock, StockTypeOK
<1>3. CASE A = {}
  BY <1>3 DEF Resync, StockTypeOK
<1>4. QED
  BY <1>2, <1>3

\* Every step keeps stocks natural: no sale takes more than there is.
LEMMA StepKeepsTypes ==
  ASSUME StockTypeOK, [StockNext]_stockVars
  PROVE  StockTypeOK'
<1>1. ASSUME NEW p \in Products, NEW n \in 0..MaxStock, CreateProduct(p, n)
      PROVE  StockTypeOK'
  <2>1. n \in Nat
    BY StockBoundsAssumption
  <2>2. QED
    BY <1>1, <2>1 DEF CreateProduct, SetStock, StockTypeOK, ledger
<1>2. ASSUME NEW p \in Products, NEW f \in Payloads(p), CreateVariants(p, f)
      PROVE  StockTypeOK'
  <2>1. SyncVariants(p, f)
    BY <1>2 DEF CreateVariants
  <2>2. /\ making' \in [Products -> {"no", "saved", "synced", "done", "aborted"}]
        /\ drifted' \in SUBSET Products
    BY <1>2 DEF CreateVariants, Follows, StockTypeOK
  <2>3. made' \in [Products -> Nat]
    BY <1>2, <2>1, SyncKeepsTypes DEF CreateVariants, StockTypeOK
  <2>4. UNCHANGED <<pRow, sale, editor>>
    BY <1>2 DEF CreateVariants
  <2>5. QED
    BY <2>1, <2>2, <2>3, <2>4, SyncKeepsTypes DEF StockTypeOK
<1>3. ASSUME NEW p \in Products, CreateLog(p) \/ CreateAborts(p)
      PROVE  StockTypeOK'
  <2>1. pLedger[p] + made[p] \in Int
    BY DEF StockTypeOK
  <2>2. pLedger' \in [Products -> Int]
    BY <1>3, <2>1 DEF CreateLog, CreateAborts, StockTypeOK, ledger
  <2>3. QED
    BY <1>3, <2>2 DEF CreateLog, CreateAborts, StockTypeOK, rows, ledger
<1>4. ASSUME NEW p \in Products, DeleteProduct(p)
      PROVE  StockTypeOK'
  BY <1>4 DEF DeleteProduct, SetStock, StockTypeOK
<1>5. ASSUME NEW p \in Products, NEW n \in Int, MoveProduct(p, n)
      PROVE  StockTypeOK'
  <2>1. pStock[p] + n \in Nat /\ pLedger[p] + n \in Int
    BY <1>5, StockBoundsAssumption DEF MoveProduct, StockTypeOK
  <2>2. QED
    BY <1>5, <2>1 DEF MoveProduct, SetStock, StockTypeOK
<1>6. ASSUME NEW v \in Variants, NEW n \in Int, MoveVariant(v, n)
      PROVE  StockTypeOK'
  <2>1. vStock[v] + n \in Nat /\ vLedger[v] + n \in Int
    BY <1>6, StockBoundsAssumption DEF MoveVariant, StockTypeOK
  <2>2. vStock' \in [Variants -> Nat] /\ vLedger' \in [Variants -> Int]
    BY <1>6, <2>1 DEF MoveVariant, StockTypeOK
  <2>3. PICK p \in Products : p = ProductOf[v]
    BY ProductOfAssumption
  <2>4. PICK stock \in [Variants -> Nat] : stock = vStock'
    BY <2>2
  <2>5. PICK A \in SUBSET Variants : A = ActiveOf(p)
    BY DEF ActiveOf, VariantsOf
  <2>6. Resync(p, A, stock)
    BY <1>6, <2>3, <2>4, <2>5 DEF MoveVariant
  <2>7. pStock' \in [Products -> Nat] /\ pAvail' \in [Products -> BOOLEAN]
    BY <2>6, RecountKeepsTypes
  <2>8. drifted' \in SUBSET Products
    BY <1>6 DEF MoveVariant, Follows, StockTypeOK
  <2>9. QED
    BY <1>6, <2>2, <2>7, <2>8 DEF MoveVariant, StockTypeOK
<1>7. ASSUME NEW o \in Orders, NEW cart \in [Items -> Nat],
             \A p \in Products : cart[p] > 0 => ProductSells(p, cart[p]),
             Reserve(o, cart) \/ RingUp(o, cart)
      PROVE  StockTypeOK'
  <2>1. Sell(o, cart) /\ \A v \in Variants : cart[v] > 0 => VariantSells(v, cart[v])
    BY <1>7 DEF Reserve, RingUp
  <2>2. UNCHANGED <<pRow, vRow, making, made, editor>>
    BY <2>1 DEF Sell
  <2>3. /\ sale' \in [Orders -> {"none", "held", "cancelled"}]
        /\ items' \in [Orders -> [Items -> Nat]]
        /\ vStock' \in [Variants -> Nat]
        /\ pLedger' \in [Products -> Int]
        /\ vLedger' \in [Variants -> Int]
    BY <2>1, SellKeepsTypes
  <2>4. ASSUME Reserve(o, cart)
        PROVE  /\ pStock' \in [Products -> Nat] /\ pAvail' \in [Products -> BOOLEAN]
               /\ drifted' \in SUBSET Products
    <3>1. /\ \A p \in Products : Units(cart, p) <= pStock[p]
          /\ pStock' = [p \in Products |-> pStock[p] - Units(cart, p)]
          /\ pAvail' = [p \in Products |->
               IF Units(cart, p) > 0 THEN pStock[p] > Units(cart, p) ELSE pAvail[p]]
          /\ drifted' = drifted
      BY <2>4 DEF Reserve
    <3>2. \A p \in Products : pStock[p] - Units(cart, p) \in Nat
      BY <3>1, CartUnits DEF StockTypeOK
    <3>3. pAvail' \in [Products -> BOOLEAN]
      <4>1. pAvail \in [Products -> BOOLEAN]
        BY DEF StockTypeOK
      <4>2. ASSUME NEW p \in Products
            PROVE  (IF Units(cart, p) > 0 THEN pStock[p] > Units(cart, p)
                                          ELSE pAvail[p]) \in BOOLEAN
        <5>1. (pStock[p] > Units(cart, p)) \in BOOLEAN
          OBVIOUS
        <5>2. pAvail[p] \in BOOLEAN
          BY <4>1
        <5>3. QED
          BY <5>1, <5>2
      <4>3. QED
        BY <3>1, <4>2
    <3>4. QED
      BY <3>1, <3>2, <3>3 DEF StockTypeOK
  <2>5. ASSUME RingUp(o, cart)
        PROVE  /\ pStock' \in [Products -> Nat] /\ pAvail' \in [Products -> BOOLEAN]
               /\ drifted' \in SUBSET Products
    <3> DEFINE byVariant == {p \in Products : Total(cart, VariantsOf(p)) > 0}
               after == [p \in Products |->
                 IF p \in byVariant THEN Total(vStock', ActiveOf(p))
                                    ELSE pStock[p] - cart[p]]
    <3>1. /\ pStock' = after
          /\ pAvail' = [p \in Products |->
               IF Units(cart, p) > 0 THEN after[p] > 0 ELSE pAvail[p]]
          /\ drifted' = drifted \ byVariant
      BY <2>5 DEF RingUp
    <3>2. ASSUME NEW p \in Products
          PROVE  Total(vStock', ActiveOf(p)) \in Nat /\ pStock[p] - cart[p] \in Nat
      <4>1. ActiveOf(p) \in SUBSET Variants /\ IsFiniteSet(ActiveOf(p))
        BY VariantsAssumption, FS_Subset DEF ActiveOf, VariantsOf
      <4>2. \A v \in ActiveOf(p) : vStock'[v] \in Nat
        BY <2>3, <4>1
      <4>3. Total(vStock', ActiveOf(p)) \in Nat
        BY <4>1, <4>2, TotalNat
      <4>4. pStock[p] - cart[p] \in Nat
        BY <1>7, CartUnits DEF ProductSells, StockTypeOK
      <4>5. QED
        BY <4>3, <4>4
    <3>3. after \in [Products -> Nat]
      BY <3>2
    <3> HIDE DEF after
    <3>4. pAvail' \in [Products -> BOOLEAN]
      <4>1. pAvail \in [Products -> BOOLEAN]
        BY DEF StockTypeOK
      <4>2. ASSUME NEW p \in Products
            PROVE  (IF Units(cart, p) > 0 THEN after[p] > 0 ELSE pAvail[p])
                     \in BOOLEAN
        <5>1. (after[p] > 0) \in BOOLEAN
          OBVIOUS
        <5>2. pAvail[p] \in BOOLEAN
          BY <4>1
        <5>3. QED
          BY <5>1, <5>2
      <4>3. QED
        BY <3>1, <4>2
    <3>5. drifted' \in SUBSET Products
      BY <3>1 DEF StockTypeOK
    <3>6. QED
      BY <3>1, <3>3, <3>4, <3>5
  <2>6. QED
    BY <1>7, <2>2, <2>3, <2>4, <2>5 DEF StockTypeOK
<1>8. ASSUME NEW o \in Orders, Restock(o)
      PROVE  StockTypeOK'
  <2>1. items[o] \in [Items -> Nat]
    BY DEF StockTypeOK
  <2>2. \A p \in Products : Units(items[o], p) \in Nat /\ items[o][p] \in Nat
    BY <2>1, CartUnits
  <2>3. \A v \in Variants : items[o][v] \in Nat
    BY <2>1 DEF Items
  <2>4. /\ pStock' = [p \in Products |-> pStock[p] + Units(items[o], p)]
        /\ pAvail' = [p \in Products |-> pAvail[p] \/ Units(items[o], p) > 0]
        /\ vStock' = [v \in Variants |-> vStock[v] + items[o][v]]
        /\ pLedger' = [p \in Products |-> pLedger[p] + items[o][p]]
        /\ vLedger' = [v \in Variants |-> vLedger[v] + items[o][v]]
        /\ sale' = [sale EXCEPT ![o] = "cancelled"]
        /\ UNCHANGED <<pRow, vRow, items, making, made, editor>>
    BY <1>8 DEF Restock
  <2>5. drifted' \in SUBSET Products
    BY <1>8 DEF Restock, StockTypeOK
  <2>6. /\ pStock' \in [Products -> Nat] /\ pAvail' \in [Products -> BOOLEAN]
        /\ pLedger' \in [Products -> Int]
    BY <2>2, <2>4 DEF StockTypeOK
  <2>7. vStock' \in [Variants -> Nat] /\ vLedger' \in [Variants -> Int]
    BY <2>3, <2>4 DEF StockTypeOK
  <2>8. QED
    BY <2>4, <2>5, <2>6, <2>7 DEF StockTypeOK
<1>9. ASSUME NEW e \in Editors, NEW p \in Products, FormLoads(e, p)
      PROVE  StockTypeOK'
  <2>1. [step |-> "loaded", product |-> p, stock |-> pStock[p]] \in FormStates
    BY DEF FormStates, StockTypeOK
  <2>2. QED
    BY <1>9, <2>1 DEF FormLoads, StockTypeOK, rows, ledger
<1>10. ASSUME NEW e \in Editors, NEW p \in Products, NEW n \in Nat,
              editor[e].product = p, editor[e].stock = n, FormSaves(e)
       PROVE  StockTypeOK'
  <2>1. [step |-> "saved", product |-> p, stock |-> n] \in FormStates
    BY DEF FormStates
  <2>2. drifted' \in SUBSET Products
    BY <1>10 DEF FormSaves, StockTypeOK
  <2>3. /\ pRow' = [pRow EXCEPT ![p] = "live"]
        /\ SetStock(p, n)
        /\ editor' = [editor EXCEPT ![e] = [step |-> "saved", product |-> p, stock |-> n]]
        /\ UNCHANGED <<vRow, vStock, ledger, items, sale, making, made>>
    BY <1>10 DEF FormSaves
  <2>4. QED
    BY <2>1, <2>2, <2>3 DEF SetStock, StockTypeOK, ledger
<1>11. ASSUME NEW e \in Editors, NEW p \in Products, NEW f \in Payloads(p),
              editor[e].product = p, FormSyncs(e, f)
       PROVE  StockTypeOK'
  <2>1. SyncVariants(p, f)
    BY <1>11 DEF FormSyncs
  <2>2. drifted' \in SUBSET Products
    BY <1>11 DEF FormSyncs, Follows, StockTypeOK
  <2>3. editor' \in [Editors -> FormStates]
    BY <1>11 DEF FormSyncs, FormStates, StockTypeOK
  <2>4. UNCHANGED <<pRow, sale, making, made>>
    BY <1>11 DEF FormSyncs
  <2>5. QED
    BY <2>1, <2>2, <2>3, <2>4, SyncKeepsTypes DEF StockTypeOK
<1>12. ASSUME NEW e \in Editors, FormEnds(e)
       PROVE  StockTypeOK'
  BY <1>12 DEF FormEnds, StockTypeOK, FormStates, rows, ledger
<1>13. CASE UNCHANGED stockVars
  BY <1>13 DEF stockVars, StockTypeOK, rows, ledger
<1>14. ASSUME NEW o \in Orders, NEW cart \in [Items -> 0..MaxQuantity],
              Reserve(o, cart) \/ RingUp(o, cart)
       PROVE  StockTypeOK'
  <2>1. \A p \in Products : cart[p] > 0 => ProductSells(p, cart[p])
    BY <1>14 DEF Reserve, RingUp
  <2>2. cart \in [Items -> Nat]
    BY CartTypes
  <2>3. QED
    BY <1>7, <1>14, <2>1, <2>2
<1>15. QED
  BY <1>1, <1>2, <1>3, <1>4, <1>5, <1>6, <1>8, <1>9, <1>10, <1>11, <1>12,
     <1>13, <1>14, StepCases
-----------------------------------------------------------------------------
\* What a variant has: its stock and what its movements add up to.
VariantsTyped ==
  /\ vStock \in [Variants -> Nat]
  /\ vLedger \in [Variants -> Int]
LinesTyped == \A o \in Orders, v \in Variants : items[o][v] \in Nat
VariantInv == VariantsTyped /\ LinesTyped /\ VariantLedgerExact

\* What a step leaves alone when it touches neither variants nor lines.
LEMMA UntouchedVariants ==
  ASSUME VariantInv, UNCHANGED <<vStock, vLedger, items>>
  PROVE  VariantInv'
  BY DEF VariantInv, VariantsTyped, LinesTyped, VariantLedgerExact

\* The product form: the stock it sends and the movement it records agree.
LEMMA SyncKeepsVariants ==
  ASSUME VariantInv, NEW p \in Products, NEW payload \in Payloads(p),
         SyncVariants(p, payload)
  PROVE  VariantInv'
<1> DEFINE own == VariantsOf(p)
           gone == {v \in own : Live(v) /\ payload[v].row = "deleted"}
           stock == [v \in own |-> payload[v].stock]
<1> own \subseteq Variants
  BY DEF VariantsOf
<1>1. /\ vStock' = [v \in Variants |-> IF v \in own THEN stock[v] ELSE vStock[v]]
      /\ vLedger' = [v \in Variants |->
           CASE v \in gone -> 0
             [] v \in own \ gone -> vLedger[v] + Recorded(vStock[v], stock[v])
             [] OTHER -> vLedger[v]]
      /\ items' = [o \in Orders |-> [x \in Items |->
           CASE x \in gone -> 0
             [] x = p -> items[o][p] + Total(items[o], gone)
             [] OTHER -> items[o][x]]]
  BY DEF SyncVariants
<1>2. \A v \in own : /\ payload[v].stock \in 0..MaxStock
                     /\ payload[v].row = "deleted" => payload[v].stock = 0
  BY DEF Payloads
<1>3. \A v \in own : stock[v] \in Nat /\ (v \in gone => stock[v] = 0)
  BY <1>2, StockBoundsAssumption
<1> HIDE DEF own, gone, stock
<1>4. ASSUME NEW v \in Variants
      PROVE  vStock'[v] \in Nat /\ vLedger'[v] = vStock'[v]
  <2>0. /\ vStock[v] \in Nat /\ vLedger[v] = vStock[v]
        /\ vStock'[v] = IF v \in own THEN stock[v] ELSE vStock[v]
        /\ vLedger'[v] = CASE v \in gone -> 0
             [] v \in own \ gone -> vLedger[v] + Recorded(vStock[v], stock[v])
             [] OTHER -> vLedger[v]
    BY <1>1 DEF VariantInv, VariantsTyped, VariantLedgerExact
  <2>1. CASE v \in gone
    BY <2>0, <2>1, <1>3 DEF gone
  <2>2. CASE v \in own \ gone
    BY <2>0, <2>2, <1>3 DEF Recorded
  <2>3. CASE v \notin own
    BY <2>0, <2>3 DEF gone
  <2>4. QED
    BY <2>1, <2>2, <2>3
<1>5. VariantsTyped' /\ VariantLedgerExact'
  BY <1>1, <1>4 DEF VariantsTyped, VariantLedgerExact
<1>6. ASSUME NEW o \in Orders, NEW v \in Variants
      PROVE  items'[o][v] \in Nat
  <2>1. v # p /\ v \in Items
    BY ProductsAreNotVariants DEF Items
  <2>2. items'[o][v] = IF v \in gone THEN 0 ELSE items[o][v]
    BY <1>1, <2>1
  <2>3. QED
    BY <2>2 DEF VariantInv, LinesTyped
<1>7. QED
  BY <1>5, <1>6 DEF VariantInv, LinesTyped

\* A sale in either channel: each line leaves the stock and the ledger.
LEMMA SellKeepsVariants ==
  ASSUME VariantInv, NEW o \in Orders, NEW cart \in [Items -> 0..MaxQuantity],
         Sell(o, cart),
         \A v \in Variants : cart[v] > 0 => VariantSells(v, cart[v])
  PROVE  VariantInv'
<1>1. \A v \in Variants : cart[v] \in Nat
  BY StockBoundsAssumption DEF Items
<1>2. ASSUME NEW v \in Variants
      PROVE  /\ vStock[v] - cart[v] \in Nat
             /\ vLedger[v] - cart[v] = vStock[v] - cart[v]
  BY <1>1 DEF VariantInv, VariantsTyped, VariantLedgerExact, VariantSells
<1>3. VariantsTyped' /\ VariantLedgerExact'
  BY <1>2 DEF Sell, VariantsTyped, VariantLedgerExact
<1>4. ASSUME NEW q \in Orders, NEW v \in Variants
      PROVE  items'[q][v] \in Nat
  <2>1. items' = [items EXCEPT ![o] = cart]
    BY DEF Sell
  <2>2. CASE items'[q] = items[q]
    BY <2>2 DEF VariantInv, LinesTyped
  <2>3. CASE items'[q] = cart
    BY <2>3, <1>1
  <2>4. QED
    BY <2>1, <2>2, <2>3
<1>5. QED
  BY <1>3, <1>4 DEF VariantInv, LinesTyped

\* A cancellation: each line returns to the stock and to the ledger.
LEMMA RestockKeepsVariants ==
  ASSUME VariantInv, NEW o \in Orders, Restock(o)
  PROVE  VariantInv'
<1>1. /\ vStock' = [v \in Variants |-> vStock[v] + items[o][v]]
      /\ vLedger' = [v \in Variants |-> vLedger[v] + items[o][v]]
      /\ items' = items
  BY DEF Restock
<1>2. QED
  BY <1>1 DEF VariantInv, VariantsTyped, LinesTyped, VariantLedgerExact

\* A manual movement of a variant.
LEMMA MoveKeepsVariants ==
  ASSUME VariantInv, NEW n \in Int, NEW v \in Variants, MoveVariant(v, n)
  PROVE  VariantInv'
<1>1. /\ vStock' = [vStock EXCEPT ![v] = @ + n]
      /\ vLedger' = [vLedger EXCEPT ![v] = @ + n]
      /\ items' = items
      /\ vStock[v] + n \in 0..MaxStock
  BY DEF MoveVariant
<1>2. vStock[v] + n \in Nat
  BY <1>1, StockBoundsAssumption DEF VariantInv, VariantsTyped
<1>3. QED
  BY <1>1, <1>2 DEF VariantInv, VariantsTyped, LinesTyped, VariantLedgerExact

\* Deleting a product empties what its variants had.
LEMMA DeleteKeepsVariants ==
  ASSUME VariantInv, NEW p \in Products, DeleteProduct(p)
  PROVE  VariantInv'
<1>1. /\ vStock' = [v \in Variants |-> IF v \in VariantsOf(p) THEN 0 ELSE vStock[v]]
      /\ vLedger' = [v \in Variants |-> IF v \in VariantsOf(p) THEN 0 ELSE vLedger[v]]
      /\ items' = [o \in Orders |-> [x \in Items |->
           IF x \in {p} \cup VariantsOf(p) THEN 0 ELSE items[o][x]]]
  BY DEF DeleteProduct
<1>2. VariantsTyped' /\ VariantLedgerExact'
  BY <1>1 DEF VariantInv, VariantsTyped, VariantLedgerExact
<1>3. LinesTyped'
  BY <1>1 DEF VariantInv, LinesTyped, Items
<1>4. QED
  BY <1>2, <1>3 DEF VariantInv

\* The variants keep their ledger, whatever step is taken.
LEMMA StepKeepsVariants ==
  ASSUME StockTypeOK, VariantLedgerExact, [StockNext]_stockVars
  PROVE  VariantLedgerExact'
<1>1. VariantInv
  BY DEF StockTypeOK, VariantInv, VariantsTyped, LinesTyped, Items
<1>2. ASSUME NEW p \in Products, NEW f \in Payloads(p), SyncVariants(p, f)
      PROVE  VariantInv'
  BY <1>1, <1>2, SyncKeepsVariants
<1>3. ASSUME NEW p \in Products, DeleteProduct(p)
      PROVE  VariantInv'
  BY <1>1, <1>3, DeleteKeepsVariants
<1>4. ASSUME NEW v \in Variants, NEW n \in Int, MoveVariant(v, n)
      PROVE  VariantInv'
  BY <1>1, <1>4, MoveKeepsVariants
<1>5. ASSUME NEW o \in Orders, NEW cart \in [Items -> 0..MaxQuantity],
             Reserve(o, cart) \/ RingUp(o, cart)
      PROVE  VariantInv'
  <2>1. Sell(o, cart)
    BY <1>5 DEF Reserve, RingUp
  <2>2. \A v \in Variants : cart[v] > 0 => VariantSells(v, cart[v])
    BY <1>5 DEF Reserve, RingUp
  <2>3. QED
    BY <1>1, <2>1, <2>2, SellKeepsVariants
<1>6. ASSUME NEW o \in Orders, Restock(o)
      PROVE  VariantInv'
  BY <1>1, <1>6, RestockKeepsVariants
<1>7. ASSUME UNCHANGED <<vStock, vLedger, items>>
      PROVE  VariantInv'
  BY <1>1, <1>7, UntouchedVariants
<1> USE DEF CreateProduct, CreateVariants, CreateLog, CreateAborts, MoveProduct,
            FormLoads, FormSaves, FormSyncs, FormEnds, stockVars, rows, ledger
<1>8. VariantInv'
  BY <1>2, <1>3, <1>4, <1>5, <1>6, <1>7, StepCases
<1>9. QED
  BY <1>8 DEF VariantInv
-----------------------------------------------------------------------------
\* What is not there yet has no stock, no ledger and no order lines.
Unmade(p) ==
  pRow[p] = "none" =>
    /\ Plain(p)
    /\ pLedger[p] = 0 /\ \A o \in Orders : items[o][p] = 0
UnmadeVariant(v) ==
  vRow[v] = "none" => vStock[v] = 0 /\ \A o \in Orders : items[o][v] = 0
NothingUnmade ==
  /\ \A p \in Products : Unmade(p)
  /\ \A v \in Variants : UnmadeVariant(v)

\* A variant that was made stays made.
LEMMA MadeStaysMade ==
  ASSUME StockTypeOK, [StockNext]_stockVars, NEW v \in Variants, vRow'[v] = "none"
  PROVE  vRow[v] = "none"
<1>1. ASSUME NEW p \in Products, NEW f \in Payloads(p), SyncVariants(p, f)
      PROVE  vRow[v] = "none"
  <2>1. vRow'[v] = IF v \in VariantsOf(p) THEN f[v].row ELSE vRow[v]
    BY <1>1 DEF SyncVariants
  <2>2. QED
    BY <2>1, PayloadTypes
<1>2. ASSUME NEW p \in Products, DeleteProduct(p)
      PROVE  vRow[v] = "none"
  BY <1>2 DEF DeleteProduct
<1>3. CASE vRow' = vRow
  BY <1>3
<1>4. QED
  BY <1>1, <1>2, <1>3, StepCases DEF CreateProduct, CreateVariants, CreateLog,
     CreateAborts, MoveProduct, MoveVariant, Reserve, RingUp, Sell, Restock,
     FormLoads, FormSaves, FormSyncs, FormEnds, stockVars, rows

\* The product form: rows it leaves unmade are left alone.
LEMMA SyncKeepsUnmade ==
  ASSUME StockTypeOK, NothingUnmade, NEW p \in Products, NEW f \in Payloads(p),
         SyncVariants(p, f), pRow[p] = "live", pRow' = pRow
  PROVE  NothingUnmade'
<1> DEFINE own == VariantsOf(p)
           gone == {v \in own : Live(v) /\ f[v].row = "deleted"}
           stock == [v \in own |-> f[v].stock]
<1>1. /\ vRow' = [v \in Variants |-> IF v \in own THEN f[v].row ELSE vRow[v]]
      /\ vStock' = [v \in Variants |-> IF v \in own THEN stock[v] ELSE vStock[v]]
      /\ pLedger' = [pLedger EXCEPT ![p] = @ + Total(vLedger, gone)]
      /\ items' = [o \in Orders |-> [x \in Items |->
           CASE x \in gone -> 0
             [] x = p -> items[o][p] + Total(items[o], gone)
             [] OTHER -> items[o][x]]]
  BY DEF SyncVariants
<1>2. \A v \in own : f[v].row = "none" => vRow[v] = "none" /\ stock[v] = 0
  BY PayloadTypes
<1>3. \A v \in gone : vRow[v] # "none"
  BY DEF Live
<1>4. own \in SUBSET Variants /\ \A v \in own : ProductOf[v] = p
  BY VariantsOfAreFinite
<1>5. gone \in SUBSET own
  OBVIOUS
<1> HIDE DEF own, gone, stock
<1>6. ASSUME NEW v \in Variants, vRow'[v] = "none"
      PROVE  vStock'[v] = 0 /\ \A o \in Orders : items'[o][v] = 0
  <2>1. vRow[v] = "none" /\ v \notin gone /\ v # p /\ v \in Items
    BY <1>1, <1>2, <1>3, <1>6, ProductsAreNotVariants DEF Items
  <2>2. vStock'[v] = 0
    BY <1>1, <1>2, <1>6, <2>1 DEF NothingUnmade, UnmadeVariant
  <2>3. \A o \in Orders : items'[o][v] = items[o][v]
    BY <1>1, <2>1
  <2>4. QED
    BY <2>1, <2>2, <2>3 DEF NothingUnmade, UnmadeVariant
<1>7. ASSUME NEW q \in Products, pRow'[q] = "none"
      PROVE  Plain(q)' /\ pLedger'[q] = 0 /\ \A o \in Orders : items'[o][q] = 0
  <2>1. q # p /\ pRow[q] = "none" /\ q \notin gone /\ q \in Items
    BY <1>4, <1>5, <1>7, ProductsAreNotVariants DEF Items
  <2>2. \A v \in VariantsOf(q) : v \notin own /\ v \in Variants
    BY <2>1, <1>4 DEF VariantsOf
  <2>3. Plain(q) /\ pLedger[q] = 0 /\ \A o \in Orders : items[o][q] = 0
    BY <2>1 DEF NothingUnmade, Unmade
  <2>4. Plain(q)'
    BY <2>2, <2>3, <1>1 DEF Plain
  <2>5. \A o \in Orders : items'[o][q] = items[o][q]
    BY <1>1, <2>1
  <2>6. pLedger'[q] = pLedger[q]
    BY <1>1, <2>1 DEF StockTypeOK
  <2>7. QED
    BY <2>3, <2>4, <2>5, <2>6
<1>8. QED
  BY <1>6, <1>7 DEF NothingUnmade, Unmade, UnmadeVariant

\* A sale takes nothing that is unmade.
LEMMA SellKeepsUnmade ==
  ASSUME StockTypeOK, NothingUnmade, NEW o \in Orders, NEW cart \in [Items -> Nat],
         Sell(o, cart),
         \A p \in Products : cart[p] > 0 => ProductSells(p, cart[p]),
         \A v \in Variants : cart[v] > 0 => VariantSells(v, cart[v])
  PROVE  NothingUnmade'
<1>1. /\ items' = [items EXCEPT ![o] = cart]
      /\ vStock' = [v \in Variants |-> vStock[v] - cart[v]]
      /\ pLedger' = [p \in Products |-> pLedger[p] - cart[p]]
      /\ UNCHANGED <<pRow, vRow>>
  BY DEF Sell
<1>2. /\ \A v \in Variants : cart[v] \in Nat
      /\ \A p \in Products : cart[p] \in Nat
  BY DEF Items
<1>3. ASSUME NEW v \in Variants, vRow'[v] = "none"
      PROVE  vStock'[v] = 0 /\ \A q \in Orders : items'[q][v] = 0
  <2>1. vRow[v] = "none" /\ cart[v] = 0
    BY <1>1, <1>2, <1>3 DEF VariantSells
  <2>2. vStock[v] = 0 /\ \A q \in Orders : items[q][v] = 0
    BY <2>1 DEF NothingUnmade, UnmadeVariant
  <2>3. QED
    BY <1>1, <2>1, <2>2 DEF StockTypeOK
<1>4. ASSUME NEW p \in Products, pRow'[p] = "none"
      PROVE  Plain(p)' /\ pLedger'[p] = 0 /\ \A q \in Orders : items'[q][p] = 0
  <2>1. pRow[p] = "none" /\ cart[p] = 0
    BY <1>1, <1>2, <1>4 DEF ProductSells
  <2>2. Plain(p) /\ pLedger[p] = 0 /\ \A q \in Orders : items[q][p] = 0
    BY <2>1 DEF NothingUnmade, Unmade
  <2>3. QED
    BY <1>1, <2>1, <2>2 DEF StockTypeOK, Plain
<1>5. QED
  BY <1>3, <1>4 DEF NothingUnmade, Unmade, UnmadeVariant

\* No step gives anything to what is not there yet.
LEMMA StepKeepsUnmade ==
  ASSUME StockTypeOK, NothingUnmade, [StockNext]_stockVars
  PROVE  NothingUnmade'
<1> USE DEF Unmade, UnmadeVariant
<1>1. ASSUME NEW p \in Products, NEW n \in 0..MaxStock, CreateProduct(p, n)
      PROVE  NothingUnmade'
  <2>1. /\ pRow' = [pRow EXCEPT ![p] = "live"]
        /\ UNCHANGED <<vRow, vStock, pLedger, items>>
    BY <1>1 DEF CreateProduct, ledger
  <2>2. QED
    BY <2>1 DEF NothingUnmade, Plain, StockTypeOK
<1>2. ASSUME NEW p \in Products, NEW f \in Payloads(p), CreateVariants(p, f)
      PROVE  NothingUnmade'
  BY <1>2, SyncKeepsUnmade DEF CreateVariants
<1>3. ASSUME NEW p \in Products, CreateLog(p)
      PROVE  NothingUnmade'
  BY <1>3 DEF CreateLog, rows, NothingUnmade, Plain, StockTypeOK
<1>4. ASSUME UNCHANGED <<rows, ledger, items>>
      PROVE  NothingUnmade'
  BY <1>4 DEF rows, ledger, NothingUnmade, Plain
<1>5. ASSUME NEW p \in Products, DeleteProduct(p)
      PROVE  NothingUnmade'
  <2>1. /\ pRow' = [pRow EXCEPT ![p] = "deleted"]
        /\ vRow' = [v \in Variants |->
             IF v \in VariantsOf(p) /\ Live(v) THEN "deleted" ELSE vRow[v]]
        /\ vStock' = [v \in Variants |-> IF v \in VariantsOf(p) THEN 0 ELSE vStock[v]]
        /\ pLedger' = [pLedger EXCEPT ![p] = 0]
        /\ items' = [o \in Orders |-> [x \in Items |->
             IF x \in {p} \cup VariantsOf(p) THEN 0 ELSE items[o][x]]]
    BY <1>5 DEF DeleteProduct
  <2>2. ASSUME NEW v \in Variants, vRow'[v] = "none"
        PROVE  vStock'[v] = 0 /\ \A o \in Orders : items'[o][v] = 0
    <3>1. vRow[v] = "none" /\ v \in Items
      BY <2>1, <2>2 DEF Items
    <3>2. QED
      BY <2>1, <3>1 DEF NothingUnmade
  <2>3. ASSUME NEW q \in Products, pRow'[q] = "none"
        PROVE  Plain(q)' /\ pLedger'[q] = 0 /\ \A o \in Orders : items'[o][q] = 0
    <3>1. pRow[q] = "none" /\ q # p /\ q \in Items
      BY <2>1, <2>3 DEF Items, StockTypeOK
    <3>2. Plain(q) /\ pLedger[q] = 0 /\ \A o \in Orders : items[o][q] = 0
      BY <3>1 DEF NothingUnmade
    <3>3. \A v \in VariantsOf(q) : v \in Variants /\ v \notin VariantsOf(p)
      BY <3>1 DEF VariantsOf
    <3>4. Plain(q)'
      BY <2>1, <3>2, <3>3 DEF Plain
    <3>5. QED
      BY <2>1, <3>1, <3>2, <3>4 DEF StockTypeOK
  <2>4. QED
    BY <2>2, <2>3 DEF NothingUnmade
<1>6. ASSUME NEW p \in Products, NEW n \in Int, MoveProduct(p, n)
      PROVE  NothingUnmade'
  BY <1>6 DEF MoveProduct, NothingUnmade, Plain, StockTypeOK
<1>7. ASSUME NEW v \in Variants, NEW n \in Int, MoveVariant(v, n)
      PROVE  NothingUnmade'
  <2>1. /\ vRow[v] # "none"
        /\ vStock' = [vStock EXCEPT ![v] = @ + n]
        /\ UNCHANGED <<pRow, vRow, pLedger, items>>
    BY <1>7 DEF MoveVariant, Live
  <2>2. QED
    BY <2>1 DEF NothingUnmade, Plain, StockTypeOK
<1>8. ASSUME NEW o \in Orders, NEW cart \in [Items -> 0..MaxQuantity],
             Reserve(o, cart) \/ RingUp(o, cart)
      PROVE  NothingUnmade'
  <2>1. cart \in [Items -> Nat]
    BY CartTypes
  <2>2. Sell(o, cart)
    BY <1>8 DEF Reserve, RingUp
  <2>3. \A p \in Products : cart[p] > 0 => ProductSells(p, cart[p])
    BY <1>8 DEF Reserve, RingUp
  <2>4. \A v \in Variants : cart[v] > 0 => VariantSells(v, cart[v])
    BY <1>8 DEF Reserve, RingUp
  <2>5. QED
    BY <2>1, <2>2, <2>3, <2>4, SellKeepsUnmade
<1>9. ASSUME NEW o \in Orders, Restock(o)
      PROVE  NothingUnmade'
  <2>1. /\ vStock' = [v \in Variants |-> vStock[v] + items[o][v]]
        /\ pLedger' = [p \in Products |-> pLedger[p] + items[o][p]]
        /\ UNCHANGED <<pRow, vRow, items>>
    BY <1>9 DEF Restock
  <2>2. QED
    BY <2>1 DEF NothingUnmade, Plain, StockTypeOK
<1>10. ASSUME NEW e \in Editors, NEW p \in Products, NEW n \in Nat,
              editor[e].product = p, FormSaves(e)
       PROVE  NothingUnmade'
  <2>1. /\ pRow' = [pRow EXCEPT ![p] = "live"]
        /\ UNCHANGED <<vRow, vStock, pLedger, items>>
    BY <1>10 DEF FormSaves, ledger
  <2>2. QED
    BY <2>1 DEF NothingUnmade, Plain, StockTypeOK
<1>11. ASSUME NEW e \in Editors, NEW p \in Products, NEW f \in Payloads(p),
              editor[e].product = p, FormSyncs(e, f)
       PROVE  NothingUnmade'
  <2>1. SyncVariants(p, f) /\ pRow[p] = "live" /\ pRow' = pRow
    BY <1>11 DEF FormSyncs
  <2>2. QED
    BY <2>1, SyncKeepsUnmade
<1> USE DEF CreateAborts, FormLoads, FormEnds, stockVars
<1>12. QED
  BY <1>1, <1>2, <1>3, <1>4, <1>5, <1>6, <1>7, <1>8, <1>9, <1>10, <1>11, StepCases
-----------------------------------------------------------------------------
\* One way to write the stock of a product, and its flag follows.
LEMMA SetStockKeepsFlag ==
  ASSUME StockTypeOK, AvailableIffStocked, NEW p \in Products, NEW n, SetStock(p, n)
  PROVE  AvailableIffStocked'
  BY DEF SetStock, AvailableIffStocked, StockTypeOK

\* A recount either writes both or none.
LEMMA RecountKeepsFlag ==
  ASSUME StockTypeOK, AvailableIffStocked, NEW p \in Products, NEW A, NEW stock,
         Resync(p, A, stock)
  PROVE  AvailableIffStocked'
<1>1. CASE A # {}
  BY <1>1, SetStockKeepsFlag DEF Resync
<1>2. CASE A = {}
  BY <1>2 DEF Resync, AvailableIffStocked
<1>3. QED
  BY <1>1, <1>2

\* Every writer of the stock writes the flag the storefront reads.
LEMMA StepKeepsFlag ==
  ASSUME StockTypeOK, AvailableIffStocked, [StockNext]_stockVars
  PROVE  AvailableIffStocked'
<1>1. ASSUME NEW p \in Products, NEW f \in Payloads(p), SyncVariants(p, f)
      PROVE  AvailableIffStocked'
  <2>1. PICK stock : Resync(p, Active(f), stock)
    BY <1>1 DEF SyncVariants
  <2>2. QED
    BY <2>1, RecountKeepsFlag
<1>2. ASSUME NEW v \in Variants, NEW n \in Int, MoveVariant(v, n)
      PROVE  AvailableIffStocked'
  <2>1. PICK p \in Products : \E stock : Resync(p, ActiveOf(p), stock)
    BY <1>2, ProductOfAssumption DEF MoveVariant
  <2>2. PICK stock : Resync(p, ActiveOf(p), stock)
    BY <2>1
  <2>3. QED
    BY <2>2, RecountKeepsFlag
<1>3. ASSUME NEW o \in Orders, NEW cart \in [Items -> 0..MaxQuantity],
             Reserve(o, cart)
      PROVE  AvailableIffStocked'
  <2>1. ASSUME NEW p \in Products
        PROVE  pAvail'[p] <=> pStock'[p] > 0
    <3>1. /\ pStock'[p] = pStock[p] - Units(cart, p)
          /\ pAvail'[p] = IF Units(cart, p) > 0 THEN pStock[p] > Units(cart, p)
                                                ELSE pAvail[p]
      BY <1>3 DEF Reserve
    <3>2. Units(cart, p) \in Nat /\ pStock[p] \in Nat
      BY CartTypes, CartUnits DEF StockTypeOK
    <3>3. pAvail[p] <=> pStock[p] > 0
      BY DEF AvailableIffStocked
    <3>4. CASE Units(cart, p) > 0
      <4>1. pAvail'[p] = (pStock[p] > Units(cart, p))
        BY <3>1, <3>4
      <4>2. pStock[p] > Units(cart, p) <=> pStock'[p] > 0
        BY <3>1, <3>2
      <4>3. QED
        BY <4>1, <4>2
    <3>5. CASE Units(cart, p) = 0
      BY <3>1, <3>2, <3>3, <3>5
    <3>6. QED
      BY <3>2, <3>4, <3>5
  <2>2. QED
    BY <2>1 DEF AvailableIffStocked
<1>4. ASSUME NEW o \in Orders, NEW cart \in [Items -> 0..MaxQuantity],
             RingUp(o, cart)
      PROVE  AvailableIffStocked'
  <2>1. ASSUME NEW p \in Products
        PROVE  pAvail'[p] <=> pStock'[p] > 0
    <3> DEFINE byVariant == {q \in Products : Total(cart, VariantsOf(q)) > 0}
               after == [q \in Products |->
                 IF q \in byVariant THEN Total(vStock', ActiveOf(q))
                                    ELSE pStock[q] - cart[q]]
    <3>1. /\ pStock' = after
          /\ pAvail' = [q \in Products |->
               IF Units(cart, q) > 0 THEN after[q] > 0 ELSE pAvail[q]]
      BY <1>4 DEF RingUp
    <3>2. /\ cart[p] \in Nat /\ Total(cart, VariantsOf(p)) \in Nat
          /\ Units(cart, p) = cart[p] + Total(cart, VariantsOf(p))
      BY CartTypes, CartUnits
    <3>3. Units(cart, p) = 0 => after[p] = pStock[p]
      BY <3>2 DEF StockTypeOK
    <3>4. pAvail[p] <=> pStock[p] > 0
      BY DEF AvailableIffStocked
    <3> HIDE DEF after
    <3>5. CASE Units(cart, p) > 0
      BY <3>1, <3>5
    <3>6. CASE Units(cart, p) = 0
      <4>1. pAvail'[p] = pAvail[p] /\ pStock'[p] = pStock[p]
        BY <3>1, <3>3, <3>6
      <4>2. QED
        BY <3>4, <4>1
    <3>7. QED
      BY <3>2, <3>5, <3>6
  <2>2. QED
    BY <2>1 DEF AvailableIffStocked
<1>5. ASSUME NEW o \in Orders, Restock(o)
      PROVE  AvailableIffStocked'
  <2>1. ASSUME NEW p \in Products
        PROVE  pAvail'[p] <=> pStock'[p] > 0
    <3>1. /\ pStock'[p] = pStock[p] + Units(items[o], p)
          /\ pAvail'[p] = (pAvail[p] \/ Units(items[o], p) > 0)
      BY <1>5 DEF Restock
    <3>2. Units(items[o], p) \in Nat /\ pStock[p] \in Nat
      BY CartUnits DEF StockTypeOK
    <3>3. pAvail[p] <=> pStock[p] > 0
      BY DEF AvailableIffStocked
    <3>4. pStock'[p] > 0 <=> pStock[p] > 0 \/ Units(items[o], p) > 0
      BY <3>1, <3>2
    <3>5. QED
      BY <3>1, <3>3, <3>4
  <2>2. QED
    BY <2>1 DEF AvailableIffStocked
<1>6. ASSUME UNCHANGED <<pStock, pAvail>>
      PROVE  AvailableIffStocked'
  BY <1>6 DEF AvailableIffStocked
<1>7. ASSUME NEW p \in Products, NEW n, SetStock(p, n)
      PROVE  AvailableIffStocked'
  BY <1>7, SetStockKeepsFlag
<1> USE DEF CreateProduct, CreateVariants, CreateLog, CreateAborts, DeleteProduct,
            MoveProduct, FormLoads, FormSaves, FormSyncs, FormEnds, stockVars, rows
<1>8. QED
  BY <1>1, <1>2, <1>3, <1>4, <1>5, <1>6, <1>7, StepCases
-----------------------------------------------------------------------------
\* The variants a product sells.
LEMMA ActiveOfAreFinite ==
  ASSUME NEW p \in Products
  PROVE  /\ ActiveOf(p) \in SUBSET VariantsOf(p)
         /\ ActiveOf(p) \in SUBSET Variants
         /\ IsFiniteSet(ActiveOf(p))
<1>1. ActiveOf(p) \in SUBSET VariantsOf(p)
  BY DEF ActiveOf
<1>2. QED
  BY <1>1, VariantsOfAreFinite, FS_Subset

\* One product follows the sum of its active variants, if it has any.
Follow(p) ==
  ActiveOf(p) # {} /\ p \notin drifted => pStock[p] = Total(vStock, ActiveOf(p))

\* What a step leaves alone of a product.
LEMMA UntouchedFollows ==
  ASSUME StockTypeOK, NEW p \in Products, Follow(p), pStock'[p] = pStock[p],
         \A v \in VariantsOf(p) : vRow'[v] = vRow[v] /\ vStock'[v] = vStock[v],
         p \notin drifted' => p \notin drifted
  PROVE  Follow(p)'
<1>1. ActiveOf(p)' = ActiveOf(p)
  BY DEF ActiveOf, VariantsOf
<1>2. Total(vStock', ActiveOf(p)) = Total(vStock, ActiveOf(p))
  <2>1. \A v \in ActiveOf(p) : vStock'[v] = vStock[v]
    BY DEF ActiveOf
  <2>2. PICK now : now = vStock'
    OBVIOUS
  <2>3. Total(now, ActiveOf(p)) = Total(vStock, ActiveOf(p))
    BY <2>1, <2>2, ActiveOfAreFinite, TotalSame
  <2>4. QED
    BY <2>2, <2>3
<1>3. QED
  BY <1>1, <1>2 DEF Follow

\* The product form: the product takes the sum of the rows it now has.
LEMMA SyncKeepsSums ==
  ASSUME StockTypeOK, AggregateInSync, NEW p \in Products, NEW f \in Payloads(p),
         SyncVariants(p, f),
         \A q \in Products : q # p /\ q \notin drifted' => q \notin drifted
  PROVE  AggregateInSync'
<1> DEFINE own == VariantsOf(p)
           stock == [v \in own |-> f[v].stock]
<1>1. /\ vRow' = [v \in Variants |-> IF v \in own THEN f[v].row ELSE vRow[v]]
      /\ vStock' = [v \in Variants |-> IF v \in own THEN stock[v] ELSE vStock[v]]
      /\ Resync(p, Active(f), stock)
  BY DEF SyncVariants
<1>2. own \in SUBSET Variants /\ IsFiniteSet(own) /\ DOMAIN f = own
  BY VariantsOfAreFinite, PayloadTypes
<1> HIDE DEF own, stock
<1>3. Active(f) = ActiveOf(p)'
  <2>1. ActiveOf(p)' = {v \in own : vRow'[v] = "active"}
    BY DEF ActiveOf, VariantsOf, own
  <2>2. \A v \in own : vRow'[v] = f[v].row
    BY <1>1, <1>2
  <2>3. QED
    BY <1>2, <2>1, <2>2 DEF Active
<1>4. Total(stock, Active(f)) = Total(vStock', Active(f))
  <2>1. Active(f) \in SUBSET own /\ IsFiniteSet(Active(f))
    BY <1>2, FS_Subset DEF Active
  <2>2. \A v \in Active(f) : stock[v] = vStock'[v]
    BY <1>1, <1>2, <2>1
  <2>3. PICK now : now = vStock'
    OBVIOUS
  <2>4. PICK sent : sent = stock
    OBVIOUS
  <2>5. Total(sent, Active(f)) = Total(now, Active(f))
    BY <2>1, <2>2, <2>3, <2>4, TotalSame
  <2>6. QED
    BY <2>3, <2>4, <2>5
<1>5. Follow(p)'
  <2>1. Active(f) # {} => pStock'[p] = Total(stock, Active(f))
    BY <1>1 DEF Resync, SetStock, StockTypeOK
  <2>2. QED
    BY <1>3, <1>4, <2>1 DEF Follow
<1>6. ASSUME NEW q \in Products, q # p
      PROVE  Follow(q)'
  <2>1. \A v \in VariantsOf(q) : v \in Variants /\ v \notin own
    BY <1>6 DEF VariantsOf, own
  <2>2. \A v \in VariantsOf(q) : vRow'[v] = vRow[v] /\ vStock'[v] = vStock[v]
    BY <1>1, <2>1
  <2>3. pStock'[q] = pStock[q]
    BY <1>1, <1>6 DEF Resync, SetStock, StockTypeOK
  <2>4. Follow(q)
    BY DEF AggregateInSync, Follow
  <2>5. q \notin drifted' => q \notin drifted
    BY <1>6
  <2>6. QED
    BY <2>2, <2>3, <2>4, <2>5, UntouchedFollows
<1>7. QED
  BY <1>5, <1>6 DEF AggregateInSync, Follow

\* A manual movement of a variant recounts its product.
LEMMA MoveKeepsSums ==
  ASSUME StockTypeOK, AggregateInSync, NEW v \in Variants, NEW n \in Int,
         MoveVariant(v, n)
  PROVE  AggregateInSync'
<1>1. PICK p \in Products : p = ProductOf[v]
  BY ProductOfAssumption
<1>2. /\ vStock' = [vStock EXCEPT ![v] = @ + n]
      /\ Resync(p, ActiveOf(p), vStock')
      /\ drifted' = Follows(p, ActiveOf(p))
      /\ UNCHANGED <<pRow, vRow>>
  BY <1>1 DEF MoveVariant
<1>3. Follow(p)'
  <2>1. ActiveOf(p)' = ActiveOf(p)
    BY <1>2 DEF ActiveOf, VariantsOf
  <2>2. ActiveOf(p) # {} => pStock'[p] = Total(vStock', ActiveOf(p))
    BY <1>2 DEF Resync, SetStock, StockTypeOK
  <2>3. QED
    BY <2>1, <2>2 DEF Follow
<1>4. ASSUME NEW q \in Products, q # p
      PROVE  Follow(q)'
  <2>1. \A w \in VariantsOf(q) : vRow'[w] = vRow[w] /\ vStock'[w] = vStock[w]
    BY <1>1, <1>2, <1>4 DEF VariantsOf, StockTypeOK
  <2>2. pStock'[q] = pStock[q]
    BY <1>2, <1>4 DEF Resync, SetStock, StockTypeOK
  <2>3. q \notin drifted' => q \notin drifted
    BY <1>2, <1>4 DEF Follows
  <2>4. Follow(q)
    BY DEF AggregateInSync, Follow
  <2>5. QED
    BY <2>1, <2>2, <2>3, <2>4, UntouchedFollows
<1>5. QED
  BY <1>3, <1>4 DEF AggregateInSync, Follow

\* What a cart takes of a product sold by variant is what it takes of the
\* active ones.
LEMMA CartTakesActive ==
  ASSUME NEW cart \in [Items -> Nat], NEW p \in Products, ActiveOf(p) # {},
         cart[p] > 0 => ProductSells(p, cart[p]),
         \A v \in Variants : cart[v] > 0 => VariantSells(v, cart[v])
  PROVE  cart[p] = 0 /\ Units(cart, p) = Total(cart, ActiveOf(p))
<1>1. cart[p] = 0
  BY CartUnits DEF ProductSells
<1>2. /\ \A v \in VariantsOf(p) : cart[v] \in Int
      /\ \A v \in VariantsOf(p) \ ActiveOf(p) : cart[v] = 0
  <2>1. \A v \in VariantsOf(p) : cart[v] \in Nat
    BY CartUnits
  <2>2. \A v \in VariantsOf(p) \ ActiveOf(p) : ~ (cart[v] > 0)
    BY DEF VariantSells, ActiveOf, VariantsOf
  <2>3. QED
    BY <2>1, <2>2
<1>3. Total(cart, VariantsOf(p)) = Total(cart, ActiveOf(p))
  BY <1>2, VariantsOfAreFinite, ActiveOfAreFinite, TotalOfPart
<1>4. QED
  BY <1>1, <1>3, CartUnits

\* The storefront checkout takes the units of a cart from both sides.
LEMMA ReserveKeepsSums ==
  ASSUME StockTypeOK, AggregateInSync, NEW o \in Orders,
         NEW cart \in [Items -> Nat], Reserve(o, cart)
  PROVE  AggregateInSync'
<1>1. /\ vStock' = [v \in Variants |-> vStock[v] - cart[v]]
      /\ pStock' = [p \in Products |-> pStock[p] - Units(cart, p)]
      /\ UNCHANGED <<vRow, drifted>>
  BY DEF Reserve, Sell
<1>2. ASSUME NEW p \in Products
      PROVE  Follow(p)'
  <2>1. SUFFICES ASSUME ActiveOf(p) # {}, p \notin drifted
        PROVE  pStock'[p] = Total(vStock', ActiveOf(p))
    <3>1. ActiveOf(p)' = ActiveOf(p)
      BY <1>1 DEF ActiveOf, VariantsOf
    <3>2. QED
      BY <1>1, <2>1, <3>1 DEF Follow
  <2>2. pStock[p] = Total(vStock, ActiveOf(p))
    BY <2>1 DEF AggregateInSync
  <2>3. Units(cart, p) = Total(cart, ActiveOf(p))
    BY <2>1, CartTakesActive DEF Reserve
  <2>4. PICK now : now = vStock'
    OBVIOUS
  <2>5. \A v \in ActiveOf(p) :
          now[v] \in Int /\ cart[v] \in Int /\ vStock[v] = now[v] + cart[v]
    BY <1>1, <2>4, ActiveOfAreFinite, CartUnits DEF StockTypeOK
  <2>6. Total(vStock, ActiveOf(p)) = Total(now, ActiveOf(p)) + Total(cart, ActiveOf(p))
    BY <2>5, ActiveOfAreFinite, TotalAdds
  <2>7. Total(now, ActiveOf(p)) \in Int /\ Total(cart, ActiveOf(p)) \in Int
    BY <2>5, ActiveOfAreFinite, TotalInt
  <2>8. pStock'[p] = pStock[p] - Units(cart, p)
    BY <1>1
  <2>9. pStock'[p] = Total(now, ActiveOf(p))
    BY <2>2, <2>3, <2>6, <2>7, <2>8
  <2>10. QED
    BY <2>4, <2>9
<1>3. QED
  BY <1>2 DEF AggregateInSync, Follow

\* The PDV recounts the products it sells by variant, and only those.
LEMMA RingUpKeepsSums ==
  ASSUME StockTypeOK, AggregateInSync, NEW o \in Orders,
         NEW cart \in [Items -> Nat], RingUp(o, cart)
  PROVE  AggregateInSync'
<1> DEFINE byVariant == {p \in Products : Total(cart, VariantsOf(p)) > 0}
<1>1. /\ vStock' = [v \in Variants |-> vStock[v] - cart[v]]
      /\ pStock' = [p \in Products |->
           IF p \in byVariant THEN Total(vStock', ActiveOf(p))
                              ELSE pStock[p] - cart[p]]
      /\ drifted' = drifted \ byVariant
      /\ vRow' = vRow
  BY DEF RingUp, Sell
<1>2. ASSUME NEW p \in Products
      PROVE  Follow(p)'
  <2>1. ActiveOf(p)' = ActiveOf(p)
    BY <1>1 DEF ActiveOf, VariantsOf
  <2>2. CASE p \in byVariant
    BY <1>1, <2>1, <2>2 DEF Follow
  <2>3. CASE p \notin byVariant /\ ActiveOf(p) # {}
    <3>1. cart[p] = 0
      BY <2>3, CartTakesActive DEF RingUp
    <3>2. \A v \in VariantsOf(p) : cart[v] = 0
      BY <2>3, CartUnits, VariantsOfAreFinite, TotalPositive
    <3>3. \A v \in VariantsOf(p) : vRow'[v] = vRow[v] /\ vStock'[v] = vStock[v]
      BY <1>1, <3>2 DEF VariantsOf, StockTypeOK
    <3>4. pStock'[p] = pStock[p]
      BY <1>1, <2>3, <3>1 DEF StockTypeOK
    <3>5. p \notin drifted' => p \notin drifted
      BY <1>1, <2>3
    <3>6. Follow(p)
      BY DEF AggregateInSync, Follow
    <3>7. QED
      BY <3>3, <3>4, <3>5, <3>6, UntouchedFollows
  <2>4. CASE ActiveOf(p) = {}
    BY <2>1, <2>4 DEF Follow
  <2>5. QED
    BY <2>2, <2>3, <2>4
<1>3. QED
  BY <1>2 DEF AggregateInSync, Follow

\* A cancellation returns units to a product and to its variants: when all
\* that return are on sale, both sides grow by as much.
LEMMA RestockKeepsSums ==
  ASSUME StockTypeOK, AggregateInSync, NEW o \in Orders, Restock(o)
  PROVE  AggregateInSync'
<1> DEFINE unsold(p) ==
      {x \in {p} \cup VariantsOf(p) : items[o][x] > 0} \ ActiveOf(p)
<1>1. /\ vStock' = [v \in Variants |-> vStock[v] + items[o][v]]
      /\ pStock' = [p \in Products |-> pStock[p] + Units(items[o], p)]
      /\ drifted' = drifted \cup
           {p \in Products : ActiveOf(p) # {} /\ unsold(p) # {}}
      /\ vRow' = vRow
  BY DEF Restock
<1>2. PICK cart \in [Items -> Nat] : cart = items[o]
  BY DEF StockTypeOK
<1>3. ASSUME NEW p \in Products
      PROVE  Follow(p)'
  <2>1. SUFFICES ASSUME ActiveOf(p) # {}, p \notin drifted, unsold(p) = {}
        PROVE  pStock'[p] = Total(vStock', ActiveOf(p))
    <3>1. ActiveOf(p)' = ActiveOf(p)
      BY <1>1 DEF ActiveOf, VariantsOf
    <3>2. p \notin drifted' => p \notin drifted /\ (ActiveOf(p) # {} => unsold(p) = {})
      BY <1>1
    <3> HIDE DEF unsold
    <3>3. QED
      BY <2>1, <3>1, <3>2 DEF Follow
  <2>2. pStock[p] = Total(vStock, ActiveOf(p))
    BY <2>1 DEF AggregateInSync
  <2>3. Units(cart, p) = Total(cart, ActiveOf(p))
    <3>1. /\ \A v \in VariantsOf(p) : cart[v] \in Nat
          /\ cart[p] \in Nat /\ Units(cart, p) = cart[p] + Total(cart, VariantsOf(p))
      BY CartUnits
    <3>2. \A x \in {p} \cup VariantsOf(p) : x \notin ActiveOf(p) => ~ (cart[x] > 0)
      BY <1>2, <2>1
    <3>3. p \notin ActiveOf(p)
      BY ProductsAreNotVariants DEF ActiveOf, VariantsOf
    <3>4. cart[p] = 0 /\ \A v \in VariantsOf(p) \ ActiveOf(p) : cart[v] = 0
      BY <3>1, <3>2, <3>3
    <3>5. Total(cart, VariantsOf(p)) = Total(cart, ActiveOf(p))
      BY <3>1, <3>4, VariantsOfAreFinite, ActiveOfAreFinite, TotalOfPart
    <3>6. Total(cart, VariantsOf(p)) \in Nat
      BY CartUnits
    <3>7. QED
      BY <3>1, <3>4, <3>5, <3>6
  <2>4. PICK now : now = vStock'
    OBVIOUS
  <2>5. \A v \in ActiveOf(p) :
          vStock[v] \in Int /\ cart[v] \in Int /\ now[v] = vStock[v] + cart[v]
    BY <1>1, <1>2, <2>4, ActiveOfAreFinite, CartUnits DEF StockTypeOK
  <2>6. Total(now, ActiveOf(p)) = Total(vStock, ActiveOf(p)) + Total(cart, ActiveOf(p))
    BY <2>5, ActiveOfAreFinite, TotalAdds
  <2>7. pStock'[p] = pStock[p] + Units(cart, p)
    BY <1>1, <1>2
  <2>8. QED
    BY <2>2, <2>3, <2>4, <2>6, <2>7
<1>4. QED
  BY <1>3 DEF AggregateInSync, Follow

\* Whatever step is taken, a product keeps the sum of what it sells.
LEMMA StepKeepsSums ==
  ASSUME StockTypeOK, NothingUnmade, AggregateInSync, [StockNext]_stockVars
  PROVE  AggregateInSync'
<1>1. ASSUME NEW p \in Products, NEW n \in 0..MaxStock, CreateProduct(p, n)
      PROVE  AggregateInSync'
  <2>1. pRow[p] = "none" /\ SetStock(p, n) /\ UNCHANGED <<vRow, vStock, drifted>>
    BY <1>1 DEF CreateProduct
  <2>2. ActiveOf(p) = {}
    BY <2>1 DEF NothingUnmade, Unmade, Plain, ActiveOf
  <2>3. \A q \in Products : ActiveOf(q)' = ActiveOf(q)
    BY <2>1 DEF ActiveOf, VariantsOf
  <2>4. \A q \in Products : q # p => pStock'[q] = pStock[q]
    BY <2>1 DEF SetStock, StockTypeOK
  <2>5. QED
    BY <2>1, <2>2, <2>3, <2>4 DEF AggregateInSync
<1>2. ASSUME NEW p \in Products, NEW f \in Payloads(p), CreateVariants(p, f)
      PROVE  AggregateInSync'
  <2>1. SyncVariants(p, f)
    BY <1>2 DEF CreateVariants
  <2>2. \A q \in Products : q # p /\ q \notin drifted' => q \notin drifted
    BY <1>2 DEF CreateVariants, Follows
  <2>3. QED
    BY <2>1, <2>2, SyncKeepsSums
<1>3. ASSUME UNCHANGED <<rows, drifted>>
      PROVE  AggregateInSync'
  BY <1>3 DEF rows, AggregateInSync, ActiveOf, VariantsOf
<1>4. ASSUME NEW p \in Products, DeleteProduct(p)
      PROVE  AggregateInSync'
  <2>1. /\ pStock' = [pStock EXCEPT ![p] = 0]
        /\ vRow' = [v \in Variants |->
             IF v \in VariantsOf(p) /\ Live(v) THEN "deleted" ELSE vRow[v]]
        /\ vStock' = [v \in Variants |-> IF v \in VariantsOf(p) THEN 0 ELSE vStock[v]]
        /\ drifted' = drifted \ {p}
    BY <1>4 DEF DeleteProduct, SetStock
  <2>2. Follow(p)'
    <3>1. \A v \in VariantsOf(p) : v \in Variants /\ vRow'[v] # "active"
      BY <2>1 DEF VariantsOf, Live
    <3>2. ActiveOf(p)' = {}
      BY <3>1 DEF ActiveOf, VariantsOf
    <3>3. QED
      BY <3>2 DEF Follow
  <2>3. ASSUME NEW q \in Products, q # p
        PROVE  Follow(q)'
    <3>1. \A v \in VariantsOf(q) : v \in Variants /\ v \notin VariantsOf(p)
      BY <2>3 DEF VariantsOf
    <3>2. \A v \in VariantsOf(q) : vRow'[v] = vRow[v] /\ vStock'[v] = vStock[v]
      BY <2>1, <3>1
    <3>3. pStock'[q] = pStock[q] /\ (q \notin drifted' => q \notin drifted)
      BY <2>1, <2>3 DEF StockTypeOK
    <3>4. Follow(q)
      BY DEF AggregateInSync, Follow
    <3>5. QED
      BY <3>2, <3>3, <3>4, UntouchedFollows
  <2>4. QED
    BY <2>2, <2>3 DEF AggregateInSync, Follow
<1>5. ASSUME NEW p \in Products, NEW n \in Int, MoveProduct(p, n)
      PROVE  AggregateInSync'
  <2>1. /\ ActiveOf(p) = {}
        /\ pStock' = [pStock EXCEPT ![p] = pStock[p] + n]
        /\ UNCHANGED <<vRow, vStock, drifted>>
    BY <1>5 DEF MoveProduct, SetStock
  <2>2. \A q \in Products : ActiveOf(q)' = ActiveOf(q)
    BY <2>1 DEF ActiveOf, VariantsOf
  <2>3. \A q \in Products : q # p => pStock'[q] = pStock[q]
    BY <2>1 DEF StockTypeOK
  <2>4. QED
    BY <2>1, <2>2, <2>3 DEF AggregateInSync
<1>6. ASSUME NEW o \in Orders, NEW cart \in [Items -> 0..MaxQuantity],
             Reserve(o, cart) \/ RingUp(o, cart)
      PROVE  AggregateInSync'
  BY <1>6, CartTypes, ReserveKeepsSums, RingUpKeepsSums
<1>7. ASSUME NEW e \in Editors, NEW p \in Products, NEW n \in Nat,
             editor[e].product = p, editor[e].stock = n, FormSaves(e)
      PROVE  AggregateInSync'
  <2>1. /\ pStock' = [pStock EXCEPT ![p] = n]
        /\ drifted' = IF pRow[p] = "live" /\ n = pStock[p]
                        THEN drifted ELSE drifted \cup {p}
        /\ UNCHANGED <<vRow, vStock>>
    BY <1>7 DEF FormSaves, SetStock
  <2>2. \A q \in Products : q \notin drifted' => q \notin drifted
    BY <2>1
  <2>3. \A q \in Products : q \notin drifted' => pStock'[q] = pStock[q]
    BY <2>1 DEF StockTypeOK
  <2>4. \A q \in Products : ActiveOf(q)' = ActiveOf(q)
    BY <2>1 DEF ActiveOf, VariantsOf
  <2>5. QED
    BY <2>1, <2>2, <2>3, <2>4 DEF AggregateInSync
<1>8. ASSUME NEW e \in Editors, NEW p \in Products, NEW f \in Payloads(p),
             editor[e].product = p, FormSyncs(e, f)
      PROVE  AggregateInSync'
  <2>1. SyncVariants(p, f)
    BY <1>8 DEF FormSyncs
  <2>2. \A q \in Products : q # p /\ q \notin drifted' => q \notin drifted
    BY <1>8 DEF FormSyncs, Follows
  <2>3. QED
    BY <2>1, <2>2, SyncKeepsSums
<1> USE DEF CreateLog, CreateAborts, FormLoads, FormEnds, stockVars
<1>9. QED
  BY <1>1, <1>2, <1>3, <1>4, <1>5, <1>6, <1>7, <1>8, StepCases, MoveKeepsSums,
     RestockKeepsSums
-----------------------------------------------------------------------------
\* While a product is being created, what its creator remembers is missing
\* from its ledger.
Explained(p) ==
  pRow[p] = "live" /\ Plain(p) /\ p \notin drifted =>
    /\ making[p] \in {"saved", "synced"} => pStock[p] = pLedger[p] + made[p]
    /\ making[p] = "done" => pStock[p] = pLedger[p]
AllExplained == \A p \in Products : Explained(p)

\* A product that is plain after a step was plain before it.
LEMMA PlainWasPlain ==
  ASSUME StockTypeOK, [StockNext]_stockVars, NEW p \in Products, Plain(p)'
  PROVE  Plain(p)
<1>1. \A v \in VariantsOf(p) : v \in Variants /\ vRow'[v] = "none"
  BY DEF Plain, VariantsOf
<1>2. QED
  BY <1>1, MadeStaysMade DEF Plain

\* A step that leaves the sides of the equation alone.
LEMMA UntouchedExplained ==
  ASSUME StockTypeOK, [StockNext]_stockVars, NEW p \in Products, Explained(p),
         pStock'[p] = pStock[p], pLedger'[p] = pLedger[p], made'[p] = made[p],
         making'[p] = making[p], pRow'[p] = pRow[p],
         p \notin drifted' => p \notin drifted
  PROVE  Explained(p)'
  BY PlainWasPlain DEF Explained

\* The product form on a product that stays without variants changes nothing.
LEMMA SyncOfPlain ==
  ASSUME StockTypeOK, NEW p \in Products, NEW f \in Payloads(p), SyncVariants(p, f),
         Plain(p)'
  PROVE  /\ Active(f) = {}
         /\ pStock' = pStock /\ pLedger'[p] = pLedger[p]
<1> DEFINE own == VariantsOf(p)
           gone == {v \in own : Live(v) /\ f[v].row = "deleted"}
           stock == [v \in own |-> f[v].stock]
<1>1. /\ vRow' = [v \in Variants |-> IF v \in own THEN f[v].row ELSE vRow[v]]
      /\ pLedger' = [pLedger EXCEPT ![p] = @ + Total(vLedger, gone)]
      /\ Resync(p, Active(f), stock)
  BY DEF SyncVariants
<1>2. \A v \in own : v \in Variants /\ f[v].row = "none"
  BY <1>1 DEF Plain, VariantsOf
<1>3. Active(f) = {} /\ gone = {}
  BY <1>2, PayloadTypes DEF Active
<1> HIDE DEF gone, stock
<1>4. Total(vLedger, gone) = 0
  <2>1. Total(vLedger, {}) = 0
    BY TotalEmpty
  <2>2. QED
    BY <1>3, <2>1, Zenon
<1>5. pLedger'[p] = pLedger[p]
  BY <1>1, <1>4 DEF StockTypeOK
<1>6. pStock' = pStock
  BY <1>1, <1>3 DEF Resync
<1>7. QED
  BY <1>3, <1>5, <1>6

\* The product form writes the stock and the ledger of its product only.
LEMMA SyncOfOthers ==
  ASSUME StockTypeOK, NEW p \in Products, NEW f \in Payloads(p), SyncVariants(p, f),
         NEW q \in Products, q # p
  PROVE  pStock'[q] = pStock[q] /\ pLedger'[q] = pLedger[q]
<1>1. pLedger'[q] = pLedger[q]
  BY DEF SyncVariants, StockTypeOK
<1>2. PICK stock : Resync(p, Active(f), stock)
  BY DEF SyncVariants
<1>3. QED
  BY <1>1, <1>2 DEF Resync, SetStock, StockTypeOK

\* Both channels and a cancellation move a product without variants by its
\* own lines.
LEMMA PlainUnits ==
  ASSUME NEW cart \in [Items -> Nat], NEW p \in Products,
         \A v \in VariantsOf(p) : cart[v] = 0
  PROVE  Units(cart, p) = cart[p] /\ ~ (Total(cart, VariantsOf(p)) > 0)
<1>1. Total(cart, VariantsOf(p)) = 0
  BY CartUnits, VariantsOfAreFinite, TotalPositive
<1>2. QED
  BY <1>1, CartUnits

\* A sale in either channel.
LEMMA SaleKeepsExplained ==
  ASSUME StockTypeOK, [StockNext]_stockVars, AllExplained, NEW o \in Orders,
         NEW cart \in [Items -> Nat], Reserve(o, cart) \/ RingUp(o, cart)
  PROVE  AllExplained'
<1>1. /\ Sell(o, cart)
      /\ \A v \in Variants : cart[v] > 0 => VariantSells(v, cart[v])
  BY DEF Reserve, RingUp
<1>2. /\ pLedger' = [p \in Products |-> pLedger[p] - cart[p]]
      /\ UNCHANGED <<pRow, vRow, making, made>>
  BY <1>1 DEF Sell
<1>3. ASSUME NEW p \in Products, Plain(p)
      PROVE  /\ pStock'[p] = pStock[p] - cart[p]
             /\ p \notin drifted' => p \notin drifted
  <2>1. \A v \in VariantsOf(p) : v \in Variants /\ vRow[v] # "active"
    BY <1>3 DEF Plain, VariantsOf
  <2>2. \A v \in VariantsOf(p) : cart[v] \in Nat /\ ~ (cart[v] > 0)
    BY <1>1, <2>1, CartUnits DEF VariantSells
  <2>3. Units(cart, p) = cart[p] /\ ~ (Total(cart, VariantsOf(p)) > 0)
    BY <2>2, PlainUnits
  <2>4. CASE Reserve(o, cart)
    BY <2>3, <2>4 DEF Reserve
  <2>5. CASE RingUp(o, cart)
    BY <2>3, <2>5 DEF RingUp
  <2>6. QED
    BY <2>4, <2>5
<1>4. ASSUME NEW p \in Products
      PROVE  Explained(p)'
  <2>1. SUFFICES ASSUME pRow[p] = "live", Plain(p), p \notin drifted'
        PROVE  /\ making[p] \in {"saved", "synced"} =>
                    pStock'[p] = pLedger'[p] + made[p]
               /\ making[p] = "done" => pStock'[p] = pLedger'[p]
    BY <1>2, PlainWasPlain DEF Explained
  <2>2. p \notin drifted /\ pStock'[p] = pStock[p] - cart[p]
    BY <1>3, <2>1
  <2>3. pLedger'[p] = pLedger[p] - cart[p]
    BY <1>2
  <2>4. Explained(p)
    BY DEF AllExplained
  <2>5. /\ pStock[p] \in Int /\ pLedger[p] \in Int /\ made[p] \in Int
        /\ cart[p] \in Int
    BY CartUnits DEF StockTypeOK
  <2>6. QED
    BY <2>1, <2>2, <2>3, <2>4, <2>5 DEF Explained
<1>5. QED
  BY <1>4 DEF AllExplained

\* A cancellation.
LEMMA RestockKeepsExplained ==
  ASSUME StockTypeOK, NothingUnmade, [StockNext]_stockVars, AllExplained,
         NEW o \in Orders, Restock(o)
  PROVE  AllExplained'
<1>1. /\ pStock' = [p \in Products |-> pStock[p] + Units(items[o], p)]
      /\ pLedger' = [p \in Products |-> pLedger[p] + items[o][p]]
      /\ drifted \subseteq drifted'
      /\ UNCHANGED <<pRow, vRow, making, made>>
  BY DEF Restock
<1>2. PICK cart \in [Items -> Nat] : cart = items[o]
  BY DEF StockTypeOK
<1>3. ASSUME NEW p \in Products
      PROVE  Explained(p)'
  <2>1. SUFFICES ASSUME pRow[p] = "live", Plain(p), p \notin drifted
        PROVE  /\ making[p] \in {"saved", "synced"} =>
                    pStock'[p] = pLedger'[p] + made[p]
               /\ making[p] = "done" => pStock'[p] = pLedger'[p]
    BY <1>1, PlainWasPlain DEF Explained
  <2>2. \A v \in VariantsOf(p) : cart[v] = 0
    BY <1>2, <2>1 DEF Plain, VariantsOf, NothingUnmade, UnmadeVariant
  <2>3. Units(cart, p) = cart[p]
    BY <2>2, PlainUnits
  <2>4. pStock'[p] = pStock[p] + cart[p] /\ pLedger'[p] = pLedger[p] + cart[p]
    BY <1>1, <1>2, <2>3
  <2>5. Explained(p)
    BY DEF AllExplained
  <2>6. /\ pStock[p] \in Int /\ pLedger[p] \in Int /\ made[p] \in Int
        /\ cart[p] \in Int
    BY CartUnits DEF StockTypeOK
  <2>7. QED
    BY <2>1, <2>4, <2>5, <2>6 DEF Explained
<1>4. QED
  BY <1>3 DEF AllExplained

\* Whatever step is taken, the ledger keeps explaining the stock.
LEMMA StepKeepsExplained ==
  ASSUME StockTypeOK, NothingUnmade, AllExplained, [StockNext]_stockVars
  PROVE  AllExplained'
<1>1. ASSUME NEW p \in Products, NEW n \in 0..MaxStock, CreateProduct(p, n)
      PROVE  AllExplained'
  <2>1. /\ pRow[p] = "none" /\ pLedger' = pLedger /\ drifted' = drifted
        /\ pRow' = [pRow EXCEPT ![p] = "live"]
        /\ pStock' = [pStock EXCEPT ![p] = n]
        /\ making' = [making EXCEPT ![p] = "saved"]
        /\ made' = [made EXCEPT ![p] = n]
    BY <1>1 DEF CreateProduct, SetStock, ledger
  <2>2. Explained(p)'
    <3>1. pLedger[p] = 0 /\ n \in Int
      BY <2>1, StockBoundsAssumption DEF NothingUnmade, Unmade
    <3>2. pStock'[p] = pLedger'[p] + made'[p] /\ making'[p] = "saved"
      BY <2>1, <3>1 DEF StockTypeOK
    <3>3. QED
      BY <3>2 DEF Explained
  <2>3. ASSUME NEW q \in Products, q # p
        PROVE  Explained(q)'
    <3>1. Explained(q)
      BY DEF AllExplained
    <3>2. QED
      BY <2>1, <2>3, <3>1, UntouchedExplained DEF StockTypeOK
  <2>4. QED
    BY <2>2, <2>3 DEF AllExplained
<1>2. ASSUME NEW p \in Products, NEW f \in Payloads(p), CreateVariants(p, f)
      PROVE  AllExplained'
  <2>1. /\ making[p] = "saved" /\ pRow[p] = "live" /\ pRow' = pRow
        /\ SyncVariants(p, f)
        /\ making' = [making EXCEPT ![p] = "synced"]
        /\ made' = [made EXCEPT ![p] = pStock'[p]]
        /\ drifted' = IF Active(f) = {} /\ pStock[p] # made[p]
                        THEN drifted \cup {p} ELSE Follows(p, Active(f))
    BY <1>2 DEF CreateVariants
  <2>2. ASSUME Plain(p)', p \notin drifted'
        PROVE  pStock'[p] = pLedger'[p] + made'[p] /\ making'[p] = "synced"
    <3>1. Active(f) = {} /\ pStock' = pStock /\ pLedger'[p] = pLedger[p]
      BY <2>1, <2>2, SyncOfPlain
    <3>2. p \notin drifted /\ pStock[p] = made[p]
      BY <2>1, <2>2, <3>1 DEF Follows
    <3>3. pStock[p] = pLedger[p] + made[p]
      BY <2>1, <2>2, <3>2, PlainWasPlain DEF AllExplained, Explained
    <3>4. made'[p] = pStock[p] /\ making'[p] = "synced"
      BY <2>1, <3>1 DEF StockTypeOK
    <3>5. pStock[p] \in Int /\ pLedger[p] \in Int /\ made[p] \in Int
      BY DEF StockTypeOK
    <3>6. QED
      BY <3>1, <3>2, <3>3, <3>4, <3>5
  <2>3. ASSUME NEW q \in Products, q # p
        PROVE  Explained(q)'
    <3>1. Explained(q)
      BY DEF AllExplained
    <3>2. pStock'[q] = pStock[q] /\ pLedger'[q] = pLedger[q]
      BY <2>1, <2>3, SyncOfOthers
    <3>3. q \notin drifted' => q \notin drifted
      BY <2>1, <2>3 DEF Follows
    <3>4. made'[q] = made[q] /\ making'[q] = making[q] /\ pRow'[q] = pRow[q]
      BY <2>1, <2>3 DEF StockTypeOK
    <3>5. QED
      BY <3>1, <3>2, <3>3, <3>4, UntouchedExplained
  <2>4. Explained(p)'
    BY <2>2 DEF Explained
  <2>5. QED
    BY <2>3, <2>4 DEF AllExplained
<1>3. ASSUME NEW p \in Products, CreateLog(p)
      PROVE  AllExplained'
  <2>1. /\ making[p] \in {"saved", "synced"} /\ pRow[p] = "live"
        /\ pLedger' = [pLedger EXCEPT ![p] =
             IF ActiveOf(p) = {} THEN @ + made[p] ELSE @]
        /\ making' = [making EXCEPT ![p] = "done"]
        /\ made' = [made EXCEPT ![p] = 0]
        /\ UNCHANGED <<pRow, pStock, vRow, drifted>>
    BY <1>3 DEF CreateLog, rows
  <2>2. ASSUME Plain(p)', p \notin drifted'
        PROVE  pStock'[p] = pLedger'[p] /\ making'[p] = "done"
    <3>1. Plain(p) /\ ActiveOf(p) = {}
      BY <2>1, <2>2, PlainWasPlain DEF Plain, ActiveOf
    <3>2. pStock[p] = pLedger[p] + made[p]
      BY <2>1, <2>2, <3>1 DEF AllExplained, Explained
    <3>3. QED
      BY <2>1, <3>1, <3>2 DEF StockTypeOK
  <2>3. ASSUME NEW q \in Products, q # p
        PROVE  Explained(q)'
    <3>1. Explained(q)
      BY DEF AllExplained
    <3>2. QED
      BY <2>1, <2>3, <3>1, UntouchedExplained DEF StockTypeOK
  <2>4. Explained(p)'
    BY <2>2 DEF Explained
  <2>5. QED
    BY <2>3, <2>4 DEF AllExplained
<1>4. ASSUME NEW p \in Products, CreateAborts(p)
      PROVE  AllExplained'
  <2>1. /\ making' = [making EXCEPT ![p] = "aborted"]
        /\ made' = [made EXCEPT ![p] = 0]
        /\ UNCHANGED <<pRow, pStock, pLedger, drifted>>
    BY <1>4 DEF CreateAborts, rows, ledger
  <2>2. Explained(p)'
    BY <2>1 DEF Explained, StockTypeOK
  <2>3. ASSUME NEW q \in Products, q # p
        PROVE  Explained(q)'
    <3>1. Explained(q)
      BY DEF AllExplained
    <3>2. QED
      BY <2>1, <2>3, <3>1, UntouchedExplained DEF StockTypeOK
  <2>4. QED
    BY <2>2, <2>3 DEF AllExplained
<1>5. ASSUME NEW p \in Products, DeleteProduct(p)
      PROVE  AllExplained'
  <2>1. /\ pRow' = [pRow EXCEPT ![p] = "deleted"]
        /\ pStock' = [pStock EXCEPT ![p] = 0]
        /\ pLedger' = [pLedger EXCEPT ![p] = 0]
        /\ drifted' = drifted \ {p}
        /\ UNCHANGED <<making, made>>
    BY <1>5 DEF DeleteProduct, SetStock
  <2>2. Explained(p)'
    BY <2>1 DEF Explained, StockTypeOK
  <2>3. ASSUME NEW q \in Products, q # p
        PROVE  Explained(q)'
    <3>1. Explained(q)
      BY DEF AllExplained
    <3>2. QED
      BY <2>1, <2>3, <3>1, UntouchedExplained DEF StockTypeOK
  <2>4. QED
    BY <2>2, <2>3 DEF AllExplained
<1>6. ASSUME NEW p \in Products, NEW n \in Int, MoveProduct(p, n)
      PROVE  AllExplained'
  <2>1. /\ pStock' = [pStock EXCEPT ![p] = pStock[p] + n]
        /\ pLedger' = [pLedger EXCEPT ![p] = @ + n]
        /\ UNCHANGED <<pRow, vRow, making, made, drifted>>
    BY <1>6 DEF MoveProduct, SetStock
  <2>2. Explained(p)'
    <3>1. Explained(p) /\ (Plain(p)' => Plain(p))
      BY PlainWasPlain DEF AllExplained
    <3>2. pStock'[p] = pStock[p] + n /\ pLedger'[p] = pLedger[p] + n
      BY <2>1 DEF StockTypeOK
    <3>3. pStock[p] \in Int /\ pLedger[p] \in Int /\ made[p] \in Int
      BY DEF StockTypeOK
    <3>4. QED
      BY <2>1, <3>1, <3>2, <3>3 DEF Explained
  <2>3. ASSUME NEW q \in Products, q # p
        PROVE  Explained(q)'
    <3>1. Explained(q)
      BY DEF AllExplained
    <3>2. QED
      BY <2>1, <2>3, <3>1, UntouchedExplained DEF StockTypeOK
  <2>4. QED
    BY <2>2, <2>3 DEF AllExplained
<1>7. ASSUME NEW v \in Variants, NEW n \in Int, MoveVariant(v, n)
      PROVE  AllExplained'
  <2>1. PICK p \in Products : p = ProductOf[v]
    BY ProductOfAssumption
  <2>2. /\ Resync(p, ActiveOf(p), vStock') /\ drifted' = Follows(p, ActiveOf(p))
        /\ vRow[v] # "none"
        /\ UNCHANGED <<pRow, vRow, pLedger, making, made>>
    BY <1>7, <2>1 DEF MoveVariant, Live
  <2>3. Explained(p)'
    BY <2>1, <2>2 DEF Explained, Plain, VariantsOf
  <2>4. ASSUME NEW q \in Products, q # p
        PROVE  Explained(q)'
    <3>1. Explained(q)
      BY DEF AllExplained
    <3>2. pStock'[q] = pStock[q]
      BY <2>2, <2>4 DEF Resync, SetStock, StockTypeOK
    <3>3. q \notin drifted' => q \notin drifted
      BY <2>2, <2>4 DEF Follows
    <3>4. QED
      BY <2>2, <3>1, <3>2, <3>3, UntouchedExplained
  <2>5. QED
    BY <2>3, <2>4 DEF AllExplained
<1>8. ASSUME NEW o \in Orders, NEW cart \in [Items -> 0..MaxQuantity],
             Reserve(o, cart) \/ RingUp(o, cart)
      PROVE  AllExplained'
  BY <1>8, CartTypes, SaleKeepsExplained
<1>9. ASSUME NEW e \in Editors, NEW p \in Products, NEW n \in Nat,
             editor[e].product = p, editor[e].stock = n, FormSaves(e)
      PROVE  AllExplained'
  <2>1. /\ pRow' = [pRow EXCEPT ![p] = "live"]
        /\ pStock' = [pStock EXCEPT ![p] = n]
        /\ drifted' = IF pRow[p] = "live" /\ n = pStock[p]
                        THEN drifted ELSE drifted \cup {p}
        /\ UNCHANGED <<pLedger, making, made>>
    BY <1>9 DEF FormSaves, SetStock, ledger
  <2>2. ASSUME NEW q \in Products
        PROVE  Explained(q)'
    <3>1. Explained(q)
      BY DEF AllExplained
    <3>2. CASE q \in drifted'
      BY <3>2 DEF Explained
    <3>3. CASE q \notin drifted'
      <4>1. q \notin drifted /\ pRow'[q] = pRow[q] /\ pStock'[q] = pStock[q]
        BY <2>1, <3>3 DEF StockTypeOK
      <4>2. QED
        BY <2>1, <3>1, <4>1, UntouchedExplained
    <3>4. QED
      BY <3>2, <3>3
  <2>3. QED
    BY <2>2 DEF AllExplained
<1>10. ASSUME NEW e \in Editors, NEW p \in Products, NEW f \in Payloads(p),
              editor[e].product = p, FormSyncs(e, f)
       PROVE  AllExplained'
  <2>1. /\ SyncVariants(p, f) /\ drifted' = Follows(p, Active(f))
        /\ UNCHANGED <<pRow, making, made>>
    BY <1>10 DEF FormSyncs
  <2>2. Explained(p)'
    <3>1. CASE Plain(p)'
      <4>1. Active(f) = {} /\ pStock' = pStock /\ pLedger'[p] = pLedger[p]
        BY <2>1, <3>1, SyncOfPlain
      <4>2. drifted' = drifted /\ Explained(p)
        BY <2>1, <4>1 DEF Follows, AllExplained
      <4>3. QED
        BY <2>1, <4>1, <4>2, UntouchedExplained
    <3>2. CASE ~ Plain(p)'
      BY <3>2 DEF Explained
    <3>3. QED
      BY <3>1, <3>2
  <2>3. ASSUME NEW q \in Products, q # p
        PROVE  Explained(q)'
    <3>1. Explained(q)
      BY DEF AllExplained
    <3>2. pStock'[q] = pStock[q] /\ pLedger'[q] = pLedger[q]
      BY <2>1, <2>3, SyncOfOthers
    <3>3. q \notin drifted' => q \notin drifted
      BY <2>1, <2>3 DEF Follows
    <3>4. QED
      BY <2>1, <3>1, <3>2, <3>3, UntouchedExplained
  <2>4. QED
    BY <2>2, <2>3 DEF AllExplained
<1>11. ASSUME UNCHANGED <<rows, ledger, making, made, drifted>>
       PROVE  AllExplained'
  BY <1>11 DEF rows, ledger, AllExplained, Explained, Plain
<1> USE DEF FormLoads, FormEnds, stockVars
<1>12. QED
  BY <1>1, <1>2, <1>3, <1>4, <1>5, <1>6, <1>7, <1>8, <1>9, <1>10, <1>11,
     RestockKeepsExplained, StepCases
-----------------------------------------------------------------------------
StockInv ==
  /\ StockTypeOK
  /\ VariantLedgerExact
  /\ NothingUnmade
  /\ AvailableIffStocked
  /\ AggregateInSync
  /\ AllExplained

\* The invariant is inductive.
LEMMA StockInvariant == StockSpec => []StockInv
<1>1. StockInit => StockInv
  <2>1. SUFFICES ASSUME StockInit PROVE StockInv
    OBVIOUS
  <2>2. StockTypeOK
    BY <2>1 DEF StockInit, StockTypeOK, FormStates, FormIdle, NoUnits
  <2>3. VariantLedgerExact /\ AvailableIffStocked
    BY <2>1 DEF StockInit, VariantLedgerExact, AvailableIffStocked
  <2>4. NothingUnmade
    BY <2>1 DEF StockInit, NothingUnmade, Unmade, UnmadeVariant, Plain, VariantsOf,
       NoUnits, Items
  <2>5. AggregateInSync
    BY <2>1 DEF StockInit, AggregateInSync, ActiveOf, VariantsOf
  <2>6. AllExplained
    BY <2>1 DEF StockInit, AllExplained, Explained
  <2>7. QED
    BY <2>2, <2>3, <2>4, <2>5, <2>6 DEF StockInv
<1>2. StockInv /\ [StockNext]_stockVars => StockInv'
  <2>1. SUFFICES ASSUME StockInv, [StockNext]_stockVars PROVE StockInv'
    OBVIOUS
  <2>2. /\ StockTypeOK /\ VariantLedgerExact /\ NothingUnmade
        /\ AvailableIffStocked /\ AggregateInSync /\ AllExplained
    BY <2>1 DEF StockInv
  <2>3. StockTypeOK' /\ VariantLedgerExact'
    BY <2>1, <2>2, StepKeepsTypes, StepKeepsVariants
  <2>4. NothingUnmade' /\ AvailableIffStocked'
    BY <2>1, <2>2, StepKeepsUnmade, StepKeepsFlag
  <2>5. AggregateInSync' /\ AllExplained'
    BY <2>1, <2>2, StepKeepsSums, StepKeepsExplained
  <2>6. QED
    BY <2>3, <2>4, <2>5 DEF StockInv
<1>3. QED
  BY <1>1, <1>2, PTL DEF StockSpec

\* Stocks and order lines are natural numbers in every state of every store:
\* no order of sales, forms and cancellations oversells (the checks of
\* _reserve_cart_stock and _reserve_stock, and the CHECK on stock_quantity).
THEOREM StockTypes == StockSpec => []StockTypeOK
<1>1. StockInv => StockTypeOK
  BY DEF StockInv
<1>2. QED
  BY <1>1, StockInvariant, PTL

\* For every store, catalogue and number of orders: the movements that name a
\* variant always add up to its stock (stock.py, serializers._sync_variants,
\* checkout and PDV).
THEOREM VariantLedger == StockSpec => []VariantLedgerExact
<1>1. StockInv => VariantLedgerExact
  BY DEF StockInv
<1>2. QED
  BY <1>1, StockInvariant, PTL

\* The movements of a product that never had a variant add up to its stock
\* once its creation is over (perform_create, apply_stock_movement, checkout,
\* PDV, apply_order_cancellation).
THEOREM ProductLedger == StockSpec => []ProductLedgerExact
<1>1. StockInv => ProductLedgerExact
  BY DEF StockInv, AllExplained, Explained, ProductLedgerExact
<1>2. QED
  BY <1>1, StockInvariant, PTL

\* A product sold by variant offers exactly the units of its active variants,
\* although checkout, PDV, movement, form and cancellation each keep the sum
\* their own way (sync_product_stock_from_variants and its two variations).
THEOREM Aggregate == StockSpec => []AggregateInSync
<1>1. StockInv => AggregateInSync
  BY DEF StockInv
<1>2. QED
  BY <1>1, StockInvariant, PTL

\* A product is on sale exactly while it has stock, whichever writer came
\* last.
THEOREM FlagFollowsStock == StockSpec => []AvailableIffStocked
<1>1. StockInv => AvailableIffStocked
  BY DEF StockInv
<1>2. QED
  BY <1>1, StockInvariant, PTL
=============================================================================
