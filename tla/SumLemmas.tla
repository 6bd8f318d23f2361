------------------------------ MODULE SumLemmas ------------------------------
(***************************************************************************)
(* What MapThenSumSet of the community modules adds up, for a finite set    *)
(* and whole amounts, whatever order it takes the elements in.  The library *)
(* states induction with an operator parameter; here it is stated for a set *)
(* of numbers, and follows from the well-foundedness of <.                  *)
(***************************************************************************)
EXTENDS Naturals, FiniteSetsExt, FiniteSetTheorems, WellFoundedInduction, TLAPS

LEMMA LeastNumber ==
  ASSUME NEW T, T \subseteq Nat, T # {}
  PROVE  \E n \in T : \A m \in T : n <= m
<1> DEFINE R == {ss \in Nat \X Nat : ss[1] < ss[2]}
<1>1. IsWellFoundedOn(R, Nat)
  BY NatLessThanWellFounded, Zenon DEF OpToRel
<1>2. \A x, y \in Nat : x < y => <<x, y>> \in R
  OBVIOUS
<1> HIDE DEF R
<1>3. PICK n \in T : \A m \in T : ~ (<<m, n>> \in R)
  BY <1>1, WFMin
<1>4. ASSUME NEW m \in T PROVE n <= m
  <2>1. m \in Nat /\ n \in Nat
    OBVIOUS
  <2>2. ~ (m < n)
    BY <1>2, <1>3, <2>1, Zenon
  <2> QED
    BY <2>1, <2>2
<1> QED
  BY <1>4

(* Induction, for a set of numbers.                                          *)
LEMMA NumberInduction ==
  ASSUME NEW T, T \subseteq Nat, 0 \in T, \A n \in T : n + 1 \in T
  PROVE  T = Nat
<1>1. SUFFICES ASSUME Nat \ T # {} PROVE FALSE
  OBVIOUS
<1>2. PICK n \in Nat \ T : \A m \in Nat \ T : n <= m
  BY <1>1, LeastNumber
<1>3. n # 0 /\ n - 1 \in Nat /\ n - 1 \in T /\ n = (n - 1) + 1
  BY <1>2
<1> QED
  BY <1>2, <1>3

-----------------------------------------------------------------------------
Pick(s) == CHOOSE x \in s : TRUE

Small(D, n) == {T \in SUBSET D : Cardinality(T) <= n}

(* One pass over the subsets, taking out the element CHOOSE names.           *)
Pass(it, f, U) ==
  [s \in U |-> IF s = {} THEN 0 ELSE f[Pick(s)] + it[s \ {Pick(s)}]]

(* What a total is, whichever element is taken out.                          *)
TotalOf(it, f, D) ==
  /\ it \in [SUBSET D -> Nat]
  /\ it[{}] = 0
  /\ \A T \in SUBSET D, x \in D : x \in T => it[T] = f[x] + it[T \ {x}]

LEMMA OneFewer ==
  ASSUME NEW D, IsFiniteSet(D), NEW T \in SUBSET D
  PROVE  /\ IsFiniteSet(T) /\ Cardinality(T) \in Nat
         /\ Cardinality(T) = 0 <=> T = {}
         /\ \A x \in T : Cardinality(T \ {x}) = Cardinality(T) - 1
<1>1. IsFiniteSet(T)
  BY FS_Subset
<1> QED
  BY <1>1, FS_CardinalityType, FS_EmptySet, FS_RemoveElement

(* A function that is one pass over itself exists.                           *)
LEMMA PassExists ==
  ASSUME NEW D, IsFiniteSet(D), NEW f
  PROVE  \E it : it = Pass(it, f, SUBSET D)
<1> DEFINE Good == {n \in Nat : \E it : it = Pass(it, f, Small(D, n))}
<1>1. 0 \in Good
  <2> DEFINE it == [s \in Small(D, 0) |-> 0]
  <2>1. \A s \in Small(D, 0) : s = {}
    BY OneFewer DEF Small
  <2>2. it = Pass(it, f, Small(D, 0))
    BY <2>1 DEF Pass
  <2> QED
    BY <2>2
<1>2. ASSUME NEW n \in Good PROVE n + 1 \in Good
  <2>1. PICK g : g = Pass(g, f, Small(D, n))
    OBVIOUS
  <2> DEFINE h == Pass(g, f, Small(D, n + 1))
  <2>2. Small(D, n) \subseteq Small(D, n + 1)
    BY OneFewer DEF Small
  <2>3. \A s \in Small(D, n) : h[s] = g[s]
    BY <2>1, <2>2 DEF Pass
  <2>4. \A s \in Small(D, n + 1) : s # {} => s \ {Pick(s)} \in Small(D, n)
    <3>1. SUFFICES ASSUME NEW s \in Small(D, n + 1), s # {}
                   PROVE  s \ {Pick(s)} \in Small(D, n)
      OBVIOUS
    <3>2. Pick(s) \in s /\ s \in SUBSET D
      BY <3>1 DEF Pick, Small
    <3>3. Cardinality(s \ {Pick(s)}) = Cardinality(s) - 1 /\ Cardinality(s) \in Nat
      BY <3>2, OneFewer
    <3> QED
      BY <3>2, <3>3 DEF Small
  <2>5. h = Pass(h, f, Small(D, n + 1))
    <3> HIDE DEF Good
    <3>1. \A s \in Small(D, n + 1) :
            (IF s = {} THEN 0 ELSE f[Pick(s)] + h[s \ {Pick(s)}])
              = (IF s = {} THEN 0 ELSE f[Pick(s)] + g[s \ {Pick(s)}])
      BY <2>3, <2>4
    <3> QED
      BY <3>1 DEF Pass
  <2> QED
    BY <2>5
<1>3. Good = Nat
  <2> HIDE DEF Good
  <2>1. Good \subseteq Nat
    BY DEF Good
  <2> QED
    BY <1>1, <1>2, <2>1, NumberInduction
<1>4. SUBSET D = Small(D, Cardinality(D))
  BY FS_Subset, FS_CardinalityType DEF Small
<1>5. Cardinality(D) \in Good
  BY <1>3, FS_CardinalityType
<1> QED
  BY <1>4, <1>5

(* And it is the total, whichever element is taken out first.                *)
LEMMA PassTotals ==
  ASSUME NEW D, IsFiniteSet(D), NEW f, \A x \in D : f[x] \in Nat,
         NEW it, it = Pass(it, f, SUBSET D)
  PROVE  TotalOf(it, f, D)
<1> DEFINE Fits(T) == /\ it[T] \in Nat
                      /\ \A x \in T : it[T] = f[x] + it[T \ {x}]
           Good == {n \in Nat : \A T \in Small(D, n) : Fits(T)}
<1>0. /\ it[{}] = 0
      /\ \A T \in SUBSET D : T # {} => /\ Pick(T) \in T
                                       /\ it[T] = f[Pick(T)] + it[T \ {Pick(T)}]
  BY DEF Pass, Pick
<1>1. 0 \in Good
  <2>1. \A T \in Small(D, 0) : T = {}
    BY OneFewer DEF Small
  <2> QED
    BY <1>0, <2>1
<1>2. ASSUME NEW n \in Good, NEW T \in Small(D, n + 1) PROVE Fits(T)
  <2>1. CASE T = {}
    BY <1>0, <2>1
  <2>2. CASE T # {}
    <3> DEFINE c == Pick(T)
    <3>1. c \in T /\ it[T] = f[c] + it[T \ {c}] /\ T \in SUBSET D
      BY <1>0, <2>2 DEF Small
    <3>2. \A x \in T : T \ {x} \in Small(D, n)
      BY <3>1, OneFewer DEF Small
    <3> HIDE DEF c
    <3>3. \A x \in T : Fits(T \ {x})
      BY <3>2
    <3>4. it[T] \in Nat
      BY <3>1, <3>3
    <3>5. ASSUME NEW x \in T, x # c PROVE it[T] = f[x] + it[T \ {x}]
      <4>1. it[T \ {c}] = f[x] + it[(T \ {c}) \ {x}]
        BY <3>1, <3>3, <3>5
      <4>2. it[T \ {x}] = f[c] + it[(T \ {x}) \ {c}]
        BY <3>1, <3>3, <3>5
      <4>3. (T \ {c}) \ {x} = (T \ {x}) \ {c} /\ (T \ {c}) \ {x} \in Small(D, n)
        <5>1. Cardinality((T \ {c}) \ {x}) = Cardinality(T \ {c}) - 1
          BY <3>1, <3>5, OneFewer, T \ {c} \in SUBSET D
        <5>2. Cardinality(T \ {c}) \in Nat /\ Cardinality(T \ {c}) <= n
          BY <3>1, <3>2, OneFewer, T \ {c} \in SUBSET D DEF Small
        <5> QED
          BY <3>1, <5>1, <5>2 DEF Small
      <4>4. it[(T \ {c}) \ {x}] \in Nat /\ f[x] \in Nat /\ f[c] \in Nat
        BY <3>1, <4>3
      <4>5. it[T \ {x}] = f[c] + it[(T \ {c}) \ {x}]
        BY <4>2, <4>3
      <4>6. it[T] = f[c] + it[T \ {c}]
        BY <3>1
      <4> QED
        BY <4>1, <4>4, <4>5, <4>6
    <3> QED
      BY <3>1, <3>4, <3>5
  <2> QED
    BY <2>1, <2>2
<1>3. Good = Nat
  <2> HIDE DEF Fits
  <2>1. \A n \in Good : n + 1 \in Good
    BY <1>2
  <2> HIDE DEF Good
  <2>2. Good \subseteq Nat
    BY DEF Good
  <2> QED
    BY <1>1, <2>1, <2>2, NumberInduction
<1>4. ASSUME NEW T \in SUBSET D PROVE Fits(T)
  <2>1. Cardinality(T) \in Good /\ T \in Small(D, Cardinality(T))
    BY <1>3, OneFewer DEF Small
  <2> QED
    BY <2>1
<1>5. it \in [SUBSET D -> Nat]
  BY <1>4 DEF Pass
<1> QED
  BY <1>0, <1>4, <1>5 DEF TotalOf

(* Two totals agree on the elements they share.                              *)
LEMMA TotalsAgree ==
  ASSUME NEW D, IsFiniteSet(D), NEW f, NEW g, TotalOf(g, f, D),
         NEW E, NEW k, NEW h, TotalOf(h, k, E),
         NEW S, S \subseteq D, S \subseteq E, \A x \in S : f[x] = k[x]
  PROVE  g[S] = h[S]
<1> DEFINE Good == {n \in Nat : \A T \in Small(S, n) : g[T] = h[T]}
<1>0. IsFiniteSet(S)
  BY FS_Subset
<1>1. 0 \in Good
  <2>1. \A T \in Small(S, 0) : T = {}
    BY <1>0, OneFewer DEF Small
  <2> QED
    BY <2>1 DEF TotalOf
<1>2. ASSUME NEW n \in Good, NEW T \in Small(S, n + 1) PROVE g[T] = h[T]
  <2>1. CASE T = {}
    BY <2>1 DEF TotalOf
  <2>2. ASSUME NEW x \in T PROVE g[T] = h[T]
    <3>1. T \ {x} \in Small(S, n)
      BY <1>0, OneFewer DEF Small
    <3>2. T \in SUBSET D /\ T \in SUBSET E /\ x \in S /\ x \in D /\ x \in E
      BY DEF Small
    <3>3. g[T] = f[x] + g[T \ {x}] /\ h[T] = k[x] + h[T \ {x}]
      BY <3>2 DEF TotalOf
    <3> QED
      BY <3>1, <3>2, <3>3
  <2> QED
    BY <2>1, <2>2
<1>3. Good = Nat
  <2>1. \A n \in Good : n + 1 \in Good
    BY <1>2
  <2> HIDE DEF Good
  <2>2. Good \subseteq Nat
    BY DEF Good
  <2> QED
    BY <1>1, <2>1, <2>2, NumberInduction
<1>4. Cardinality(S) \in Good /\ S \in Small(S, Cardinality(S))
  BY <1>0, <1>3, OneFewer DEF Small
<1> QED
  BY <1>4

(* A smaller set has no larger total.                                        *)
LEMMA TotalGrows ==
  ASSUME NEW D, IsFiniteSet(D), NEW f, \A x \in D : f[x] \in Nat,
         NEW g, TotalOf(g, f, D),
         NEW S, NEW R, S \subseteq R, R \subseteq D
  PROVE  g[S] <= g[R]
<1> DEFINE Good == {n \in Nat : \A T \in SUBSET D :
                      S \subseteq T /\ Cardinality(T) <= n => g[S] <= g[T]}
<1>0. \A T \in SUBSET D : g[T] \in Nat
  BY DEF TotalOf
<1>1. 0 \in Good
  <2>1. \A T \in SUBSET D : S \subseteq T /\ Cardinality(T) <= 0 => T = S
    BY OneFewer
  <2> QED
    BY <1>0, <2>1
<1>2. ASSUME NEW n \in Good, NEW T \in SUBSET D, S \subseteq T, Cardinality(T) <= n + 1
      PROVE  g[S] <= g[T]
  <2>1. CASE T = S
    BY <1>0, <2>1
  <2>2. ASSUME NEW x \in T \ S PROVE g[S] <= g[T]
    <3>1. T \ {x} \in SUBSET D /\ S \subseteq T \ {x} /\ Cardinality(T \ {x}) <= n
      BY <1>2, OneFewer
    <3>2. g[T] = f[x] + g[T \ {x}] /\ f[x] \in Nat
      BY DEF TotalOf
    <3>3. g[S] <= g[T \ {x}]
      BY <3>1
    <3> QED
      BY <1>0, <3>1, <3>2, <3>3
  <2> QED
    BY <1>2, <2>1, <2>2
<1>3. Good = Nat
  <2>1. \A n \in Good : n + 1 \in Good
    BY <1>2
  <2> HIDE DEF Good
  <2>2. Good \subseteq Nat
    BY DEF Good
  <2> QED
    BY <1>1, <2>1, <2>2, NumberInduction
<1>4. Cardinality(R) \in Good
  BY <1>3, OneFewer
<1> QED
  BY <1>4, OneFewer

(* Every finite set of whole amounts has a total.                            *)
LEMMA TotalExists ==
  ASSUME NEW D, IsFiniteSet(D), NEW f, \A x \in D : f[x] \in Nat
  PROVE  \E g : TotalOf(g, f, D)
<1>1. PICK it : it = Pass(it, f, SUBSET D)
  BY PassExists
<1> QED
  BY <1>1, PassTotals

(* What MapThenSumSet picks is a number.                                     *)
LEMMA PassIsNumber ==
  ASSUME NEW S, IsFiniteSet(S), NEW f, \A x \in S : f[x] \in Nat
  PROVE  (CHOOSE it : it = Pass(it, f, SUBSET S))[S] \in Nat
<1> DEFINE h == CHOOSE it : it = Pass(it, f, SUBSET S)
<1>1. h = Pass(h, f, SUBSET S)
  BY PassExists
<1> HIDE DEF h
<1>2. TotalOf(h, f, S)
  BY <1>1, PassTotals
<1>3. h[S] \in Nat
  BY <1>2 DEF TotalOf
<1> QED
  BY <1>3 DEF h

-----------------------------------------------------------------------------
(* The amounts of a table's rows, as the models add them up.                 *)
RowTotal(e, S) == MapThenSumSet(LAMBDA x : e[x].amount, S)

LEMMA RowTotals ==
  ASSUME NEW D, IsFiniteSet(D), NEW e, \A x \in D : e[x].amount \in Nat,
         NEW g, TotalOf(g, [x \in D |-> e[x].amount], D), NEW S \in SUBSET D
  PROVE  RowTotal(e, S) = g[S]
<1> DEFINE f == [x \in D |-> e[x].amount]
           Is(it) == it = [s \in SUBSET S |-> IF s = {} THEN 0
                            ELSE e[Pick(s)].amount + it[s \ {Pick(s)}]]
<1>1. RowTotal(e, S) = (CHOOSE it : Is(it))[S]
  BY DEF RowTotal, MapThenSumSet, MapThenFoldSet, Pick
<1>2. IsFiniteSet(S) /\ \A x \in S : f[x] \in Nat
  BY FS_Subset
<1>3. ASSUME NEW it PROVE Is(it) <=> it = Pass(it, f, SUBSET S)
  <2>1. \A s \in SUBSET S : s # {} => Pick(s) \in D
    BY DEF Pick
  <2>2. \A s \in SUBSET S :
          (IF s = {} THEN 0 ELSE e[Pick(s)].amount + it[s \ {Pick(s)}])
            = (IF s = {} THEN 0 ELSE f[Pick(s)] + it[s \ {Pick(s)}])
    BY <2>1
  <2> QED
    BY <2>2 DEF Pass
<1> HIDE DEF f, Is
<1>4. \E it : Is(it)
  BY <1>2, <1>3, PassExists
<1> DEFINE h == CHOOSE it : Is(it)
<1>5. Is(h)
  BY <1>4
<1> HIDE DEF h
<1>6. TotalOf(h, f, S)
  BY <1>2, <1>3, <1>5, PassTotals
<1>7. TotalOf(g, f, D)
  BY DEF f
<1>8. h[S] = g[S]
  BY <1>2, <1>6, <1>7, TotalsAgree
<1> QED
  BY <1>1, <1>8 DEF h

(* The total of no row is 0, of a row more its amount more, and of more rows *)
(* no less.                                                                  *)
LEMMA RowTotalAdds ==
  ASSUME NEW D, IsFiniteSet(D), NEW e, \A x \in D : e[x].amount \in Nat
  PROVE  /\ RowTotal(e, {}) = 0
         /\ \A S \in SUBSET D : RowTotal(e, S) \in Nat
         /\ \A S \in SUBSET D, x \in D :
              x \in S => RowTotal(e, S) = e[x].amount + RowTotal(e, S \ {x})
         /\ \A S, R \in SUBSET D : S \subseteq R => RowTotal(e, S) <= RowTotal(e, R)
<1> DEFINE f == [x \in D |-> e[x].amount]
<1>1. \A x \in D : f[x] \in Nat /\ f[x] = e[x].amount
  OBVIOUS
<1>2. PICK g : TotalOf(g, f, D)
  BY <1>1, TotalExists
<1>3. \A S \in SUBSET D : RowTotal(e, S) = g[S]
  BY <1>2, RowTotals
<1> HIDE DEF f
<1>4. \A S, R \in SUBSET D : S \subseteq R => g[S] <= g[R]
  BY <1>1, <1>2, TotalGrows
<1>5. \A S \in SUBSET D, x \in D : x \in S => g[S] = e[x].amount + g[S \ {x}]
  BY <1>1, <1>2 DEF TotalOf
<1> QED
  BY <1>2, <1>3, <1>4, <1>5 DEF TotalOf

(* And the rows left out do not matter.                                      *)
LEMMA RowTotalSame ==
  ASSUME NEW D, IsFiniteSet(D), NEW e, NEW k,
         \A x \in D : e[x].amount \in Nat /\ k[x].amount \in Nat,
         NEW S \in SUBSET D, \A x \in S : e[x].amount = k[x].amount
  PROVE  RowTotal(e, S) = RowTotal(k, S)
<1> DEFINE f == [x \in D |-> e[x].amount]
           f2 == [x \in D |-> k[x].amount]
<1>1. /\ \A x \in D : f[x] \in Nat /\ f2[x] \in Nat
      /\ \A x \in S : f[x] = f2[x]
  OBVIOUS
<1>2. PICK g : TotalOf(g, f, D)
  BY <1>1, TotalExists
<1>3. PICK h : TotalOf(h, f2, D)
  BY <1>1, TotalExists
<1>4. RowTotal(e, S) = g[S] /\ RowTotal(k, S) = h[S]
  BY <1>2, <1>3, RowTotals
<1> HIDE DEF f, f2
<1>5. g[S] = h[S]
  BY <1>1, <1>2, <1>3, TotalsAgree
<1> QED
  BY <1>4, <1>5

(* When one row changed and no other came into the set, the total grew by no *)
(* more than that row's amount, if it is in the set.                         *)
LEMMA RowTotalGrows ==
  ASSUME NEW D, IsFiniteSet(D), NEW e, NEW k,
         \A x \in D : e[x].amount \in Nat /\ k[x].amount \in Nat,
         NEW c, \A x \in D : x # c => e[x].amount = k[x].amount,
         NEW S \in SUBSET D, NEW R \in SUBSET D, R \ {c} \subseteq S
  PROVE  /\ RowTotal(e, S) \in Nat /\ RowTotal(k, R) \in Nat
         /\ c \notin R => RowTotal(k, R) <= RowTotal(e, S)
         /\ c \in R => RowTotal(k, R) <= RowTotal(e, S) + k[c].amount
<1>1. R \ {c} \in SUBSET D
  OBVIOUS
<1>2. RowTotal(k, R \ {c}) = RowTotal(e, R \ {c})
  BY <1>1, RowTotalSame
<1>3. RowTotal(e, R \ {c}) <= RowTotal(e, S)
  BY <1>1, RowTotalAdds
<1>4. RowTotal(e, S) \in Nat /\ RowTotal(k, R) \in Nat /\ RowTotal(e, R \ {c}) \in Nat
  BY <1>1, RowTotalAdds
<1>5. CASE c \notin R
  <2>1. R \ {c} = R
    BY <1>5
  <2> QED
    BY <1>2, <1>3, <1>4, <1>5, <2>1
<1>6. CASE c \in R
  <2>1. RowTotal(k, R) = k[c].amount + RowTotal(k, R \ {c}) /\ k[c].amount \in Nat
    BY <1>6, RowTotalAdds
  <2> QED
    BY <1>2, <1>3, <1>4, <1>6, <2>1
<1> QED
  BY <1>5, <1>6

(* A row that comes into the set adds its amount.                            *)
LEMMA RowTotalJoins ==
  ASSUME NEW D, IsFiniteSet(D), NEW e, NEW k,
         \A x \in D : e[x].amount \in Nat /\ k[x].amount \in Nat,
         NEW c \in D, NEW S \in SUBSET D, c \notin S,
         \A x \in S : e[x].amount = k[x].amount
  PROVE  RowTotal(k, S \cup {c}) = RowTotal(e, S) + k[c].amount
<1>1. S \cup {c} \in SUBSET D /\ (S \cup {c}) \ {c} = S
  OBVIOUS
<1>2. RowTotal(k, S) = RowTotal(e, S)
  BY RowTotalSame
<1>3. RowTotal(k, S \cup {c}) = k[c].amount + RowTotal(k, (S \cup {c}) \ {c})
  <2>1. c \in S \cup {c} /\ \A x \in D : k[x].amount \in Nat
    OBVIOUS
  <2> QED
    BY <1>1, <2>1, RowTotalAdds
<1>4. RowTotal(e, S) \in Nat
  <2>1. \A x \in D : e[x].amount \in Nat
    OBVIOUS
  <2> QED
    BY <2>1, RowTotalAdds
<1>5. k[c].amount \in Nat
  OBVIOUS
<1>6. RowTotal(k, S \cup {c}) = k[c].amount + RowTotal(e, S)
  BY <1>1, <1>2, <1>3, Zenon
<1> QED
  BY <1>4, <1>5, <1>6

(* What is at most B for each row is at most B for every row together.       *)
LEMMA RowTotalAtMost ==
  ASSUME NEW D, IsFiniteSet(D), NEW e, \A x \in D : e[x].amount \in Nat,
         NEW B \in Nat, NEW S \in SUBSET D, \A x \in S : e[x].amount <= B
  PROVE  RowTotal(e, S) <= Cardinality(S) * B
<1> DEFINE T == {n \in Nat : \A R \in SUBSET S : Cardinality(R) = n => RowTotal(e, R) <= n * B}
<1>1. /\ RowTotal(e, {}) = 0
      /\ \A R \in SUBSET D : RowTotal(e, R) \in Nat
      /\ \A R \in SUBSET D, x \in D :
           x \in R => RowTotal(e, R) = e[x].amount + RowTotal(e, R \ {x})
  BY RowTotalAdds
<1>2. \A R \in SUBSET S : R \in SUBSET D
  OBVIOUS
<1>3. 0 \in T
  <2> SUFFICES ASSUME NEW R \in SUBSET S, Cardinality(R) = 0 PROVE RowTotal(e, R) <= 0 * B
    OBVIOUS
  <2>1. R = {}
    BY OneFewer
  <2> QED
    BY <1>1, <2>1
<1>4. ASSUME NEW n \in T PROVE n + 1 \in T
  <2> SUFFICES ASSUME NEW R \in SUBSET S, Cardinality(R) = n + 1
               PROVE  RowTotal(e, R) <= (n + 1) * B
    OBVIOUS
  <2>0. n \in Nat
    OBVIOUS
  <2>1. R # {}
    BY <2>0, OneFewer
  <2>2. PICK x \in R : TRUE
    BY <2>1
  <2>3. Cardinality(R \ {x}) = n
    BY <2>0, <2>2, OneFewer
  <2>4. RowTotal(e, R \ {x}) <= n * B
    BY <2>3
  <2>5. RowTotal(e, R) = e[x].amount + RowTotal(e, R \ {x}) /\ RowTotal(e, R \ {x}) \in Nat
    BY <1>1, <2>2
  <2>6. (n + 1) * B = n * B + B /\ n * B \in Nat
    BY <2>0
  <2>7. e[x].amount <= B /\ e[x].amount \in Nat
    BY <2>2
  <2> HIDE DEF T
  <2> QED
    BY <2>4, <2>5, <2>6, <2>7
<1> HIDE DEF T
<1>5. T = Nat
  <2>1. T \subseteq Nat
    BY DEF T
  <2> QED
    BY <1>3, <1>4, <2>1, NumberInduction
<1>6. Cardinality(S) \in Nat
  BY OneFewer
<1>7. Cardinality(S) \in T
  BY <1>5, <1>6
<1> QED
  BY <1>7 DEF T

(* One row changes, and may join or leave the rows that are added up.        *)
LEMMA RowTotalMoves ==
  ASSUME NEW D, IsFiniteSet(D), NEW e, NEW k,
         \A x \in D : e[x].amount \in Nat /\ k[x].amount \in Nat,
         NEW c \in D, \A x \in D : x # c => e[x].amount = k[x].amount,
         NEW S \in SUBSET D, NEW R \in SUBSET D, S \ {c} = R \ {c}
  PROVE  /\ RowTotal(e, S) \in Nat /\ RowTotal(k, R) \in Nat
         /\ RowTotal(k, R) + (IF c \in S THEN e[c].amount ELSE 0)
              = RowTotal(e, S) + (IF c \in R THEN k[c].amount ELSE 0)
<1> DEFINE base == S \ {c}
           before == IF c \in S THEN e[c].amount ELSE 0
           after == IF c \in R THEN k[c].amount ELSE 0
<1>1. base \in SUBSET D /\ base = R \ {c} /\ c \notin base
  OBVIOUS
<1>2. /\ RowTotal(e, S) \in Nat /\ RowTotal(e, base) \in Nat
      /\ c \in S => RowTotal(e, S) = e[c].amount + RowTotal(e, base)
  <2>1. \A x \in D : e[x].amount \in Nat
    OBVIOUS
  <2> QED
    BY <1>1, <2>1, RowTotalAdds
<1>3. /\ RowTotal(k, R) \in Nat /\ RowTotal(k, base) \in Nat
      /\ c \in R => RowTotal(k, R) = k[c].amount + RowTotal(k, base)
  <2>1. \A x \in D : k[x].amount \in Nat
    OBVIOUS
  <2>2. /\ RowTotal(k, R) \in Nat /\ RowTotal(k, R \ {c}) \in Nat
        /\ c \in R => RowTotal(k, R) = k[c].amount + RowTotal(k, R \ {c})
    <3>1. R \ {c} \in SUBSET D
      OBVIOUS
    <3> QED
      BY <2>1, <3>1, RowTotalAdds
  <2> QED
    BY <1>1, <2>2
<1>4. RowTotal(e, base) = RowTotal(k, base)
  <2>1. \A x \in base : e[x].amount = k[x].amount
    OBVIOUS
  <2> HIDE DEF base
  <2> QED
    BY <1>1, <2>1, RowTotalSame
<1>5. before \in Nat /\ after \in Nat
  OBVIOUS
<1>6. RowTotal(e, S) = RowTotal(e, base) + before
  <2>1. CASE c \in S
    BY <1>2, <1>5, <2>1
  <2>2. CASE c \notin S
    <3>1. S = base
      BY <2>2
    <3>2. RowTotal(e, S) = RowTotal(e, base)
      BY <3>1
    <3> HIDE DEF base
    <3> QED
      BY <1>2, <2>2, <3>2
  <2> QED
    BY <2>1, <2>2
<1>7. RowTotal(k, R) = RowTotal(k, base) + after
  <2>1. CASE c \in R
    BY <1>3, <1>5, <2>1
  <2>2. CASE c \notin R
    <3>1. R = base
      BY <1>1, <2>2
    <3>2. RowTotal(k, R) = RowTotal(k, base)
      BY <3>1
    <3> HIDE DEF base
    <3> QED
      BY <1>3, <2>2, <3>2
  <2> QED
    BY <2>1, <2>2
<1> HIDE DEF before, after, base
<1>8. RowTotal(k, R) + before = RowTotal(e, S) + after
  BY <1>2, <1>3, <1>4, <1>5, <1>6, <1>7
<1> QED
  BY <1>2, <1>3, <1>8 DEF before, after
=============================================================================
