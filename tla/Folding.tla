------------------------------- MODULE Folding -------------------------------
(***************************************************************************)
(* Induction.  The library's induction theorems take an operator as a      *)
(* parameter; here the statement is a set of numbers instead, and the      *)
(* operator that a fold is over is a constant of the module, so that each  *)
(* fold has an instance of its own.                                        *)
(***************************************************************************)
EXTENDS SequencesExt, WellFoundedInduction, TLAPS

CONSTANTS
    Op(_, _),   \* what is folded
    Element,    \* what the sequence holds
    Value       \* what comes of it

Fold(base, s) == FoldLeft(Op, base, s)

Closed == \A v \in Value : \A e \in Element : Op(v, e) \in Value

-----------------------------------------------------------------------------
(* Numbers.                                                                *)

LEMMA LeastNumber ==
    ASSUME NEW T \in SUBSET Nat, T # {}
    PROVE  \E x \in T : \A y \in T : x <= y
<1> DEFINE R == OpToRel(<, Nat)
<1>1. IsWellFoundedOn(R, Nat)
  BY NatLessThanWellFounded
<1>2. \A x, y \in Nat : x < y => <<x, y>> \in R
  BY DEF OpToRel
<1> HIDE DEF R
<1>3. \E x \in T : \A y \in T : ~ (<<y, x>> \in R)
  BY <1>1, WFMin
<1>4. PICK x \in T : \A y \in T : <<y, x>> \notin R
  BY <1>3
<1>5. \A y \in T : ~ (y < x)
  BY <1>2, <1>4
<1>. QED
  BY <1>5

\* Induction: a statement is the set of numbers it holds for.
THEOREM SetInduction ==
    ASSUME NEW T \in SUBSET Nat, 0 \in T, \A n \in T : n + 1 \in T
    PROVE  T = Nat
<1> SUFFICES ASSUME Nat \ T # {} PROVE FALSE
  OBVIOUS
<1>1. PICK x \in Nat \ T : \A y \in Nat \ T : x <= y
  BY LeastNumber
<1>2. x # 0 /\ x - 1 \in Nat
  BY <1>1
<1>3. x - 1 \in T
  BY <1>1, <1>2
<1>. QED
  BY <1>1, <1>2, <1>3

LEMMA MaxIs ==
    ASSUME NEW s \in SUBSET Nat, NEW m \in s, \A x \in s : x <= m
    PROVE  Max(s) = m
<1>1. \A x \in s : (\A y \in s : x >= y) => x = m
  OBVIOUS
<1>2. \A y \in s : m >= y
  OBVIOUS
<1>. QED
  BY <1>1, <1>2 DEF Max

LEMMA MaxExists ==
    ASSUME NEW k \in Nat, NEW s \in SUBSET (1 .. k), s # {}
    PROVE  \E m \in s : \A x \in s : x <= m
<1> DEFINE above == {n \in Nat : \A x \in s : x <= n}
<1>1. k \in above
  OBVIOUS
<1>2. PICK m \in above : \A n \in above : m <= n
  <2>1. above \in SUBSET Nat /\ above # {}
    BY <1>1
  <2> HIDE DEF above
  <2>. QED
    BY <2>1, LeastNumber
<1>3. m \in s
  <2> SUFFICES ASSUME m \notin s PROVE FALSE
    OBVIOUS
  <2>1. PICK x \in s : TRUE
    OBVIOUS
  <2>2. \A y \in s : y <= m - 1
    BY <1>2
  <2>3. m - 1 \in Nat
    BY <1>2, <2>1, <2>2
  <2>4. m - 1 \in above
    BY <2>2, <2>3
  <2>. QED
    BY <1>2, <2>4
<1>. QED
  BY <1>2, <1>3

LEMMA MaxIn ==
    ASSUME NEW k \in Nat, NEW s \in SUBSET (1 .. k), s # {}
    PROVE  Max(s) \in s
<1>1. PICK m \in s : \A x \in s : x <= m
  BY MaxExists
<1>2. Max(s) = m
  BY <1>1, MaxIs
<1>. QED
  BY <1>2

-----------------------------------------------------------------------------
(* Folds.                                                                  *)

\* The equations of the function that FoldLeft chooses, up to a length.
Iterates(g, n, base, s) ==
    g = [t \in SUBSET (1 .. n) |->
            IF t = {} THEN base ELSE Op(g[t \ {Max(t)}], s[Max(t)])]

LEMMA NextIterates ==
    ASSUME Closed, NEW base \in Value, NEW s \in Seq(Element),
           NEW n \in Nat, n + 1 <= Len(s),
           NEW g \in [SUBSET (1 .. n) -> Value], Iterates(g, n, base, s)
    PROVE  \E h \in [SUBSET (1 .. n + 1) -> Value] : Iterates(h, n + 1, base, s)
<1> DEFINE h == [t \in SUBSET (1 .. n + 1) |->
                    IF n + 1 \in t THEN Op(g[t \ {n + 1}], s[n + 1]) ELSE g[t]]
<1>1. n + 1 \in 1 .. Len(s) /\ s[n + 1] \in Element
  OBVIOUS
<1>2. \A t \in SUBSET (1 .. n + 1) : t \ {n + 1} \in SUBSET (1 .. n)
  OBVIOUS
<1>3. \A t \in SUBSET (1 .. n + 1) : n + 1 \notin t => t \in SUBSET (1 .. n)
  OBVIOUS
<1>4. h \in [SUBSET (1 .. n + 1) -> Value]
  <2> SUFFICES ASSUME NEW t \in SUBSET (1 .. n + 1) PROVE h[t] \in Value
    OBVIOUS
  <2>1. CASE n + 1 \in t
    BY <1>1, <1>2, <2>1 DEF Closed
  <2>2. CASE n + 1 \notin t
    BY <1>3, <2>2
  <2>. QED
    BY <2>1, <2>2
<1>5. ASSUME NEW t \in SUBSET (1 .. n + 1)
      PROVE  h[t] = IF t = {} THEN base ELSE Op(h[t \ {Max(t)}], s[Max(t)])
  <2>1. CASE n + 1 \in t
    <3>1. Max(t) = n + 1
      <4>1. t \in SUBSET Nat /\ \A x \in t : x <= n + 1
        OBVIOUS
      <4>. QED
        BY <2>1, <4>1, MaxIs
    <3>2. h[t \ {n + 1}] = g[t \ {n + 1}]
      <4>1. t \ {n + 1} \in SUBSET (1 .. n + 1) /\ n + 1 \notin t \ {n + 1}
        OBVIOUS
      <4>. QED
        BY <4>1
    <3>3. h[t] = Op(g[t \ {n + 1}], s[n + 1])
      BY <2>1
    <3> HIDE DEF h
    <3>. QED
      BY <2>1, <3>1, <3>2, <3>3
  <2>2. CASE n + 1 \notin t
    <3>1. t \in SUBSET (1 .. n)
      BY <1>3, <2>2
    <3>2. h[t] = g[t]
      BY <2>2
    <3>3. h[t] = IF t = {} THEN base ELSE Op(g[t \ {Max(t)}], s[Max(t)])
      BY <3>1, <3>2 DEF Iterates
    <3>4. h[t \ {Max(t)}] = g[t \ {Max(t)}]
      BY <2>2
    <3> HIDE DEF h
    <3>. QED
      BY <3>3, <3>4
  <2>. QED
    BY <2>1, <2>2
<1>6. DOMAIN h = SUBSET (1 .. n + 1) /\ h = [t \in SUBSET (1 .. n + 1) |-> h[t]]
  OBVIOUS
<1> HIDE DEF h
<1>7. Iterates(h, n + 1, base, s)
  BY <1>5, <1>6 DEF Iterates
<1>. QED
  BY <1>4, <1>7

LEMMA IteratesExist ==
    ASSUME Closed, NEW base \in Value, NEW s \in Seq(Element)
    PROVE  \E g \in [SUBSET (1 .. Len(s)) -> Value] : Iterates(g, Len(s), base, s)
<1> DEFINE Exists(n) == \E g \in [SUBSET (1 .. n) -> Value] : Iterates(g, n, base, s)
           T == {n \in Nat : n <= Len(s) => Exists(n)}
<1>1. Exists(0)
  <2> DEFINE g == [t \in SUBSET (1 .. 0) |-> base]
  <2>1. \A t \in SUBSET (1 .. 0) : t = {}
    OBVIOUS
  <2>2. g \in [SUBSET (1 .. 0) -> Value]
    OBVIOUS
  <2>3. Iterates(g, 0, base, s)
    BY <2>1 DEF Iterates
  <2>. QED
    BY <2>2, <2>3
<1>2. ASSUME NEW n \in Nat, n + 1 <= Len(s), Exists(n) PROVE Exists(n + 1)
  BY <1>2, NextIterates
<1> HIDE DEF Exists
<1>3. T \in SUBSET Nat /\ 0 \in T
  BY <1>1
<1>4. \A n \in T : n + 1 \in T
  <2> SUFFICES ASSUME NEW n \in T, n + 1 <= Len(s) PROVE Exists(n + 1)
    OBVIOUS
  <2>1. Len(s) \in Nat /\ n \in Nat /\ n <= Len(s)
    OBVIOUS
  <2>. QED
    BY <1>2, <2>1
<1>5. T = Nat
  <2> HIDE DEF T
  <2>. QED
    BY <1>3, <1>4, SetInduction
<1>6. Len(s) \in Nat /\ Len(s) <= Len(s)
  OBVIOUS
<1>7. Exists(Len(s))
  BY <1>5, <1>6
<1>. QED
  BY <1>7 DEF Exists

\* A fold, step by step.
THEOREM FoldSteps ==
    ASSUME Closed, NEW base \in Value, NEW s \in Seq(Element)
    PROVE  \E h \in [0 .. Len(s) -> Value] :
             /\ h[0] = base
             /\ \A k \in 1 .. Len(s) : h[k] = Op(h[k - 1], s[k])
             /\ h[Len(s)] = Fold(base, s)
<1> DEFINE n == Len(s)
           iter == CHOOSE g : Iterates(g, n, base, s)
           h == [k \in 0 .. n |-> iter[1 .. k]]
<1>0. n \in Nat /\ DOMAIN s = 1 .. n
  OBVIOUS
<1>1. \E g \in [SUBSET (1 .. n) -> Value] : Iterates(g, n, base, s)
  BY IteratesExist
<1>2. Iterates(iter, n, base, s)
  BY <1>1
<1>3. Fold(base, s) = iter[1 .. n]
  BY <1>0 DEF Fold, FoldLeft, MapThenFoldSet, Iterates
<1> HIDE DEF iter, n
<1>4. \A k \in 0 .. n : 1 .. k \in SUBSET (1 .. n)
  BY <1>0
<1>5. h[0] = base
  <2>1. 1 .. 0 = {}
    OBVIOUS
  <2>2. iter[1 .. 0] = base
    BY <1>0, <1>2, <1>4, <2>1 DEF Iterates
  <2>. QED
    BY <1>0, <2>2
<1>6. ASSUME NEW k \in 1 .. n PROVE h[k] = Op(h[k - 1], s[k])
  <2>1. k \in Nat /\ k - 1 \in 0 .. n /\ 1 .. k \in SUBSET (1 .. n) /\ k \in 1 .. k
    BY <1>0
  <2>2. Max(1 .. k) = k
    <3>1. 1 .. k \in SUBSET Nat /\ \A x \in 1 .. k : x <= k
      BY <2>1
    <3>. QED
      BY <2>1, <3>1, MaxIs
  <2>3. (1 .. k) \ {k} = 1 .. k - 1
    BY <2>1
  <2>4. 1 .. k # {}
    BY <2>1
  <2>5. iter[1 .. k] = Op(iter[1 .. k - 1], s[k])
    BY <1>2, <2>1, <2>2, <2>3, <2>4 DEF Iterates
  <2>6. h[k] = iter[1 .. k] /\ h[k - 1] = iter[1 .. k - 1]
    BY <1>0, <2>1
  <2>. QED
    BY <2>5, <2>6
<1>7. h[n] = iter[1 .. n]
  BY <1>0
<1>8. DOMAIN h = 0 .. n /\ h = [k \in 0 .. n |-> h[k]]
  OBVIOUS
<1> HIDE DEF h
<1>9. \A k \in 0 .. n : h[k] \in Value
  <2> DEFINE T == {k \in Nat : k <= n => h[k] \in Value}
  <2>1. T \in SUBSET Nat /\ 0 \in T
    BY <1>5
  <2>2. \A k \in T : k + 1 \in T
    <3> SUFFICES ASSUME NEW k \in T, k + 1 <= n PROVE h[k + 1] \in Value
      OBVIOUS
    <3>1. k \in Nat /\ k + 1 \in 1 .. n /\ k + 1 - 1 = k /\ h[k] \in Value
      BY <1>0
    <3>2. s[k + 1] \in Element
      BY <1>0, <3>1
    <3>3. h[k + 1] = Op(h[k], s[k + 1])
      BY <1>6, <3>1
    <3>. QED
      BY <3>1, <3>2, <3>3 DEF Closed
  <2>3. T = Nat
    <3> HIDE DEF T
    <3>. QED
      BY <2>1, <2>2, SetInduction
  <2>. QED
    BY <1>0, <2>3
<1>10. h \in [0 .. n -> Value]
  BY <1>8, <1>9
<1>. QED
  BY <1>3, <1>5, <1>6, <1>7, <1>10 DEF n

\* What every step keeps, the fold keeps.
THEOREM FoldKeeps ==
    ASSUME Closed, NEW base \in Value, NEW s \in Seq(Element)
    PROVE  Fold(base, s) \in Value
<1>1. PICK h \in [0 .. Len(s) -> Value] : h[Len(s)] = Fold(base, s)
  BY FoldSteps
<1>2. Len(s) \in 0 .. Len(s)
  OBVIOUS
<1>. QED
  BY <1>1, <1>2

\* Induction over a fold: R[k] is the set of what may come of k elements.
THEOREM FoldInduction ==
    ASSUME Closed, NEW base \in Value, NEW s \in Seq(Element),
           NEW R \in [0 .. Len(s) -> SUBSET Value],
           base \in R[0],
           \A k \in 1 .. Len(s) : \A v \in R[k - 1] : Op(v, s[k]) \in R[k]
    PROVE  Fold(base, s) \in R[Len(s)]
<1>1. PICK h \in [0 .. Len(s) -> Value] :
        /\ h[0] = base
        /\ \A k \in 1 .. Len(s) : h[k] = Op(h[k - 1], s[k])
        /\ h[Len(s)] = Fold(base, s)
  BY FoldSteps
<1> DEFINE T == {k \in Nat : k <= Len(s) => h[k] \in R[k]}
<1>2. T \in SUBSET Nat /\ 0 \in T
  BY <1>1
<1>3. \A k \in T : k + 1 \in T
  <2> SUFFICES ASSUME NEW k \in T, k + 1 <= Len(s) PROVE h[k + 1] \in R[k + 1]
    OBVIOUS
  <2>1. Len(s) \in Nat /\ k \in Nat /\ k + 1 \in 1 .. Len(s) /\ k + 1 - 1 = k
    OBVIOUS
  <2>2. h[k] \in R[k]
    BY <2>1
  <2>3. h[k + 1] = Op(h[k], s[k + 1])
    BY <1>1, <2>1
  <2>4. Op(h[k], s[k + 1]) \in R[k + 1]
    BY <2>1, <2>2
  <2>. QED
    BY <2>3, <2>4
<1>4. T = Nat
  <2> HIDE DEF T
  <2>. QED
    BY <1>2, <1>3, SetInduction
<1>5. Len(s) \in Nat /\ Len(s) <= Len(s)
  OBVIOUS
<1>6. h[Len(s)] \in R[Len(s)]
  BY <1>4, <1>5
<1>. QED
  BY <1>1, <1>6

-----------------------------------------------------------------------------
(* Concatenation of a sequence of sequences.                               *)

\* The equations of the function that FlattenSeq chooses, up to a length.
Flattens(g, n, ss) ==
    g = [i \in 1 .. n |-> IF i = 1 THEN ss[i] ELSE g[i - 1] \o ss[i]]

LEMMA FlattensExists ==
    ASSUME NEW S, NEW ss \in Seq(Seq(S))
    PROVE  \E g \in [1 .. Len(ss) -> Seq(S)] : Flattens(g, Len(ss), ss)
<1> DEFINE Exists(n) == \E g \in [1 .. n -> Seq(S)] : Flattens(g, n, ss)
           T == {n \in Nat : n <= Len(ss) => Exists(n)}
<1>1. Exists(0)
  <2> DEFINE g == [i \in 1 .. 0 |-> <<>>]
  <2>1. g \in [1 .. 0 -> Seq(S)]
    OBVIOUS
  <2>2. Flattens(g, 0, ss)
    BY DEF Flattens
  <2>. QED
    BY <2>1, <2>2
<1>2. ASSUME NEW n \in Nat, n + 1 <= Len(ss), Exists(n) PROVE Exists(n + 1)
  <2>1. PICK g \in [1 .. n -> Seq(S)] : Flattens(g, n, ss)
    BY <1>2
  <2>2. n + 1 \in DOMAIN ss /\ ss[n + 1] \in Seq(S)
    BY <1>2
  <2> DEFINE last == IF n = 0 THEN ss[n + 1] ELSE g[n] \o ss[n + 1]
             h == [i \in 1 .. n + 1 |-> IF i = n + 1 THEN last ELSE g[i]]
  <2>3. last \in Seq(S)
    <3>1. CASE n = 0
      BY <2>2, <3>1
    <3>2. CASE n # 0
      <4>1. g[n] \in Seq(S)
        BY <3>2
      <4>. QED
        BY <2>2, <3>2, <4>1
    <3>. QED
      BY <3>1, <3>2
  <2>4. h \in [1 .. n + 1 -> Seq(S)]
    <3> HIDE DEF last
    <3>. QED
      BY <2>3
  <2>5. ASSUME NEW i \in 1 .. n + 1
        PROVE  h[i] = IF i = 1 THEN ss[i] ELSE h[i - 1] \o ss[i]
    <3>1. CASE i = n + 1
      BY <3>1
    <3>2. CASE i # n + 1
      <4>1. i \in 1 .. n /\ h[i] = g[i]
        BY <3>2
      <4>2. g[i] = IF i = 1 THEN ss[i] ELSE g[i - 1] \o ss[i]
        BY <2>1, <4>1 DEF Flattens
      <4>3. i # 1 => h[i - 1] = g[i - 1]
        BY <3>2
      <4> HIDE DEF h
      <4>. QED
        BY <4>1, <4>2, <4>3
    <3>. QED
      BY <3>1, <3>2
  <2>6. h = [i \in 1 .. n + 1 |-> h[i]]
    OBVIOUS
  <2> HIDE DEF h
  <2>7. Flattens(h, n + 1, ss)
    BY <2>5, <2>6 DEF Flattens
  <2>. QED
    BY <2>4, <2>7
<1> HIDE DEF Exists
<1>3. T \in SUBSET Nat /\ 0 \in T
  BY <1>1
<1>4. \A n \in T : n + 1 \in T
  <2> SUFFICES ASSUME NEW n \in T, n + 1 <= Len(ss) PROVE Exists(n + 1)
    OBVIOUS
  <2>1. Len(ss) \in Nat /\ n \in Nat /\ n <= Len(ss)
    OBVIOUS
  <2>. QED
    BY <1>2, <2>1
<1>5. T = Nat
  <2> HIDE DEF T
  <2>. QED
    BY <1>3, <1>4, SetInduction
<1>6. Len(ss) \in Nat /\ Len(ss) <= Len(ss)
  OBVIOUS
<1>7. Exists(Len(ss))
  BY <1>5, <1>6
<1>. QED
  BY <1>7 DEF Exists

\* FlattenSeq, step by step.
THEOREM FlattenSteps ==
    ASSUME NEW S, NEW ss \in Seq(Seq(S))
    PROVE  \E f \in [0 .. Len(ss) -> Seq(S)] :
             /\ f[0] = <<>>
             /\ \A k \in 1 .. Len(ss) : f[k] = f[k - 1] \o ss[k]
             /\ f[Len(ss)] = FlattenSeq(ss)
<1> DEFINE n == Len(ss)
           flat == CHOOSE g : Flattens(g, n, ss)
           f == [k \in 0 .. n |-> IF k = 0 THEN <<>> ELSE flat[k]]
<1>0. n \in Nat /\ DOMAIN ss = 1 .. n /\ \A k \in 1 .. n : ss[k] \in Seq(S)
  OBVIOUS
<1>1. PICK g \in [1 .. n -> Seq(S)] : Flattens(g, n, ss)
  BY FlattensExists
<1>2. Flattens(flat, n, ss)
  BY <1>1
<1>3. n # 0 => FlattenSeq(ss) = flat[n]
  BY DEF FlattenSeq, Flattens
<1>4. n = 0 => FlattenSeq(ss) = <<>>
  BY DEF FlattenSeq
<1> HIDE DEF flat, n
<1>5. f[0] = <<>>
  BY <1>0
<1>6. DOMAIN f = 0 .. n /\ f = [k \in 0 .. n |-> f[k]]
  OBVIOUS
<1>7. \A k \in 1 .. n : f[k] = flat[k]
  BY <1>0
<1>8. \A k \in 1 .. n : f[k] = IF k = 1 THEN ss[k] ELSE f[k - 1] \o ss[k]
  <2> TAKE k \in 1 .. n
  <2>1. flat[k] = IF k = 1 THEN ss[k] ELSE flat[k - 1] \o ss[k]
    BY <1>2 DEF Flattens
  <2>2. k # 1 => f[k - 1] = flat[k - 1]
    BY <1>0
  <2> HIDE DEF f
  <2>. QED
    BY <1>7, <2>1, <2>2
<1>9. n # 0 => f[n] = FlattenSeq(ss)
  BY <1>0, <1>3, <1>7
<1>10. f[n] = FlattenSeq(ss)
  BY <1>4, <1>5, <1>9
<1> HIDE DEF f
<1>11. \A k \in 0 .. n : f[k] \in Seq(S)
  <2> DEFINE T == {k \in Nat : k <= n => f[k] \in Seq(S)}
  <2>1. T \in SUBSET Nat /\ 0 \in T
    <3>1. <<>> \in Seq(S)
      OBVIOUS
    <3>2. f[0] \in Seq(S)
      BY <1>5, <3>1
    <3>. QED
      BY <3>2
  <2>2. \A k \in T : k + 1 \in T
    <3> SUFFICES ASSUME NEW k \in T, k + 1 <= n PROVE f[k + 1] \in Seq(S)
      OBVIOUS
    <3>1. k \in Nat /\ k + 1 \in 1 .. n /\ k + 1 - 1 = k /\ f[k] \in Seq(S)
      BY <1>0
    <3>2. ss[k + 1] \in Seq(S)
      BY <1>0, <3>1
    <3>3. f[k + 1] = IF k + 1 = 1 THEN ss[k + 1] ELSE f[k] \o ss[k + 1]
      BY <1>8, <3>1
    <3>. QED
      BY <3>1, <3>2, <3>3
  <2>3. T = Nat
    <3> HIDE DEF T
    <3>. QED
      BY <2>1, <2>2, SetInduction
  <2>. QED
    BY <1>0, <2>3
<1>12. \A k \in 1 .. n : f[k] = f[k - 1] \o ss[k]
  <2> TAKE k \in 1 .. n
  <2>1. k = 1 => f[k - 1] = <<>>
    BY <1>5
  <2>2. <<>> \o ss[k] = ss[k]
    BY <1>0
  <2>. QED
    BY <1>0, <1>8, <2>1, <2>2
<1>. QED
  BY <1>6, <1>5, <1>10, <1>11, <1>12 DEF n
=============================================================================
