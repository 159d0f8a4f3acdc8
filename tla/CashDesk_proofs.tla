--------------------------- MODULE CashDesk_proofs ---------------------------
(* Proofs about CashDesk, for any number of expenses, sums and handlers.     *)
EXTENDS CashDesk, FiniteSetTheorems, TLAPS

-----------------------------------------------------------------------------
(* Sums over finite sets, by minimal counterexample.                         *)

\* g adds up the values of f over every subset of S, the way MapThenSumSet does.
IsFold(g, f, S) ==
  g = [s \in SUBSET S |->
         IF s = {} THEN 0
         ELSE LET x == CHOOSE x \in s : TRUE IN f[x] + g[s \ {x}]]

\* The sum of the values of f over S.
Sum(f, S) == (CHOOSE g : IsFold(g, f, S))[S]

\* Induction over the subsets of a finite set: a set of them that holds a subset as
\* soon as it holds all smaller ones holds them all.
LEMMA SubsetInduction ==
  ASSUME NEW S, IsFiniteSet(S), NEW Good,
         \A T \in SUBSET S :
           (\A U \in SUBSET T : U # T => U \in Good) => T \in Good
  PROVE  \A T \in SUBSET S : T \in Good
<1> DEFINE Bad == {T \in SUBSET S : T \notin Good}
<1>1. Bad \subseteq FiniteSubsetsOf(S)
  BY FS_Subset DEF FiniteSubsetsOf
<1> SUFFICES ASSUME Bad # {} PROVE FALSE
  OBVIOUS
<1>2. PICK T \in Bad : \A U \in Bad : ~(<<U, T>> \in StrictSubsetOrdering(S))
  <2> HIDE DEF Bad
  <2> QED
    BY <1>1, FS_StrictSubsetOrderingWellFounded, WFMin
<1>3. \A U \in SUBSET T : U # T => U \in Good
  BY <1>2 DEF StrictSubsetOrdering
<1> QED
  BY <1>2, <1>3

LEMMA FoldEquation ==
  ASSUME NEW S, NEW f, NEW g, IsFold(g, f, S)
  PROVE  /\ g[{}] = 0
         /\ \A s \in SUBSET S : s # {} =>
              g[s] = f[CHOOSE x \in s : TRUE] + g[s \ {CHOOSE x \in s : TRUE}]
BY DEF IsFold

LEMMA FoldUnique ==
  ASSUME NEW S, IsFiniteSet(S), NEW T, S \subseteq T, NEW f, NEW g, NEW h,
         IsFold(g, f, S), IsFold(h, f, T)
  PROVE  \A s \in SUBSET S : g[s] = h[s]
<1> DEFINE Good == {s \in SUBSET S : g[s] = h[s]}
<1>1. ASSUME NEW s \in SUBSET S, \A U \in SUBSET s : U # s => U \in Good
      PROVE  s \in Good
  <2> DEFINE x == CHOOSE x \in s : TRUE
  <2>1. CASE s = {}
    BY <2>1 DEF IsFold
  <2>2. CASE s # {}
    <3>1. x \in s
      BY <2>2
    <3> HIDE DEF x
    <3>2. g[s \ {x}] = h[s \ {x}]
      BY <1>1, <3>1
    <3>3. g[s] = f[x] + g[s \ {x}] /\ h[s] = f[x] + h[s \ {x}]
      BY <2>2 DEF IsFold, x
    <3> QED
      BY <3>2, <3>3
  <2> QED
    BY <2>1, <2>2
<1> HIDE DEF Good
<1>2. \A s \in SUBSET S : s \in Good
  BY <1>1, SubsetInduction
<1> QED
  BY <1>2 DEF Good

LEMMA FoldExists ==
  ASSUME NEW S, IsFiniteSet(S), NEW f
  PROVE  \E g : IsFold(g, f, S)
<1> DEFINE Good == {T \in SUBSET S : \E g : IsFold(g, f, T)}
<1>1. ASSUME NEW T \in SUBSET S, \A U \in SUBSET T : U # T => U \in Good
      PROVE  T \in Good
  <2> DEFINE H(U) == CHOOSE h : IsFold(h, f, U)
             c(s) == CHOOSE x \in s : TRUE
             g == [s \in SUBSET T |-> IF s = {} THEN 0 ELSE f[c(s)] + H(s \ {c(s)})[s \ {c(s)}]]
  <2>1. \A U \in SUBSET T : U # T => IsFold(H(U), f, U) /\ IsFiniteSet(U)
    BY <1>1, FS_Subset
  <2>2. \A s \in SUBSET T : s # {} => c(s) \in s
    OBVIOUS
  <2>3. \A U \in SUBSET T : U # {} /\ U # T =>
          H(U)[U] = f[c(U)] + H(U)[U \ {c(U)}]
    <3> HIDE DEF H
    <3> QED
      BY <2>1, FoldEquation
  <2>4. H({})[{}] = 0
    <3>1. CASE T = {}
      <4> DEFINE z == [s \in SUBSET {} |-> 0]
      <4>1. IsFold(z, f, {})
        BY DEF IsFold
      <4>2. IsFold(H({}), f, {})
        BY <4>1
      <4> QED
        BY <4>2 DEF IsFold
    <3>2. CASE T # {}
      <4>1. IsFold(H({}), f, {})
        BY <2>1, <3>2
      <4> QED
        BY <4>1 DEF IsFold
    <3> QED
      BY <3>1, <3>2
  <2> HIDE DEF H, c
  <2>5. ASSUME NEW U \in SUBSET T, U # T
        PROVE  g[U] = H(U)[U]
    <3>1. CASE U = {}
      BY <2>4, <3>1
    <3>2. CASE U # {}
      <4> DEFINE V == U \ {c(U)}
      <4>1. V \in SUBSET U /\ V # T /\ V \in SUBSET T
        BY <2>2, <3>2, <2>5
      <4>2. H(U)[V] = H(V)[V]
        BY <2>1, <2>5, <4>1, FoldUnique
      <4> QED
        BY <2>3, <2>5, <3>2, <4>2
    <3> QED
      BY <3>1, <3>2
  <2>6. \A s \in SUBSET T : s # {} => s \ {c(s)} \in SUBSET T /\ s \ {c(s)} # T
    BY <2>2
  <2>7. \A s \in SUBSET T : s # {} => H(s \ {c(s)})[s \ {c(s)}] = g[s \ {c(s)}]
    BY <2>5, <2>6
  <2>8. g = [s \in SUBSET T |-> IF s = {} THEN 0 ELSE f[c(s)] + g[s \ {c(s)}]]
    BY <2>7
  <2> HIDE DEF g
  <2>9. IsFold(g, f, T)
    BY <2>8 DEF IsFold, c
  <2> QED
    BY <2>9
<1> HIDE DEF Good
<1>2. \A s \in SUBSET S : s \in Good
  BY <1>1, SubsetInduction
<1> QED
  BY <1>2 DEF Good

LEMMA SumIsFold ==
  ASSUME NEW S, IsFiniteSet(S), NEW f, NEW g, IsFold(g, f, S)
  PROVE  \A s \in SUBSET S : g[s] = Sum(f, s)
<1> SUFFICES ASSUME NEW s \in SUBSET S PROVE g[s] = Sum(f, s)
  OBVIOUS
<1> DEFINE h == CHOOSE h : IsFold(h, f, s)
<1>1. IsFiniteSet(s)
  BY FS_Subset
<1>2. IsFold(h, f, s)
  BY <1>1, FoldExists
<1> HIDE DEF h
<1>3. h[s] = g[s]
  BY <1>1, <1>2, FoldUnique
<1> QED
  BY <1>3 DEF Sum, h

LEMMA SumEmpty ==
  ASSUME NEW f
  PROVE  Sum(f, {}) = 0
<1>1. IsFiniteSet({})
  BY FS_EmptySet
<1>2. PICK g : IsFold(g, f, {})
  BY <1>1, FoldExists
<1>3. g[{}] = Sum(f, {})
  BY <1>1, <1>2, SumIsFold
<1> QED
  BY <1>2, <1>3, FoldEquation

LEMMA SumChosen ==
  ASSUME NEW S, IsFiniteSet(S), S # {}, NEW f
  PROVE  LET x == CHOOSE x \in S : TRUE IN Sum(f, S) = f[x] + Sum(f, S \ {x})
<1> DEFINE x == CHOOSE x \in S : TRUE
<1>1. PICK g : IsFold(g, f, S)
  BY FoldExists
<1>2. g[S] = f[x] + g[S \ {x}]
  <2>1. \A s \in SUBSET S : s # {} =>
          g[s] = f[CHOOSE z \in s : TRUE] + g[s \ {CHOOSE z \in s : TRUE}]
    BY <1>1, FoldEquation
  <2> QED
    BY <2>1
<1> HIDE DEF x
<1>3. g[S] = Sum(f, S) /\ g[S \ {x}] = Sum(f, S \ {x})
  BY <1>1, SumIsFold
<1> QED
  BY <1>2, <1>3 DEF x

\* A sum of integers is one, and a sum of natural numbers is one.
LEMMA SumType ==
  ASSUME NEW S, IsFiniteSet(S), NEW f, NEW D \in {Int, Nat}, \A x \in S : f[x] \in D
  PROVE  Sum(f, S) \in D
<1> DEFINE Good == {T \in SUBSET S : Sum(f, T) \in D}
<1>1. ASSUME NEW T \in SUBSET S, \A U \in SUBSET T : U # T => U \in Good
      PROVE  T \in Good
  <2> DEFINE x == CHOOSE x \in T : TRUE
  <2>1. CASE T = {}
    <3>1. Sum(f, T) = 0
      BY <2>1, SumEmpty
    <3> QED
      BY <3>1
  <2>2. CASE T # {}
    <3>1. x \in T
      BY <2>2
    <3>2. IsFiniteSet(T)
      BY FS_Subset
    <3>3. Sum(f, T) = f[x] + Sum(f, T \ {x})
      BY <2>2, <3>2, SumChosen
    <3> HIDE DEF x
    <3>4. Sum(f, T \ {x}) \in D /\ f[x] \in D
      BY <1>1, <3>1
    <3>5. CASE D = Int
      BY <3>3, <3>4, <3>5
    <3>6. CASE D = Nat
      BY <3>3, <3>4, <3>6
    <3> QED
      BY <3>5, <3>6
  <2> QED
    BY <2>1, <2>2
<1> HIDE DEF Good
<1>2. \A T \in SUBSET S : T \in Good
  BY <1>1, SubsetInduction
<1> QED
  BY <1>2 DEF Good

\* Any member can be taken out first.
LEMMA SumWithout ==
  ASSUME NEW S, IsFiniteSet(S), NEW f, \A x \in S : f[x] \in Int, NEW y \in S
  PROVE  Sum(f, S) = f[y] + Sum(f, S \ {y})
<1> DEFINE Good == {T \in SUBSET S : \A z \in T : Sum(f, T) = f[z] + Sum(f, T \ {z})}
<1>0. \A T \in SUBSET S : IsFiniteSet(T) /\ Sum(f, T) \in Int
  <2> SUFFICES ASSUME NEW T \in SUBSET S PROVE IsFiniteSet(T) /\ Sum(f, T) \in Int
    OBVIOUS
  <2>1. IsFiniteSet(T)
    BY FS_Subset
  <2>2. Int \in {Int, Nat} /\ \A x \in T : f[x] \in Int
    OBVIOUS
  <2> QED
    BY <2>1, <2>2, SumType
<1>1. ASSUME NEW T \in SUBSET S, \A U \in SUBSET T : U # T => U \in Good
      PROVE  T \in Good
  <2> SUFFICES ASSUME NEW z \in T PROVE Sum(f, T) = f[z] + Sum(f, T \ {z})
    OBVIOUS
  <2> DEFINE x == CHOOSE x \in T : TRUE
             T1 == T \ {x}
             T2 == T \ {z}
             T3 == T1 \ {z}
  <2>1. x \in T
    OBVIOUS
  <2>2. Sum(f, T) = f[x] + Sum(f, T1)
    BY <1>0, SumChosen
  <2> HIDE DEF x
  <2>3. CASE x = z
    BY <2>2, <2>3
  <2>4. CASE x # z
    <3>1. T1 \in Good /\ T2 \in Good /\ z \in T1 /\ x \in T2 /\ T3 = T2 \ {x}
      BY <1>1, <2>1, <2>4
    <3>2. Sum(f, T1) = f[z] + Sum(f, T3) /\ Sum(f, T2) = f[x] + Sum(f, T3)
      BY <3>1
    <3>3. Sum(f, T3) \in Int /\ f[x] \in Int /\ f[z] \in Int
      BY <1>0, <2>1
    <3> QED
      BY <2>2, <3>2, <3>3
  <2> QED
    BY <2>3, <2>4
<1> HIDE DEF Good
<1>2. \A T \in SUBSET S : T \in Good
  BY <1>1, SubsetInduction
<1> QED
  BY <1>2 DEF Good

\* Only the values on the set matter.
LEMMA SumSame ==
  ASSUME NEW S, IsFiniteSet(S), NEW f, NEW g, \A x \in S : f[x] = g[x]
  PROVE  Sum(f, S) = Sum(g, S)
<1> DEFINE Good == {T \in SUBSET S : Sum(f, T) = Sum(g, T)}
<1>1. ASSUME NEW T \in SUBSET S, \A U \in SUBSET T : U # T => U \in Good
      PROVE  T \in Good
  <2> DEFINE x == CHOOSE x \in T : TRUE
  <2>1. CASE T = {}
    BY <2>1, SumEmpty
  <2>2. CASE T # {}
    <3>1. x \in T
      BY <2>2
    <3>2. IsFiniteSet(T)
      BY FS_Subset
    <3>3. Sum(f, T) = f[x] + Sum(f, T \ {x}) /\ Sum(g, T) = g[x] + Sum(g, T \ {x})
      BY <2>2, <3>2, SumChosen
    <3> HIDE DEF x
    <3>4. Sum(f, T \ {x}) = Sum(g, T \ {x}) /\ f[x] = g[x]
      BY <1>1, <3>1
    <3> QED
      BY <3>3, <3>4
  <2> QED
    BY <2>1, <2>2
<1> HIDE DEF Good
<1>2. \A T \in SUBSET S : T \in Good
  BY <1>1, SubsetInduction
<1> QED
  BY <1>2 DEF Good

\* The sum over two disjoint sets.
LEMMA SumUnion ==
  ASSUME NEW A, NEW B, IsFiniteSet(A \cup B), A \cap B = {}, NEW f,
         \A x \in A \cup B : f[x] \in Int
  PROVE  Sum(f, A \cup B) = Sum(f, A) + Sum(f, B)
<1> DEFINE Good == {T \in SUBSET A : Sum(f, T \cup B) = Sum(f, T) + Sum(f, B)}
<1>0. \A T \in SUBSET (A \cup B) : IsFiniteSet(T) /\ Sum(f, T) \in Int
  <2> SUFFICES ASSUME NEW T \in SUBSET (A \cup B) PROVE IsFiniteSet(T) /\ Sum(f, T) \in Int
    OBVIOUS
  <2>1. IsFiniteSet(T)
    BY FS_Subset
  <2>2. Int \in {Int, Nat} /\ \A x \in T : f[x] \in Int
    OBVIOUS
  <2> QED
    BY <2>1, <2>2, SumType
<1>1. ASSUME NEW T \in SUBSET A, \A U \in SUBSET T : U # T => U \in Good
      PROVE  T \in Good
  <2>1. CASE T = {}
    <3>1. Sum(f, T) = 0 /\ T \cup B = B
      BY <2>1, SumEmpty
    <3>2. Sum(f, B) \in Int
      BY <1>0
    <3>3. Sum(f, T \cup B) = Sum(f, B)
      BY <3>1
    <3>4. Sum(f, B) = Sum(f, T) + Sum(f, B)
      BY <3>1, <3>2
    <3> QED
      BY <3>3, <3>4
  <2>2. CASE T # {}
    <3> PICK x \in T : TRUE
      BY <2>2
    <3> DEFINE U == T \ {x}
               V == T \cup B
    <3>1. U \in Good /\ V \ {x} = U \cup B /\ x \in V
      BY <1>1
    <3>2. /\ T \in SUBSET (A \cup B) /\ V \in SUBSET (A \cup B) /\ U \in SUBSET (A \cup B)
          /\ B \in SUBSET (A \cup B) /\ x \in A \cup B
      OBVIOUS
    <3>3. /\ IsFiniteSet(T) /\ IsFiniteSet(V)
          /\ Sum(f, U) \in Int /\ Sum(f, B) \in Int /\ f[x] \in Int
      BY <1>0, <3>2
    <3> HIDE DEF V
    <3>4. Sum(f, V) = f[x] + Sum(f, V \ {x})
      BY <3>1, <3>2, <3>3, SumWithout
    <3>5. Sum(f, T) = f[x] + Sum(f, U)
      BY <3>3, SumWithout
    <3>6. Sum(f, U \cup B) = Sum(f, U) + Sum(f, B)
      BY <3>1
    <3>7. Sum(f, V) = f[x] + Sum(f, U \cup B)
      BY <3>1, <3>4
    <3> HIDE DEF U
    <3>8. Sum(f, V) = Sum(f, T) + Sum(f, B)
      BY <3>3, <3>5, <3>6, <3>7
    <3> QED
      BY <3>8 DEF V
  <2> QED
    BY <2>1, <2>2
<1> HIDE DEF Good
<1>2. IsFiniteSet(A)
  BY FS_Subset
<1>3. \A T \in SUBSET A : T \in Good
  BY <1>1, <1>2, SubsetInduction
<1> QED
  BY <1>3 DEF Good

\* Sums over two sets that correspond: the values of one are the opposites of the
\* other's, or are the same.
LEMMA SumOpposite ==
  ASSUME NEW S, IsFiniteSet(S), NEW h, \A x, y \in S : h[x] = h[y] => x = y,
         NEW T, T = {h[x] : x \in S},
         NEW f, NEW g, \A x \in S : f[x] \in Int,
         \A x \in S : g[h[x]] = 0 - f[x]
  PROVE  /\ Sum(f, S) \in Int
         /\ Sum(g, T) = 0 - Sum(f, S)
<1> DEFINE im(W) == {h[x] : x \in W}
           Good == {W \in SUBSET S : Sum(g, im(W)) = 0 - Sum(f, W)}
<1>0. \A W \in SUBSET S : IsFiniteSet(W) /\ IsFiniteSet(im(W)) /\ Sum(f, W) \in Int
  <2> SUFFICES ASSUME NEW W \in SUBSET S
               PROVE  IsFiniteSet(W) /\ IsFiniteSet(im(W)) /\ Sum(f, W) \in Int
    OBVIOUS
  <2>1. IsFiniteSet(W)
    BY FS_Subset
  <2> DEFINE e == [x \in W |-> h[x]]
  <2>2. e \in Surjection(W, im(W))
    BY DEF Surjection
  <2>3. IsFiniteSet(im(W))
    <3> HIDE DEF e, im
    <3> QED
      BY <2>1, <2>2, FS_Surjection
  <2>4. Int \in {Int, Nat} /\ \A x \in W : f[x] \in Int
    OBVIOUS
  <2> QED
    BY <2>1, <2>3, <2>4, SumType
<1>1. ASSUME NEW W \in SUBSET S, \A V \in SUBSET W : V # W => V \in Good
      PROVE  W \in Good
  <2>1. CASE W = {}
    <3>1. im(W) = {}
      BY <2>1
    <3> HIDE DEF im
    <3>2. Sum(f, W) = 0 /\ Sum(g, im(W)) = 0
      BY <2>1, <3>1, SumEmpty
    <3>3. 0 - Sum(f, W) = 0
      BY <3>2
    <3>4. Sum(g, im(W)) = 0 - Sum(f, W)
      BY <3>2, <3>3
    <3> QED
      BY <3>4
  <2>2. CASE W # {}
    <3> PICK x \in W : TRUE
      BY <2>2
    <3> DEFINE V == W \ {x}
    <3>1. V \in Good /\ im(W) \ {h[x]} = im(V) /\ h[x] \in im(W)
      BY <1>1
    <3>2. \A y \in im(W) : g[y] \in Int
      OBVIOUS
    <3>3. Sum(f, W) = f[x] + Sum(f, V)
      BY <1>0, SumWithout
    <3>4. Sum(g, im(W)) = g[h[x]] + Sum(g, im(W) \ {h[x]})
      <4> HIDE DEF im
      <4> QED
        BY <1>0, <3>1, <3>2, SumWithout
    <3>5. /\ Sum(f, V) \in Int /\ f[x] \in Int /\ g[h[x]] = 0 - f[x]
          /\ Sum(g, im(V)) = 0 - Sum(f, V)
      BY <1>0, <3>1
    <3>6. Sum(g, im(W)) = g[h[x]] + Sum(g, im(V))
      BY <3>1, <3>4
    <3> HIDE DEF im, V
    <3>7. Sum(g, im(W)) = 0 - Sum(f, W)
      BY <3>3, <3>5, <3>6
    <3> QED
      BY <3>7 DEF im
  <2> QED
    BY <2>1, <2>2
<1> HIDE DEF Good
<1>2. S \in Good
  BY <1>1, SubsetInduction
<1> QED
  BY <1>0, <1>2 DEF Good

LEMMA SumAlike ==
  ASSUME NEW S, IsFiniteSet(S), NEW h, \A x, y \in S : h[x] = h[y] => x = y,
         NEW T, T = {h[x] : x \in S},
         NEW f, NEW g, \A x \in S : f[x] \in Int, \A x \in S : g[h[x]] = f[x]
  PROVE  Sum(g, T) = Sum(f, S)
<1> DEFINE opp == [x \in S |-> 0 - f[x]]
           same == [x \in S |-> x]
<1>1. \A x \in S : opp[x] \in Int /\ g[h[x]] = 0 - opp[x] /\ opp[same[x]] = 0 - f[x]
  OBVIOUS
<1>2. S = {same[x] : x \in S} /\ \A x, y \in S : same[x] = same[y] => x = y
  OBVIOUS
<1> HIDE DEF opp, same
<1>3. Sum(opp, S) \in Int /\ Sum(g, T) = 0 - Sum(opp, S)
  <2>1. \A x \in S : opp[x] \in Int
    BY <1>1
  <2>2. \A x \in S : g[h[x]] = 0 - opp[x]
    BY <1>1
  <2> QED
    BY ONLY <2>1, <2>2, IsFiniteSet(S), T = {h[x] : x \in S},
            \A x, y \in S : h[x] = h[y] => x = y, SumOpposite
<1>4. Sum(f, S) \in Int /\ Sum(opp, S) = 0 - Sum(f, S)
  <2>1. \A x \in S : opp[same[x]] = 0 - f[x]
    BY <1>1
  <2> QED
    BY <1>2, <2>1, SumOpposite
<1> QED
  BY <1>3, <1>4

LEMMA TotalIsSum ==
  ASSUME NEW f, NEW S
  PROVE  Total(f, S) = Sum(f, S)
BY DEF Total, MapThenSumSet, MapThenFoldSet, Sum, IsFold

-----------------------------------------------------------------------------
(* The desk, its history and what is reflected in it.                        *)

Desk == [isSet: BOOLEAN, balance: Int, baseline: BOOLEAN, cutoff: Nat]

Running == [op: {"pay", "unpay", "close"}, exp: Expenses, paidAt: Nat, amount: Amounts]

\* A row of the history, with id the last id and now the last timestamp.
RowOK(x, id, now) ==
  /\ x.id <= id /\ x.at <= now
  /\ x.kind = "set" => x.exp = None
  /\ x.exp # None => x.kind = "expense" /\ x.amount > 0
  /\ IF x.kind = "set" THEN x.after = x.amount
     ELSE x.before # None /\ x.after = x.before + Effect(x.kind, x.amount)

\* x was recorded since the balance was set last.
Current(m, x) == \A y \in m : y.kind = "set" => y.id < x.id

\* A current row of a reimbursement is the only one, and states what is reflected.
Charged(t, m) ==
  \A x \in m : Current(m, x) /\ x.exp # None =>
    /\ t[x.exp] = x.amount
    /\ \A y \in m : Current(m, y) /\ y.exp = x.exp => y = x

\* Rows typed in and balance sets are displayed in the order of their ids.
InTime(m) ==
  \A x, y \in m : x.exp = None /\ y.exp = None /\ x.id < y.id => x.at < y.at

Sound(d, t, m, id, now) ==
  /\ d \in Desk /\ t \in [Expenses -> Nat] /\ m \subseteq Movement
  /\ IsFiniteSet(m) /\ id \in Nat
  /\ \A x \in m : RowOK(x, id, now)
  /\ \A x, y \in m : x.id = y.id => x = y
  /\ m # {} => d.isSet
  /\ Charged(t, m) /\ InTime(m)

\* The inductive invariant.
IInv ==
  /\ req \in [Expenses -> Request]
  /\ \A e \in Expenses : req[e].paidAt <= clock
  /\ handler \in [Sessions -> Running \cup {Idle}]
  /\ \A s \in Sessions : handler[s] # Idle => handler[s].paidAt <= clock
  /\ clock \in Nat
  /\ Sound(desk, tracked, moves, lastId, clock)

LEMMA EffectInt ==
  ASSUME NEW kind, NEW n \in Nat
  PROVE  Effect(kind, n) \in Int
BY DEF Effect

LEMMA TotalInt ==
  ASSUME NEW S \in SUBSET Expenses, NEW f \in [Expenses -> Nat]
  PROVE  Total(f, S) \in Nat
<1>1. IsFiniteSet(S)
  BY ExpensesAssumption, FS_Subset
<1>2. Nat \in {Int, Nat} /\ \A x \in S : f[x] \in Nat
  OBVIOUS
<1>3. Sum(f, S) \in Nat
  BY <1>1, <1>2, SumType
<1> QED
  BY <1>3, TotalIsSum

LEMMA AmountsNat == Amounts \subseteq Nat /\ 0 \notin Amounts
BY AmountsAssumption

-----------------------------------------------------------------------------
(* Folding reimbursements.                                                   *)

LEMMA FewerInProperSubset ==
  ASSUME NEW S, IsFiniteSet(S), NEW T, T \subseteq S
  PROVE  /\ Cardinality(T) \in Nat /\ Cardinality(S) \in Nat
         /\ Cardinality(T) <= Cardinality(S)
         /\ T # S => Cardinality(T) < Cardinality(S)
<1>1. T \in SUBSET S
  OBVIOUS
<1>2. /\ IsFiniteSet(T) /\ Cardinality(T) <= Cardinality(S)
      /\ Cardinality(S) = Cardinality(T) => S = T
  BY <1>1, FS_Subset
<1>3. Cardinality(T) \in Nat /\ Cardinality(S) \in Nat
  BY <1>2, FS_CardinalityType
<1> QED
  BY <1>2, <1>3

\* The order of the paid query: total, and nothing comes before itself.
LEMMA PaidOrder ==
  ASSUME NEW at \in [Expenses -> Nat], NEW x \in Expenses, NEW y \in Expenses,
         NEW z \in Expenses
  PROVE  /\ ~PaidBefore(at, x, x)
         /\ x # y => PaidBefore(at, x, y) \/ PaidBefore(at, y, x)
         /\ PaidBefore(at, x, y) /\ PaidBefore(at, y, z) => PaidBefore(at, x, z)
<1>1. x \in Nat /\ y \in Nat /\ z \in Nat
  BY ExpensesAssumption
<1>2. at[x] \in Nat /\ at[y] \in Nat /\ at[z] \in Nat
  OBVIOUS
<1> QED
  BY <1>1, <1>2 DEF PaidBefore

\* The row of a reimbursement that is newly subtracted.
LEMMA FoldRowOK ==
  ASSUME NEW d \in Desk, NEW t \in [Expenses -> Nat], NEW P \in SUBSET Expenses,
         NEW at \in [Expenses -> Nat], NEW amt \in [Expenses -> Amounts], NEW now \in Nat,
         NEW id \in Nat, \A e \in Expenses : at[e] <= now,
         NEW e \in Fresh(d, t, P, at)
  PROVE  LET r == FoldRow(d, t, P, at, amt, now, id, e)
             n == Cardinality(Fresh(d, t, P, at))
         IN  /\ r \in Movement /\ n \in Nat /\ RowOK(r, id + n, now)
             /\ id < r.id /\ r.exp = e /\ r.kind = "expense" /\ r.amount = amt[e]
<1> DEFINE fresh == Fresh(d, t, P, at)
           earlier == {x \in fresh : PaidBefore(at, x, e)}
           before == d.balance - Total(amt, earlier)
           r == FoldRow(d, t, P, at, amt, now, id, e)
           n == Cardinality(fresh)
           k == Cardinality(earlier)
<1>1. /\ fresh \in SUBSET Expenses /\ earlier \in SUBSET Expenses
      /\ earlier \subseteq fresh /\ e \in fresh /\ e \notin earlier
  <2>1. fresh \subseteq Expenses /\ earlier \subseteq fresh /\ e \in fresh
    BY DEF Fresh
  <2>2. ~PaidBefore(at, e, e)
    <3> HIDE DEF fresh
    <3> QED
      BY <2>1, PaidOrder
  <2> QED
    BY <2>1, <2>2
<1>2. /\ r.id = id + k + 1 /\ r.kind = "expense" /\ r.amount = amt[e] /\ r.before = before
      /\ r.after = before - amt[e] /\ r.exp = e /\ r.at = IF at[e] = 0 THEN now ELSE at[e]
      /\ r = [id |-> r.id, kind |-> r.kind, amount |-> r.amount, before |-> r.before,
              after |-> r.after, exp |-> r.exp, at |-> r.at]
  BY DEF FoldRow
<1>3. n \in Nat /\ k \in Nat /\ k < n
  <2> HIDE DEF fresh, earlier
  <2>1. IsFiniteSet(fresh)
    BY <1>1, ExpensesAssumption, FS_Subset
  <2>2. earlier # fresh
    BY <1>1
  <2> QED
    BY <1>1, <2>1, <2>2, FewerInProperSubset
<1>4. before \in Int
  <2>1. Total(amt, earlier) \in Nat
    <3> HIDE DEF earlier
    <3> QED
      BY <1>1, AmountsNat, TotalInt
  <2> HIDE DEF earlier
  <2> QED
    BY <2>1 DEF Desk
<1>5. e \in Expenses /\ amt[e] \in Nat \ {0} /\ amt[e] \in Amounts
  BY <1>1, AmountsNat
<1> HIDE DEF fresh, earlier, before, r, n, k
<1>6. r.id \in Nat \ {0} /\ r.at \in Nat /\ r.after \in Int
  BY <1>2, <1>3, <1>4, <1>5
<1>7. r \in Movement
  BY <1>2, <1>4, <1>5, <1>6 DEF Movement
<1>8. id < r.id /\ r.id <= id + n /\ r.at <= now
  BY <1>2, <1>3, <1>5
<1>9. r.before # None /\ r.after = r.before + Effect(r.kind, r.amount)
  BY <1>2, <1>4, <1>5, AmountsAssumption DEF Effect
<1>10. RowOK(r, id + n, now)
  BY <1>2, <1>5, <1>8, <1>9 DEF RowOK
<1> QED
  BY <1>2, <1>3, <1>7, <1>8, <1>10 DEF fresh, r, n

\* No two of them get the same id.
LEMMA FoldRowIds ==
  ASSUME NEW d, NEW t, NEW P \in SUBSET Expenses, NEW at \in [Expenses -> Nat],
         NEW amt, NEW now, NEW id \in Nat,
         NEW e \in Fresh(d, t, P, at), NEW f \in Fresh(d, t, P, at), PaidBefore(at, e, f)
  PROVE  FoldRow(d, t, P, at, amt, now, id, e).id < FoldRow(d, t, P, at, amt, now, id, f).id
<1> DEFINE fresh == Fresh(d, t, P, at)
           E == {x \in fresh : PaidBefore(at, x, e)}
           F == {x \in fresh : PaidBefore(at, x, f)}
<1>1. /\ fresh \subseteq Expenses /\ E \subseteq fresh /\ F \subseteq fresh
      /\ e \in fresh /\ f \in fresh /\ PaidBefore(at, e, f)
  BY DEF Fresh
<1>2. E \subseteq F /\ e \in F /\ e \notin E
  <2> HIDE DEF fresh
  <2>1. ~PaidBefore(at, e, e)
    BY <1>1, PaidOrder
  <2>2. \A x \in fresh : PaidBefore(at, x, e) => PaidBefore(at, x, f)
    BY <1>1, PaidOrder
  <2> QED
    BY <1>1, <2>1, <2>2
<1> HIDE DEF fresh
<1>3. IsFiniteSet(F)
  <2>1. IsFiniteSet(fresh)
    BY <1>1, ExpensesAssumption, FS_Subset
  <2> QED
    BY <1>1, <2>1, FS_Subset
<1>4. /\ FoldRow(d, t, P, at, amt, now, id, e).id = id + Cardinality(E) + 1
      /\ FoldRow(d, t, P, at, amt, now, id, f).id = id + Cardinality(F) + 1
  BY DEF FoldRow, fresh
<1> HIDE DEF E, F
<1>5. Cardinality(E) < Cardinality(F) /\ Cardinality(E) \in Nat /\ Cardinality(F) \in Nat
  BY <1>2, <1>3, FewerInProperSubset
<1> QED
  BY <1>4, <1>5

NewRows(d, t, P, at, amt, now, id) ==
  {FoldRow(d, t, P, at, amt, now, id, e) : e \in Fresh(d, t, P, at)}

\* Fold with the values it leaves behind as parameters.
Folded(d, t, m, id, P, at, amt, now, d2, t2, m2, id2) ==
  IF ~d.isSet
  THEN d2 = d /\ t2 = t /\ m2 = m /\ id2 = id
  ELSE LET fresh == Fresh(d, t, P, at)
           back == Cancelled(t, P)
       IN
       /\ d2 = [d EXCEPT !.balance = @ - Total(amt, fresh) + Total(t, back),
                         !.baseline = TRUE]
       /\ t2 = [e \in Expenses |->
            IF e \in P \ Known(t) THEN amt[e] ELSE IF e \in back THEN 0 ELSE t[e]]
       /\ m2 = {x \in m : x.exp \notin back} \cup NewRows(d, t, P, at, amt, now, id)
       /\ id2 = id + Cardinality(fresh)

\* The rows a fold adds: their ids are new and differ, each states its reimbursement.
LEMMA FoldRows ==
  ASSUME NEW d \in Desk, NEW t \in [Expenses -> Nat], NEW P \in SUBSET Expenses,
         NEW at \in [Expenses -> Nat], NEW amt \in [Expenses -> Amounts], NEW now \in Nat,
         NEW id \in Nat, \A e \in Expenses : at[e] <= now
  PROVE  LET fresh == Fresh(d, t, P, at)
             R == NewRows(d, t, P, at, amt, now, id)
             n == Cardinality(fresh)
         IN  /\ n \in Nat /\ IsFiniteSet(R) /\ R \subseteq Movement
             /\ \A x \in R : /\ RowOK(x, id + n, now) /\ id < x.id
                             /\ x.exp \in fresh /\ x.kind = "expense" /\ x.amount = amt[x.exp]
             /\ \A x, y \in R : x.id = y.id \/ x.exp = y.exp => x = y
<1> DEFINE fresh == Fresh(d, t, P, at)
           row(e) == FoldRow(d, t, P, at, amt, now, id, e)
           R == {row(e) : e \in fresh}
           n == Cardinality(fresh)
<1>1. fresh \subseteq Expenses
  BY DEF Fresh
<1>2. \A e \in fresh : /\ row(e) \in Movement /\ n \in Nat /\ RowOK(row(e), id + n, now)
                       /\ id < row(e).id /\ row(e).exp = e /\ row(e).kind = "expense"
                       /\ row(e).amount = amt[e]
  BY FoldRowOK
<1>3. \A e, f \in fresh : PaidBefore(at, e, f) => row(e).id < row(f).id
  BY FoldRowIds
<1>4. \A e, f \in fresh : e # f => PaidBefore(at, e, f) \/ PaidBefore(at, f, e)
  <2> HIDE DEF fresh
  <2> QED
    BY <1>1, PaidOrder
<1>5. IsFiniteSet(fresh) /\ n \in Nat
  <2> HIDE DEF fresh
  <2> QED
    BY <1>1, ExpensesAssumption, FS_Subset, FS_CardinalityType
<1> HIDE DEF fresh, row, n
<1>6. IsFiniteSet(R)
  <2> DEFINE g == [e \in fresh |-> row(e)]
  <2>1. g \in Surjection(fresh, R)
    BY DEF Surjection
  <2> HIDE DEF g, R
  <2> QED
    BY <1>5, <2>1, FS_Surjection
<1>7. \A e, f \in fresh : row(e).id = row(f).id => e = f
  <2> SUFFICES ASSUME NEW e \in fresh, NEW f \in fresh, e # f
               PROVE  row(e).id # row(f).id
    OBVIOUS
  <2>1. row(e).id \in Nat /\ row(f).id \in Nat
    BY <1>2 DEF Movement
  <2> QED
    BY <1>3, <1>4, <2>1
<1>8. R \subseteq Movement
  BY <1>2
<1>9. \A x \in R : /\ RowOK(x, id + n, now) /\ id < x.id
                   /\ x.exp \in fresh /\ x.kind = "expense" /\ x.amount = amt[x.exp]
  BY <1>2
<1>10. \A x, y \in R : x.id = y.id \/ x.exp = y.exp => x = y
  BY <1>2, <1>7
<1> QED
  BY <1>5, <1>6, <1>8, <1>9, <1>10 DEF R, fresh, row, n, NewRows

LEMMA RowOKLater ==
  ASSUME NEW x \in Movement, NEW id \in Nat, NEW id2 \in Nat, NEW now \in Nat, NEW later \in Nat,
         id <= id2, now <= later, RowOK(x, id, now)
  PROVE  RowOK(x, id2, later)
<1>1. x.id \in Nat /\ x.at \in Nat
  BY DEF Movement
<1>2. x.id <= id2 /\ x.at <= later
  BY <1>1 DEF RowOK
<1> QED
  BY <1>2 DEF RowOK

\* A fold keeps the desk and its history sound.
LEMMA FoldedSound ==
  ASSUME NEW d, NEW t, NEW m, NEW id, NEW P \in SUBSET Expenses,
         NEW at \in [Expenses -> Nat], NEW amt \in [Expenses -> Amounts], NEW now \in Nat,
         \A e \in Expenses : at[e] <= now,
         NEW d2, NEW t2, NEW m2, NEW id2,
         Sound(d, t, m, id, now), Folded(d, t, m, id, P, at, amt, now, d2, t2, m2, id2)
  PROVE  Sound(d2, t2, m2, id2, now)
<1>1. CASE ~d.isSet
  <2>1. d2 = d /\ t2 = t /\ m2 = m /\ id2 = id
    BY <1>1 DEF Folded
  <2> QED
    BY <2>1
<1>2. CASE d.isSet
  <2> DEFINE fresh == Fresh(d, t, P, at)
             back == Cancelled(t, P)
             R == NewRows(d, t, P, at, amt, now, id)
             K == {x \in m : x.exp \notin back}
             n == Cardinality(fresh)
  <2>1. /\ d2 = [d EXCEPT !.balance = @ - Total(amt, fresh) + Total(t, back),
                          !.baseline = TRUE]
        /\ t2 = [e \in Expenses |->
             IF e \in P \ Known(t) THEN amt[e] ELSE IF e \in back THEN 0 ELSE t[e]]
        /\ m2 = K \cup R /\ id2 = id + n
    BY <1>2 DEF Folded
  <2>2. /\ d \in Desk /\ t \in [Expenses -> Nat] /\ m \subseteq Movement
        /\ IsFiniteSet(m) /\ id \in Nat
        /\ \A x \in m : RowOK(x, id, now)
        /\ \A x, y \in m : x.id = y.id => x = y
        /\ Charged(t, m) /\ InTime(m)
    BY DEF Sound
  <2>3. /\ n \in Nat /\ IsFiniteSet(R) /\ R \subseteq Movement
        /\ \A x \in R : /\ RowOK(x, id + n, now) /\ id < x.id
                        /\ x.exp \in fresh /\ x.kind = "expense" /\ x.amount = amt[x.exp]
        /\ \A x, y \in R : x.id = y.id \/ x.exp = y.exp => x = y
    <3>1. d \in Desk /\ t \in [Expenses -> Nat] /\ id \in Nat
      BY <2>2
    <3>2. \A e \in Expenses : at[e] <= now
      OBVIOUS
    <3> QED
      BY ONLY <3>1, <3>2, P \in SUBSET Expenses, at \in [Expenses -> Nat],
              amt \in [Expenses -> Amounts], now \in Nat, FoldRows
  <2>4. /\ fresh \in SUBSET Expenses /\ back \in SUBSET Expenses
        /\ \A e \in fresh : e \in P /\ t[e] = 0
        /\ \A e \in Expenses \ back : t[e] > 0 => e \in P
        /\ \A e \in Expenses : t[e] > 0 => e \in Known(t)
        /\ \A e \in Known(t) : t[e] > 0
    BY <2>2 DEF Fresh, Cancelled, Known
  <2>5. amt \in [Expenses -> Nat]
    BY AmountsNat
  <2>6. Total(amt, fresh) \in Nat /\ Total(t, back) \in Nat
    BY <2>2, <2>4, <2>5, TotalInt
  <2> HIDE DEF fresh, back, R, n
  <2>7. d2 \in Desk /\ d2.isSet
    <3>1. /\ d.isSet \in BOOLEAN /\ d.balance \in Int /\ d.cutoff \in Nat
          /\ d = [isSet |-> d.isSet, balance |-> d.balance, baseline |-> d.baseline,
                  cutoff |-> d.cutoff]
      BY <2>2 DEF Desk
    <3>2. d.balance - Total(amt, fresh) + Total(t, back) \in Int
      BY <2>6, <3>1
    <3>3. d2 = [isSet |-> d.isSet, balance |-> d.balance - Total(amt, fresh) + Total(t, back),
                baseline |-> TRUE, cutoff |-> d.cutoff]
      BY <2>1, <3>1
    <3> QED
      BY <1>2, <3>1, <3>2, <3>3 DEF Desk
  <2>8. t2 \in [Expenses -> Nat]
    BY <2>1, <2>2, <2>5
  <2>9. m2 \subseteq Movement /\ IsFiniteSet(m2) /\ id2 \in Nat
    <3>1. IsFiniteSet(K)
      <4>1. K \in SUBSET m
        OBVIOUS
      <4> QED
        BY <2>2, <4>1, FS_Subset
    <3>2. IsFiniteSet(K \cup R)
      BY <2>3, <3>1, FS_Union
    <3> QED
      BY <2>1, <2>2, <2>3, <3>2
  <2>10. \A x \in m2 : RowOK(x, id2, now)
    <3>1. id <= id2
      BY <2>1, <2>2, <2>3
    <3>2. \A x \in K : RowOK(x, id2, now)
      BY <2>2, <2>9, <3>1, RowOKLater
    <3>3. \A x \in R : RowOK(x, id2, now)
      BY <2>1, <2>3
    <3> QED
      BY <2>1, <3>2, <3>3
  <2>11. \A x, y \in m2 : x.id = y.id => x = y
    <3>1. \A x \in K, y \in R : x.id < y.id /\ x.id # y.id
      <4> SUFFICES ASSUME NEW x \in K, NEW y \in R
                   PROVE  x.id < y.id /\ x.id # y.id
        OBVIOUS
      <4>1. x.id \in Nat /\ y.id \in Nat /\ x.id <= id /\ id < y.id
        BY <2>2, <2>3 DEF Movement, RowOK
      <4> QED
        BY <2>2, <4>1
    <3> QED
      BY <2>1, <2>2, <2>3, <3>1
  <2>12. Charged(t2, m2)
    <3>1. \A x \in m : x.kind = "set" => x \in K
      BY <2>2, <2>4, ExpensesAssumption DEF RowOK
    <3>2. \A x \in m2 : Current(m2, x) => Current(m, x)
      BY <2>1, <3>1 DEF Current
    <3>3. \A x \in K : Current(m2, x) /\ x.exp # None =>
            /\ x.exp \in P /\ t[x.exp] = x.amount /\ x.exp \in Known(t) /\ x.exp \notin back
            /\ x.exp \notin fresh /\ x.exp \in Expenses
      <4> SUFFICES ASSUME NEW x \in K, Current(m2, x), x.exp # None
                   PROVE  /\ x.exp \in P /\ t[x.exp] = x.amount /\ x.exp \in Known(t)
                          /\ x.exp \notin back /\ x.exp \notin fresh /\ x.exp \in Expenses
        OBVIOUS
      <4>1. x.exp \in Expenses /\ x.amount > 0 /\ x.exp \notin back
        BY <2>2 DEF Movement, RowOK
      <4>2. t[x.exp] = x.amount
        BY <2>1, <2>2, <3>2 DEF Charged
      <4> QED
        BY <2>2, <2>4, <4>1, <4>2
    <3> SUFFICES ASSUME NEW x \in m2, Current(m2, x), x.exp # None
                 PROVE  /\ t2[x.exp] = x.amount
                        /\ \A y \in m2 : Current(m2, y) /\ y.exp = x.exp => y = x
      BY DEF Charged
    <3>4. CASE x \in K
      <4>1. t2[x.exp] = x.amount
        BY <2>1, <3>3, <3>4
      <4>2. \A y \in K : Current(m2, y) /\ y.exp = x.exp => y = x
        <5>1. Current(m, x) /\ x \in m
          BY <3>2, <3>4
        <5>2. \A y \in m : Current(m, y) /\ y.exp = x.exp => y = x
          BY <2>2, <5>1 DEF Charged
        <5> QED
          BY <2>1, <3>2, <5>2
      <4>3. \A y \in R : y.exp # x.exp
        BY <2>3, <3>3, <3>4
      <4> QED
        BY <2>1, <4>1, <4>2, <4>3
    <3>5. CASE x \in R
      <4>1. x.exp \in fresh /\ x.exp \in Expenses /\ x.exp \in P \ Known(t)
        BY <2>3, <2>4, <3>5
      <4>2. t2[x.exp] = x.amount
        BY <2>1, <2>3, <3>5, <4>1
      <4>3. \A y \in K : Current(m2, y) => y.exp # x.exp
        BY <3>3, <4>1
      <4>4. \A y \in R : y.exp = x.exp => y = x
        BY <2>3, <3>5
      <4> QED
        BY <2>1, <4>2, <4>3, <4>4
    <3> QED
      BY <2>1, <3>4, <3>5
  <2>13. InTime(m2)
    <3>1. \A x \in R : x.exp # None
      BY <2>3, <2>4, ExpensesAssumption
    <3> QED
      BY <2>1, <2>2, <3>1 DEF InTime
  <2> QED
    BY <2>7, <2>8, <2>9, <2>10, <2>11, <2>12, <2>13 DEF Sound
<1> QED
  BY <1>1, <1>2 DEF Sound, Desk

-----------------------------------------------------------------------------
(* Rows added and edited.                                                    *)

\* A row of its own id is added; what is reflected may be forgotten with it.
LEMMA RowAdded ==
  ASSUME NEW d, NEW t, NEW m, NEW id, NEW now \in Nat, Sound(d, t, m, id, now),
         NEW d2 \in Desk, d2.isSet, NEW t2 \in [Expenses -> Nat], NEW r \in Movement,
         r.id = id + 1, r.at = now + 1, r.exp = None, RowOK(r, id + 1, now + 1),
         r.kind = "set" \/ t2 = t
  PROVE  Sound(d2, t2, m \cup {r}, id + 1, now + 1)
<1>1. /\ m \subseteq Movement /\ IsFiniteSet(m) /\ id \in Nat
      /\ \A x \in m : RowOK(x, id, now)
      /\ \A x, y \in m : x.id = y.id => x = y
      /\ Charged(t, m) /\ InTime(m)
  BY DEF Sound
<1>2. m \cup {r} \subseteq Movement /\ IsFiniteSet(m \cup {r}) /\ id + 1 \in Nat
  BY <1>1, FS_AddElement
<1>3. \A x \in m \cup {r} : RowOK(x, id + 1, now + 1)
  <2>1. id + 1 \in Nat /\ now + 1 \in Nat /\ id <= id + 1 /\ now <= now + 1
    BY <1>1
  <2>2. \A x \in m : RowOK(x, id + 1, now + 1)
    BY <1>1, <2>1, RowOKLater
  <2> QED
    BY <2>2
<1>4. \A x \in m : x.id < r.id /\ x.id # r.id /\ ~(r.id < x.id)
  <2> SUFFICES ASSUME NEW x \in m PROVE x.id < r.id /\ x.id # r.id /\ ~(r.id < x.id)
    OBVIOUS
  <2>1. x.id \in Nat /\ x.id <= id
    BY <1>1 DEF Movement, RowOK
  <2> QED
    BY <1>1, <2>1
<1>5. Charged(t2, m \cup {r})
  <2>1. CASE r.kind = "set"
    <3>1. \A x \in m \cup {r} : ~Current(m \cup {r}, x)
      <4>1. \A x \in m : ~Current(m \cup {r}, x)
        BY <1>4, <2>1 DEF Current
      <4>2. ~(r.id < r.id)
        BY <1>1
      <4>3. ~Current(m \cup {r}, r)
        BY <2>1, <4>2 DEF Current
      <4> QED
        BY <4>1, <4>3
    <3> QED
      BY <3>1 DEF Charged
  <2>2. CASE t2 = t
    <3>1. \A x \in m : Current(m \cup {r}, x) => Current(m, x)
      BY DEF Current
    <3> QED
      BY <1>1, <2>2, <3>1 DEF Charged
  <2> QED
    BY <2>1, <2>2
<1>6. InTime(m \cup {r})
  <2>1. \A x \in m : x.at < r.at
    <3> SUFFICES ASSUME NEW x \in m PROVE x.at < r.at
      OBVIOUS
    <3>1. x.at \in Nat /\ x.at <= now
      BY <1>1 DEF Movement, RowOK
    <3> QED
      BY <3>1
  <2>2. ~(r.id < r.id)
    BY <1>1
  <2> QED
    BY <1>1, <1>4, <2>1, <2>2 DEF InTime
<1> QED
  BY <1>1, <1>2, <1>3, <1>4, <1>5, <1>6 DEF Sound

\* What propagate_cash_delta makes of one row.
Reached(R, m, x) ==
  /\ Earlier(m, x)
  /\ ~\E y \in R : Earlier(m, y) /\ y.kind = "set" /\ Earlier(y, x)

ShiftRow(R, m, delta, x) ==
  IF ~Reached(R, m, x) THEN x
  ELSE [x EXCEPT !.before = IF @ = None THEN None ELSE @ + delta,
                 !.after = IF x.kind = "set" THEN @ ELSE @ + delta]

LEMMA ShiftedRows ==
  ASSUME NEW R, NEW m, NEW delta
  PROVE  Shifted(R, m, delta) = {ShiftRow(R, m, delta, x) : x \in R}
<1>1. \A x \in R : Reached(R, m, x) <=>
        /\ x \in {y \in R : Earlier(m, y)}
        /\ ~\E y \in {z \in {y \in R : Earlier(m, y)} : z.kind = "set"} : Earlier(y, x)
  BY DEF Reached
<1> QED
  BY <1>1 DEF Shifted, ShiftRow

\* A shifted row is the row it was, and adds up as it did.
LEMMA ShiftRowKeeps ==
  ASSUME NEW R, NEW m, NEW delta \in Int, NEW x \in Movement
  PROVE  LET y == ShiftRow(R, m, delta, x) IN
         /\ y \in Movement
         /\ y.id = x.id /\ y.kind = x.kind /\ y.amount = x.amount /\ y.exp = x.exp /\ y.at = x.at
         /\ \A id, now : RowOK(x, id, now) => RowOK(y, id, now)
<1> DEFINE y == ShiftRow(R, m, delta, x)
<1>1. CASE ~Reached(R, m, x)
  <2>1. y = x
    BY <1>1 DEF ShiftRow
  <2> QED
    BY <2>1
<1>2. CASE Reached(R, m, x)
  <2>1. /\ x.id \in Nat \ {0} /\ x.kind \in {"set", "expense", "topup"} /\ x.amount \in Nat
        /\ x.before \in Int \cup {None} /\ x.after \in Int /\ x.exp \in Expenses \cup {None}
        /\ x.at \in Nat
        /\ x = [id |-> x.id, kind |-> x.kind, amount |-> x.amount, before |-> x.before,
                after |-> x.after, exp |-> x.exp, at |-> x.at]
    BY DEF Movement
  <2> DEFINE b == IF x.before = None THEN None ELSE x.before + delta
             a == IF x.kind = "set" THEN x.after ELSE x.after + delta
  <2>2. y = [id |-> x.id, kind |-> x.kind, amount |-> x.amount, before |-> b,
             after |-> a, exp |-> x.exp, at |-> x.at]
    BY <1>2, <2>1 DEF ShiftRow
  <2>3. b \in Int \cup {None} /\ a \in Int
    BY <2>1
  <2>4. x.kind # "set" /\ x.before # None /\ x.after = x.before + Effect(x.kind, x.amount)
          => b # None /\ a = b + Effect(x.kind, x.amount)
    <3>1. Effect(x.kind, x.amount) \in Int
      BY <2>1, EffectInt
    <3> QED
      BY <2>1, <3>1, AmountsAssumption
  <2>5. x.kind = "set" => a = x.after
    OBVIOUS
  <2> HIDE DEF y, a, b
  <2>6. /\ y.id = x.id /\ y.kind = x.kind /\ y.amount = x.amount /\ y.exp = x.exp /\ y.at = x.at
        /\ y.before = b /\ y.after = a
    BY <2>2
  <2>7. y \in Movement
    BY <2>1, <2>2, <2>3 DEF Movement
  <2>8. \A id, now : RowOK(x, id, now) => RowOK(y, id, now)
    BY <2>4, <2>5, <2>6 DEF RowOK
  <2> QED
    BY <2>6, <2>7, <2>8 DEF y
<1> QED
  BY <1>1, <1>2

\* A manual row r is replaced by the rows of E, at most one with its id, and the
\* rows after it are shifted.
LEMMA RowEdited ==
  ASSUME NEW d, NEW t, NEW m, NEW id, NEW now \in Nat, Sound(d, t, m, id, now),
         NEW r \in m, IsManual(r), NEW delta \in Int, NEW d2 \in Desk, d2.isSet = d.isSet,
         NEW E, E \subseteq Movement, IsFiniteSet(E), \A x, y \in E : x = y,
         \A x \in E : /\ x.id = r.id /\ x.at = r.at /\ x.exp = None /\ x.kind # "set"
                      /\ RowOK(x, id, now),
         NEW m2, m2 = Shifted(m \ {r}, r, delta) \cup E
  PROVE  Sound(d2, t, m2, id, now)
<1> DEFINE R == m \ {r}
           sh(x) == ShiftRow(R, r, delta, x)
           S == {sh(x) : x \in R}
<1>1. /\ m \subseteq Movement /\ IsFiniteSet(m) /\ id \in Nat /\ t \in [Expenses -> Nat]
      /\ \A x \in m : RowOK(x, id, now)
      /\ \A x, y \in m : x.id = y.id => x = y
      /\ d.isSet /\ Charged(t, m) /\ InTime(m)
  BY DEF Sound
<1>2. m2 = S \cup E
  BY ShiftedRows
<1>3. \A x \in R : /\ sh(x) \in Movement
                   /\ sh(x).id = x.id /\ sh(x).kind = x.kind /\ sh(x).amount = x.amount
                   /\ sh(x).exp = x.exp /\ sh(x).at = x.at /\ RowOK(sh(x), id, now)
  BY <1>1, ShiftRowKeeps
<1>4. IsFiniteSet(m2) /\ m2 \subseteq Movement
  <2>1. IsFiniteSet(R)
    BY <1>1, FS_RemoveElement
  <2> DEFINE g == [x \in R |-> sh(x)]
  <2>2. g \in Surjection(R, S)
    BY DEF Surjection
  <2> HIDE DEF g, S, R
  <2>3. IsFiniteSet(S)
    BY <2>1, <2>2, FS_Surjection
  <2>4. IsFiniteSet(S \cup E)
    BY <2>3, FS_Union
  <2>5. S \subseteq Movement
    BY <1>3 DEF S
  <2> QED
    BY <1>2, <2>4, <2>5
<1> HIDE DEF sh
<1>5. \A x \in m2 : RowOK(x, id, now)
  BY <1>2, <1>3
<1>6. \A x, y \in m2 : x.id = y.id => x = y
  <2>1. \A x, y \in R : sh(x).id = sh(y).id => sh(x) = sh(y)
    BY <1>1, <1>3
  <2>2. \A x \in R, y \in E : sh(x).id # y.id
    BY <1>1, <1>3
  <2> QED
    BY <1>2, <2>1, <2>2
<1>7. Charged(t, m2)
  <2>1. \A x \in m : x.kind = "set" => x \in R
    BY DEF IsManual
  <2>2. \A x \in R : Current(m2, sh(x)) => Current(m, x)
    <3> SUFFICES ASSUME NEW x \in R, Current(m2, sh(x)), NEW y \in m, y.kind = "set"
                 PROVE  y.id < x.id
      BY DEF Current
    <3>1. y \in R /\ sh(y) \in m2 /\ sh(y).kind = "set" /\ sh(y).id = y.id
      BY <1>2, <1>3, <2>1
    <3> QED
      BY <1>3, <3>1 DEF Current
  <2>3. \A x \in m2 : x.exp # None => \E y \in R : x = sh(y)
    BY <1>2
  <2> SUFFICES ASSUME NEW x \in m2, Current(m2, x), x.exp # None
               PROVE  /\ t[x.exp] = x.amount
                      /\ \A y \in m2 : Current(m2, y) /\ y.exp = x.exp => y = x
    BY DEF Charged
  <2>4. PICK u \in R : x = sh(u)
    BY <2>3
  <2>5. Current(m, u) /\ u \in m /\ u.exp = x.exp /\ u.amount = x.amount /\ u.exp # None
    BY <1>3, <2>2, <2>4
  <2>6. t[u.exp] = u.amount /\ \A v \in m : Current(m, v) /\ v.exp = u.exp => v = u
    BY <1>1, <2>5 DEF Charged
  <2>7. \A y \in m2 : Current(m2, y) /\ y.exp = x.exp => y = x
    <3> SUFFICES ASSUME NEW y \in m2, Current(m2, y), y.exp = x.exp
                 PROVE  y = x
      OBVIOUS
    <3>1. PICK v \in R : y = sh(v)
      BY <2>3
    <3>2. Current(m, v) /\ v.exp = u.exp /\ v \in m
      BY <1>3, <2>2, <2>5, <3>1
    <3> QED
      BY <2>4, <2>6, <3>1, <3>2
  <2> QED
    BY <2>5, <2>6, <2>7
<1>8. InTime(m2)
  <2>1. \A x \in m2 : \E y \in m : y.id = x.id /\ y.at = x.at /\ y.exp = x.exp
    <3>1. \A x \in S : \E y \in m : y.id = x.id /\ y.at = x.at /\ y.exp = x.exp
      BY <1>3
    <3>2. \A x \in E : r.id = x.id /\ r.at = x.at /\ r.exp = x.exp
      BY DEF IsManual
    <3> QED
      BY <1>2, <3>1, <3>2
  <2> SUFFICES ASSUME NEW x \in m2, NEW y \in m2, x.exp = None, y.exp = None, x.id < y.id
               PROVE  x.at < y.at
    BY DEF InTime
  <2>2. PICK u \in m : u.id = x.id /\ u.at = x.at /\ u.exp = x.exp
    BY <2>1
  <2>3. PICK v \in m : v.id = y.id /\ v.at = y.at /\ v.exp = y.exp
    BY <2>1
  <2>4. u.at < v.at
    BY <1>1, <2>2, <2>3 DEF InTime
  <2> QED
    BY <2>2, <2>3, <2>4
<1> QED
  BY <1>1, <1>4, <1>5, <1>6, <1>7, <1>8 DEF Sound

-----------------------------------------------------------------------------
(* The inductive invariant.                                                  *)

\* The times and sums a fold reads: the request a handler holds, in memory.
LEMMA ReadRequests ==
  ASSUME IInv
  PROVE  /\ PaidCash \in SUBSET Expenses
         /\ PaidAt \in [Expenses -> Nat] /\ AmountOf \in [Expenses -> Amounts]
         /\ \A e \in Expenses : PaidAt[e] <= clock
         /\ \A s \in Sessions : handler[s] # Idle =>
              LET h == handler[s]
                  at == [PaidAt EXCEPT ![h.exp] = h.paidAt]
              IN  /\ h \in Running
                  /\ at \in [Expenses -> Nat] /\ \A e \in Expenses : at[e] <= clock
                  /\ [AmountOf EXCEPT ![h.exp] = h.amount] \in [Expenses -> Amounts]
<1>1. req \in [Expenses -> Request] /\ \A e \in Expenses : req[e].paidAt <= clock
  BY DEF IInv
<1>2. PaidCash \in SUBSET Expenses
  BY DEF PaidCash
<1>3. /\ PaidAt \in [Expenses -> Nat] /\ AmountOf \in [Expenses -> Amounts]
      /\ \A e \in Expenses : PaidAt[e] <= clock
  BY <1>1 DEF PaidAt, AmountOf, Request
<1>4. ASSUME NEW s \in Sessions, handler[s] # Idle
      PROVE  LET h == handler[s]
                 at == [PaidAt EXCEPT ![h.exp] = h.paidAt]
             IN  /\ h \in Running
                 /\ at \in [Expenses -> Nat] /\ \A e \in Expenses : at[e] <= clock
                 /\ [AmountOf EXCEPT ![h.exp] = h.amount] \in [Expenses -> Amounts]
  <2> DEFINE h == handler[s]
  <2>1. h \in Running /\ h.paidAt <= clock
    BY <1>4 DEF IInv
  <2>2. h.exp \in Expenses /\ h.paidAt \in Nat /\ h.amount \in Amounts
    BY <2>1 DEF Running
  <2> HIDE DEF h
  <2> QED
    BY <1>3, <2>1, <2>2 DEF h
<1> QED
  BY <1>2, <1>3, <1>4

LEMMA FoldSound ==
  ASSUME Sound(desk, tracked, moves, lastId, clock), clock \in Nat,
         NEW P, P \in SUBSET Expenses, NEW at, at \in [Expenses -> Nat],
         NEW amt, amt \in [Expenses -> Amounts], \A e \in Expenses : at[e] <= clock,
         Fold(desk, tracked, moves, lastId, P, at, amt, clock)
  PROVE  Sound(desk', tracked', moves', lastId', clock)
<1>1. Folded(desk, tracked, moves, lastId, P, at, amt, clock, desk', tracked', moves', lastId')
  BY DEF Fold, Folded, NewRows
<1> QED
  BY <1>1, FoldedSound

LEMMA Initially == Init => IInv
<1> SUFFICES ASSUME Init PROVE IInv
  OBVIOUS
<1>1. /\ req \in [Expenses -> {[status |-> "open", cash |-> TRUE, amount |-> a, paidAt |-> 0] :
                               a \in Amounts}]
      /\ desk = [isSet |-> FALSE, balance |-> 0, baseline |-> FALSE, cutoff |-> 0]
      /\ tracked = [e \in Expenses |-> 0]
      /\ moves = {} /\ lastId = 0 /\ clock = 0
      /\ handler = [s \in Sessions |-> Idle]
  BY DEF Init
<1>2. req \in [Expenses -> Request] /\ \A e \in Expenses : req[e].paidAt = 0
  <2>1. \A e \in Expenses : \E a \in Amounts :
          req[e] = [status |-> "open", cash |-> TRUE, amount |-> a, paidAt |-> 0]
    BY <1>1
  <2>2. \A e \in Expenses : req[e] \in Request /\ req[e].paidAt = 0
    <3> SUFFICES ASSUME NEW e \in Expenses
                 PROVE  req[e] \in Request /\ req[e].paidAt = 0
      OBVIOUS
    <3>1. PICK a \in Amounts :
            req[e] = [status |-> "open", cash |-> TRUE, amount |-> a, paidAt |-> 0]
      BY <2>1
    <3> QED
      BY <3>1 DEF Request
  <2> QED
    BY <1>1, <2>2
<1>3. Sound(desk, tracked, moves, lastId, clock)
  BY <1>1, FS_EmptySet DEF Sound, Desk, Charged, InTime
<1> QED
  BY <1>1, <1>2, <1>3 DEF IInv

LEMMA LoadKeeps ==
  ASSUME IInv, NEW s \in Sessions, NEW e \in Expenses, NEW op \in {"pay", "unpay", "close"},
         Load(s, e, op)
  PROVE  IInv'
<1> DEFINE h == [op |-> op, exp |-> e, amount |-> req[e].amount,
                 paidAt |-> CASE op = "pay" -> clock + 1
                              [] op = "unpay" -> 0
                              [] op = "close" -> req[e].paidAt]
<1>1. /\ clock' = clock + 1 /\ handler' = [handler EXCEPT ![s] = h]
      /\ req' = req /\ desk' = desk /\ tracked' = tracked /\ moves' = moves /\ lastId' = lastId
  BY DEF Load
<1>2. /\ req \in [Expenses -> Request] /\ clock \in Nat
      /\ \A f \in Expenses : req[f].paidAt <= clock
      /\ handler \in [Sessions -> Running \cup {Idle}]
      /\ \A r \in Sessions : handler[r] # Idle => handler[r].paidAt <= clock
      /\ Sound(desk, tracked, moves, lastId, clock)
  BY DEF IInv
<1>3. h \in Running /\ h.paidAt <= clock + 1
  <2>1. req[e].amount \in Amounts /\ req[e].paidAt \in Nat /\ req[e].paidAt <= clock
    BY <1>2 DEF Request
  <2> QED
    BY <1>2, <2>1 DEF Running
<1> HIDE DEF h
<1>4. /\ handler' \in [Sessions -> Running \cup {Idle}]
      /\ \A r \in Sessions : handler'[r] # Idle => handler'[r].paidAt <= clock'
  <2>1. handler' \in [Sessions -> Running \cup {Idle}]
    BY <1>1, <1>2, <1>3
  <2>2. ASSUME NEW r \in Sessions, handler'[r] # Idle
        PROVE  handler'[r].paidAt <= clock'
    <3>1. CASE r = s
      BY <1>1, <1>2, <1>3, <3>1
    <3>2. CASE r # s
      <4>1. handler[r] \in Running /\ handler[r].paidAt <= clock /\ handler'[r] = handler[r]
        BY <1>1, <1>2, <2>2, <3>2
      <4>2. handler[r].paidAt \in Nat
        BY <4>1 DEF Running
      <4> QED
        BY <1>1, <1>2, <4>1, <4>2
    <3> QED
      BY <3>1, <3>2
  <2> QED
    BY <2>1, <2>2
<1>5. req' \in [Expenses -> Request] /\ \A f \in Expenses : req'[f].paidAt <= clock'
  BY <1>1, <1>2 DEF Request
<1>6. Sound(desk', tracked', moves', lastId', clock')
  <2>1. \A x \in moves : RowOK(x, lastId, clock + 1)
    <3>1. clock <= clock + 1 /\ clock + 1 \in Nat /\ lastId \in Nat /\ lastId <= lastId
      BY <1>2 DEF Sound
    <3> QED
      BY <1>2, <3>1, RowOKLater DEF Sound
  <2> QED
    BY <1>1, <1>2, <2>1 DEF Sound
<1> QED
  BY <1>1, <1>2, <1>4, <1>5, <1>6 DEF IInv

\* A handler that ends frees its session.
LEMMA HandlerEnds ==
  ASSUME IInv, NEW s \in Sessions, handler' = [handler EXCEPT ![s] = Idle], clock' = clock
  PROVE  /\ handler' \in [Sessions -> Running \cup {Idle}]
         /\ \A r \in Sessions : handler'[r] # Idle => handler'[r].paidAt <= clock'
BY DEF IInv

LEMMA Restamped ==
  ASSUME NEW q \in Request, NEW st, NEW at
  PROVE  [q EXCEPT !.status = st, !.paidAt = at]
           = [status |-> st, cash |-> q.cash, amount |-> q.amount, paidAt |-> at]
<1>1. /\ q.cash \in BOOLEAN
      /\ q = [status |-> q.status, cash |-> q.cash, amount |-> q.amount, paidAt |-> q.paidAt]
  BY DEF Request
<1> DEFINE r == [q EXCEPT !.status = st]
<1>2. r = [status |-> st, cash |-> q.cash, amount |-> q.amount, paidAt |-> q.paidAt]
  BY <1>1
<1> HIDE DEF r
<1>3. [r EXCEPT !.paidAt = at]
        = [status |-> st, cash |-> q.cash, amount |-> q.amount, paidAt |-> at]
  BY <1>2
<1>4. [q EXCEPT !.status = st, !.paidAt = at] = [r EXCEPT !.paidAt = at]
  BY DEF r
<1> QED
  BY <1>3, <1>4

LEMMA FinishKeeps ==
  ASSUME IInv, NEW s \in Sessions, Finish(s)
  PROVE  IInv'
<1> DEFINE h == handler[s]
           at == [PaidAt EXCEPT ![h.exp] = h.paidAt]
           amt == [AmountOf EXCEPT ![h.exp] = h.amount]
<1>1. /\ h # Idle /\ clock' = clock /\ handler' = [handler EXCEPT ![s] = Idle]
      /\ Fold(desk, tracked, moves, lastId, PaidCash, at, amt, clock)
      /\ req' = [req EXCEPT ![h.exp].status = StatusAfter(h.op), ![h.exp].paidAt =
                   IF h.op = "close" THEN @ ELSE h.paidAt]
  BY DEF Finish
<1>2. /\ PaidCash \in SUBSET Expenses
      /\ h \in Running
      /\ at \in [Expenses -> Nat] /\ \A e \in Expenses : at[e] <= clock
      /\ amt \in [Expenses -> Amounts]
  BY <1>1, ReadRequests
<1>3. clock \in Nat /\ Sound(desk, tracked, moves, lastId, clock) /\ h.paidAt <= clock
      /\ req \in [Expenses -> Request] /\ \A f \in Expenses : req[f].paidAt <= clock
  BY <1>1 DEF IInv
<1>4. Sound(desk', tracked', moves', lastId', clock)
  <2> HIDE DEF at, amt, h
  <2> QED
    BY <1>1, <1>2, <1>3, FoldSound
<1>5. req' \in [Expenses -> Request] /\ \A f \in Expenses : req'[f].paidAt <= clock
  <2>1. /\ h.exp \in Expenses /\ h.op \in {"pay", "unpay", "close"} /\ h.paidAt \in Nat
        /\ StatusAfter(h.op) \in {"open", "paid", "closed", "gone"}
    BY <1>2 DEF Running, StatusAfter
  <2> HIDE DEF h
  <2> DEFINE q == req[h.exp]
             p == IF h.op = "close" THEN q.paidAt ELSE h.paidAt
             new == [status |-> StatusAfter(h.op), cash |-> q.cash, amount |-> q.amount, paidAt |-> p]
  <2>2. /\ q \in Request /\ q.paidAt \in Nat /\ q.paidAt <= clock /\ q.amount \in Amounts
        /\ q.cash \in BOOLEAN
    BY <1>3, <2>1 DEF Request
  <2>3. new \in Request /\ new.paidAt <= clock
    BY <1>3, <2>1, <2>2 DEF Request
  <2>4. req' = [req EXCEPT ![h.exp] = new]
    <3>2. [q EXCEPT !.status = StatusAfter(h.op), !.paidAt = p] = new
      <4> HIDE DEF q, p
      <4> QED
        BY <2>2, Restamped
    <3>3. req' = [req EXCEPT ![h.exp] = [q EXCEPT !.status = StatusAfter(h.op), !.paidAt = p]]
      BY <1>1, <1>3, <2>1
    <3> QED
      BY <3>2, <3>3
  <2> HIDE DEF new, q
  <2> QED
    BY <1>3, <2>1, <2>3, <2>4
<1>6. /\ handler' \in [Sessions -> Running \cup {Idle}]
      /\ \A r \in Sessions : handler'[r] # Idle => handler'[r].paidAt <= clock'
  BY <1>1, HandlerEnds
<1> QED
  BY <1>1, <1>3, <1>4, <1>5, <1>6 DEF IInv

LEMMA FailKeeps ==
  ASSUME IInv, NEW s \in Sessions, Fail(s)
  PROVE  IInv'
<1>1. /\ handler' = [handler EXCEPT ![s] = Idle]
      /\ req' = req /\ desk' = desk /\ tracked' = tracked /\ moves' = moves /\ lastId' = lastId
      /\ clock' = clock
  BY DEF Fail
<1>2. /\ handler' \in [Sessions -> Running \cup {Idle}]
      /\ \A r \in Sessions : handler'[r] # Idle => handler'[r].paidAt <= clock'
  BY <1>1, HandlerEnds
<1> QED
  BY <1>1, <1>2 DEF IInv

LEMMA EditKeeps ==
  ASSUME IInv, NEW e \in Expenses, NEW a \in Amounts, NEW c \in BOOLEAN, Edit(e, a, c)
  PROVE  IInv'
<1>1. /\ req' = [req EXCEPT ![e].amount = a, ![e].cash = c]
      /\ handler' = handler /\ desk' = desk /\ tracked' = tracked /\ moves' = moves
      /\ lastId' = lastId /\ clock' = clock
  BY DEF Edit
<1>2. req \in [Expenses -> Request] /\ \A f \in Expenses : req[f].paidAt <= clock
  BY DEF IInv
<1>3. req' \in [Expenses -> Request] /\ \A f \in Expenses : req'[f].paidAt <= clock
  BY <1>1, <1>2 DEF Request
<1> QED
  BY <1>1, <1>3 DEF IInv

LEMMA RemoveKeeps ==
  ASSUME IInv, NEW e \in Expenses, Remove(e)
  PROVE  IInv'
<1>1. /\ req' = [req EXCEPT ![e].status = "gone"]
      /\ handler' = handler /\ desk' = desk /\ tracked' = tracked /\ moves' = moves
      /\ lastId' = lastId /\ clock' = clock
  BY DEF Remove
<1>2. req \in [Expenses -> Request] /\ \A f \in Expenses : req[f].paidAt <= clock
  BY DEF IInv
<1>3. req' \in [Expenses -> Request] /\ \A f \in Expenses : req'[f].paidAt <= clock
  BY <1>1, <1>2 DEF Request
<1> QED
  BY <1>1, <1>3 DEF IInv

LEMMA GetCashKeeps ==
  ASSUME IInv, GetCash
  PROVE  IInv'
<1>1. /\ Fold(desk, tracked, moves, lastId, PaidCash, PaidAt, AmountOf, clock)
      /\ req' = req /\ clock' = clock /\ handler' = handler
  BY DEF GetCash
<1>2. clock \in Nat /\ Sound(desk, tracked, moves, lastId, clock)
  BY DEF IInv
<1>3. Sound(desk', tracked', moves', lastId', clock)
  BY <1>1, <1>2, ReadRequests, FoldSound
<1> QED
  BY <1>1, <1>3 DEF IInv

LEMMA SetBalanceKeeps ==
  ASSUME IInv, NEW a \in Amounts, SetBalance(a)
  PROVE  IInv'
<1> DEFINE now == clock + 1
           d == [isSet |-> TRUE, balance |-> a, baseline |-> FALSE, cutoff |-> now]
           t == [e \in Expenses |-> 0]
           b == IF desk.isSet THEN desk.balance ELSE None
           r == [id |-> lastId + 1, kind |-> "set", amount |-> a, before |-> b,
                 after |-> a, exp |-> None, at |-> now]
<1>1. /\ clock' = now
      /\ Fold(d, t, moves \cup {r}, lastId + 1, PaidCash, PaidAt, AmountOf, now)
      /\ req' = req /\ handler' = handler
  BY DEF SetBalance
<1>2. /\ clock \in Nat /\ Sound(desk, tracked, moves, lastId, clock)
      /\ req \in [Expenses -> Request] /\ \A f \in Expenses : req[f].paidAt <= clock
      /\ handler \in [Sessions -> Running \cup {Idle}]
      /\ \A s \in Sessions : handler[s] # Idle => handler[s].paidAt <= clock
  BY DEF IInv
<1>3. Sound(d, t, moves \cup {r}, lastId + 1, now)
  <2>1. a \in Nat /\ now \in Nat /\ lastId \in Nat /\ b \in Int \cup {None}
    BY <1>2, AmountsNat DEF Sound, Desk
  <2>2. d \in Desk /\ d.isSet /\ t \in [Expenses -> Nat]
    BY <2>1 DEF Desk
  <2>3. /\ r \in Movement /\ r.id = lastId + 1 /\ r.exp = None /\ r.kind = "set"
        /\ r.at = now /\ r.after = r.amount
    <3> HIDE DEF b, now
    <3> QED
      BY <2>1 DEF Movement
  <2> HIDE DEF r, d, t
  <2>4. RowOK(r, lastId + 1, clock + 1)
    BY <2>1, <2>3 DEF RowOK
  <2> QED
    BY <1>2, <2>2, <2>3, <2>4, RowAdded
<1>4. Folded(d, t, moves \cup {r}, lastId + 1, PaidCash, PaidAt, AmountOf, now,
             desk', tracked', moves', lastId')
  <2> HIDE DEF d, t, r, now
  <2> QED
    BY <1>1 DEF Fold, Folded, NewRows
<1>5. /\ now \in Nat /\ PaidCash \in SUBSET Expenses /\ PaidAt \in [Expenses -> Nat]
      /\ AmountOf \in [Expenses -> Amounts] /\ \A e \in Expenses : PaidAt[e] <= now
  <2>1. /\ PaidCash \in SUBSET Expenses /\ PaidAt \in [Expenses -> Nat]
        /\ AmountOf \in [Expenses -> Amounts] /\ \A e \in Expenses : PaidAt[e] <= clock
    BY ReadRequests
  <2> QED
    BY <1>2, <2>1
<1>6. Sound(desk', tracked', moves', lastId', now)
  <2> HIDE DEF d, t, r, now
  <2> QED
    BY <1>3, <1>4, <1>5, FoldedSound
<1>7. \A f \in Expenses : req'[f].paidAt <= clock'
  <2>1. \A f \in Expenses : req[f].paidAt \in Nat
    BY <1>2 DEF Request
  <2> QED
    BY <1>1, <1>2, <2>1
<1>8. \A s \in Sessions : handler'[s] # Idle => handler'[s].paidAt <= clock'
  <2>1. \A s \in Sessions : handler[s] # Idle => handler[s].paidAt \in Nat
    BY <1>2 DEF Running
  <2> QED
    BY <1>1, <1>2, <2>1
<1> QED
  BY <1>1, <1>2, <1>5, <1>6, <1>7, <1>8 DEF IInv

LEMMA RecordKeeps ==
  ASSUME IInv, NEW a \in Amounts, NEW kind \in {"expense", "topup"}, Record(kind, a)
  PROVE  IInv'
<1> DEFINE b == desk.balance
           c == b + Effect(kind, a)
           r == [id |-> lastId + 1, kind |-> kind, amount |-> a, before |-> b,
                 after |-> c, exp |-> None, at |-> clock + 1]
<1>1. /\ clock' = clock + 1 /\ lastId' = lastId + 1 /\ desk.isSet
      /\ desk' = [desk EXCEPT !.balance = @ + Effect(kind, a)]
      /\ moves' = moves \cup {r}
      /\ req' = req /\ tracked' = tracked /\ handler' = handler
  BY DEF Record
<1>2. /\ clock \in Nat /\ Sound(desk, tracked, moves, lastId, clock)
      /\ req \in [Expenses -> Request] /\ \A f \in Expenses : req[f].paidAt <= clock
      /\ handler \in [Sessions -> Running \cup {Idle}]
      /\ \A s \in Sessions : handler[s] # Idle => handler[s].paidAt <= clock
      /\ desk \in Desk /\ tracked \in [Expenses -> Nat] /\ lastId \in Nat
  BY DEF IInv, Sound
<1>3. a \in Nat /\ b \in Int /\ c \in Int /\ Effect(kind, a) \in Int
  BY <1>2, AmountsNat, EffectInt DEF Desk
<1>4. desk' \in Desk /\ desk'.isSet
  <2> HIDE DEF b, c
  <2> QED
    BY <1>1, <1>2, <1>3 DEF Desk
<1>5. /\ r \in Movement /\ r.id = lastId + 1 /\ r.exp = None /\ r.kind = kind
      /\ r.at = clock + 1 /\ r.amount = a /\ r.before = b /\ r.after = c
  <2> HIDE DEF b, c
  <2> QED
    BY <1>2, <1>3 DEF Movement
<1> HIDE DEF r
<1>6. RowOK(r, lastId + 1, clock + 1)
  <2>1. b # None
    BY <1>3, AmountsAssumption
  <2> QED
    BY <1>2, <1>3, <1>5, <2>1 DEF RowOK
<1>7. Sound(desk', tracked', moves', lastId', clock')
  <2>1. Sound(desk', tracked, moves \cup {r}, lastId + 1, clock + 1)
    BY <1>2, <1>4, <1>5, <1>6, RowAdded
  <2> QED
    BY <1>1, <2>1
<1>8. \A f \in Expenses : req'[f].paidAt <= clock'
  <2>1. \A f \in Expenses : req[f].paidAt \in Nat
    BY <1>2 DEF Request
  <2> QED
    BY <1>1, <1>2, <2>1
<1>9. \A s \in Sessions : handler'[s] # Idle => handler'[s].paidAt <= clock'
  <2>1. \A s \in Sessions : handler[s] # Idle => handler[s].paidAt \in Nat
    BY <1>2 DEF Running
  <2> QED
    BY <1>1, <1>2, <2>1
<1>10. clock' \in Nat
  BY <1>1, <1>2
<1> QED
  BY <1>1, <1>2, <1>7, <1>8, <1>9, <1>10 DEF IInv

\* The figure after an edit or a deletion, however far the row reaches.
LEMMA DeskShifted ==
  ASSUME IInv, NEW delta \in Int, NEW c,
         desk' = [desk EXCEPT !.balance = IF c THEN @ + delta ELSE @]
  PROVE  desk' \in Desk /\ desk'.isSet = desk.isSet
<1>1. desk \in Desk
  BY DEF IInv, Sound
<1> DEFINE b == IF c THEN desk.balance + delta ELSE desk.balance
<1>2. b \in Int
  BY <1>1 DEF Desk
<1>3. desk' = [desk EXCEPT !.balance = b]
  OBVIOUS
<1> HIDE DEF b
<1> QED
  BY <1>1, <1>2, <1>3 DEF Desk

\* The row an edit leaves in place of m.
LEMMA EditedRow ==
  ASSUME IInv, NEW m \in moves, NEW a \in Amounts, IsManual(m)
  PROVE  LET c == m.before + Effect(m.kind, a)
             delta == Effect(m.kind, a) - Effect(m.kind, m.amount)
             new == [m EXCEPT !.amount = a, !.after = c]
         IN  /\ delta \in Int /\ new \in Movement /\ RowOK(new, lastId, clock)
             /\ new.id = m.id /\ new.kind = m.kind /\ new.exp = None /\ new.at = m.at
             /\ new.before = m.before /\ new.amount = a /\ new.after = m.after + delta
<1> DEFINE delta == Effect(m.kind, a) - Effect(m.kind, m.amount)
           c == m.before + Effect(m.kind, a)
           new == [m EXCEPT !.amount = a, !.after = c]
<1>1. m \in Movement /\ RowOK(m, lastId, clock)
  BY DEF IInv, Sound
<1>2. /\ a \in Nat /\ m.id \in Nat \ {0} /\ m.kind \in {"expense", "topup"} /\ m.amount \in Nat
      /\ m.before \in Int /\ m.after \in Int /\ m.exp = None /\ m.at \in Nat
      /\ m = [id |-> m.id, kind |-> m.kind, amount |-> m.amount, before |-> m.before,
              after |-> m.after, exp |-> m.exp, at |-> m.at]
  BY <1>1, AmountsNat DEF Movement, RowOK, IsManual
<1>3. delta \in Int /\ c \in Int /\ c = m.after + delta
  <2>1. Effect(m.kind, a) \in Int /\ Effect(m.kind, m.amount) \in Int
    BY <1>2, EffectInt
  <2>2. m.after = m.before + Effect(m.kind, m.amount)
    BY <1>1, <1>2 DEF RowOK
  <2> QED
    BY <1>2, <2>1, <2>2
<1> HIDE DEF c, delta
<1> DEFINE r == [m EXCEPT !.amount = a]
<1>4. r = [id |-> m.id, kind |-> m.kind, amount |-> a, before |-> m.before,
           after |-> m.after, exp |-> m.exp, at |-> m.at]
  BY <1>2
<1> HIDE DEF r
<1>5. [r EXCEPT !.after = c]
        = [id |-> m.id, kind |-> m.kind, amount |-> a, before |-> m.before,
           after |-> c, exp |-> m.exp, at |-> m.at]
  BY <1>4
<1>6. new = [r EXCEPT !.after = c]
  BY DEF r
<1>7. /\ new \in Movement /\ new.id = m.id /\ new.exp = None /\ new.kind = m.kind
      /\ new.at = m.at /\ new.before = m.before /\ new.amount = a /\ new.after = c
  BY <1>2, <1>3, <1>5, <1>6 DEF Movement
<1> HIDE DEF new
<1>8. RowOK(new, lastId, clock)
  <2>1. m.before # None
    BY <1>2, AmountsAssumption
  <2> QED
    BY <1>1, <1>2, <1>7, <2>1 DEF RowOK, c
<1> QED
  BY <1>3, <1>7, <1>8 DEF new, c, delta

LEMMA EditMovementKeeps ==
  ASSUME IInv, NEW m \in moves, NEW a \in Amounts, EditMovement(m, a)
  PROVE  IInv'
<1> DEFINE delta == Effect(m.kind, a) - Effect(m.kind, m.amount)
           c == m.before + Effect(m.kind, a)
           new == [m EXCEPT !.amount = a, !.after = c]
<1>1. /\ IsManual(m)
      /\ moves' = Shifted(moves \ {m}, m, delta) \cup {new}
      /\ desk' = [desk EXCEPT !.balance = IF ReachesBalance(moves, m) THEN @ + delta ELSE @]
      /\ req' = req /\ tracked' = tracked /\ lastId' = lastId /\ clock' = clock
      /\ handler' = handler
  BY DEF EditMovement
<1>2. clock \in Nat /\ Sound(desk, tracked, moves, lastId, clock)
  BY DEF IInv
<1>3. /\ delta \in Int /\ new \in Movement /\ RowOK(new, lastId, clock)
      /\ new.id = m.id /\ new.kind = m.kind /\ new.exp = None /\ new.at = m.at
  BY <1>1, EditedRow
<1>4. new.kind # "set"
  BY <1>1, <1>3 DEF IsManual
<1> HIDE DEF new
<1>5. desk' \in Desk /\ desk'.isSet = desk.isSet
  <2> HIDE DEF delta
  <2> QED
    BY <1>1, <1>3, DeskShifted
<1>6. Sound(desk', tracked', moves', lastId', clock')
  <2> DEFINE E == {new}
  <2>1. /\ E \subseteq Movement /\ IsFiniteSet(E) /\ \A x, y \in E : x = y
        /\ \A x \in E : /\ x.id = m.id /\ x.at = m.at /\ x.exp = None /\ x.kind # "set"
                        /\ RowOK(x, lastId, clock)
    BY <1>3, <1>4, FS_Singleton
  <2> HIDE DEF delta
  <2>2. moves' = Shifted(moves \ {m}, m, delta) \cup E
    BY <1>1
  <2> HIDE DEF E
  <2>3. Sound(desk', tracked, moves', lastId, clock)
    <3>1. IsManual(m) /\ delta \in Int /\ m \in moves
      BY <1>1, <1>3
    <3> QED
      BY ONLY <1>2, <1>5, <2>1, <2>2, <3>1, RowEdited
  <2> QED
    BY <1>1, <2>3
<1> QED
  BY <1>1, <1>6 DEF IInv

LEMMA DeleteMovementKeeps ==
  ASSUME IInv, NEW m \in moves, DeleteMovement(m)
  PROVE  IInv'
<1> DEFINE delta == -Effect(m.kind, m.amount)
<1>1. /\ IsManual(m)
      /\ moves' = Shifted(moves \ {m}, m, delta)
      /\ desk' = [desk EXCEPT !.balance = IF ReachesBalance(moves, m) THEN @ + delta ELSE @]
      /\ req' = req /\ tracked' = tracked /\ lastId' = lastId /\ clock' = clock
      /\ handler' = handler
  BY DEF DeleteMovement
<1>2. clock \in Nat /\ Sound(desk, tracked, moves, lastId, clock) /\ m \in Movement
  BY DEF IInv, Sound
<1>3. delta \in Int
  <2>1. Effect(m.kind, m.amount) \in Int
    BY <1>2, EffectInt DEF Movement
  <2> QED
    BY <2>1
<1> HIDE DEF delta
<1>4. desk' \in Desk /\ desk'.isSet = desk.isSet
  BY <1>1, <1>3, DeskShifted
<1>5. Sound(desk', tracked', moves', lastId', clock')
  <2> DEFINE E == {}
  <2>1. /\ E \subseteq Movement /\ IsFiniteSet(E) /\ \A x, y \in E : x = y
        /\ \A x \in E : /\ x.id = m.id /\ x.at = m.at /\ x.exp = None /\ x.kind # "set"
                        /\ RowOK(x, lastId, clock)
        /\ moves' = Shifted(moves \ {m}, m, delta) \cup E
    BY <1>1, FS_EmptySet
  <2> HIDE DEF E
  <2>2. Sound(desk', tracked, moves', lastId, clock)
    BY <1>1, <1>2, <1>3, <1>4, <2>1, RowEdited
  <2> QED
    BY <1>1, <2>2
<1> QED
  BY <1>1, <1>5 DEF IInv

LEMMA Inductive == IInv /\ [Next]_vars => IInv'
<1> SUFFICES ASSUME IInv, [Next]_vars PROVE IInv'
  OBVIOUS
<1>1. ASSUME NEW s \in Sessions, NEW e \in Expenses, NEW op \in {"pay", "unpay", "close"},
             Load(s, e, op)
      PROVE  IInv'
  BY <1>1, LoadKeeps
<1>2. ASSUME NEW s \in Sessions, Finish(s) PROVE IInv'
  BY <1>2, FinishKeeps
<1>3. ASSUME NEW s \in Sessions, Fail(s) PROVE IInv'
  BY <1>3, FailKeeps
<1>4. ASSUME NEW e \in Expenses, Remove(e) PROVE IInv'
  BY <1>4, RemoveKeeps
<1>5. ASSUME NEW e \in Expenses, NEW a \in Amounts, NEW c \in BOOLEAN, Edit(e, a, c)
      PROVE  IInv'
  BY <1>5, EditKeeps
<1>6. CASE GetCash
  BY <1>6, GetCashKeeps
<1>7. ASSUME NEW a \in Amounts, SetBalance(a) PROVE IInv'
  BY <1>7, SetBalanceKeeps
<1>8. ASSUME NEW a \in Amounts, NEW kind \in {"expense", "topup"}, Record(kind, a) PROVE IInv'
  BY <1>8, RecordKeeps
<1>9. ASSUME NEW m \in moves, DeleteMovement(m) PROVE IInv'
  BY <1>9, DeleteMovementKeeps
<1>10. ASSUME NEW m \in moves, NEW a \in Amounts, EditMovement(m, a) PROVE IInv'
  BY <1>10, EditMovementKeeps
<1>11. CASE UNCHANGED vars
  BY <1>11 DEF vars, IInv
<1> QED
  BY <1>1, <1>2, <1>3, <1>4, <1>5, <1>6, <1>7, <1>8, <1>9, <1>10, <1>11 DEF Next

LEMMA Invariant == Spec => []IInv
BY Initially, Inductive, PTL DEF Spec

-----------------------------------------------------------------------------
(* What follows of it.                                                       *)

\* The desk, its history and the running handlers keep their types, whatever was
\* folded, typed in or edited.
THEOREM TypeCorrect == Spec => []TypeOK
<1>1. IInv => TypeOK
  BY DEF IInv, Sound, TypeOK, Desk, Running
<1> QED
  BY <1>1, Invariant, PTL

\* Every row of the history adds up, also after the rows before it were edited or
\* deleted and propagate_cash_delta has shifted it.
THEOREM HistoryAddsUp == Spec => []RowsAddUp
<1>1. IInv => RowsAddUp
  BY DEF IInv, Sound, RowOK, RowsAddUp
<1> QED
  BY <1>1, Invariant, PTL

\* A finite set of numbers has a largest one.
LEMMA HasLargest ==
  ASSUME NEW S, IsFiniteSet(S), S \subseteq Nat, S # {}
  PROVE  Max(S) \in S /\ \A y \in S : y <= Max(S)
<1> DEFINE Good == {T \in SUBSET S : T # {} => \E x \in T : \A y \in T : x >= y}
<1>1. ASSUME NEW T \in SUBSET S, \A U \in SUBSET T : U # T => U \in Good
      PROVE  T \in Good
  <2> SUFFICES ASSUME NEW z \in T PROVE \E x \in T : \A y \in T : x >= y
    OBVIOUS
  <2>1. T \ {z} \in Good
    BY <1>1
  <2>2. CASE T \ {z} = {}
    <3>1. \A y \in T : y = z
      BY <2>2
    <3>2. z \in Nat
      OBVIOUS
    <3> QED
      BY <3>1, <3>2
  <2>3. CASE T \ {z} # {}
    <3>1. PICK x \in T \ {z} : \A y \in T \ {z} : x >= y
      BY <2>1, <2>3
    <3>2. z \in Nat /\ x \in Nat /\ T \subseteq Nat
      OBVIOUS
    <3>3. CASE x >= z
      <4>1. \A y \in T : x >= y
        BY <3>1, <3>3
      <4> QED
        BY <4>1
    <3>4. CASE z > x
      <4>1. \A y \in T : z >= y
        BY <3>1, <3>2, <3>4
      <4> QED
        BY <4>1
    <3> QED
      BY <3>2, <3>3, <3>4
  <2> QED
    BY <2>2, <2>3
<1> HIDE DEF Good
<1>2. S \in Good
  BY <1>1, SubsetInduction
<1>3. \E x \in S : \A y \in S : x >= y
  BY <1>2 DEF Good
<1>4. Max(S) \in S /\ \A y \in S : Max(S) >= y
  BY <1>3 DEF Max
<1> QED
  BY <1>4

\* The rows of a history have ids of their own.
Rows(m) ==
  /\ m \subseteq Movement /\ IsFiniteSet(m)
  /\ \A x, y \in m : x.id = y.id => x = y

\* The last balance set comes after all others and has a row, if there is one.
LastOf(m, last) ==
  /\ last \in Nat
  /\ \A y \in m : y.kind = "set" => y.id <= last
  /\ last # 0 => \E y \in m : y.kind = "set" /\ y.id = last

LEMMA LastSetIsLast ==
  ASSUME Rows(moves)
  PROVE  LastOf(moves, LastSetId)
<1> DEFINE I == {z.id : z \in SetRows}
<1>1. SetRows \in SUBSET moves
  BY DEF SetRows
<1>2. I \subseteq Nat
  BY <1>1 DEF Rows, Movement
<1>3. IsFiniteSet(I)
  <2>1. IsFiniteSet(SetRows)
    BY <1>1, FS_Subset DEF Rows
  <2> DEFINE g == [z \in SetRows |-> z.id]
  <2>2. g \in Surjection(SetRows, I)
    BY DEF Surjection
  <2> HIDE DEF g, I
  <2> QED
    BY <2>1, <2>2, FS_Surjection
<1>4. CASE SetRows = {}
  <2>1. LastSetId = 0 /\ \A y \in moves : y.kind # "set"
    BY <1>4 DEF LastSetId, SetRows
  <2> QED
    BY <2>1 DEF LastOf
<1>5. CASE SetRows # {}
  <2>1. LastSetId = Max(I) /\ I # {}
    BY <1>5 DEF LastSetId
  <2>2. \A y \in moves : y.kind = "set" => y.id \in I
    BY DEF SetRows
  <2>3. \A i \in I : \E y \in moves : y.kind = "set" /\ y.id = i
    BY DEF SetRows
  <2> HIDE DEF I
  <2>4. Max(I) \in I /\ \A i \in I : i <= Max(I)
    BY <1>2, <1>3, <2>1, HasLargest
  <2> QED
    BY <1>2, <2>1, <2>2, <2>3, <2>4 DEF LastOf
<1> QED
  BY <1>4, <1>5

\* The rows since the last balance set are those after every balance set.
LEMMA SinceSetIsCurrent ==
  ASSUME IInv
  PROVE  \A x \in SinceSet : x \in moves /\ Current(moves, x)
<1>1. moves \subseteq Movement /\ LastOf(moves, LastSetId)
  BY LastSetIsLast DEF IInv, Sound, Rows
<1> SUFFICES ASSUME NEW x \in SinceSet, NEW y \in moves, y.kind = "set"
             PROVE  y.id < x.id
  BY DEF SinceSet, Current
<1>2. x.id > LastSetId /\ y.id <= LastSetId
  BY <1>1 DEF SinceSet, LastOf
<1>3. x.id \in Nat /\ y.id \in Nat /\ LastSetId \in Nat
  BY <1>1 DEF Movement, SinceSet, LastOf
<1> QED
  BY <1>2, <1>3

\* A reimbursement is subtracted from the cash figure at most once since the
\* balance was set, at the sum that rolling it back would return, whatever the
\* order in which handlers load, fold and commit.
THEOREM NothingChargedTwice == Spec => []ChargedOnce
<1>1. IInv => ChargedOnce
  <2> SUFFICES ASSUME IInv, NEW e \in Expenses
               PROVE  /\ Cardinality(Linked(e)) <= 1
                      /\ \A m \in Linked(e) : tracked[e] = m.amount
    BY DEF ChargedOnce
  <2>1. \A x \in Linked(e) : x \in moves /\ Current(moves, x) /\ x.exp = e
    BY SinceSetIsCurrent DEF Linked
  <2>2. e # None
    BY ExpensesAssumption
  <2>3. \A x \in moves : Current(moves, x) /\ x.exp # None =>
          /\ tracked[x.exp] = x.amount
          /\ \A y \in moves : Current(moves, y) /\ y.exp = x.exp => y = x
    BY DEF IInv, Sound, Charged
  <2>4. \A x \in Linked(e) : tracked[e] = x.amount
    BY <2>1, <2>2, <2>3
  <2>5. \A x, y \in Linked(e) : x = y
    BY <2>1, <2>2, <2>3
  <2>6. Cardinality(Linked(e)) <= 1
    <3>1. CASE Linked(e) = {}
      <4>1. Cardinality(Linked(e)) = 0
        BY <3>1, FS_EmptySet
      <4> QED
        BY <4>1
    <3>2. CASE Linked(e) # {}
      <4>1. PICK x : x \in Linked(e)
        BY <3>2
      <4>2. Linked(e) = {x}
        BY <2>5, <4>1
      <4>3. Cardinality(Linked(e)) = 1
        BY <4>2, FS_Singleton
      <4> QED
        BY <4>3
    <3> QED
      BY <3>1, <3>2
  <2> QED
    BY <2>4, <2>6
<1> QED
  BY <1>1, Invariant, PTL

\* Opening the cash page leaves exactly the committed cash requests that are paid
\* reflected in the figure, whatever the handlers between left out of it.
THEOREM PageReflectsPayments == Spec => PageSettles
<1>1. IInv /\ [Next]_vars => [GetCash /\ desk.isSet => Known(tracked') = PaidCash]_vars
  <2> SUFFICES ASSUME IInv, GetCash, desk.isSet
               PROVE  Known(tracked') = PaidCash
    OBVIOUS
  <2>1. PaidCash \in SUBSET Expenses /\ AmountOf \in [Expenses -> Amounts]
    BY ReadRequests
  <2>2. tracked \in [Expenses -> Nat]
    BY DEF IInv, Sound
  <2>3. tracked' = [e \in Expenses |->
                      IF e \in PaidCash \ Known(tracked) THEN AmountOf[e]
                      ELSE IF e \in Cancelled(tracked, PaidCash) THEN 0 ELSE tracked[e]]
    BY DEF GetCash, Fold
  <2>4. \A e \in Expenses : AmountOf[e] > 0
    <3>1. \A e \in Expenses : AmountOf[e] \in Nat \ {0}
      BY <2>1, AmountsAssumption
    <3> QED
      BY <3>1
  <2> HIDE DEF PaidCash, AmountOf
  <2> QED
    BY <2>1, <2>2, <2>3, <2>4 DEF Known, Cancelled
<1> QED
  BY <1>1, Invariant, PTL DEF Spec, PageSettles

-----------------------------------------------------------------------------
(* The chain of balances.                                                    *)

\* y is displayed right after x.
Succ(m, x, y) ==
  /\ Earlier(x, y)
  /\ \A z \in m : Earlier(x, z) => z = y \/ Earlier(y, z)

LastRow(m, x) == \A y \in m : ~Earlier(x, y)

\* HistoryChains without its CHOOSE.
Chain(m, balance) ==
  \A x \in m :
    /\ LastRow(m, x) => balance = x.after
    /\ \A y \in m : Succ(m, x, y) => y.before = x.after

\* The displayed order is total.
LEMMA DisplayOrder ==
  ASSUME NEW x \in Movement, NEW y \in Movement, NEW z \in Movement
  PROVE  /\ ~Earlier(x, x)
         /\ Earlier(x, y) => ~Earlier(y, x)
         /\ Earlier(x, y) /\ Earlier(y, z) => Earlier(x, z)
         /\ x.id # y.id => Earlier(x, y) \/ Earlier(y, x)
<1>1. /\ x.at \in Nat /\ y.at \in Nat /\ z.at \in Nat
      /\ x.id \in Nat /\ y.id \in Nat /\ z.id \in Nat
  BY DEF Movement
<1> QED
  BY <1>1 DEF Earlier

\* Rows that come after x have a first one among them.
LEMMA HasFirst ==
  ASSUME NEW m, Rows(m), NEW S \in SUBSET m, S # {}
  PROVE  \E y \in S : \A z \in S : z = y \/ Earlier(y, z)
<1> DEFINE Good == {T \in SUBSET S : T # {} => \E y \in T : \A z \in T : z = y \/ Earlier(y, z)}
<1>1. ASSUME NEW T \in SUBSET S, \A U \in SUBSET T : U # T => U \in Good
      PROVE  T \in Good
  <2> SUFFICES ASSUME NEW v \in T PROVE \E y \in T : \A z \in T : z = y \/ Earlier(y, z)
    OBVIOUS
  <2>1. T \ {v} \in Good
    BY <1>1
  <2>2. CASE T \ {v} = {}
    <3>1. \A z \in T : z = v
      BY <2>2
    <3> QED
      BY <3>1
  <2>3. CASE T \ {v} # {}
    <3>1. PICK y \in T \ {v} : \A z \in T \ {v} : z = y \/ Earlier(y, z)
      BY <2>1, <2>3
    <3>2. /\ T \subseteq Movement /\ v \in Movement /\ y \in Movement
          /\ v \in m /\ y \in m /\ v.id # y.id
      BY <3>1 DEF Rows
    <3>3. CASE Earlier(y, v)
      <4>1. \A z \in T : z = y \/ Earlier(y, z)
        BY <3>1, <3>3
      <4> QED
        BY <4>1
    <3>4. CASE Earlier(v, y)
      <4>1. \A z \in T : z = v \/ Earlier(v, z)
        <5> SUFFICES ASSUME NEW z \in T, z # v PROVE Earlier(v, z)
          OBVIOUS
        <5>1. z = y \/ Earlier(y, z)
          BY <3>1
        <5>2. z \in Movement
          BY <3>2
        <5> QED
          BY <3>2, <3>4, <5>1, <5>2, DisplayOrder
      <4> QED
        BY <4>1
    <3> QED
      BY <3>2, <3>3, <3>4, DisplayOrder
  <2> QED
    BY <2>2, <2>3
<1> HIDE DEF Good
<1>2. IsFiniteSet(S)
  BY FS_Subset DEF Rows
<1>3. S \in Good
  BY <1>1, <1>2, SubsetInduction
<1> QED
  BY <1>3 DEF Good

LEMMA ChainIsHistory ==
  ASSUME Rows(moves)
  PROVE  HistoryChains <=> Chain(moves, desk.balance)
<1> SUFFICES ASSUME NEW x \in moves
             PROVE  (LET later == {y \in moves : Earlier(x, y)} IN
                     IF later = {} THEN desk.balance = x.after
                     ELSE LET next == CHOOSE y \in later : \A z \in later \ {y} : Earlier(y, z)
                          IN  next.before = x.after)
                    <=> /\ LastRow(moves, x) => desk.balance = x.after
                        /\ \A y \in moves : Succ(moves, x, y) => y.before = x.after
  BY DEF HistoryChains, Chain
<1> DEFINE later == {y \in moves : Earlier(x, y)}
           First(y) == \A z \in later \ {y} : Earlier(y, z)
           next == CHOOSE y \in later : First(y)
<1>1. \A y \in moves : Succ(moves, x, y) <=> y \in later /\ First(y)
  BY DEF Succ
<1>2. CASE later = {}
  <2>1. LastRow(moves, x) /\ \A y \in moves : ~Succ(moves, x, y)
    BY <1>1, <1>2 DEF LastRow
  <2> QED
    BY <1>2, <2>1
<1>3. CASE later # {}
  <2>1. later \in SUBSET moves
    OBVIOUS
  <2>2. ~LastRow(moves, x)
    BY <1>3 DEF LastRow
  <2>3. \E y \in later : First(y)
    <3> HIDE DEF later
    <3>1. \E y \in later : \A z \in later : z = y \/ Earlier(y, z)
      BY <1>3, <2>1, HasFirst
    <3> QED
      BY <3>1
  <2>4. next \in later /\ First(next)
    <3> HIDE DEF later, First
    <3> QED
      BY <2>3
  <2>5. \A y \in later : First(y) => y = next
    <3> SUFFICES ASSUME NEW y \in later, First(y), y # next PROVE FALSE
      OBVIOUS
    <3> HIDE DEF next
    <3>1. y \in Movement /\ next \in Movement
      BY <2>4 DEF Rows
    <3>2. Earlier(y, next) /\ Earlier(next, y)
      BY <2>4
    <3> QED
      BY <3>1, <3>2, DisplayOrder
  <2>6. \A y \in moves : Succ(moves, x, y) <=> y = next
    <3> HIDE DEF next, First
    <3> QED
      BY <1>1, <2>1, <2>4, <2>5
  <2>7. (IF later = {} THEN desk.balance = x.after ELSE next.before = x.after)
          <=> next.before = x.after
    BY <1>3
  <2>8. next \in moves
    BY <2>1, <2>4
  <2> HIDE DEF next
  <2>9. (/\ LastRow(moves, x) => desk.balance = x.after
         /\ \A y \in moves : Succ(moves, x, y) => y.before = x.after)
          <=> next.before = x.after
    BY <2>2, <2>6, <2>8
  <2> QED
    BY <2>7, <2>9 DEF next
<1> QED
  BY <1>2, <1>3

\* A row displayed after all others continues the chain.
LEMMA ChainContinues ==
  ASSUME NEW m, Rows(m), NEW balance, Chain(m, balance), NEW balance2, NEW r \in Movement,
         \A x \in m : Earlier(x, r), m # {} => r.before = balance, r.after = balance2
  PROVE  Chain(m \cup {r}, balance2)
<1>1. m \subseteq Movement
  BY DEF Rows
<1>2. \A x \in m : ~Earlier(r, x)
  BY <1>1, DisplayOrder
<1>3. ~Earlier(r, r)
  BY DisplayOrder
<1>4. LastRow(m \cup {r}, r) /\ \A y \in m \cup {r} : ~Succ(m \cup {r}, r, y)
  BY <1>2, <1>3 DEF LastRow, Succ
<1> SUFFICES ASSUME NEW x \in m
             PROVE  /\ LastRow(m \cup {r}, x) => balance2 = x.after
                    /\ \A y \in m \cup {r} : Succ(m \cup {r}, x, y) => y.before = x.after
  BY <1>4 DEF Chain
<1>5. ~LastRow(m \cup {r}, x)
  BY DEF LastRow
<1>6. ASSUME NEW y \in m, Succ(m \cup {r}, x, y)
      PROVE  y.before = x.after
  <2>1. Succ(m, x, y)
    BY <1>6 DEF Succ
  <2> QED
    BY <2>1 DEF Chain
<1>7. ASSUME Succ(m \cup {r}, x, r)
      PROVE  r.before = x.after
  <2>1. \A z \in m : ~Earlier(x, z)
    <3> SUFFICES ASSUME NEW z \in m, Earlier(x, z) PROVE FALSE
      OBVIOUS
    <3>1. z = r \/ Earlier(r, z)
      BY <1>7 DEF Succ
    <3> QED
      BY <1>2, <1>3, <3>1
  <2>2. balance = x.after
    BY <2>1 DEF Chain, LastRow
  <2> QED
    BY <2>2
<1> QED
  BY <1>5, <1>6, <1>7

LEMMA ShiftValues ==
  ASSUME NEW R, NEW m, NEW delta \in Int, NEW x \in Movement
  PROVE  LET y == ShiftRow(R, m, delta, x) IN
         /\ ~Reached(R, m, x) => y = x
         /\ Reached(R, m, x) =>
              /\ x.before # None => y.before = x.before + delta
              /\ y.after = IF x.kind = "set" THEN x.after ELSE x.after + delta
<1> DEFINE y == ShiftRow(R, m, delta, x)
           b == IF x.before = None THEN None ELSE x.before + delta
           a == IF x.kind = "set" THEN x.after ELSE x.after + delta
<1>1. x = [id |-> x.id, kind |-> x.kind, amount |-> x.amount, before |-> x.before,
           after |-> x.after, exp |-> x.exp, at |-> x.at]
  BY DEF Movement
<1>2. Reached(R, m, x) => y.before = b /\ y.after = a
  BY <1>1 DEF ShiftRow
<1>3. ~Reached(R, m, x) => y = x
  BY DEF ShiftRow
<1> QED
  BY <1>2, <1>3

\* Between two neighbours other than the edited row, the shift keeps the chain.
LEMMA NeighboursShift ==
  ASSUME NEW mv, Rows(mv), NEW m \in mv, NEW delta \in Int,
         NEW x \in mv \ {m}, NEW y \in mv \ {m}, Succ(mv, x, y), y.before = x.after
  PROVE  ShiftRow(mv \ {m}, m, delta, y).before = ShiftRow(mv \ {m}, m, delta, x).after
<1> DEFINE R == mv \ {m}
<1>1. /\ mv \subseteq Movement /\ x \in Movement /\ y \in Movement /\ m \in Movement
      /\ x.id # m.id /\ y.id # m.id
  BY DEF Rows
<1>2. Earlier(x, y) /\ \A z \in mv : Earlier(x, z) => z = y \/ Earlier(y, z)
  BY DEF Succ
<1>3. x.after \in Int /\ y.before # None
  <2>1. x.after \in Int
    BY <1>1 DEF Movement
  <2> QED
    BY <2>1, AmountsAssumption
<1>4. CASE Earlier(x, m)
  <2>1. Earlier(y, m)
    BY <1>1, <1>2, <1>4
  <2>2. ~Earlier(m, x) /\ ~Earlier(m, y)
    BY <1>1, <1>4, <2>1, DisplayOrder
  <2>3. ~Reached(R, m, x) /\ ~Reached(R, m, y)
    BY <2>2 DEF Reached
  <2> QED
    BY <1>1, <2>3, ShiftValues
<1>5. CASE Earlier(m, x)
  <2>1. Earlier(m, y)
    BY <1>1, <1>2, <1>5, DisplayOrder
  <2>2. CASE x.kind = "set"
    <3>1. ~Reached(R, m, y)
      BY <1>2, <1>5, <2>2 DEF Reached
    <3>2. ShiftRow(R, m, delta, x).after = x.after
      BY <1>1, <2>2, ShiftValues
    <3>3. ShiftRow(R, m, delta, y) = y
      BY <1>1, <3>1, ShiftValues
    <3> QED
      BY <3>2, <3>3
  <2>3. CASE x.kind # "set"
    <3>1. \A z \in R : z.kind = "set" => (Earlier(z, y) <=> Earlier(z, x))
      <4> SUFFICES ASSUME NEW z \in R, z.kind = "set"
                   PROVE  Earlier(z, y) <=> Earlier(z, x)
        OBVIOUS
      <4>1. z \in Movement /\ z.id # x.id /\ z \in mv
        BY <1>1, <2>3 DEF Rows
      <4>2. Earlier(z, x) => Earlier(z, y)
        BY <1>1, <1>2, <4>1, DisplayOrder
      <4>3. ASSUME Earlier(z, y), ~Earlier(z, x) PROVE FALSE
        <5>1. Earlier(x, z)
          BY <1>1, <4>1, <4>3, DisplayOrder
        <5>2. z = y \/ Earlier(y, z)
          BY <1>2, <4>1, <5>1
        <5> QED
          BY <1>1, <4>1, <4>3, <5>2, DisplayOrder
      <4> QED
        BY <4>2, <4>3
    <3>2. Reached(R, m, x) <=> Reached(R, m, y)
      BY <1>5, <2>1, <3>1 DEF Reached
    <3>3. CASE Reached(R, m, x)
      <4>1. /\ ShiftRow(R, m, delta, x).after = x.after + delta
            /\ ShiftRow(R, m, delta, y).before = y.before + delta
        BY <1>1, <1>3, <2>3, <3>2, <3>3, ShiftValues
      <4> QED
        BY <4>1
    <3>4. CASE ~Reached(R, m, x)
      BY <1>1, <3>2, <3>4, ShiftValues
    <3> QED
      BY <3>3, <3>4
  <2> QED
    BY <2>2, <2>3
<1> QED
  BY <1>1, <1>4, <1>5, DisplayOrder

\* The row after the edited one is always reached.
LEMMA FollowerShifts ==
  ASSUME NEW mv, Rows(mv), NEW m \in mv, NEW delta \in Int,
         NEW y \in mv \ {m}, Succ(mv, m, y), y.before # None
  PROVE  ShiftRow(mv \ {m}, m, delta, y).before = y.before + delta
<1>1. mv \subseteq Movement /\ y \in Movement
  BY DEF Rows
<1>2. \A z \in mv : Earlier(m, z) => ~Earlier(z, y)
  <2> SUFFICES ASSUME NEW z \in mv, Earlier(m, z), Earlier(z, y) PROVE FALSE
    OBVIOUS
  <2>1. z = y \/ Earlier(y, z)
    BY DEF Succ
  <2>2. z \in Movement
    BY <1>1
  <2> QED
    BY <1>1, <2>1, <2>2, DisplayOrder
<1>3. Reached(mv \ {m}, m, y)
  BY <1>2 DEF Reached, Succ
<1> QED
  BY <1>1, <1>3, ShiftValues

\* The last row moves with the figure exactly when the edit reaches the figure.
LEMMA LastShifts ==
  ASSUME NEW mv, Rows(mv), NEW m \in mv, m.kind # "set", NEW delta \in Int,
         NEW x \in mv \ {m}, LastRow(mv, x)
  PROVE  ShiftRow(mv \ {m}, m, delta, x).after =
           IF ReachesBalance(mv, m) THEN x.after + delta ELSE x.after
<1> DEFINE R == mv \ {m}
<1>1. /\ mv \subseteq Movement /\ x \in Movement /\ m \in Movement /\ x.id # m.id
  BY DEF Rows
<1>2. Earlier(m, x)
  BY <1>1, DisplayOrder DEF LastRow
<1>3. \A z \in R : Earlier(z, x) \/ z = x
  <2> SUFFICES ASSUME NEW z \in R, z # x PROVE Earlier(z, x)
    OBVIOUS
  <2>1. z \in Movement /\ z.id # x.id /\ ~Earlier(x, z)
    BY DEF Rows, LastRow
  <2> QED
    BY <1>1, <2>1, DisplayOrder
<1>4. CASE ReachesBalance(mv, m)
  <2>1. Reached(R, m, x) /\ x.kind # "set"
    BY <1>2, <1>4 DEF Reached, ReachesBalance
  <2> QED
    BY <1>1, <1>4, <2>1, ShiftValues
<1>5. CASE ~ReachesBalance(mv, m)
  <2>1. PICK z \in mv : z.kind = "set" /\ Earlier(m, z)
    BY <1>5 DEF ReachesBalance
  <2>2. z \in R
    BY <2>1
  <2>3. x.kind = "set" \/ ~Reached(R, m, x)
    BY <1>3, <2>1, <2>2 DEF Reached
  <2> QED
    BY <1>1, <1>5, <2>3, ShiftValues
<1> QED
  BY <1>4, <1>5

\* A row keeps its place in the order.
LEMMA SamePlace ==
  ASSUME NEW x, NEW y, NEW u, NEW v, u.id = x.id, u.at = x.at, v.id = y.id, v.at = y.at
  PROVE  Earlier(u, v) <=> Earlier(x, y)
BY DEF Earlier

\* Deleting a row and shifting those after it by what it contributed.
LEMMA ChainAfterDelete ==
  ASSUME NEW mv, Rows(mv), NEW balance \in Int, Chain(mv, balance), NEW m \in mv, IsManual(m),
         m.before \in Int, NEW effect \in Int, m.after = m.before + effect,
         NEW balance2, balance2 = IF ReachesBalance(mv, m) THEN balance - effect ELSE balance
  PROVE  Chain(Shifted(mv \ {m}, m, -effect), balance2)
<1> DEFINE R == mv \ {m}
           sh(x) == ShiftRow(R, m, -effect, x)
           S == {sh(x) : x \in R}
<1>1. mv \subseteq Movement /\ m.kind # "set"
  BY DEF Rows, IsManual
<1>2. \A x \in R : /\ sh(x).id = x.id /\ sh(x).at = x.at
                   /\ x.after \in Int
  <2>1. -effect \in Int
    OBVIOUS
  <2>2. \A x \in R : x.after \in Int
    BY <1>1 DEF Movement
  <2> QED
    BY <1>1, <2>1, <2>2, ShiftRowKeeps
<1>3. \A x, y \in R : Earlier(sh(x), sh(y)) <=> Earlier(x, y)
  <2> HIDE DEF sh
  <2> QED
    BY <1>2, SamePlace
<1>4. ASSUME NEW x \in R, LastRow(S, sh(x))
      PROVE  balance2 = sh(x).after
  <2>1. \A y \in R : ~Earlier(x, y)
    <3> HIDE DEF sh
    <3> QED
      BY <1>3, <1>4 DEF LastRow
  <2>2. CASE Earlier(x, m)
    <3>1. Succ(mv, x, m)
      BY <2>1, <2>2 DEF Succ
    <3>2. \A y \in mv : ~Earlier(m, y)
      <4> SUFFICES ASSUME NEW y \in mv, Earlier(m, y) PROVE FALSE
        OBVIOUS
      <4>1. x \in Movement /\ m \in Movement /\ y \in Movement
        BY <1>1
      <4>2. Earlier(x, y) /\ y # m
        BY <2>2, <4>1, DisplayOrder
      <4> QED
        BY <2>1, <4>2
    <3>3. LastRow(mv, m) /\ ReachesBalance(mv, m) /\ ~Reached(R, m, x)
      <4>1. ~Earlier(m, x)
        BY <3>2
      <4> QED
        BY <3>2, <4>1 DEF LastRow, ReachesBalance, Reached
    <3>4. balance = m.after /\ m.before = x.after
      BY <3>1, <3>3 DEF Chain
    <3>5. sh(x) = x
      BY <1>1, <3>3, ShiftValues
    <3>6. balance2 = balance - effect
      BY <3>3
    <3> QED
      BY <1>2, <3>4, <3>5, <3>6
  <2>3. CASE ~Earlier(x, m)
    <3>1. LastRow(mv, x)
      BY <2>1, <2>3 DEF LastRow
    <3>2. balance = x.after
      BY <3>1 DEF Chain
    <3>3. sh(x).after = IF ReachesBalance(mv, m) THEN x.after + (-effect) ELSE x.after
      BY <1>1, <3>1, LastShifts
    <3> QED
      BY <1>2, <3>2, <3>3
  <2> QED
    BY <2>2, <2>3
<1>5. ASSUME NEW x \in R, NEW y \in R, Succ(S, sh(x), sh(y))
      PROVE  sh(y).before = sh(x).after
  <2>1. Earlier(x, y) /\ \A z \in R : Earlier(x, z) => z = y \/ Earlier(y, z)
    <3> SUFFICES ASSUME NEW z \in R, Earlier(x, z)
                 PROVE  z = y \/ Earlier(y, z)
      BY <1>3, <1>5 DEF Succ
    <3>1. sh(z) = sh(y) \/ Earlier(sh(y), sh(z))
      BY <1>3, <1>5 DEF Succ
    <3>2. z.id = y.id => z = y
      BY DEF Rows
    <3> QED
      BY <1>2, <1>3, <3>1, <3>2
  <2>2. CASE Earlier(x, m) /\ Earlier(m, y)
    <3>1. x \in Movement /\ m \in Movement /\ y \in Movement
      BY <1>1
    <3>2. Succ(mv, x, m)
      <4> SUFFICES ASSUME NEW z \in mv, Earlier(x, z), z # m
                   PROVE  Earlier(m, z)
        BY <2>2 DEF Succ
      <4>1. z = y \/ Earlier(y, z)
        BY <2>1
      <4>2. z \in Movement
        BY <1>1
      <4> QED
        BY <2>2, <3>1, <4>1, <4>2, DisplayOrder
    <3>3. Succ(mv, m, y)
      <4> SUFFICES ASSUME NEW z \in mv, Earlier(m, z)
                   PROVE  z = y \/ Earlier(y, z)
        BY <2>2 DEF Succ
      <4>1. z \in Movement
        BY <1>1
      <4>2. Earlier(x, z) /\ z # m
        BY <2>2, <3>1, <4>1, DisplayOrder
      <4> QED
        BY <2>1, <4>2
    <3>4. m.before = x.after /\ y.before = m.after
      BY <3>2, <3>3 DEF Chain
    <3>5. y.before \in Int /\ y.before # None /\ -effect \in Int
      BY <3>4, AmountsAssumption
    <3>6. sh(y).before = y.before + (-effect)
      BY <3>3, <3>5, FollowerShifts
    <3>7. ~Reached(R, m, x)
      <4>1. ~Earlier(m, x)
        BY <2>2, <3>1, DisplayOrder
      <4> QED
        BY <4>1 DEF Reached
    <3>8. sh(x) = x
      BY <1>1, <3>7, ShiftValues
    <3> QED
      BY <1>2, <3>4, <3>5, <3>6, <3>8
  <2>3. CASE ~(Earlier(x, m) /\ Earlier(m, y))
    <3>1. Succ(mv, x, y)
      <4>1. Earlier(x, m) => Earlier(y, m)
        <5>1. y \in Movement /\ m \in Movement /\ y.id # m.id
          BY <1>1 DEF Rows
        <5> QED
          BY <2>3, <5>1, DisplayOrder
      <4> QED
        BY <2>1, <4>1 DEF Succ
    <3>2. y.before = x.after
      BY <3>1 DEF Chain
    <3>3. -effect \in Int
      OBVIOUS
    <3> QED
      BY <3>1, <3>2, <3>3, NeighboursShift
  <2> QED
    BY <2>2, <2>3
<1>6. Chain(S, balance2)
  BY <1>4, <1>5 DEF Chain
<1> QED
  BY <1>6, ShiftedRows

\* Editing a row by delta and shifting those after it.
LEMMA ChainAfterEdit ==
  ASSUME NEW mv, Rows(mv), NEW balance \in Int, Chain(mv, balance), NEW m \in mv, IsManual(m),
         NEW delta \in Int, NEW new \in Movement, new.id = m.id, new.at = m.at,
         new.before = m.before, new.after = m.after + delta,
         NEW balance2, balance2 = IF ReachesBalance(mv, m) THEN balance + delta ELSE balance
  PROVE  Chain(Shifted(mv \ {m}, m, delta) \cup {new}, balance2)
<1> DEFINE R == mv \ {m}
           f(x) == IF x = m THEN new ELSE ShiftRow(R, m, delta, x)
           S == {f(x) : x \in mv}
<1>1. mv \subseteq Movement /\ m.kind # "set"
  BY DEF Rows, IsManual
<1>2. S = Shifted(R, m, delta) \cup {new}
  BY ShiftedRows
<1>3. \A x \in mv : f(x).id = x.id /\ f(x).at = x.at /\ x.after \in Int
  <2>1. \A x \in mv : x.after \in Int
    BY <1>1 DEF Movement
  <2> QED
    BY <1>1, <2>1, ShiftRowKeeps
<1>4. \A x, y \in mv : Earlier(f(x), f(y)) <=> Earlier(x, y)
  <2> HIDE DEF f
  <2> QED
    BY <1>3, SamePlace
<1>5. ASSUME NEW x \in mv, LastRow(S, f(x))
      PROVE  balance2 = f(x).after
  <2>1. LastRow(mv, x)
    <3> HIDE DEF f
    <3> QED
      BY <1>4, <1>5 DEF LastRow
  <2>2. balance = x.after
    BY <2>1 DEF Chain
  <2>3. CASE x = m
    <3>1. ReachesBalance(mv, m)
      BY <2>1, <2>3 DEF LastRow, ReachesBalance
    <3> QED
      BY <2>2, <2>3, <3>1
  <2>4. CASE x # m
    <3>1. f(x).after = IF ReachesBalance(mv, m) THEN x.after + delta ELSE x.after
      BY <1>1, <2>1, <2>4, LastShifts
    <3> QED
      BY <2>2, <3>1
  <2> QED
    BY <2>3, <2>4
<1>6. ASSUME NEW x \in mv, NEW y \in mv, Succ(S, f(x), f(y))
      PROVE  f(y).before = f(x).after
  <2>1. Succ(mv, x, y)
    <3> HIDE DEF f
    <3> SUFFICES ASSUME NEW z \in mv, Earlier(x, z)
                 PROVE  z = y \/ Earlier(y, z)
      BY <1>4, <1>6 DEF Succ
    <3>1. f(z) = f(y) \/ Earlier(f(y), f(z))
      BY <1>4, <1>6 DEF Succ
    <3>2. z.id = y.id => z = y
      BY DEF Rows
    <3> QED
      BY <1>3, <1>4, <3>1, <3>2
  <2>2. y.before = x.after /\ x \in Movement /\ y \in Movement
    BY <1>1, <2>1 DEF Chain
  <2>3. y.before \in Int /\ y.before # None
    BY <1>3, <2>2, AmountsAssumption
  <2>4. x # y
    BY <2>1, <2>2, DisplayOrder DEF Succ
  <2>5. CASE x = m
    <3>1. f(y).before = y.before + delta
      BY <2>1, <2>3, <2>4, <2>5, FollowerShifts
    <3> QED
      BY <2>2, <2>5, <3>1
  <2>6. CASE y = m
    <3>1. ~Reached(R, m, x)
      <4>1. ~Earlier(m, x)
        BY <2>1, <2>2, <2>6, DisplayOrder DEF Succ
      <4> QED
        BY <4>1 DEF Reached
    <3>2. ShiftRow(R, m, delta, x) = x
      BY <2>2, <3>1, ShiftValues
    <3> QED
      BY <2>2, <2>4, <2>6, <3>2
  <2>7. CASE x # m /\ y # m
    BY <2>1, <2>2, <2>7, NeighboursShift
  <2> QED
    BY <2>5, <2>6, <2>7
<1>7. Chain(S, balance2)
  <2> HIDE DEF f
  <2> QED
    BY <1>5, <1>6 DEF Chain
<1> QED
  BY <1>2, <1>7

\* A fold that leaves what is reflected alone leaves the history alone.
LEMMA NothingFolded ==
  ASSUME NEW d, NEW t \in [Expenses -> Nat], NEW m, NEW id, NEW P \in SUBSET Expenses,
         NEW at, NEW amt \in [Expenses -> Amounts], NEW now,
         \A x \in m : x.exp \in Expenses \cup {None},
         NEW d2, NEW t2, t2 = t, NEW m2, NEW id2,
         Folded(d, t, m, id, P, at, amt, now, d2, t2, m2, id2)
  PROVE  m2 = m
<1>1. CASE ~d.isSet
  BY <1>1 DEF Folded
<1>2. CASE d.isSet
  <2>1. /\ t2 = [e \in Expenses |->
             IF e \in P \ Known(t) THEN amt[e] ELSE IF e \in Cancelled(t, P) THEN 0 ELSE t[e]]
        /\ m2 = {x \in m : x.exp \notin Cancelled(t, P)} \cup NewRows(d, t, P, at, amt, now, id)
    BY <1>2 DEF Folded
  <2>2. \A e \in Expenses : amt[e] \in Nat /\ amt[e] # 0
    BY AmountsNat
  <2>3. P \ Known(t) = {}
    <3> SUFFICES ASSUME NEW e \in P \ Known(t) PROVE FALSE
      OBVIOUS
    <3>1. t[e] = amt[e] /\ t[e] = 0
      BY <2>1 DEF Known
    <3> QED
      BY <2>2, <3>1
  <2>4. Cancelled(t, P) = {}
    <3> SUFFICES ASSUME NEW e \in Cancelled(t, P) PROVE FALSE
      OBVIOUS
    <3>1. e \in Expenses /\ t[e] > 0 /\ e \notin P \ Known(t)
      BY DEF Cancelled, Known
    <3>2. t[e] = 0
      BY <2>1, <3>1
    <3> QED
      BY <3>1, <3>2
  <2>5. NewRows(d, t, P, at, amt, now, id) = {}
    BY <2>3 DEF NewRows, Fresh
  <2> QED
    BY <2>1, <2>4, <2>5
<1> QED
  BY <1>1, <1>2

\* A balance set folds nothing: all that is paid counts as in it.
LEMMA NothingAfterSet ==
  ASSUME NEW d \in Desk, d.isSet, ~d.baseline, NEW now \in Nat, d.cutoff = now,
         NEW t, t = [e \in Expenses |-> 0], NEW m, NEW id, NEW P \in SUBSET Expenses,
         NEW at \in [Expenses -> Nat], \A e \in Expenses : at[e] <= now,
         NEW amt, \A x \in m : x.exp \in Expenses \cup {None},
         NEW d2, NEW t2, NEW m2, NEW id2,
         Folded(d, t, m, id, P, at, amt, now, d2, t2, m2, id2)
  PROVE  m2 = m /\ d2.balance = d.balance
<1>1. Known(t) = {} /\ Cancelled(t, P) = {}
  BY DEF Known, Cancelled
<1>2. Fresh(d, t, P, at) = {}
  <2>1. Baseline(d, t, P, at) = P
    BY <1>1 DEF Baseline
  <2> QED
    BY <1>1, <2>1 DEF Fresh
<1>3. NewRows(d, t, P, at, amt, now, id) = {}
  BY <1>2 DEF NewRows
<1>4. Total(amt, {}) = 0 /\ Total(t, {}) = 0
  BY SumEmpty, TotalIsSum
<1>5. /\ d2 = [d EXCEPT !.balance = @ - Total(amt, {}) + Total(t, {}), !.baseline = TRUE]
      /\ m2 = {x \in m : x.exp \notin {}} \cup {}
  BY <1>1, <1>2, <1>3 DEF Folded
<1>6. d2.balance = d.balance - 0 + 0
  BY <1>4, <1>5 DEF Desk
<1> QED
  BY <1>5, <1>6 DEF Desk

LEMMA SetBalanceChains ==
  ASSUME IInv, NEW a \in Amounts, SetBalance(a), Chain(moves, desk.balance)
  PROVE  Chain(moves', desk'.balance)
<1> DEFINE now == clock + 1
           d == [isSet |-> TRUE, balance |-> a, baseline |-> FALSE, cutoff |-> now]
           t == [e \in Expenses |-> 0]
           b == IF desk.isSet THEN desk.balance ELSE None
           r == [id |-> lastId + 1, kind |-> "set", amount |-> a, before |-> b,
                 after |-> a, exp |-> None, at |-> now]
<1>1. Fold(d, t, moves \cup {r}, lastId + 1, PaidCash, PaidAt, AmountOf, now)
  BY DEF SetBalance
<1>2. Folded(d, t, moves \cup {r}, lastId + 1, PaidCash, PaidAt, AmountOf, now,
             desk', tracked', moves', lastId')
  <2> HIDE DEF d, t, r, now
  <2> QED
    BY <1>1 DEF Fold, Folded, NewRows
<1>3. /\ clock \in Nat /\ lastId \in Nat /\ moves \subseteq Movement /\ desk \in Desk
      /\ Rows(moves) /\ \A x \in moves : RowOK(x, lastId, clock)
      /\ (moves # {} => desk.isSet)
  BY DEF IInv, Sound, Rows
<1>4. a \in Nat /\ now \in Nat /\ b \in Int \cup {None}
  BY <1>3, AmountsNat DEF Desk
<1>5. d \in Desk /\ d.isSet /\ ~d.baseline /\ d.cutoff = now /\ d.balance = a
  BY <1>4 DEF Desk
<1>6. /\ r \in Movement /\ r.exp = None /\ r.at = now /\ r.after = a /\ r.before = b
  <2> HIDE DEF b, now
  <2> QED
    BY <1>3, <1>4 DEF Movement
<1>7. \A x \in moves \cup {r} : x.exp \in Expenses \cup {None}
  BY <1>3, <1>6 DEF Movement
<1>8. /\ PaidCash \in SUBSET Expenses /\ PaidAt \in [Expenses -> Nat]
      /\ \A e \in Expenses : PaidAt[e] <= now
  <2>1. /\ PaidCash \in SUBSET Expenses /\ PaidAt \in [Expenses -> Nat]
        /\ \A e \in Expenses : PaidAt[e] <= clock
    BY ReadRequests
  <2> QED
    BY <1>3, <2>1
<1>9. moves' = moves \cup {r} /\ desk'.balance = a
  <2>1. t = [e \in Expenses |-> 0]
    OBVIOUS
  <2> HIDE DEF d, t, r, now
  <2> QED
    BY <1>2, <1>4, <1>5, <1>7, <1>8, <2>1, NothingAfterSet
<1>10. \A x \in moves : Earlier(x, r)
  <2> SUFFICES ASSUME NEW x \in moves PROVE Earlier(x, r)
    OBVIOUS
  <2>1. x.at \in Nat /\ x.at <= clock
    BY <1>3 DEF Movement, RowOK
  <2> HIDE DEF r
  <2> QED
    BY <1>3, <1>6, <2>1 DEF Earlier
<1>11. moves # {} => r.before = desk.balance
  BY <1>3, <1>6
<1> HIDE DEF r
<1> QED
  BY <1>3, <1>6, <1>9, <1>10, <1>11, ChainContinues

LEMMA RecordChains ==
  ASSUME IInv, NEW a \in Amounts, NEW kind \in {"expense", "topup"}, Record(kind, a),
         Chain(moves, desk.balance)
  PROVE  Chain(moves', desk'.balance)
<1> DEFINE b == desk.balance
           c == b + Effect(kind, a)
           r == [id |-> lastId + 1, kind |-> kind, amount |-> a, before |-> b,
                 after |-> c, exp |-> None, at |-> clock + 1]
<1>1. /\ desk' = [desk EXCEPT !.balance = @ + Effect(kind, a)]
      /\ moves' = moves \cup {r}
  BY DEF Record
<1>2. /\ clock \in Nat /\ lastId \in Nat /\ moves \subseteq Movement /\ desk \in Desk
      /\ Rows(moves) /\ \A x \in moves : RowOK(x, lastId, clock)
  BY DEF IInv, Sound, Rows
<1>3. a \in Nat /\ b \in Int /\ c \in Int
  BY <1>2, AmountsNat, EffectInt DEF Desk
<1>4. desk'.balance = c
  BY <1>1, <1>2 DEF Desk
<1>5. r \in Movement /\ r.at = clock + 1 /\ r.before = b /\ r.after = c
  <2> HIDE DEF b, c
  <2> QED
    BY <1>2, <1>3 DEF Movement
<1>6. \A x \in moves : Earlier(x, r)
  <2> SUFFICES ASSUME NEW x \in moves PROVE Earlier(x, r)
    OBVIOUS
  <2>1. x.at \in Nat /\ x.at <= clock
    BY <1>2 DEF Movement, RowOK
  <2> HIDE DEF r
  <2> QED
    BY <1>2, <1>5, <2>1 DEF Earlier
<1> HIDE DEF r, c
<1> QED
  BY <1>1, <1>2, <1>4, <1>5, <1>6, ChainContinues

\* The balance after an edit by delta.
LEMMA BalanceShifted ==
  ASSUME NEW d \in Desk, NEW delta \in Int, NEW c
  PROVE  [d EXCEPT !.balance = IF c THEN @ + delta ELSE @].balance =
           IF c THEN d.balance + delta ELSE d.balance
BY DEF Desk

LEMMA EditMovementChains ==
  ASSUME IInv, NEW m \in moves, NEW a \in Amounts, EditMovement(m, a),
         Chain(moves, desk.balance)
  PROVE  Chain(moves', desk'.balance)
<1> DEFINE delta == Effect(m.kind, a) - Effect(m.kind, m.amount)
           c == m.before + Effect(m.kind, a)
           new == [m EXCEPT !.amount = a, !.after = c]
<1>1. /\ IsManual(m)
      /\ moves' = Shifted(moves \ {m}, m, delta) \cup {new}
      /\ desk' = [desk EXCEPT !.balance = IF ReachesBalance(moves, m) THEN @ + delta ELSE @]
  BY DEF EditMovement
<1>2. Rows(moves) /\ desk \in Desk /\ desk.balance \in Int
  BY DEF IInv, Sound, Rows, Desk
<1>3. /\ new \in Movement /\ new.id = m.id /\ new.at = m.at /\ new.before = m.before
      /\ new.after = m.after + delta /\ delta \in Int
  BY <1>1, EditedRow
<1>4. desk'.balance = IF ReachesBalance(moves, m) THEN desk.balance + delta ELSE desk.balance
  <2> HIDE DEF delta
  <2> QED
    BY <1>1, <1>2, <1>3, BalanceShifted
<1> HIDE DEF delta, new
<1>5. Chain(Shifted(moves \ {m}, m, delta) \cup {new}, desk'.balance)
  BY <1>1, <1>2, <1>3, <1>4, ChainAfterEdit
<1> QED
  BY <1>1, <1>5

LEMMA DeleteMovementChains ==
  ASSUME IInv, NEW m \in moves, DeleteMovement(m), Chain(moves, desk.balance)
  PROVE  Chain(moves', desk'.balance)
<1> DEFINE effect == Effect(m.kind, m.amount)
<1>1. /\ IsManual(m)
      /\ moves' = Shifted(moves \ {m}, m, -effect)
      /\ desk' = [desk EXCEPT !.balance = IF ReachesBalance(moves, m) THEN @ + (-effect) ELSE @]
  BY DEF DeleteMovement
<1>2. Rows(moves) /\ desk \in Desk /\ desk.balance \in Int
  BY DEF IInv, Sound, Rows, Desk
<1>3. m.before \in Int /\ m.after = m.before + effect /\ effect \in Int
  <2>1. m \in Movement /\ RowOK(m, lastId, clock)
    BY DEF IInv, Sound
  <2>2. effect \in Int
    BY <2>1, EffectInt DEF Movement
  <2> QED
    BY <1>1, <2>1, <2>2 DEF Movement, RowOK, IsManual
<1> HIDE DEF effect
<1>4. -effect \in Int
  BY <1>3
<1>5. desk'.balance =
        IF ReachesBalance(moves, m) THEN desk.balance + (-effect) ELSE desk.balance
  BY <1>1, <1>2, <1>4, BalanceShifted
<1>6. desk'.balance = IF ReachesBalance(moves, m) THEN desk.balance - effect ELSE desk.balance
  BY <1>2, <1>3, <1>5
<1>7. Chain(Shifted(moves \ {m}, m, -effect), desk'.balance)
  BY <1>1, <1>2, <1>3, <1>6, ChainAfterDelete
<1> QED
  BY <1>1, <1>7

LEMMA ChainIsHistoryThen == (Rows(moves) => (HistoryChains <=> Chain(moves, desk.balance)))'
<1>1. Rows(moves) => (HistoryChains <=> Chain(moves, desk.balance))
  BY ChainIsHistory
<1> QED
  BY <1>1, PTL

\* No row typed in, edited or deleted by hand, and no balance set, breaks a history
\* in which every row starts from the balance the row before it left.
THEOREM HandsKeepTheChain == Spec => HandKeepsChain
<1>1. ASSUME IInv, IInv', [Next]_vars, HistoryChains, moves' # moves, tracked' = tracked
      PROVE  HistoryChains'
  <2>1. /\ Rows(moves) /\ Rows(moves') /\ tracked \in [Expenses -> Nat]
        /\ Sound(desk, tracked, moves, lastId, clock)
    BY <1>1 DEF IInv, Sound, Rows
  <2>2. Chain(moves, desk.balance)
    BY <1>1, <2>1, ChainIsHistory
  <2>3. HistoryChains' <=> Chain(moves', desk'.balance)
    BY <2>1, ChainIsHistoryThen
  <2>4. \A x \in moves : x.exp \in Expenses \cup {None}
    BY <2>1 DEF Movement, Rows
  <2>5. ASSUME NEW P, P \in SUBSET Expenses, NEW at, NEW amt, amt \in [Expenses -> Amounts],
               Fold(desk, tracked, moves, lastId, P, at, amt, clock)
        PROVE  FALSE
    <3>1. Folded(desk, tracked, moves, lastId, P, at, amt, clock,
                 desk', tracked', moves', lastId')
      BY <2>5 DEF Fold, Folded, NewRows
    <3> QED
      BY <1>1, <2>1, <2>4, <2>5, <3>1, NothingFolded
  <2>6. ASSUME NEW s \in Sessions, Finish(s) PROVE FALSE
    <3> DEFINE h == handler[s]
               at == [PaidAt EXCEPT ![h.exp] = h.paidAt]
               amt == [AmountOf EXCEPT ![h.exp] = h.amount]
    <3>1. h # Idle /\ Fold(desk, tracked, moves, lastId, PaidCash, at, amt, clock)
      BY <2>6 DEF Finish
    <3>2. PaidCash \in SUBSET Expenses /\ amt \in [Expenses -> Amounts]
      BY <1>1, <3>1, ReadRequests
    <3> HIDE DEF at, amt
    <3> QED
      BY <2>5, <3>1, <3>2
  <2>7. CASE GetCash
    <3>1. /\ Fold(desk, tracked, moves, lastId, PaidCash, PaidAt, AmountOf, clock)
          /\ PaidCash \in SUBSET Expenses /\ AmountOf \in [Expenses -> Amounts]
      BY <1>1, <2>7, ReadRequests DEF GetCash
    <3> QED
      BY <2>5, <3>1
  <2>8. ASSUME NEW a \in Amounts, SetBalance(a) PROVE Chain(moves', desk'.balance)
    BY <1>1, <2>2, <2>8, SetBalanceChains
  <2>9. ASSUME NEW a \in Amounts, NEW kind \in {"expense", "topup"}, Record(kind, a)
        PROVE  Chain(moves', desk'.balance)
    BY <1>1, <2>2, <2>9, RecordChains
  <2>10. ASSUME NEW m \in moves, DeleteMovement(m) PROVE Chain(moves', desk'.balance)
    BY <1>1, <2>2, <2>10, DeleteMovementChains
  <2>11. ASSUME NEW m \in moves, NEW a \in Amounts, EditMovement(m, a)
         PROVE  Chain(moves', desk'.balance)
    BY <1>1, <2>2, <2>11, EditMovementChains
  <2>12. CASE UNCHANGED moves
    BY <1>1, <2>12
  <2> QED
    BY <1>1, <2>3, <2>6, <2>7, <2>8, <2>9, <2>10, <2>11, <2>12
       DEF Next, Load, Fail, Edit, Remove, vars
<1>2. IInv /\ IInv' /\ [Next]_vars =>
        [HistoryChains /\ moves' # moves /\ tracked' = tracked => HistoryChains']_vars
  BY <1>1
<1> QED
  BY <1>2, Invariant, PTL DEF Spec, HandKeepsChain

-----------------------------------------------------------------------------
(* The figure and what explains it.                                          *)

EffectsOf == [x \in Movement |-> Effect(x.kind, x.amount)]
AmountsOf == [x \in Movement |-> x.amount]

LastSets(m, last) == {x \in m : x.kind = "set" /\ x.id = last}
After(m, last) == {x \in m : x.id > last}

\* Unexplained, for the figure and the rows m of which last is the last balance set.
Surplus(balance, m, last) ==
  balance - Sum(AmountsOf, LastSets(m, last)) - Sum(EffectsOf, After(m, last))

\* The sums MapThenSumSet takes over rows.
LEMMA EffectsAreSummed ==
  ASSUME NEW S, S \subseteq Movement, IsFiniteSet(S)
  PROVE  MapThenSumSet(LAMBDA m : Effect(m.kind, m.amount), S) = Sum(EffectsOf, S)
<1> DEFINE Adds(g) == g = [s \in SUBSET S |->
                             IF s = {} THEN 0
                             ELSE LET x == CHOOSE x \in s : TRUE
                                  IN  Effect(x.kind, x.amount) + g[s \ {x}]]
           h == CHOOSE g : Adds(g)
<1>1. \A s \in SUBSET S : s # {} =>
        LET x == CHOOSE x \in s : TRUE IN EffectsOf[x] = Effect(x.kind, x.amount)
  BY DEF EffectsOf
<1>2. \A g : Adds(g) <=> IsFold(g, EffectsOf, S)
  BY <1>1 DEF IsFold
<1>3. \E g : Adds(g)
  <2> HIDE DEF Adds
  <2> QED
    BY <1>2, FoldExists
<1>4. Adds(h)
  BY <1>3
<1>5. MapThenSumSet(LAMBDA m : Effect(m.kind, m.amount), S) = h[S]
  BY DEF MapThenSumSet, MapThenFoldSet
<1> HIDE DEF h, Adds
<1>6. h[S] = Sum(EffectsOf, S)
  BY <1>2, <1>4, SumIsFold
<1> QED
  BY <1>5, <1>6

LEMMA AmountsAreSummed ==
  ASSUME NEW S, S \subseteq Movement, IsFiniteSet(S)
  PROVE  MapThenSumSet(LAMBDA m : m.amount, S) = Sum(AmountsOf, S)
<1> DEFINE Adds(g) == g = [s \in SUBSET S |->
                             IF s = {} THEN 0
                             ELSE LET x == CHOOSE x \in s : TRUE IN x.amount + g[s \ {x}]]
           h == CHOOSE g : Adds(g)
<1>1. \A s \in SUBSET S : s # {} =>
        LET x == CHOOSE x \in s : TRUE IN AmountsOf[x] = x.amount
  BY DEF AmountsOf
<1>2. \A g : Adds(g) <=> IsFold(g, AmountsOf, S)
  BY <1>1 DEF IsFold
<1>3. \E g : Adds(g)
  <2> HIDE DEF Adds
  <2> QED
    BY <1>2, FoldExists
<1>4. Adds(h)
  BY <1>3
<1>5. MapThenSumSet(LAMBDA m : m.amount, S) = h[S]
  BY DEF MapThenSumSet, MapThenFoldSet
<1> HIDE DEF h, Adds
<1>6. h[S] = Sum(AmountsOf, S)
  BY <1>2, <1>4, SumIsFold
<1> QED
  BY <1>5, <1>6

\* The rows of a history contribute integers.
LEMMA RowsCount ==
  ASSUME NEW m, Rows(m), NEW S \in SUBSET m
  PROVE  /\ IsFiniteSet(S)
         /\ \A x \in S : /\ EffectsOf[x] \in Int /\ EffectsOf[x] = Effect(x.kind, x.amount)
                         /\ AmountsOf[x] \in Int /\ AmountsOf[x] = x.amount
         /\ Sum(EffectsOf, S) \in Int /\ Sum(AmountsOf, S) \in Int
<1>1. IsFiniteSet(S)
  BY FS_Subset DEF Rows
<1>2. \A x \in S : /\ EffectsOf[x] \in Int /\ EffectsOf[x] = Effect(x.kind, x.amount)
                   /\ AmountsOf[x] \in Int /\ AmountsOf[x] = x.amount
  <2> SUFFICES ASSUME NEW x \in S
               PROVE  /\ EffectsOf[x] \in Int /\ EffectsOf[x] = Effect(x.kind, x.amount)
                      /\ AmountsOf[x] \in Int /\ AmountsOf[x] = x.amount
    OBVIOUS
  <2>1. x \in Movement /\ x.amount \in Nat
    BY DEF Rows, Movement
  <2>2. EffectsOf[x] = Effect(x.kind, x.amount) /\ AmountsOf[x] = x.amount
    BY <2>1 DEF EffectsOf, AmountsOf
  <2> QED
    BY <2>1, <2>2, EffectInt
<1>3. Int \in {Int, Nat}
  OBVIOUS
<1> QED
  BY <1>1, <1>2, <1>3, SumType

LEMMA UnexplainedIsSurplus ==
  ASSUME Rows(moves)
  PROVE  Unexplained = Surplus(desk.balance, moves, LastSetId)
<1> DEFINE A == {m \in SetRows : m.id = LastSetId}
<1>1. A = LastSets(moves, LastSetId) /\ SinceSet = After(moves, LastSetId)
  BY DEF SetRows, LastSets, SinceSet, After
<1>2. A \in SUBSET moves /\ SinceSet \in SUBSET moves /\ moves \subseteq Movement
  BY DEF SetRows, SinceSet, Rows
<1>3. IsFiniteSet(A) /\ IsFiniteSet(SinceSet)
  <2> HIDE DEF A
  <2> QED
    BY <1>2, RowsCount
<1>4. MapThenSumSet(LAMBDA m : m.amount, A) = Sum(AmountsOf, A)
  <2> HIDE DEF A
  <2> QED
    BY <1>2, <1>3, AmountsAreSummed
<1>5. MapThenSumSet(LAMBDA m : Effect(m.kind, m.amount), SinceSet) = Sum(EffectsOf, SinceSet)
  BY <1>2, <1>3, EffectsAreSummed
<1>6. Unexplained = desk.balance - MapThenSumSet(LAMBDA m : m.amount, A)
                      - MapThenSumSet(LAMBDA m : Effect(m.kind, m.amount), SinceSet)
  BY DEF Unexplained
<1> QED
  BY <1>1, <1>4, <1>5, <1>6 DEF Surplus

LEMMA UnexplainedIsSurplusThen ==
  (Rows(moves) => Unexplained = Surplus(desk.balance, moves, LastSetId))'
<1>1. Rows(moves) => Unexplained = Surplus(desk.balance, moves, LastSetId)
  BY UnexplainedIsSurplus
<1> QED
  BY <1>1, PTL

LEMMA LastSetIsLastThen == (Rows(moves) => LastOf(moves, LastSetId))'
<1>1. Rows(moves) => LastOf(moves, LastSetId)
  BY LastSetIsLast
<1> QED
  BY <1>1, PTL

\* What the rows a fold adds contribute.
LEMMA NewRowsCount ==
  ASSUME NEW d \in Desk, NEW t \in [Expenses -> Nat], NEW P \in SUBSET Expenses,
         NEW at \in [Expenses -> Nat], NEW amt \in [Expenses -> Amounts], NEW now \in Nat,
         NEW id \in Nat, \A e \in Expenses : at[e] <= now
  PROVE  LET fresh == Fresh(d, t, P, at)
             R == NewRows(d, t, P, at, amt, now, id)
         IN  /\ Total(amt, fresh) \in Int
             /\ Sum(EffectsOf, R) = -Total(amt, fresh)
<1> DEFINE fresh == Fresh(d, t, P, at)
           R == NewRows(d, t, P, at, amt, now, id)
           h == [e \in fresh |-> FoldRow(d, t, P, at, amt, now, id, e)]
<1>1. fresh \in SUBSET Expenses
  BY DEF Fresh
<1>2. IsFiniteSet(fresh) /\ \A e \in fresh : amt[e] \in Int /\ amt[e] \in Nat
  <2> HIDE DEF fresh
  <2> QED
    <3>1. IsFiniteSet(fresh)
      BY <1>1, ExpensesAssumption, FS_Subset
    <3>2. \A e \in fresh : amt[e] \in Int /\ amt[e] \in Nat
      <4>1. \A e \in fresh : amt[e] \in Amounts
        BY <1>1
      <4>2. \A e \in fresh : amt[e] \in Nat
        BY <4>1, AmountsNat
      <4> QED
        BY <4>2
    <3> QED
      BY <3>1, <3>2
<1>3. /\ R \subseteq Movement
      /\ \A x \in R : x.exp \in fresh /\ x.kind = "expense" /\ x.amount = amt[x.exp]
  BY FoldRows
<1>4. \A e \in fresh : h[e].exp = e /\ h[e] \in R
  BY DEF FoldRow, NewRows
<1>5. R = {h[e] : e \in fresh}
  BY DEF NewRows
<1> HIDE DEF fresh, R, h
<1>6. \A e \in fresh : EffectsOf[h[e]] = 0 - amt[e]
  <2> SUFFICES ASSUME NEW e \in fresh PROVE EffectsOf[h[e]] = 0 - amt[e]
    OBVIOUS
  <2>1. h[e] \in Movement /\ h[e].kind = "expense" /\ h[e].amount = amt[e]
    BY <1>3, <1>4
  <2>2. EffectsOf[h[e]] = -amt[e]
    BY <2>1 DEF EffectsOf, Effect
  <2> QED
    BY <1>2, <2>2
<1>7. \A e, f \in fresh : h[e] = h[f] => e = f
  BY <1>4
<1>8. Sum(amt, fresh) \in Int /\ Sum(EffectsOf, R) = 0 - Sum(amt, fresh)
  <2>1. \A e \in fresh : amt[e] \in Int
    BY <1>2
  <2> QED
    BY <1>2, <1>5, <1>6, <1>7, <2>1, SumOpposite
<1>9. Total(amt, fresh) \in Int /\ Sum(EffectsOf, R) = -Total(amt, fresh)
  BY <1>5, <1>8, TotalIsSum
<1> QED
  BY <1>9 DEF fresh, R

\* What the rows a fold drops contributed: the sums that rolling them back returns.
LEMMA DroppedRowsCount ==
  ASSUME NEW m, Rows(m), NEW t \in [Expenses -> Nat], Charged(t, m), NEW D \in SUBSET m,
         \A x \in D : Current(m, x) /\ x.exp # None /\ x.kind = "expense"
  PROVE  LET T == {x.exp : x \in D} IN
         Total(t, T) \in Int /\ Sum(EffectsOf, D) = -Total(t, T)
<1> DEFINE h == [x \in D |-> x.exp]
           T == {h[x] : x \in D}
<1>1. \A x \in D : x \in Movement /\ x.amount \in Nat /\ t[x.exp] = x.amount
  BY DEF Rows, Movement, Charged
<1>2. \A x, y \in D : h[x] = h[y] => x = y
  BY DEF Charged
<1>3. /\ IsFiniteSet(D) /\ Sum(EffectsOf, D) \in Int
      /\ \A x \in D : EffectsOf[x] \in Int /\ EffectsOf[x] = Effect(x.kind, x.amount)
  BY RowsCount
<1>4. \A x \in D : t[h[x]] = 0 - EffectsOf[x]
  <2> SUFFICES ASSUME NEW x \in D PROVE t[x.exp] = 0 - EffectsOf[x]
    OBVIOUS
  <2>1. EffectsOf[x] = -x.amount
    BY <1>3 DEF Effect
  <2> QED
    BY <1>1, <2>1
<1> HIDE DEF h
<1>5. Sum(t, T) = 0 - Sum(EffectsOf, D)
  <2>1. T = {h[x] : x \in D}
    OBVIOUS
  <2> HIDE DEF T
  <2> QED
    <3>1. IsFiniteSet(D) /\ \A x \in D : EffectsOf[x] \in Int
      BY <1>3
    <3> QED
      BY ONLY <1>2, <1>4, <2>1, <3>1, SumOpposite
<1>6. T = {x.exp : x \in D}
  BY DEF h
<1>7. Total(t, T) = 0 - Sum(EffectsOf, D)
  BY <1>5, TotalIsSum
<1> HIDE DEF T
<1>8. Total(t, T) \in Int /\ Sum(EffectsOf, D) = -Total(t, T)
  BY <1>3, <1>7
<1> QED
  BY <1>6, <1>8

\* A fold of a set desk changes the surplus by what the lost reimbursements return.
LEMMA SurplusFolded ==
  ASSUME NEW d, d.isSet, NEW t, NEW m, NEW id, NEW P \in SUBSET Expenses,
         NEW at \in [Expenses -> Nat], NEW amt \in [Expenses -> Amounts], NEW now \in Nat,
         \A e \in Expenses : at[e] <= now,
         NEW d2, NEW t2, NEW m2, NEW id2,
         Sound(d, t, m, id, now), Folded(d, t, m, id, P, at, amt, now, d2, t2, m2, id2),
         NEW last, LastOf(m, last), LastOf(m2, last)
  PROVE  Surplus(d2.balance, m2, last) = Surplus(d.balance, m, last)
           + Total(t, {e \in Expenses : t[e] > 0 /\ t2[e] = 0
                                         /\ {x \in After(m, last) : x.exp = e} = {}})
<1> DEFINE fresh == Fresh(d, t, P, at)
           back == Cancelled(t, P)
           R == NewRows(d, t, P, at, amt, now, id)
           K == {x \in m : x.exp \notin back}
           S == After(m, last)
           D == {x \in S : x.exp \in back}
           T == {x.exp : x \in D}
           lost == {e \in Expenses : t[e] > 0 /\ t2[e] = 0 /\ {x \in S : x.exp = e} = {}}
<1>1. /\ d2 = [d EXCEPT !.balance = @ - Total(amt, fresh) + Total(t, back),
                        !.baseline = TRUE]
      /\ t2 = [e \in Expenses |->
           IF e \in P \ Known(t) THEN amt[e] ELSE IF e \in back THEN 0 ELSE t[e]]
      /\ m2 = K \cup R /\ id2 = id + Cardinality(fresh)
  BY DEF Folded
<1>2. /\ d \in Desk /\ t \in [Expenses -> Nat] /\ m \subseteq Movement
      /\ id \in Nat /\ Rows(m) /\ Charged(t, m)
      /\ \A x \in m : RowOK(x, id, now)
  BY DEF Sound, Rows
<1>3. Rows(m2)
  <2>1. Sound(d2, t2, m2, id2, now)
    BY FoldedSound
  <2> QED
    BY <2>1 DEF Sound, Rows
<1>4. /\ IsFiniteSet(R) /\ R \subseteq Movement
      /\ \A x \in R : id < x.id /\ x.exp \in fresh /\ x.kind = "expense"
  BY <1>2, FoldRows
<1>5. Total(amt, fresh) \in Int /\ Sum(EffectsOf, R) = -Total(amt, fresh)
  BY <1>2, NewRowsCount
<1>6. /\ back \in SUBSET Expenses /\ None \notin back
      /\ \A e \in Expenses : e \in back <=> t[e] > 0 /\ t2[e] = 0
  <2>1. back \in SUBSET Expenses /\ None \notin back
    BY ExpensesAssumption DEF Cancelled, Known
  <2>2. \A e \in Expenses : e \in back <=> t[e] > 0 /\ e \notin P
    BY DEF Cancelled, Known
  <2>3. \A e \in Expenses : e \in Known(t) <=> t[e] > 0
    BY DEF Known
  <2>4. \A e \in Expenses : t[e] \in Nat
    BY <1>2
  <2> HIDE DEF back
  <2> QED
    BY <1>1, <2>1, <2>2, <2>3, <2>4
<1>7. /\ last \in Nat /\ \A y \in m : y.kind = "set" => y.id <= last
      /\ \A x \in m : x.id \in Nat /\ (x.id > last => Current(m, x))
      /\ last <= id
  <2>1. last \in Nat /\ \A y \in m : y.kind = "set" => y.id <= last
    BY DEF LastOf
  <2>2. \A x \in m : x.id \in Nat
    BY <1>2 DEF Movement
  <2>3. ASSUME NEW x \in m, x.id > last PROVE Current(m, x)
    <3> SUFFICES ASSUME NEW y \in m, y.kind = "set" PROVE y.id < x.id
      BY DEF Current
    <3>1. y.id <= last /\ y.id \in Nat /\ x.id \in Nat
      BY <2>1, <2>2
    <3> QED
      BY <2>1, <2>3, <3>1
  <2>4. last <= id
    <3>1. CASE last = 0
      BY <1>2, <3>1
    <3>2. CASE last # 0
      <4>1. PICK y \in m : y.id = last
        BY <3>2 DEF LastOf
      <4> QED
        BY <1>2, <4>1 DEF RowOK
    <3> QED
      BY <3>1, <3>2
  <2> QED
    BY <2>1, <2>2, <2>3, <2>4
<1> HIDE DEF fresh, R, back
<1>8. LastSets(m2, last) = LastSets(m, last)
  <2>1. \A x \in m : x.kind = "set" => x.exp \notin back
    BY <1>2, <1>6 DEF RowOK
  <2>2. \A x \in R : x.kind # "set"
    BY <1>4
  <2> QED
    BY <1>1, <2>1, <2>2 DEF LastSets
<1>9. After(m2, last) = (S \ D) \cup R /\ (S \ D) \cap R = {} /\ S = (S \ D) \cup D
  <2>1. \A x \in R : x.id > last /\ x \notin m
    <3> SUFFICES ASSUME NEW x \in R PROVE x.id > last /\ x \notin m
      OBVIOUS
    <3>1. x.id \in Nat /\ id < x.id
      BY <1>4 DEF Movement
    <3>2. ~(x.id <= id) /\ x.id > last
      BY <1>2, <1>7, <3>1
    <3> QED
      BY <1>2, <3>2 DEF RowOK
  <2> QED
    BY <1>1, <2>1 DEF After
<1>10. /\ S \in SUBSET m /\ S \ D \in SUBSET m /\ D \in SUBSET m
       /\ \A x \in D : Current(m, x) /\ x.exp # None /\ x.kind = "expense"
  BY <1>2, <1>6, <1>7 DEF After, RowOK
<1>11. Total(t, T) \in Int /\ Sum(EffectsOf, D) = -Total(t, T)
  <2> HIDE DEF D
  <2> QED
    BY <1>2, <1>10, DroppedRowsCount
<1>12. Sum(EffectsOf, After(m2, last)) = Sum(EffectsOf, S \ D) + Sum(EffectsOf, R)
  <2>1. After(m2, last) \in SUBSET m2
    BY DEF After
  <2>2. /\ IsFiniteSet(After(m2, last))
        /\ \A x \in After(m2, last) : EffectsOf[x] \in Int
    BY <1>3, <2>1, RowsCount
  <2> HIDE DEF S, D
  <2> QED
    BY <1>9, <2>2, SumUnion
<1>13. Sum(EffectsOf, S) = Sum(EffectsOf, S \ D) + Sum(EffectsOf, D)
  <2>1. IsFiniteSet(S) /\ \A x \in S : EffectsOf[x] \in Int
    BY <1>2, <1>10, RowsCount
  <2>2. (S \ D) \cap D = {}
    OBVIOUS
  <2> HIDE DEF S, D
  <2> QED
    BY <1>9, <2>1, <2>2, SumUnion
<1>14. Total(t, back) = Total(t, T) + Total(t, lost) /\ Total(t, lost) \in Int
  <2>1. back = T \cup lost /\ T \cap lost = {}
    <3>1. T \subseteq back
      OBVIOUS
    <3>2. lost \subseteq back
      BY <1>6
    <3>3. ASSUME NEW e \in back, e \notin T PROVE e \in lost
      <4>1. {x \in S : x.exp = e} = {}
        BY <3>3
      <4> QED
        BY <1>6, <4>1
    <3>4. ASSUME NEW e \in T PROVE e \notin lost
      OBVIOUS
    <3> QED
      BY <3>1, <3>2, <3>3, <3>4
  <2> HIDE DEF T, lost
  <2>2. IsFiniteSet(back) /\ \A e \in back : t[e] \in Int
    <3>1. IsFiniteSet(back)
      BY <1>6, ExpensesAssumption, FS_Subset
    <3>2. \A e \in back : t[e] \in Int
      BY <1>2, <1>6
    <3> QED
      BY <3>1, <3>2
  <2>3. Sum(t, back) = Sum(t, T) + Sum(t, lost)
    BY <2>1, <2>2, SumUnion
  <2>4. lost \in SUBSET Expenses
    BY <1>6, <2>1
  <2>5. Total(t, lost) \in Nat
    BY <1>2, <2>4, TotalInt
  <2> QED
    BY <2>3, <2>5, TotalIsSum
<1>15. d2.balance = d.balance - Total(amt, fresh) + Total(t, back) /\ d.balance \in Int
  BY <1>1, <1>2 DEF Desk
<1>16. Sum(EffectsOf, S \ D) \in Int /\ Sum(AmountsOf, LastSets(m, last)) \in Int
  <2>1. LastSets(m, last) \in SUBSET m
    BY DEF LastSets
  <2> HIDE DEF S, D
  <2> QED
    BY <1>2, <1>10, <2>1, RowsCount
<1>17. /\ Surplus(d2.balance, m2, last)
            = d2.balance - Sum(AmountsOf, LastSets(m, last)) - Sum(EffectsOf, After(m2, last))
       /\ Surplus(d.balance, m, last)
            = d.balance - Sum(AmountsOf, LastSets(m, last)) - Sum(EffectsOf, S)
  BY <1>8 DEF Surplus
<1> HIDE DEF S, D, T, lost
<1>18. Surplus(d2.balance, m2, last) = Surplus(d.balance, m, last) + Total(t, lost)
  BY <1>5, <1>11, <1>12, <1>13, <1>14, <1>15, <1>16, <1>17
<1> QED
  BY <1>18 DEF lost, S

\* Shifted rows count as before.
LEMMA ShiftedCount ==
  ASSUME NEW mv, Rows(mv), NEW R \in SUBSET mv, NEW m, NEW delta \in Int, NEW S \in SUBSET R,
         NEW T, T = {ShiftRow(R, m, delta, x) : x \in S}
  PROVE  Sum(EffectsOf, T) = Sum(EffectsOf, S) /\ Sum(AmountsOf, T) = Sum(AmountsOf, S)
<1> DEFINE h == [x \in S |-> ShiftRow(R, m, delta, x)]
<1>1. \A x \in S : /\ x \in Movement /\ h[x] \in Movement /\ h[x].id = x.id
                   /\ h[x].kind = x.kind /\ h[x].amount = x.amount
  BY ShiftRowKeeps DEF Rows
<1>2. T = {h[x] : x \in S}
  OBVIOUS
<1> HIDE DEF h
<1>3. \A x, y \in S : h[x] = h[y] => x = y
  BY <1>1 DEF Rows
<1>4. IsFiniteSet(S) /\ \A x \in S : EffectsOf[x] \in Int
  BY RowsCount
<1>5. \A x \in S : AmountsOf[x] \in Int
  BY RowsCount
<1>6. \A x \in S : EffectsOf[h[x]] = EffectsOf[x]
  BY <1>1 DEF EffectsOf
<1>7. \A x \in S : AmountsOf[h[x]] = AmountsOf[x]
  BY <1>1 DEF AmountsOf
<1>8. Sum(EffectsOf, T) = Sum(EffectsOf, S)
  BY ONLY <1>2, <1>3, <1>4, <1>6, SumAlike
<1>9. Sum(AmountsOf, T) = Sum(AmountsOf, S)
  BY ONLY <1>2, <1>3, <1>4, <1>5, <1>7, SumAlike
<1> QED
  BY <1>8, <1>9

\* An edit reaches the figure exactly when its row was recorded since the last
\* balance set.
LEMMA ReachesWhenCurrent ==
  ASSUME NEW mv, Rows(mv), InTime(mv), \A x \in mv : x.kind = "set" => x.exp = None,
         NEW m \in mv, IsManual(m), NEW last, LastOf(mv, last)
  PROVE  ReachesBalance(mv, m) <=> m.id > last
<1>1. \A x \in mv : x.id \in Nat \ {0} /\ x.at \in Nat
  BY DEF Rows, Movement
<1>2. last \in Nat /\ \A y \in mv : y.kind = "set" => y.id <= last
  BY DEF LastOf
<1>3. ASSUME m.id > last, NEW y \in mv, y.kind = "set"
      PROVE  ~Earlier(m, y)
  <2>1. y.id < m.id
    BY <1>1, <1>2, <1>3
  <2>2. y.at < m.at
    BY <1>3, <2>1 DEF InTime, IsManual
  <2> QED
    BY <1>1, <2>1, <2>2 DEF Earlier
<1>4. ASSUME ~(m.id > last)
      PROVE  \E y \in mv : y.kind = "set" /\ Earlier(m, y)
  <2>1. last # 0
    BY <1>1, <1>2, <1>4
  <2>2. PICK y \in mv : y.kind = "set" /\ y.id = last
    BY <2>1 DEF LastOf
  <2>3. m.id # y.id
    BY <2>2 DEF Rows, IsManual
  <2>4. m.id < y.id
    BY <1>1, <1>2, <1>4, <2>2, <2>3
  <2>5. m.at < y.at
    BY <2>2, <2>4 DEF InTime, IsManual
  <2> QED
    BY <2>2, <2>5 DEF Earlier
<1> QED
  BY <1>3, <1>4 DEF ReachesBalance

\* Editing a manual row moves the figure by what the rows' sum moves.
LEMMA SurplusEdited ==
  ASSUME NEW mv, Rows(mv), NEW m \in mv, m.kind # "set", NEW delta \in Int, NEW new \in Movement,
         new.id = m.id, new.kind = m.kind,
         Effect(new.kind, new.amount) = Effect(m.kind, m.amount) + delta,
         NEW last, last \in Nat, NEW m2, m2 = Shifted(mv \ {m}, m, delta) \cup {new}, Rows(m2),
         NEW balance \in Int, NEW balance2,
         balance2 = IF m.id > last THEN balance + delta ELSE balance
  PROVE  Surplus(balance2, m2, last) = Surplus(balance, mv, last)
<1> DEFINE R == mv \ {m}
           sh(x) == ShiftRow(R, m, delta, x)
           A == LastSets(mv, last)
           S == After(mv, last) \ {m}
           S2 == {sh(x) : x \in S}
<1>1. \A x \in R : sh(x).id = x.id /\ sh(x).kind = x.kind
  BY ShiftRowKeeps DEF Rows
<1>2. m2 = {sh(x) : x \in R} \cup {new}
  BY ShiftedRows
<1>3. A \in SUBSET R /\ S \in SUBSET R /\ R \in SUBSET mv /\ S \in SUBSET mv /\ A \in SUBSET mv
  BY DEF LastSets, After
<1>4. LastSets(m2, last) = {sh(x) : x \in A}
  <2> HIDE DEF sh
  <2> QED
    BY <1>1, <1>2 DEF LastSets
<1>5. After(m2, last) = IF m.id > last THEN {new} \cup S2 ELSE S2
  <2> HIDE DEF sh
  <2> QED
    BY <1>1, <1>2 DEF After
<1>6. After(mv, last) = IF m.id > last THEN {m} \cup S ELSE S
  BY DEF After
<1>7. Sum(AmountsOf, LastSets(m2, last)) = Sum(AmountsOf, A)
  <2>1. LastSets(m2, last) = {ShiftRow(R, m, delta, x) : x \in A}
    BY <1>4
  <2> HIDE DEF A, R
  <2> QED
    <3>1. A \in SUBSET R /\ R \in SUBSET mv
      BY <1>3
    <3> QED
      BY ONLY <2>1, <3>1, Rows(mv), delta \in Int, ShiftedCount
<1>8. Sum(EffectsOf, S2) = Sum(EffectsOf, S)
  <2> HIDE DEF S
  <2> QED
    BY <1>3, ShiftedCount
<1>9. /\ Sum(EffectsOf, S) \in Int /\ Sum(AmountsOf, A) \in Int
      /\ EffectsOf[m] = Effect(m.kind, m.amount) /\ EffectsOf[m] \in Int
      /\ EffectsOf[new] = EffectsOf[m] + delta
  <2>1. {m} \in SUBSET mv
    OBVIOUS
  <2>2. EffectsOf[m] = Effect(m.kind, m.amount) /\ EffectsOf[m] \in Int
    BY <2>1, RowsCount
  <2>3. EffectsOf[new] = Effect(new.kind, new.amount)
    BY DEF EffectsOf
  <2>4. Sum(EffectsOf, S) \in Int /\ Sum(AmountsOf, A) \in Int
    <3> HIDE DEF S, A
    <3> QED
      BY <1>3, RowsCount
  <2> QED
    BY <2>2, <2>3, <2>4
<1>10. Surplus(balance, mv, last) = balance - Sum(AmountsOf, A) - Sum(EffectsOf, After(mv, last))
  BY DEF Surplus
<1>11. Surplus(balance2, m2, last) = balance2 - Sum(AmountsOf, A) - Sum(EffectsOf, After(m2, last))
  BY <1>7 DEF Surplus
<1>12. CASE m.id > last
  <2>1. Sum(EffectsOf, After(mv, last)) = EffectsOf[m] + Sum(EffectsOf, S)
    <3>1. /\ IsFiniteSet(After(mv, last)) /\ m \in After(mv, last)
          /\ \A x \in After(mv, last) : EffectsOf[x] \in Int
      <4>1. After(mv, last) \in SUBSET mv /\ m \in After(mv, last)
        BY <1>12 DEF After
      <4> QED
        BY <4>1, RowsCount
    <3> QED
      BY <3>1, SumWithout
  <2>2. Sum(EffectsOf, After(m2, last)) = EffectsOf[new] + Sum(EffectsOf, S2)
    <3>1. /\ IsFiniteSet(After(m2, last)) /\ new \in After(m2, last)
          /\ \A x \in After(m2, last) : EffectsOf[x] \in Int
      <4>1. After(m2, last) \in SUBSET m2 /\ new \in After(m2, last)
        BY <1>2, <1>12 DEF After
      <4> QED
        BY <4>1, RowsCount
    <3>2. After(m2, last) \ {new} = S2
      <4>1. \A x \in R : sh(x).id # m.id
        <5> HIDE DEF sh
        <5>1. \A x \in R : x.id # m.id
          BY DEF Rows
        <5> QED
          BY <1>1, <5>1
      <4>2. new \notin S2
        <5> HIDE DEF sh
        <5> QED
          BY <1>3, <4>1
      <4> QED
        BY <1>5, <1>12, <4>2
    <3>3. Sum(EffectsOf, After(m2, last))
            = EffectsOf[new] + Sum(EffectsOf, After(m2, last) \ {new})
      BY ONLY <3>1, SumWithout
    <3> QED
      BY <3>2, <3>3
  <2>3. balance2 = balance + delta
    BY <1>12
  <2> HIDE DEF S, S2, A
  <2> QED
    BY <1>8, <1>9, <1>10, <1>11, <2>1, <2>2, <2>3
<1>13. CASE ~(m.id > last)
  <2> HIDE DEF S, S2, A
  <2> QED
    BY <1>5, <1>6, <1>8, <1>9, <1>10, <1>11, <1>13
<1> QED
  BY <1>12, <1>13

\* So does deleting one.
LEMMA SurplusDeleted ==
  ASSUME NEW mv, Rows(mv), NEW m \in mv, m.kind # "set",
         NEW effect \in Int, effect = Effect(m.kind, m.amount),
         NEW last, last \in Nat, NEW m2, m2 = Shifted(mv \ {m}, m, -effect),
         NEW balance \in Int, NEW balance2,
         balance2 = IF m.id > last THEN balance - effect ELSE balance
  PROVE  Surplus(balance2, m2, last) = Surplus(balance, mv, last)
<1> DEFINE R == mv \ {m}
           sh(x) == ShiftRow(R, m, -effect, x)
           A == LastSets(mv, last)
           S == After(mv, last) \ {m}
           S2 == {sh(x) : x \in S}
<1>0. -effect \in Int
  OBVIOUS
<1>1. \A x \in R : sh(x).id = x.id /\ sh(x).kind = x.kind
  BY <1>0, ShiftRowKeeps DEF Rows
<1>2. m2 = {sh(x) : x \in R}
  BY ShiftedRows
<1>3. A \in SUBSET R /\ S \in SUBSET R /\ R \in SUBSET mv /\ S \in SUBSET mv /\ A \in SUBSET mv
  BY DEF LastSets, After
<1>4. LastSets(m2, last) = {sh(x) : x \in A} /\ After(m2, last) = S2
  <2> HIDE DEF sh
  <2>1. LastSets(m2, last) = {sh(x) : x \in A}
    BY <1>1, <1>2 DEF LastSets
  <2>2. After(m2, last) = S2
    BY <1>1, <1>2 DEF After
  <2> QED
    BY <2>1, <2>2
<1>5. After(mv, last) = IF m.id > last THEN {m} \cup S ELSE S
  BY DEF After
<1>6. Sum(AmountsOf, LastSets(m2, last)) = Sum(AmountsOf, A)
  <2>1. LastSets(m2, last) = {ShiftRow(R, m, -effect, x) : x \in A}
    BY <1>4
  <2> HIDE DEF A, R
  <2> QED
    BY ONLY <1>0, <1>3, <2>1, Rows(mv), ShiftedCount
<1>7. Sum(EffectsOf, S2) = Sum(EffectsOf, S)
  <2> HIDE DEF S
  <2> QED
    BY <1>0, <1>3, ShiftedCount
<1>8. Sum(EffectsOf, S) \in Int /\ Sum(AmountsOf, A) \in Int /\ EffectsOf[m] = effect
  <2>1. {m} \in SUBSET mv
    OBVIOUS
  <2>2. EffectsOf[m] = effect
    BY <2>1, RowsCount
  <2>3. Sum(EffectsOf, S) \in Int /\ Sum(AmountsOf, A) \in Int
    <3> HIDE DEF S, A
    <3> QED
      BY <1>3, RowsCount
  <2> QED
    BY <2>2, <2>3
<1>9. Surplus(balance, mv, last) = balance - Sum(AmountsOf, A) - Sum(EffectsOf, After(mv, last))
  BY DEF Surplus
<1>10. Surplus(balance2, m2, last) = balance2 - Sum(AmountsOf, A) - Sum(EffectsOf, S)
  <2> HIDE DEF S, S2, A
  <2> QED
    BY <1>4, <1>6, <1>7 DEF Surplus
<1>11. CASE m.id > last
  <2>1. Sum(EffectsOf, After(mv, last)) = effect + Sum(EffectsOf, S)
    <3>1. /\ IsFiniteSet(After(mv, last)) /\ m \in After(mv, last)
          /\ \A x \in After(mv, last) : EffectsOf[x] \in Int
      <4>1. After(mv, last) \in SUBSET mv /\ m \in After(mv, last)
        BY <1>11 DEF After
      <4> QED
        BY <4>1, RowsCount
    <3> QED
      BY <1>8, <3>1, SumWithout
  <2>2. balance2 = balance - effect
    BY <1>11
  <2> HIDE DEF S, S2, A
  <2> QED
    BY <1>8, <1>9, <1>10, <2>1, <2>2
<1>12. CASE ~(m.id > last)
  <2> HIDE DEF S, S2, A
  <2> QED
    BY <1>5, <1>8, <1>9, <1>10, <1>12
<1> QED
  BY <1>11, <1>12

\* A row typed in moves the figure by what it contributes.
LEMMA SurplusRecorded ==
  ASSUME NEW mv, Rows(mv), NEW r \in Movement, r.kind # "set", NEW last, last \in Nat,
         r.id > last, \A x \in mv : x.id < r.id, NEW m2, m2 = mv \cup {r}, Rows(m2),
         NEW balance \in Int, NEW balance2, balance2 = balance + Effect(r.kind, r.amount)
  PROVE  Surplus(balance2, m2, last) = Surplus(balance, mv, last)
<1> DEFINE A == LastSets(mv, last)
           S == After(mv, last)
<1>1. LastSets(m2, last) = A /\ After(m2, last) = S \cup {r}
  BY DEF LastSets, After
<1>2. A \in SUBSET mv /\ S \in SUBSET mv
  BY DEF LastSets, After
<1>3. r \notin mv
  <2>1. r.id \in Nat
    BY DEF Movement
  <2>2. ~(r.id < r.id)
    BY <2>1
  <2> QED
    BY <2>2
<1>4. Sum(EffectsOf, S) \in Int /\ Sum(AmountsOf, A) \in Int
  <2> HIDE DEF S, A
  <2> QED
    BY <1>2, RowsCount
<1>5. Sum(EffectsOf, S \cup {r}) = EffectsOf[r] + Sum(EffectsOf, S)
  <2>1. S \cup {r} \in SUBSET m2
    BY <1>2
  <2>2. IsFiniteSet(S \cup {r}) /\ \A x \in S \cup {r} : EffectsOf[x] \in Int
    <3> HIDE DEF S
    <3> QED
      BY <2>1, RowsCount
  <2>3. (S \cup {r}) \ {r} = S /\ r \in S \cup {r}
    BY <1>2, <1>3
  <2> HIDE DEF S
  <2> QED
    BY <2>2, <2>3, SumWithout
<1>6. EffectsOf[r] = Effect(r.kind, r.amount) /\ EffectsOf[r] \in Int
  <2>1. {r} \in SUBSET m2
    OBVIOUS
  <2> QED
    BY <2>1, RowsCount
<1>7. /\ Surplus(balance, mv, last) = balance - Sum(AmountsOf, A) - Sum(EffectsOf, S)
      /\ Surplus(balance2, m2, last) = balance2 - Sum(AmountsOf, A) - Sum(EffectsOf, S \cup {r})
  BY <1>1 DEF Surplus
<1> HIDE DEF A, S
<1> QED
  BY <1>4, <1>5, <1>6, <1>7

LEMMA NothingLost ==
  ASSUME NEW S, S = {e \in Expenses : tracked[e] > 0 /\ tracked'[e] = 0 /\ Linked(e) = {}},
         tracked \in [Expenses -> Nat], tracked' = tracked
  PROVE  Total(tracked, S) = 0
<1>1. S = {}
  OBVIOUS
<1> QED
  BY <1>1, SumEmpty, TotalIsSum

\* The steps that leave what is reflected alone keep the surplus.
LEMMA RecordExplained ==
  ASSUME IInv, IInv', NEW a \in Amounts, NEW kind \in {"expense", "topup"}, Record(kind, a),
         NEW last, LastOf(moves, last)
  PROVE  Surplus(desk'.balance, moves', last) = Surplus(desk.balance, moves, last)
<1> DEFINE b == desk.balance
           c == b + Effect(kind, a)
           r == [id |-> lastId + 1, kind |-> kind, amount |-> a, before |-> b,
                 after |-> c, exp |-> None, at |-> clock + 1]
<1>1. /\ desk' = [desk EXCEPT !.balance = @ + Effect(kind, a)]
      /\ moves' = moves \cup {r}
  BY DEF Record
<1>2. /\ clock \in Nat /\ lastId \in Nat /\ moves \subseteq Movement /\ desk \in Desk
      /\ Rows(moves) /\ Rows(moves') /\ \A x \in moves : RowOK(x, lastId, clock)
  BY DEF IInv, Sound, Rows
<1>3. a \in Nat /\ b \in Int /\ c \in Int
  BY <1>2, AmountsNat, EffectInt DEF Desk
<1>4. desk'.balance = c
  BY <1>1, <1>2 DEF Desk
<1>5. /\ r \in Movement /\ r.id = lastId + 1 /\ r.kind = kind /\ r.amount = a
  <2> HIDE DEF b, c
  <2> QED
    BY <1>2, <1>3 DEF Movement
<1>6. \A x \in moves : x.id \in Nat /\ x.id <= lastId /\ x.id < r.id
  <2> SUFFICES ASSUME NEW x \in moves PROVE x.id \in Nat /\ x.id <= lastId /\ x.id < r.id
    OBVIOUS
  <2>1. x.id \in Nat /\ x.id <= lastId
    BY <1>2 DEF Movement, RowOK
  <2> HIDE DEF r
  <2> QED
    BY <1>2, <1>5, <2>1
<1>7. last \in Nat /\ r.id > last
  <2> HIDE DEF r
  <2>1. last \in Nat
    BY DEF LastOf
  <2>2. CASE last = 0
    BY <1>2, <1>5, <2>1, <2>2
  <2>3. CASE last # 0
    <3>1. PICK y \in moves : y.id = last
      BY <2>3 DEF LastOf
    <3> QED
      BY <1>2, <1>5, <1>6, <2>1, <3>1
  <2> QED
    BY <2>2, <2>3
<1>8. desk'.balance = desk.balance + Effect(r.kind, r.amount) /\ r.kind # "set"
  BY <1>4, <1>5
<1> HIDE DEF r
<1>9. \A x \in moves : x.id < r.id
  BY <1>6
<1> QED
  BY <1>1, <1>2, <1>3, <1>5, <1>7, <1>8, <1>9, SurplusRecorded

LEMMA EditExplained ==
  ASSUME IInv, IInv', NEW m \in moves, NEW a \in Amounts, EditMovement(m, a),
         NEW last, LastOf(moves, last)
  PROVE  Surplus(desk'.balance, moves', last) = Surplus(desk.balance, moves, last)
<1> DEFINE delta == Effect(m.kind, a) - Effect(m.kind, m.amount)
           c == m.before + Effect(m.kind, a)
           new == [m EXCEPT !.amount = a, !.after = c]
<1>1. /\ IsManual(m) /\ m.kind # "set"
      /\ moves' = Shifted(moves \ {m}, m, delta) \cup {new}
      /\ desk' = [desk EXCEPT !.balance = IF ReachesBalance(moves, m) THEN @ + delta ELSE @]
  BY DEF EditMovement, IsManual
<1>2. /\ Rows(moves) /\ Rows(moves') /\ desk \in Desk /\ desk.balance \in Int
      /\ InTime(moves) /\ \A x \in moves : x.kind = "set" => x.exp = None
      /\ m \in Movement
  BY DEF IInv, Sound, Rows, Desk, RowOK
<1>3. /\ new \in Movement /\ new.id = m.id /\ new.kind = m.kind /\ new.amount = a
      /\ delta \in Int
  BY <1>1, EditedRow
<1>4. ReachesBalance(moves, m) <=> m.id > last
  BY <1>1, <1>2, ReachesWhenCurrent
<1>5. desk'.balance = IF m.id > last THEN desk.balance + delta ELSE desk.balance
  <2>1. desk'.balance = IF ReachesBalance(moves, m) THEN desk.balance + delta ELSE desk.balance
    <3> HIDE DEF delta
    <3> QED
      BY <1>1, <1>2, <1>3, BalanceShifted
  <2> QED
    BY <1>4, <2>1
<1>6. Effect(new.kind, new.amount) = Effect(m.kind, m.amount) + delta
  <2>1. Effect(m.kind, a) \in Int /\ Effect(m.kind, m.amount) \in Int
    BY <1>2, AmountsNat, EffectInt DEF Movement
  <2> QED
    BY <1>3, <2>1
<1>7. last \in Nat
  BY DEF LastOf
<1> HIDE DEF delta, new
<1> QED
  <2>1. /\ m \in moves /\ m.kind # "set" /\ delta \in Int /\ new \in Movement
        /\ new.id = m.id /\ new.kind = m.kind
    BY <1>1, <1>3
  <2>2. moves' = Shifted(moves \ {m}, m, delta) \cup {new} /\ Rows(moves) /\ Rows(moves')
        /\ desk.balance \in Int
    BY <1>1, <1>2
  <2> QED
    BY ONLY <1>5, <1>6, <1>7, <2>1, <2>2, SurplusEdited

LEMMA DeleteExplained ==
  ASSUME IInv, NEW m \in moves, DeleteMovement(m), NEW last, LastOf(moves, last)
  PROVE  Surplus(desk'.balance, moves', last) = Surplus(desk.balance, moves, last)
<1> DEFINE effect == Effect(m.kind, m.amount)
<1>1. /\ IsManual(m) /\ m.kind # "set"
      /\ moves' = Shifted(moves \ {m}, m, -effect)
      /\ desk' = [desk EXCEPT !.balance = IF ReachesBalance(moves, m) THEN @ + (-effect) ELSE @]
  BY DEF DeleteMovement, IsManual
<1>2. /\ Rows(moves) /\ desk \in Desk /\ desk.balance \in Int
      /\ InTime(moves) /\ \A x \in moves : x.kind = "set" => x.exp = None
      /\ m \in Movement
  BY DEF IInv, Sound, Rows, Desk, RowOK
<1>3. effect \in Int /\ -effect \in Int
  <2>1. effect \in Int
    BY <1>2, EffectInt DEF Movement
  <2> QED
    BY <2>1
<1>4. ReachesBalance(moves, m) <=> m.id > last
  BY <1>1, <1>2, ReachesWhenCurrent
<1>5. effect = Effect(m.kind, m.amount)
  OBVIOUS
<1> HIDE DEF effect
<1>6. desk'.balance =
        IF ReachesBalance(moves, m) THEN desk.balance + (-effect) ELSE desk.balance
  BY <1>1, <1>2, <1>3, BalanceShifted
<1>7. desk'.balance = IF m.id > last THEN desk.balance - effect ELSE desk.balance
  BY <1>2, <1>3, <1>4, <1>6
<1>8. last \in Nat
  BY DEF LastOf
<1> QED
  <2>1. m \in moves /\ m.kind # "set" /\ effect \in Int
    BY <1>1, <1>3
  <2>2. moves' = Shifted(moves \ {m}, m, -effect) /\ Rows(moves) /\ desk.balance \in Int
    BY <1>1, <1>2
  <2> QED
    BY ONLY <1>5, <1>7, <1>8, <2>1, <2>2, SurplusDeleted

\* A balance set becomes the last one.
LEMMA SetBalanceIsLast ==
  ASSUME IInv, IInv', NEW a \in Amounts, SetBalance(a)
  PROVE  LastSetId' # LastSetId
<1> DEFINE now == clock + 1
           d == [isSet |-> TRUE, balance |-> a, baseline |-> FALSE, cutoff |-> now]
           t == [e \in Expenses |-> 0]
           b == IF desk.isSet THEN desk.balance ELSE None
           r == [id |-> lastId + 1, kind |-> "set", amount |-> a, before |-> b,
                 after |-> a, exp |-> None, at |-> now]
<1>1. Fold(d, t, moves \cup {r}, lastId + 1, PaidCash, PaidAt, AmountOf, now)
  BY DEF SetBalance
<1>2. /\ Rows(moves) /\ Rows(moves') /\ lastId \in Nat /\ moves \subseteq Movement
      /\ \A x \in moves : RowOK(x, lastId, clock)
  BY DEF IInv, Sound, Rows
<1>3. r \in moves'
  <2>1. d.isSet /\ r \in moves \cup {r} /\ r.exp = None
    OBVIOUS
  <2>2. None \notin Cancelled(t, PaidCash)
    BY ExpensesAssumption DEF Cancelled, Known
  <2> HIDE DEF d, t, r, now
  <2> QED
    BY <1>1, <2>1, <2>2 DEF Fold
<1>4. r.kind = "set" /\ r.id = lastId + 1
  OBVIOUS
<1> HIDE DEF r
<1>5. LastOf(moves, LastSetId) /\ LastOf(moves', LastSetId')
  BY <1>2, LastSetIsLast, LastSetIsLastThen
<1>6. LastSetId \in Nat /\ LastSetId <= lastId
  <2>1. LastSetId \in Nat
    BY <1>5 DEF LastOf
  <2>2. CASE LastSetId = 0
    BY <1>2, <2>2
  <2>3. CASE LastSetId # 0
    <3>1. PICK y \in moves : y.id = LastSetId
      BY <1>5, <2>3 DEF LastOf
    <3>2. RowOK(y, lastId, clock)
      BY <1>2
    <3>3. y.id <= lastId
      BY <3>2 DEF RowOK
    <3> QED
      BY <2>1, <3>1, <3>3
  <2> QED
    BY <2>1, <2>2, <2>3
<1>7. LastSetId' \in Nat /\ lastId + 1 <= LastSetId'
  BY <1>3, <1>4, <1>5 DEF LastOf
<1> QED
  BY <1>2, <1>6, <1>7

\* Money neither appears nor vanishes: between two balance sets the figure is the
\* amount typed in and what the rows recorded since add up to, except that rolling
\* back a reimbursement the opening balance already included gives its sum back.
THEOREM FigureIsExplained == Spec => FigureExplained
<1>1. ASSUME IInv, IInv', [Next]_vars, LastSetId' = LastSetId, desk.isSet
      PROVE  Unexplained' = Unexplained +
               Total(tracked, {e \in Expenses : tracked[e] > 0 /\ tracked'[e] = 0
                                                 /\ Linked(e) = {}})
  <2> DEFINE L == LastSetId
             Lost == {e \in Expenses : tracked[e] > 0 /\ tracked'[e] = 0 /\ Linked(e) = {}}
  <2>1. /\ Rows(moves) /\ Rows(moves') /\ tracked \in [Expenses -> Nat] /\ clock \in Nat
        /\ Sound(desk, tracked, moves, lastId, clock)
        /\ desk \in Desk /\ desk.balance \in Int
    BY <1>1 DEF IInv, Sound, Rows, Desk
  <2>2. Unexplained = Surplus(desk.balance, moves, L)
    BY <2>1, UnexplainedIsSurplus
  <2>3. Unexplained' = Surplus(desk'.balance, moves', L)
    BY <1>1, <2>1, UnexplainedIsSurplusThen
  <2>4. LastOf(moves, L) /\ LastOf(moves', L)
    BY <1>1, <2>1, LastSetIsLast, LastSetIsLastThen
  <2>5. Unexplained \in Int
    <3>1. LastSets(moves, L) \in SUBSET moves /\ After(moves, L) \in SUBSET moves
      BY DEF LastSets, After
    <3>2. Sum(AmountsOf, LastSets(moves, L)) \in Int /\ Sum(EffectsOf, After(moves, L)) \in Int
      BY <2>1, <3>1, RowsCount
    <3> QED
      BY <2>1, <2>2, <3>2 DEF Surplus
  <2>6. Lost = {e \in Expenses : tracked[e] > 0 /\ tracked'[e] = 0
                                   /\ {x \in After(moves, L) : x.exp = e} = {}}
    BY DEF Linked, SinceSet, After
  <2>7. tracked' = tracked => Total(tracked, Lost) = 0
    BY <2>1, NothingLost
  <2> SUFFICES Unexplained' = Unexplained + Total(tracked, Lost)
    OBVIOUS
  <2> HIDE DEF L, Lost
  <2>8. ASSUME NEW P, P \in SUBSET Expenses, NEW at, at \in [Expenses -> Nat],
               NEW amt, amt \in [Expenses -> Amounts], \A e \in Expenses : at[e] <= clock,
               Fold(desk, tracked, moves, lastId, P, at, amt, clock)
        PROVE  Unexplained' = Unexplained + Total(tracked, Lost)
    <3>1. Folded(desk, tracked, moves, lastId, P, at, amt, clock,
                 desk', tracked', moves', lastId')
      BY <2>8 DEF Fold, Folded, NewRows
    <3>2. Surplus(desk'.balance, moves', L) = Surplus(desk.balance, moves, L)
            + Total(tracked, {e \in Expenses : tracked[e] > 0 /\ tracked'[e] = 0
                                         /\ {x \in After(moves, L) : x.exp = e} = {}})
      BY <1>1, <2>1, <2>4, <2>8, <3>1, SurplusFolded
    <3> QED
      BY <2>2, <2>3, <2>6, <3>2
  <2>9. ASSUME tracked' = tracked,
               Surplus(desk'.balance, moves', L) = Surplus(desk.balance, moves, L)
        PROVE  Unexplained' = Unexplained + Total(tracked, Lost)
    BY <2>2, <2>3, <2>5, <2>7, <2>9
  <2>10. ASSUME NEW s \in Sessions, Finish(s)
         PROVE  Unexplained' = Unexplained + Total(tracked, Lost)
    <3> DEFINE h == handler[s]
               at == [PaidAt EXCEPT ![h.exp] = h.paidAt]
               amt == [AmountOf EXCEPT ![h.exp] = h.amount]
    <3>1. h # Idle /\ Fold(desk, tracked, moves, lastId, PaidCash, at, amt, clock)
      BY <2>10 DEF Finish
    <3>2. /\ PaidCash \in SUBSET Expenses /\ at \in [Expenses -> Nat]
          /\ amt \in [Expenses -> Amounts] /\ \A e \in Expenses : at[e] <= clock
      BY <1>1, <3>1, ReadRequests
    <3> HIDE DEF at, amt
    <3> QED
      BY <2>8, <3>1, <3>2
  <2>11. CASE GetCash
    <3> DEFINE P == PaidCash
               at == PaidAt
               amt == AmountOf
    <3>1. /\ Fold(desk, tracked, moves, lastId, P, at, amt, clock)
          /\ P \in SUBSET Expenses /\ amt \in [Expenses -> Amounts]
          /\ at \in [Expenses -> Nat] /\ \A e \in Expenses : at[e] <= clock
      BY <1>1, <2>11, ReadRequests DEF GetCash
    <3> HIDE DEF P, at, amt
    <3> QED
      BY <2>8, <3>1
  <2>12. ASSUME NEW a \in Amounts, SetBalance(a) PROVE FALSE
    BY <1>1, <2>12, SetBalanceIsLast
  <2>13. ASSUME NEW a \in Amounts, NEW kind \in {"expense", "topup"}, Record(kind, a)
         PROVE  Unexplained' = Unexplained + Total(tracked, Lost)
    <3>1. tracked' = tracked
      BY <2>13 DEF Record
    <3>2. Surplus(desk'.balance, moves', L) = Surplus(desk.balance, moves, L)
      BY <1>1, <2>4, <2>13, RecordExplained
    <3> QED
      BY <2>9, <3>1, <3>2
  <2>14. ASSUME NEW m \in moves, DeleteMovement(m)
         PROVE  Unexplained' = Unexplained + Total(tracked, Lost)
    <3>1. tracked' = tracked
      BY <2>14 DEF DeleteMovement
    <3>2. Surplus(desk'.balance, moves', L) = Surplus(desk.balance, moves, L)
      BY <1>1, <2>4, <2>14, DeleteExplained
    <3> QED
      BY <2>9, <3>1, <3>2
  <2>15. ASSUME NEW m \in moves, NEW a \in Amounts, EditMovement(m, a)
         PROVE  Unexplained' = Unexplained + Total(tracked, Lost)
    <3>1. tracked' = tracked
      BY <2>15 DEF EditMovement
    <3>2. Surplus(desk'.balance, moves', L) = Surplus(desk.balance, moves, L)
      BY <1>1, <2>4, <2>15, EditExplained
    <3> QED
      BY <2>9, <3>1, <3>2
  <2>16. ASSUME UNCHANGED <<desk, tracked, moves>>
         PROVE  Unexplained' = Unexplained + Total(tracked, Lost)
    BY <2>9, <2>16
  <2>17. ASSUME NEW s \in Sessions,
                (\E e \in Expenses, op \in {"pay", "unpay", "close"} : Load(s, e, op)) \/ Fail(s)
         PROVE  Unexplained' = Unexplained + Total(tracked, Lost)
    BY <2>16, <2>17 DEF Load, Fail
  <2>18. ASSUME NEW e \in Expenses,
                Remove(e) \/ \E a \in Amounts, c \in BOOLEAN : Edit(e, a, c)
         PROVE  Unexplained' = Unexplained + Total(tracked, Lost)
    BY <2>16, <2>18 DEF Remove, Edit
  <2>19. CASE UNCHANGED vars
    <3>1. UNCHANGED <<desk, tracked, moves>>
      BY <2>19 DEF vars
    <3> QED
      BY <2>16, <3>1
  <2>20. CASE Next
    <3>1. CASE \E s \in Sessions :
                 \/ \E e \in Expenses, op \in {"pay", "unpay", "close"} : Load(s, e, op)
                 \/ Finish(s) \/ Fail(s)
      BY <2>10, <2>17, <3>1
    <3>2. CASE \E e \in Expenses :
                 Remove(e) \/ \E a \in Amounts, c \in BOOLEAN : Edit(e, a, c)
      BY <2>18, <3>2
    <3>3. CASE \E a \in Amounts : SetBalance(a) \/
                 \E kind \in {"expense", "topup"} : Record(kind, a)
      BY <2>12, <2>13, <3>3
    <3>4. CASE \E m \in moves : DeleteMovement(m) \/ \E a \in Amounts : EditMovement(m, a)
      BY <2>14, <2>15, <3>4
    <3> QED
      BY <2>11, <2>20, <3>1, <3>2, <3>3, <3>4 DEF Next
  <2> QED
    BY <1>1, <2>19, <2>20
<1>2. IInv /\ IInv' /\ [Next]_vars =>
        [LastSetId' = LastSetId /\ desk.isSet =>
           Unexplained' = Unexplained +
             Total(tracked, {e \in Expenses : tracked[e] > 0 /\ tracked'[e] = 0
                                               /\ Linked(e) = {}})]_vars
  BY <1>1
<1> QED
  BY <1>2, Invariant, PTL DEF Spec, FigureExplained
=============================================================================
