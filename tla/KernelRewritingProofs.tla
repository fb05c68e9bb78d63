------------------------ MODULE KernelRewritingProofs ------------------------
(***************************************************************************)
(* However often and in whatever order a kernel is rewritten, it keeps its *)
(* meaning.                                                                *)
(***************************************************************************)
EXTENDS KernelRewriting, SequenceTheorems, WellFoundedInduction, TLAPS

(* -- numbers and tables ------------------------------------------------------ *)
LEMMA LeastOfSet ==
  ASSUME NEW T, T \subseteq Nat, T # {}
  PROVE  \E x \in T : \A y \in T : x <= y
<1> DEFINE R == OpToRel(<, Nat)
<1>1. IsWellFoundedOn(R, Nat)
  BY NatLessThanWellFounded
<1>2. \A x, y \in Nat : x < y => <<x, y>> \in R
  BY DEF OpToRel
<1> HIDE DEF R
<1>3. PICK x \in T : \A y \in T : ~(<<y, x>> \in R)
  BY <1>1, WFMin
<1>4. ASSUME NEW y \in T PROVE x <= y
  <2>1. x \in Nat /\ y \in Nat
    OBVIOUS
  <2>2. ~(y < x)
    BY <1>2, <1>3, <2>1
  <2> QED
    BY <2>1, <2>2
<1> QED
  BY <1>4

(* Induction upwards to a bound, and downwards from it.                     *)
LEMMA Upwards ==
  ASSUME NEW n \in Nat, NEW S, 0 \in S, \A i \in 1..n : i - 1 \in S => i \in S
  PROVE  0..n \subseteq S
<1> SUFFICES ASSUME 0..n \ S # {} PROVE FALSE
  OBVIOUS
<1>1. PICK x \in 0..n \ S : \A y \in 0..n \ S : x <= y
  <2>1. 0..n \ S \subseteq Nat
    OBVIOUS
  <2> QED
    BY <2>1, LeastOfSet
<1>2. x # 0 /\ x \in 1..n /\ x - 1 \in 0..n
  OBVIOUS
<1>3. x - 1 \in S
  BY <1>1, <1>2
<1> QED
  BY <1>2, <1>3

LEMMA Downwards ==
  ASSUME NEW n \in Nat, NEW S, \A s \in 1..n : ((s + 1)..n \subseteq S) => s \in S
  PROVE  1..n \subseteq S
<1> DEFINE T == {i \in 0..n : ((n - i) + 1)..n \subseteq S}
<1>1. 0 \in T
  BY DEF T
<1>2. ASSUME NEW i \in 1..n, i - 1 \in T PROVE i \in T
  <2>1. ((n - i) + 1) + 1 = (n - (i - 1)) + 1 /\ (n - i) + 1 \in 1..n
    OBVIOUS
  <2>2. (((n - i) + 1) + 1)..n \subseteq S
    BY <1>2, <2>1
  <2>3. (n - i) + 1 \in S
    BY <2>1, <2>2
  <2>4. \A s \in ((n - i) + 1)..n : s = (n - i) + 1 \/ s \in (((n - i) + 1) + 1)..n
    OBVIOUS
  <2> QED
    BY <2>2, <2>3, <2>4
<1> HIDE DEF T
<1>3. 0..n \subseteq T
  BY <1>1, <1>2, Upwards
<1>4. n \in T
  BY <1>3
<1> QED
  BY <1>4 DEF T

(* -- runs of acts ------------------------------------------------------------ *)
(* The states of a run.                                                     *)
Run(r, st, acts) ==
  r[0] = st /\ \A i \in 1..Len(acts) : r[i] = Do(r[i - 1], acts[i])

LEMMA RunExists ==
  ASSUME NEW st, NEW acts, Len(acts) \in Nat
  PROVE  \E r : Run(r, st, acts) /\ After(st, acts) = r[Len(acts)]
<1> DEFINE n == Len(acts)
           Next_(r, i) == IF i = 0 THEN st ELSE Do(r[i - 1], acts[i])
           T == {m \in 0..n : \E r : /\ r = [i \in 0..n |-> r[i]]
                                     /\ \A i \in 0..m : r[i] = Next_(r, i)}
<1>1. 0 \in T
  <2> DEFINE r == [i \in 0..n |-> st]
  <2>1. r = [i \in 0..n |-> r[i]] /\ \A i \in 0..0 : r[i] = Next_(r, i)
    OBVIOUS
  <2>2. 0 \in 0..n
    OBVIOUS
  <2> HIDE DEF r, Next_
  <2> QED
    BY <2>1, <2>2
<1>2. ASSUME NEW m \in 1..n, m - 1 \in T PROVE m \in T
  <2>1. PICK r : /\ r = [i \in 0..n |-> r[i]]
                 /\ \A i \in 0..(m - 1) : r[i] = Next_(r, i)
    BY <1>2
  <2> DEFINE q == [i \in 0..n |-> IF i = m THEN Do(r[m - 1], acts[m]) ELSE r[i]]
  <2>2. \A i \in 0..m : q[i] = Next_(q, i)
    <3> TAKE i \in 0..m
    <3>1. CASE i = m
      BY <3>1
    <3>2. CASE i # m
      <4>1. i \in 0..(m - 1) /\ q[i] = r[i] /\ (i # 0 => q[i - 1] = r[i - 1])
        BY <3>2
      <4> QED
        BY <2>1, <4>1
    <3> QED
      BY <3>1, <3>2
  <2>3. q = [i \in 0..n |-> q[i]]
    OBVIOUS
  <2> HIDE DEF q
  <2> QED
    BY <2>2, <2>3
<1> HIDE DEF T
<1>3. 0..n \subseteq T
  BY <1>1, <1>2, Upwards
<1>4. PICK r : /\ r = [i \in 0..n |-> r[i]]
               /\ \A i \in 0..n : r[i] = Next_(r, i)
  <2>1. n \in T
    BY <1>3
  <2> QED
    BY <2>1 DEF T
<1>5. r = [i \in 0..n |-> IF i = 0 THEN st ELSE Do(r[i - 1], acts[i])]
  BY <1>4
<1> DEFINE Is(f) == f = [i \in 0..n |-> IF i = 0 THEN st ELSE Do(f[i - 1], acts[i])]
           c == CHOOSE f : Is(f)
<1>6. Is(c)
  <2>1. Is(r)
    BY <1>5
  <2> QED
    BY <2>1
<1>7. After(st, acts) = c[n]
  BY DEF After
<1> HIDE DEF c
<1>8. Run(c, st, acts)
  BY <1>6 DEF Run
<1> QED
  BY <1>7, <1>8

LEMMA RunEnds ==
  ASSUME NEW st, NEW acts, Len(acts) \in Nat, NEW r, Run(r, st, acts)
  PROVE  After(st, acts) = r[Len(acts)]
<1>1. PICK c : Run(c, st, acts) /\ After(st, acts) = c[Len(acts)]
  BY RunExists
<1> DEFINE T == {i \in 0..Len(acts) : c[i] = r[i]}
<1>2. 0 \in T
  BY <1>1 DEF Run
<1>3. ASSUME NEW i \in 1..Len(acts), i - 1 \in T PROVE i \in T
  BY <1>1, <1>3 DEF Run
<1> HIDE DEF T
<1>4. 0..Len(acts) \subseteq T
  BY <1>2, <1>3, Upwards
<1> QED
  BY <1>1, <1>4 DEF T

LEMMA AfterNothing ==
  ASSUME NEW st
  PROVE  After(st, <<>>) = st
<1>1. Len(<<>>) = 0
  OBVIOUS
<1> QED
  BY <1>1, RunExists DEF Run

LEMMA AfterOne ==
  ASSUME NEW st, NEW act
  PROVE  After(st, <<act>>) = Do(st, act)
<1>1. Len(<<act>>) = 1 /\ <<act>>[1] = act
  OBVIOUS
<1> QED
  BY <1>1, RunExists DEF Run

LEMMA AfterBoth ==
  ASSUME NEW A, NEW p \in Seq(A), NEW q \in Seq(A), NEW st
  PROVE  After(st, p \o q) = After(After(st, p), q)
<1> DEFINE m == Len(p)
           n == Len(q)
<1>1. /\ p \o q \in Seq(A) /\ Len(p \o q) = m + n /\ m \in Nat /\ n \in Nat
      /\ \A i \in 1..m : (p \o q)[i] = p[i]
      /\ \A i \in 1..n : (p \o q)[m + i] = q[i]
  OBVIOUS
<1> HIDE DEF m, n
<1>2. PICK r : Run(r, st, p \o q) /\ After(st, p \o q) = r[m + n]
  <2>1. Len(p \o q) \in Nat
    BY <1>1
  <2>2. \E r : Run(r, st, p \o q) /\ After(st, p \o q) = r[Len(p \o q)]
    BY <2>1, RunExists
  <2> QED
    BY <1>1, <2>2
<1>3. Run(r, st, p)
  BY <1>1, <1>2 DEF Run, m
<1>4. After(st, p) = r[m]
  BY <1>1, <1>3, RunEnds DEF m
<1> DEFINE c == [i \in 0..n |-> r[m + i]]
<1>5. Run(c, r[m], q)
  <2>1. c[0] = r[m]
    <3>1. 0 \in 0..n
      BY <1>1
    <3>2. m + 0 = m
      BY <1>1
    <3>3. c[0] = r[m + 0]
      BY <3>1
    <3> HIDE DEF c
    <3> QED
      BY <3>2, <3>3
  <2>2. ASSUME NEW i \in 1..n PROVE c[i] = Do(c[i - 1], q[i])
    <3>1. m + i \in 1..(m + n) /\ (m + i) - 1 = m + (i - 1) /\ i \in 0..n /\ i - 1 \in 0..n
      BY <1>1
    <3>2. r[m + i] = Do(r[(m + i) - 1], (p \o q)[m + i])
      BY <1>1, <1>2, <3>1 DEF Run
    <3> QED
      BY <1>1, <3>1, <3>2
  <2> HIDE DEF c
  <2> QED
    BY <2>1, <2>2 DEF Run, n
<1>6. After(r[m], q) = c[n]
  <2> HIDE DEF c
  <2> QED
    BY <1>1, <1>5, RunEnds DEF n
<1> QED
  BY <1>1, <1>2, <1>4, <1>6

(* -- acts one list after the other ------------------------------------------- *)
Joins(f, q, n, A) ==
  /\ f[0] = <<>> /\ FlattenSeq(q) = f[n]
  /\ \A i \in 0..n : f[i] \in Seq(A)
  /\ \A i \in 1..n : f[i] = f[i - 1] \o q[i]

LEMMA Flattening ==
  ASSUME NEW A, NEW n \in Nat, NEW q \in [1..n -> Seq(A)]
  PROVE  \E f : Joins(f, q, n, A)
<1>1. Len(q) = n
  OBVIOUS
<1>2. CASE n = 0
  <2> DEFINE f == [i \in 0..0 |-> <<>>]
  <2>1. q = <<>> /\ FlattenSeq(q) = q
    BY <1>1, <1>2 DEF FlattenSeq
  <2>2. f[0] = <<>> /\ f[0] \in Seq(A)
    OBVIOUS
  <2> HIDE DEF f
  <2>3. /\ f[n] = <<>> /\ FlattenSeq(q) = <<>>
        /\ \A i \in 0..n : f[i] \in Seq(A)
        /\ \A i \in 1..n : f[i] = f[i - 1] \o q[i]
    <3>1. 0..n = {0} /\ 1..n = {}
      BY <1>2
    <3> QED
      BY <1>2, <2>1, <2>2, <3>1
  <2> QED
    BY <2>2, <2>3 DEF Joins
<1>3. CASE n # 0
  <2> DEFINE Is(f) == f = [i \in 1..n |-> IF i = 1 THEN q[i] ELSE f[i - 1] \o q[i]]
             T == {m \in 0..n : \E f : /\ f = [i \in 1..n |-> f[i]]
                                       /\ \A i \in 1..m : f[i] = IF i = 1 THEN q[i] ELSE f[i - 1] \o q[i]}
  <2>1. 0 \in T
    <3> DEFINE f == [i \in 1..n |-> q]
    <3>1. f = [i \in 1..n |-> f[i]] /\ 0 \in 0..n /\ 1..0 = {}
      OBVIOUS
    <3> HIDE DEF f
    <3> QED
      BY <3>1
  <2>2. ASSUME NEW m \in 1..n, m - 1 \in T PROVE m \in T
    <3>1. PICK f : /\ f = [i \in 1..n |-> f[i]]
                   /\ \A i \in 1..(m - 1) : f[i] = IF i = 1 THEN q[i] ELSE f[i - 1] \o q[i]
      BY <2>2
    <3> DEFINE g == [i \in 1..n |-> IF i # m THEN f[i] ELSE IF i = 1 THEN q[i] ELSE f[i - 1] \o q[i]]
    <3>2. \A i \in 1..m : g[i] = IF i = 1 THEN q[i] ELSE g[i - 1] \o q[i]
      <4> TAKE i \in 1..m
      <4>1. i # 1 => i - 1 \in 1..n /\ g[i - 1] = f[i - 1]
        OBVIOUS
      <4>2. CASE i = m
        BY <4>1, <4>2
      <4>3. CASE i # m
        <5>1. i \in 1..(m - 1) /\ g[i] = f[i]
          BY <4>3
        <5> HIDE DEF g
        <5> QED
          BY <3>1, <4>1, <5>1
      <4> QED
        BY <4>2, <4>3
    <3>3. g = [i \in 1..n |-> g[i]] /\ m \in 0..n
      OBVIOUS
    <3> HIDE DEF g
    <3> QED
      BY <3>2, <3>3
  <2> HIDE DEF T
  <2>3. n \in T
    <3>1. 0..n \subseteq T
      BY <2>1, <2>2, Upwards, Zenon
    <3> QED
      BY <3>1
  <2>4. PICK f : /\ f = [i \in 1..n |-> f[i]]
                 /\ \A i \in 1..n : f[i] = IF i = 1 THEN q[i] ELSE f[i - 1] \o q[i]
    BY <2>3 DEF T
  <2> DEFINE c == CHOOSE g : Is(g)
  <2>5. Is(c)
    <3>1. Is(f)
      BY <2>4
    <3> QED
      BY <3>1, Zenon
  <2>6. FlattenSeq(q) = c[n]
    <3>1. FlattenSeq(q) = (CHOOSE g : g = [i \in 1..Len(q) |-> IF i = 1 THEN q[i] ELSE g[i - 1] \o q[i]])[Len(q)]
      BY <1>1, <1>3 DEF FlattenSeq
    <3> QED
      BY <1>1, <3>1
  <2> HIDE DEF c
  <2> DEFINE h == [i \in 0..n |-> IF i = 0 THEN <<>> ELSE c[i]]
  <2>7. ASSUME NEW i \in 1..n PROVE c[i] = IF i = 1 THEN q[i] ELSE c[i - 1] \o q[i]
    BY <2>5
  <2>8. \A i \in 0..n : h[i] \in Seq(A)
    <3> DEFINE S == {i \in 0..n : h[i] \in Seq(A)}
    <3>1. 0 \in S
      OBVIOUS
    <3>2. ASSUME NEW i \in 1..n, i - 1 \in S PROVE i \in S
      <4>1. h[i] = IF i = 1 THEN q[i] ELSE h[i - 1] \o q[i]
        BY <2>7
      <4>2. h[i - 1] \in Seq(A) /\ q[i] \in Seq(A)
        BY <3>2
      <4>3. h[i] \in Seq(A)
        <5> HIDE DEF h
        <5> QED
          BY <4>1, <4>2, ConcatProperties
      <4> QED
        BY <4>3
    <3> HIDE DEF S
    <3>3. 0..n \subseteq S
      BY <3>1, <3>2, Upwards
    <3> QED
      BY <3>3 DEF S
  <2>9. ASSUME NEW i \in 1..n PROVE h[i] = h[i - 1] \o q[i]
    <3>1. CASE i = 1
      <4>1. h[0] = <<>> /\ q[1] \in Seq(A) /\ h[1] = q[1]
        BY <2>7
      <4> HIDE DEF h
      <4>2. <<>> \o q[1] = q[1]
        BY <4>1, ConcatEmptySeq
      <4> QED
        BY <3>1, <4>1, <4>2
    <3>2. CASE i # 1
      <4>1. i - 1 \in 0..n /\ i - 1 # 0 /\ h[i - 1] = c[i - 1] /\ h[i] = c[i]
        BY <3>2
      <4> HIDE DEF h
      <4> QED
        BY <2>7, <3>2, <4>1
    <3> QED
      BY <3>1, <3>2
  <2>10. h[0] = <<>> /\ h[n] = c[n]
    BY <1>3
  <2> HIDE DEF h
  <2> QED
    BY <2>6, <2>8, <2>9, <2>10 DEF Joins
<1> QED
  BY <1>2, <1>3

Rounds(r, st, q, n) ==
  r[0] = st /\ \A i \in 1..n : r[i] = After(r[i - 1], q[i])

LEMMA AfterAll ==
  ASSUME NEW A, NEW n \in Nat, NEW q \in [1..n -> Seq(A)], NEW st
  PROVE  /\ FlattenSeq(q) \in Seq(A)
         /\ \E r : Rounds(r, st, q, n) /\ After(st, FlattenSeq(q)) = r[n]
         /\ \A r : Rounds(r, st, q, n) => After(st, FlattenSeq(q)) = r[n]
<1>0. PICK f : Joins(f, q, n, A)
  BY Flattening
<1>1. /\ f[0] = <<>> /\ FlattenSeq(q) = f[n]
      /\ \A i \in 0..n : f[i] \in Seq(A)
      /\ \A i \in 1..n : f[i] = f[i - 1] \o q[i]
  BY <1>0 DEF Joins
<1>2. FlattenSeq(q) \in Seq(A)
  BY <1>1
<1> DEFINE c == [i \in 0..n |-> After(st, f[i])]
<1>3. Rounds(c, st, q, n)
  <2>1. c[0] = st
    BY <1>1, AfterNothing
  <2>2. ASSUME NEW i \in 1..n PROVE c[i] = After(c[i - 1], q[i])
    <3>1. i \in 0..n /\ i - 1 \in 0..n /\ q[i] \in Seq(A)
      OBVIOUS
    <3>3. f[i] = f[i - 1] \o q[i] /\ f[i - 1] \in Seq(A)
      BY <1>1, <3>1
    <3>2. After(st, f[i - 1] \o q[i]) = After(After(st, f[i - 1]), q[i])
      BY <3>1, <3>3, AfterBoth
    <3> QED
      BY <3>1, <3>2, <3>3
  <2> HIDE DEF c
  <2> QED
    BY <2>1, <2>2 DEF Rounds
<1>4. c[n] = After(st, FlattenSeq(q))
  BY <1>1
<1> HIDE DEF c
<1>5. ASSUME NEW r, Rounds(r, st, q, n) PROVE r[n] = c[n]
  <2> DEFINE S == {i \in 0..n : r[i] = c[i]}
  <2>1. 0 \in S
    BY <1>3, <1>5 DEF Rounds
  <2>2. ASSUME NEW i \in 1..n, i - 1 \in S PROVE i \in S
    BY <1>3, <1>5, <2>2 DEF Rounds
  <2> HIDE DEF S
  <2>3. 0..n \subseteq S
    BY <2>1, <2>2, Upwards
  <2> QED
    BY <2>3 DEF S
<1> QED
  BY <1>2, <1>3, <1>4, <1>5

LEMMA Elements ==
  ASSUME NEW S, NEW q \in Seq(S)
  PROVE  /\ DOMAIN q = 1..Len(q) /\ Len(q) \in Nat
         /\ \A j \in DOMAIN q : q[j] \in S
  OBVIOUS

(* -- the recursions over a table ---------------------------------------------- *)
LEMMA ListsBelow ==
  ASSUME NEW node, WellFormed(node), NEW s \in DOMAIN node
  PROVE  /\ DOMAIN node = 1..Len(node) /\ Len(node) \in Nat /\ 1 \in DOMAIN node
         /\ node[s].body \in Seq((s + 1)..Len(node)) /\ node[s].orelse \in Seq((s + 1)..Len(node))
         /\ Below(node[s]) \subseteq (s + 1)..Len(node)
         /\ \A taken : Chosen(node, taken, s) \in Seq((s + 1)..Len(node))
         /\ \A taken : ToSet(Chosen(node, taken, s)) \subseteq Below(node[s])
<1>1. DOMAIN node = 1..Len(node) /\ Len(node) \in Nat
  BY DEF WellFormed
<1>2. node[s].body \in Seq((s + 1)..Len(node)) /\ node[s].orelse \in Seq((s + 1)..Len(node))
  BY DEF WellFormed, WellFormedStatement
<1>3. Below(node[s]) \subseteq (s + 1)..Len(node)
  <2>1. \A i \in DOMAIN node[s].body : node[s].body[i] \in (s + 1)..Len(node)
    BY <1>2
  <2>2. \A i \in DOMAIN node[s].orelse : node[s].orelse[i] \in (s + 1)..Len(node)
    BY <1>2
  <2> QED
    BY <2>1, <2>2 DEF Below, ToSet
<1>4. 1 \in DOMAIN node
  BY <1>1
<1>5. \A taken : Chosen(node, taken, s) \in {node[s].body, node[s].orelse}
  BY DEF Chosen
<1> QED
  BY <1>1, <1>2, <1>3, <1>4, <1>5 DEF Below

LEMMA CodeUnfolds ==
  ASSUME NEW node, WellFormed(node), NEW taken, NEW s \in DOMAIN node
  PROVE  LET list == Chosen(node, taken, s)
         IN Code(node, taken)[s] = Around(node[s], [j \in DOMAIN list |-> Code(node, taken)[list[j]]])
<1> DEFINE n == Len(node)
           L(t) == Chosen(node, taken, t)
           Made(g, t) == Around(node[t], [j \in DOMAIN L(t) |-> g[L(t)[j]]])
           T == {m \in 0..n : \E g : /\ g = [t \in 1..n |-> g[t]]
                                     /\ \A t \in 1..n : t > n - m => g[t] = Made(g, t)}
<1>1. DOMAIN node = 1..n /\ n \in Nat /\ \A t \in 1..n : L(t) \in Seq((t + 1)..n)
  <2>1. DOMAIN node = 1..n /\ n \in Nat
    BY ListsBelow
  <2>2. ASSUME NEW t \in 1..n PROVE L(t) \in Seq((t + 1)..n)
    BY <2>1, ListsBelow
  <2> QED
    BY <2>1, <2>2
<1> HIDE DEF n, L
<1>2. ASSUME NEW g, NEW h, NEW t \in 1..n, \A c \in (t + 1)..n : g[c] = h[c]
      PROVE  Made(g, t) = Made(h, t)
  <2>0. L(t) \in Seq((t + 1)..n)
    BY <1>1
  <2>1. \A j \in DOMAIN L(t) : L(t)[j] \in (t + 1)..n
    BY <2>0, Elements
  <2>2. [j \in DOMAIN L(t) |-> g[L(t)[j]]] = [j \in DOMAIN L(t) |-> h[L(t)[j]]]
    BY <1>2, <2>1
  <2> QED
    BY <2>2
<1> HIDE DEF Made
<1>3. 0 \in T
  <2> DEFINE g == [t \in 1..n |-> 0]
  <2>1. g = [t \in 1..n |-> g[t]] /\ \A t \in 1..n : ~(t > n - 0)
    BY <1>1
  <2>2. 0 \in 0..n
    BY <1>1
  <2> HIDE DEF g
  <2> QED
    BY <2>1, <2>2
<1>4. ASSUME NEW m \in 1..n, m - 1 \in T PROVE m \in T
  <2>1. PICK g : /\ g = [t \in 1..n |-> g[t]]
                 /\ \A t \in 1..n : t > n - (m - 1) => g[t] = Made(g, t)
    BY <1>4
  <2> DEFINE k == (n - m) + 1
             h == [t \in 1..n |-> IF t = k THEN Made(g, k) ELSE g[t]]
  <2>2. k \in 1..n /\ m \in 0..n
    BY <1>1
  <2>3. h = [t \in 1..n |-> h[t]] /\ h[k] = Made(g, k) /\ \A t \in 1..n : t # k => h[t] = g[t]
    BY <2>2
  <2> HIDE DEF h
  <2>4. ASSUME NEW t \in 1..n, t > n - m PROVE h[t] = Made(h, t)
    <3>1. \A c \in (t + 1)..n : c \in 1..n /\ c # k
      BY <1>1, <2>4
    <3>2. Made(h, t) = Made(g, t)
      <4>1. \A c \in (t + 1)..n : h[c] = g[c]
        BY <2>3, <3>1
      <4> QED
        BY <1>2, <4>1
    <3>3. CASE t = k
      BY <2>3, <3>2, <3>3
    <3>4. CASE t # k
      <4>1. t > n - (m - 1)
        BY <1>1, <2>4, <3>4
      <4> QED
        BY <2>1, <2>3, <3>2, <3>4, <4>1
    <3> QED
      BY <3>3, <3>4
  <2> QED
    BY <2>2, <2>3, <2>4
<1> HIDE DEF T
<1>5. n \in T
  <2>1. 0..n \subseteq T
    BY <1>1, <1>3, <1>4, Upwards
  <2> QED
    BY <1>1, <2>1
<1>6. PICK g : /\ g = [t \in 1..n |-> g[t]]
               /\ \A t \in 1..n : t > n - n => g[t] = Made(g, t)
  BY <1>5 DEF T
<1> DEFINE Is(f) == f = [t \in DOMAIN node |-> Made(f, t)]
           c == CHOOSE f : Is(f)
<1>7. Is(c)
  <2>1. \A t \in 1..n : t > n - n
    BY <1>1
  <2>2. Is(g)
    BY <1>1, <1>6, <2>1
  <2> QED
    BY <2>2
<1>8. Code(node, taken) = c
  BY DEF Code, Made, L
<1> HIDE DEF c
<1>9. c[s] = Made(c, s)
  BY <1>7
<1> QED
  BY <1>8, <1>9 DEF Made, L

LEMMA EffectsUnfold ==
  ASSUME NEW node, WellFormed(node), NEW s \in DOMAIN node
  PROVE  StatementEffects(node)[s] =
           WithBelow(OwnEffects(node[s]), {StatementEffects(node)[child] : child \in Below(node[s])})
<1> DEFINE n == Len(node)
           Made(g, t) == WithBelow(OwnEffects(node[t]), {g[child] : child \in Below(node[t])})
           T == {m \in 0..n : \E g : /\ g = [t \in 1..n |-> g[t]]
                                     /\ \A t \in 1..n : t > n - m => g[t] = Made(g, t)}
<1>1. DOMAIN node = 1..n /\ n \in Nat /\ \A t \in 1..n : Below(node[t]) \subseteq (t + 1)..n
  <2>1. DOMAIN node = 1..n /\ n \in Nat
    BY ListsBelow
  <2>2. ASSUME NEW t \in 1..n PROVE Below(node[t]) \subseteq (t + 1)..n
    BY <2>1, ListsBelow
  <2> QED
    BY <2>1, <2>2
<1> HIDE DEF n
<1>2. ASSUME NEW g, NEW h, NEW t \in 1..n, \A c \in (t + 1)..n : g[c] = h[c]
      PROVE  Made(g, t) = Made(h, t)
  <2>1. {g[child] : child \in Below(node[t])} = {h[child] : child \in Below(node[t])}
    BY <1>1, <1>2
  <2> QED
    BY <2>1
<1> HIDE DEF Made
<1>3. 0 \in T
  <2> DEFINE g == [t \in 1..n |-> 0]
  <2>1. g = [t \in 1..n |-> g[t]] /\ \A t \in 1..n : ~(t > n - 0)
    BY <1>1
  <2>2. 0 \in 0..n
    BY <1>1
  <2> HIDE DEF g
  <2> QED
    BY <2>1, <2>2
<1>4. ASSUME NEW m \in 1..n, m - 1 \in T PROVE m \in T
  <2>1. PICK g : /\ g = [t \in 1..n |-> g[t]]
                 /\ \A t \in 1..n : t > n - (m - 1) => g[t] = Made(g, t)
    BY <1>4
  <2> DEFINE k == (n - m) + 1
             h == [t \in 1..n |-> IF t = k THEN Made(g, k) ELSE g[t]]
  <2>2. k \in 1..n /\ m \in 0..n
    BY <1>1
  <2>3. h = [t \in 1..n |-> h[t]] /\ h[k] = Made(g, k) /\ \A t \in 1..n : t # k => h[t] = g[t]
    BY <2>2
  <2> HIDE DEF h
  <2>4. ASSUME NEW t \in 1..n, t > n - m PROVE h[t] = Made(h, t)
    <3>1. \A c \in (t + 1)..n : c \in 1..n /\ c # k
      BY <1>1, <2>4
    <3>2. Made(h, t) = Made(g, t)
      <4>1. \A c \in (t + 1)..n : h[c] = g[c]
        BY <2>3, <3>1
      <4> QED
        BY <1>2, <4>1
    <3>3. CASE t = k
      BY <2>3, <3>2, <3>3
    <3>4. CASE t # k
      <4>1. t > n - (m - 1)
        BY <1>1, <2>4, <3>4
      <4> QED
        BY <2>1, <2>3, <3>2, <3>4, <4>1
    <3> QED
      BY <3>3, <3>4
  <2> QED
    BY <2>2, <2>3, <2>4
<1> HIDE DEF T
<1>5. n \in T
  <2>1. 0..n \subseteq T
    BY <1>1, <1>3, <1>4, Upwards
  <2> QED
    BY <1>1, <2>1
<1>6. PICK g : /\ g = [t \in 1..n |-> g[t]]
               /\ \A t \in 1..n : t > n - n => g[t] = Made(g, t)
  BY <1>5 DEF T
<1> DEFINE Is(f) == f = [t \in DOMAIN node |-> Made(f, t)]
           c == CHOOSE f : Is(f)
<1>7. Is(c)
  <2>1. \A t \in 1..n : t > n - n
    BY <1>1
  <2>2. Is(g)
    BY <1>1, <1>6, <2>1
  <2> QED
    BY <2>2
<1>8. StatementEffects(node) = c
  BY DEF StatementEffects, Made
<1> HIDE DEF c
<1>9. c[s] = Made(c, s)
  BY <1>7
<1> QED
  BY <1>8, <1>9 DEF Made

(* -- the acts of a statement --------------------------------------------------- *)
ActsOf(x) ==
  CASE x.kind = "for" -> {Act("enter", x, 0), Act("leave", x, 0)} \cup {Act("turn", x, n) : n \in Nat}
    [] x.kind \in {"if", "while"} -> {Act("test", x, 0)}
    [] x.kind \in {"call", "assign", "return"} -> {Act(x.kind, x, 0)}
    [] OTHER -> {}
AllActs(node, N) == UNION {ActsOf(node[s]) : s \in N}

LEMMA TurnsAreCounted ==
  ASSUME NEW node, WellFormed(node), NEW s \in DOMAIN node
  PROVE  Turns(node[s]) \in Nat
<1>1. CASE node[s].kind = "for"
  <2>1. PICK var \in Scalars, ext \in DOMAIN Size : node[s].args = <<Name(var), Name(ext)>>
    BY <1>1 DEF WellFormed, WellFormedStatement
  <2>2. node[s].args[2].root = ext
    <3>1. node[s].args[2] = Name(ext)
      BY <2>1
    <3>2. Name(ext).root = ext
      BY DEF Name
    <3> QED
      BY <3>1, <3>2
  <2>3. Turns(node[s]) = Size[ext]
    BY <1>1, <2>2 DEF Turns
  <2>4. Size \in [DOMAIN Size -> Nat]
    BY KernelAssumption DEF KernelAssumption
  <2> QED
    BY <2>3, <2>4
<1>2. CASE node[s].kind # "for"
  BY <1>2 DEF Turns
<1> QED
  BY <1>1, <1>2

LEMMA EdgesAreActs ==
  ASSUME NEW x, NEW A, ActsOf(x) \subseteq A
  PROVE  /\ Opening(x) \in Seq(A) /\ Closing(x) \in Seq(A)
         /\ \A n \in Nat \ {0} : TurnOpening(x, n) \in Seq(A)
<1>1. ASSUME NEW act \in A PROVE <<act>> \in Seq(A)
  OBVIOUS
<1>2. <<>> \in Seq(A)
  OBVIOUS
<1>3. Opening(x) \in Seq(A)
  <2>1. CASE x.kind \in {"call", "assign", "return"}
    <3>1. Act(x.kind, x, 0) \in A
      BY <2>1 DEF ActsOf
    <3> QED
      BY <1>1, <2>1, <3>1 DEF Opening
  <2>2. CASE x.kind = "if"
    <3>1. Act("test", x, 0) \in A
      BY <2>2 DEF ActsOf
    <3> QED
      BY <1>1, <2>2, <3>1 DEF Opening
  <2>3. CASE x.kind = "for"
    <3>1. Act("enter", x, 0) \in A
      BY <2>3 DEF ActsOf
    <3> QED
      BY <1>1, <2>3, <3>1 DEF Opening
  <2> QED
    BY <1>2, <2>1, <2>2, <2>3 DEF Opening
<1>4. Closing(x) \in Seq(A)
  <2>1. CASE x.kind = "while"
    <3>1. Act("test", x, 0) \in A
      BY <2>1 DEF ActsOf
    <3> QED
      BY <1>1, <2>1, <3>1 DEF Closing
  <2>2. CASE x.kind = "for"
    <3>1. Act("leave", x, 0) \in A
      BY <2>2 DEF ActsOf
    <3> QED
      BY <1>1, <2>2, <3>1 DEF Closing
  <2> QED
    BY <1>2, <2>1, <2>2 DEF Closing
<1>5. ASSUME NEW n \in Nat \ {0} PROVE TurnOpening(x, n) \in Seq(A)
  <2>1. CASE x.kind = "while"
    <3>1. Act("test", x, 0) \in A
      BY <2>1 DEF ActsOf
    <3> QED
      BY <1>1, <2>1, <3>1 DEF TurnOpening
  <2>2. CASE x.kind = "for"
    <3>1. Act("turn", x, n - 1) \in A
      <4>1. n - 1 \in Nat
        OBVIOUS
      <4> QED
        BY <2>2, <4>1 DEF ActsOf
    <3> QED
      BY <1>1, <2>2, <3>1 DEF TurnOpening
  <2> QED
    BY <1>2, <2>1, <2>2 DEF TurnOpening
<1> QED
  BY <1>3, <1>4, <1>5

(* What runs in one turn of a statement, and in all of them.                 *)
OneTurn(x, parts, n) == TurnOpening(x, n) \o FlattenSeq(parts)
AllTurns(x, parts) == [n \in 1..Turns(x) |-> OneTurn(x, parts, n)]

LEMMA AroundIs ==
  ASSUME NEW x, NEW parts
  PROVE  Around(x, parts) = Opening(x) \o FlattenSeq(AllTurns(x, parts)) \o Closing(x)
BY DEF Around, AllTurns, OneTurn

LEMMA AroundActs ==
  ASSUME NEW x, Turns(x) \in Nat, NEW A, ActsOf(x) \subseteq A,
         NEW m \in Nat, NEW parts \in [1..m -> Seq(A)]
  PROVE  /\ FlattenSeq(parts) \in Seq(A)
         /\ AllTurns(x, parts) \in [1..Turns(x) -> Seq(A)]
         /\ FlattenSeq(AllTurns(x, parts)) \in Seq(A)
         /\ Opening(x) \o FlattenSeq(AllTurns(x, parts)) \in Seq(A)
         /\ Around(x, parts) \in Seq(A)
<1>1. FlattenSeq(parts) \in Seq(A)
  BY AfterAll
<1>2. ASSUME NEW n \in 1..Turns(x) PROVE OneTurn(x, parts, n) \in Seq(A)
  <2>1. TurnOpening(x, n) \in Seq(A)
    <3>1. n \in Nat \ {0}
      OBVIOUS
    <3> QED
      BY <3>1, EdgesAreActs
  <2> QED
    BY <1>1, <2>1, ConcatProperties DEF OneTurn
<1>3. AllTurns(x, parts) \in [1..Turns(x) -> Seq(A)]
  BY <1>2 DEF AllTurns
<1>4. FlattenSeq(AllTurns(x, parts)) \in Seq(A)
  BY <1>3, AfterAll
<1>5. Opening(x) \o FlattenSeq(AllTurns(x, parts)) \in Seq(A)
  BY <1>4, EdgesAreActs, ConcatProperties
<1>6. Around(x, parts) \in Seq(A)
  BY <1>5, AroundIs, EdgesAreActs, ConcatProperties
<1> QED
  BY <1>1, <1>3, <1>4, <1>5, <1>6

LEMMA CodeActs ==
  ASSUME NEW node, WellFormed(node), NEW taken, NEW N \in SUBSET DOMAIN node,
         \A s \in N : Below(node[s]) \subseteq N
  PROVE  \A s \in N : Code(node, taken)[s] \in Seq(AllActs(node, N))
<1> DEFINE n == Len(node)
           A == AllActs(node, N)
           C == Code(node, taken)
           S == {s \in 1..n : s \in N => C[s] \in Seq(A)}
<1>1. DOMAIN node = 1..n /\ n \in Nat
  BY DEF WellFormed
<1>2. ASSUME NEW s \in 1..n, (s + 1)..n \subseteq S PROVE s \in S
  <2> SUFFICES ASSUME s \in N PROVE C[s] \in Seq(A)
    OBVIOUS
  <2> DEFINE list == Chosen(node, taken, s)
             parts == [j \in DOMAIN list |-> C[list[j]]]
  <2>1. list \in Seq((s + 1)..n) /\ ToSet(list) \subseteq Below(node[s])
    BY <1>1, ListsBelow
  <2>2. C[s] = Around(node[s], parts)
    BY <1>1, CodeUnfolds
  <2> HIDE DEF C
  <2>3. DOMAIN list = 1..Len(list) /\ Len(list) \in Nat /\ \A j \in DOMAIN list : list[j] \in (s + 1)..n
    BY <2>1, Elements
  <2>4. ASSUME NEW j \in DOMAIN list PROVE C[list[j]] \in Seq(A)
    <3>1. list[j] \in N
      <4>1. list[j] \in ToSet(list)
        BY DEF ToSet
      <4> QED
        BY <2>1, <4>1
    <3>2. list[j] \in S
      BY <1>2, <2>3
    <3> QED
      BY <3>1, <3>2
  <2> HIDE DEF list
  <2>5. parts \in [1..Len(list) -> Seq(A)]
    BY <2>3, <2>4
  <2>6. ActsOf(node[s]) \subseteq A
    BY DEF AllActs
  <2>7. Turns(node[s]) \in Nat
    BY <1>1, TurnsAreCounted
  <2> HIDE DEF parts, A
  <2>8. Around(node[s], parts) \in Seq(A)
    BY <2>3, <2>5, <2>6, <2>7, AroundActs
  <2> QED
    BY <2>2, <2>8
<1> HIDE DEF S
<1>3. 1..n \subseteq S
  BY <1>1, <1>2, Downwards
<1> QED
  BY <1>1, <1>3 DEF S

(* -- good states ---------------------------------------------------------------- *)
Shaped(st) ==
  st = [env |-> st.env, mem |-> st.mem, outer |-> st.outer, trace |-> st.trace,
        live |-> st.live, opaque |-> st.opaque]
Own(node) == Names \ Bound(node)

(* A name in own stands for its own storage and no other name does; a buffer *)
(* keeps its shape.                                                          *)
Good(st, own) ==
  /\ Shaped(st) /\ st.opaque = FALSE
  /\ st.env \in [Names -> Cells]
  /\ \A n \in Names : IF n \in own THEN st.env[n] = n ELSE st.env[n] \notin own
  /\ st.mem = [c \in Cells |-> st.mem[c]]
  /\ \A b \in Buffers : st.mem[b] = [x \in IndexTuples(b) |-> st.mem[b][x]]

LEMMA RecordIs ==
  ASSUME NEW st, NEW env, NEW mem, NEW outer, NEW trace, NEW live, NEW opaque,
         st = [env |-> env, mem |-> mem, outer |-> outer, trace |-> trace, live |-> live, opaque |-> opaque]
  PROVE  /\ Shaped(st) /\ st.env = env /\ st.mem = mem /\ st.outer = outer /\ st.trace = trace
         /\ st.live = live /\ st.opaque = opaque
BY DEF Shaped

LEMMA StoreIs ==
  ASSUME NEW st, Shaped(st), NEW cell, NEW value
  PROVE  /\ Shaped(Store(st, cell, value))
         /\ Store(st, cell, value).env = st.env /\ Store(st, cell, value).outer = st.outer
         /\ Store(st, cell, value).trace = st.trace /\ Store(st, cell, value).live = st.live
         /\ Store(st, cell, value).opaque = st.opaque
BY DEF Shaped, Store

LEMMA StoreMem ==
  ASSUME NEW st, Shaped(st), NEW cell, NEW value
  PROVE  Store(st, cell, value).mem = [st.mem EXCEPT ![cell] = value]
BY DEF Shaped, Store

LEMMA GoodHas ==
  ASSUME NEW own, NEW st, Good(st, own)
  PROVE  /\ Shaped(st) /\ st.opaque = FALSE /\ st.mem = [c \in Cells |-> st.mem[c]]
         /\ st.env = [n \in Names |-> st.env[n]]
BY DEF Good

LEMMA GoodStore ==
  ASSUME NEW own, NEW st, Good(st, own), NEW c \in Cells, NEW v,
         c \in Buffers => v = [x \in IndexTuples(c) |-> v[x]]
  PROVE  Good(Store(st, c, v), own)
<1> DEFINE t == Store(st, c, v)
<1>1. /\ Shaped(t) /\ t.env = st.env /\ t.opaque = st.opaque
      /\ t.mem = [st.mem EXCEPT ![c] = v]
  BY StoreIs, StoreMem DEF Good
<1> HIDE DEF t
<1>2. st.mem = [d \in Cells |-> st.mem[d]]
  BY DEF Good
<1>3. t.mem = [d \in Cells |-> IF d = c THEN v ELSE st.mem[d]]
  BY <1>1, <1>2
<1>4. \A b \in Buffers : b \in Cells
  BY DEF Cells, Names
<1>5. \A b \in Buffers : t.mem[b] = [x \in IndexTuples(b) |-> t.mem[b][x]]
  BY <1>3, <1>4 DEF Good
<1>6. Good(t, own)
  BY <1>1, <1>3, <1>5 DEF Good
<1> QED
  BY <1>6 DEF t

LEMMA RootsAreNames ==
  ASSUME NEW e \in Expressions, e.form # "const"
  PROVE  e.root \in Names
BY DEF Expressions, Atoms, Names

LEMMA GoodStoreTo ==
  ASSUME NEW own, NEW st, Good(st, own), NEW e \in Expressions, NEW v
  PROVE  Good(StoreTo(st, e, v), own)
<1>1. CASE e.form = "const"
  BY <1>1 DEF StoreTo
<1>2. CASE e.form # "const"
  <2>1. st.env[e.root] \in Cells
    BY <1>2, RootsAreNames DEF Good
  <2> DEFINE c == st.env[e.root]
             w == [y \in DOMAIN Content(st, e.root) |-> Stored(st, e, v, y)]
  <2>2. StoreTo(st, e, v) = Store(st, c, w)
    BY <1>2 DEF StoreTo
  <2>3. c \in Buffers => DOMAIN Content(st, e.root) = IndexTuples(c)
    BY DEF Good, Content
  <2>4. c \in Buffers => w = [x \in IndexTuples(c) |-> w[x]]
    BY <2>3
  <2> HIDE DEF w, c
  <2> QED
    BY <2>1, <2>2, <2>4, GoodStore DEF c
<1> QED
  BY <1>1, <1>2

LEMMA GoodObserve ==
  ASSUME NEW own, NEW st, Good(st, own), NEW event
  PROVE  Good(Observe(st, event), own) /\ Observe(st, event).mem = st.mem /\ Shaped(Observe(st, event))
<1> DEFINE e == Append(st.trace, <<event, st.mem>>)
           t == [st EXCEPT !.trace = e]
<1>1. Observe(st, event) = t
  BY DEF Observe
<1> HIDE DEF e
<1>2. Shaped(t) /\ t.env = st.env /\ t.mem = st.mem /\ t.opaque = st.opaque
  BY DEF Good, Shaped
<1> HIDE DEF t
<1>3. Good(t, own)
  BY <1>2 DEF Good
<1> QED
  BY <1>1, <1>2, <1>3

LEMMA GoodUnknown ==
  ASSUME NEW own, NEW st, Good(st, own)
  PROVE  Good(Unknown(st), own)
<1> DEFINE o == Observe(st, "call")
           m == [c \in DOMAIN st.mem |->
                   IF c \in Scalars \cup Views THEN st.mem[c]
                   ELSE [x \in DOMAIN st.mem[c] |-> <<"called", Len(st.trace), st.mem[c][x]>>]]
           t == [o EXCEPT !.mem = m]
<1>1. Good(o, own)
  BY GoodObserve
<1>2. Unknown(st) = t
  BY DEF Unknown
<1> HIDE DEF o
<1>3. \A b \in Buffers : b \in Cells /\ b \notin Scalars \cup Views
  BY KernelAssumption DEF KernelAssumption, Cells, Names
<1>4. DOMAIN st.mem = Cells /\ \A b \in Buffers : DOMAIN st.mem[b] = IndexTuples(b)
  BY DEF Good
<1>5. m = [c \in Cells |-> m[c]] /\ \A b \in Buffers : m[b] = [x \in IndexTuples(b) |-> m[b][x]]
  BY <1>3, <1>4
<1> HIDE DEF m
<1>6. Shaped(t) /\ t.env = o.env /\ t.opaque = o.opaque /\ t.mem = m
  BY <1>1 DEF Good, Shaped
<1> HIDE DEF t
<1> QED
  BY <1>1, <1>2, <1>5, <1>6 DEF Good

LEMMA BindMem ==
  ASSUME NEW own, NEW st, Good(st, own), NEW n \in Scalars, NEW v
  PROVE  Bind(st, n, v).mem = [st.mem EXCEPT ![n] = v]
<1> DEFINE t == Bind(st, n, v)
           r == [st EXCEPT !.env[n] = n]
<1>1. Shaped(r) /\ r.mem = st.mem
  BY DEF Good, Shaped
<1>2. t = Store(r, n, v)
  BY DEF Bind
<1> HIDE DEF r, t
<1>3. t.mem = [r.mem EXCEPT ![n] = v]
  BY <1>1, <1>2, StoreMem
<1> QED
  BY <1>1, <1>3 DEF t

LEMMA BindEnv ==
  ASSUME NEW own, NEW st, Good(st, own), NEW n \in Scalars, NEW v
  PROVE  Bind(st, n, v).env = [st.env EXCEPT ![n] = n]
<1> DEFINE t == Bind(st, n, v)
           r == [st EXCEPT !.env[n] = n]
<1>1. Shaped(r)
  BY DEF Good, Shaped
<1>2. r.env = [st.env EXCEPT ![n] = n]
  BY DEF Good, Shaped
<1>3. t = Store(r, n, v)
  BY DEF Bind
<1> HIDE DEF r, t
<1>4. t.env = r.env
  BY <1>1, <1>3, StoreIs
<1> QED
  BY <1>2, <1>4 DEF t

LEMMA BindIs ==
  ASSUME NEW own, NEW st, Good(st, own), NEW n \in Scalars, NEW v
  PROVE  /\ Good(Bind(st, n, v), own)
         /\ Bind(st, n, v).outer = st.outer /\ Bind(st, n, v).trace = st.trace
         /\ Bind(st, n, v).live = st.live /\ Bind(st, n, v).opaque = st.opaque
<1> DEFINE t == Bind(st, n, v)
           r == [st EXCEPT !.env[n] = n]
<1>1. /\ Shaped(r) /\ r.opaque = st.opaque
      /\ r.outer = st.outer /\ r.trace = st.trace /\ r.live = st.live
  BY DEF Good, Shaped
<1>2. t = Store(r, n, v)
  BY DEF Bind
<1> HIDE DEF r, t
<1>3. Shaped(t) /\ t.opaque = st.opaque /\ t.outer = st.outer /\ t.trace = st.trace /\ t.live = st.live
  BY <1>1, <1>2, StoreIs
<1>4. n \in Names /\ n \in Cells /\ n \notin Buffers /\ \A b \in Buffers : b \in Cells
  BY KernelAssumption DEF KernelAssumption, Cells, Names
<1>5. st.mem = [d \in Cells |-> st.mem[d]] /\ st.env \in [Names -> Cells]
  BY DEF Good
<1>6. t.mem = [d \in Cells |-> IF d = n THEN v ELSE st.mem[d]]
  <2>1. t.mem = [st.mem EXCEPT ![n] = v]
    BY BindMem DEF t
  <2> QED
    BY <1>5, <2>1
<1>7. t.env = [m \in Names |-> IF m = n THEN n ELSE st.env[m]]
  <2>1. t.env = [st.env EXCEPT ![n] = n]
    BY BindEnv DEF t
  <2> QED
    BY <1>5, <2>1
<1>8. \A b \in Buffers : t.mem[b] = [x \in IndexTuples(b) |-> t.mem[b][x]]
  BY <1>4, <1>6 DEF Good
<1>9. \A m \in Names : IF m \in own THEN t.env[m] = m ELSE t.env[m] \notin own
  BY <1>7 DEF Good
<1>10. t.env \in [Names -> Cells]
  BY <1>4, <1>5, <1>7
<1>11. Good(t, own)
  BY <1>3, <1>6, <1>8, <1>9, <1>10 DEF Good
<1> QED
  BY <1>3, <1>11 DEF t

(* A name that is not in own may stand for any storage that is not.          *)
LEMMA RebindIs ==
  ASSUME NEW own, NEW st, Good(st, own), NEW n \in Names, n \notin own, NEW c \in Cells, c \notin own
  PROVE  LET t == [st EXCEPT !.env[n] = c]
         IN /\ Good(t, own) /\ t.env = [st.env EXCEPT ![n] = c] /\ t.mem = st.mem
            /\ t.outer = st.outer /\ t.trace = st.trace /\ t.live = st.live
<1> DEFINE t == [st EXCEPT !.env[n] = c]
<1>1. /\ Shaped(t) /\ t.env = [st.env EXCEPT ![n] = c] /\ t.opaque = st.opaque
      /\ t.mem = st.mem /\ t.outer = st.outer /\ t.trace = st.trace /\ t.live = st.live
  BY DEF Good, Shaped
<1> HIDE DEF t
<1>2. t.env = [m \in Names |-> IF m = n THEN c ELSE st.env[m]]
  BY <1>1 DEF Good
<1>3. \A m \in Names : IF m \in own THEN t.env[m] = m ELSE t.env[m] \notin own
  BY <1>2 DEF Good
<1>4. t.env \in [Names -> Cells]
  BY <1>2 DEF Good
<1>5. Good(t, own)
  BY <1>1, <1>3, <1>4 DEF Good
<1> QED
  BY <1>1, <1>5 DEF t

LEMMA TraceIs ==
  ASSUME NEW own, NEW st, Good(st, own), NEW e
  PROVE  LET t == [st EXCEPT !.trace = e]
         IN /\ Good(t, own) /\ t.env = st.env /\ t.mem = st.mem /\ t.outer = st.outer
            /\ t.trace = e /\ t.live = st.live
<1> DEFINE t == [st EXCEPT !.trace = e]
<1>1. /\ Shaped(t) /\ t.env = st.env /\ t.opaque = st.opaque /\ t.mem = st.mem
      /\ t.outer = st.outer /\ t.trace = e /\ t.live = st.live
  BY DEF Good, Shaped
<1> HIDE DEF t
<1>2. Good(t, own)
  BY <1>1 DEF Good
<1> QED
  BY <1>1, <1>2 DEF t

LEMMA OuterIs ==
  ASSUME NEW own, NEW st, Good(st, own), NEW e
  PROVE  LET t == [st EXCEPT !.outer = e]
         IN /\ Good(t, own) /\ t.env = st.env /\ t.mem = st.mem /\ t.outer = e
            /\ t.trace = st.trace /\ t.live = st.live
<1> DEFINE t == [st EXCEPT !.outer = e]
<1>1. /\ Shaped(t) /\ t.env = st.env /\ t.opaque = st.opaque /\ t.mem = st.mem
      /\ t.outer = e /\ t.trace = st.trace /\ t.live = st.live
  BY DEF Good, Shaped
<1> HIDE DEF t
<1>2. Good(t, own)
  BY <1>1 DEF Good
<1> QED
  BY <1>1, <1>2 DEF t

LEMMA LiveIs ==
  ASSUME NEW own, NEW st, Good(st, own), NEW e
  PROVE  LET t == [st EXCEPT !.live = e]
         IN Good(t, own) /\ t.live = e
<1> DEFINE t == [st EXCEPT !.live = e]
<1>1. Shaped(t) /\ t.env = st.env /\ t.opaque = st.opaque /\ t.mem = st.mem /\ t.live = e
  BY DEF Good, Shaped
<1> HIDE DEF t
<1>2. Good(t, own)
  BY <1>1 DEF Good
<1> QED
  BY <1>1, <1>2 DEF t

(* -- what an act does ------------------------------------------------------------ *)
LEMMA DoIs ==
  ASSUME NEW st, st.live, NEW a
  PROVE  /\ a.do = "call" => Do(st, a) = RunCall(st, a.op, a.args)
         /\ a.do = "assign" => Do(st, a) = RunAssign(st, a.op, a.args)
         /\ a.do = "test" =>
              Do(st, a) = [st EXCEPT !.trace = Append(st.trace, <<"test", ValueOf(st, a.args[1])>>)]
         /\ a.do = "enter" =>
              Do(st, a) = [IF st.opaque THEN Unknown(st) ELSE st
                             EXCEPT !.outer = <<st.mem[a.args[1].root], st.outer>>]
         /\ a.do = "turn" => Do(st, a) = Bind(st, a.args[1].root, Whole(a.turn))
         /\ a.do = "leave" =>
              Do(st, a) = [Bind(st, a.args[1].root, st.outer[1]) EXCEPT !.outer = st.outer[2]]
         /\ a.do = "return" => Do(st, a) = [Observe(st, "return") EXCEPT !.live = FALSE]
BY DEF Do

LEMMA ActIs ==
  ASSUME NEW do, NEW x, NEW n
  PROVE  LET a == Act(do, x, n) IN a.do = do /\ a.op = x.op /\ a.args = x.args /\ a.turn = n
BY DEF Act

LEMMA DoneIs ==
  ASSUME NEW st, ~st.live, NEW act
  PROVE  Do(st, act) = st
BY DEF Do

(* The arguments of a statement that is not a loop are expressions.          *)
LEMMA ArgumentsAre ==
  ASSUME NEW node, WellFormed(node), NEW s \in DOMAIN node, node[s].kind # "for"
  PROVE  /\ Len(node[s].args) \in Nat /\ DOMAIN node[s].args = 1..Len(node[s].args)
         /\ \A i \in DOMAIN node[s].args : node[s].args[i] \in Expressions
<1>1. node[s].args \in Seq(Expressions)
  BY DEF WellFormed, WellFormedStatement
<1> QED
  BY <1>1, Elements

LEMMA LoopIs ==
  ASSUME NEW node, WellFormed(node), NEW s \in DOMAIN node, node[s].kind = "for"
  PROVE  \E var \in Scalars, ext \in DOMAIN Size :
           /\ node[s].args = <<Name(var), Name(ext)>>
           /\ node[s].args[1] = Name(var) /\ node[s].args[1].root = var
           /\ node[s].args[2] = Name(ext) /\ node[s].args[2].root = ext
<1>1. PICK var \in Scalars, ext \in DOMAIN Size : node[s].args = <<Name(var), Name(ext)>>
  BY DEF WellFormed, WellFormedStatement
<1>2. Name(var).root = var /\ Name(ext).root = ext
  BY DEF Name
<1>3. node[s].args[1] = Name(var) /\ node[s].args[2] = Name(ext)
  BY <1>1
<1> QED
  BY <1>1, <1>2, <1>3

LEMMA CallKeepsGood ==
  ASSUME NEW own, NEW st, Good(st, own), NEW op, NEW args \in Seq(Expressions)
  PROVE  Good(RunCall(st, op, args), own)
<1>1. st.opaque = FALSE
  BY DEF Good
<1>2. CASE op \in DOMAIN Arity /\ Len(args) >= Arity[op]
  <2>1. Arity[op] \in 1..3
    BY <1>2 DEF Arity
  <2>2. args[Arity[op]] \in Expressions
    BY <1>2, <2>1
  <2>3. RunCall(st, op, args) = StoreTo(st, args[Arity[op]], BulkValue(st, op, args))
    BY <1>1, <1>2 DEF RunCall, Arity, Barriers, ValueCalls
  <2> QED
    BY <2>2, <2>3, GoodStoreTo
<1>3. CASE ~(op \in DOMAIN Arity /\ Len(args) >= Arity[op])
  <2>1. RunCall(st, op, args) \in {Observe(st, "barrier"), st, Unknown(st)}
    BY <1>1, <1>3 DEF RunCall
  <2> QED
    BY <2>1, GoodObserve, GoodUnknown
<1> QED
  BY <1>2, <1>3

(* What an assignment of a well-formed table may do to second names.          *)
LegalAssign(op, args, own) ==
  /\ args \in Seq(Expressions) /\ Len(args) \in Nat \ {0} /\ Views \cap own = {}
  /\ own \subseteq Names
  /\ op = "alloc_shared" => args[1].form = "name" /\ args[1].root \notin own
  /\ args[1].form = "name" /\ args[1].root \in Views /\ Len(args) > 1 /\ args[2].form = "name" =>
       args[2].root \notin own

LEMMA BoundIs ==
  ASSUME NEW node, NEW s \in DOMAIN node, Binds(node[s])
  PROVE  /\ node[s].args[1].root \in Bound(node)
         /\ Len(node[s].args) > 1 /\ node[s].args[2].form = "name" => node[s].args[2].root \in Bound(node)
<1>1. node[s] \in ToSet(node)
  BY DEF ToSet
<1> DEFINE B == {x \in ToSet(node) : Binds(x)}
           C == {x \in B : Len(x.args) > 1 /\ x.args[2].form = "name"}
<1>2. node[s] \in B
  BY <1>1
<1>3. Len(node[s].args) > 1 /\ node[s].args[2].form = "name" => node[s] \in C
  BY <1>2
<1>4. Bound(node) = Views \cup {x.args[1].root : x \in B} \cup {x.args[2].root : x \in C}
  BY DEF Bound
<1> HIDE DEF B, C
<1> QED
  BY <1>2, <1>3, <1>4

LEMMA AssignmentsAre ==
  ASSUME NEW node, WellFormed(node), NEW s \in DOMAIN node, node[s].kind = "assign"
  PROVE  LegalAssign(node[s].op, node[s].args, Own(node))
<1> DEFINE x == node[s]
           own == Own(node)
<1>1. x.args \in Seq(Expressions) /\ Len(x.args) > 0 /\ (x.op = "alloc_shared" => x.args[1].form = "name")
  BY DEF WellFormed, WellFormedStatement
<1>2. Len(x.args) \in Nat \ {0}
  BY <1>1
<1>3. own \subseteq Names /\ own \cap Bound(node) = {}
  BY DEF Own
<1>4. Views \subseteq Bound(node)
  BY DEF Bound
<1>5. x.op = "alloc_shared" => x.args[1].root \notin own
  BY <1>1, <1>3, BoundIs DEF Binds
<1>6. x.args[1].form = "name" /\ x.args[1].root \in Views /\ Len(x.args) > 1 /\ x.args[2].form = "name" =>
        x.args[2].root \notin own
  BY <1>3, BoundIs DEF Binds
<1> QED
  BY <1>1, <1>2, <1>3, <1>4, <1>5, <1>6 DEF LegalAssign

LEMMA AssignKeepsGood ==
  ASSUME NEW own, NEW st, Good(st, own), NEW op, NEW args, LegalAssign(op, args, own)
  PROVE  Good(RunAssign(st, op, args), own)
<1> DEFINE target == args[1]
           known == op = "none" \/ (op \in ValueCalls /\ ~st.opaque)
           value == CASE op = "none" -> ValueOf(st, args[2])
                      [] op # "none" /\ known -> <<op, [i \in 2..Len(args) |-> ValueOf(st, args[i])]>>
                      [] OTHER -> <<"result", Len(st.trace)>>
           now == IF known THEN st ELSE Unknown(st)
           r == RunAssign(st, op, args)
<1>1. r = CASE op = "alloc_shared" /\ ~st.opaque -> [st EXCEPT !.env[target.root] = Fresh]
            [] target.form = "name" /\ target.root \in Views /\ Len(args) > 1 ->
                 Alias(now, target.root, args[2])
            [] target.form = "name" /\ target.root \in Scalars -> Bind(now, target.root, value)
            [] OTHER -> StoreTo(now, target, value)
  BY DEF RunAssign
<1>2. Good(now, own)
  BY GoodUnknown
<1>3. target \in Expressions
  BY DEF LegalAssign
<1> HIDE DEF now, value, r, known
<1>4. CASE op = "alloc_shared" /\ r = [st EXCEPT !.env[target.root] = Fresh]
  <2>1. target.root \in Names /\ target.root \notin own
    BY <1>3, <1>4, RootsAreNames DEF LegalAssign
  <2>2. Fresh \in Cells /\ Fresh \notin own
    BY KernelAssumption DEF KernelAssumption, Cells, LegalAssign
  <2>3. Good([st EXCEPT !.env[target.root] = Fresh], own)
    BY <2>1, <2>2, RebindIs
  <2> QED
    BY <1>4, <2>3 DEF r
<1>5. CASE /\ target.form = "name" /\ target.root \in Views /\ Len(args) > 1
           /\ r = Alias(now, target.root, args[2])
  <2>1. CASE args[2].form = "name" /\ args[2].root \notin Scalars
    <3>1. args[2] \in Expressions
      BY <1>5 DEF LegalAssign
    <3>2. args[2].root \in Names /\ args[2].root \notin own
      BY <1>5, <2>1, <3>1, RootsAreNames DEF LegalAssign
    <3>3. now.env[args[2].root] \in Cells /\ now.env[args[2].root] \notin own
      BY <1>2, <3>2 DEF Good
    <3>4. target.root \in Names /\ target.root \notin own
      BY <1>5 DEF LegalAssign, Names
    <3>5. Good([now EXCEPT !.env[target.root] = now.env[args[2].root]], own)
      BY <1>2, <3>3, <3>4, RebindIs
    <3> QED
      BY <1>5, <2>1, <3>5 DEF r, Alias
  <2>2. CASE ~(args[2].form = "name" /\ args[2].root \notin Scalars)
    BY <1>2, <1>5, <2>2 DEF r, Alias
  <2> QED
    BY <2>1, <2>2
<1>6. CASE target.root \in Scalars /\ r = Bind(now, target.root, value)
  <2>1. Good(Bind(now, target.root, value), own)
    BY <1>2, <1>6, BindIs
  <2> QED
    BY <1>6, <2>1 DEF r
<1>7. CASE r = StoreTo(now, target, value)
  BY <1>2, <1>3, <1>7, GoodStoreTo DEF r
<1> QED
  BY <1>1, <1>4, <1>5, <1>6, <1>7

(* -- every act keeps a state good -------------------------------------------------- *)
LEMMA DoKeepsGood ==
  ASSUME NEW node, WellFormed(node), NEW s \in DOMAIN node, NEW act \in ActsOf(node[s]),
         NEW st, Good(st, Own(node))
  PROVE  Good(Do(st, act), Own(node))
<1> DEFINE x == node[s]
           own == Own(node)
<1> SUFFICES ASSUME st.live PROVE Good(Do(st, act), own)
  BY DoneIs
<1>1. st.opaque = FALSE
  BY DEF Good
<1>2. CASE x.kind = "for"
  <2>1. PICK var \in Scalars : x.args[1].root = var
    BY <1>2, LoopIs
  <2>2. act \in {Act("enter", x, 0), Act("leave", x, 0)} \cup {Act("turn", x, n) : n \in Nat}
    BY <1>2 DEF ActsOf
  <2>3. act.args = x.args /\ act.do \in {"enter", "leave", "turn"}
    BY <2>2, ActIs
  <2> HIDE DEF x
  <2>4. CASE act.do = "enter"
    <3>1. Do(st, act) = [st EXCEPT !.outer = <<st.mem[act.args[1].root], st.outer>>]
      BY <1>1, <2>4, DoIs
    <3> QED
      BY <3>1, OuterIs
  <2>5. CASE act.do = "leave"
    <3>1. Do(st, act) = [Bind(st, var, st.outer[1]) EXCEPT !.outer = st.outer[2]]
      BY <2>1, <2>3, <2>5, DoIs
    <3>2. Good(Bind(st, var, st.outer[1]), own)
      BY BindIs
    <3> QED
      BY <3>1, <3>2, OuterIs
  <2>6. CASE act.do = "turn"
    <3>1. Do(st, act) = Bind(st, var, Whole(act.turn))
      BY <2>1, <2>3, <2>6, DoIs
    <3>2. Good(Bind(st, var, Whole(act.turn)), own)
      BY BindIs
    <3> QED
      BY <3>1, <3>2
  <2> QED
    BY <2>3, <2>4, <2>5, <2>6
<1>3. CASE x.kind \in {"if", "while"}
  <2>1. act.do = "test"
    BY <1>3, ActIs DEF ActsOf
  <2>2. Do(st, act) = [st EXCEPT !.trace = Append(st.trace, <<"test", ValueOf(st, act.args[1])>>)]
    BY <2>1, DoIs
  <2>3. Good([st EXCEPT !.trace = Append(st.trace, <<"test", ValueOf(st, act.args[1])>>)], own)
    BY TraceIs
  <2> QED
    BY <2>2, <2>3
<1>4. CASE x.kind \in {"call", "assign", "return"}
  <2>1. act.do = x.kind /\ act.op = x.op /\ act.args = x.args
    BY <1>4, ActIs DEF ActsOf
  <2>2. x.kind = "call" => x.args \in Seq(Expressions)
    BY DEF WellFormed, WellFormedStatement
  <2>3. x.kind = "assign" => LegalAssign(x.op, x.args, own)
    BY AssignmentsAre
  <2> HIDE DEF x, own
  <2>4. CASE x.kind = "call"
    BY <2>1, <2>2, <2>4, DoIs, CallKeepsGood DEF own
  <2>5. CASE x.kind = "assign"
    BY <2>1, <2>3, <2>5, DoIs, AssignKeepsGood DEF own
  <2>6. CASE x.kind = "return"
    <3>1. Do(st, act) = [Observe(st, "return") EXCEPT !.live = FALSE]
      BY <2>1, <2>6, DoIs
    <3>2. Good(Observe(st, "return"), own)
      BY GoodObserve DEF own
    <3> QED
      BY <3>1, <3>2, LiveIs DEF own
  <2> QED
    BY <1>4, <2>4, <2>5, <2>6
<1> QED
  BY <1>2, <1>3, <1>4 DEF ActsOf

(* Keeps(A, own): whatever the acts, what they leave is good.                *)
Keeps(A, own) == \A act \in A : \A st : Good(st, own) => Good(Do(st, act), own)

LEMMA AfterKeepsGood ==
  ASSUME NEW A, NEW own, Keeps(A, own), NEW acts \in Seq(A), NEW st, Good(st, own)
  PROVE  Good(After(st, acts), own)
<1> DEFINE n == Len(acts)
<1>1. n \in Nat /\ \A i \in 1..n : acts[i] \in A
  BY Elements
<1>2. PICK r : Run(r, st, acts) /\ After(st, acts) = r[n]
  BY <1>1, RunExists
<1> HIDE DEF n
<1> DEFINE S == {i \in 0..n : Good(r[i], own)}
<1>3. 0 \in S
  BY <1>1, <1>2 DEF Run
<1>4. ASSUME NEW i \in 1..n, i - 1 \in S PROVE i \in S
  <2>1. r[i] = Do(r[i - 1], acts[i]) /\ acts[i] \in A /\ i \in 0..n
    BY <1>1, <1>2 DEF Run, n
  <2> QED
    BY <1>4, <2>1 DEF Keeps
<1> HIDE DEF S
<1>5. 0..n \subseteq S
  BY <1>1, <1>3, <1>4, Upwards
<1> QED
  BY <1>1, <1>2, <1>5 DEF S

(* -- what a value depends on ------------------------------------------------------- *)
AgreeOn(st1, st2, N) == \A n \in N : Content(st1, n) = Content(st2, n)

LEMMA AtomDepends ==
  ASSUME NEW st1, NEW st2, NEW a, AgreeOn(st1, st2, ReadAtom(a))
  PROVE  AtomValue(st1, a) = AtomValue(st2, a)
BY DEF AgreeOn, ReadAtom, AtomValue

LEMMA IndexDepends ==
  ASSUME NEW st1, NEW st2, NEW e, AgreeOn(st1, st2, ReadIndex(e))
  PROVE  IndexValue(st1, e) = IndexValue(st2, e)
<1>1. \A i \in DOMAIN e.idx : ReadAtom(e.idx[i]) \subseteq ReadIndex(e)
  BY DEF ReadIndex, ToSet
<1>2. \A i \in DOMAIN e.idx : AtomValue(st1, e.idx[i]) = AtomValue(st2, e.idx[i])
  BY <1>1, AtomDepends DEF AgreeOn
<1>3. AtomValue(st1, e) = AtomValue(st2, e)
  BY AtomDepends DEF AgreeOn, ReadIndex
<1>4. [i \in DOMAIN e.idx |-> Number(AtomValue(st1, e.idx[i]))]
      = [i \in DOMAIN e.idx |-> Number(AtomValue(st2, e.idx[i]))]
  BY <1>2
<1>5. CASE e.form = "elem"
  <2>1. Content(st1, e.root) = Content(st2, e.root)
    BY <1>5 DEF AgreeOn, ReadIndex, ReadAtom
  <2> QED
    BY <1>4, <1>5, <2>1 DEF IndexValue
<1>6. CASE e.form # "elem"
  BY <1>3, <1>6 DEF IndexValue
<1> QED
  BY <1>5, <1>6

LEMMA PositionDepends ==
  ASSUME NEW st1, NEW st2, NEW e, AgreeOn(st1, st2, ReadIndices(e))
  PROVE  Position(st1, e) = Position(st2, e)
<1>1. \A i \in DOMAIN e.idx : ReadIndex(e.idx[i]) \subseteq ReadIndices(e)
  BY DEF ReadIndices, ToSet
<1>2. \A i \in DOMAIN e.idx : IndexValue(st1, e.idx[i]) = IndexValue(st2, e.idx[i])
  BY <1>1, IndexDepends DEF AgreeOn
<1> QED
  BY <1>2 DEF Position

LEMMA ValueDepends ==
  ASSUME NEW st1, NEW st2, NEW e, AgreeOn(st1, st2, ReadExpression(e))
  PROVE  ValueOf(st1, e) = ValueOf(st2, e)
<1>1. Position(st1, e) = Position(st2, e) /\ AtomValue(st1, e) = AtomValue(st2, e)
  BY PositionDepends, AtomDepends DEF AgreeOn, ReadExpression
<1>2. e.form # "const" => Content(st1, e.root) = Content(st2, e.root)
  BY DEF AgreeOn, ReadExpression, ReadAtom
<1>3. CASE e.form = "elem"
  BY <1>1, <1>2, <1>3 DEF ValueOf
<1>4. CASE e.form = "slice"
  BY <1>1, <1>2, <1>4 DEF ValueOf
<1>5. CASE e.form \notin {"elem", "slice"}
  BY <1>1, <1>5 DEF ValueOf
<1> QED
  BY <1>3, <1>4, <1>5

(* -- what the effects of a statement say -------------------------------------------- *)
LEMMA MergedHas ==
  ASSUME NEW S, NEW e \in S
  PROVE  /\ e.reads \subseteq Merged(S).reads /\ e.writes \subseteq Merged(S).writes
         /\ ~Opaque(Merged(S)) => ~Opaque(e)
<1>1. /\ Merged(S).reads = UNION {x.reads : x \in S} /\ Merged(S).writes = UNION {x.writes : x \in S}
      /\ Merged(S).unknown = (\E x \in S : x.unknown) /\ Merged(S).sync = (\E x \in S : x.sync)
      /\ Merged(S).unsupported = (\E x \in S : x.unsupported)
  BY DEF Merged
<1>2. ~Opaque(Merged(S)) => ~Opaque(e)
  BY <1>1, Zenon DEF Opaque
<1> QED
  BY <1>1, <1>2

LEMMA ReadsAre ==
  ASSUME NEW R
  PROVE  [NoEffects EXCEPT !.reads = R].reads = R
BY DEF NoEffects

LEMMA FieldsAre ==
  ASSUME NEW r, NEW w, NEW b, NEW c
  PROVE  /\ LET e == [NoEffects EXCEPT !.writes = w, !.reads = r, !.unsupported = b]
            IN e.writes = w /\ e.reads = r /\ e.unsupported = b
         /\ LET e == [NoEffects EXCEPT !.sync = b, !.unknown = c, !.reads = r]
            IN e.sync = b /\ e.unknown = c /\ e.reads = r
BY DEF NoEffects

LEMMA TargetIs ==
  ASSUME NEW e
  PROVE  /\ WriteTarget(e).writes = ReadAtom(e) /\ WriteTarget(e).reads = ReadIndices(e)
         /\ ~Opaque(WriteTarget(e)) => e.form # "const"
<1> DEFINE b == e.form = "const"
<1>1. WriteTarget(e) = [NoEffects EXCEPT !.writes = ReadAtom(e), !.reads = ReadIndices(e), !.unsupported = b]
  BY DEF WriteTarget
<1> HIDE DEF b
<1>2. /\ WriteTarget(e).writes = ReadAtom(e) /\ WriteTarget(e).reads = ReadIndices(e)
      /\ WriteTarget(e).unsupported = b
  BY <1>1, FieldsAre
<1>3. ~Opaque(WriteTarget(e)) => ~b
  BY <1>2 DEF Opaque
<1> QED
  BY <1>2, <1>3 DEF b

LEMMA ValueReadsAre ==
  ASSUME NEW op, NEW args
  PROVE  /\ ReadCall(op, args).reads = ReadAll(args, DOMAIN args)
         /\ ~Opaque(ReadCall(op, args)) => op \in ValueCalls
<1> DEFINE b == op \in SyncCalls
           c == op \notin SyncCalls \cup PureCalls \cup LoopCalls
<1>1. ReadCall(op, args) = [NoEffects EXCEPT !.sync = b, !.unknown = c, !.reads = ReadAll(args, DOMAIN args)]
  BY DEF ReadCall
<1> HIDE DEF b, c
<1>2. /\ ReadCall(op, args).reads = ReadAll(args, DOMAIN args) /\ ReadCall(op, args).sync = b
      /\ ReadCall(op, args).unknown = c
  BY <1>1, FieldsAre
<1>3. ~Opaque(ReadCall(op, args)) => ~b /\ ~c
  BY <1>2 DEF Opaque
<1>4. ~b /\ ~c => op \in ValueCalls
  BY DEF b, c, PureCalls, LoopCalls, ValueCalls
<1> QED
  BY <1>2, <1>3, <1>4

LEMMA CallReads ==
  ASSUME NEW op, NEW args, ~Opaque(CallEffects(op, args)), op \notin PureCalls
  PROVE  /\ op \in DOMAIN Arity /\ 1..Arity[op] \subseteq DOMAIN args /\ Arity[op] \in 1..3
         /\ args[Arity[op]].form # "const"
         /\ ReadAtom(args[Arity[op]]) \subseteq CallEffects(op, args).writes
         /\ ReadIndices(args[Arity[op]]) \subseteq CallEffects(op, args).reads
         /\ \A i \in 1..Arity[op] :
              ReadExpression(args[i]) \subseteq CallEffects(op, args).reads \cup CallEffects(op, args).writes
<1> DEFINE read == ReadPositions(op, args)
           write == WritePositions(op)
           R == [NoEffects EXCEPT !.reads = ReadAll(args, read)]
           S == {R} \cup {WriteTarget(args[i]) : i \in write}
           e == CallEffects(op, args)
<1>1. op \notin SyncCalls
  BY DEF CallEffects, Opaque, NoEffects
<1>2. ~(op \notin {"copy", "clear", "reduce_sum", "gemm"} \/ ~((read \cup write) \subseteq DOMAIN args))
  <2>1. Opaque([NoEffects EXCEPT !.unknown = TRUE])
    BY DEF Opaque, NoEffects
  <2> QED
    BY <1>1, <2>1 DEF CallEffects
<1>3. e = Merged(S)
  BY <1>1, <1>2 DEF CallEffects
<1>4. /\ op \in {"copy", "clear", "reduce_sum", "gemm"} /\ Arity[op] \in 1..3
      /\ write = {Arity[op]} /\ \A i \in 1..Arity[op] : i \in read \cup write
      /\ op \in DOMAIN Arity
  BY <1>2 DEF Arity, ReadPositions, WritePositions
<1>5. read \cup write \subseteq DOMAIN args
  BY <1>2
<1>6. ReadAll(args, read) \subseteq e.reads
  <2>1. R \in S /\ R.reads = ReadAll(args, read)
    BY ReadsAre
  <2> HIDE DEF R, S, read
  <2> QED
    BY <1>3, <2>1, MergedHas
<1>7. ASSUME NEW i \in write
      PROVE  /\ args[i].form # "const" /\ ReadAtom(args[i]) \subseteq e.writes
             /\ ReadIndices(args[i]) \subseteq e.reads
  <2>1. WriteTarget(args[i]) \in S
    OBVIOUS
  <2> HIDE DEF S
  <2> QED
    BY <1>3, <2>1, MergedHas, TargetIs
<1>8. ASSUME NEW i \in 1..Arity[op] PROVE ReadExpression(args[i]) \subseteq e.reads \cup e.writes
  <2>1. CASE i \in read
    BY <1>6, <2>1 DEF ReadAll
  <2>2. CASE i \in write
    BY <1>7, <2>2 DEF ReadExpression
  <2> QED
    BY <1>4, <2>1, <2>2
<1> HIDE DEF e, S, R, read
<1>9. 1..Arity[op] \subseteq DOMAIN args
  BY <1>4, <1>5
<1>10. Arity[op] \in write
  BY <1>4
<1> QED
  BY <1>4, <1>7, <1>8, <1>9, <1>10 DEF e

LEMMA AssignReads ==
  ASSUME NEW x, x.kind = "assign", ~Opaque(OwnEffects(x)), x.args \in Seq(Expressions), Len(x.args) > 0
  PROVE  /\ x.op = "none" \/ x.op \in ValueCalls
         /\ x.args[1].form # "const"
         /\ ReadAtom(x.args[1]) \subseteq OwnEffects(x).writes
         /\ ReadIndices(x.args[1]) \subseteq OwnEffects(x).reads
         /\ x.op = "none" => ReadExpression(x.args[2]) \subseteq OwnEffects(x).reads
         /\ x.op # "none" => \A i \in 2..Len(x.args) : ReadExpression(x.args[i]) \subseteq OwnEffects(x).reads
<1> DEFINE e == OwnEffects(x)
           R == [NoEffects EXCEPT !.reads = ReadAll(x.args, {2})]
           C == ReadCall(x.op, Tail(x.args))
           S == {WriteTarget(x.args[1]), IF x.op = "none" THEN R ELSE C}
<1>1. e = Merged(S)
  BY DEF OwnEffects
<1>2. WriteTarget(x.args[1]) \in S /\ (x.op = "none" => R \in S) /\ (x.op # "none" => C \in S)
  OBVIOUS
<1>3. C.reads = ReadAll(Tail(x.args), DOMAIN Tail(x.args)) /\ (~Opaque(C) => x.op \in ValueCalls)
  BY ValueReadsAre
<1>4. R.reads = ReadAll(x.args, {2})
  BY ReadsAre
<1> HIDE DEF S, R, C, e
<1>5. /\ x.args[1].form # "const" /\ ReadAtom(x.args[1]) \subseteq e.writes
      /\ ReadIndices(x.args[1]) \subseteq e.reads
  <2>1. ~Opaque(WriteTarget(x.args[1]))
    BY <1>1, <1>2, MergedHas DEF e
  <2>2. /\ WriteTarget(x.args[1]).writes \subseteq e.writes
        /\ WriteTarget(x.args[1]).reads \subseteq e.reads
    BY <1>1, <1>2, MergedHas
  <2> QED
    BY <2>1, <2>2, TargetIs
<1>6. ASSUME x.op = "none" PROVE ReadExpression(x.args[2]) \subseteq e.reads
  <2>1. ReadAll(x.args, {2}) \subseteq e.reads
    BY <1>1, <1>2, <1>4, <1>6, MergedHas
  <2> QED
    BY <2>1 DEF ReadAll
<1>7. ASSUME x.op # "none"
      PROVE  /\ x.op \in ValueCalls
             /\ \A i \in 2..Len(x.args) : ReadExpression(x.args[i]) \subseteq e.reads
  <2>1. ReadAll(Tail(x.args), DOMAIN Tail(x.args)) \subseteq e.reads
    BY <1>1, <1>2, <1>3, <1>7, MergedHas
  <2>2. ~Opaque(C)
    BY <1>1, <1>2, <1>7, MergedHas DEF e
  <2>3. x.op \in ValueCalls
    BY <1>3, <2>2
  <2>4. ASSUME NEW i \in 2..Len(x.args) PROVE ReadExpression(x.args[i]) \subseteq e.reads
    <3>1. i - 1 \in DOMAIN Tail(x.args) /\ Tail(x.args)[i - 1] = x.args[i]
      OBVIOUS
    <3>2. ReadExpression(Tail(x.args)[i - 1]) \subseteq ReadAll(Tail(x.args), DOMAIN Tail(x.args))
      BY <3>1 DEF ReadAll
    <3> QED
      BY <2>1, <3>1, <3>2
  <2> QED
    BY <2>3, <2>4
<1> QED
  BY <1>5, <1>6, <1>7 DEF e

LEMMA OtherReads ==
  ASSUME NEW x, ~Opaque(OwnEffects(x))
  PROVE  /\ x.kind = "if" => ReadExpression(x.args[1]) \subseteq OwnEffects(x).reads
         /\ x.kind = "for" => ReadAtom(x.args[1]) \subseteq OwnEffects(x).writes
         /\ x.kind = "call" => OwnEffects(x) = CallEffects(x.op, x.args)
         /\ x.kind \in {"pass", "assign", "call", "if", "for"}
<1>1. Opaque([NoEffects EXCEPT !.unsupported = TRUE])
  BY DEF Opaque, NoEffects
<1>2. x.kind \in {"pass", "assign", "call", "if", "for"}
  BY <1>1 DEF OwnEffects
<1>3. CASE x.kind = "if"
  <2>1. OwnEffects(x) = [NoEffects EXCEPT !.reads = ReadAll(x.args, {1})]
    BY <1>3 DEF OwnEffects
  <2>2. OwnEffects(x).reads = ReadAll(x.args, {1})
    BY <2>1, ReadsAre
  <2> QED
    BY <1>3, <2>2 DEF ReadAll
<1>4. CASE x.kind = "for"
  <2> DEFINE S == {[NoEffects EXCEPT !.reads = ReadAll(x.args, {2})], WriteTarget(x.args[1])}
  <2>1. OwnEffects(x) = Merged(S)
    BY <1>1, <1>4 DEF OwnEffects
  <2>2. WriteTarget(x.args[1]) \in S
    OBVIOUS
  <2> HIDE DEF S
  <2>3. ReadAtom(x.args[1]) \subseteq OwnEffects(x).writes
    BY <2>1, <2>2, MergedHas, TargetIs
  <2> QED
    BY <1>4, <2>3
<1>5. CASE x.kind \notin {"if", "for"}
  BY <1>2, <1>5 DEF OwnEffects
<1> QED
  BY <1>2, <1>3, <1>4, <1>5

(* -- a buffer that an act leaves alone ------------------------------------------------ *)
LEMMA ReadsAreNames ==
  ASSUME NEW e \in Expressions
  PROVE  ReadExpression(e) \subseteq Names /\ ReadIndices(e) \subseteq Names
<1>1. ASSUME NEW a \in Atoms PROVE ReadAtom(a) \subseteq Names /\ a.idx = <<>>
  BY DEF Atoms, ReadAtom, Names
<1>2. ASSUME NEW x \in IndexTerms PROVE ReadAtom(x) \subseteq Names /\ x.idx \in Seq(Atoms)
  <2>1. CASE x \in Atoms
    <3>1. <<>> \in Seq(Atoms)
      OBVIOUS
    <3> QED
      BY <1>1, <2>1, <3>1
  <2>2. CASE x \notin Atoms
    <3>1. x \in [form : {"elem"}, root : Buffers \cup Views, idx : Seq(Atoms), ext : {"none"}]
      BY <2>2 DEF IndexTerms
    <3>2. x.root \in Buffers \cup Views /\ x.idx \in Seq(Atoms)
      BY <3>1
    <3> QED
      BY <3>2 DEF ReadAtom, Names
  <2> QED
    BY <2>1, <2>2
<1>3. e.idx \in Seq(IndexTerms) /\ ReadAtom(e) \subseteq Names
  <2>1. <<>> \in Seq(IndexTerms)
    OBVIOUS
  <2>2. CASE e \in Atoms
    BY <1>1, <2>1, <2>2
  <2>3. CASE e \notin Atoms
    <3>1. e.root \in Buffers \cup Views /\ e.idx \in Seq(IndexTerms)
      <4>1. CASE e \in [form : {"name"}, root : Buffers \cup Views, idx : {<<>>}, ext : {"none"}]
        BY <2>1, <4>1
      <4>2. CASE e \in [form : {"elem"}, root : Buffers \cup Views, idx : Seq(IndexTerms), ext : {"none"}]
        BY <4>2
      <4>3. CASE e \in [form : {"slice"}, root : Buffers \cup Views, idx : Seq(IndexTerms), ext : DOMAIN Size]
        BY <4>3
      <4> QED
        BY <2>3, <4>1, <4>2, <4>3 DEF Expressions
    <3> QED
      BY <3>1 DEF ReadAtom, Names
  <2> QED
    BY <2>2, <2>3
<1>4. ASSUME NEW x \in IndexTerms PROVE ReadIndex(x) \subseteq Names
  <2>1. \A a \in ToSet(x.idx) : a \in Atoms
    <3>1. x.idx \in Seq(Atoms)
      BY <1>2
    <3> QED
      BY <3>1, Elements DEF ToSet
  <2> QED
    BY <1>1, <1>2, <2>1 DEF ReadIndex
<1>5. \A x \in ToSet(e.idx) : x \in IndexTerms
  BY <1>3, Elements DEF ToSet
<1> QED
  BY <1>3, <1>4, <1>5 DEF ReadExpression, ReadIndices

LEMMA SameState ==
  ASSUME NEW p, NEW q, Shaped(p), Shaped(q), p.env = q.env, p.mem = q.mem, p.outer = q.outer,
         p.trace = q.trace, p.live = q.live, p.opaque = q.opaque
  PROVE  p = q
BY DEF Shaped

LEMMA StoreSwap ==
  ASSUME NEW own, NEW st, Good(st, own), NEW c, NEW u, NEW d, NEW v, c # d
  PROVE  Store(Store(st, d, v), c, u) = Store(Store(st, c, u), d, v)
<1> DEFINE a == Store(st, d, v)
           b == Store(st, c, u)
           p == Store(a, c, u)
           q == Store(b, d, v)
<1>0. Shaped(st)
  BY DEF Good
<1>1. /\ Shaped(a) /\ a.env = st.env /\ a.outer = st.outer /\ a.trace = st.trace
      /\ a.live = st.live /\ a.opaque = st.opaque /\ a.mem = [st.mem EXCEPT ![d] = v]
  <2>1. a.mem = [st.mem EXCEPT ![d] = v]
    BY <1>0, StoreMem
  <2> QED
    BY <1>0, <2>1, StoreIs
<1>2. /\ Shaped(b) /\ b.env = st.env /\ b.outer = st.outer /\ b.trace = st.trace
      /\ b.live = st.live /\ b.opaque = st.opaque /\ b.mem = [st.mem EXCEPT ![c] = u]
  <2>1. b.mem = [st.mem EXCEPT ![c] = u]
    BY <1>0, StoreMem
  <2> QED
    BY <1>0, <2>1, StoreIs
<1> HIDE DEF a, b
<1>3. /\ Shaped(p) /\ p.env = a.env /\ p.outer = a.outer /\ p.trace = a.trace
      /\ p.live = a.live /\ p.opaque = a.opaque /\ p.mem = [a.mem EXCEPT ![c] = u]
  <2>1. p.mem = [a.mem EXCEPT ![c] = u]
    BY <1>1, StoreMem
  <2> QED
    BY <1>1, <2>1, StoreIs
<1>4. /\ Shaped(q) /\ q.env = b.env /\ q.outer = b.outer /\ q.trace = b.trace
      /\ q.live = b.live /\ q.opaque = b.opaque /\ q.mem = [b.mem EXCEPT ![d] = v]
  <2>1. q.mem = [b.mem EXCEPT ![d] = v]
    BY <1>2, StoreMem
  <2> QED
    BY <1>2, <2>1, StoreIs
<1> HIDE DEF p, q
<1>5. p.mem = q.mem
  <2>1. st.mem = [e \in Cells |-> st.mem[e]]
    BY DEF Good
  <2>2. a.mem = [e \in Cells |-> IF e = d THEN v ELSE st.mem[e]]
    BY <1>1, <2>1
  <2>3. b.mem = [e \in Cells |-> IF e = c THEN u ELSE st.mem[e]]
    BY <1>2, <2>1
  <2>4. p.mem = [e \in Cells |-> IF e = c THEN u ELSE IF e = d THEN v ELSE st.mem[e]]
    BY <1>3, <2>2
  <2>5. q.mem = [e \in Cells |-> IF e = d THEN v ELSE IF e = c THEN u ELSE st.mem[e]]
    BY <1>4, <2>3
  <2> QED
    BY <2>4, <2>5
<1>6. p = q
  BY <1>1, <1>2, <1>3, <1>4, <1>5, SameState
<1> QED
  BY <1>6 DEF p, q, a, b

(* What is stored in a buffer with one name is seen under that name only.     *)
LEMMA Hidden ==
  ASSUME NEW own, NEW st, Good(st, own), NEW d \in own \cap Names, NEW v
  PROVE  /\ \A n \in Names \ {d} : Content(Store(st, d, v), n) = Content(st, n)
         /\ Content(Store(st, d, v), d) = v
<1> DEFINE t == Store(st, d, v)
<1>1. t.env = st.env /\ t.mem = [st.mem EXCEPT ![d] = v]
  BY StoreIs, StoreMem DEF Good
<1> HIDE DEF t
<1>2. t.mem = [c \in Cells |-> IF c = d THEN v ELSE st.mem[c]]
  BY <1>1 DEF Good
<1>3. ASSUME NEW n \in Names \ {d} PROVE st.env[n] # d /\ st.env[n] \in Cells
  BY DEF Good
<1>4. st.env[d] = d /\ d \in Cells
  BY DEF Good, Cells
<1>5. \A n \in Names \ {d} : Content(t, n) = Content(st, n)
  BY <1>1, <1>2, <1>3 DEF Content
<1>6. Content(t, d) = v
  BY <1>1, <1>2, <1>4 DEF Content
<1> QED
  BY <1>5, <1>6 DEF t

LEMMA HiddenFrom ==
  ASSUME NEW own, NEW st, Good(st, own), NEW d \in own \cap Names, NEW v, NEW e \in Expressions
  PROVE  /\ d \notin ReadExpression(e) => ValueOf(Store(st, d, v), e) = ValueOf(st, e)
         /\ d \notin ReadIndices(e) => Position(Store(st, d, v), e) = Position(st, e)
<1>1. \A n \in Names \ {d} : Content(Store(st, d, v), n) = Content(st, n)
  BY Hidden
<1>2. ReadExpression(e) \subseteq Names /\ ReadIndices(e) \subseteq Names
  BY ReadsAreNames
<1>3. d \notin ReadExpression(e) => AgreeOn(Store(st, d, v), st, ReadExpression(e))
  BY <1>1, <1>2 DEF AgreeOn
<1>4. d \notin ReadIndices(e) => AgreeOn(Store(st, d, v), st, ReadIndices(e))
  BY <1>1, <1>2 DEF AgreeOn
<1> QED
  BY <1>3, <1>4, ValueDepends, PositionDepends

LEMMA StoreToFrame ==
  ASSUME NEW own, NEW st, Good(st, own), NEW d \in own \cap Names, NEW v,
         NEW e \in Expressions, NEW w, e.form # "const", e.root # d, d \notin ReadIndices(e)
  PROVE  /\ StoreTo(Store(st, d, v), e, w) = Store(StoreTo(st, e, w), d, v)
         /\ \A n \in own \cap Names : n # e.root => Content(StoreTo(st, e, w), n) = Content(st, n)
         /\ StoreTo(st, e, w).live = st.live
<1> DEFINE t == Store(st, d, v)
           c == st.env[e.root]
           new(s) == [y \in DOMAIN Content(s, e.root) |-> Stored(s, e, w, y)]
<1>1. e.root \in Names
  BY RootsAreNames
<1>2. c # d /\ c \in Cells
  BY <1>1 DEF Good
<1>0. Shaped(st)
  BY DEF Good
<1>3. t.env = st.env
  BY <1>0, StoreIs
<1>4. Content(t, e.root) = Content(st, e.root) /\ Position(t, e) = Position(st, e)
  BY <1>1, Hidden, HiddenFrom
<1> HIDE DEF t
<1>5. new(t) = new(st)
  BY <1>4 DEF Stored
<1>6. StoreTo(t, e, w) = Store(t, c, new(t)) /\ StoreTo(st, e, w) = Store(st, c, new(st))
  BY <1>3 DEF StoreTo
<1> HIDE DEF new, c
<1>7. Store(Store(st, d, v), c, new(st)) = Store(Store(st, c, new(st)), d, v)
  BY <1>2, StoreSwap
<1>8. StoreTo(st, e, w).live = st.live
  BY <1>0, <1>6, StoreIs
<1>9. ASSUME NEW n \in own \cap Names, n # e.root
      PROVE  Content(StoreTo(st, e, w), n) = Content(st, n)
  <2>1. st.env[n] = n /\ c # n /\ n \in Cells
    BY <1>1, <1>9 DEF Good, c, Cells
  <2>2. StoreTo(st, e, w).env = st.env /\ StoreTo(st, e, w).mem = [st.mem EXCEPT ![c] = new(st)]
    <3>1. StoreTo(st, e, w).env = st.env
      BY <1>0, <1>6, StoreIs
    <3>2. StoreTo(st, e, w).mem = [st.mem EXCEPT ![c] = new(st)]
      BY <1>0, <1>6, StoreMem
    <3> QED
      BY <3>1, <3>2
  <2> QED
    BY <2>1, <2>2 DEF Content
<1> QED
  BY <1>5, <1>6, <1>7, <1>8, <1>9 DEF t

(* -- acts that leave a buffer alone -------------------------------------------------- *)
(* Whether the buffer d is stored to before or after makes no difference to what  *)
(* goes from st to t, and the names in D keep what they stand for.               *)
Framed(st, t, stored, d, v, D) ==
  stored = Store(t, d, v) /\ AgreeOn(t, st, D) /\ t.live = st.live

LEMMA OuterFrame ==
  ASSUME NEW own, NEW st, Good(st, own), NEW d, NEW v, Good(Store(st, d, v), own), NEW o, NEW D
  PROVE  Framed(st, [st EXCEPT !.outer = o], [Store(st, d, v) EXCEPT !.outer = o], d, v, D)
<1> DEFINE a == Store(st, d, v)
           t == [st EXCEPT !.outer = o]
           p == [a EXCEPT !.outer = o]
           q == Store(t, d, v)
<1>0. Shaped(st) /\ st.opaque = FALSE
  BY GoodHas
<1>1. /\ Good(t, own) /\ t.env = st.env /\ t.mem = st.mem /\ t.outer = o
      /\ t.trace = st.trace /\ t.live = st.live
  BY OuterIs
<1>2. a.env = st.env /\ a.trace = st.trace /\ a.live = st.live
  BY <1>0, StoreIs
<1>3. a.mem = [st.mem EXCEPT ![d] = v]
  BY <1>0, StoreMem
<1> HIDE DEF a, t
<1>4. Good(a, own)
  BY DEF a
<1>5. /\ Good(p, own) /\ p.env = a.env /\ p.mem = a.mem /\ p.outer = o
      /\ p.trace = a.trace /\ p.live = a.live
  BY <1>4, OuterIs
<1>6. Shaped(q) /\ q.env = t.env /\ q.outer = t.outer /\ q.trace = t.trace /\ q.live = t.live /\ q.opaque = t.opaque
  <2>1. Shaped(t)
    BY <1>1, GoodHas
  <2> QED
    BY <2>1, StoreIs
<1>7. q.mem = [t.mem EXCEPT ![d] = v]
  <2>1. Shaped(t)
    BY <1>1, GoodHas
  <2> QED
    BY <2>1, StoreMem
<1> HIDE DEF p, q
<1>8. p.mem = q.mem
  BY <1>1, <1>3, <1>5, <1>7
<1>9. Shaped(p) /\ p.opaque = FALSE /\ t.opaque = FALSE
  BY <1>1, <1>5, GoodHas
<1>10. p = q
  BY <1>1, <1>2, <1>5, <1>6, <1>8, <1>9, SameState
<1>11. AgreeOn(t, st, D)
  BY <1>1 DEF AgreeOn, Content
<1> QED
  BY <1>1, <1>10, <1>11 DEF Framed, a, t, p, q

LEMMA TraceFrame ==
  ASSUME NEW own, NEW st, Good(st, own), NEW d, NEW v, Good(Store(st, d, v), own), NEW o, NEW D
  PROVE  Framed(st, [st EXCEPT !.trace = o], [Store(st, d, v) EXCEPT !.trace = o], d, v, D)
<1> DEFINE a == Store(st, d, v)
           t == [st EXCEPT !.trace = o]
           p == [a EXCEPT !.trace = o]
           q == Store(t, d, v)
<1>0. Shaped(st) /\ st.opaque = FALSE
  BY GoodHas
<1>1. /\ Good(t, own) /\ t.env = st.env /\ t.mem = st.mem /\ t.outer = st.outer
      /\ t.trace = o /\ t.live = st.live
  BY TraceIs
<1>2. a.env = st.env /\ a.outer = st.outer /\ a.live = st.live
  BY <1>0, StoreIs
<1>3. a.mem = [st.mem EXCEPT ![d] = v]
  BY <1>0, StoreMem
<1> HIDE DEF a, t
<1>4. Good(a, own)
  BY DEF a
<1>5. /\ Good(p, own) /\ p.env = a.env /\ p.mem = a.mem /\ p.outer = a.outer
      /\ p.trace = o /\ p.live = a.live
  BY <1>4, TraceIs
<1>6. Shaped(q) /\ q.env = t.env /\ q.outer = t.outer /\ q.trace = t.trace /\ q.live = t.live /\ q.opaque = t.opaque
  <2>1. Shaped(t)
    BY <1>1, GoodHas
  <2> QED
    BY <2>1, StoreIs
<1>7. q.mem = [t.mem EXCEPT ![d] = v]
  <2>1. Shaped(t)
    BY <1>1, GoodHas
  <2> QED
    BY <2>1, StoreMem
<1> HIDE DEF p, q
<1>8. p.mem = q.mem
  BY <1>1, <1>3, <1>5, <1>7
<1>9. Shaped(p) /\ p.opaque = FALSE /\ t.opaque = FALSE
  BY <1>1, <1>5, GoodHas
<1>10. p = q
  BY <1>1, <1>2, <1>5, <1>6, <1>8, <1>9, SameState
<1>11. AgreeOn(t, st, D)
  BY <1>1 DEF AgreeOn, Content
<1> QED
  BY <1>1, <1>10, <1>11 DEF Framed, a, t, p, q

LEMMA RebindFrame ==
  ASSUME NEW own, NEW st, Good(st, own), NEW d, NEW v, Good(Store(st, d, v), own),
         NEW n \in Names, n \notin own, NEW o \in Cells, o \notin own, NEW D, D \subseteq own \cap Names
  PROVE  Framed(st, [st EXCEPT !.env[n] = o], [Store(st, d, v) EXCEPT !.env[n] = o], d, v, D)
<1> DEFINE a == Store(st, d, v)
           t == [st EXCEPT !.env[n] = o]
           p == [a EXCEPT !.env[n] = o]
           q == Store(t, d, v)
<1>0. Shaped(st) /\ st.opaque = FALSE
  BY GoodHas
<1>1. /\ Good(t, own) /\ t.env = [st.env EXCEPT ![n] = o] /\ t.mem = st.mem /\ t.outer = st.outer
      /\ t.trace = st.trace /\ t.live = st.live
  BY RebindIs
<1>2. a.env = st.env /\ a.outer = st.outer /\ a.trace = st.trace /\ a.live = st.live
  BY <1>0, StoreIs
<1>3. a.mem = [st.mem EXCEPT ![d] = v]
  BY <1>0, StoreMem
<1> HIDE DEF a, t
<1>4. Good(a, own)
  BY DEF a
<1>5. /\ Good(p, own) /\ p.env = [a.env EXCEPT ![n] = o] /\ p.mem = a.mem /\ p.outer = a.outer
      /\ p.trace = a.trace /\ p.live = a.live
  BY <1>4, RebindIs
<1>6. Shaped(q) /\ q.env = t.env /\ q.outer = t.outer /\ q.trace = t.trace /\ q.live = t.live /\ q.opaque = t.opaque
  <2>1. Shaped(t)
    BY <1>1, GoodHas
  <2> QED
    BY <2>1, StoreIs
<1>7. q.mem = [t.mem EXCEPT ![d] = v]
  <2>1. Shaped(t)
    BY <1>1, GoodHas
  <2> QED
    BY <2>1, StoreMem
<1> HIDE DEF p, q
<1>8. p.mem = q.mem
  BY <1>1, <1>3, <1>5, <1>7
<1>9. Shaped(p) /\ p.opaque = FALSE /\ t.opaque = FALSE
  BY <1>1, <1>5, GoodHas
<1>10. p = q
  BY <1>1, <1>2, <1>5, <1>6, <1>8, <1>9, SameState
<1>11. AgreeOn(t, st, D)
  <2>1. t.env = [m \in Names |-> IF m = n THEN o ELSE st.env[m]]
    BY <1>1 DEF Good
  <2> QED
    BY <1>1, <2>1 DEF AgreeOn, Content
<1> QED
  BY <1>1, <1>10, <1>11 DEF Framed, a, t, p, q

LEMMA BindFrame ==
  ASSUME NEW own, NEW st, Good(st, own), NEW d \in own \cap Buffers, NEW v, Good(Store(st, d, v), own),
         NEW n \in Scalars, NEW o, NEW D, D \subseteq own \cap Names, n \notin D
  PROVE  Framed(st, Bind(st, n, o), Bind(Store(st, d, v), n, o), d, v, D)
<1> DEFINE a == Store(st, d, v)
           t == Bind(st, n, o)
           p == Bind(a, n, o)
           q == Store(t, d, v)
<1>0. Shaped(st) /\ st.opaque = FALSE
  BY GoodHas
<1>1. Good(t, own) /\ t.outer = st.outer /\ t.trace = st.trace /\ t.live = st.live
  BY BindIs
<1>12. t.mem = [st.mem EXCEPT ![n] = o]
  BY BindMem
<1>13. t.env = [st.env EXCEPT ![n] = n]
  BY BindEnv
<1>2. a.env = st.env /\ a.outer = st.outer /\ a.trace = st.trace /\ a.live = st.live
  BY <1>0, StoreIs
<1>3. a.mem = [st.mem EXCEPT ![d] = v]
  BY <1>0, StoreMem, ZenonT(60)
<1> HIDE DEF a, t
<1>4. Good(a, own)
  BY DEF a
<1>5. Good(p, own) /\ p.outer = a.outer /\ p.trace = a.trace /\ p.live = a.live
  BY <1>4, BindIs
<1>14. p.mem = [a.mem EXCEPT ![n] = o]
  BY <1>4, BindMem
<1>15. p.env = [a.env EXCEPT ![n] = n]
  BY <1>4, BindEnv
<1>6. Shaped(q) /\ q.env = t.env /\ q.outer = t.outer /\ q.trace = t.trace /\ q.live = t.live /\ q.opaque = t.opaque
  <2>1. Shaped(t)
    BY <1>1, GoodHas
  <2> QED
    BY <2>1, StoreIs
<1>7. q.mem = [t.mem EXCEPT ![d] = v]
  <2>1. Shaped(t)
    BY <1>1, GoodHas
  <2> QED
    BY <2>1, StoreMem
<1> HIDE DEF p, q
<1>8. p.mem = q.mem
  <2>0. n # d
    BY KernelAssumption DEF KernelAssumption
  <2>1. st.mem = [e \in Cells |-> st.mem[e]]
    BY DEF Good
  <2>2. a.mem = [e \in Cells |-> IF e = d THEN v ELSE st.mem[e]]
    BY <1>3, <2>1
  <2>3. t.mem = [e \in Cells |-> IF e = n THEN o ELSE st.mem[e]]
    BY <1>12, <2>1
  <2>4. p.mem = [e \in Cells |-> IF e = n THEN o ELSE IF e = d THEN v ELSE st.mem[e]]
    BY <1>14, <2>2
  <2>5. q.mem = [e \in Cells |-> IF e = d THEN v ELSE IF e = n THEN o ELSE st.mem[e]]
    BY <1>7, <2>3
  <2> QED
    BY <2>0, <2>4, <2>5
<1>16. p.env = q.env
  BY <1>2, <1>6, <1>13, <1>15
<1>9. Shaped(p) /\ p.opaque = FALSE /\ t.opaque = FALSE
  BY <1>1, <1>5, GoodHas
<1>10. p = q
  BY <1>1, <1>2, <1>5, <1>6, <1>8, <1>9, <1>16, SameState
<1>11. AgreeOn(t, st, D)
  <2>1. t.env = [m \in Names |-> IF m = n THEN n ELSE st.env[m]]
    BY <1>13 DEF Good
  <2>2. t.mem = [c \in Cells |-> IF c = n THEN o ELSE st.mem[c]]
    BY <1>12 DEF Good
  <2>3. ASSUME NEW m \in D PROVE Content(t, m) = Content(st, m)
    <3>1. m \in Names /\ m # n /\ st.env[m] = m /\ m \in Cells
      BY DEF Good, Cells
    <3> QED
      BY <2>1, <2>2, <3>1 DEF Content
  <2> QED
    BY <2>3 DEF AgreeOn
<1> QED
  BY <1>1, <1>10, <1>11 DEF Framed, a, t, p, q

LEMMA CallFrame ==
  ASSUME NEW own, NEW st, Good(st, own), NEW d \in own \cap Buffers, NEW v, Good(Store(st, d, v), own),
         NEW D, D \subseteq own \cap Names, NEW op, NEW args \in Seq(Expressions),
         ~Opaque(CallEffects(op, args)),
         d \notin CallEffects(op, args).reads \cup CallEffects(op, args).writes,
         CallEffects(op, args).writes \cap D = {}
  PROVE  Framed(st, RunCall(st, op, args), RunCall(Store(st, d, v), op, args), d, v, D)
<1> DEFINE a == Store(st, d, v)
<1>1. st.opaque = FALSE /\ a.opaque = FALSE /\ d \in own \cap Names
  BY GoodHas DEF Names
<1>2. CASE op \in PureCalls
  <2>1. op \in ValueCalls /\ op \notin Barriers /\ op \notin DOMAIN Arity
    BY <1>2 DEF PureCalls, ValueCalls, Barriers, Arity
  <2> HIDE DEF a
  <2>2. RunCall(st, op, args) = st /\ RunCall(a, op, args) = a
    BY <1>1, <2>1 DEF RunCall
  <2> QED
    BY <2>2 DEF a, Framed, AgreeOn
<1>3. CASE op \notin PureCalls
  <2> DEFINE e == args[Arity[op]]
             W(s) == BulkValue(s, op, args)
  <2>1. /\ op \in DOMAIN Arity /\ 1..Arity[op] \subseteq DOMAIN args /\ Arity[op] \in 1..3
        /\ e.form # "const" /\ ReadAtom(e) \subseteq CallEffects(op, args).writes
        /\ ReadIndices(e) \subseteq CallEffects(op, args).reads
        /\ \A i \in 1..Arity[op] : d \notin ReadExpression(args[i])
    BY <1>3, CallReads
  <2>2. e \in Expressions /\ Len(args) >= Arity[op] /\ \A i \in 1..Arity[op] : args[i] \in Expressions
    BY <2>1
  <2>3. e.root # d /\ d \notin ReadIndices(e) /\ e.root \notin D
    BY <2>1 DEF ReadAtom
  <2>4. \A i \in 1..Arity[op] : ValueOf(a, args[i]) = ValueOf(st, args[i])
    BY <1>1, <2>1, <2>2, HiddenFrom
  <2>5. op \in {"copy", "clear", "reduce_sum", "gemm"}
    BY <2>1 DEF Arity
  <2> HIDE DEF a
  <2>6. W(a) = W(st)
    <3>1. CASE op = "copy"
      <4>1. ValueOf(a, args[1]) = ValueOf(st, args[1])
        BY <2>4, <3>1 DEF Arity
      <4> QED
        BY <3>1, <4>1 DEF BulkValue
    <3>2. CASE op = "clear"
      <4>1. ValueOf(a, args[1]) = ValueOf(st, args[1])
        BY <2>4, <3>2 DEF Arity
      <4> QED
        BY <3>2, <4>1 DEF BulkValue
    <3>3. CASE op = "reduce_sum"
      <4>1. ValueOf(a, args[1]) = ValueOf(st, args[1]) /\ ValueOf(a, args[2]) = ValueOf(st, args[2])
        BY <2>4, <3>3 DEF Arity
      <4> QED
        BY <3>3, <4>1 DEF BulkValue
    <3>4. CASE op = "gemm"
      <4>1. /\ ValueOf(a, args[1]) = ValueOf(st, args[1]) /\ ValueOf(a, args[2]) = ValueOf(st, args[2])
            /\ ValueOf(a, args[3]) = ValueOf(st, args[3])
        BY <2>4, <3>4 DEF Arity
      <4> QED
        BY <3>4, <4>1 DEF BulkValue
    <3> QED
      BY <2>5, <3>1, <3>2, <3>3, <3>4
  <2>7. ASSUME NEW s, s.opaque = FALSE PROVE RunCall(s, op, args) = StoreTo(s, e, W(s))
    BY <2>1, <2>2, <2>7 DEF RunCall, Arity, Barriers, ValueCalls
  <2>8. RunCall(st, op, args) = StoreTo(st, e, W(st)) /\ RunCall(a, op, args) = StoreTo(a, e, W(st))
    BY <1>1, <2>6, <2>7
  <2> HIDE DEF W, e
  <2>9. /\ StoreTo(a, e, W(st)) = Store(StoreTo(st, e, W(st)), d, v)
        /\ \A n \in own \cap Names : n # e.root => Content(StoreTo(st, e, W(st)), n) = Content(st, n)
        /\ StoreTo(st, e, W(st)).live = st.live
    BY <1>1, <2>1, <2>2, <2>3, StoreToFrame DEF a
  <2> QED
    BY <2>3, <2>8, <2>9 DEF Framed, AgreeOn, a
<1> QED
  BY <1>2, <1>3

(* What an assignment of a known value assigns.                               *)
AssignedValue(st, op, args) ==
  IF op = "none" THEN ValueOf(st, args[2]) ELSE <<op, [i \in 2..Len(args) |-> ValueOf(st, args[i])]>>

LEMMA AssignIs ==
  ASSUME NEW st, st.opaque = FALSE, NEW op, op = "none" \/ op \in ValueCalls, NEW args
  PROVE  LET target == args[1]
             view == target.form = "name" /\ target.root \in Views /\ Len(args) > 1
             scalar == target.form = "name" /\ target.root \in Scalars
         IN RunAssign(st, op, args) =
              IF view THEN Alias(st, target.root, args[2])
              ELSE IF scalar THEN Bind(st, target.root, AssignedValue(st, op, args))
              ELSE StoreTo(st, target, AssignedValue(st, op, args))
<1>1. op # "alloc_shared" /\ Views \cap Scalars = {}
  BY KernelAssumption DEF KernelAssumption, ValueCalls
<1> DEFINE target == args[1]
           known == op = "none" \/ (op \in ValueCalls /\ ~st.opaque)
           value == CASE op = "none" -> ValueOf(st, args[2])
                      [] op # "none" /\ known -> <<op, [i \in 2..Len(args) |-> ValueOf(st, args[i])]>>
                      [] OTHER -> <<"result", Len(st.trace)>>
           now == IF known THEN st ELSE Unknown(st)
           more == Len(args) > 1
           av == AssignedValue(st, op, args)
<1>2. known
  OBVIOUS
<1>3. value = av
  BY <1>2 DEF AssignedValue
<1>4. now = st
  BY <1>2
<1>5. RunAssign(st, op, args) =
        CASE op = "alloc_shared" /\ ~st.opaque -> [st EXCEPT !.env[target.root] = Fresh]
          [] target.form = "name" /\ target.root \in Views /\ more ->
               Alias(now, target.root, args[2])
          [] target.form = "name" /\ target.root \in Scalars -> Bind(now, target.root, value)
          [] OTHER -> StoreTo(now, target, value)
  BY DEF RunAssign
<1> HIDE DEF value, now, known, av, target, more
<1>6. RunAssign(st, op, args) =
        IF target.form = "name" /\ target.root \in Views /\ more THEN Alias(st, target.root, args[2])
        ELSE IF target.form = "name" /\ target.root \in Scalars THEN Bind(st, target.root, av)
        ELSE StoreTo(st, target, av)
  BY <1>1, <1>3, <1>4, <1>5
<1> QED
  BY <1>6 DEF target, more, av

LEMMA AssignedSame ==
  ASSUME NEW own, NEW st, Good(st, own), NEW d \in own \cap Names, NEW v,
         NEW op, NEW args, (op = "none") => (2 \in 2..Len(args)),
         \A i \in 2..Len(args) : args[i] \in Expressions /\ d \notin ReadExpression(args[i])
  PROVE  AssignedValue(Store(st, d, v), op, args) = AssignedValue(st, op, args)
<1> DEFINE a == Store(st, d, v)
<1>1. \A i \in 2..Len(args) : ValueOf(a, args[i]) = ValueOf(st, args[i])
  BY HiddenFrom
<1> HIDE DEF a
<1>2. [i \in 2..Len(args) |-> ValueOf(a, args[i])] = [i \in 2..Len(args) |-> ValueOf(st, args[i])]
  BY <1>1
<1>3. CASE op = "none"
  BY <1>1, <1>3 DEF AssignedValue, a
<1>4. CASE op # "none"
  BY <1>2, <1>4 DEF AssignedValue, a
<1> QED
  BY <1>3, <1>4

LEMMA AliasFrame ==
  ASSUME NEW own, NEW st, Good(st, own), NEW d \in own \cap Buffers, NEW v, Good(Store(st, d, v), own),
         NEW D, D \subseteq own \cap Names, NEW n \in Names, n \notin own,
         NEW e \in Expressions, e.form = "name" => e.root \notin own
  PROVE  Framed(st, Alias(st, n, e), Alias(Store(st, d, v), n, e), d, v, D)
<1> DEFINE a == Store(st, d, v)
<1>1. CASE e.form = "name" /\ e.root \notin Scalars
  <2> DEFINE o == st.env[e.root]
  <2>1. e.root \in Names /\ e.root \notin own
    BY <1>1, RootsAreNames
  <2>2. o \in Cells /\ o \notin own
    BY <2>1 DEF Good
  <2>3. a.env = st.env
    <3>1. Shaped(st)
      BY GoodHas
    <3> QED
      BY <3>1, StoreIs
  <2>4. Alias(st, n, e) = [st EXCEPT !.env[n] = o]
    BY <1>1 DEF Alias
  <2> HIDE DEF a
  <2>5. Alias(a, n, e) = [a EXCEPT !.env[n] = o]
    BY <1>1, <2>3 DEF Alias
  <2> HIDE DEF o
  <2>6. d \in own \cap Names
    BY DEF Names
  <2>7. Framed(st, [st EXCEPT !.env[n] = o], [a EXCEPT !.env[n] = o], d, v, D)
    BY <2>2, RebindFrame DEF a
  <2> QED
    BY <2>4, <2>5, <2>7 DEF a
<1>2. CASE ~(e.form = "name" /\ e.root \notin Scalars)
  <2>1. Alias(st, n, e) = st /\ Alias(a, n, e) = a
    BY <1>2 DEF Alias
  <2> QED
    BY <2>1 DEF Framed, AgreeOn
<1> QED
  BY <1>1, <1>2

LEMMA AssignFrame ==
  ASSUME NEW own, NEW st, Good(st, own), NEW d \in own \cap Buffers, NEW v, Good(Store(st, d, v), own),
         NEW D, D \subseteq own \cap Names,
         NEW op, NEW args, LegalAssign(op, args, own), op = "none" \/ op \in ValueCalls,
         (op = "none") => (2 \in 2..Len(args)),
         args[1].form # "const", args[1].root # d, args[1].root \notin D, d \notin ReadIndices(args[1]),
         \A i \in 2..Len(args) : d \notin ReadExpression(args[i])
  PROVE  Framed(st, RunAssign(st, op, args), RunAssign(Store(st, d, v), op, args), d, v, D)
<1> DEFINE a == Store(st, d, v)
           target == args[1]
           second == args[2]
           more == Len(args) > 1
           V == AssignedValue(st, op, args)
<1>1. args \in Seq(Expressions) /\ Len(args) \in Nat \ {0}
  BY DEF LegalAssign
<1>2. target \in Expressions /\ (more => second \in Expressions)
  BY <1>1
<1>3. \A i \in 2..Len(args) : args[i] \in Expressions
  BY <1>1
<1>4. d \in own \cap Names
  BY DEF Names
<1>5. AssignedValue(a, op, args) = V
  BY <1>3, <1>4, AssignedSame
<1>6. /\ target.form = "name" /\ target.root \in Views /\ more /\ second.form = "name" =>
           second.root \notin own
      /\ Views \cap own = {}
  BY DEF LegalAssign
<1>7. st.opaque = FALSE /\ a.opaque = FALSE
  BY GoodHas
<1> DEFINE view == target.form = "name" /\ target.root \in Views /\ more
           scalar == target.form = "name" /\ target.root \in Scalars
<1>8. RunAssign(st, op, args) =
        IF view THEN Alias(st, target.root, second)
        ELSE IF scalar THEN Bind(st, target.root, V) ELSE StoreTo(st, target, V)
  BY <1>7, AssignIs
<1> HIDE DEF V
<1>9. RunAssign(a, op, args) =
        IF view THEN Alias(a, target.root, second)
        ELSE IF scalar THEN Bind(a, target.root, V) ELSE StoreTo(a, target, V)
  <2> HIDE DEF a
  <2> QED
    BY <1>5, <1>7, AssignIs
<1>10. target.form # "const" /\ target.root # d /\ target.root \notin D /\ d \notin ReadIndices(target)
  OBVIOUS
<1>11. Good(st, own) /\ Good(a, own)
  OBVIOUS
<1> HIDE DEF target, second, more
<1>12. CASE view
  <2>1. target.root \in Names /\ target.root \notin own
    BY <1>6, <1>12 DEF Names
  <2>2. Framed(st, Alias(st, target.root, second), Alias(a, target.root, second), d, v, D)
    BY <1>2, <1>6, <1>12, <2>1, AliasFrame
  <2> QED
    BY <1>8, <1>9, <1>12, <2>2
<1>13. CASE ~view /\ scalar
  <2>1. Framed(st, Bind(st, target.root, V), Bind(a, target.root, V), d, v, D)
    BY <1>10, <1>13, BindFrame
  <2> QED
    BY <1>8, <1>9, <1>13, <2>1
<1>14. CASE ~view /\ ~scalar
  <2>1. /\ StoreTo(a, target, V) = Store(StoreTo(st, target, V), d, v)
        /\ \A n \in own \cap Names : n # target.root => Content(StoreTo(st, target, V), n) = Content(st, n)
        /\ StoreTo(st, target, V).live = st.live
    BY <1>2, <1>4, <1>10, StoreToFrame
  <2>2. RunAssign(st, op, args) = StoreTo(st, target, V) /\ RunAssign(a, op, args) = StoreTo(a, target, V)
    BY <1>8, <1>9, <1>14
  <2> HIDE DEF a
  <2>3. Framed(st, StoreTo(st, target, V), StoreTo(a, target, V), d, v, D)
    BY <1>10, <2>1 DEF Framed, AgreeOn
  <2> QED
    BY <2>2, <2>3 DEF a
<1> QED
  BY <1>12, <1>13, <1>14

(* The buffer d and the names in D are none of a statement's business.        *)
Crossed(x, d, D) ==
  LET e == OwnEffects(x)
  IN ~Opaque(e) /\ d \notin e.reads \cup e.writes /\ e.writes \cap D = {}

LEMMA DoFrame ==
  ASSUME NEW node, WellFormed(node), NEW s \in DOMAIN node, NEW act \in ActsOf(node[s]),
         NEW st, Good(st, Own(node)), NEW d \in Own(node) \cap Buffers,
         NEW v, Good(Store(st, d, v), Own(node)),
         NEW D, D \subseteq Own(node) \cap Names, Crossed(node[s], d, D)
  PROVE  Framed(st, Do(st, act), Do(Store(st, d, v), act), d, v, D)
<1> DEFINE x == node[s]
           own == Own(node)
           a == Store(st, d, v)
<1>0. Shaped(st) /\ Good(st, own) /\ Good(a, own) /\ d \in own \cap Names
  BY GoodHas DEF Names
<1>1. a.live = st.live /\ st.opaque = FALSE /\ a.opaque = FALSE
  <2>1. st.opaque = FALSE /\ a.opaque = FALSE
    BY <1>0, GoodHas
  <2>2. a.live = st.live
    BY <1>0, StoreIs
  <2> QED
    BY <2>1, <2>2
<1>2. CASE ~st.live
  <2>1. Do(st, act) = st /\ Do(a, act) = a
    BY <1>1, <1>2, DoneIs
  <2> QED
    BY <2>1 DEF Framed, AgreeOn
<1> SUFFICES ASSUME st.live, a.live PROVE Framed(st, Do(st, act), Do(a, act), d, v, D)
  BY <1>1, <1>2
<1>3. ~Opaque(OwnEffects(x)) /\ d \notin OwnEffects(x).reads \cup OwnEffects(x).writes
      /\ OwnEffects(x).writes \cap D = {}
  BY DEF Crossed
<1>4. x.kind \in {"assign", "call", "if", "for"}
  <2>1. x.kind \in {"pass", "assign", "call", "if", "for"}
    BY <1>3, OtherReads
  <2> QED
    BY <2>1 DEF ActsOf
<1>5. CASE x.kind = "for"
  <2>1. PICK var \in Scalars : x.args[1] = Name(var) /\ x.args[1].root = var
    BY <1>5, LoopIs
  <2>2. act \in {Act("enter", x, 0), Act("leave", x, 0)} \cup {Act("turn", x, n) : n \in Nat}
    BY <1>5 DEF ActsOf
  <2>3. act.args = x.args /\ act.do \in {"enter", "leave", "turn"} /\ act.args[1].root = var
    BY <2>1, <2>2, ActIs
  <2>4. var \notin D
    <3>1. ReadAtom(x.args[1]) \subseteq OwnEffects(x).writes
      BY <1>3, <1>5, OtherReads
    <3>2. ReadAtom(Name(var)) = {var}
      BY DEF Name, ReadAtom
    <3> QED
      BY <1>3, <2>1, <3>1, <3>2
  <2>5. var # d /\ var \in Cells
    BY KernelAssumption DEF KernelAssumption, Cells, Names
  <2>6. a.mem[var] = st.mem[var] /\ a.outer = st.outer
    <3>1. a.mem = [st.mem EXCEPT ![d] = v]
      BY <1>0, StoreMem
    <3>2. a.outer = st.outer
      BY <1>0, StoreIs
    <3>3. st.mem = [c \in Cells |-> st.mem[c]]
      BY GoodHas
    <3> HIDE DEF a
    <3>4. a.mem[var] = st.mem[var]
      BY <2>5, <3>1, <3>3
    <3> QED
      BY <3>2, <3>4
  <2> HIDE DEF x, own
  <2>7. CASE act.do = "enter"
    <3> DEFINE o == <<st.mem[var], st.outer>>
    <3>1. Do(st, act) = [st EXCEPT !.outer = o]
      BY <1>1, <2>3, <2>7, DoIs
    <3>2. Do(a, act) = [a EXCEPT !.outer = o]
      <4> HIDE DEF a
      <4> QED
        BY <1>1, <2>3, <2>6, <2>7, DoIs
    <3> HIDE DEF o
    <3>3. Framed(st, [st EXCEPT !.outer = o], [a EXCEPT !.outer = o], d, v, D)
      BY OuterFrame DEF own
    <3> QED
      BY <3>1, <3>2, <3>3
  <2>8. CASE act.do = "turn"
    <3>1. Do(st, act) = Bind(st, var, Whole(act.turn)) /\ Do(a, act) = Bind(a, var, Whole(act.turn))
      BY <1>1, <2>3, <2>8, DoIs
    <3>2. Framed(st, Bind(st, var, Whole(act.turn)), Bind(a, var, Whole(act.turn)), d, v, D)
      BY <2>4, BindFrame DEF own
    <3> QED
      BY <3>1, <3>2
  <2>9. CASE act.do = "leave"
    <3> DEFINE w == st.outer[1]
               o == st.outer[2]
               t == Bind(st, var, w)
               b == Bind(a, var, w)
    <3>1. Do(st, act) = [t EXCEPT !.outer = o]
      BY <1>1, <2>3, <2>9, DoIs
    <3>2. Do(a, act) = [b EXCEPT !.outer = o]
      <4> HIDE DEF a
      <4> QED
        BY <1>1, <2>3, <2>6, <2>9, DoIs
    <3> HIDE DEF o, w
    <3>3. Framed(st, t, b, d, v, D)
      BY <2>4, BindFrame DEF own
    <3>4. Good(t, Own(node)) /\ Good(b, Own(node))
      BY BindIs
    <3> HIDE DEF t, b
    <3>5. b = Store(t, d, v) /\ AgreeOn(t, st, D) /\ t.live = st.live
      BY <3>3 DEF Framed
    <3>6. Framed(t, [t EXCEPT !.outer = o], [Store(t, d, v) EXCEPT !.outer = o], d, v, D)
      BY <3>4, <3>5, OuterFrame
    <3> QED
      BY <3>1, <3>2, <3>5, <3>6 DEF Framed, AgreeOn
  <2> QED
    BY <2>3, <2>7, <2>8, <2>9
<1>6. CASE x.kind = "if"
  <2>1. act.do = "test" /\ act.args = x.args
    BY <1>6, ActIs DEF ActsOf
  <2>2. x.args[1] \in Expressions
    <3>1. x.args \in Seq(Expressions) /\ Len(x.args) = 1
      BY <1>6 DEF WellFormed, WellFormedStatement
    <3> QED
      BY <3>1
  <2>3. ValueOf(a, x.args[1]) = ValueOf(st, x.args[1])
    <3>1. d \notin ReadExpression(x.args[1])
      BY <1>3, <1>6, OtherReads
    <3> QED
      BY <1>0, <2>2, <3>1, HiddenFrom
  <2>4. a.trace = st.trace
    BY <1>0, StoreIs
  <2> DEFINE o == Append(st.trace, <<"test", ValueOf(st, x.args[1])>>)
  <2>5. Do(st, act) = [st EXCEPT !.trace = o]
    BY <2>1, DoIs
  <2>6. Do(a, act) = [a EXCEPT !.trace = o]
    <3> DEFINE b == Append(a.trace, <<"test", ValueOf(a, act.args[1])>>)
    <3>1. b = o
      BY <2>1, <2>3, <2>4
    <3> HIDE DEF a
    <3>2. Do(a, act) = [a EXCEPT !.trace = b]
      BY <2>1, DoIs
    <3> HIDE DEF b, o
    <3> QED
      BY <3>1, <3>2
  <2> HIDE DEF o
  <2>7. Framed(st, [st EXCEPT !.trace = o], [a EXCEPT !.trace = o], d, v, D)
    BY TraceFrame
  <2> QED
    BY <2>5, <2>6, <2>7
<1>7. CASE x.kind = "call"
  <2>1. act.do = "call" /\ act.op = x.op /\ act.args = x.args
    BY <1>7, ActIs DEF ActsOf
  <2>2. x.args \in Seq(Expressions)
    BY <1>7 DEF WellFormed, WellFormedStatement
  <2>3. OwnEffects(x) = CallEffects(x.op, x.args)
    BY <1>3, <1>7, OtherReads
  <2>4. Do(st, act) = RunCall(st, x.op, x.args) /\ Do(a, act) = RunCall(a, x.op, x.args)
    BY <2>1, DoIs
  <2> HIDE DEF x, own
  <2>5. Framed(st, RunCall(st, x.op, x.args), RunCall(a, x.op, x.args), d, v, D)
    BY <1>3, <2>2, <2>3, CallFrame
  <2> QED
    BY <2>4, <2>5
<1>8. CASE x.kind = "assign"
  <2>1. act.do = "assign" /\ act.op = x.op /\ act.args = x.args
    BY <1>8, ActIs DEF ActsOf
  <2>2. LegalAssign(x.op, x.args, own)
    BY <1>8, AssignmentsAre
  <2>3. x.args \in Seq(Expressions) /\ Len(x.args) > 0 /\ (x.op = "none" => 2 \in 2..Len(x.args))
    <3>1. x.args \in Seq(Expressions) /\ Len(x.args) > 0 /\ (x.op = "none" => Len(x.args) = 2)
      BY <1>8 DEF WellFormed, WellFormedStatement
    <3>2. ASSUME x.op = "none" PROVE 2 \in 2..Len(x.args)
      <4>1. Len(x.args) = 2
        BY <3>1, <3>2
      <4> QED
        BY <4>1
    <3> QED
      BY <3>1, <3>2
  <2>4. Do(st, act) = RunAssign(st, x.op, x.args) /\ Do(a, act) = RunAssign(a, x.op, x.args)
    BY <2>1, DoIs
  <2> HIDE DEF x, own
  <2>6. /\ x.op = "none" \/ x.op \in ValueCalls
        /\ x.args[1].form # "const"
        /\ ReadAtom(x.args[1]) \subseteq OwnEffects(x).writes
        /\ ReadIndices(x.args[1]) \subseteq OwnEffects(x).reads
        /\ x.op = "none" => ReadExpression(x.args[2]) \subseteq OwnEffects(x).reads
        /\ x.op # "none" => \A i \in 2..Len(x.args) : ReadExpression(x.args[i]) \subseteq OwnEffects(x).reads
    BY <1>3, <1>8, <2>3, AssignReads
  <2>7. x.args[1].root # d /\ x.args[1].root \notin D /\ d \notin ReadIndices(x.args[1])
    BY <1>3, <2>6 DEF ReadAtom
  <2>8. \A i \in 2..Len(x.args) : d \notin ReadExpression(x.args[i])
    <3>1. CASE x.op = "none"
      <4>1. Len(x.args) = 2
        BY <1>8, <3>1 DEF WellFormed, WellFormedStatement, x
      <4> QED
        BY <1>3, <2>6, <3>1, <4>1
    <3>2. CASE x.op # "none"
      BY <1>3, <2>6, <3>2
    <3> QED
      BY <3>1, <3>2
  <2>5. Framed(st, RunAssign(st, x.op, x.args), RunAssign(a, x.op, x.args), d, v, D)
    BY <1>0, <2>2, <2>3, <2>6, <2>7, <2>8, AssignFrame DEF own
  <2> QED
    BY <2>4, <2>5
<1> QED
  BY <1>4, <1>5, <1>6, <1>7, <1>8

(* -- what a load does ---------------------------------------------------------------- *)
Loaded(st, x) ==
  LET value == ValueOf(st, x.args[1])
  IN [y \in IndexTuples(x.args[2].root) |->
        IF DOMAIN value = IndexTuples(x.args[2].root) THEN value[y] ELSE <<"mismatch">>]

\* A copy into a whole buffer; all it names has one name.
IsLoad(x, own) ==
  /\ x.op = "copy" /\ Len(x.args) = 2 /\ x.args[2].form = "name" /\ x.args \in Seq(Expressions)
  /\ x.args[2].root \in own \cap Buffers /\ ReadExpression(x.args[1]) \subseteq own \cap Names

LEMMA LoadIs ==
  ASSUME NEW own, NEW st, Good(st, own), st.live, NEW x, IsLoad(x, own)
  PROVE  Do(st, Act("call", x, 0)) = Store(st, x.args[2].root, Loaded(st, x))
<1> DEFINE e == x.args[2]
           d == e.root
           w == ValueOf(st, x.args[1])
           act == Act("call", x, 0)
<1>1. /\ x.op = "copy" /\ Len(x.args) = 2 /\ e.form = "name" /\ d \in Buffers /\ d \in own
  BY DEF IsLoad
<1>2. st.opaque = FALSE /\ d \in Names
  BY <1>1, GoodHas DEF Names
<1>3. st.env[d] = d
  BY <1>1, <1>2 DEF Good
<1>4. Content(st, d) = st.mem[d] /\ DOMAIN Content(st, d) = IndexTuples(d)
  <2>1. st.mem[d] = [y \in IndexTuples(d) |-> st.mem[d][y]]
    BY <1>1 DEF Good
  <2> QED
    BY <1>3, <2>1 DEF Content
<1>5. Do(st, act) = RunCall(st, "copy", x.args)
  <2>1. act.do = "call" /\ act.op = x.op /\ act.args = x.args
    BY ActIs
  <2> QED
    BY <1>1, <2>1, DoIs
<1>6. RunCall(st, "copy", x.args) = StoreTo(st, e, w)
  <2>1. "copy" \in DOMAIN Arity /\ Arity["copy"] = 2
    BY DEF Arity
  <2>2. BulkValue(st, "copy", x.args) = w
    BY DEF BulkValue
  <2> QED
    BY <1>1, <1>2, <2>1, <2>2 DEF RunCall, Arity, Barriers, ValueCalls
<1>7. \A y : Stored(st, e, w, y) = IF DOMAIN w = IndexTuples(d) THEN w[y] ELSE <<"mismatch">>
  BY <1>1, <1>4 DEF Stored
<1>8. [y \in DOMAIN Content(st, d) |-> Stored(st, e, w, y)] = Loaded(st, x)
  BY <1>4, <1>7 DEF Loaded
<1>9. StoreTo(st, e, w) = Store(st, d, Loaded(st, x))
  BY <1>1, <1>3, <1>8 DEF StoreTo
<1> QED
  BY <1>5, <1>6, <1>9

LEMMA LoadedSame ==
  ASSUME NEW st1, NEW st2, NEW x, AgreeOn(st1, st2, ReadExpression(x.args[1]))
  PROVE  Loaded(st1, x) = Loaded(st2, x)
BY ValueDepends DEF Loaded

LEMMA LoadKeepsGood ==
  ASSUME NEW own, NEW st, Good(st, own), NEW x, IsLoad(x, own)
  PROVE  /\ Good(Store(st, x.args[2].root, Loaded(st, x)), own)
         /\ Good(Do(st, Act("call", x, 0)), own)
<1>1. x.args[2].root \in Cells
  BY DEF IsLoad, Cells, Names
<1>2. Loaded(st, x) = [y \in IndexTuples(x.args[2].root) |-> Loaded(st, x)[y]]
  BY DEF Loaded
<1>3. Good(Store(st, x.args[2].root, Loaded(st, x)), own)
  BY <1>1, <1>2, GoodStore
<1> QED
  BY <1>3, LoadIs, DoneIs

(* -- a load and the acts it may cross ------------------------------------------------- *)
Swaps(first, second, own) == \A st : Good(st, own) => After(Do(st, first), second) = Do(After(st, second), first)

LEMMA CrossAct ==
  ASSUME NEW node, WellFormed(node), NEW s \in DOMAIN node, NEW act \in ActsOf(node[s]),
         NEW st, Good(st, Own(node)), NEW x, IsLoad(x, Own(node)),
         Crossed(node[s], x.args[2].root, ReadExpression(x.args[1]))
  PROVE  Do(Do(st, Act("call", x, 0)), act) = Do(Do(st, act), Act("call", x, 0))
<1> DEFINE L == Act("call", x, 0)
           own == Own(node)
           d == x.args[2].root
           D == ReadExpression(x.args[1])
           v == Loaded(st, x)
           t == Do(st, act)
<1>1. CASE ~st.live
  BY <1>1, DoneIs
<1>2. CASE st.live
  <2>1. Do(st, L) = Store(st, d, v)
    BY <1>2, LoadIs
  <2>2. Good(Store(st, d, v), own) /\ d \in own \cap Buffers /\ D \subseteq own \cap Names
    BY LoadKeepsGood DEF IsLoad
  <2> HIDE DEF v
  <2>3. Framed(st, t, Do(Store(st, d, v), act), d, v, D)
    BY <2>2, DoFrame
  <2>4. Good(t, own)
    BY DoKeepsGood
  <2> HIDE DEF t
  <2>5. t.live /\ Loaded(t, x) = v
    BY <1>2, <2>3, LoadedSame DEF Framed, v
  <2>6. Do(t, L) = Store(t, d, v)
    BY <2>4, <2>5, LoadIs
  <2> QED
    BY <2>1, <2>3, <2>6 DEF Framed, t
<1> QED
  BY <1>1, <1>2

LEMMA CrossActs ==
  ASSUME NEW A, NEW own, Keeps(A, own), NEW first,
         \A act \in A : \A st : Good(st, own) => Do(Do(st, first), act) = Do(Do(st, act), first),
         NEW acts \in Seq(A)
  PROVE  Swaps(first, acts, own)
<1> SUFFICES ASSUME NEW st, Good(st, own)
             PROVE  After(Do(st, first), acts) = Do(After(st, acts), first)
  BY DEF Swaps
<1> DEFINE n == Len(acts)
<1>1. n \in Nat /\ \A i \in 1..n : acts[i] \in A
  BY Elements
<1>2. PICK r : Run(r, st, acts) /\ After(st, acts) = r[n]
  BY <1>1, RunExists
<1> DEFINE r2 == [i \in 0..n |-> Do(r[i], first)]
<1>3. Run(r2, Do(st, first), acts)
  <2> HIDE DEF n
  <2> DEFINE S == {i \in 0..n : Good(r[i], own)}
  <2>1. 0 \in S
    BY <1>1, <1>2 DEF Run
  <2>2. ASSUME NEW i \in 1..n, i - 1 \in S PROVE i \in S
    <3>1. r[i] = Do(r[i - 1], acts[i]) /\ acts[i] \in A /\ i \in 0..n
      BY <1>1, <1>2 DEF Run, n
    <3> QED
      BY <2>2, <3>1 DEF Keeps
  <2> HIDE DEF S
  <2>3. 0..n \subseteq S
    BY <1>1, <2>1, <2>2, Upwards
  <2>4. r2[0] = Do(st, first)
    BY <1>1, <1>2 DEF Run
  <2>5. ASSUME NEW i \in 1..n PROVE r2[i] = Do(r2[i - 1], acts[i])
    <3>1. i \in 0..n /\ i - 1 \in 0..n /\ acts[i] \in A
      BY <1>1
    <3>2. Good(r[i - 1], own)
      BY <2>3, <3>1 DEF S
    <3>3. r[i] = Do(r[i - 1], acts[i])
      BY <1>2 DEF Run, n
    <3>4. Do(Do(r[i - 1], first), acts[i]) = Do(Do(r[i - 1], acts[i]), first)
      BY <3>1, <3>2
    <3> QED
      BY <3>1, <3>3, <3>4
  <2> QED
    BY <2>4, <2>5 DEF Run, n
<1>4. After(Do(st, first), acts) = r2[n]
  BY <1>1, <1>3, RunEnds
<1>5. r2[n] = Do(r[n], first)
  BY <1>1
<1> QED
  BY <1>2, <1>4, <1>5

LEMMA AllKeepGood ==
  ASSUME NEW node, WellFormed(node), NEW N, N \subseteq DOMAIN node
  PROVE  Keeps(AllActs(node, N), Own(node))
BY DoKeepsGood DEF Keeps, AllActs

(* A statement that the analysis lets a load cross does the same before it and  *)
(* after it, and so does everything below that statement.                       *)
LEMMA CrossStatement ==
  ASSUME NEW node, WellFormed(node), NEW taken, NEW c \in DOMAIN node,
         NEW x, IsLoad(x, Own(node)), x.args[1].root \in Globals, MayCross(x, StatementEffects(node)[c])
  PROVE  Swaps(Act("call", x, 0), Code(node, taken)[c], Own(node))
<1> DEFINE own == Own(node)
           d == x.args[2].root
           D == ReadExpression(x.args[1])
           L == Act("call", x, 0)
           N == {s \in DOMAIN node : MayCross(x, StatementEffects(node)[s])}
           A == AllActs(node, N)
<1>1. N \in SUBSET DOMAIN node /\ c \in N
  OBVIOUS
<1>2. ASSUME NEW s \in N PROVE Below(node[s]) \subseteq N /\ Crossed(node[s], d, D)
  <2> DEFINE all == {OwnEffects(node[s])} \cup {StatementEffects(node)[child] : child \in Below(node[s])}
  <2>1. StatementEffects(node)[s] = Merged(all) /\ s \in DOMAIN node
    <3> DEFINE own1 == OwnEffects(node[s])
               below == {StatementEffects(node)[child] : child \in Below(node[s])}
    <3>1. StatementEffects(node)[s] = WithBelow(own1, below)
      BY EffectsUnfold
    <3>2. ~StatementEffects(node)[s].unsupported
      BY <1>2 DEF MayCross, Opaque
    <3> HIDE DEF own1, below
    <3>3. StatementEffects(node)[s] = Merged({own1} \cup below)
      BY <3>1, <3>2 DEF WithBelow
    <3> QED
      BY <3>3 DEF own1, below
  <2>2. MayCross(x, Merged(all))
    BY <1>2, <2>1
  <2>3. ASSUME NEW e \in all PROVE MayCross(x, e)
    <3> HIDE DEF all
    <3>1. /\ e.reads \subseteq Merged(all).reads /\ e.writes \subseteq Merged(all).writes
          /\ ~Opaque(Merged(all)) => ~Opaque(e)
      BY MergedHas
    <3> QED
      BY <2>2, <3>1 DEF MayCross
  <2>4. Below(node[s]) \subseteq DOMAIN node
    BY <2>1, ListsBelow, SMTT(30)
  <2>5. Below(node[s]) \subseteq N
    BY <2>3, <2>4
  <2>6. MayCross(x, OwnEffects(node[s]))
    BY <2>3
  <2>7. D \subseteq {x.args[1].root} \cup Dependencies(x) /\ x.args[1].root \in Globals
    BY DEF Dependencies
  <2>8. Crossed(node[s], d, D)
    BY <2>6, <2>7 DEF MayCross, Crossed
  <2> QED
    BY <2>5, <2>8
<1>3. Keeps(A, own)
  BY <1>1, AllKeepGood
<1>4. ASSUME NEW act \in A, NEW st, Good(st, own) PROVE Do(Do(st, L), act) = Do(Do(st, act), L)
  <2>1. PICK s \in N : act \in ActsOf(node[s])
    BY <1>4 DEF AllActs
  <2>2. s \in DOMAIN node /\ Crossed(node[s], d, D)
    BY <1>2, <2>1
  <2> QED
    BY <1>4, <2>1, <2>2, CrossAct
<1>5. Code(node, taken)[c] \in Seq(A)
  BY <1>1, <1>2, CodeActs
<1> HIDE DEF A, own, L
<1>6. Swaps(L, Code(node, taken)[c], own)
  BY <1>3, <1>4, <1>5, CrossActs
<1> QED
  BY <1>6 DEF own, L

(* -- the same acts, for every good state ----------------------------------------------- *)
Same(p, q, own) == \A st : Good(st, own) => After(st, p) = After(st, q)

LEMMA BothSame ==
  ASSUME NEW A, NEW own, Keeps(A, own), NEW p1 \in Seq(A), NEW p2 \in Seq(A), NEW q1 \in Seq(A),
         NEW q2 \in Seq(A), Same(p1, p2, own), Same(q1, q2, own)
  PROVE  Same(p1 \o q1, p2 \o q2, own)
<1> SUFFICES ASSUME NEW st, Good(st, own) PROVE After(st, p1 \o q1) = After(st, p2 \o q2)
  BY DEF Same
<1>1. After(st, p1 \o q1) = After(After(st, p1), q1)
  BY AfterBoth
<1>2. After(st, p2 \o q2) = After(After(st, p2), q2)
  BY AfterBoth
<1>3. Good(After(st, p1), own)
  BY AfterKeepsGood
<1> QED
  BY <1>1, <1>2, <1>3 DEF Same

LEMMA RoundsExist ==
  ASSUME NEW n \in Nat, NEW A, NEW q \in [1..n -> Seq(A)], NEW own, Keeps(A, own), NEW st, Good(st, own)
  PROVE  \E r : /\ Rounds(r, st, q, n) /\ After(st, FlattenSeq(q)) = r[n]
                /\ \A j \in 0..n : Good(r[j], own)
<1>1. PICK r : Rounds(r, st, q, n) /\ After(st, FlattenSeq(q)) = r[n]
  BY AfterAll
<1> DEFINE S == {j \in 0..n : Good(r[j], own)}
<1>2. 0 \in S
  BY <1>1 DEF Rounds
<1>3. ASSUME NEW j \in 1..n, j - 1 \in S PROVE j \in S
  <2>1. r[j] = After(r[j - 1], q[j]) /\ q[j] \in Seq(A) /\ j \in 0..n /\ Good(r[j - 1], own)
    BY <1>1, <1>3 DEF Rounds
  <2> QED
    BY <2>1, AfterKeepsGood
<1> HIDE DEF S
<1>4. 0..n \subseteq S
  BY <1>2, <1>3, Upwards
<1> QED
  BY <1>1, <1>4 DEF S

LEMMA RoundsEnd ==
  ASSUME NEW n \in Nat, NEW A, NEW q \in [1..n -> Seq(A)], NEW st
  PROVE  \A r : Rounds(r, st, q, n) => After(st, FlattenSeq(q)) = r[n]
<1>1. PICK c : Rounds(c, st, q, n) /\ After(st, FlattenSeq(q)) = c[n]
  BY AfterAll, ZenonT(60)
<1>2. ASSUME NEW r, Rounds(r, st, q, n) PROVE r[n] = c[n]
  <2> DEFINE S == {i \in 0..n : r[i] = c[i]}
  <2>1. 0 \in S
    BY <1>1, <1>2 DEF Rounds
  <2>2. ASSUME NEW i \in 1..n, i - 1 \in S PROVE i \in S
    BY <1>1, <1>2, <2>2 DEF Rounds
  <2> HIDE DEF S
  <2>3. 0..n \subseteq S
    BY <2>1, <2>2, Upwards
  <2> QED
    BY <2>3 DEF S
<1> QED
  BY <1>1, <1>2

LEMMA AllSame ==
  ASSUME NEW n \in Nat, NEW A, NEW p \in [1..n -> Seq(A)], NEW q \in [1..n -> Seq(A)],
         NEW own, Keeps(A, own), \A j \in 1..n : Same(p[j], q[j], own)
  PROVE  Same(FlattenSeq(p), FlattenSeq(q), own)
<1> SUFFICES ASSUME NEW st, Good(st, own) PROVE After(st, FlattenSeq(p)) = After(st, FlattenSeq(q))
  BY DEF Same
<1>1. PICK r : /\ Rounds(r, st, p, n) /\ After(st, FlattenSeq(p)) = r[n]
               /\ \A j \in 0..n : Good(r[j], own)
  BY RoundsExist
<1>2. Rounds(r, st, q, n)
  <2>1. r[0] = st
    BY <1>1 DEF Rounds
  <2>2. ASSUME NEW j \in 1..n PROVE r[j] = After(r[j - 1], q[j])
    <3>1. r[j] = After(r[j - 1], p[j])
      BY <1>1 DEF Rounds
    <3>2. j - 1 \in 0..n
      OBVIOUS
    <3> QED
      BY <1>1, <3>1, <3>2 DEF Same
  <2> QED
    BY <2>1, <2>2 DEF Rounds
<1>3. \A s : Rounds(s, st, q, n) => After(st, FlattenSeq(q)) = s[n]
  BY RoundsEnd
<1> QED
  BY <1>1, <1>2, <1>3

LEMMA AroundSame ==
  ASSUME NEW x, Turns(x) \in Nat, NEW A, ActsOf(x) \subseteq A, NEW own, Keeps(A, own),
         NEW m \in Nat, NEW p \in [1..m -> Seq(A)], NEW q \in [1..m -> Seq(A)],
         Same(FlattenSeq(p), FlattenSeq(q), own)
  PROVE  Same(Around(x, p), Around(x, q), own)
<1>1. /\ FlattenSeq(p) \in Seq(A) /\ FlattenSeq(q) \in Seq(A)
      /\ AllTurns(x, p) \in [1..Turns(x) -> Seq(A)] /\ AllTurns(x, q) \in [1..Turns(x) -> Seq(A)]
      /\ FlattenSeq(AllTurns(x, p)) \in Seq(A) /\ FlattenSeq(AllTurns(x, q)) \in Seq(A)
      /\ Opening(x) \o FlattenSeq(AllTurns(x, p)) \in Seq(A)
      /\ Opening(x) \o FlattenSeq(AllTurns(x, q)) \in Seq(A)
  BY AroundActs
<1>2. /\ Opening(x) \in Seq(A) /\ Closing(x) \in Seq(A)
      /\ \A n \in Nat \ {0} : TurnOpening(x, n) \in Seq(A)
  BY EdgesAreActs
<1>3. ASSUME NEW n \in 1..Turns(x) PROVE Same(AllTurns(x, p)[n], AllTurns(x, q)[n], own)
  <2>1. TurnOpening(x, n) \in Seq(A)
    BY <1>2
  <2>2. Same(TurnOpening(x, n), TurnOpening(x, n), own)
    BY DEF Same
  <2>3. Same(OneTurn(x, p, n), OneTurn(x, q, n), own)
    BY <1>1, <2>1, <2>2, BothSame DEF OneTurn
  <2> QED
    BY <2>3 DEF AllTurns
<1>4. Same(FlattenSeq(AllTurns(x, p)), FlattenSeq(AllTurns(x, q)), own)
  BY <1>1, <1>3, AllSame
<1>5. Same(Opening(x), Opening(x), own) /\ Same(Closing(x), Closing(x), own)
  BY DEF Same
<1>6. Same(Opening(x) \o FlattenSeq(AllTurns(x, p)), Opening(x) \o FlattenSeq(AllTurns(x, q)), own)
  BY <1>1, <1>2, <1>4, <1>5, BothSame
<1>7. Same(Opening(x) \o FlattenSeq(AllTurns(x, p)) \o Closing(x),
           Opening(x) \o FlattenSeq(AllTurns(x, q)) \o Closing(x), own)
  BY <1>1, <1>2, <1>5, <1>6, BothSame
<1> QED
  BY <1>7, AroundIs

(* -- one act moved up -------------------------------------------------------------------- *)
(* q2 is q with its part i moved to the place b.                              *)
MovedUp(q, q2, n, b, i) ==
  /\ i \in 1..n /\ b \in 1..(i - 1) /\ q2[b] = q[i]
  /\ \A j \in 1..n : j < b \/ i < j => q2[j] = q[j]
  /\ \A j \in 1..n : b < j /\ j <= i => q2[j] = q[j - 1]

LEMMA MovedSame ==
  ASSUME NEW n \in Nat, NEW A, NEW q \in [1..n -> Seq(A)], NEW q2 \in [1..n -> Seq(A)],
         NEW own, Keeps(A, own), NEW b, NEW i, MovedUp(q, q2, n, b, i),
         NEW act, q[i] = <<act>>,
         \A j \in b..(i - 1) : Swaps(act, q[j], own)
  PROVE  Same(FlattenSeq(q2), FlattenSeq(q), own)
<1> SUFFICES ASSUME NEW st, Good(st, own) PROVE After(st, FlattenSeq(q2)) = After(st, FlattenSeq(q))
  BY DEF Same
<1>0. i \in 1..n /\ b \in 1..(i - 1)
  BY DEF MovedUp
<1>1. PICK r : /\ Rounds(r, st, q, n) /\ After(st, FlattenSeq(q)) = r[n]
               /\ \A j \in 0..n : Good(r[j], own)
  BY RoundsExist
<1> DEFINE r2 == [j \in 0..n |-> IF b <= j /\ j < i THEN Do(r[j - 1], act) ELSE r[j]]
<1>2. \A j \in 1..n : r[j] = After(r[j - 1], q[j])
  BY <1>1 DEF Rounds
<1>3. r2[0] = st
  BY <1>0, <1>1 DEF Rounds
<1>4. ASSUME NEW j \in 1..n PROVE r2[j] = After(r2[j - 1], q2[j])
  <2>0. j \in 0..n /\ j - 1 \in 0..n /\ j \in Int /\ b \in Int /\ i \in Int
    BY <1>0
  <2>1. CASE j < b \/ i < j
    <3>1. q2[j] = q[j]
      BY <2>1 DEF MovedUp
    <3>2. r2[j] = r[j] /\ r2[j - 1] = r[j - 1]
      BY <2>0, <2>1, <1>0
    <3> QED
      BY <1>2, <3>1, <3>2
  <2>2. CASE j = b
    <3>1. q2[j] = <<act>>
      BY <2>2 DEF MovedUp
    <3>2. r2[j] = Do(r[j - 1], act) /\ r2[j - 1] = r[j - 1]
      BY <1>0, <2>0, <2>2
    <3> QED
      BY <3>1, <3>2, AfterOne
  <2>3. CASE b < j /\ j < i
    <3>1. q2[j] = q[j - 1]
      BY <2>0, <2>3 DEF MovedUp
    <3>2. r2[j] = Do(r[j - 1], act) /\ r2[j - 1] = Do(r[j - 2], act)
      <4>1. b <= j - 1 /\ j - 1 < i /\ (j - 1) - 1 = j - 2
        BY <2>0, <2>3
      <4> QED
        BY <2>0, <2>3, <4>1
    <3>3. j - 1 \in b..(i - 1) /\ j - 1 \in 1..n /\ (j - 1) - 1 = j - 2 /\ j - 2 \in 0..n
      BY <1>0, <2>0, <2>3
    <3>4. r[j - 1] = After(r[j - 2], q[j - 1])
      BY <1>2, <3>3
    <3>5. Swaps(act, q[j - 1], own) /\ Good(r[j - 2], own)
      BY <1>1, <3>3
    <3>6. After(Do(r[j - 2], act), q[j - 1]) = Do(After(r[j - 2], q[j - 1]), act)
      BY <3>5 DEF Swaps
    <3> QED
      BY <3>1, <3>2, <3>4, <3>6
  <2>4. CASE j = i
    <3>1. q2[j] = q[j - 1]
      BY <1>0, <2>0, <2>4 DEF MovedUp
    <3>2. r2[j] = r[j] /\ r2[j - 1] = Do(r[j - 2], act)
      <4>1. b <= j - 1 /\ j - 1 < i /\ (j - 1) - 1 = j - 2
        BY <1>0, <2>0, <2>4
      <4> QED
        BY <2>0, <2>4, <4>1
    <3>3. j - 1 \in b..(i - 1) /\ j - 1 \in 1..n /\ (j - 1) - 1 = j - 2 /\ j - 2 \in 0..n
      BY <1>0, <2>0, <2>4
    <3>4. r[j - 1] = After(r[j - 2], q[j - 1])
      BY <1>2, <3>3
    <3>5. Swaps(act, q[j - 1], own) /\ Good(r[j - 2], own)
      BY <1>1, <3>3
    <3>6. After(Do(r[j - 2], act), q[j - 1]) = Do(After(r[j - 2], q[j - 1]), act)
      BY <3>5 DEF Swaps
    <3>7. r[j] = Do(r[j - 1], act)
      BY <1>2, <2>4, AfterOne
    <3> QED
      BY <3>1, <3>2, <3>4, <3>6, <3>7
  <2> QED
    BY <2>0, <2>1, <2>2, <2>3, <2>4
<1>5. r2[n] = r[n]
  BY <1>0
<1> HIDE DEF r2
<1>6. Rounds(r2, st, q2, n)
  BY <1>3, <1>4 DEF Rounds
<1>7. \A s : Rounds(s, st, q2, n) => After(st, FlattenSeq(q2)) = s[n]
  BY RoundsEnd
<1>8. After(st, FlattenSeq(q2)) = r2[n]
  BY <1>6, <1>7
<1> QED
  BY <1>1, <1>5, <1>8

LEMMA GreatestOf ==
  ASSUME NEW n \in Nat, NEW T, T \subseteq 1..n, T # {}
  PROVE  Max(T) \in T /\ \A y \in T : y <= Max(T)
<1> DEFINE U == {n - y : y \in T}
<1>1. U \subseteq Nat /\ U # {}
  <2>1. \A y \in T : y \in 1..n /\ n - y \in Nat
    OBVIOUS
  <2> QED
    BY <2>1
<1>2. PICK u \in U : \A z \in U : u <= z
  BY <1>1, LeastOfSet
<1>3. PICK y \in T : u = n - y
  BY <1>2
<1>4. \A z \in T : y >= z
  <2>1. ASSUME NEW z \in T PROVE y >= z
    <3>1. n - z \in U /\ z \in 1..n /\ y \in 1..n
      BY <1>3
    <3>2. u <= n - z
      BY <1>2, <3>1
    <3> QED
      BY <1>3, <3>1, <3>2
  <2> QED
    BY <2>1
<1>5. Max(T) \in T /\ \A z \in T : Max(T) >= z
  BY <1>3, <1>4 DEF Max
<1> QED
  <2>1. ASSUME NEW z \in T PROVE z <= Max(T)
    <3>0. z \in 1..n /\ Max(T) \in 1..n
      BY <1>5, <2>1
    <3>1. Max(T) >= z
      BY <1>5
    <3> HIDE DEF Max
    <3> QED
      BY <3>0, <3>1
  <2> QED
    BY <1>5, <2>1

LEMMA PiecesMoved ==
  ASSUME NEW S, NEW list \in Seq(S), NEW i \in 1..Len(list), NEW b \in 1..(i - 1)
  PROVE  LET m == SubSeq(list, 1, b - 1) \o SubSeq(list, i, i)
                    \o SubSeq(list, b, i - 1) \o SubSeq(list, i + 1, Len(list))
         IN m \in Seq(S) /\ Len(m) = Len(list) /\ MovedUp(list, m, Len(list), b, i)
<1> DEFINE n == Len(list)
           p1 == SubSeq(list, 1, b - 1)
           p2 == SubSeq(list, i, i)
           p3 == SubSeq(list, b, i - 1)
           p4 == SubSeq(list, i + 1, n)
<1>0. n \in Nat /\ i \in Int /\ b \in Int /\ 1 <= b /\ b < i /\ i <= n
  OBVIOUS
<1>a. \A j \in 1..n : list[j] \in S
  OBVIOUS
<1>1. p1 \in Seq(S) /\ Len(p1) = b - 1 /\ \A j \in 1..(b - 1) : p1[j] = list[j]
  <2>1. \A j \in 1..(b - 1) : list[j] \in S
    BY <1>0, <1>a
  <2>2. b - 1 \in Int
    BY <1>0
  <2>3. /\ p1 \in Seq(S) /\ Len(p1) = IF 1 <= b - 1 THEN (b - 1) - 1 + 1 ELSE 0
        /\ \A j \in 1..((b - 1) - 1 + 1) : p1[j] = list[1 + j - 1]
    BY <2>1, <2>2, SubSeqProperties
  <2> HIDE DEF p1
  <2> QED
    BY <1>0, <2>3
<1>2. p2 \in Seq(S) /\ Len(p2) = 1 /\ p2[1] = list[i]
  <2>1. \A j \in i..i : list[j] \in S
    BY <1>0, <1>a
  <2>3. /\ p2 \in Seq(S) /\ Len(p2) = IF i <= i THEN i - i + 1 ELSE 0
        /\ \A j \in 1..(i - i + 1) : p2[j] = list[i + j - 1]
    BY <1>0, <2>1, SubSeqProperties
  <2> HIDE DEF p2
  <2> QED
    BY <1>0, <2>3
<1>3. p3 \in Seq(S) /\ Len(p3) = i - b /\ \A j \in 1..(i - b) : p3[j] = list[b + j - 1]
  <2>1. \A j \in b..(i - 1) : list[j] \in S
    BY <1>0, <1>a
  <2>2. i - 1 \in Int
    BY <1>0
  <2>3. /\ p3 \in Seq(S) /\ Len(p3) = IF b <= i - 1 THEN (i - 1) - b + 1 ELSE 0
        /\ \A j \in 1..((i - 1) - b + 1) : p3[j] = list[b + j - 1]
    BY <1>0, <2>1, <2>2, SubSeqProperties
  <2> HIDE DEF p3
  <2> QED
    BY <1>0, <2>3
<1>4. p4 \in Seq(S) /\ Len(p4) = n - i /\ \A j \in 1..(n - i) : p4[j] = list[i + j]
  <2>1. \A j \in (i + 1)..n : list[j] \in S
    BY <1>0, <1>a
  <2>2. i + 1 \in Int
    BY <1>0
  <2>3. /\ p4 \in Seq(S) /\ Len(p4) = IF i + 1 <= n THEN n - (i + 1) + 1 ELSE 0
        /\ \A j \in 1..(n - (i + 1) + 1) : p4[j] = list[(i + 1) + j - 1]
    BY <1>0, <2>1, <2>2, SubSeqProperties
  <2> HIDE DEF p4
  <2>4. \A j \in 1..(n - i) : (i + 1) + j - 1 = i + j
    BY <1>0
  <2> QED
    BY <1>0, <2>3, <2>4
<1> DEFINE q2 == p1 \o p2
           q3 == q2 \o p3
           q4 == q3 \o p4
<1> HIDE DEF p1, p2, p3, p4, n
<1>5. /\ q2 \in Seq(S) /\ Len(q2) = b
      /\ \A j \in 1..b : q2[j] = IF j <= b - 1 THEN list[j] ELSE list[i]
  <2>1. /\ q2 \in Seq(S) /\ Len(q2) = Len(p1) + Len(p2)
        /\ \A j \in 1..(Len(p1) + Len(p2)) : q2[j] = IF j <= Len(p1) THEN p1[j] ELSE p2[j - Len(p1)]
    BY <1>1, <1>2, ConcatProperties
  <2> QED
    BY <1>0, <1>1, <1>2, <2>1
<1> HIDE DEF q2
<1>6. /\ q3 \in Seq(S) /\ Len(q3) = i
      /\ \A j \in 1..i : q3[j] = IF j <= b THEN q2[j] ELSE list[j - 1]
  <2>1. /\ q3 \in Seq(S) /\ Len(q3) = Len(q2) + Len(p3)
        /\ \A j \in 1..(Len(q2) + Len(p3)) : q3[j] = IF j <= Len(q2) THEN q2[j] ELSE p3[j - Len(q2)]
    BY <1>3, <1>5, ConcatProperties
  <2>2. ASSUME NEW j \in 1..i PROVE q3[j] = IF j <= b THEN q2[j] ELSE list[j - 1]
    <3>1. q3[j] = IF j <= b THEN q2[j] ELSE p3[j - b]
      BY <1>0, <1>3, <1>5, <2>1, SMTT(30)
    <3>2. ASSUME ~(j <= b) PROVE p3[j - b] = list[j - 1]
      <4>1. j - b \in 1..(i - b) /\ b + (j - b) - 1 = j - 1
        BY <1>0, <3>2
      <4> QED
        BY <1>3, <4>1
    <3> QED
      BY <3>1, <3>2
  <2> QED
    BY <1>0, <1>3, <1>5, <2>1, <2>2
<1> HIDE DEF q3
<1>7. /\ q4 \in Seq(S) /\ Len(q4) = n
      /\ \A j \in 1..n : q4[j] = IF j <= i THEN q3[j] ELSE list[j]
  <2>1. /\ q4 \in Seq(S) /\ Len(q4) = Len(q3) + Len(p4)
        /\ \A j \in 1..(Len(q3) + Len(p4)) : q4[j] = IF j <= Len(q3) THEN q3[j] ELSE p4[j - Len(q3)]
    BY <1>4, <1>6, ConcatProperties, ZenonT(60)
  <2>2. ASSUME NEW j \in 1..n PROVE q4[j] = IF j <= i THEN q3[j] ELSE list[j]
    <3>1. q4[j] = IF j <= i THEN q3[j] ELSE p4[j - i]
      BY <1>0, <1>4, <1>6, <2>1, SMTT(30)
    <3>2. ASSUME ~(j <= i) PROVE p4[j - i] = list[j]
      <4>1. j - i \in 1..(n - i) /\ i + (j - i) = j
        BY <1>0, <3>2
      <4> QED
        BY <1>4, <4>1
    <3> QED
      BY <3>1, <3>2
  <2>3. Len(q4) = n
    BY <1>0, <1>4, <1>6, <2>1
  <2> QED
    BY <2>1, <2>2, <2>3
<1> HIDE DEF q4
<1>8. MovedUp(list, q4, n, b, i)
  <2>1. q4[b] = list[i]
    <3>1. b \in 1..n /\ b \in 1..i /\ b \in 1..b /\ ~(b <= b - 1)
      BY <1>0
    <3> QED
      BY <1>0, <1>5, <1>6, <1>7, <3>1
  <2>2. ASSUME NEW j \in 1..n, j < b \/ i < j PROVE q4[j] = list[j]
    BY <1>0, <1>5, <1>6, <1>7, <2>2
  <2>3. ASSUME NEW j \in 1..n, b < j, j <= i PROVE q4[j] = list[j - 1]
    <3>1. j \in 1..i /\ ~(j <= b)
      BY <1>0, <2>3
    <3> QED
      BY <1>0, <1>6, <1>7, <2>3, <3>1
  <2>4. i \in 1..n /\ b \in 1..(i - 1)
    BY <1>0
  <2> QED
    BY <2>1, <2>2, <2>3, <2>4 DEF MovedUp
<1> QED
  BY <1>7, <1>8 DEF q4, q3, q2, p1, p2, p3, p4, n

(* -- what the analysis found ----------------------------------------------------------- *)
LEMMA TargetIsMoved ==
  ASSUME NEW node, NEW S, NEW list \in Seq(S), NEW i \in PrefetchTargets(node, list)
  PROVE  LET b == InsertionIndex(node, list, i)
             m == MoveLines(node, list, i, b)
         IN /\ i \in 1..Len(list) /\ b \in 1..(i - 1)
            /\ m \in Seq(S) /\ Len(m) = Len(list) /\ MovedUp(list, m, Len(list), b, i)
            /\ IsGlobalToSharedCopy(node[list[i]])
            /\ \A j \in b..(i - 1) : MayCross(node[list[i]], StatementEffects(node)[list[j]])
<1> DEFINE n == Len(list)
           b == InsertionIndex(node, list, i)
           m == MoveLines(node, list, i, b)
           prior == Max(PriorCopies(node, list, i))
           writers == {j \in (prior + 1)..(i - 1) :
                         StatementEffects(node)[list[j]].writes \cap Dependencies(node[list[i]]) # {}}
<1>1. n \in Nat /\ DOMAIN list = 1..n
  BY Elements
<1>2. /\ i \in 1..n /\ IsGlobalToSharedCopy(node[list[i]]) /\ IsIsolated(node, list, i)
      /\ PriorCopies(node, list, i) # {} /\ b < i
      /\ \A j \in b..(i - 1) : MayCross(node[list[i]], StatementEffects(node)[list[j]])
      /\ ~node[list[b]].glued
  BY <1>1 DEF PrefetchTargets
<1>3. i \in Int /\ 1 <= i /\ i <= n /\ i - 1 \in Nat
  BY <1>1, <1>2
<1>4. prior \in 1..(i - 1)
  <2>1. PriorCopies(node, list, i) \subseteq 1..(i - 1)
    BY DEF PriorCopies
  <2>2. Max(PriorCopies(node, list, i)) \in PriorCopies(node, list, i)
    BY <1>2, <1>3, <2>1, GreatestOf
  <2> QED
    BY <2>1, <2>2
<1>5. b = Max(writers \cup {prior}) + 1
  BY DEF InsertionIndex
<1> HIDE DEF prior
<1>6. b \in 1..(i - 1)
  <2>1. writers \cup {prior} \subseteq 1..(i - 1) /\ writers \cup {prior} # {}
    BY <1>3, <1>4
  <2> HIDE DEF writers
  <2>2. Max(writers \cup {prior}) \in writers \cup {prior}
    BY <1>3, <2>1, GreatestOf
  <2>3. Max(writers \cup {prior}) \in 1..(i - 1)
    BY <2>1, <2>2
  <2> HIDE DEF b
  <2> QED
    BY <1>2, <1>3, <1>5, <2>3
<1> HIDE DEF b
<1>7. LineStart(node, list, b) = b
  <2> DEFINE T == {j \in 1..b : j = 1 \/ ~node[list[j]].glued}
  <2>1. b \in T /\ T \subseteq 1..b /\ b \in Nat
    BY <1>2, <1>3, <1>6
  <2> HIDE DEF T
  <2>2. Max(T) \in T /\ \A y \in T : y <= Max(T)
    BY <2>1, GreatestOf
  <2>3. Max(T) = b
    <3>1. Max(T) \in 1..b /\ b <= Max(T)
      BY <2>1, <2>2
    <3> HIDE DEF Max
    <3> QED
      BY <2>1, <3>1
  <2> QED
    BY <2>3 DEF LineStart, T
<1>8. LineStart(node, list, i) = i
  <2> DEFINE T == {j \in 1..i : j = 1 \/ ~node[list[j]].glued}
  <2>1. i \in T /\ T \subseteq 1..i /\ i \in Nat
    BY <1>2, <1>3 DEF IsIsolated
  <2> HIDE DEF T
  <2>2. Max(T) \in T /\ \A y \in T : y <= Max(T)
    BY <2>1, GreatestOf
  <2>3. Max(T) = i
    <3>1. Max(T) \in 1..i /\ i <= Max(T)
      BY <2>1, <2>2
    <3> QED
      BY <2>1, <3>1
  <2> QED
    BY <2>3 DEF LineStart, T
<1>9. LineEnd(node, list, i) = i
  <2> DEFINE T == {j \in i..n : \A k \in (i + 1)..j : node[list[k]].glued}
  <2>1. T = {i}
    <3>1. i \in T
      BY <1>1, <1>3
    <3>2. ASSUME NEW j \in T PROVE j = i
      <4>1. j \in i..n /\ \A k \in (i + 1)..j : node[list[k]].glued
        OBVIOUS
      <4>2. ASSUME j # i PROVE FALSE
        <5>1. i + 1 \in (i + 1)..j /\ i < n
          BY <1>1, <1>3, <4>1, <4>2
        <5>2. ~node[list[i + 1]].glued
          BY <1>2, <5>1 DEF IsIsolated
        <5> QED
          BY <4>1, <5>1, <5>2
      <4> QED
        BY <4>2
    <3> QED
      BY <3>1, <3>2
  <2> HIDE DEF T
  <2>2. T \subseteq 1..n /\ T # {}
    BY <1>2, <2>1
  <2>3. Max(T) \in T
    BY <1>1, <2>2, GreatestOf
  <2> QED
    BY <2>1, <2>3 DEF LineEnd, T
<1>10. m = SubSeq(list, 1, b - 1) \o SubSeq(list, i, i)
             \o SubSeq(list, b, i - 1) \o SubSeq(list, i + 1, Len(list))
  BY <1>7, <1>8, <1>9 DEF MoveLines
<1>11. LET p == SubSeq(list, 1, b - 1) \o SubSeq(list, i, i)
                  \o SubSeq(list, b, i - 1) \o SubSeq(list, i + 1, Len(list))
       IN p \in Seq(S) /\ Len(p) = Len(list) /\ MovedUp(list, p, Len(list), b, i)
  BY <1>2, <1>6, PiecesMoved
<1> HIDE DEF m
<1>12. m \in Seq(S) /\ Len(m) = Len(list) /\ MovedUp(list, m, Len(list), b, i)
  BY <1>10, <1>11
<1> QED
  BY <1>2, <1>6, <1>12 DEF b, m

LEMMA TrackedHaveOneName ==
  ASSUME NEW node, WellFormed(node), ~HasBufferAliasing(node)
  PROVE  TrackedBuffers \subseteq Own(node)
<1>1. TrackedBuffers \subseteq Buffers /\ Buffers \cap Views = {} /\ Buffers \subseteq Names
  BY KernelAssumption DEF TrackedBuffers, Buffers, Names
<1> SUFFICES ASSUME NEW b \in TrackedBuffers, b \in Bound(node) PROVE FALSE
  BY <1>1 DEF Own
<1>2. PICK x \in ToSet(node) : Binds(x) /\ \/ b = x.args[1].root
                                           \/ b = x.args[2].root /\ Len(x.args) > 1 /\ x.args[2].form = "name"
  BY <1>1 DEF Bound
<1>3. PICK s \in DOMAIN node : x = node[s]
  BY DEF ToSet
<1>4. x.kind = "assign" /\ x.args[1].form = "name"
  BY <1>2 DEF Binds
<1>5. b # x.args[1].root
  BY <1>2, <1>4 DEF HasBufferAliasing
<1>6. b = x.args[2].root /\ Len(x.args) > 1 /\ x.args[2].form = "name"
  BY <1>2, <1>5
<1>7. x.args[2] \in ToSet(Tail(x.args))
  <2>1. x.args \in Seq(Expressions)
    BY <1>3, <1>4 DEF WellFormed, WellFormedStatement
  <2>2. 1 \in DOMAIN Tail(x.args) /\ Tail(x.args)[1] = x.args[2]
    BY <1>6, <2>1
  <2> QED
    BY <2>2 DEF ToSet
<1>8. BareBuffer(x.args[2])
  BY <1>6 DEF BareBuffer
<1> QED
  BY <1>2, <1>4, <1>7, <1>8 DEF HasBufferAliasing

LEMMA LoadsAreLoads ==
  ASSUME NEW node, WellFormed(node), ~HasBufferAliasing(node), Unaliased(node),
         NEW s \in DOMAIN node, IsGlobalToSharedCopy(node[s])
  PROVE  IsLoad(node[s], Own(node))
<1> DEFINE x == node[s]
<1>1. /\ x.kind = "call" /\ Len(x.args) = 2 /\ x.args[1].root \in Globals /\ x.args[2].root \in Shared
  BY DEF IsGlobalToSharedCopy
<1>2. x.args \in Seq(Expressions)
  BY <1>1 DEF WellFormed, WellFormedStatement
<1>3. x.args[1] \in Expressions
  BY <1>1, <1>2
<1>4. ReadExpression(x.args[1]) \subseteq Names
  BY <1>3, ReadsAreNames
<1>5. Dependencies(x) \cap Bound(node) = {}
  BY DEF Unaliased
<1>6. x.args[1].root \in Own(node) /\ x.args[2].root \in Own(node)
  BY <1>1, TrackedHaveOneName DEF TrackedBuffers
<1>7. ReadExpression(x.args[1]) \subseteq Own(node)
  BY <1>4, <1>5, <1>6 DEF Own, Dependencies
<1>8. x.args[2].root \in Buffers
  BY <1>1 DEF Buffers
<1> QED
  BY <1>2, <1>4, <1>6, <1>7, <1>8 DEF IsLoad, IsGlobalToSharedCopy

(* -- two tables that differ in one statement --------------------------------------------- *)
\* The tables differ in statement s only.
DifferAt(node, node2, s) ==
  /\ WellFormed(node) /\ WellFormed(node2) /\ s \in DOMAIN node
  /\ DOMAIN node2 = DOMAIN node
  /\ \A t \in DOMAIN node \ {s} : node2[t] = node[t]

LEMMA BoundSame ==
  ASSUME NEW node, NEW node2, DOMAIN node2 = DOMAIN node,
         \A t \in DOMAIN node : /\ Binds(node2[t]) <=> Binds(node[t])
                                /\ Binds(node[t]) => node2[t].args = node[t].args
  PROVE  Bound(node2) = Bound(node) /\ Own(node2) = Own(node)
<1> DEFINE B(nd) == {x \in ToSet(nd) : Binds(x)}
           first(nd) == {x.args[1].root : x \in B(nd)}
           second(nd) == {x.args[2].root : x \in {y \in B(nd) : Len(y.args) > 1 /\ y.args[2].form = "name"}}
<1>1. ASSUME NEW x \in B(node) PROVE \E y \in B(node2) : y.args = x.args
  BY DEF ToSet
<1>2. ASSUME NEW x \in B(node2) PROVE \E y \in B(node) : y.args = x.args
  BY DEF ToSet
<1> HIDE DEF B
<1>3. first(node2) = first(node)
  <2>1. ASSUME NEW b \in first(node) PROVE b \in first(node2)
    BY <1>1
  <2>2. ASSUME NEW b \in first(node2) PROVE b \in first(node)
    BY <1>2
  <2> QED
    BY <2>1, <2>2
<1>4. second(node2) = second(node)
  <2>1. ASSUME NEW b \in second(node) PROVE b \in second(node2)
    BY <1>1
  <2>2. ASSUME NEW b \in second(node2) PROVE b \in second(node)
    BY <1>2
  <2> QED
    BY <2>1, <2>2
<1>5. Bound(node) = Views \cup first(node) \cup second(node)
  BY DEF Bound, B
<1>6. Bound(node2) = Views \cup first(node2) \cup second(node2)
  BY DEF Bound, B
<1> QED
  BY <1>3, <1>4, <1>5, <1>6 DEF Own

LEMMA MoreActs ==
  ASSUME NEW A, NEW B, A \subseteq B, NEW p \in Seq(A)
  PROVE  p \in Seq(B)
OBVIOUS

(* What runs in every part of a list.                                        *)
Parts(node, taken, list) == [j \in DOMAIN list |-> Code(node, taken)[list[j]]]

LEMMA PartsAre ==
  ASSUME NEW node, WellFormed(node), NEW taken, NEW A, AllActs(node, DOMAIN node) \subseteq A,
         NEW list \in Seq(DOMAIN node)
  PROVE  Len(list) \in Nat /\ Parts(node, taken, list) \in [1..Len(list) -> Seq(A)]
<1>1. /\ Len(list) \in Nat /\ DOMAIN list = 1..Len(list)
      /\ \A j \in DOMAIN list : list[j] \in DOMAIN node
  BY Elements
<1>2. \A s \in DOMAIN node : Below(node[s]) \subseteq DOMAIN node
  BY ListsBelow
<1>3. \A s \in DOMAIN node : Code(node, taken)[s] \in Seq(AllActs(node, DOMAIN node))
  BY <1>2, CodeActs
<1>4. \A s \in DOMAIN node : Code(node, taken)[s] \in Seq(A)
  BY <1>3, MoreActs
<1> QED
  BY <1>1, <1>4 DEF Parts

LEMMA TableSame ==
  ASSUME NEW node, NEW node2, NEW s, DifferAt(node, node2, s), NEW taken, NEW own,
         NEW A, Keeps(A, own), AllActs(node, DOMAIN node) \subseteq A,
         AllActs(node2, DOMAIN node2) \subseteq A,
         (\A t \in (s + 1)..Len(node) : Same(Code(node2, taken)[t], Code(node, taken)[t], own))
           => Same(Code(node2, taken)[s], Code(node, taken)[s], own)
  PROVE  \A t \in DOMAIN node : Same(Code(node2, taken)[t], Code(node, taken)[t], own)
<1> DEFINE n == Len(node)
           T == {t \in 1..n : Same(Code(node2, taken)[t], Code(node, taken)[t], own)}
<1>1. WellFormed(node) /\ WellFormed(node2) /\ s \in DOMAIN node /\ DOMAIN node2 = DOMAIN node
  BY DEF DifferAt
<1>2. n \in Nat /\ DOMAIN node = 1..n
  BY <1>1, ListsBelow
<1>3. ASSUME NEW t \in 1..n, (t + 1)..n \subseteq T PROVE t \in T
  <2>1. CASE t = s
    BY <1>3, <2>1
  <2>2. CASE t # s
    <3> DEFINE x == node[t]
               list == Chosen(node, taken, t)
               p == Parts(node2, taken, list)
               q == Parts(node, taken, list)
    <3>1. node2[t] = x /\ t \in DOMAIN node /\ t \in DOMAIN node2
      BY <1>1, <1>2, <2>2 DEF DifferAt
    <3>2. Chosen(node2, taken, t) = list
      BY <3>1 DEF Chosen
    <3>3. Code(node, taken)[t] = Around(x, q)
      BY <1>1, <3>1, CodeUnfolds DEF Parts
    <3>4. Code(node2, taken)[t] = Around(x, p)
      BY <1>1, <3>1, <3>2, CodeUnfolds DEF Parts
    <3>5. list \in Seq((t + 1)..n)
      BY <1>1, <3>1, ListsBelow
    <3>6. list \in Seq(DOMAIN node) /\ \A j \in DOMAIN list : list[j] \in (t + 1)..n
      BY <1>2, <3>5
    <3> HIDE DEF list
    <3>7. Len(list) \in Nat /\ DOMAIN list = 1..Len(list)
      BY <3>5
    <3>8. p \in [1..Len(list) -> Seq(A)] /\ q \in [1..Len(list) -> Seq(A)]
      BY <1>1, <3>6, PartsAre
    <3>9. ASSUME NEW j \in 1..Len(list) PROVE Same(p[j], q[j], own)
      <4>1. list[j] \in T
        BY <1>3, <3>6, <3>7
      <4> QED
        BY <3>7, <4>1 DEF Parts
    <3> HIDE DEF p, q
    <3>10. Same(FlattenSeq(p), FlattenSeq(q), own)
      BY <3>7, <3>8, <3>9, AllSame
    <3>11. Turns(x) \in Nat
      BY <1>1, <3>1, TurnsAreCounted
    <3>12. ActsOf(x) \subseteq A
      BY <3>1 DEF AllActs
    <3>13. Same(Around(x, p), Around(x, q), own)
      BY <3>7, <3>8, <3>10, <3>11, <3>12, AroundSame
    <3> QED
      BY <3>3, <3>4, <3>13
  <2> QED
    BY <2>1, <2>2
<1> HIDE DEF T, n
<1>4. 1..n \subseteq T
  BY <1>2, <1>3, Downwards
<1> QED
  BY <1>2, <1>4 DEF T

(* -- a load moved up in a table ---------------------------------------------------------- *)
\* Statement s has another body or orelse.
Relisted(node, node2, s) ==
  /\ DifferAt(node, node2, s)
  /\ node2[s].kind = node[s].kind /\ node2[s].op = node[s].op /\ node2[s].args = node[s].args

\* list2 is list, or a load of it has moved over statements it may cross.
Reordered(node, list, list2) ==
  \/ list2 = list
  \/ \E i, b : /\ Len(list2) = Len(list) /\ MovedUp(list, list2, Len(list), b, i)
               /\ IsGlobalToSharedCopy(node[list[i]])
               /\ \A j \in b..(i - 1) : MayCross(node[list[i]], StatementEffects(node)[list[j]])

LEMMA AroundFields ==
  ASSUME NEW x, NEW y, y.kind = x.kind, y.op = x.op, y.args = x.args, NEW parts
  PROVE  Around(y, parts) = Around(x, parts) /\ ActsOf(y) = ActsOf(x)
<1>1. \A do, n : Act(do, y, n) = Act(do, x, n)
  BY DEF Act
<1>2. Opening(y) = Opening(x) /\ Closing(y) = Closing(x) /\ Turns(y) = Turns(x)
  BY <1>1 DEF Opening, Closing, Turns
<1>3. \A n : TurnOpening(y, n) = TurnOpening(x, n)
  BY <1>1 DEF TurnOpening
<1>4. AllTurns(y, parts) = AllTurns(x, parts)
  BY <1>2, <1>3 DEF AllTurns, OneTurn
<1>5. Around(y, parts) = Around(x, parts)
  BY <1>2, <1>4, AroundIs
<1>6. ActsOf(y) = ActsOf(x)
  BY <1>1 DEF ActsOf
<1> QED
  BY <1>5, <1>6

LEMMA CodeOfCall ==
  ASSUME NEW node, WellFormed(node), NEW s \in DOMAIN node, node[s].kind = "call", NEW taken
  PROVE  Code(node, taken)[s] = <<Act("call", node[s], 0)>>
<1> DEFINE x == node[s]
           parts == Parts(node, taken, Chosen(node, taken, s))
           A == {Act("call", x, 0)}
<1>1. Code(node, taken)[s] = Around(x, parts)
  BY CodeUnfolds DEF Parts
<1>2. Opening(x) = <<Act("call", x, 0)>> /\ Turns(x) = 0 /\ Closing(x) = <<>>
  BY DEF Opening, Turns, Closing
<1>3. AllTurns(x, parts) \in [1..0 -> Seq(A)]
  BY <1>2 DEF AllTurns
<1>4. PICK f : Joins(f, AllTurns(x, parts), 0, A)
  BY <1>3, Flattening
<1>5. FlattenSeq(AllTurns(x, parts)) = <<>>
  BY <1>4 DEF Joins
<1>6. <<Act("call", x, 0)>> \in Seq(A)
  OBVIOUS
<1>7. <<Act("call", x, 0)>> \o <<>> = <<Act("call", x, 0)>>
  BY <1>6, ConcatEmptySeq
<1>8. Around(x, parts) = Opening(x) \o FlattenSeq(AllTurns(x, parts)) \o Closing(x)
  BY AroundIs
<1> QED
  BY <1>1, <1>2, <1>5, <1>7, <1>8

LEMMA RelistedHas ==
  ASSUME NEW node, NEW node2, NEW s, Relisted(node, node2, s)
  PROVE  /\ DOMAIN node2 = DOMAIN node /\ WellFormed(node) /\ WellFormed(node2) /\ s \in DOMAIN node
         /\ \A t \in DOMAIN node : /\ node2[t].kind = node[t].kind /\ node2[t].op = node[t].op
                                   /\ node2[t].args = node[t].args
         /\ Bound(node2) = Bound(node) /\ Own(node2) = Own(node)
         /\ AllActs(node2, DOMAIN node) = AllActs(node, DOMAIN node)
<1>1. /\ DOMAIN node2 = DOMAIN node /\ WellFormed(node) /\ WellFormed(node2) /\ s \in DOMAIN node
      /\ \A t \in DOMAIN node : /\ node2[t].kind = node[t].kind /\ node2[t].op = node[t].op
                                /\ node2[t].args = node[t].args
  BY DEF Relisted, DifferAt
<1>2. \A t \in DOMAIN node : Binds(node2[t]) <=> Binds(node[t])
  BY <1>1 DEF Binds
<1>3. Bound(node2) = Bound(node) /\ Own(node2) = Own(node)
  BY <1>1, <1>2, BoundSame
<1>4. \A t \in DOMAIN node : ActsOf(node2[t]) = ActsOf(node[t])
  BY <1>1, AroundFields
<1>5. AllActs(node2, DOMAIN node) = AllActs(node, DOMAIN node)
  BY <1>4 DEF AllActs
<1> QED
  BY <1>1, <1>3, <1>5

LEMMA ReorderedParts ==
  ASSUME NEW node, WellFormed(node), ~HasBufferAliasing(node), Unaliased(node), NEW taken,
         NEW list \in Seq(DOMAIN node), NEW list2 \in Seq(DOMAIN node), Reordered(node, list, list2)
  PROVE  /\ Same(FlattenSeq(Parts(node, taken, list2)), FlattenSeq(Parts(node, taken, list)), Own(node))
         /\ Len(list2) = Len(list)
<1> DEFINE own == Own(node)
           n == Len(list)
           A == AllActs(node, DOMAIN node)
           r == Parts(node, taken, list)
           q == Parts(node, taken, list2)
<1>1. CASE list2 = list
  BY <1>1 DEF Same
<1>2. CASE list2 # list
  <2>1. PICK i, b : /\ Len(list2) = n /\ MovedUp(list, list2, n, b, i)
                    /\ IsGlobalToSharedCopy(node[list[i]])
                    /\ \A j \in b..(i - 1) : MayCross(node[list[i]], StatementEffects(node)[list[j]])
    BY <1>2 DEF Reordered
  <2> DEFINE x == node[list[i]]
             act == Act("call", x, 0)
  <2>2. n \in Nat /\ r \in [1..n -> Seq(A)] /\ q \in [1..n -> Seq(A)]
    BY <2>1, PartsAre
  <2>3. DOMAIN list = 1..n /\ DOMAIN list2 = 1..n /\ \A j \in 1..n : list[j] \in DOMAIN node
    BY <2>1, Elements
  <2>4. i \in 1..n /\ b \in 1..(i - 1)
    BY <2>1 DEF MovedUp
  <2>5. \A j \in 1..n : r[j] = Code(node, taken)[list[j]] /\ q[j] = Code(node, taken)[list2[j]]
    BY <2>3 DEF Parts
  <2> HIDE DEF r, q
  <2>6. MovedUp(r, q, n, b, i)
    <3>1. q[b] = r[i]
      <4>1. b \in 1..n
        BY <2>2, <2>4
      <4> QED
        BY <2>1, <2>4, <2>5, <4>1 DEF MovedUp
    <3>2. ASSUME NEW j \in 1..n, j < b \/ i < j PROVE q[j] = r[j]
      BY <2>1, <2>5, <3>2 DEF MovedUp
    <3>3. ASSUME NEW j \in 1..n, b < j, j <= i PROVE q[j] = r[j - 1]
      <4>1. list2[j] = list[j - 1]
        BY <2>1, <3>3 DEF MovedUp
      <4>2. j - 1 \in 1..n
        BY <2>2, <2>4, <3>3
      <4> QED
        BY <2>5, <4>1, <4>2
    <3> QED
      BY <2>4, <3>1, <3>2, <3>3 DEF MovedUp
  <2>7. r[i] = <<act>>
    <3>1. x.kind = "call" /\ list[i] \in DOMAIN node
      BY <2>1, <2>3, <2>4 DEF IsGlobalToSharedCopy
    <3>2. Code(node, taken)[list[i]] = <<act>>
      BY <3>1, CodeOfCall
    <3> QED
      BY <2>4, <2>5, <3>2
  <2>8. ASSUME NEW j \in b..(i - 1) PROVE Swaps(act, r[j], own)
    <3>1. j \in 1..n
      BY <2>2, <2>4
    <3>2. list[j] \in DOMAIN node /\ r[j] = Code(node, taken)[list[j]] /\ list[i] \in DOMAIN node
      BY <2>3, <2>4, <2>5, <3>1
    <3>3. IsLoad(x, own) /\ x.args[1].root \in Globals
      BY <2>1, <3>2, LoadsAreLoads DEF IsGlobalToSharedCopy
    <3>4. MayCross(x, StatementEffects(node)[list[j]])
      BY <2>1
    <3> QED
      BY <3>2, <3>3, <3>4, CrossStatement
  <2>9. Keeps(A, own)
    BY AllKeepGood
  <2> HIDE DEF A, own, act
  <2>10. Same(FlattenSeq(q), FlattenSeq(r), own)
    BY <2>2, <2>6, <2>7, <2>8, <2>9, MovedSame
  <2> QED
    BY <2>1, <2>10 DEF own, q, r
<1> QED
  BY <1>1, <1>2

LEMMA RelistedSame ==
  ASSUME NEW node, NEW node2, NEW s, Relisted(node, node2, s),
         ~HasBufferAliasing(node), Unaliased(node), NEW taken,
         Reordered(node, Chosen(node, taken, s), Chosen(node2, taken, s))
  PROVE  Same(Code(node2, taken)[1], Code(node, taken)[1], Own(node))
<1> DEFINE own == Own(node)
           A == AllActs(node, DOMAIN node)
           n == Len(node)
           x == node[s]
           list == Chosen(node, taken, s)
           list2 == Chosen(node2, taken, s)
           p == Parts(node2, taken, list2)
           q == Parts(node, taken, list2)
           r == Parts(node, taken, list)
<1>1. /\ DOMAIN node2 = DOMAIN node /\ WellFormed(node) /\ WellFormed(node2) /\ s \in DOMAIN node
      /\ node2[s].kind = x.kind /\ node2[s].op = x.op /\ node2[s].args = x.args
      /\ AllActs(node2, DOMAIN node2) = A
  BY RelistedHas
<1>2. Keeps(A, own)
  BY <1>1, AllKeepGood
<1>3. n \in Nat /\ DOMAIN node = 1..n /\ 1 \in DOMAIN node /\ Len(node2) = n
  BY <1>1, ListsBelow
<1>4. list \in Seq((s + 1)..n) /\ list2 \in Seq((s + 1)..n)
  BY <1>1, <1>3, ListsBelow
<1>5. (s + 1)..n \subseteq DOMAIN node
  BY <1>1, <1>3
<1>6. list \in Seq(DOMAIN node) /\ list2 \in Seq(DOMAIN node)
  BY <1>4, <1>5, MoreActs
<1>7. Len(list2) = Len(list) /\ Same(FlattenSeq(q), FlattenSeq(r), own)
  BY <1>1, <1>6, ReorderedParts
<1>8. Code(node, taken)[s] = Around(x, r)
  BY <1>1, CodeUnfolds DEF Parts
<1>9. Code(node2, taken)[s] = Around(x, p)
  <2>1. Code(node2, taken)[s] = Around(node2[s], p)
    BY <1>1, CodeUnfolds DEF Parts
  <2>2. Around(node2[s], p) = Around(x, p)
    BY <1>1, AroundFields
  <2> QED
    BY <2>1, <2>2
<1> HIDE DEF list, list2
<1>10. /\ Len(list) \in Nat /\ DOMAIN list2 = 1..Len(list)
       /\ \A j \in 1..Len(list) : list2[j] \in (s + 1)..n
  <2>1. Len(list) \in Nat /\ DOMAIN list2 = 1..Len(list2) /\ \A j \in DOMAIN list2 : list2[j] \in (s + 1)..n
    BY <1>4, Elements
  <2>2. Len(list2) = Len(list)
    BY <1>7
  <2> HIDE DEF n
  <2> QED
    BY <2>1, <2>2
<1>11. /\ p \in [1..Len(list) -> Seq(A)] /\ q \in [1..Len(list) -> Seq(A)]
       /\ r \in [1..Len(list) -> Seq(A)]
  BY <1>1, <1>6, <1>7, PartsAre
<1>12. Turns(x) \in Nat /\ ActsOf(x) \subseteq A
  BY <1>1, TurnsAreCounted DEF AllActs
<1>13. ASSUME \A t \in (s + 1)..n : Same(Code(node2, taken)[t], Code(node, taken)[t], own)
       PROVE  Same(Code(node2, taken)[s], Code(node, taken)[s], own)
  <2>1. \A j \in 1..Len(list) : Same(p[j], q[j], own)
    BY <1>10, <1>13 DEF Parts
  <2> HIDE DEF p, q, r, own, A
  <2>2. Same(FlattenSeq(p), FlattenSeq(q), own)
    BY <1>2, <1>10, <1>11, <2>1, AllSame
  <2>3. Same(FlattenSeq(p), FlattenSeq(r), own)
    BY <1>7, <2>2 DEF Same
  <2>4. Same(Around(x, p), Around(x, r), own)
    BY <1>2, <1>10, <1>11, <1>12, <2>3, AroundSame
  <2> QED
    BY <1>8, <1>9, <2>4
<1> HIDE DEF own, A, n
<1>14. DifferAt(node, node2, s)
  BY DEF Relisted
<1>15. \A t \in DOMAIN node : Same(Code(node2, taken)[t], Code(node, taken)[t], own)
  BY <1>1, <1>2, <1>13, <1>14, TableSame DEF A, n
<1> QED
  BY <1>3, <1>15 DEF own

(* -- what the rewriting makes of a table ------------------------------------------------- *)
LEMMA IsSequence ==
  ASSUME NEW n \in Nat, NEW f, f = [t \in 1..n |-> f[t]]
  PROVE  Len(f) = n
<1> DEFINE R == {f[t] : t \in 1..n}
<1>1. f \in [1..n -> R]
  OBVIOUS
<1> HIDE DEF R
<1>2. f \in Seq(R)
  BY <1>1
<1> QED
  BY <1>1, <1>2

LEMMA StatementSame ==
  ASSUME NEW node, NEW node2, NEW t, node2[t] = node[t], Len(node2) = Len(node), WellFormedStatement(node, t)
  PROVE  WellFormedStatement(node2, t)
BY DEF WellFormedStatement

\* node2 is node with statement y at s.
Updated(node, node2, s, y) ==
  /\ node2 = [t \in DOMAIN node |-> node2[t]] /\ node2[s] = y
  /\ \A t \in DOMAIN node \ {s} : node2[t] = node[t]

LEMMA UpdatedTable ==
  ASSUME NEW node, WellFormed(node), NEW s \in DOMAIN node, NEW y, NEW node2, Updated(node, node2, s, y),
         Len(node2) = Len(node) => WellFormedStatement(node2, s)
  PROVE  DifferAt(node, node2, s) /\ node2[s] = y
<1> DEFINE n == Len(node)
<1>1. n \in Nat /\ DOMAIN node = 1..n
  BY ListsBelow
<1>2. node2 = [t \in 1..n |-> node2[t]] /\ DOMAIN node2 = DOMAIN node /\ node2[s] = y
      /\ \A t \in DOMAIN node \ {s} : node2[t] = node[t]
  BY <1>1 DEF Updated
<1>3. Len(node2) = n
  BY <1>1, <1>2, IsSequence
<1>4. \A t \in DOMAIN node : WellFormedStatement(node, t)
  BY DEF WellFormed
<1>5. ASSUME NEW t \in DOMAIN node PROVE WellFormedStatement(node2, t)
  <2>1. CASE t = s
    BY <1>3, <2>1
  <2>2. CASE t # s
    BY <1>2, <1>3, <1>4, <2>2, StatementSame
  <2> QED
    BY <2>1, <2>2
<1>6. node2 # <<>>
  BY <1>2
<1>7. WellFormed(node2)
  BY <1>1, <1>2, <1>3, <1>5, <1>6 DEF WellFormed
<1> QED
  BY <1>2, <1>7 DEF DifferAt

LEMMA BodyIs ==
  ASSUME NEW x, NEW m,
         x = [kind |-> x.kind, op |-> x.op, args |-> x.args, body |-> x.body,
              orelse |-> x.orelse, glued |-> x.glued]
  PROVE  LET y == [x EXCEPT !.body = m]
         IN /\ y = [kind |-> y.kind, op |-> y.op, args |-> y.args, body |-> y.body,
                    orelse |-> y.orelse, glued |-> y.glued]
            /\ y.kind = x.kind /\ y.op = x.op /\ y.args = x.args /\ y.body = m /\ y.orelse = x.orelse
OBVIOUS

LEMMA OrelseIs ==
  ASSUME NEW x, NEW m,
         x = [kind |-> x.kind, op |-> x.op, args |-> x.args, body |-> x.body,
              orelse |-> x.orelse, glued |-> x.glued]
  PROVE  LET y == [x EXCEPT !.orelse = m]
         IN /\ y = [kind |-> y.kind, op |-> y.op, args |-> y.args, body |-> y.body,
                    orelse |-> y.orelse, glued |-> y.glued]
            /\ y.kind = x.kind /\ y.op = x.op /\ y.args = x.args /\ y.orelse = m /\ y.body = x.body
OBVIOUS

IsStatement(y) ==
  y = [kind |-> y.kind, op |-> y.op, args |-> y.args, body |-> y.body, orelse |-> y.orelse,
       glued |-> y.glued]

LEMMA ListsChanged ==
  ASSUME NEW node, WellFormed(node), NEW s \in DOMAIN node, NEW y, NEW node2, Updated(node, node2, s, y),
         IsStatement(y),
         y.kind = node[s].kind, y.op = node[s].op, y.args = node[s].args,
         y.body \in Seq((s + 1)..Len(node)), y.orelse \in Seq((s + 1)..Len(node))
  PROVE  Relisted(node, node2, s) /\ node2[s] = y
<1>1. WellFormedStatement(node, s)
  BY DEF WellFormed
<1>2. node2[s] = y
  BY DEF Updated
<1>3. ASSUME Len(node2) = Len(node) PROVE WellFormedStatement(node2, s)
  BY <1>1, <1>2, <1>3 DEF WellFormedStatement, IsStatement
<1>4. DifferAt(node, node2, s)
  BY <1>3, UpdatedTable
<1> QED
  BY <1>2, <1>4 DEF Relisted

LEMMA BodyChanged ==
  ASSUME NEW node, WellFormed(node), NEW s \in DOMAIN node, NEW m \in Seq((s + 1)..Len(node))
  PROVE  LET node2 == [node EXCEPT ![s].body = m]
         IN Relisted(node, node2, s) /\ node2[s].body = m /\ node2[s].orelse = node[s].orelse
<1> DEFINE x == node[s]
           y == [x EXCEPT !.body = m]
           node2 == [node EXCEPT ![s].body = m]
<1>1. Updated(node, node2, s, y)
  BY DEF Updated
<1>2. x = [kind |-> x.kind, op |-> x.op, args |-> x.args, body |-> x.body,
           orelse |-> x.orelse, glued |-> x.glued]
  BY DEF WellFormed, WellFormedStatement
<1>3. /\ y = [kind |-> y.kind, op |-> y.op, args |-> y.args, body |-> y.body,
              orelse |-> y.orelse, glued |-> y.glued]
      /\ y.kind = x.kind /\ y.op = x.op /\ y.args = x.args /\ y.body = m /\ y.orelse = x.orelse
  BY <1>2, BodyIs
<1> HIDE DEF y, node2
<1>4. y.body \in Seq((s + 1)..Len(node)) /\ y.orelse \in Seq((s + 1)..Len(node))
  BY <1>3, ListsBelow
<1>5. y.kind = node[s].kind /\ y.op = node[s].op /\ y.args = node[s].args
  BY <1>3
<1>6. IsStatement(y)
  BY <1>3 DEF IsStatement
<1>7. Relisted(node, node2, s) /\ node2[s] = y
  BY <1>1, <1>4, <1>5, <1>6, ListsChanged
<1> QED
  BY <1>3, <1>7 DEF node2

LEMMA OrelseChanged ==
  ASSUME NEW node, WellFormed(node), NEW s \in DOMAIN node, NEW m \in Seq((s + 1)..Len(node))
  PROVE  LET node2 == [node EXCEPT ![s].orelse = m]
         IN Relisted(node, node2, s) /\ node2[s].orelse = m /\ node2[s].body = node[s].body
<1> DEFINE x == node[s]
           y == [x EXCEPT !.orelse = m]
           node2 == [node EXCEPT ![s].orelse = m]
<1>1. Updated(node, node2, s, y)
  BY DEF Updated
<1>2. x = [kind |-> x.kind, op |-> x.op, args |-> x.args, body |-> x.body,
           orelse |-> x.orelse, glued |-> x.glued]
  BY DEF WellFormed, WellFormedStatement
<1>3. /\ y = [kind |-> y.kind, op |-> y.op, args |-> y.args, body |-> y.body,
              orelse |-> y.orelse, glued |-> y.glued]
      /\ y.kind = x.kind /\ y.op = x.op /\ y.args = x.args /\ y.orelse = m /\ y.body = x.body
  BY <1>2, OrelseIs
<1> HIDE DEF y, node2
<1>4. y.body \in Seq((s + 1)..Len(node)) /\ y.orelse \in Seq((s + 1)..Len(node))
  BY <1>3, ListsBelow
<1>5. y.kind = node[s].kind /\ y.op = node[s].op /\ y.args = node[s].args
  BY <1>3
<1>6. IsStatement(y)
  BY <1>3 DEF IsStatement
<1>7. Relisted(node, node2, s) /\ node2[s] = y
  BY <1>1, <1>4, <1>5, <1>6, ListsChanged
<1> QED
  BY <1>3, <1>7 DEF node2

(* A load that moves has the statements it crosses in its list.               *)
LEMMA PrefetchIs ==
  ASSUME NEW node, WellFormed(node), NEW node2 \in PrefetchRewrites(node)
  PROVE  \E s \in DOMAIN node :
           /\ Relisted(node, node2, s)
           /\ Reordered(node, node[s].body, node2[s].body)
           /\ Reordered(node, node[s].orelse, node2[s].orelse)
<1>1. PICK s \in DOMAIN node :
        \/ \E i \in PrefetchTargets(node, node[s].body) :
             node2 = [node EXCEPT ![s].body =
                        MoveLines(node, node[s].body, i, InsertionIndex(node, node[s].body, i))]
        \/ \E i \in PrefetchTargets(node, node[s].orelse) :
             node2 = [node EXCEPT ![s].orelse =
                        MoveLines(node, node[s].orelse, i, InsertionIndex(node, node[s].orelse, i))]
  BY DEF PrefetchRewrites
<1>2. node[s].body \in Seq((s + 1)..Len(node)) /\ node[s].orelse \in Seq((s + 1)..Len(node))
  BY ListsBelow
<1>3. ASSUME NEW list \in Seq((s + 1)..Len(node)), NEW i \in PrefetchTargets(node, list)
      PROVE  LET m == MoveLines(node, list, i, InsertionIndex(node, list, i))
             IN m \in Seq((s + 1)..Len(node)) /\ Reordered(node, list, m)
  <2> DEFINE b == InsertionIndex(node, list, i)
             m == MoveLines(node, list, i, b)
  <2>1. /\ i \in 1..Len(list) /\ b \in 1..(i - 1)
        /\ m \in Seq((s + 1)..Len(node)) /\ Len(m) = Len(list) /\ MovedUp(list, m, Len(list), b, i)
        /\ IsGlobalToSharedCopy(node[list[i]])
        /\ \A j \in b..(i - 1) : MayCross(node[list[i]], StatementEffects(node)[list[j]])
    BY TargetIsMoved
  <2> HIDE DEF b, m
  <2>2. Reordered(node, list, m)
    BY <2>1 DEF Reordered
  <2> QED
    BY <2>1, <2>2 DEF m, b
<1>4. \A list : Reordered(node, list, list)
  BY DEF Reordered
<1>5. CASE \E i \in PrefetchTargets(node, node[s].body) :
             node2 = [node EXCEPT ![s].body =
                        MoveLines(node, node[s].body, i, InsertionIndex(node, node[s].body, i))]
  <2> DEFINE list == node[s].body
  <2>1. PICK i \in PrefetchTargets(node, list) :
          node2 = [node EXCEPT ![s].body = MoveLines(node, list, i, InsertionIndex(node, list, i))]
    BY <1>5
  <2> DEFINE m == MoveLines(node, list, i, InsertionIndex(node, list, i))
  <2>2. m \in Seq((s + 1)..Len(node)) /\ Reordered(node, list, m)
    BY <1>2, <1>3
  <2>3. node2 = [node EXCEPT ![s].body = m]
    BY <2>1
  <2> HIDE DEF m
  <2> DEFINE new == [node EXCEPT ![s].body = m]
  <2>4. Relisted(node, new, s) /\ new[s].body = m /\ new[s].orelse = node[s].orelse
    BY <2>2, BodyChanged
  <2>5. node2 = new
    BY <2>3
  <2> HIDE DEF new
  <2> QED
    BY <1>4, <2>2, <2>4, <2>5
<1>6. CASE \E i \in PrefetchTargets(node, node[s].orelse) :
             node2 = [node EXCEPT ![s].orelse =
                        MoveLines(node, node[s].orelse, i, InsertionIndex(node, node[s].orelse, i))]
  <2> DEFINE list == node[s].orelse
  <2>1. PICK i \in PrefetchTargets(node, list) :
          node2 = [node EXCEPT ![s].orelse = MoveLines(node, list, i, InsertionIndex(node, list, i))]
    BY <1>6
  <2> DEFINE m == MoveLines(node, list, i, InsertionIndex(node, list, i))
  <2>2. m \in Seq((s + 1)..Len(node)) /\ Reordered(node, list, m)
    BY <1>2, <1>3
  <2>3. node2 = [node EXCEPT ![s].orelse = m]
    BY <2>1
  <2> HIDE DEF m
  <2> DEFINE new == [node EXCEPT ![s].orelse = m]
  <2>4. Relisted(node, new, s) /\ new[s].orelse = m /\ new[s].body = node[s].body
    BY <2>2, OrelseChanged
  <2>5. node2 = new
    BY <2>3
  <2> HIDE DEF new
  <2> QED
    BY <1>4, <2>2, <2>4, <2>5
<1> QED
  BY <1>1, <1>5, <1>6

LEMMA CopyLoopFields ==
  ASSUME NEW x, NEW y, y.args = x.args, NEW a, NEW b, b.args = a.args
  PROVE  /\ Elementwise(y, b) <=> Elementwise(x, a)
         /\ LoopNames(y, b) = LoopNames(x, a)
BY DEF Elementwise, LoopNames

LEMMA PrefetchUnaliased ==
  ASSUME NEW node, NEW node2, NEW s, Relisted(node, node2, s),
         Reordered(node, node[s].body, node2[s].body), Unaliased(node)
  PROVE  Unaliased(node2)
<1>1. /\ DOMAIN node2 = DOMAIN node /\ WellFormed(node) /\ WellFormed(node2) /\ s \in DOMAIN node
      /\ \A t \in DOMAIN node : /\ node2[t].kind = node[t].kind /\ node2[t].op = node[t].op
                                /\ node2[t].args = node[t].args
      /\ Bound(node2) = Bound(node)
  BY RelistedHas
<1>2. ASSUME NEW t \in DOMAIN node, IsGlobalToSharedCopy(node2[t])
      PROVE  Dependencies(node2[t]) \cap Bound(node2) = {}
  <2>1. IsGlobalToSharedCopy(node[t]) /\ Dependencies(node2[t]) = Dependencies(node[t])
    BY <1>1, <1>2 DEF IsGlobalToSharedCopy, Dependencies
  <2> QED
    BY <1>1, <2>1 DEF Unaliased
<1>3. ASSUME NEW t \in DOMAIN node, IsCopyLoop(node2, t)
      PROVE  LoopNames(node2[t], node2[node2[t].body[1]]) \cap Bound(node2) = {}
  <2>1. node2[t].kind = "for" /\ node2[t].op = "Parallel" /\ Len(node2[t].body) = 1
    BY <1>3 DEF IsCopyLoop
  <2>2. node2[t].body = node[t].body
    <3>1. CASE t = s
      <4>1. ASSUME NEW i, NEW b, Len(node2[s].body) = Len(node[s].body),
                   MovedUp(node[s].body, node2[s].body, Len(node[s].body), b, i)
            PROVE  FALSE
        <5>1. i \in 1..1 /\ b \in 1..(i - 1)
          BY <2>1, <3>1, <4>1 DEF MovedUp
        <5> QED
          BY <5>1
      <4> QED
        BY <3>1, <4>1 DEF Reordered
    <3>2. CASE t # s
      BY <3>2 DEF Relisted, DifferAt
    <3> QED
      BY <3>1, <3>2
  <2> DEFINE c == node[t].body[1]
  <2>3. c \in DOMAIN node
    <3>1. node[t].body \in Seq((t + 1)..Len(node)) /\ DOMAIN node = 1..Len(node)
      BY <1>1, ListsBelow
    <3>2. \A j \in 1..Len(node[t].body) : node[t].body[j] \in (t + 1)..Len(node)
      BY <3>1, Elements
    <3>3. 1 \in 1..Len(node[t].body)
      <4>1. Len(node[t].body) = 1
        BY <2>1, <2>2
      <4> QED
        BY <4>1
    <3>4. c \in (t + 1)..Len(node)
      BY <3>2, <3>3
    <3> QED
      BY <3>1, <3>4
  <2> HIDE DEF c
  <2>4. /\ Elementwise(node2[t], node2[c]) <=> Elementwise(node[t], node[c])
        /\ LoopNames(node2[t], node2[c]) = LoopNames(node[t], node[c])
    BY <1>1, <2>3, CopyLoopFields
  <2>5. /\ node2[c].kind = "assign" /\ node2[c].op = "none" /\ Elementwise(node2[t], node2[c])
    BY <1>3, <2>2 DEF IsCopyLoop, c
  <2>6. /\ node[t].kind = "for" /\ node[t].op = "Parallel" /\ Len(node[t].body) = 1
        /\ node[c].kind = "assign" /\ node[c].op = "none"
    BY <1>1, <2>1, <2>2, <2>3, <2>5
  <2>7. IsCopyLoop(node, t)
    BY <2>4, <2>5, <2>6 DEF IsCopyLoop, c
  <2>8. LoopNames(node[t], node[c]) \cap Bound(node) = {}
    BY <2>7 DEF Unaliased, c
  <2> QED
    BY <1>1, <2>2, <2>4, <2>8 DEF c
<1> QED
  BY <1>1, <1>2, <1>3 DEF Unaliased

LEMMA PrefetchKeepsMeaning ==
  ASSUME NEW node, WellFormed(node), Unaliased(node), ~HasBufferAliasing(node),
         NEW node2 \in PrefetchRewrites(node)
  PROVE  /\ WellFormed(node2) /\ Unaliased(node2) /\ Own(node2) = Own(node)
         /\ Outcomes(node2) = Outcomes(node)
         /\ \A taken : Same(Code(node2, taken)[1], Code(node, taken)[1], Own(node))
<1>1. PICK s \in DOMAIN node :
        /\ Relisted(node, node2, s)
        /\ Reordered(node, node[s].body, node2[s].body)
        /\ Reordered(node, node[s].orelse, node2[s].orelse)
  BY PrefetchIs
<1>2. /\ DOMAIN node2 = DOMAIN node /\ WellFormed(node2) /\ Own(node2) = Own(node)
      /\ \A t \in DOMAIN node : node2[t].kind = node[t].kind
  BY <1>1, RelistedHas
<1>3. Unaliased(node2)
  BY <1>1, PrefetchUnaliased
<1>4. Outcomes(node2) = Outcomes(node)
  <2>1. {t \in DOMAIN node2 : node2[t].kind = "if"} = {t \in DOMAIN node : node[t].kind = "if"}
    BY <1>2
  <2> QED
    BY <2>1 DEF Outcomes
<1>5. ASSUME NEW taken PROVE Reordered(node, Chosen(node, taken, s), Chosen(node2, taken, s))
  BY <1>1, <1>2 DEF Chosen
<1>6. \A taken : Same(Code(node2, taken)[1], Code(node, taken)[1], Own(node))
  BY <1>1, <1>5, RelistedSame
<1> QED
  BY <1>2, <1>3, <1>4, <1>6

(* -- what an elementwise copy loop names ------------------------------------------------- *)
(* The loop x counts in var up to ext and its one assignment a copies an element  *)
(* per turn; all that they name is in own.                                       *)
CopiesElements(x, a, var, ext, own) ==
  LET target == a.args[1]
      source == a.args[2]
  IN /\ x.kind = "for" /\ x.args = <<Name(var), Name(ext)>> /\ ext \in DOMAIN Size
     /\ var \in Scalars \cap own
     /\ a.kind = "assign" /\ a.op = "none" /\ Len(a.args) = 2 /\ a.args \in Seq(Expressions)
     /\ target.form = "elem" /\ target.idx = <<Name(var)>> /\ target.root \in Buffers \cap own
     /\ IndexTuples(target.root) = {<<j>> : j \in Columns(ext)}
     /\ source.form = "elem" /\ source.root \in Buffers \cap own /\ source.root # target.root
     /\ source.idx \in Seq(IndexTerms) /\ source.idx # <<>> /\ Last(source.idx) = Name(var)
     /\ \A i \in 1..(Len(source.idx) - 1) :
          source.idx[i].form \in {"name", "const"} /\ source.idx[i] # Name(var)
     /\ ReadExpression(source) \subseteq own

LEMMA CopyLoopCopies ==
  ASSUME NEW node, WellFormed(node), Unaliased(node), NEW s \in DOMAIN node, IsCopyLoop(node, s)
  PROVE  \E var, ext : CopiesElements(node[s], node[node[s].body[1]], var, ext, Own(node))
<1> DEFINE x == node[s]
           c == x.body[1]
           a == node[c]
           target == a.args[1]
           source == a.args[2]
<1>1. /\ x.kind = "for" /\ Len(x.body) = 1 /\ a.kind = "assign" /\ a.op = "none" /\ Elementwise(x, a)
  BY DEF IsCopyLoop
<1>2. c \in DOMAIN node
  <2>1. x.body \in Seq((s + 1)..Len(node)) /\ DOMAIN node = 1..Len(node)
    BY ListsBelow
  <2>2. \A j \in 1..Len(x.body) : x.body[j] \in (s + 1)..Len(node)
    BY <2>1, Elements
  <2>3. 1 \in 1..Len(x.body)
    BY <1>1
  <2>4. c \in (s + 1)..Len(node)
    BY <2>2, <2>3
  <2> QED
    BY <2>1, <2>4
<1>3. PICK var \in Scalars, ext \in DOMAIN Size :
        /\ x.args = <<Name(var), Name(ext)>> /\ x.args[1] = Name(var) /\ x.args[1].root = var
        /\ x.args[2].root = ext
  BY <1>1, LoopIs
<1>4. a.args \in Seq(Expressions) /\ Len(a.args) = 2
  <2>1. WellFormedStatement(node, c)
    BY <1>2 DEF WellFormed
  <2> QED
    BY <1>1, <2>1 DEF WellFormedStatement
<1>5. target \in Expressions /\ source \in Expressions
  BY <1>4
<1>6. LoopNames(x, a) \cap Bound(node) = {}
  BY DEF Unaliased
<1> HIDE DEF c, a, x
<1>7. /\ target.form = "elem" /\ source.form = "elem" /\ target.root # source.root
      /\ target.idx = <<x.args[1]>> /\ source.idx # <<>> /\ Last(source.idx) = x.args[1]
      /\ \A i \in 1..(Len(source.idx) - 1) :
           source.idx[i].form \in {"name", "const"} /\ source.idx[i] # x.args[1]
      /\ target.root \in DOMAIN AllocExtents /\ source.root \in DOMAIN BufferExtents
      /\ AllocExtents[target.root] = <<1, x.args[2].root>>
  BY <1>1 DEF Elementwise
<1> HIDE DEF target, source
<1>8. source.idx \in Seq(IndexTerms)
  BY <1>5, <1>7 DEF Expressions, Atoms
<1>9. target.root \in Buffers /\ source.root \in Buffers
  BY <1>7 DEF AllocExtents, BufferExtents, Buffers
<1>10. IndexTuples(target.root) = {<<j>> : j \in Columns(ext)}
  <2>1. Rank[target.root] = 1 /\ Extent[target.root] = ext
    <3>1. AllocExtents[target.root] = <<Rank[target.root], Extent[target.root]>>
      BY <1>7 DEF AllocExtents
    <3> QED
      BY <1>3, <1>7, <3>1
  <2> QED
    BY <2>1 DEF IndexTuples
<1>11. ReadExpression(source) \subseteq Names
  BY <1>5, ReadsAreNames
<1>12. /\ var \in LoopNames(x, a) /\ target.root \in LoopNames(x, a)
       /\ ReadExpression(source) \subseteq LoopNames(x, a)
  BY <1>3 DEF LoopNames, source, target
<1>13. source.root \in ReadExpression(source)
  BY <1>7 DEF ReadExpression, ReadAtom
<1>14. /\ var \in Own(node) /\ target.root \in Own(node) /\ source.root \in Own(node)
       /\ ReadExpression(source) \subseteq Own(node)
  BY <1>3, <1>6, <1>9, <1>11, <1>12, <1>13 DEF Own, Names
<1>15. CopiesElements(x, a, var, ext, Own(node))
  BY <1>1, <1>3, <1>4, <1>7, <1>8, <1>9, <1>10, <1>14 DEF CopiesElements, source, target
<1> QED
  BY <1>15 DEF x, a, c

LEMMA FrontAndLast ==
  ASSUME NEW S, NEW q \in Seq(S), q # <<>>
  PROVE  /\ Front(q) \in Seq(S) /\ Len(Front(q)) = Len(q) - 1 /\ Len(q) \in Nat \ {0}
         /\ \A i \in 1..(Len(q) - 1) : Front(q)[i] = q[i]
         /\ Last(q) = q[Len(q)]
<1>1. Len(q) \in Nat \ {0} /\ \A i \in 1..Len(q) : q[i] \in S
  BY EmptySeq
<1>2. Len(q) - 1 \in Int /\ \A i \in 1..(Len(q) - 1) : q[i] \in S
  BY <1>1
<1>3. /\ SubSeq(q, 1, Len(q) - 1) \in Seq(S)
      /\ Len(SubSeq(q, 1, Len(q) - 1)) = IF 1 <= Len(q) - 1 THEN (Len(q) - 1) - 1 + 1 ELSE 0
      /\ \A i \in 1..((Len(q) - 1) - 1 + 1) : SubSeq(q, 1, Len(q) - 1)[i] = q[1 + i - 1]
  BY <1>2, SubSeqProperties
<1>4. /\ Front(q) \in Seq(S) /\ Len(Front(q)) = IF 1 <= Len(q) - 1 THEN (Len(q) - 1) - 1 + 1 ELSE 0
      /\ \A i \in 1..((Len(q) - 1) - 1 + 1) : Front(q)[i] = q[1 + i - 1]
  BY <1>3 DEF Front
<1>5. Last(q) = q[Len(q)]
  BY DEF Last
<1> HIDE DEF Front, Last
<1>6. \A i \in 1..(Len(q) - 1) : i \in 1..((Len(q) - 1) - 1 + 1) /\ 1 + i - 1 = i
  BY <1>1
<1>7. \A i \in 1..(Len(q) - 1) : Front(q)[i] = q[i]
  BY <1>1, <1>4, <1>6
<1>8. Len(Front(q)) = Len(q) - 1
  <2>1. \A k \in Nat \ {0} : (IF 1 <= k - 1 THEN (k - 1) - 1 + 1 ELSE 0) = k - 1
    OBVIOUS
  <2>2. Len(q) \in Nat \ {0}
    BY <1>1
  <2>3. Len(Front(q)) = IF 1 <= Len(q) - 1 THEN (Len(q) - 1) - 1 + 1 ELSE 0
    BY <1>4
  <2> QED
    BY <2>1, <2>2, <2>3
<1> QED
  BY <1>1, <1>4, <1>5, <1>7, <1>8

(* What the copy that replaces the loop reads: neither the loop's variable nor  *)
(* what it copies to.                                                           *)
LEMMA BulkCopyIs ==
  ASSUME NEW x, NEW a, NEW var, NEW ext, NEW own, CopiesElements(x, a, var, ext, own)
  PROVE  LET y == BulkCopy(x, a)
             source == a.args[2]
             slice == Slice(source.root, Front(source.idx), ext)
         IN /\ y.kind = "call" /\ y.args = <<slice, Name(a.args[1].root)>> /\ IsStatement(y)
            /\ y.body = <<>> /\ y.orelse = <<>>
            /\ y.args[1] = slice /\ y.args[2] = Name(a.args[1].root)
            /\ slice \in Expressions /\ IsLoad(y, own)
            /\ var \notin ReadExpression(slice) /\ a.args[1].root \notin ReadExpression(slice)
            /\ ReadExpression(slice) \subseteq ReadExpression(source)
<1> DEFINE y == BulkCopy(x, a)
           source == a.args[2]
           d == a.args[1].root
           front == Front(source.idx)
           slice == Slice(source.root, front, ext)
<1>1. /\ x.args = <<Name(var), Name(ext)>> /\ ext \in DOMAIN Size /\ var \in Scalars /\ var \in own
      /\ d \in Buffers /\ d \in own /\ source.root \in Buffers /\ source.root \in own /\ source.root # d
      /\ source.idx \in Seq(IndexTerms) /\ source.idx # <<>>
      /\ \A i \in 1..(Len(source.idx) - 1) :
          source.idx[i].form \in {"name", "const"} /\ source.idx[i] # Name(var)
      /\ ReadExpression(source) \subseteq own /\ a.args \in Seq(Expressions) /\ Len(a.args) = 2
      /\ source.form = "elem"
  BY DEF CopiesElements
<1>2. /\ front \in Seq(IndexTerms) /\ Len(front) = Len(source.idx) - 1 /\ Len(source.idx) \in Nat \ {0}
      /\ \A i \in 1..(Len(source.idx) - 1) : front[i] = source.idx[i]
  BY <1>1, FrontAndLast
<1>3. x.args[2].root = ext
  BY <1>1 DEF Name
<1>4. y = Call("copy", <<slice, Name(d)>>)
  BY <1>3 DEF BulkCopy
<1> HIDE DEF y
<1>5. /\ y.kind = "call" /\ y.op = "copy" /\ y.args = <<slice, Name(d)>> /\ y.body = <<>> /\ y.orelse = <<>>
      /\ IsStatement(y)
  BY <1>4 DEF Call, Statement, IsStatement
<1> HIDE DEF d, front
<1>6. /\ slice.form = "slice" /\ slice.root = source.root /\ slice.idx = front /\ slice.ext = ext
      /\ Name(d).form = "name" /\ Name(d).root = d
  BY DEF Slice, Name
<1>7. slice \in Expressions
  BY <1>1, <1>2 DEF Slice, Expressions
<1>8. Name(d) \in Expressions
  BY <1>1 DEF Name, Expressions
<1> HIDE DEF slice
<1>9. /\ y.args[1] = slice /\ y.args[2] = Name(d) /\ Len(y.args) = 2 /\ y.args \in Seq(Expressions)
  BY <1>5, <1>7, <1>8
<1>10. ASSUME NEW i \in 1..Len(front)
       PROVE  /\ front[i] \in ToSet(source.idx) /\ var \notin ReadIndex(front[i])
              /\ d \notin ReadIndex(front[i])
  <2>1. front[i] = source.idx[i] /\ i \in DOMAIN source.idx /\ i \in 1..(Len(source.idx) - 1)
    BY <1>1, <1>2
  <2>2. front[i] \in IndexTerms /\ front[i].form \in {"name", "const"} /\ front[i] # Name(var)
    BY <1>1, <1>2, <2>1
  <2>3. front[i].idx = <<>> /\ (front[i].form = "name" => front[i].root \in Scalars)
        /\ (front[i].form = "name" => front[i] = Name(front[i].root))
    BY <2>2 DEF IndexTerms, Atoms, Name
  <2>4. ToSet(front[i].idx) = {}
    BY <2>3 DEF ToSet
  <2>5. ReadIndex(front[i]) = ReadAtom(front[i])
    BY <2>4 DEF ReadIndex
  <2>6. d \notin Scalars
    BY <1>1, KernelAssumption
  <2>7. front[i].form = "name" => front[i].root # var /\ front[i].root # d
    BY <2>2, <2>3, <2>6
  <2>8. var \notin ReadAtom(front[i]) /\ d \notin ReadAtom(front[i])
    BY <2>2, <2>7 DEF ReadAtom
  <2> QED
    BY <2>1, <2>5, <2>8 DEF ToSet
<1>11. DOMAIN front = 1..Len(front)
  BY <1>2
<1>12. ReadIndices(slice) \subseteq ReadIndices(source) /\ var \notin ReadIndices(slice) /\ d \notin ReadIndices(slice)
  BY <1>6, <1>10, <1>11 DEF ReadIndices, ToSet
<1>13. ReadAtom(slice) = {source.root} /\ ReadAtom(source) = {source.root}
  BY <1>1, <1>6 DEF ReadAtom
<1>14. source.root # var
  BY <1>1, KernelAssumption
<1>15. /\ var \notin ReadExpression(slice) /\ d \notin ReadExpression(slice)
       /\ ReadExpression(slice) \subseteq ReadExpression(source)
  BY <1>1, <1>12, <1>13, <1>14 DEF ReadExpression
<1>16. ReadExpression(slice) \subseteq Names
  BY <1>7, ReadsAreNames
<1>17. IsLoad(y, own)
  BY <1>1, <1>5, <1>6, <1>9, <1>15, <1>16 DEF IsLoad
<1> QED
  BY <1>5, <1>7, <1>9, <1>15, <1>17 DEF y, d, front, slice

(* -- one turn of a copy loop -------------------------------------------------------------- *)
LEMMA StoreTwice ==
  ASSUME NEW own, NEW st, Good(st, own), NEW c, NEW u, NEW v
  PROVE  Store(Store(st, c, u), c, v) = Store(st, c, v)
<1> DEFINE p == Store(st, c, u)
           q == Store(p, c, v)
           r == Store(st, c, v)
<1>1. Shaped(st)
  BY GoodHas
<1>2. /\ Shaped(p) /\ p.env = st.env /\ p.outer = st.outer /\ p.trace = st.trace /\ p.live = st.live
      /\ p.opaque = st.opaque
  BY <1>1, StoreIs
<1>3. p.mem = [st.mem EXCEPT ![c] = u]
  BY <1>1, StoreMem
<1>4. /\ Shaped(r) /\ r.env = st.env /\ r.outer = st.outer /\ r.trace = st.trace /\ r.live = st.live
      /\ r.opaque = st.opaque
  BY <1>1, StoreIs
<1>5. r.mem = [st.mem EXCEPT ![c] = v]
  BY <1>1, StoreMem
<1> HIDE DEF p
<1>6. /\ Shaped(q) /\ q.env = p.env /\ q.outer = p.outer /\ q.trace = p.trace /\ q.live = p.live
      /\ q.opaque = p.opaque
  BY <1>2, StoreIs
<1>7. q.mem = [p.mem EXCEPT ![c] = v]
  BY <1>2, StoreMem
<1>8. st.mem = [d \in Cells |-> st.mem[d]]
  BY GoodHas
<1> HIDE DEF q, r
<1>9. q.mem = r.mem
  BY <1>3, <1>5, <1>7, <1>8
<1>10. q = r
  BY <1>2, <1>4, <1>6, <1>9, SameState
<1> QED
  BY <1>10 DEF p, q, r

LEMMA StoreNothing ==
  ASSUME NEW own, NEW st, Good(st, own), NEW c, NEW v, v = st.mem[c]
  PROVE  Store(st, c, v) = st
<1> DEFINE p == Store(st, c, v)
<1>1. Shaped(st) /\ st.mem = [d \in Cells |-> st.mem[d]]
  BY GoodHas
<1>2. /\ Shaped(p) /\ p.env = st.env /\ p.outer = st.outer /\ p.trace = st.trace /\ p.live = st.live
      /\ p.opaque = st.opaque
  BY <1>1, StoreIs
<1>3. p.mem = [st.mem EXCEPT ![c] = v]
  BY <1>1, StoreMem
<1> HIDE DEF p
<1>4. p.mem = st.mem
  BY <1>1, <1>3
<1>5. p = st
  BY <1>1, <1>2, <1>4, SameState
<1> QED
  BY <1>5 DEF p

LEMMA BindOwn ==
  ASSUME NEW own, NEW st, Good(st, own), NEW n \in Scalars, n \in own, NEW v
  PROVE  Bind(st, n, v) = Store(st, n, v)
<1> DEFINE p == Bind(st, n, v)
           q == Store(st, n, v)
<1>1. Shaped(st) /\ st.env = [m \in Names |-> st.env[m]] /\ st.opaque = FALSE
  BY GoodHas
<1>2. st.env[n] = n
  <2>1. n \in Names
    BY DEF Names
  <2> QED
    BY <2>1 DEF Good
<1>3. /\ Shaped(q) /\ q.env = st.env /\ q.outer = st.outer /\ q.trace = st.trace /\ q.live = st.live
      /\ q.opaque = st.opaque
  BY <1>1, StoreIs
<1>4. q.mem = [st.mem EXCEPT ![n] = v]
  BY <1>1, StoreMem
<1>5. Good(p, own) /\ p.outer = st.outer /\ p.trace = st.trace /\ p.live = st.live /\ p.opaque = st.opaque
  BY BindIs
<1>6. p.mem = [st.mem EXCEPT ![n] = v]
  BY BindMem
<1>7. p.env = [st.env EXCEPT ![n] = n]
  BY BindEnv
<1> HIDE DEF p, q
<1>8. p.env = st.env
  BY <1>1, <1>2, <1>7
<1>9. Shaped(p)
  BY <1>5, GoodHas
<1>10. p.mem = q.mem
  BY <1>4, <1>6
<1>11. p = q
  BY <1>3, <1>5, <1>8, <1>9, <1>10, SameState
<1> QED
  BY <1>11 DEF p, q

LEMMA SameSequence ==
  ASSUME NEW n \in Nat, NEW p, NEW q, p = [i \in 1..n |-> p[i]], NEW S, q \in Seq(S), Len(q) = n,
         \A i \in 1..n : p[i] = q[i]
  PROVE  p = q
<1>1. q = [i \in 1..n |-> q[i]]
  OBVIOUS
<1> QED
  BY <1>1

(* Where a copy loop reads and writes in the turn that counts k.              *)
LEMMA TurnPositions ==
  ASSUME NEW own, NEW t, NEW x, NEW a, NEW var, NEW ext, CopiesElements(x, a, var, ext, own),
         NEW k \in Nat, Content(t, var) = Whole(k)
  PROVE  LET source == a.args[2]
             slice == Slice(source.root, Front(source.idx), ext)
         IN /\ Position(t, a.args[1]) = <<k>>
            /\ Position(t, source) = Position(t, slice) \o <<k>>
<1> DEFINE target == a.args[1]
           source == a.args[2]
           idx == source.idx
           slice == Slice(source.root, Front(idx), ext)
           number(e) == Number(IndexValue(t, e))
           n == Len(idx)
<1>1. /\ target.idx = <<Name(var)>> /\ idx \in Seq(IndexTerms) /\ idx # <<>> /\ Last(idx) = Name(var)
  BY DEF CopiesElements
<1>2. number(Name(var)) = k
  BY DEF Name, IndexValue, AtomValue, Whole, Number
<1>3. Position(t, target) = <<k>>
  <2>1. Position(t, target) = [i \in 1..1 |-> number(<<Name(var)>>[i])]
    BY <1>1 DEF Position
  <2>2. \A i \in 1..1 : <<Name(var)>>[i] = Name(var) /\ <<k>>[i] = k
    OBVIOUS
  <2> HIDE DEF number
  <2>3. \A i \in 1..1 : Position(t, target)[i] = <<k>>[i]
    BY <1>2, <2>1, <2>2
  <2>4. Position(t, target) = [i \in 1..1 |-> Position(t, target)[i]]
    BY <2>1
  <2>5. <<k>> \in Seq(Nat) /\ Len(<<k>>) = 1
    OBVIOUS
  <2> QED
    BY <2>3, <2>4, <2>5, SameSequence
<1>4. /\ Front(idx) \in Seq(IndexTerms) /\ Len(Front(idx)) = n - 1 /\ n \in Nat \ {0}
      /\ \A i \in 1..(n - 1) : Front(idx)[i] = idx[i]
      /\ Last(idx) = idx[n]
  BY <1>1, FrontAndLast
<1> DEFINE R == {number(idx[i]) : i \in 1..n}
           p == Position(t, slice)
<1>5. DOMAIN Front(idx) = 1..(n - 1) /\ DOMAIN idx = 1..n
  BY <1>1, <1>4, Elements
<1>6. p = [i \in 1..(n - 1) |-> number(Front(idx)[i])]
  BY <1>5 DEF Position, Slice
<1>7. \A i \in 1..(n - 1) : p[i] = number(idx[i])
  BY <1>4, <1>6
<1>8. Position(t, source) = [i \in 1..n |-> number(idx[i])]
  BY <1>5 DEF Position
<1> HIDE DEF number, idx, p, n, slice
<1>9. n - 1 \in Nat /\ n \in 1..n /\ \A i \in 1..(n - 1) : i \in 1..n
  BY <1>4
<1>10. p \in [1..(n - 1) -> R]
  BY <1>6, <1>7, <1>9
<1>11. <<k>> \in Seq(R) /\ Len(<<k>>) = 1 /\ <<k>>[1] = k
  <2>1. k \in R
    BY <1>1, <1>2, <1>4, <1>9
  <2> HIDE DEF R
  <2> QED
    BY <2>1
<1> HIDE DEF R
<1>12. p \in Seq(R) /\ Len(p) = n - 1
  BY <1>9, <1>10
<1>13. /\ p \o <<k>> \in Seq(R) /\ Len(p \o <<k>>) = Len(p) + Len(<<k>>)
       /\ \A i \in 1..(Len(p) + Len(<<k>>)) : (p \o <<k>>)[i] = IF i <= Len(p) THEN p[i] ELSE <<k>>[i - Len(p)]
  BY <1>11, <1>12, ConcatProperties
<1>14. Len(p) + Len(<<k>>) = n
  BY <1>4, <1>11, <1>12
<1>15. ASSUME NEW i \in 1..n PROVE Position(t, source)[i] = (p \o <<k>>)[i]
  <2>1. (p \o <<k>>)[i] = IF i <= n - 1 THEN p[i] ELSE <<k>>[i - (n - 1)]
    BY <1>12, <1>13, <1>14
  <2>2. CASE i <= n - 1
    <3>1. i \in 1..(n - 1)
      BY <1>4, <2>2
    <3> QED
      BY <1>7, <1>8, <2>1, <2>2, <3>1
  <2>3. CASE ~(i <= n - 1)
    <3>1. i = n /\ i - (n - 1) = 1
      BY <1>4, <2>3
    <3>2. (p \o <<k>>)[i] = k
      BY <1>11, <2>1, <2>3, <3>1
    <3>3. number(idx[n]) = k
      BY <1>1, <1>2, <1>4
    <3> QED
      BY <1>8, <3>1, <3>2, <3>3
  <2> QED
    BY <2>2, <2>3
<1>16. Position(t, source) = p \o <<k>>
  <2>1. n \in Nat
    BY <1>4
  <2>2. Position(t, source) = [i \in 1..n |-> Position(t, source)[i]]
    BY <1>8
  <2>3. Len(p \o <<k>>) = n /\ p \o <<k>> \in Seq(R)
    BY <1>13, <1>14
  <2> QED
    BY <1>15, <2>1, <2>2, <2>3, SameSequence
<1> QED
  BY <1>3, <1>16 DEF p, slice, idx

LEMMA OwnContent ==
  ASSUME NEW own, NEW st, Good(st, own), NEW n \in Names, n \in own
  PROVE  /\ st.env[n] = n /\ Content(st, n) = st.mem[n]
         /\ n \in Buffers => Content(st, n) = [y \in IndexTuples(n) |-> Content(st, n)[y]]
<1>1. st.env[n] = n
  BY DEF Good
<1>2. Content(st, n) = st.mem[n]
  BY <1>1 DEF Content
<1>3. ASSUME n \in Buffers PROVE st.mem[n] = [y \in IndexTuples(n) |-> st.mem[n][y]]
  BY <1>3 DEF Good
<1> QED
  BY <1>1, <1>2, <1>3

(* What the copy that replaces the loop puts at index y.                      *)
Source(st, a, ext, y) ==
  At(Content(st, a.args[2].root),
     Position(st, Slice(a.args[2].root, Front(a.args[2].idx), ext)) \o y)

LEMMA ElementCopied ==
  ASSUME NEW own, NEW t, Good(t, own), t.live,
         NEW x, NEW a, NEW var, NEW ext, CopiesElements(x, a, var, ext, own),
         NEW k \in Nat, Content(t, var) = Whole(k)
  PROVE  LET d == a.args[1].root
         IN Do(t, Act("assign", a, 0)) =
              Store(t, d, [y \in IndexTuples(d) |-> IF y = <<k>> THEN Source(t, a, ext, <<k>>)
                                                    ELSE Content(t, d)[y]])
<1> DEFINE target == a.args[1]
           source == a.args[2]
           d == target.root
           act == Act("assign", a, 0)
           w == ValueOf(t, source)
<1>1. /\ a.kind = "assign" /\ a.op = "none" /\ target.form = "elem" /\ source.form = "elem"
      /\ d \in Buffers /\ d \in own /\ d \in Names
  BY DEF CopiesElements, Names
<1>2. t.opaque = FALSE
  BY GoodHas
<1>3. Do(t, act) = RunAssign(t, "none", a.args)
  <2>1. act.do = "assign" /\ act.op = a.op /\ act.args = a.args
    BY ActIs
  <2> QED
    BY <1>1, <2>1, DoIs
<1>4. RunAssign(t, "none", a.args) = StoreTo(t, target, AssignedValue(t, "none", a.args))
  BY <1>1, <1>2, AssignIs
<1>5. AssignedValue(t, "none", a.args) = w
  BY DEF AssignedValue
<1>6. Position(t, target) = <<k>> /\ w = Source(t, a, ext, <<k>>)
  <2>1. /\ Position(t, target) = <<k>>
        /\ Position(t, source) = Position(t, Slice(source.root, Front(source.idx), ext)) \o <<k>>
    BY TurnPositions
  <2>2. w = At(Content(t, source.root), Position(t, source))
    BY <1>1 DEF ValueOf
  <2> QED
    BY <2>1, <2>2 DEF Source
<1>7. t.env[d] = d /\ DOMAIN Content(t, d) = IndexTuples(d)
  <2>1. Content(t, d) = [y \in IndexTuples(d) |-> Content(t, d)[y]]
    BY <1>1, OwnContent
  <2> QED
    BY <1>1, <2>1, OwnContent
<1> HIDE DEF w
<1>8. \A y : Stored(t, target, w, y) = IF y = <<k>> THEN w ELSE Content(t, d)[y]
  BY <1>1, <1>6 DEF Stored
<1>9. StoreTo(t, target, w) = Store(t, d, [y \in IndexTuples(d) |-> Stored(t, target, w, y)])
  BY <1>1, <1>7 DEF StoreTo
<1>10. [y \in IndexTuples(d) |-> Stored(t, target, w, y)]
     = [y \in IndexTuples(d) |-> IF y = <<k>> THEN Source(t, a, ext, <<k>>) ELSE Content(t, d)[y]]
  BY <1>6, <1>8
<1> QED
  BY <1>3, <1>4, <1>5, <1>9, <1>10

LEMMA BulkLoads ==
  ASSUME NEW st, NEW own, NEW x, NEW a, NEW var, NEW ext, CopiesElements(x, a, var, ext, own)
  PROVE  Loaded(st, BulkCopy(x, a)) = [y \in IndexTuples(a.args[1].root) |-> Source(st, a, ext, y)]
<1> DEFINE b == BulkCopy(x, a)
           source == a.args[2]
           d == a.args[1].root
           slice == Slice(source.root, Front(source.idx), ext)
           value == ValueOf(st, slice)
<1>1. b.args[1] = slice /\ b.args[2] = Name(d)
  BY BulkCopyIs
<1>2. b.args[2].root = d
  BY <1>1 DEF Name
<1>3. IndexTuples(d) = {<<j>> : j \in Columns(ext)}
  BY DEF CopiesElements
<1>4. slice.form = "slice" /\ slice.root = source.root /\ slice.ext = ext
  BY DEF Slice
<1> HIDE DEF b, slice
<1>5. value = [y \in {<<j>> : j \in Columns(ext)} |-> At(Content(st, source.root), Position(st, slice) \o y)]
  BY <1>4 DEF ValueOf
<1>6. value = [y \in IndexTuples(d) |-> Source(st, a, ext, y)]
  BY <1>3, <1>5 DEF Source, slice
<1> HIDE DEF value
<1>7. Loaded(st, b) = [y \in IndexTuples(d) |-> IF DOMAIN value = IndexTuples(d) THEN value[y] ELSE <<"mismatch">>]
  BY <1>1, <1>2 DEF Loaded, value
<1> QED
  BY <1>6, <1>7 DEF b

(* The state in a copy loop that started from b: its variable is v, and what it *)
(* copies to is y.                                                              *)
Within(b, var, d, v, y) == Store(Store(b, var, v), d, y)

InLoop(own, t, b, var, d, v, y) ==
  /\ Good(t, own) /\ t.live = b.live /\ t.outer = b.outer
  /\ Content(t, var) = v /\ Content(t, d) = y
  /\ \A n \in Names \ {var, d} : Content(t, n) = Content(b, n)
  /\ \A u : Store(t, var, u) = Within(b, var, d, u, y)
  /\ \A z : Store(t, d, z) = Within(b, var, d, v, z)

LEMMA WithinIs ==
  ASSUME NEW own, NEW b, Good(b, own), NEW var \in Scalars, var \in own, NEW d \in Buffers, d \in own,
         NEW v, NEW y, y = [i \in IndexTuples(d) |-> y[i]]
  PROVE  InLoop(own, Within(b, var, d, v, y), b, var, d, v, y)
<1> DEFINE p == Store(b, var, v)
           t == Store(p, d, y)
<1>1. var # d /\ var \in Names /\ d \in Names /\ var \in Cells /\ d \in Cells
  BY KernelAssumption DEF Names, Cells
<1>2. Good(p, own)
  <2>1. var \notin Buffers
    BY KernelAssumption
  <2> QED
    BY <1>1, <2>1, GoodStore
<1>3. Good(t, own)
  BY <1>1, <1>2, GoodStore
<1>4. /\ \A n \in Names \ {var} : Content(p, n) = Content(b, n)
      /\ Content(p, var) = v
  BY <1>1, Hidden
<1>5. p.live = b.live /\ p.outer = b.outer
  <2>1. Shaped(b)
    BY GoodHas
  <2> QED
    BY <2>1, StoreIs
<1> HIDE DEF p
<1>6. /\ \A n \in Names \ {d} : Content(t, n) = Content(p, n)
      /\ Content(t, d) = y
  BY <1>1, <1>2, Hidden
<1>7. t.live = p.live /\ t.outer = p.outer
  <2>1. Shaped(p)
    BY <1>2, GoodHas
  <2> QED
    BY <2>1, StoreIs
<1>8. \A z : Store(t, d, z) = Store(p, d, z)
  BY <1>2, StoreTwice
<1>9. ASSUME NEW u PROVE Store(t, var, u) = Store(Store(b, var, u), d, y)
  <2>1. Store(Store(p, d, y), var, u) = Store(Store(p, var, u), d, y)
    BY <1>1, <1>2, StoreSwap
  <2>2. Store(p, var, u) = Store(b, var, u)
    BY StoreTwice DEF p
  <2> QED
    BY <2>1, <2>2
<1> HIDE DEF t
<1>10. /\ t.live = b.live /\ t.outer = b.outer /\ Content(t, var) = v /\ Content(t, d) = y
       /\ \A n \in Names \ {var, d} : Content(t, n) = Content(b, n)
  BY <1>1, <1>4, <1>5, <1>6, <1>7
<1> QED
  BY <1>3, <1>8, <1>9, <1>10 DEF InLoop, Within, t, p

\* What the destination holds after n turns of a copy loop that started from b.
Copied(b, a, ext, n) ==
  [y \in IndexTuples(a.args[1].root) |-> IF y[1] < n THEN Source(b, a, ext, y)
                                         ELSE Content(b, a.args[1].root)[y]]

LEMMA SourceSame ==
  ASSUME NEW own, NEW x, NEW a, NEW var, NEW ext, CopiesElements(x, a, var, ext, own),
         NEW t, NEW b, \A n \in Names \ {var, a.args[1].root} : Content(t, n) = Content(b, n), NEW y
  PROVE  Source(t, a, ext, y) = Source(b, a, ext, y)
<1> DEFINE source == a.args[2]
           d == a.args[1].root
           slice == Slice(source.root, Front(source.idx), ext)
<1>1. /\ slice \in Expressions /\ var \notin ReadExpression(slice) /\ d \notin ReadExpression(slice)
  BY BulkCopyIs
<1>2. slice.root = source.root /\ slice.form = "slice"
  BY DEF Slice
<1> HIDE DEF slice
<1>3. ReadExpression(slice) \subseteq Names
  BY <1>1, ReadsAreNames
<1>4. AgreeOn(t, b, ReadExpression(slice))
  BY <1>1, <1>3 DEF AgreeOn
<1>5. ReadIndices(slice) \subseteq ReadExpression(slice) /\ source.root \in ReadExpression(slice)
  BY <1>2 DEF ReadExpression, ReadAtom
<1>6. Position(t, slice) = Position(b, slice)
  BY <1>4, <1>5, PositionDepends DEF AgreeOn
<1>7. Content(t, source.root) = Content(b, source.root)
  BY <1>4, <1>5 DEF AgreeOn
<1> QED
  BY <1>6, <1>7 DEF Source, slice

\* A turn that counts k copies one element more.
TurnDone(b, x, a, var, ext, k, n, v) ==
  LET d == a.args[1].root
      t == Within(b, var, d, v, Copied(b, a, ext, k))
  IN Do(Do(t, Act("turn", x, k)), Act("assign", a, 0)) = Within(b, var, d, Whole(k), Copied(b, a, ext, n))

LEMMA TurnCopies ==
  ASSUME NEW own, NEW b, Good(b, own), b.live,
         NEW x, NEW a, NEW var, NEW ext, CopiesElements(x, a, var, ext, own),
         NEW k \in Nat, NEW n, n = k + 1, NEW v
  PROVE  TurnDone(b, x, a, var, ext, k, n, v)
<1> DEFINE d == a.args[1].root
           before == Copied(b, a, ext, k)
           t == Within(b, var, d, v, before)
           u == Within(b, var, d, Whole(k), before)
           turn == Act("turn", x, k)
<1>1. /\ var \in Scalars /\ var \in own /\ d \in Buffers /\ d \in own /\ x.args = <<Name(var), Name(ext)>>
      /\ IndexTuples(d) = {<<j>> : j \in Columns(ext)} /\ ext \in DOMAIN Size
  BY DEF CopiesElements
<1>2. n \in Nat
  OBVIOUS
<1>3. before = [i \in IndexTuples(d) |-> before[i]]
  BY DEF Copied
<1>4. \A i \in IndexTuples(d) :
        before[i] = IF i[1] < k THEN Source(b, a, ext, i) ELSE Content(b, d)[i]
  BY DEF Copied
<1> HIDE DEF before, d
<1>a. \A w : InLoop(own, Within(b, var, d, w, before), b, var, d, w, before)
  BY <1>1, <1>3, WithinIs
<1>5. Good(t, own) /\ t.live = b.live /\ \A z : Store(t, var, z) = Within(b, var, d, z, before)
  BY <1>a DEF InLoop
<1>6. /\ Good(u, own) /\ u.live = b.live /\ Content(u, var) = Whole(k) /\ Content(u, d) = before
      /\ \A m \in Names \ {var, d} : Content(u, m) = Content(b, m)
      /\ \A z : Store(u, d, z) = Within(b, var, d, Whole(k), z)
  BY <1>a DEF InLoop
<1>7. Do(t, turn) = u
  <2>1. turn.do = "turn" /\ turn.args = x.args /\ turn.turn = k
    BY ActIs
  <2>2. turn.args[1].root = var
    BY <1>1, <2>1 DEF Name
  <2> HIDE DEF t, turn
  <2>5. t.live
    BY <1>5
  <2>6. turn.do = "turn" => Do(t, turn) = Bind(t, turn.args[1].root, Whole(turn.turn))
    BY <2>5, DoIs
  <2>3. Do(t, turn) = Bind(t, var, Whole(k))
    BY <2>1, <2>2, <2>6
  <2>4. Bind(t, var, Whole(k)) = Store(t, var, Whole(k))
    BY <1>1, <1>5, BindOwn
  <2> QED
    BY <1>5, <2>3, <2>4 DEF u
<1> HIDE DEF t, u, turn
<1> DEFINE z == [y \in IndexTuples(d) |-> IF y = <<k>> THEN Source(u, a, ext, <<k>>) ELSE before[y]]
<1>8. Do(u, Act("assign", a, 0)) = Store(u, d, z)
  <2>1. u.live
    BY <1>6
  <2>2. Do(u, Act("assign", a, 0)) =
          Store(u, d, [y \in IndexTuples(d) |-> IF y = <<k>> THEN Source(u, a, ext, <<k>>)
                                                ELSE Content(u, d)[y]])
    BY <1>2, <1>6, <2>1, ElementCopied DEF d
  <2> QED
    BY <1>6, <2>2
<1>9. z = Copied(b, a, ext, n)
  <2>1. Source(u, a, ext, <<k>>) = Source(b, a, ext, <<k>>)
    BY <1>6, SourceSame DEF d
  <2>2. ASSUME NEW y \in IndexTuples(d)
        PROVE  (IF y = <<k>> THEN Source(u, a, ext, <<k>>) ELSE before[y])
               = IF y[1] < n THEN Source(b, a, ext, y) ELSE Content(b, d)[y]
    <3>1. PICK j \in Columns(ext) : y = <<j>>
      BY <1>1
    <3>2. j \in Int /\ y[1] = j
      BY <3>1 DEF Columns
    <3>3. CASE j = k
      BY <2>1, <3>1, <3>2, <3>3
    <3>4. CASE j # k
      <4>1. y # <<k>>
        BY <3>2, <3>4
      <4>2. before[y] = IF j < k THEN Source(b, a, ext, y) ELSE Content(b, d)[y]
        BY <1>4, <3>2
      <4>3. (j < k) <=> (j < n)
        BY <3>2, <3>4
      <4> QED
        BY <3>2, <4>1, <4>2, <4>3
    <3> QED
      BY <3>3, <3>4
  <2> QED
    BY <2>2 DEF Copied, d
<1> HIDE DEF z
<1>10. Do(u, Act("assign", a, 0)) = Within(b, var, d, Whole(k), Copied(b, a, ext, n))
  BY <1>6, <1>8, <1>9
<1> QED
  BY <1>7, <1>10 DEF TurnDone, t, turn, before, d

LEMMA OnePart ==
  ASSUME NEW A, NEW parts \in [1..1 -> Seq(A)], NEW st
  PROVE  After(st, FlattenSeq(parts)) = After(st, parts[1])
<1>1. 1 \in Nat
  OBVIOUS
<1>2. PICK c : Rounds(c, st, parts, 1) /\ After(st, FlattenSeq(parts)) = c[1]
  BY <1>1, AfterAll
<1>3. c[0] = st /\ c[1] = After(c[0], parts[1])
  <2>1. 1 \in 1..1 /\ 1 - 1 = 0
    OBVIOUS
  <2> QED
    BY <1>2, <2>1 DEF Rounds
<1> QED
  BY <1>2, <1>3

LEMMA LoopCopies ==
  ASSUME NEW own, NEW b, Good(b, own), b.live,
         NEW x, NEW a, NEW var, NEW ext, CopiesElements(x, a, var, ext, own),
         NEW A, ActsOf(x) \subseteq A, Act("assign", a, 0) \in A,
         NEW parts \in [1..1 -> Seq(A)], parts[1] = <<Act("assign", a, 0)>>, Turns(x) \in Nat
  PROVE  \E v : After(b, FlattenSeq(AllTurns(x, parts)))
                  = Within(b, var, a.args[1].root, v, Loaded(b, BulkCopy(x, a)))
<1> DEFINE d == a.args[1].root
           N == Turns(x)
           value(n) == IF n = 0 THEN Content(b, var) ELSE Whole(n - 1)
           r == [n \in 0..N |-> Within(b, var, d, value(n), Copied(b, a, ext, n))]
           assign == Act("assign", a, 0)
<1>1. /\ var \in Scalars /\ var \in own /\ d \in Buffers /\ d \in own /\ x.args = <<Name(var), Name(ext)>>
      /\ x.kind = "for" /\ IndexTuples(d) = {<<j>> : j \in Columns(ext)} /\ ext \in DOMAIN Size
  BY DEF CopiesElements
<1>2. N = Size[ext]
  BY <1>1 DEF Turns, Name
<1>3. \A y \in IndexTuples(d) : y[1] \in Int /\ 0 <= y[1] /\ y[1] < N
  <2>1. Size[ext] \in Int
    BY <1>1, KernelAssumption
  <2> QED
    BY <1>1, <1>2, <2>1 DEF Columns
<1>4. r[0] = b
  <2>1. Copied(b, a, ext, 0) = [y \in IndexTuples(d) |-> Content(b, d)[y]]
    BY <1>3 DEF Copied
  <2>2. /\ Content(b, d) = [y \in IndexTuples(d) |-> Content(b, d)[y]]
        /\ Content(b, d) = b.mem[d] /\ Content(b, var) = b.mem[var]
    BY <1>1, OwnContent DEF Names
  <2>3. Store(b, var, Content(b, var)) = b
    BY <2>2, StoreNothing
  <2>4. Store(b, d, Content(b, d)) = b
    BY <2>2, StoreNothing
  <2>5. Within(b, var, d, Content(b, var), Content(b, d)) = b
    BY <2>3, <2>4 DEF Within
  <2>6. 0 \in 0..N /\ value(0) = Content(b, var)
    OBVIOUS
  <2> HIDE DEF value
  <2>7. r[0] = Within(b, var, d, value(0), Copied(b, a, ext, 0))
    BY <2>6
  <2> QED
    BY <2>1, <2>2, <2>5, <2>6, <2>7
<1>5. ASSUME NEW st PROVE After(st, FlattenSeq(parts)) = Do(st, assign)
  <2>1. After(st, FlattenSeq(parts)) = After(st, parts[1])
    BY OnePart
  <2> QED
    BY <2>1, AfterOne
<1>6. FlattenSeq(parts) \in Seq(A) /\ AllTurns(x, parts) \in [1..N -> Seq(A)]
  <2>1. 1 \in Nat
    OBVIOUS
  <2> QED
    BY <2>1, AroundActs
<1>7. ASSUME NEW n \in 1..N PROVE r[n] = After(r[n - 1], AllTurns(x, parts)[n])
  <2> DEFINE t == Within(b, var, d, value(n - 1), Copied(b, a, ext, n - 1))
             turn == Act("turn", x, n - 1)
  <2>1. n \in Nat \ {0} /\ n - 1 \in 0..N /\ n \in 0..N
    OBVIOUS
  <2>2. AllTurns(x, parts)[n] = <<turn>> \o FlattenSeq(parts)
    BY <1>1 DEF AllTurns, OneTurn, TurnOpening
  <2>3. <<turn>> \in Seq(A)
    <3>1. TurnOpening(x, n) \in Seq(A)
      BY <2>1, EdgesAreActs
    <3>2. TurnOpening(x, n) = <<turn>>
      BY <1>1 DEF TurnOpening
    <3> QED
      BY <3>1, <3>2
  <2>4. r[n - 1] = t
    BY <2>1
  <2>5. r[n] = Within(b, var, d, Whole(n - 1), Copied(b, a, ext, n))
    BY <2>1
  <2> HIDE DEF r, turn
  <2>6. After(t, <<turn>> \o FlattenSeq(parts)) = After(After(t, <<turn>>), FlattenSeq(parts))
    BY <1>6, <2>3, AfterBoth
  <2>7. After(t, <<turn>>) = Do(t, turn)
    BY AfterOne
  <2> HIDE DEF value
  <2>8. Do(Do(t, turn), assign) = Within(b, var, d, Whole(n - 1), Copied(b, a, ext, n))
    <3> DEFINE w == value(n - 1)
               k == n - 1
    <3>1. k \in Nat /\ n = k + 1
      BY <2>1
    <3> HIDE DEF w, k
    <3>2. TurnDone(b, x, a, var, ext, k, n, w)
      BY <3>1, TurnCopies
    <3> QED
      BY <3>2 DEF TurnDone, turn, w, k
  <2> QED
    BY <1>5, <2>2, <2>4, <2>5, <2>6, <2>7, <2>8
<1>8. r[N] = Within(b, var, d, value(N), Copied(b, a, ext, N))
  OBVIOUS
<1>9. Copied(b, a, ext, N) = Loaded(b, BulkCopy(x, a))
  <2>1. Copied(b, a, ext, N) = [y \in IndexTuples(d) |-> Source(b, a, ext, y)]
    BY <1>3 DEF Copied
  <2> QED
    BY <2>1, BulkLoads
<1> HIDE DEF r, N, value
<1>10. Rounds(r, b, AllTurns(x, parts), N)
  BY <1>4, <1>7 DEF Rounds
<1>11. \A c : Rounds(c, b, AllTurns(x, parts), N) => After(b, FlattenSeq(AllTurns(x, parts))) = c[N]
  <2>1. N \in Nat
    BY DEF N
  <2> QED
    BY <1>6, <2>1, RoundsEnd
<1>12. After(b, FlattenSeq(AllTurns(x, parts))) = r[N]
  BY <1>10, <1>11
<1> QED
  BY <1>8, <1>9, <1>12

(* -- a copy loop and the copy that replaces it ---------------------------------------------- *)
LEMMA AfterTheEnd ==
  ASSUME NEW A, NEW acts \in Seq(A), NEW st, ~st.live
  PROVE  After(st, acts) = st
<1> DEFINE n == Len(acts)
<1>1. n \in Nat
  BY Elements
<1>2. PICK r : Run(r, st, acts) /\ After(st, acts) = r[n]
  BY <1>1, RunExists
<1> HIDE DEF n
<1> DEFINE S == {i \in 0..n : r[i] = st}
<1>3. 0 \in S
  BY <1>1, <1>2 DEF Run
<1>4. ASSUME NEW i \in 1..n, i - 1 \in S PROVE i \in S
  <2>1. r[i] = Do(r[i - 1], acts[i]) /\ i \in 0..n /\ r[i - 1] = st
    BY <1>2, <1>4 DEF Run, n
  <2>2. Do(st, acts[i]) = st
    BY DoneIs
  <2> QED
    BY <2>1, <2>2
<1> HIDE DEF S
<1>5. 0..n \subseteq S
  BY <1>1, <1>3, <1>4, Upwards
<1> QED
  BY <1>1, <1>2, <1>5 DEF S

OuterSet(own, t, st, e) ==
  /\ Good(t, own) /\ t.env = st.env /\ t.mem = st.mem /\ t.outer = e
  /\ t.trace = st.trace /\ t.live = st.live
Reouted(t, st, e) == t = [st EXCEPT !.outer = e]

LEMMA NewOuter ==
  ASSUME NEW own, NEW st, Good(st, own), NEW e, NEW t, Reouted(t, st, e)
  PROVE  OuterSet(own, t, st, e)
<1> DEFINE c == [st EXCEPT !.outer = e]
<1>1. /\ Good(c, own) /\ c.env = st.env /\ c.mem = st.mem /\ c.outer = e
      /\ c.trace = st.trace /\ c.live = st.live
  BY OuterIs
<1>2. t = c
  BY DEF Reouted
<1> HIDE DEF c
<1> QED
  BY <1>1, <1>2 DEF OuterSet

Restored(b, st, d, w) == [Store(b, d, w) EXCEPT !.outer = st.outer] = Store(st, d, w)
Filled(w, d) == w = [y \in IndexTuples(d) |-> w[y]]

LEMMA OuterRestored ==
  ASSUME NEW own, NEW st, Good(st, own), NEW b, Good(b, own), b.env = st.env, b.mem = st.mem,
         b.trace = st.trace, b.live = st.live, NEW d, NEW w, Good(Store(b, d, w), own)
  PROVE  Restored(b, st, d, w)
<1> DEFINE p == Store(b, d, w)
           q == Store(st, d, w)
           z == [p EXCEPT !.outer = st.outer]
<1>1. Shaped(b) /\ Shaped(st) /\ st.opaque = FALSE
  BY GoodHas
<1>2. /\ p.env = b.env /\ p.trace = b.trace /\ p.live = b.live
  BY <1>1, StoreIs
<1>3. p.mem = [b.mem EXCEPT ![d] = w]
  BY <1>1, StoreMem
<1>4. /\ Shaped(q) /\ q.env = st.env /\ q.trace = st.trace /\ q.live = st.live /\ q.outer = st.outer
      /\ q.opaque = st.opaque
  BY <1>1, StoreIs
<1>5. q.mem = [st.mem EXCEPT ![d] = w]
  BY <1>1, StoreMem
<1> HIDE DEF p, q
<1>6. Good(p, own)
  BY DEF p
<1>7. /\ Good(z, own) /\ z.env = p.env /\ z.mem = p.mem /\ z.outer = st.outer
      /\ z.trace = p.trace /\ z.live = p.live
  BY <1>6, OuterIs
<1> HIDE DEF z
<1>8. Shaped(z) /\ z.opaque = FALSE
  BY <1>7, GoodHas
<1>9. z.mem = q.mem
  BY <1>3, <1>5, <1>7
<1>10. z = q
  BY <1>1, <1>2, <1>4, <1>7, <1>8, <1>9, SameState
<1> QED
  BY <1>10 DEF z, p, q, Restored

\* The end of a loop that started from st and got to b behind its first act.
Leaves(st, b, x, var, d, v, w) == Do(Within(b, var, d, v, w), Act("leave", x, 0)) = Store(st, d, w)

Entered(own, st, b, x, var, d, v, w) ==
  /\ Good(b, own) /\ b.live /\ b.env = st.env /\ b.mem = st.mem
  /\ Leaves(st, b, x, var, d, v, w)

(* The loop in a live state.                                                 *)
LEMMA LoopThenLeave ==
  ASSUME NEW own, NEW st, Good(st, own), st.live,
         NEW x, NEW a, NEW var, NEW ext, CopiesElements(x, a, var, ext, own),
         NEW b, b = Do(st, Act("enter", x, 0)), NEW v, NEW w, Filled(w, a.args[1].root)
  PROVE  Entered(own, st, b, x, var, a.args[1].root, v, w)
<1> DEFINE d == a.args[1].root
           enter == Act("enter", x, 0)
           leave == Act("leave", x, 0)
           t == Within(b, var, d, v, w)
           m == st.mem[var]
<1>1. /\ var \in Scalars /\ var \in own /\ d \in Buffers /\ d \in own /\ x.args = <<Name(var), Name(ext)>>
      /\ var \in Names
  BY DEF CopiesElements, Names
<1>2. x.args[1].root = var
  BY <1>1 DEF Name
<1> DEFINE o == <<m, st.outer>>
<1>3. b = [st EXCEPT !.outer = o]
  <2>1. enter.do = "enter" /\ enter.args = x.args
    BY ActIs
  <2>2. st.opaque = FALSE
    BY GoodHas
  <2> HIDE DEF enter
  <2>3. enter.do = "enter" =>
          Do(st, enter) = [IF st.opaque THEN Unknown(st) ELSE st
                             EXCEPT !.outer = <<st.mem[enter.args[1].root], st.outer>>]
    BY DoIs
  <2> QED
    BY <1>2, <2>1, <2>2, <2>3 DEF enter
<1> HIDE DEF m, d, o
<1>4. /\ Good(b, own) /\ b.env = st.env /\ b.mem = st.mem /\ b.outer = o
      /\ b.trace = st.trace /\ b.live = st.live
  <2>1. Reouted(b, st, o)
    BY <1>3 DEF Reouted
  <2>2. OuterSet(own, b, st, o)
    BY <2>1, NewOuter
  <2> QED
    BY <2>2 DEF OuterSet
<1>5. b.live
  BY <1>4
<1>6. InLoop(own, t, b, var, d, v, w)
  BY <1>1, <1>4, WithinIs DEF d, Filled
<1>7. Good(t, own) /\ t.live = b.live /\ t.outer = b.outer /\ \A u : Store(t, var, u) = Within(b, var, d, u, w)
  BY <1>6 DEF InLoop
<1> HIDE DEF t
<1>8. t.live /\ t.outer[1] = m /\ t.outer[2] = st.outer
  BY <1>4, <1>5, <1>7 DEF o
<1>9. Do(t, leave) = [Bind(t, var, m) EXCEPT !.outer = st.outer]
  <2>1. leave.do = "leave" /\ leave.args = x.args
    BY ActIs
  <2> HIDE DEF leave
  <2>2. leave.do = "leave" =>
          Do(t, leave) = [Bind(t, leave.args[1].root, t.outer[1]) EXCEPT !.outer = t.outer[2]]
    BY <1>8, DoIs
  <2> QED
    BY <1>2, <1>8, <2>1, <2>2
<1>10. Bind(t, var, m) = Store(b, d, w)
  <2>1. Bind(t, var, m) = Store(t, var, m)
    BY <1>1, <1>7, BindOwn
  <2>2. Store(b, var, m) = b
    BY <1>4, StoreNothing DEF m
  <2> QED
    BY <1>7, <2>1, <2>2 DEF Within
<1>11. Good(Store(b, d, w), own)
  <2>1. d \in Cells
    BY <1>1 DEF Cells, Names
  <2> QED
    BY <1>4, <2>1, GoodStore DEF d, Filled
<1>12. Restored(b, st, d, w)
  BY <1>4, <1>11, OuterRestored
<1>13. Do(t, leave) = Store(st, d, w)
  BY <1>9, <1>10, <1>12 DEF Restored
<1> QED
  BY <1>4, <1>5, <1>13 DEF t, d, Leaves, Entered

LEMMA CopyLoopSame ==
  ASSUME NEW own, NEW x, NEW a, NEW var, NEW ext, CopiesElements(x, a, var, ext, own), Turns(x) \in Nat,
         NEW A, ActsOf(x) \subseteq A, Act("assign", a, 0) \in A,
         NEW parts \in [1..1 -> Seq(A)], parts[1] = <<Act("assign", a, 0)>>
  PROVE  Same(Around(x, parts), <<Act("call", BulkCopy(x, a), 0)>>, own)
<1> DEFINE d == a.args[1].root
           y == BulkCopy(x, a)
           call == Act("call", y, 0)
           turns == FlattenSeq(AllTurns(x, parts))
           enter == Act("enter", x, 0)
           leave == Act("leave", x, 0)
<1> SUFFICES ASSUME NEW st, Good(st, own) PROVE After(st, Around(x, parts)) = After(st, <<call>>)
  BY DEF Same
<1>1. x.kind = "for"
  BY DEF CopiesElements
<1>2. Opening(x) = <<enter>> /\ Closing(x) = <<leave>>
  BY <1>1 DEF Opening, Closing
<1>3. /\ turns \in Seq(A) /\ Opening(x) \o turns \in Seq(A) /\ Around(x, parts) \in Seq(A)
  <2>1. 1 \in Nat
    OBVIOUS
  <2> QED
    BY <2>1, AroundActs
<1>4. Opening(x) \in Seq(A) /\ Closing(x) \in Seq(A)
  BY EdgesAreActs
<1>5. Around(x, parts) = (Opening(x) \o turns) \o Closing(x)
  BY AroundIs
<1>6. After(st, <<call>>) = Do(st, call)
  BY AfterOne
<1>9. After(st, Around(x, parts)) = Do(After(Do(st, enter), turns), leave)
  <2>1. After(st, (Opening(x) \o turns) \o Closing(x)) = After(After(st, Opening(x) \o turns), Closing(x))
    BY <1>3, <1>4, AfterBoth
  <2>2. After(st, Opening(x) \o turns) = After(After(st, Opening(x)), turns)
    BY <1>3, <1>4, AfterBoth
  <2>3. After(st, Opening(x)) = Do(st, enter)
    BY <1>2, AfterOne
  <2>4. \A t : After(t, Closing(x)) = Do(t, leave)
    BY <1>2, AfterOne
  <2> QED
    BY <1>5, <2>1, <2>2, <2>3, <2>4
<1>7. CASE ~st.live
  <2>1. After(st, Around(x, parts)) = st
    BY <1>3, <1>7, AfterTheEnd
  <2>2. Do(st, call) = st
    BY <1>7, DoneIs
  <2> QED
    BY <1>6, <2>1, <2>2
<1>8. CASE st.live
  <2> DEFINE b == Do(st, enter)
             w == Loaded(b, y)
  <2>0. Filled(w, d)
    <3>1. w = [i \in IndexTuples(d) |-> Source(b, a, ext, i)]
      BY BulkLoads
    <3> HIDE DEF w
    <3> QED
      BY <3>1 DEF Filled
  <2>1. b = Do(st, enter)
    OBVIOUS
  <2> HIDE DEF w, b
  <2>5. /\ Good(b, own) /\ b.live /\ b.env = st.env /\ b.mem = st.mem
        /\ \A v : Leaves(st, b, x, var, d, v, w)
    <3>1. ASSUME NEW v PROVE Entered(own, st, b, x, var, d, v, w)
      BY <1>8, <2>0, <2>1, LoopThenLeave
    <3> HIDE DEF d
    <3> QED
      BY <3>1 DEF Entered
  <2>6. PICK v : After(b, turns) = Within(b, var, d, v, w)
    <3>1. \E v : After(b, turns) = Within(b, var, d, v, Loaded(b, y))
      BY <2>5, LoopCopies
    <3> QED
      BY <3>1 DEF w
  <2>7. After(st, Around(x, parts)) = Store(st, d, w)
    <3>1. Do(Within(b, var, d, v, w), leave) = Store(st, d, w)
      BY <2>5 DEF Leaves
    <3> QED
      BY <1>9, <2>1, <2>6, <3>1
  <2>8. IsLoad(y, own) /\ y.args[2].root = d
    <3>1. IsLoad(y, own) /\ y.args[2] = Name(d)
      BY BulkCopyIs
    <3> HIDE DEF y, d
    <3> QED
      BY <3>1 DEF Name
  <2> HIDE DEF y, d
  <2>9. Do(st, call) = Store(st, d, Loaded(st, y))
    BY <1>8, <2>8, LoadIs
  <2>10. AgreeOn(b, st, ReadExpression(y.args[1]))
    BY <2>5 DEF AgreeOn, Content
  <2>11. w = Loaded(st, y)
    BY <2>10, LoadedSame DEF w
  <2> QED
    BY <1>6, <2>7, <2>9, <2>11
<1> QED
  BY <1>7, <1>8

(* -- the rewriting of a copy loop in its table ------------------------------------------------ *)
LEMMA CodeOfAssign ==
  ASSUME NEW node, WellFormed(node), NEW s \in DOMAIN node, node[s].kind = "assign", NEW taken
  PROVE  Code(node, taken)[s] = <<Act("assign", node[s], 0)>>
<1> DEFINE x == node[s]
           parts == Parts(node, taken, Chosen(node, taken, s))
           A == {Act("assign", x, 0)}
<1>1. Code(node, taken)[s] = Around(x, parts)
  BY CodeUnfolds DEF Parts
<1>2. Opening(x) = <<Act("assign", x, 0)>> /\ Turns(x) = 0 /\ Closing(x) = <<>>
  BY DEF Opening, Turns, Closing
<1>3. AllTurns(x, parts) \in [1..0 -> Seq(A)]
  BY <1>2 DEF AllTurns
<1>4. PICK f : Joins(f, AllTurns(x, parts), 0, A)
  BY <1>3, Flattening
<1>5. FlattenSeq(AllTurns(x, parts)) = <<>>
  BY <1>4 DEF Joins
<1>6. <<Act("assign", x, 0)>> \in Seq(A)
  OBVIOUS
<1>7. <<Act("assign", x, 0)>> \o <<>> = <<Act("assign", x, 0)>>
  BY <1>6, ConcatEmptySeq
<1>8. Around(x, parts) = Opening(x) \o FlattenSeq(AllTurns(x, parts)) \o Closing(x)
  BY AroundIs
<1> QED
  BY <1>1, <1>2, <1>5, <1>7, <1>8

LEMMA OneBelow ==
  ASSUME NEW node, WellFormed(node), NEW s \in DOMAIN node, Len(node[s].body) = 1
  PROVE  node[s].body[1] \in DOMAIN node /\ DOMAIN node[s].body = 1..1
         /\ node[s].body[1] \in (s + 1)..Len(node)
<1>1. node[s].body \in Seq((s + 1)..Len(node)) /\ DOMAIN node = 1..Len(node)
  BY ListsBelow
<1>2. /\ \A j \in DOMAIN node[s].body : node[s].body[j] \in (s + 1)..Len(node)
      /\ DOMAIN node[s].body = 1..Len(node[s].body)
  BY <1>1, Elements
<1>3. DOMAIN node[s].body = 1..1
  BY <1>2
<1>4. node[s].body[1] \in (s + 1)..Len(node)
  <2>1. 1 \in 1..1
    OBVIOUS
  <2> QED
    BY <1>2, <1>3, <2>1
<1> QED
  BY <1>1, <1>3, <1>4

LEMMA CopyLoopUpdates ==
  ASSUME NEW node, WellFormed(node), NEW s \in DOMAIN node, NEW y, IsStatement(y), y.kind = "call",
         y.body = <<>>, y.orelse = <<>>, y.args \in Seq(Expressions)
  PROVE  LET node2 == [node EXCEPT ![s] = y]
         IN DifferAt(node, node2, s) /\ node2[s] = y
<1> DEFINE node2 == [node EXCEPT ![s] = y]
<1>1. Updated(node, node2, s, y)
  BY DEF Updated
<1>2. node2[s] = y
  OBVIOUS
<1> HIDE DEF node2
<1>3. ASSUME Len(node2) = Len(node) PROVE WellFormedStatement(node2, s)
  <2>1. y.body \in Seq((s + 1)..Len(node2)) /\ y.orelse \in Seq((s + 1)..Len(node2))
    OBVIOUS
  <2>2. y = [kind |-> y.kind, op |-> y.op, args |-> y.args, body |-> y.body, orelse |-> y.orelse,
             glued |-> y.glued]
    BY DEF IsStatement
  <2>3. /\ y.kind # "for" => y.args \in Seq(Expressions)
        /\ y.kind # "if" /\ y.kind # "while" /\ y.kind # "for" /\ y.kind # "assign"
    OBVIOUS
  <2> QED
    BY <1>2, <2>1, <2>2, <2>3 DEF WellFormedStatement
<1>4. DifferAt(node, node2, s) /\ node2[s] = y
  BY <1>1, <1>3, UpdatedTable
<1> QED
  BY <1>4 DEF node2

LEMMA ReplacedBinds ==
  ASSUME NEW node, WellFormed(node), NEW node2, NEW s, DifferAt(node, node2, s),
         node[s].kind = "for", node2[s].kind = "call"
  PROVE  Bound(node2) = Bound(node) /\ Own(node2) = Own(node) /\ Outcomes(node2) = Outcomes(node)
<1>1. DOMAIN node2 = DOMAIN node /\ s \in DOMAIN node /\ \A t \in DOMAIN node \ {s} : node2[t] = node[t]
  BY DEF DifferAt
<1>2. ~Binds(node2[s]) /\ ~Binds(node[s])
  BY DEF Binds
<1>3. \A t \in DOMAIN node : /\ Binds(node2[t]) <=> Binds(node[t])
                             /\ Binds(node[t]) => node2[t].args = node[t].args
  BY <1>1, <1>2
<1>4. {t \in DOMAIN node2 : node2[t].kind = "if"} = {t \in DOMAIN node : node[t].kind = "if"}
  BY <1>1
<1> QED
  BY <1>1, <1>3, <1>4, BoundSame DEF Outcomes

LEMMA ReplacedUnaliased ==
  ASSUME NEW node, WellFormed(node), Unaliased(node), NEW node2, NEW s, DifferAt(node, node2, s),
         node[s].kind = "for", node2[s].kind = "call",
         IsGlobalToSharedCopy(node2[s]) => Dependencies(node2[s]) \cap Bound(node) = {}
  PROVE  Unaliased(node2)
<1>1. /\ DOMAIN node2 = DOMAIN node /\ s \in DOMAIN node /\ WellFormed(node2)
      /\ \A t \in DOMAIN node \ {s} : node2[t] = node[t]
  BY DEF DifferAt
<1>2. Bound(node2) = Bound(node)
  BY ReplacedBinds
<1>3. ASSUME NEW t \in DOMAIN node, IsGlobalToSharedCopy(node2[t])
      PROVE  Dependencies(node2[t]) \cap Bound(node2) = {}
  <2>1. CASE t = s
    BY <1>2, <1>3, <2>1
  <2>2. CASE t # s
    <3>1. node2[t] = node[t]
      BY <1>1, <2>2
    <3> QED
      BY <1>2, <1>3, <3>1 DEF Unaliased
  <2> QED
    BY <2>1, <2>2
<1>4. ASSUME NEW t \in DOMAIN node, IsCopyLoop(node2, t)
      PROVE  LoopNames(node2[t], node2[node2[t].body[1]]) \cap Bound(node2) = {}
  <2> DEFINE c == node2[t].body[1]
  <2>1. /\ node2[t].kind = "for" /\ node2[t].op = "Parallel" /\ Len(node2[t].body) = 1
        /\ node2[c].kind = "assign" /\ node2[c].op = "none" /\ Elementwise(node2[t], node2[c])
    BY <1>4 DEF IsCopyLoop
  <2>2. t # s
    BY <2>1
  <2>3. c \in DOMAIN node
    BY <1>1, <2>1, OneBelow
  <2>4. node2[t] = node[t]
    BY <1>1, <2>2
  <2>5. c # s
    BY <2>1
  <2>6. node2[c] = node[c]
    BY <1>1, <2>3, <2>5
  <2>7. c = node[t].body[1]
    BY <2>4
  <2> HIDE DEF c
  <2>8. IsCopyLoop(node, t)
    BY <2>1, <2>4, <2>6, <2>7 DEF IsCopyLoop
  <2>9. LoopNames(node[t], node[c]) \cap Bound(node) = {}
    BY <2>7, <2>8 DEF Unaliased
  <2> QED
    BY <1>2, <2>4, <2>6, <2>9 DEF c
<1> QED
  BY <1>1, <1>3, <1>4 DEF Unaliased

LEMMA ReplacedSame ==
  ASSUME NEW node, WellFormed(node), NEW node2, NEW s, DifferAt(node, node2, s),
         node[s].kind = "for", node2[s].kind = "call", Len(node[s].body) = 1,
         NEW a, a = node[node[s].body[1]], NEW var, NEW ext,
         CopiesElements(node[s], a, var, ext, Own(node)), node2[s] = BulkCopy(node[s], a), NEW taken
  PROVE  Same(Code(node2, taken)[1], Code(node, taken)[1], Own(node))
<1> DEFINE own == Own(node)
           x == node[s]
           c == x.body[1]
           A == AllActs(node, DOMAIN node) \cup AllActs(node2, DOMAIN node2)
           parts == Parts(node, taken, x.body)
<1>1. /\ DOMAIN node2 = DOMAIN node /\ s \in DOMAIN node /\ WellFormed(node2)
  BY DEF DifferAt
<1>2. Own(node2) = own
  BY ReplacedBinds
<1>3. Keeps(A, own)
  <2>1. Keeps(AllActs(node, DOMAIN node), own) /\ Keeps(AllActs(node2, DOMAIN node2), own)
    BY <1>1, <1>2, AllKeepGood
  <2> QED
    BY <2>1 DEF Keeps
<1>4. c \in DOMAIN node /\ DOMAIN x.body = 1..1
  BY <1>1, OneBelow, SMTT(60)
<1>5. a.kind = "assign"
  BY Zenon DEF CopiesElements
<1>6. Code(node, taken)[c] = <<Act("assign", a, 0)>>
  BY <1>4, <1>5, CodeOfAssign
<1>7. Code(node2, taken)[s] = <<Act("call", node2[s], 0)>>
  BY <1>1, CodeOfCall
<1>8. Code(node, taken)[s] = Around(x, parts)
  <2>1. Chosen(node, taken, s) = x.body
    BY DEF Chosen
  <2> QED
    BY <1>1, <2>1, CodeUnfolds DEF Parts
<1>9. parts[1] = <<Act("assign", a, 0)>>
  <2>1. 1 \in DOMAIN x.body
    BY <1>4
  <2> QED
    BY <1>6, <2>1 DEF Parts
<1>10. parts \in [1..1 -> Seq(A)]
  <2>1. x.body \in Seq((s + 1)..Len(node)) /\ DOMAIN node = 1..Len(node) /\ Len(node) \in Nat
    BY <1>1, ListsBelow
  <2>2. (s + 1)..Len(node) \subseteq DOMAIN node
    BY <1>1, <2>1
  <2>3. x.body \in Seq(DOMAIN node)
    BY <2>1, <2>2, MoreActs
  <2>4. AllActs(node, DOMAIN node) \subseteq A
    OBVIOUS
  <2> HIDE DEF A
  <2>5. parts \in [1..Len(x.body) -> Seq(A)]
    BY <2>3, <2>4, PartsAre
  <2> QED
    BY <2>5
<1>11. ActsOf(x) \subseteq A /\ Act("assign", a, 0) \in A
  <2>1. ActsOf(a) = {Act("assign", a, 0)}
    BY <1>5 DEF ActsOf
  <2> QED
    BY <1>1, <1>4, <2>1 DEF AllActs
<1>12. Turns(x) \in Nat
  BY <1>1, TurnsAreCounted
<1>13. AllActs(node, DOMAIN node) \subseteq A /\ AllActs(node2, DOMAIN node2) \subseteq A
  OBVIOUS
<1> HIDE DEF A, parts, own
<1>14. CopiesElements(x, a, var, ext, own)
  BY DEF own
<1>15. Same(Around(x, parts), <<Act("call", BulkCopy(x, a), 0)>>, own)
  BY <1>9, <1>10, <1>11, <1>12, <1>14, CopyLoopSame
<1>16. Same(Code(node2, taken)[s], Code(node, taken)[s], own)
  BY <1>7, <1>8, <1>15 DEF Same
<1>17. \A t \in DOMAIN node : Same(Code(node2, taken)[t], Code(node, taken)[t], own)
  BY <1>3, <1>13, <1>16, TableSame
<1>18. 1 \in DOMAIN node
  BY <1>1, ListsBelow
<1> QED
  BY <1>17, <1>18 DEF own

LEMMA CopyLoopKeepsMeaning ==
  ASSUME NEW node, WellFormed(node), Unaliased(node), NEW node2 \in CopyLoopRewrites(node)
  PROVE  /\ WellFormed(node2) /\ Unaliased(node2) /\ Own(node2) = Own(node)
         /\ Outcomes(node2) = Outcomes(node)
         /\ \A taken : Same(Code(node2, taken)[1], Code(node, taken)[1], Own(node))
<1>1. PICK s \in DOMAIN node :
        IsCopyLoop(node, s) /\ node2 = [node EXCEPT ![s] = BulkCopy(@, node[@.body[1]])]
  BY DEF CopyLoopRewrites
<1> DEFINE x == node[s]
           a == node[x.body[1]]
           own == Own(node)
           y == BulkCopy(x, a)
<1>2. x.kind = "for" /\ Len(x.body) = 1
  BY <1>1 DEF IsCopyLoop
<1>3. PICK var, ext : CopiesElements(x, a, var, ext, own)
  BY <1>1, CopyLoopCopies
<1> DEFINE source == a.args[2]
           slice == Slice(source.root, Front(source.idx), ext)
<1>4. /\ y.kind = "call" /\ IsStatement(y) /\ y.body = <<>> /\ y.orelse = <<>> /\ IsLoad(y, own)
      /\ y.args[1] = slice /\ ReadExpression(slice) \subseteq ReadExpression(source)
  BY <1>3, BulkCopyIs
<1>5. node2 = [node EXCEPT ![s] = y]
  BY <1>1
<1> HIDE DEF y
<1>6. y.args \in Seq(Expressions)
  BY <1>4, SMTT(30) DEF IsLoad
<1>7. DifferAt(node, node2, s) /\ node2[s] = y
  BY <1>4, <1>5, <1>6, CopyLoopUpdates
<1>8. WellFormed(node2)
  BY <1>7 DEF DifferAt
<1>9. Own(node2) = own /\ Outcomes(node2) = Outcomes(node)
  BY <1>2, <1>4, <1>7, ReplacedBinds
<1>10. ReadExpression(y.args[1]) \cap Bound(node) = {}
  <2>1. ReadExpression(y.args[1]) \subseteq own
    BY <1>4 DEF IsLoad
  <2> QED
    BY <2>1, SMTT(30) DEF Own
<1>11. Dependencies(y) \cap Bound(node) = {}
  BY <1>10 DEF Dependencies
<1>12. Unaliased(node2)
  BY <1>2, <1>4, <1>7, <1>11, ReplacedUnaliased, SMTT(30)
<1>13. ASSUME NEW taken PROVE Same(Code(node2, taken)[1], Code(node, taken)[1], own)
  <2>1. node2[s] = BulkCopy(node[s], a)
    BY <1>7 DEF y
  <2> QED
    BY <1>2, <1>3, <1>4, <1>7, <2>1, ReplacedSame
<1> QED
  BY <1>8, <1>9, <1>12, <1>13

(* -- the state a function starts from ---------------------------------------------------------- *)
LEMMA FreshIsShaped ==
  ASSUME NEW b \in Buffers
  PROVE  InitialValue(b) = [x \in IndexTuples(b) |-> InitialValue(b)[x]]
<1> DEFINE f == [x \in IndexTuples(b) |-> IF b \in Indices THEN Whole(0) ELSE <<"initial", b, x>>]
<1>1. InitialValue(b) = f
  BY DEF InitialValue
<1>2. f = [x \in IndexTuples(b) |-> f[x]]
  OBVIOUS
<1> HIDE DEF f
<1> QED
  BY <1>1, <1>2

LEMMA InitialIsGood ==
  ASSUME NEW own, own \subseteq Names
  PROVE  Good(InitialState(FALSE), own)
<1> DEFINE st == InitialState(FALSE)
           home == [n \in Names |-> n]
           value(c) == InitialValue(IF c = Fresh THEN CHOOSE b \in Shared : TRUE ELSE c)
           memory == [c \in Cells |-> value(c)]
<1>1. st = [env |-> home, mem |-> memory, outer |-> <<>>, trace |-> <<>>, live |-> TRUE, opaque |-> FALSE]
  BY DEF InitialState
<1>2. /\ home \in [Names -> Cells]
      /\ \A n \in Names : home[n] = n
  BY DEF Cells
<1>3. memory = [c \in Cells |-> memory[c]]
  OBVIOUS
<1>4. ASSUME NEW b \in Buffers PROVE memory[b] = [x \in IndexTuples(b) |-> memory[b][x]]
  <2>1. b # Fresh /\ b \in Cells
    BY KernelAssumption DEF Names, Cells
  <2>2. memory[b] = InitialValue(b)
    BY <2>1
  <2> HIDE DEF memory
  <2> QED
    BY <2>2, FreshIsShaped
<1> HIDE DEF st, home, memory
<1>5. Shaped(st) /\ st.env = home /\ st.mem = memory /\ st.opaque = FALSE
  BY <1>1, RecordIs
<1>6. st.env \in [Names -> Cells] /\ \A n \in Names : IF n \in own THEN st.env[n] = n ELSE st.env[n] \notin own
  BY <1>2, <1>5
<1>7. st.mem = [c \in Cells |-> st.mem[c]]
  BY <1>3, <1>5
<1>8. \A b \in Buffers : st.mem[b] = [x \in IndexTuples(b) |-> st.mem[b][x]]
  BY <1>4, <1>5
<1>9. Good(st, own)
  BY <1>5, <1>6, <1>7, <1>8 DEF Good
<1> QED
  BY <1>9 DEF st

(* Tables whose code does the same in every good state mean the same.                            *)
LEMMA SameMeaning ==
  ASSUME NEW node, NEW node2, Outcomes(node2) = Outcomes(node),
         \A taken : Same(Code(node2, taken)[1], Code(node, taken)[1], Own(node))
  PROVE  Meaning(node2, FALSE) = Meaning(node, FALSE)
<1>1. Good(InitialState(FALSE), Own(node))
  BY InitialIsGood DEF Own
<1>2. \A taken : After(InitialState(FALSE), Code(node2, taken)[1])
                 = After(InitialState(FALSE), Code(node, taken)[1])
  BY <1>1 DEF Same
<1> QED
  BY <1>2 DEF Meaning

(* -- the rounds --------------------------------------------------------------------------------- *)
\* k came from o by rewriting.
Rewritten(k, o) ==
  /\ WellFormed(k.node) /\ Unaliased(k.node) /\ Own(k.node) = Own(o.node)
  /\ Outcomes(k.node) = Outcomes(o.node)
  /\ \A taken : Same(Code(k.node, taken)[1], Code(o.node, taken)[1], Own(o.node))

RewritingInv ==
  /\ IsKernel(original) /\ kernel = [original EXCEPT !.node = kernel.node]
  /\ kernel # original => original.shadow = "none"
  /\ Unaliased(original.node) => Rewritten(kernel, original)

LEMMA RewrittenMore ==
  ASSUME NEW k, NEW o, Rewritten(k, o), NEW node2,
         WellFormed(node2), Unaliased(node2), Own(node2) = Own(k.node), Outcomes(node2) = Outcomes(k.node),
         \A taken : Same(Code(node2, taken)[1], Code(k.node, taken)[1], Own(k.node)),
         NEW k2, k2.node = node2
  PROVE  Rewritten(k2, o)
BY DEF Rewritten, Same

LEMMA NewNode ==
  ASSUME NEW o, IsKernel(o), NEW k, k = [o EXCEPT !.node = k.node], NEW node2,
         NEW k2, k2 = [k EXCEPT !.node = node2]
  PROVE  k2.node = node2 /\ k2 = [o EXCEPT !.node = k2.node] /\ k.shadow = o.shadow
BY DEF IsKernel

LEMMA RewritingStep ==
  ASSUME RewritingInv, [Next]_vars
  PROVE  RewritingInv'
<1>1. CASE UNCHANGED vars
  BY <1>1 DEF RewritingInv, vars
<1>2. ASSUME NEW node2, RewriteTo(node2), kernel.shadow = "none",
             Unaliased(original.node) =>
               /\ WellFormed(node2) /\ Unaliased(node2) /\ Own(node2) = Own(kernel.node)
               /\ Outcomes(node2) = Outcomes(kernel.node)
               /\ \A taken : Same(Code(node2, taken)[1], Code(kernel.node, taken)[1], Own(kernel.node))
      PROVE  RewritingInv'
  <2>1. IsKernel(original) /\ kernel = [original EXCEPT !.node = kernel.node]
    BY DEF RewritingInv
  <2>2. kernel' = [kernel EXCEPT !.node = node2] /\ original' = original
    BY <1>2 DEF RewriteTo
  <2>3. kernel'.node = node2 /\ kernel' = [original EXCEPT !.node = kernel'.node]
        /\ kernel.shadow = original.shadow
    BY <2>1, <2>2, NewNode
  <2>4. Unaliased(original.node) => Rewritten(kernel', original)
    <3> SUFFICES ASSUME Unaliased(original.node) PROVE Rewritten(kernel', original)
      OBVIOUS
    <3>1. Rewritten(kernel, original)
      BY DEF RewritingInv
    <3> QED
      BY <1>2, <2>3, <3>1, RewrittenMore
  <2> QED
    BY <1>2, <2>1, <2>2, <2>3, <2>4 DEF RewritingInv
<1>3. Unaliased(original.node) => WellFormed(kernel.node) /\ Unaliased(kernel.node)
  BY DEF RewritingInv, Rewritten
<1>4. kernel.shadow \in {"none", "module", "outer", "own"}
  BY DEF RewritingInv, IsKernel
<1>5. CASE RewriteCopyLoop
  <2>1. PICK node2 \in FindCopyLoops(kernel) : RewriteTo(node2)
    BY <1>5 DEF RewriteCopyLoop
  <2>2. node2 \in CopyLoopRewrites(kernel.node) /\ kernel.shadow = "none"
    BY <1>4 DEF FindCopyLoops, DslActive, ModuleDslAlias, BindsDsl, InheritsShadow
  <2> QED
    BY <1>2, <1>3, <2>1, <2>2, CopyLoopKeepsMeaning
<1>6. CASE RewritePrefetchSharedLoad
  <2>1. PICK node2 \in FindPrefetchLoads(kernel) : RewriteTo(node2)
    BY <1>6 DEF RewritePrefetchSharedLoad
  <2>2. node2 \in PrefetchRewrites(kernel.node) /\ kernel.shadow = "none" /\ ~HasBufferAliasing(kernel.node)
    BY <1>4 DEF FindPrefetchLoads, IsPrimFunc, ModuleDslAlias, BindsDsl, InheritsShadow
  <2> QED
    BY <1>2, <1>3, <2>1, <2>2, PrefetchKeepsMeaning
<1> QED
  BY <1>1, <1>5, <1>6 DEF Next

LEMMA RewritingStart ==
  ASSUME Init
  PROVE  RewritingInv
<1>1. IsKernel(original) /\ kernel = original /\ WellFormed(original.node)
  BY KernelsAreFunctions DEF Init, IsKernel
<1>2. kernel = [original EXCEPT !.node = kernel.node]
  BY <1>1 DEF IsKernel
<1> QED
  BY <1>1, <1>2 DEF RewritingInv, Rewritten, Same

LEMMA RewritingKeeps ==
  ASSUME RewritingInv, Unaliased(original.node)
  PROVE  MeaningKept
<1> SUFFICES ASSUME kernel # original
             PROVE  Meaning(kernel.node, FALSE) = Meaning(original.node, FALSE)
  BY DEF MeaningKept, RewritingInv
<1> QED
  BY SameMeaning DEF RewritingInv, Rewritten

(* Every function is what the rewriting made of the one the user uploaded; where   *)
(* that one gives no second name to what a load or a copy loop is about, the code   *)
(* of both carries a good state to the same state whatever the outcomes of tests.   *)
THEOREM RewritingInvariance == Spec => []RewritingInv
<1>1. Init => RewritingInv
  BY RewritingStart
<1>2. RewritingInv /\ [Next]_vars => RewritingInv'
  BY RewritingStep
<1> QED
  BY <1>1, <1>2, PTL DEF Spec

(* A function without such a second name keeps its meaning, whatever other          *)
(* functions the optimisation is given.                                             *)
THEOREM UnaliasedMeaningKept == Spec => [](Unaliased(original.node) => MeaningKept)
<1>1. RewritingInv => (Unaliased(original.node) => MeaningKept)
  BY RewritingKeeps
<1> QED
  BY <1>1, RewritingInvariance, PTL

(* MeaningKept: where no function has such a second name, a function leaves the     *)
(* same memory behind and shows the same calls and barriers however often and in    *)
(* whatever order analyzer.py and load_schedule.py rewrite it.                      *)
THEOREM AlwaysMeaningKept ==
  ASSUME \A k \in Kernels : Unaliased(k.node)
  PROVE  Spec => []MeaningKept
<1>1. Init => Unaliased(original.node)
  BY DEF Init
<1>2. Unaliased(original.node) /\ [Next]_vars => Unaliased(original.node)'
  BY DEF Next, vars, RewriteCopyLoop, RewritePrefetchSharedLoad, RewriteTo
<1>3. RewritingInv /\ Unaliased(original.node) => MeaningKept
  BY RewritingKeeps
<1> QED
  BY <1>1, <1>2, <1>3, RewritingInvariance, PTL DEF Spec
=============================================================================
