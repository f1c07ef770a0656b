---------------------------- MODULE MakeIndexProofs ----------------------------
(* Proofs about MakeIndex for any describe file: what its heap sort and binary *)
(* search return, what recurse makes of the lists, and that make_index ends    *)
(* and prints as it should.                                                    *)
EXTENDS MakeIndex, WellFoundedInduction, SequenceTheorems, FiniteSetTheorems, TLAPS

-----------------------------------------------------------------------------
(* Recursive functions. *)
\* Induction over the naturals, for a set instead of a predicate.
LEMMA Induction ==
    ASSUME NEW S, 0 \in S, \A n \in Nat : n \in S => n + 1 \in S
    PROVE  Nat \subseteq S
<1> DEFINE R == OpToRel(<, Nat)
           T == Nat \ S
<1>1. IsWellFoundedOn(R, Nat)
  BY Zenon, NatLessThanWellFounded
<1>2. \A x, y \in Nat : x < y => <<x, y>> \in R
  BY Zenon DEF OpToRel
<1>3. ASSUME T # {} PROVE FALSE
  <2>1. T \subseteq Nat
    OBVIOUS
  <2>2. PICK x \in T : \A y \in T : ~(<<y, x>> \in R)
    <3> HIDE DEF R, T
    <3> QED
      BY ZenonT(30), <1>1, <1>3, <2>1, WFMin
  <2>3. x \in Nat /\ x # 0
    OBVIOUS
  <2>4. x - 1 \in Nat /\ x - 1 < x /\ x - 1 + 1 = x
    BY <2>3
  <2>5. x - 1 \notin T
    <3> HIDE DEF R
    <3> QED
      BY Zenon, <1>2, <2>2, <2>3, <2>4
  <2>6. x \in S
    BY <2>4, <2>5
  <2> QED
    BY <2>6
<1> QED
  BY <1>3

Iterates(f, N, b, G) == f[0] = b /\ \A k \in 1..N : f[k] = G[k][f[k - 1]]

\* What a recursive function that starts at b and goes on by G is, if G keeps it
\* in S.
LEMMA Iterated ==
    ASSUME NEW S, NEW N \in Nat, NEW b \in S, NEW G \in [1..N -> [S -> S]]
    PROVE  \E f : f \in [0..N -> S] /\ Iterates(f, N, b, G)
<1> DEFINE Upto(n) == \E f \in [0..N -> S] :
                         f[0] = b /\ \A k \in 1..N : k <= n => f[k] = G[k][f[k - 1]]
           P == {n \in Nat : Upto(n)}
<1>1. 0 \in P
  <2> DEFINE f == [k \in 0..N |-> b]
  <2>1. f \in [0..N -> S] /\ f[0] = b
    OBVIOUS
  <2>2. \A k \in 1..N : ~(k <= 0)
    OBVIOUS
  <2>3. Upto(0)
    <3> HIDE DEF f
    <3> QED
      BY <2>1, <2>2
  <2> QED
    BY <2>3
<1>2. \A n \in Nat : n \in P => n + 1 \in P
  <2> SUFFICES ASSUME NEW n \in Nat, n \in P PROVE n + 1 \in P
    OBVIOUS
  <2>1. PICK f \in [0..N -> S] : f[0] = b /\ \A k \in 1..N : k <= n => f[k] = G[k][f[k - 1]]
    OBVIOUS
  <2>2. ASSUME n + 1 \in 1..N PROVE Upto(n + 1)
    <3> DEFINE g == [k \in 0..N |-> IF k = n + 1 THEN G[n + 1][f[n]] ELSE f[k]]
    <3>0. G[n + 1] \in [S -> S] /\ f[n] \in S
      BY <2>2
    <3>1. g \in [0..N -> S]
      BY <2>1, <3>0
    <3>2. g[0] = b
      BY <2>1
    <3>3. ASSUME NEW k \in 1..N, k <= n + 1 PROVE g[k] = G[k][g[k - 1]]
      <4>1. k - 1 \in 0..N /\ k - 1 # n + 1 /\ k \in 0..N
        BY <3>3
      <4>2. g[k - 1] = f[k - 1]
        BY <4>1
      <4>3. CASE k = n + 1
        BY <4>1, <4>2, <4>3
      <4>4. CASE k # n + 1
        <5>1. k <= n
          BY <3>3, <4>4
        <5> QED
          BY <2>1, <4>1, <4>2, <4>4, <5>1
      <4> QED
        BY <4>3, <4>4
    <3> HIDE DEF g
    <3> QED
      BY <3>1, <3>2, <3>3
  <2>3. ASSUME n + 1 \notin 1..N PROVE Upto(n + 1)
    <3>1. \A k \in 1..N : k <= n + 1 => k <= n
      BY <2>3
    <3> QED
      BY <2>1, <3>1
  <2>4. Upto(n + 1)
    BY <2>2, <2>3
  <2> HIDE DEF Upto
  <2> QED
    BY <2>4
<1>3. Nat \subseteq P
  <2> HIDE DEF P
  <2> QED
    BY <1>1, <1>2, Induction
<1>4. Upto(N)
  <2> HIDE DEF Upto
  <2> QED
    BY <1>3
<1> QED
  BY <1>4 DEF Iterates

-----------------------------------------------------------------------------
(* Heap sort. *)
\* No child of place p has a larger key than p.
HeapAt(s, size, p, key) ==
    \A c \in {2 * p, 2 * p + 1} : c <= size => key[s[c]] <= key[s[p]]
HeapFrom(s, lo, size, key) == \A p \in lo..size : HeapAt(s, size, p, key)

\* t is s with the first m places rearranged.
Rearranged(s, t, m) ==
    /\ Len(t) = Len(s)
    /\ \A c \in (m + 1)..Len(s) : t[c] = s[c]
    /\ \A c \in 1..m : \E a \in 1..m : t[c] = s[a]
    /\ \A a \in 1..m : \E c \in 1..m : s[a] = t[c]
    /\ IsInjective(s) => IsInjective(t)

Places(V, s) == [s : {t \in Seq(V) : Len(t) = Len(s)}, pos : DOMAIN s]
Sunk(h, size, key) ==
    LET most == Largest(h.s, size, h.pos, key)
    IN  [s |-> Swap(h.s, h.pos, most), pos |-> most]

\* Largest returns pos or a child of it in the heap.
LEMMA LargestPlace ==
    ASSUME NEW s, NEW size \in Nat, NEW pos \in 1..size, NEW key
    PROVE  LET most == Largest(s, size, pos, key)
           IN  /\ most \in pos..size
               /\ most \in {pos, 2 * pos, 2 * pos + 1}
BY DEF Largest

LEMMA SwapFacts ==
    ASSUME NEW V, NEW s \in Seq(V), NEW a \in 1..Len(s), NEW b \in 1..Len(s)
    PROVE  /\ Swap(s, a, b) \in Seq(V)
           /\ Len(Swap(s, a, b)) = Len(s)
           /\ Swap(s, a, b)[a] = s[b]
           /\ Swap(s, a, b)[b] = s[a]
           /\ \A c \in (1..Len(s)) \ {a, b} : Swap(s, a, b)[c] = s[c]
BY DEF Swap

\* A turn of heapify keeps the array's length and stays in the heap.
LEMMA SunkTyped ==
    ASSUME NEW V, NEW s \in Seq(V), NEW size \in 0..Len(s), NEW key,
           NEW h \in Places(V, s), h.pos <= size
    PROVE  /\ Sunk(h, size, key) \in Places(V, s)
           /\ Sunk(h, size, key).pos = Largest(h.s, size, h.pos, key)
           /\ Sunk(h, size, key).s = Swap(h.s, h.pos, Largest(h.s, size, h.pos, key))
           /\ Sunk(h, size, key).pos <= size
<1> DEFINE most == Largest(h.s, size, h.pos, key)
<1>1. h.s \in Seq(V) /\ Len(h.s) = Len(s) /\ h.pos \in 1..Len(s) /\ Len(s) \in Nat
  BY DEF Places
<1>2. most \in 1..size
  BY <1>1, LargestPlace
<1> HIDE DEF most
<1>3. Swap(h.s, h.pos, most) \in Seq(V) /\ Len(Swap(h.s, h.pos, most)) = Len(h.s)
  <2>1. most \in 1..Len(h.s) /\ h.pos \in 1..Len(h.s)
    BY <1>1, <1>2
  <2>2. ASSUME NEW t \in Seq(V), NEW a \in 1..Len(t), NEW c \in 1..Len(t)
        PROVE  Swap(t, a, c) \in Seq(V) /\ Len(Swap(t, a, c)) = Len(t)
    BY <2>2, SwapFacts
  <2> QED
    BY Zenon, <1>1, <2>1, <2>2
<1>4. Sunk(h, size, key) = [s |-> Swap(h.s, h.pos, most), pos |-> most]
  BY DEF Sunk, most
<1> QED
  BY <1>1, <1>2, <1>3, <1>4 DEF Places, most

\* The turns of Sift's loop.
Turns(V, s, size, pos, key, top) ==
    /\ top[0] = [s |-> s, pos |-> pos]
    /\ \A n \in 0..size : top[n] \in Places(V, s) /\ top[n].pos <= size
    /\ \A n \in 1..size : top[n] = Sunk(top[n - 1], size, key)
    /\ Sift(s, size, pos, key) = top[size].s

\* Sift goes through such turns.
LEMMA SiftTurns ==
    ASSUME NEW V, V \subseteq Nat, NEW s \in Seq(V), NEW size \in 1..Len(s),
           NEW pos \in 1..size, NEW key
    PROVE  \E top : Turns(V, s, size, pos, key, top)
<1> DEFINE S == {h \in Places(V, s) : h.pos <= size}
           b == [s |-> s, pos |-> pos]
           down == [h \in S |-> Sunk(h, size, key)]
           step == [h \in [s : Seq(Nat), pos : Nat] |->
                      LET most == Largest(h.s, size, h.pos, key)
                      IN  [s |-> Swap(h.s, h.pos, most), pos |-> most]]
           G == [n \in 1..size |-> down]
           Q(g) == g = [n \in 0..size |-> IF n = 0 THEN b ELSE step[g[n - 1]]]
           top == CHOOSE g : Q(g)
<1>0. Len(s) \in Nat /\ size \in Nat /\ pos \in 1..Len(s) /\ pos <= size
  OBVIOUS
<1>1. b \in S
  BY <1>0 DEF Places
<1>2. down \in [S -> S]
  BY <1>0, SunkTyped
<1>3. G \in [1..size -> [S -> S]]
  <2> HIDE DEF down, S
  <2> QED
    BY <1>2
<1>4. PICK f : f \in [0..size -> S] /\ Iterates(f, size, b, G)
  <2> HIDE DEF S, b, G
  <2>1. size \in Nat
    BY <1>0
  <2> QED
    BY Zenon, <1>1, <1>3, <2>1, Iterated
<1>5. \A h \in S : h \in [s : Seq(Nat), pos : Nat]
  <2> SUFFICES ASSUME NEW h \in S PROVE h \in [s : Seq(Nat), pos : Nat]
    OBVIOUS
  <2>1. h \in [s : {t \in Seq(V) : Len(t) = Len(s)}, pos : DOMAIN s]
    BY DEF Places
  <2>2. h.s \in Seq(V) /\ h.pos \in Nat /\ h = [s |-> h.s, pos |-> h.pos]
    BY <2>1
  <2>3. h.s \in Seq(Nat)
    BY <2>2
  <2> QED
    BY <2>2, <2>3
<1>6. \A h \in S : step[h] = Sunk(h, size, key) /\ down[h] = Sunk(h, size, key)
  BY <1>5 DEF Sunk
<1>7. \A n \in 1..size : f[n - 1] \in S /\ f[n] = Sunk(f[n - 1], size, key)
  <2> HIDE DEF S, step, down
  <2>1. \A n \in 1..size : n - 1 \in 0..size
    BY <1>0
  <2> QED
    BY <1>4, <1>6, <2>1 DEF Iterates
<1>8. Q(f)
  <2>1. f = [n \in 0..size |-> f[n]]
    <3> HIDE DEF S
    <3> QED
      BY <1>4
  <2>2. \A n \in 0..size : f[n] = IF n = 0 THEN b ELSE step[f[n - 1]]
    <3> HIDE DEF S, step, b
    <3> QED
      BY <1>0, <1>4, <1>6, <1>7 DEF Iterates
  <2> HIDE DEF S, step, b
  <2> QED
    BY <2>1, <2>2
<1>9. Q(top)
  <2> HIDE DEF Q
  <2> QED
    BY Zenon, <1>8
<1>10. Sift(s, size, pos, key) = top[size].s
  BY Zenon DEF Sift
<1> HIDE DEF top
<1>11. top[0] = b /\ \A n \in 1..size : top[n] = step[top[n - 1]]
  <2> HIDE DEF step, b
  <2> QED
    BY <1>0, <1>9
<1> DEFINE P == {n \in Nat : n <= size => top[n] \in S}
<1>12. Nat \subseteq P
  <2>1. 0 \in P
    BY <1>1, <1>11
  <2>2. ASSUME NEW n \in Nat, n \in P PROVE n + 1 \in P
    <3> HIDE DEF step, b
    <3>1. CASE n + 1 \in 1..size
      <4>1. top[n] \in S /\ top[n + 1] = step[top[n]]
        <5> HIDE DEF S
        <5> QED
          BY <1>11, <2>2, <3>1
      <4>2. top[n + 1] = down[top[n]]
        <5> HIDE DEF S, down
        <5> QED
          BY <4>1, <1>6
      <4>3. top[n + 1] \in S
        <5> HIDE DEF S, down
        <5> QED
          BY <1>2, <4>1, <4>2
      <4> HIDE DEF S
      <4> QED
        BY <4>3
    <3>2. CASE n + 1 \notin 1..size
      BY <3>2
    <3> QED
      BY <3>1, <3>2
  <2> HIDE DEF P
  <2> QED
    BY <2>1, <2>2, Induction
<1>13. \A n \in 0..size : top[n] \in S
  <2> HIDE DEF S
  <2> QED
    BY <1>12
<1>14. \A n \in 1..size : top[n] = Sunk(top[n - 1], size, key)
  <2> HIDE DEF S, step
  <2>1. \A n \in 1..size : n - 1 \in 0..size
    BY <1>0
  <2> QED
    BY <1>6, <1>11, <1>13, <2>1
<1> HIDE DEF step
<1> QED
  BY <1>10, <1>11, <1>13, <1>14 DEF Turns

HasLargest(s, size, pos, key, most) ==
    /\ most \in pos..size
    /\ most \in {pos, 2 * pos, 2 * pos + 1}
    /\ \A c \in {pos, 2 * pos, 2 * pos + 1} : c <= size => key[s[c]] <= key[s[most]]
    /\ most # pos => key[s[pos]] < key[s[most]]

\* The largest of an element and its children is none smaller than the others.
LEMMA LargestFacts ==
    ASSUME NEW V, NEW key \in [V -> Nat], NEW s \in Seq(V), NEW size \in 1..Len(s),
           NEW pos \in 1..size
    PROVE  HasLargest(s, size, pos, key, Largest(s, size, pos, key))
<1>1. \A c \in 1..size : s[c] \in V /\ key[s[c]] \in Nat
  BY ElementOfSeq
<1>2. size \in Nat /\ pos \in Nat
  OBVIOUS
<1>3. \A c \in {pos, 2 * pos, 2 * pos + 1} : c <= size => c \in 1..size /\ key[s[c]] \in Nat
  BY <1>1, <1>2
<1> DEFINE left == IF 2 * pos <= size /\ key[s[pos]] < key[s[2 * pos]] THEN 2 * pos ELSE pos
           most == Largest(s, size, pos, key)
<1>4. most = IF 2 * pos + 1 <= size /\ key[s[left]] < key[s[2 * pos + 1]]
               THEN 2 * pos + 1 ELSE left
  BY DEF Largest
<1>5. /\ left \in {pos, 2 * pos} /\ left \in pos..size
      /\ key[s[left]] \in Nat /\ key[s[pos]] <= key[s[left]]
      /\ 2 * pos <= size => key[s[2 * pos]] <= key[s[left]]
      /\ left # pos => key[s[pos]] < key[s[left]]
  BY <1>2, <1>3
<1> HIDE DEF left, most
<1>6. CASE 2 * pos + 1 <= size /\ key[s[left]] < key[s[2 * pos + 1]]
  <2>1. most = 2 * pos + 1 /\ most \in pos..size
    BY <1>2, <1>4, <1>6
  <2>2. key[s[left]] < key[s[most]] /\ key[s[most]] \in Nat
    BY <1>2, <1>3, <1>6, <2>1
  <2>3. key[s[pos]] \in Nat /\ key[s[pos]] < key[s[most]]
    BY <1>2, <1>3, <1>5, <2>2
  <2>4. 2 * pos <= size => key[s[2 * pos]] <= key[s[most]]
    BY <1>2, <1>3, <1>5, <2>2
  <2>5. \A c \in {pos, 2 * pos, 2 * pos + 1} : c <= size => key[s[c]] <= key[s[most]]
    <3> SUFFICES ASSUME NEW c \in {pos, 2 * pos, 2 * pos + 1}, c <= size
                 PROVE  key[s[c]] <= key[s[most]]
      OBVIOUS
    <3>1. CASE c = pos
      BY <2>2, <2>3, <3>1
    <3>2. CASE c = 2 * pos
      BY <2>4, <3>2
    <3>3. CASE c = 2 * pos + 1
      <4>1. key[s[c]] = key[s[most]]
        BY <2>1, <3>3
      <4> QED
        BY <2>2, <4>1
    <3> QED
      BY <3>1, <3>2, <3>3
  <2> QED
    BY <2>1, <2>3, <2>5 DEF most, HasLargest
<1>7. CASE ~(2 * pos + 1 <= size /\ key[s[left]] < key[s[2 * pos + 1]])
  <2>1. most = left
    BY <1>4, <1>7
  <2>2. 2 * pos + 1 <= size => key[s[2 * pos + 1]] <= key[s[left]]
    <3> SUFFICES ASSUME 2 * pos + 1 <= size PROVE key[s[2 * pos + 1]] <= key[s[left]]
      OBVIOUS
    <3>1. key[s[2 * pos + 1]] \in Nat
      BY <1>3
    <3> QED
      BY <1>5, <1>7, <3>1
  <2>3. \A c \in {pos, 2 * pos, 2 * pos + 1} : c <= size => key[s[c]] <= key[s[left]]
    BY <1>5, <2>2
  <2> QED
    BY <1>5, <2>1, <2>3 DEF most, HasLargest
<1> QED
  BY <1>6, <1>7

LEMMA RearrangedSame ==
    ASSUME NEW V, NEW s \in Seq(V), NEW m \in Nat
    PROVE  Rearranged(s, s, m)
BY DEF Rearranged

\* Rearranging twice is rearranging.
LEMMA RearrangedAgain ==
    ASSUME NEW r, NEW s, NEW t, NEW m \in Nat, Len(r) \in Nat,
           Rearranged(r, s, m), Rearranged(s, t, m)
    PROVE  Rearranged(r, t, m)
<1>1. Len(t) = Len(r)
  BY DEF Rearranged
<1>2. \A c \in (m + 1)..Len(r) : t[c] = r[c]
  BY DEF Rearranged
<1>3. ASSUME NEW c \in 1..m PROVE \E a \in 1..m : t[c] = r[a]
  <2>1. PICK b \in 1..m : t[c] = s[b]
    BY DEF Rearranged
  <2>2. PICK a \in 1..m : s[b] = r[a]
    BY DEF Rearranged
  <2> QED
    BY <2>1, <2>2
<1>4. ASSUME NEW a \in 1..m PROVE \E c \in 1..m : r[a] = t[c]
  <2>1. PICK b \in 1..m : r[a] = s[b]
    BY DEF Rearranged
  <2>2. PICK c \in 1..m : s[b] = t[c]
    BY DEF Rearranged
  <2> QED
    BY <2>1, <2>2
<1>5. IsInjective(r) => IsInjective(t)
  BY DEF Rearranged
<1> QED
  BY <1>1, <1>2, <1>3, <1>4, <1>5 DEF Rearranged

LEMMA SwapRearranges ==
    ASSUME NEW V, NEW s \in Seq(V), NEW m \in 1..Len(s), NEW a \in 1..m, NEW b \in 1..m
    PROVE  Rearranged(s, Swap(s, a, b), m)
<1> DEFINE t == Swap(s, a, b)
<1>0. Len(s) \in Nat /\ m \in Nat /\ a \in 1..Len(s) /\ b \in 1..Len(s)
  OBVIOUS
<1>1. /\ t \in Seq(V) /\ Len(t) = Len(s) /\ t[a] = s[b] /\ t[b] = s[a]
      /\ \A c \in (1..Len(s)) \ {a, b} : t[c] = s[c]
  BY <1>0 DEF Swap
<1> HIDE DEF t
<1>2. \A c \in (m + 1)..Len(s) : t[c] = s[c]
  BY <1>0, <1>1
<1>3. ASSUME NEW c \in 1..m PROVE (\E d \in 1..m : t[c] = s[d]) /\ (\E d \in 1..m : s[c] = t[d])
  <2>1. c = a \/ c = b \/ c \in (1..Len(s)) \ {a, b}
    BY <1>0
  <2> QED
    BY <1>1, <2>1
<1>4. ASSUME IsInjective(s) PROVE IsInjective(t)
  <2>1. \A c, d \in 1..Len(s) : s[c] = s[d] => c = d
    BY <1>4 DEF IsInjective
  <2>2. \A c, d \in 1..Len(s) : t[c] = t[d] => c = d
    BY <1>0, <1>1, <2>1
  <2> QED
    BY <1>1, <2>2 DEF IsInjective
<1> QED
  BY <1>1, <1>2, <1>3, <1>4 DEF Rearranged, t

\* While the element at h.pos sinks, only there the heap may not be one.
Sinking(V, s, lo, size, key, h) ==
    /\ h \in Places(V, s)
    /\ h.pos \in lo..size
    /\ Rearranged(s, h.s, size)
    /\ \A p \in lo..size : p # h.pos => HeapAt(h.s, size, p, key)
    /\ \A p \in lo..size : h.pos \in {2 * p, 2 * p + 1} =>
         \A c \in {2 * h.pos, 2 * h.pos + 1} : c <= size => key[h.s[c]] <= key[h.s[p]]

\* A turn of heapify: the element sinks, or is where it belongs and stays there.
LEMMA SunkKeeps ==
    ASSUME NEW V, NEW key \in [V -> Nat], NEW s \in Seq(V), NEW size \in 1..Len(s),
           NEW lo \in 1..size, NEW h, Sinking(V, s, lo, size, key, h)
    PROVE  LET g == Sunk(h, size, key)
           IN  /\ Sinking(V, s, lo, size, key, g)
               /\ HeapAt(g.s, size, g.pos, key) \/ g.pos > h.pos
               /\ HeapAt(h.s, size, h.pos, key) => g = h
<1> DEFINE g == Sunk(h, size, key)
           q == h.pos
           t == h.s
           most == Largest(t, size, q, key)
           u == Swap(t, q, most)
<1>0. /\ Len(s) \in Nat /\ size \in Nat /\ lo \in Nat /\ q \in 1..size /\ q \in lo..size
      /\ t \in Seq(V) /\ Len(t) = Len(s) /\ size \in 1..Len(t) /\ h = [s |-> t, pos |-> q]
      /\ size \in 0..Len(s) /\ q <= size
  BY DEF Sinking, Places
<1>1. /\ g \in Places(V, s) /\ g.pos = most /\ g.s = u /\ g = [s |-> u, pos |-> most]
  <2>1. h \in Places(V, s)
    BY DEF Sinking
  <2> QED
    BY <1>0, <2>1, SunkTyped DEF Sunk
<1>2. /\ most \in q..size
      /\ most \in {q, 2 * q, 2 * q + 1}
      /\ \A c \in {q, 2 * q, 2 * q + 1} : c <= size => key[t[c]] <= key[t[most]]
      /\ most # q => key[t[q]] < key[t[most]]
  <2>1. t \in Seq(V) /\ size \in 1..Len(t) /\ q \in 1..size
    BY <1>0
  <2> HIDE DEF t, q
  <2>2. HasLargest(t, size, q, key, most)
    BY <2>1, LargestFacts
  <2> HIDE DEF most
  <2> QED
    BY <2>2 DEF HasLargest
<1>3. \A c \in 1..size : t[c] \in V /\ key[t[c]] \in Nat
  BY <1>0, ElementOfSeq
<1>4. /\ u \in Seq(V) /\ Len(u) = Len(t) /\ u[q] = t[most] /\ u[most] = t[q]
      /\ \A c \in (1..Len(t)) \ {q, most} : u[c] = t[c]
  <2> HIDE DEF t, q, most
  <2>1. q \in 1..Len(t) /\ most \in 1..Len(t)
    <3>1. q \in 1..size /\ size \in 1..Len(t) /\ most \in q..size
      BY <1>0, <1>2
    <3> QED
      BY ONLY <3>1
  <2> QED
    BY <1>0, <2>1, SMTT(30) DEF Swap
<1>5. Rearranged(s, u, size)
  <2>1. Rearranged(t, u, size)
    <3>1. most \in 1..size
      BY <1>0, <1>2
    <3> HIDE DEF t, q, most
    <3> QED
      BY <1>0, <3>1, SwapRearranges
  <2>2. Rearranged(s, t, size)
    BY DEF Sinking
  <2> HIDE DEF u, t
  <2> QED
    BY <1>0, <2>1, <2>2, RearrangedAgain
<1>6. \A p \in lo..size : p # q => HeapAt(t, size, p, key)
  BY DEF Sinking
<1>7. \A p \in lo..size : q \in {2 * p, 2 * p + 1} =>
         \A c \in {2 * q, 2 * q + 1} : c <= size => key[t[c]] <= key[t[p]]
  BY DEF Sinking
<1> HIDE DEF g, most, q, t, u
<1>8. CASE most = q
  <2>1. u = t
    <3>1. \A c \in 1..Len(t) : u[c] = t[c]
      BY <1>4, <1>8
    <3> QED
      BY <1>0, <1>4, <3>1, SeqEqual
  <2>2. g = h
    BY <1>0, <1>1, <1>8, <2>1
  <2>3. HeapAt(t, size, q, key)
    BY <1>2, <1>8 DEF HeapAt
  <2> QED
    BY <2>2, <2>3, <1>0 DEF g, t, q
<1>9. CASE most # q
  <2>0. most \in lo..size /\ most > q /\ most \in {2 * q, 2 * q + 1} /\ most \in 1..size
    BY <1>0, <1>2, <1>9
  <2>1. ~HeapAt(t, size, q, key)
    <3>1. key[t[q]] \in Nat /\ key[t[most]] \in Nat /\ most <= size
      BY <1>0, <1>3, <2>0
    <3>2. key[t[q]] < key[t[most]]
      BY <1>2, <1>9
    <3>3. HeapAt(t, size, q, key) => key[t[most]] <= key[t[q]]
      BY <2>0, <3>1 DEF HeapAt
    <3> QED
      BY <3>1, <3>2, <3>3
  <2>2. ASSUME NEW p \in lo..size, p # most, NEW c \in {2 * p, 2 * p + 1}, c <= size
        PROVE  key[u[c]] <= key[u[p]]
    <3>0. p \in 1..size /\ c \in 1..size /\ c > p /\ p \in 1..Len(t) /\ c \in 1..Len(t)
      BY <1>0, <2>2
    <3>1. CASE p = q
      <4>1. u[p] = t[most]
        BY <1>4, <3>1
      <4>2. CASE c = most
        BY <1>2, <1>9, <1>4, <1>0, <1>3, <2>0, <4>1, <4>2
      <4>3. CASE c # most
        <5>1. u[c] = t[c]
          BY <1>4, <3>0, <3>1, <4>3
        <5> QED
          BY <1>2, <2>2, <3>1, <4>1, <5>1
      <4> QED
        BY <4>2, <4>3
    <3>2. CASE p # q
      <4>1. u[p] = t[p]
        BY <1>4, <2>2, <3>0, <3>2
      <4>2. key[t[c]] <= key[t[p]]
        BY <1>6, <2>2, <3>2 DEF HeapAt
      <4>3. CASE c = q
        <5>1. key[t[most]] <= key[t[p]]
          <6>1. p \in lo..size /\ q \in {2 * p, 2 * p + 1}
            BY <2>2, <4>3
          <6>2. most \in {2 * q, 2 * q + 1} /\ most <= size
            BY <1>0, <2>0
          <6> DEFINE D == {2 * q, 2 * q + 1}
          <6>3. \A d \in D : d <= size => key[t[d]] <= key[t[p]]
            BY ONLY <1>7, <6>1
          <6>4. most \in D /\ most <= size
            BY <6>2
          <6> HIDE DEF D
          <6> QED
            BY <6>3, <6>4
        <5> QED
          BY <1>4, <4>1, <4>3, <5>1
      <4>4. CASE c = most
        <5>1. p = q
          <6>1. most \in {2 * p, 2 * p + 1} /\ most \in {2 * q, 2 * q + 1} /\ p \in Nat /\ q \in Nat
            BY <1>0, <2>0, <3>0, <4>4
          <6> QED
            BY ONLY <6>1
        <5> QED
          BY <3>2, <5>1
      <4>5. CASE c # q /\ c # most
        BY <1>4, <3>0, <4>1, <4>2, <4>5
      <4> QED
        BY <4>3, <4>4, <4>5
    <3> QED
      BY <3>1, <3>2
  <2>3. \A p \in lo..size : p # most => HeapAt(u, size, p, key)
    BY <2>2 DEF HeapAt
  <2>4. ASSUME NEW p \in lo..size, most \in {2 * p, 2 * p + 1},
               NEW c \in {2 * most, 2 * most + 1}, c <= size
        PROVE  key[u[c]] <= key[u[p]]
    <3>1. p = q
      BY <1>0, <2>0, <2>4
    <3>2. c \in 1..Len(t) /\ c # q /\ c # most
      BY <1>0, <2>0, <2>4
    <3>3. key[t[c]] <= key[t[most]]
      BY <1>6, <1>9, <2>0, <2>4 DEF HeapAt
    <3> QED
      BY <1>4, <3>1, <3>2, <3>3
  <2>5. Sinking(V, s, lo, size, key, g)
    BY <1>1, <1>5, <2>0, <2>3, <2>4 DEF Sinking
  <2> QED
    BY <1>1, <2>0, <2>1, <2>5 DEF g, t, q
<1> QED
  BY <1>8, <1>9

Arrays(V, s) == {t \in Seq(V) : Len(t) = Len(s)}

LEMMA SiftTyped ==
    ASSUME NEW V, V \subseteq Nat, NEW key, NEW s \in Seq(V), NEW size \in 1..Len(s),
           NEW pos \in 1..size
    PROVE  Sift(s, size, pos, key) \in Arrays(V, s)
<1>1. PICK top : Turns(V, s, size, pos, key, top)
  BY SiftTurns
<1>2. top[size] \in Places(V, s) /\ Sift(s, size, pos, key) = top[size].s
  BY <1>1 DEF Turns
<1> QED
  BY <1>1, <1>2 DEF Places, Arrays

\* heapifyports and heapifypkgs: where the places behind pos are a heap, those
\* from pos on are one afterwards.
LEMMA SiftFacts ==
    ASSUME NEW V, V \subseteq Nat, NEW key \in [V -> Nat], NEW s \in Seq(V),
           NEW size \in 1..Len(s), NEW pos \in 1..size,
           HeapFrom(s, pos + 1, size, key)
    PROVE  /\ Sift(s, size, pos, key) \in Seq(V)
           /\ Rearranged(s, Sift(s, size, pos, key), size)
           /\ HeapFrom(Sift(s, size, pos, key), pos, size, key)
<1>0. size \in Nat /\ pos \in Nat /\ Len(s) \in Nat
  OBVIOUS
<1>a. PICK top : Turns(V, s, size, pos, key, top)
  BY SiftTurns
<1>1. /\ top[0] = [s |-> s, pos |-> pos]
      /\ \A n \in 0..size : top[n] \in Places(V, s) /\ top[n].pos <= size
      /\ \A n \in 1..size : top[n] = Sunk(top[n - 1], size, key)
      /\ Sift(s, size, pos, key) = top[size].s
  BY <1>a DEF Turns
<1> DEFINE Down(h, n) == /\ Sinking(V, s, pos, size, key, h)
                         /\ HeapAt(h.s, size, h.pos, key) \/ h.pos > n
           P == {n \in Nat : n <= size => Down(top[n], n)}
<1>2. Down(top[0], 0)
  <2>1. top[0].s = s /\ top[0].pos = pos /\ top[0] \in Places(V, s)
    BY <1>0, <1>1
  <2>2. Rearranged(s, s, size)
    BY <1>0, RearrangedSame
  <2>3. \A p \in pos..size : p # pos => HeapAt(s, size, p, key)
    BY <1>0 DEF HeapFrom
  <2>4. \A p \in pos..size : pos \notin {2 * p, 2 * p + 1}
    BY <1>0
  <2> QED
    BY <1>0, <2>1, <2>2, <2>3, <2>4 DEF Sinking
<1>3. ASSUME NEW n \in Nat, n + 1 <= size, Down(top[n], n) PROVE Down(top[n + 1], n + 1)
  <2>1. top[n + 1] = Sunk(top[n], size, key)
    BY <1>0, <1>1, <1>3
  <2> DEFINE h == top[n]
             g == Sunk(h, size, key)
  <2>2. /\ Sinking(V, s, pos, size, key, g)
        /\ HeapAt(g.s, size, g.pos, key) \/ g.pos > h.pos
        /\ HeapAt(h.s, size, h.pos, key) => g = h
    <3>1. Sinking(V, s, pos, size, key, h)
      BY <1>3
    <3> HIDE DEF h
    <3> QED
      BY <3>1, SunkKeeps
  <2>3. h.pos \in Nat /\ g.pos \in Nat
    BY <1>0, <1>3, <2>2 DEF Sinking
  <2>4. HeapAt(h.s, size, h.pos, key) \/ h.pos > n
    BY <1>3
  <2>5. HeapAt(g.s, size, g.pos, key) \/ g.pos > n + 1
    <3> HIDE DEF g, h
    <3>1. CASE HeapAt(h.s, size, h.pos, key)
      BY <2>2, <3>1
    <3>2. CASE h.pos > n
      BY <2>2, <2>3, <3>2
    <3> QED
      BY <2>4, <3>1, <3>2
  <2> HIDE DEF g, h
  <2> QED
    BY <2>1, <2>2, <2>5 DEF g, h
<1>4. size \in P
  <2> HIDE DEF Down
  <2>1. 0 \in P
    BY <1>2
  <2>2. \A n \in Nat : n \in P => n + 1 \in P
    BY <1>0, <1>3
  <2>3. Nat \subseteq P
    <3> HIDE DEF P
    <3> QED
      BY <2>1, <2>2, Induction
  <2> HIDE DEF P
  <2> QED
    BY <1>0, <2>3
<1> DEFINE h == top[size]
<1>5. Down(h, size)
  BY <1>0, <1>4
<1>6. h.s \in Seq(V) /\ h.pos \in 1..size /\ Rearranged(s, h.s, size)
  BY <1>0, <1>5 DEF Sinking, Places
<1>7. \A p \in pos..size : HeapAt(h.s, size, p, key)
  <2> HIDE DEF h
  <2>1. HeapAt(h.s, size, h.pos, key)
    BY <1>0, <1>5, <1>6
  <2> QED
    BY <1>5, <2>1 DEF Sinking
<1> QED
  BY <1>1, <1>6, <1>7 DEF HeapFrom

LEMMA Half ==
    ASSUME NEW d \in Nat
    PROVE  d \div 2 \in Nat /\ (d = 2 * (d \div 2) \/ d = 2 * (d \div 2) + 1)
OBVIOUS

\* The first element of a heap has the largest key.
LEMMA RootIsLargest ==
    ASSUME NEW V, NEW key \in [V -> Nat], NEW s \in Seq(V), NEW size \in 1..Len(s),
           HeapFrom(s, 1, size, key), NEW c \in 1..size
    PROVE  key[s[c]] <= key[s[1]]
<1>0. size \in Nat /\ Len(s) \in Nat /\ \A d \in 1..size : s[d] \in V /\ key[s[d]] \in Nat
  BY ElementOfSeq
<1> DEFINE P == {n \in Nat : \A d \in 1..size : d <= n => key[s[d]] <= key[s[1]]}
<1>1. 0 \in P
  OBVIOUS
<1>2. ASSUME NEW n \in Nat, n \in P PROVE n + 1 \in P
  <2>1. \A d \in 1..size : d <= n => key[s[d]] <= key[s[1]]
    BY <1>2
  <2>2. ASSUME NEW d \in 1..size, d <= n + 1 PROVE key[s[d]] <= key[s[1]]
    <3>1. CASE d = 1
      BY <1>0, <3>1
    <3>2. CASE d # 1
      <4>1. PICK p \in 1..size : d \in {2 * p, 2 * p + 1} /\ p <= n
        <5> DEFINE h == d \div 2
        <5>1. h \in Nat /\ (d = 2 * h \/ d = 2 * h + 1)
          BY <1>0, Half
        <5> HIDE DEF h
        <5>2. h \in 1..size /\ h <= n
          BY <1>0, <2>2, <3>2, <5>1
        <5> QED
          BY <5>1, <5>2
      <4>2. key[s[d]] <= key[s[p]]
        <5>1. HeapAt(s, size, p, key)
          BY <1>0, <4>1 DEF HeapFrom
        <5>2. d \in {2 * p, 2 * p + 1} /\ d <= size
          BY <1>0, <4>1
        <5> QED
          BY <5>1, <5>2 DEF HeapAt
      <4>3. key[s[p]] <= key[s[1]]
        BY <2>1, <4>1
      <4>4. 1 \in 1..size
        BY <1>0
      <4> QED
        BY <1>0, <4>2, <4>3, <4>4
    <3> QED
      BY <3>1, <3>2
  <2> QED
    BY <2>2
<1>3. Nat \subseteq P
  <2> HIDE DEF P
  <2> QED
    BY <1>1, <1>2, Induction
<1> QED
  BY <1>0, <1>3

LEMMA RearrangedMore ==
    ASSUME NEW s, NEW t, NEW m \in Nat, NEW n \in Nat, Len(s) \in Nat, m <= n, n <= Len(s),
           Rearranged(s, t, m)
    PROVE  Rearranged(s, t, n)
<1>1. ASSUME NEW c \in 1..n PROVE (\E a \in 1..n : t[c] = s[a]) /\ (\E a \in 1..n : s[c] = t[a])
  <2>1. CASE c <= m
    <3>1. c \in 1..m /\ \A a \in 1..m : a \in 1..n
      BY <2>1
    <3> QED
      BY <3>1 DEF Rearranged
  <2>2. CASE c > m
    <3>1. t[c] = s[c]
      BY <2>2 DEF Rearranged
    <3> QED
      BY <3>1
  <2> QED
    BY <2>1, <2>2
<1>2. \A c \in (n + 1)..Len(s) : c \in (m + 1)..Len(s)
  OBVIOUS
<1> QED
  BY <1>1, <1>2 DEF Rearranged

\* The loop that builds the heap.
Builds(V, s, key, built) ==
    /\ built[0] = s
    /\ \A k \in 0..Len(s) : built[k] \in Arrays(V, s)
    /\ \A k \in 1..Len(s) : built[k] = Sift(built[k - 1], Len(s), Len(s) - k + 1, key)
    /\ Heap(s, key) = built[Len(s)]

\* Heap goes through such turns.
LEMMA HeapTurns ==
    ASSUME NEW V, V \subseteq Nat, NEW s \in Seq(V), NEW key
    PROVE  \E built : Builds(V, s, key, built)
<1> DEFINE n == Len(s)
           S == Arrays(V, s)
           G == [k \in 1..n |-> [t \in S |-> Sift(t, n, n - k + 1, key)]]
           Q(g) == g = [k \in 0..Len(s) |->
                          IF k = 0 THEN s
                          ELSE Sift(g[k - 1], Len(s), Len(s) - k + 1, key)]
           built == CHOOSE g : Q(g)
<1>0. n \in Nat /\ s \in S
  BY DEF Arrays
<1>1. \A k \in 1..n, t \in S : Sift(t, n, n - k + 1, key) \in S
  <2> SUFFICES ASSUME NEW k \in 1..n, NEW t \in S PROVE Sift(t, n, n - k + 1, key) \in S
    OBVIOUS
  <2>1. t \in Seq(V) /\ Len(t) = n /\ n \in 1..Len(t) /\ n - k + 1 \in 1..n
    BY <1>0 DEF Arrays
  <2>0. n = Len(s)
    OBVIOUS
  <2> HIDE DEF n, S, G, Q, built
  <2>2. ASSUME NEW j \in 1..n
        PROVE  Sift(t, n, j, key) \in Arrays(V, t)
    <3>1. t \in Seq(V) /\ n \in 1..Len(t)
      BY <2>1
    <3> QED
      BY Zenon, <3>1, <2>2, SiftTyped
  <2> QED
    BY <2>0, <2>1, <2>2 DEF Arrays, S
<1>2. G \in [1..n -> [S -> S]]
  <2> HIDE DEF n, S
  <2> QED
    BY <1>1
<1>3. PICK f : f \in [0..n -> S] /\ Iterates(f, n, s, G)
  <2> HIDE DEF n, S, G
  <2> QED
    BY <1>0, <1>2, Iterated
<1>4. \A k \in 1..n : f[k - 1] \in S /\ f[k] = Sift(f[k - 1], n, n - k + 1, key)
  <2> HIDE DEF n, S
  <2>1. \A k \in 1..n : k - 1 \in 0..n
    BY <1>0
  <2> QED
    BY <1>3, <2>1 DEF Iterates
<1>5. Q(f)
  <2>1. f = [k \in 0..n |-> f[k]]
    <3> HIDE DEF n, S
    <3> QED
      BY <1>3
  <2>2. \A k \in 0..n : f[k] = IF k = 0 THEN s ELSE Sift(f[k - 1], n, n - k + 1, key)
    <3> HIDE DEF n, S, G
    <3> QED
      BY <1>0, <1>3, <1>4 DEF Iterates
  <2> QED
    BY <2>1, <2>2
<1>6. Q(built)
  <2> HIDE DEF Q
  <2> QED
    BY Zenon, <1>5
<1>7. Heap(s, key) = built[Len(s)]
  BY Zenon DEF Heap
<1> HIDE DEF built
<1>8. built[0] = s /\ \A k \in 1..n : built[k] = Sift(built[k - 1], n, n - k + 1, key)
  BY <1>0, <1>6
<1> DEFINE P == {k \in Nat : k <= n => built[k] \in S}
<1>9. Nat \subseteq P
  <2> HIDE DEF n, S
  <2>1. 0 \in P
    BY <1>0, <1>8
  <2>2. \A k \in Nat : k \in P => k + 1 \in P
    <3> SUFFICES ASSUME NEW k \in Nat, k + 1 <= n, built[k] \in S PROVE built[k + 1] \in S
      BY <1>0
    <3>1. k + 1 \in 1..n /\ k + 1 - 1 = k
      BY <1>0
    <3> QED
      BY <1>1, <1>8, <3>1
  <2> HIDE DEF P
  <2> QED
    BY <2>1, <2>2, Induction
<1> QED
  BY <1>0, <1>7, <1>8, <1>9 DEF Builds

\* The first loop of sortports and sortpkgs makes a heap.
LEMMA HeapFacts ==
    ASSUME NEW V, V \subseteq Nat, NEW key \in [V -> Nat], NEW s \in Seq(V), s # <<>>
    PROVE  /\ Heap(s, key) \in Seq(V)
           /\ Rearranged(s, Heap(s, key), Len(s))
           /\ HeapFrom(Heap(s, key), 1, Len(s), key)
<1> DEFINE n == Len(s)
<1>0. n \in Nat /\ n >= 1
  <2>1. n \in Nat /\ n # 0
    BY EmptySeq
  <2> HIDE DEF n
  <2> QED
    BY <2>1
<1>1. PICK built : Builds(V, s, key, built)
  BY HeapTurns
<1>2. /\ built[0] = s /\ \A k \in 0..n : built[k] \in Seq(V) /\ Len(built[k]) = n
      /\ \A k \in 1..n : built[k] = Sift(built[k - 1], n, n - k + 1, key)
      /\ Heap(s, key) = built[n]
  BY <1>1 DEF Builds, Arrays
<1> DEFINE Done(k) == /\ Rearranged(s, built[k], n)
                      /\ HeapFrom(built[k], n - k + 1, n, key)
           P == {k \in Nat : k <= n => Done(k)}
<1>3. Done(0)
  <2>1. Rearranged(s, s, n)
    BY <1>0, RearrangedSame
  <2>2. HeapFrom(s, n - 0 + 1, n, key)
    BY <1>0 DEF HeapFrom
  <2> QED
    BY <1>2, <2>1, <2>2
<1>4. ASSUME NEW k \in Nat, k + 1 <= n, Done(k) PROVE Done(k + 1)
  <2> DEFINE t == built[k]
             u == built[k + 1]
  <2>1. k + 1 \in 1..n /\ k \in 0..n /\ k + 1 - 1 = k
    BY <1>0, <1>4
  <2>2. t \in Seq(V) /\ Len(t) = n /\ u = Sift(t, n, n - (k + 1) + 1, key)
    <3> HIDE DEF n
    <3> QED
      BY <1>2, <2>1
  <2>3. n - (k + 1) + 1 = n - k /\ n - k \in 1..n /\ n \in 1..Len(t)
    BY <1>0, <1>4, <2>2
  <2>4. HeapFrom(t, n - k + 1, n, key) /\ Rearranged(s, t, n)
    BY <1>4
  <2> HIDE DEF n, t, u
  <2>5. /\ Sift(t, n, n - k, key) \in Seq(V)
        /\ Rearranged(t, Sift(t, n, n - k, key), n)
        /\ HeapFrom(Sift(t, n, n - k, key), n - k, n, key)
    BY <2>2, <2>3, <2>4, SiftFacts
  <2>6. u = Sift(t, n, n - k, key)
    BY <2>2, <2>3
  <2>7. Rearranged(s, u, n)
    BY <1>0, <2>4, <2>5, <2>6, RearrangedAgain DEF n
  <2>8. HeapFrom(u, n - (k + 1) + 1, n, key)
    BY <2>3, <2>5, <2>6
  <2> QED
    BY <2>7, <2>8 DEF u
<1>5. n \in P
  <2> HIDE DEF Done, n
  <2>1. 0 \in P
    BY <1>3
  <2>2. \A k \in Nat : k \in P => k + 1 \in P
    BY <1>0, <1>4
  <2>3. Nat \subseteq P
    <3> HIDE DEF P
    <3> QED
      BY <2>1, <2>2, Induction
  <2> HIDE DEF P
  <2> QED
    BY <1>0, <2>3
<1>6. Done(n)
  <2> HIDE DEF Done, n
  <2> QED
    BY <1>0, <1>5
<1>7. n - n + 1 = 1 /\ built[n] \in Seq(V)
  BY <1>0, <1>2
<1> QED
  BY <1>2, <1>6, <1>7

\* The loop that takes the largest of the heap away.
Sorts(V, s, key, sorted) ==
    /\ sorted[0] = Heap(s, key)
    /\ \A k \in 0..Len(s) - 1 : sorted[k] \in Arrays(V, s)
    /\ \A k \in 1..Len(s) - 1 :
         sorted[k] = Sift(Swap(sorted[k - 1], 1, Len(s) - k + 1), Len(s) - k, 1, key)
    /\ HeapSort(s, key) = sorted[Len(s) - 1]

LEMMA TurnStays ==
    ASSUME NEW V, V \subseteq Nat, NEW key, NEW s, NEW n \in Nat, n = Len(s),
           NEW t \in Arrays(V, s), NEW k \in 1..n - 1
    PROVE  Sift(Swap(t, 1, n - k + 1), n - k, 1, key) \in Arrays(V, s)
<1> DEFINE m == n - k
           u == Swap(t, 1, m + 1)
<1>1. t \in Seq(V) /\ Len(t) = n
  BY DEF Arrays
<1>2. m + 1 \in 1..Len(t) /\ 1 \in 1..Len(t) /\ m \in 1..Len(t) /\ 1 \in 1..m
  BY <1>1
<1> HIDE DEF m
<1>3. u \in Seq(V) /\ Len(u) = Len(t)
  BY <1>1, <1>2 DEF Swap
<1> HIDE DEF u
<1>4. m \in 1..Len(u)
  BY <1>2, <1>3
<1>5. Sift(u, m, 1, key) \in Arrays(V, u)
  <2> DEFINE one == 1
  <2>1. u \in Seq(V) /\ m \in 1..Len(u) /\ one \in 1..m
    BY <1>2, <1>3, <1>4
  <2> HIDE DEF one
  <2>2. Sift(u, m, one, key) \in Arrays(V, u)
    BY <2>1, SiftTyped
  <2> QED
    BY <2>2 DEF one
<1>6. Sift(u, m, 1, key) \in Arrays(V, s)
  BY <1>1, <1>3, <1>5 DEF Arrays
<1> QED
  BY <1>6 DEF u, m

\* HeapSort goes through such turns.
LEMMA SortTurns ==
    ASSUME NEW V, V \subseteq Nat, NEW key \in [V -> Nat], NEW s \in Seq(V), s # <<>>
    PROVE  \E sorted : Sorts(V, s, key, sorted)
<1> DEFINE n == Len(s)
           N == Len(s) - 1
           S == Arrays(V, s)
           Turn1(t, k) == Sift(Swap(t, 1, Len(s) - k + 1), Len(s) - k, 1, key)
           G == [k \in 1..N |-> [t \in S |-> Turn1(t, k)]]
           b == Heap(s, key)
           Q(g) == g = [k \in 0..Len(s) - 1 |->
                          IF k = 0 THEN Heap(s, key)
                          ELSE Sift(Swap(g[k - 1], 1, Len(s) - k + 1), Len(s) - k, 1, key)]
           sorted == CHOOSE g : Q(g)
<1>0. n \in Nat /\ n >= 1 /\ N \in Nat /\ N = n - 1
  <2>1. n \in Nat /\ n # 0
    BY EmptySeq
  <2> HIDE DEF n
  <2>2. N = n - 1
    BY DEF n
  <2> HIDE DEF N
  <2> QED
    BY <2>1, <2>2
<1>1. b \in S
  <2>1. b \in Seq(V) /\ Rearranged(s, b, n)
    BY HeapFacts
  <2> QED
    BY <2>1 DEF Arrays, Rearranged
<1>2. \A k \in 1..N, t \in S : Turn1(t, k) \in S
  <2> SUFFICES ASSUME NEW k \in 1..N, NEW t \in S PROVE Turn1(t, k) \in S
    OBVIOUS
  <2>1. n = Len(s) /\ N = n - 1 /\ k \in 1..n - 1 /\ t \in Arrays(V, s)
    BY <1>0
  <2> HIDE DEF n, N, S
  <2>2. Sift(Swap(t, 1, n - k + 1), n - k, 1, key) \in Arrays(V, s)
    BY <1>0, <2>1, TurnStays
  <2> QED
    BY <2>2 DEF n, S
<1>3. G \in [1..N -> [S -> S]]
  <2> HIDE DEF N, S, Turn1
  <2> QED
    BY <1>2
<1>4. PICK f : f \in [0..N -> S] /\ Iterates(f, N, b, G)
  <2> HIDE DEF N, S, G, b
  <2>1. N \in Nat
    BY <1>0
  <2> QED
    BY <1>1, <1>3, <2>1, Iterated
<1>5. \A k \in 1..N : f[k - 1] \in S /\ f[k] = Turn1(f[k - 1], k)
  <2> HIDE DEF n, N, S, Turn1
  <2>1. \A k \in 1..N : k - 1 \in 0..N
    BY <1>0
  <2> QED
    BY <1>4, <2>1 DEF Iterates
<1>6. Q(f)
  <2>1. f = [k \in 0..N |-> f[k]]
    <3> HIDE DEF N, S
    <3> QED
      BY <1>4
  <2>2. \A k \in 0..N : f[k] = IF k = 0 THEN b ELSE Turn1(f[k - 1], k)
    <3> HIDE DEF n, N, S, G, b, Turn1
    <3> QED
      BY <1>0, <1>4, <1>5 DEF Iterates
  <2> QED
    BY <2>1, <2>2
<1>7. Q(sorted)
  <2> HIDE DEF Q
  <2> QED
    BY Zenon, <1>6
<1>8. HeapSort(s, key) = sorted[Len(s) - 1]
  BY Zenon DEF HeapSort
<1> HIDE DEF sorted
<1>9. sorted[0] = b /\ \A k \in 1..N : sorted[k] = Turn1(sorted[k - 1], k)
  BY <1>0, <1>7
<1> DEFINE P == {k \in Nat : k <= N => sorted[k] \in S}
<1>10. Nat \subseteq P
  <2> HIDE DEF n, N, S, b, Turn1
  <2>1. 0 \in P
    BY <1>0, <1>1, <1>9
  <2>2. \A k \in Nat : k \in P => k + 1 \in P
    <3> SUFFICES ASSUME NEW k \in Nat, k + 1 <= N, sorted[k] \in S PROVE sorted[k + 1] \in S
      BY <1>0
    <3>1. k + 1 \in 1..N /\ k + 1 - 1 = k
      BY <1>0
    <3> QED
      BY <1>2, <1>9, <3>1
  <2> HIDE DEF P
  <2> QED
    BY <2>1, <2>2, Induction
<1> QED
  BY <1>0, <1>8, <1>9, <1>10 DEF Sorts

\* In the first m places of t there is a heap, and the others are done.
Taken(s, t, m, key) ==
    /\ Rearranged(s, t, Len(s))
    /\ HeapFrom(t, 1, m, key)
    /\ \A a, b \in 1..Len(s) : a < b /\ b > m => key[t[a]] <= key[t[b]]

\* The largest is swapped to the end of the heap, and the heap mended.
LEMMA TakeKeeps ==
    ASSUME NEW V, V \subseteq Nat, NEW key \in [V -> Nat], NEW s \in Seq(V), NEW t \in Seq(V),
           NEW m \in 2..Len(s), Taken(s, t, m, key)
    PROVE  LET w == Sift(Swap(t, 1, m), m - 1, 1, key)
           IN  w \in Seq(V) /\ Taken(s, w, m - 1, key)
<1> DEFINE n == Len(s)
           u == Swap(t, 1, m)
           w == Sift(u, m - 1, 1, key)
<1>0. n \in Nat /\ m \in Nat /\ m >= 2 /\ m <= n
  OBVIOUS
<1>1. Len(t) = n /\ Rearranged(s, t, n) /\ HeapFrom(t, 1, m, key)
  BY DEF Taken, Rearranged
<1>2. \A a, b \in 1..n : a < b /\ b > m => key[t[a]] <= key[t[b]]
  BY DEF Taken
<1> HIDE DEF n
<1>3. m - 1 \in 1..n /\ m \in 1..n /\ 1 \in 1..n /\ m - 1 \in Nat /\ m \in 1..Len(t)
      /\ 1 \in 1..m - 1 /\ m - 1 + 1 = m /\ 1 \in 1..m
  BY <1>0, <1>1
<1>4. /\ u \in Seq(V) /\ Len(u) = n /\ u[1] = t[m] /\ u[m] = t[1]
      /\ \A c \in (1..n) \ {1, m} : u[c] = t[c]
  <2>1. t \in [1..n -> V] /\ 1 \in 1..n /\ m \in 1..n /\ m # 1
    BY <1>0, <1>1, <1>3
  <2>2. u \in [1..n -> V]
    BY <2>1 DEF Swap
  <2>3. u[1] = t[m] /\ u[m] = t[1] /\ \A c \in (1..n) \ {1, m} : u[c] = t[c]
    BY <2>1 DEF Swap
  <2> HIDE DEF u
  <2>4. u \in Seq(V) /\ Len(u) = n
    BY <1>0, <2>2
  <2> QED
    BY <2>3, <2>4
<1>5. Rearranged(t, u, m)
  <2>1. m \in 1..Len(t) /\ 1 \in 1..m /\ m \in 1..m
    BY <1>0, <1>1
  <2> QED
    BY <2>1, SwapRearranges
<1> HIDE DEF u
<1>6. HeapFrom(u, 1 + 1, m - 1, key)
  <2> SUFFICES ASSUME NEW p \in 2..m - 1 PROVE HeapAt(u, m - 1, p, key)
    BY <1>0 DEF HeapFrom
  <2> SUFFICES ASSUME NEW c \in {2 * p, 2 * p + 1}, c <= m - 1
               PROVE  key[u[c]] <= key[u[p]]
    BY DEF HeapAt
  <2>1. p \in 1..m /\ p \in (1..n) \ {1, m} /\ c \in (1..n) \ {1, m} /\ c <= m
    BY <1>0
  <2>2. HeapAt(t, m, p, key)
    BY <1>1, <2>1 DEF HeapFrom
  <2>3. key[t[c]] <= key[t[p]]
    BY <2>1, <2>2 DEF HeapAt
  <2> QED
    BY <1>4, <2>1, <2>3
<1>7. w \in Seq(V) /\ Rearranged(u, w, m - 1) /\ HeapFrom(w, 1, m - 1, key)
  <2> DEFINE q == m - 1
  <2>1. q \in 1..Len(u) /\ 1 \in 1..q /\ HeapFrom(u, 1 + 1, q, key)
    BY <1>3, <1>4, <1>6
  <2> HIDE DEF q
  <2>2. /\ Sift(u, q, 1, key) \in Seq(V)
        /\ Rearranged(u, Sift(u, q, 1, key), q)
        /\ HeapFrom(Sift(u, q, 1, key), 1, q, key)
    BY <1>4, <2>1, SiftFacts
  <2> QED
    BY <2>2 DEF q
<1> HIDE DEF w
<1>8. Rearranged(s, w, n)
  <2>1. Rearranged(t, u, n)
    BY <1>0, <1>1, <1>5, RearrangedMore
  <2>2. Rearranged(u, w, n)
    BY <1>0, <1>3, <1>4, <1>7, RearrangedMore
  <2>3. Len(s) \in Nat /\ Len(t) \in Nat
    BY <1>0, <1>1 DEF n
  <2>4. Rearranged(s, u, n)
    BY <1>0, <1>1, <2>1, <2>3, RearrangedAgain
  <2> QED
    BY <1>0, <2>2, <2>3, <2>4, RearrangedAgain
<1>9. \A c \in 1..m - 1 : \E a \in 1..m : w[c] = t[a]
  <2> SUFFICES ASSUME NEW c \in 1..m - 1 PROVE \E a \in 1..m : w[c] = t[a]
    OBVIOUS
  <2>1. PICK d \in 1..m - 1 : w[c] = u[d]
    BY <1>7 DEF Rearranged
  <2>2. d \in 1..m
    BY <1>0
  <2>3. PICK a \in 1..m : u[d] = t[a]
    BY <1>5, <2>2 DEF Rearranged
  <2> QED
    BY <2>1, <2>3
<1>10. \A c \in m..n : w[c] = u[c]
  BY <1>3, <1>4, <1>7 DEF Rearranged
<1>11. ASSUME NEW a \in 1..n, NEW b \in 1..n, a < b, b > m - 1
       PROVE  key[w[a]] <= key[w[b]]
  <2>1. CASE b = m
    <3>1. w[b] = t[1]
      BY <1>0, <1>4, <1>10, <2>1
    <3>2. PICK d \in 1..m : w[a] = t[d]
      BY <1>0, <1>9, <1>11, <2>1
    <3>3. key[t[d]] <= key[t[1]]
      BY <1>1, <1>3, RootIsLargest
    <3> QED
      BY <3>1, <3>2, <3>3
  <2>2. CASE b # m
    <3>1. b > m /\ b \in m..n /\ b \in (1..n) \ {1, m}
      BY <1>0, <1>11, <2>2
    <3>2. w[b] = t[b]
      BY <1>4, <1>10, <3>1
    <3>3. PICK d \in 1..n : w[a] = t[d] /\ d < b
      <4>1. CASE a \in 1..m - 1
        <5>1. PICK d \in 1..m : w[a] = t[d]
          BY <1>9, <4>1
        <5>2. d \in 1..n /\ d < b
          BY <1>0, <3>1, <5>1
        <5> QED
          BY <5>1, <5>2
      <4>2. CASE a = m
        BY <1>0, <1>4, <1>10, <3>1, <4>2
      <4>3. CASE a > m
        BY <1>0, <1>4, <1>10, <1>11, <4>3
      <4> QED
        BY <1>0, <4>1, <4>2, <4>3
    <3>4. key[t[d]] <= key[t[b]]
      BY <1>2, <3>1, <3>3
    <3> QED
      BY <3>2, <3>3, <3>4
  <2> QED
    BY <2>1, <2>2
<1>12. Taken(s, w, m - 1, key)
  BY <1>7, <1>8, <1>11 DEF Taken, n
<1> QED
  BY <1>7, <1>12 DEF w, u

\* sortports and sortpkgs: the array is rearranged, and in order.
LEMMA HeapSortFacts ==
    ASSUME NEW V, V \subseteq Nat, NEW key \in [V -> Nat], NEW s \in Seq(V)
    PROVE  /\ HeapSort(s, key) \in Seq(V)
           /\ Rearranged(s, HeapSort(s, key), Len(s))
           /\ \A a, b \in 1..Len(s) :
                a < b => key[HeapSort(s, key)[a]] <= key[HeapSort(s, key)[b]]
<1>1. CASE s = <<>>
  <2>1. HeapSort(s, key) = s
    BY <1>1 DEF HeapSort
  <2>2. Len(s) = 0 /\ Rearranged(s, s, 0)
    BY <1>1, RearrangedSame
  <2> QED
    BY <2>1, <2>2
<1>2. CASE s # <<>>
  <2> DEFINE n == Len(s)
  <2>0. n \in Nat /\ n >= 1
    <3>1. n \in Nat /\ n # 0
      BY <1>2, EmptySeq
    <3> HIDE DEF n
    <3> QED
      BY <3>1
  <2>1. PICK sorted : Sorts(V, s, key, sorted)
    BY <1>2, SortTurns
  <2>2. /\ sorted[0] = Heap(s, key)
        /\ \A k \in 0..n - 1 : sorted[k] \in Seq(V)
        /\ \A k \in 1..n - 1 : sorted[k] = Sift(Swap(sorted[k - 1], 1, n - k + 1), n - k, 1, key)
        /\ HeapSort(s, key) = sorted[n - 1]
    BY <2>1 DEF Sorts, Arrays
  <2> DEFINE P == {k \in Nat : k <= n - 1 => Taken(s, sorted[k], n - k, key)}
  <2>3. 0 \in P
    <3>1. Rearranged(s, sorted[0], n) /\ HeapFrom(sorted[0], 1, n, key)
      BY <1>2, <2>2, HeapFacts
    <3>2. Taken(s, sorted[0], n, key)
      BY <3>1 DEF Taken
    <3>3. n - 0 = n
      BY <2>0
    <3> QED
      BY <3>2, <3>3
  <2>4. ASSUME NEW k \in Nat, k \in P PROVE k + 1 \in P
    <3> SUFFICES ASSUME k + 1 <= n - 1 PROVE Taken(s, sorted[k + 1], n - (k + 1), key)
      OBVIOUS
    <3> DEFINE m == n - k
    <3>1. /\ m \in 2..Len(s) /\ k \in 0..n - 1 /\ k + 1 \in 1..n - 1 /\ k + 1 - 1 = k /\ k <= n - 1
          /\ n - (k + 1) = m - 1 /\ n - (k + 1) + 1 = m
      BY <2>0
    <3>2. sorted[k] \in Seq(V) /\ Taken(s, sorted[k], m, key)
      BY <2>2, <2>4, <3>1
    <3>3. sorted[k + 1] = Sift(Swap(sorted[k], 1, m), m - 1, 1, key)
      <4> HIDE DEF m, n
      <4>1. sorted[k + 1] = Sift(Swap(sorted[k + 1 - 1], 1, n - (k + 1) + 1), n - (k + 1), 1, key)
        BY <2>2, <3>1
      <4> QED
        BY <3>1, <4>1
    <3> DEFINE t == sorted[k]
    <3> HIDE DEF m, n, t, P
    <3>4. t \in Seq(V) /\ Taken(s, t, m, key)
      BY <3>2 DEF t
    <3>5. Taken(s, Sift(Swap(t, 1, m), m - 1, 1, key), m - 1, key)
      BY <3>1, <3>4, TakeKeeps
    <3> QED
      BY <3>1, <3>3, <3>5 DEF t
  <2>5. Nat \subseteq P
    <3> HIDE DEF P
    <3> QED
      BY <2>3, <2>4, Induction
  <2>6. Taken(s, sorted[n - 1], 1, key)
    <3>1. n - 1 \in Nat /\ n - (n - 1) = 1 /\ n - 1 <= n - 1
      BY <2>0
    <3> HIDE DEF n
    <3>2. Taken(s, sorted[n - 1], n - (n - 1), key)
      BY <2>5, <3>1
    <3> QED
      BY <3>1, <3>2
  <2> DEFINE w == HeapSort(s, key)
  <2>7. w \in Seq(V) /\ Taken(s, w, 1, key)
    BY <2>0, <2>2, <2>6
  <2>8. \A a, b \in 1..Len(s) : a < b => b > 1
    BY <2>0
  <2> HIDE DEF w
  <2>9. w \in Seq(V) /\ Rearranged(s, w, Len(s))
        /\ \A a, b \in 1..Len(s) : a < b => key[w[a]] <= key[w[b]]
    BY <2>7, <2>8 DEF Taken
  <2> QED
    BY <2>9 DEF w
<1> QED
  BY <1>1, <1>2

-----------------------------------------------------------------------------
(* Binary search. *)
\* What find does at w, if it is g that it calls.
Looked(a, dirs, dir, g, w) ==
    LET mid == (w[1] + w[2]) \div 2
        p == a[mid + 1]
    IN  IF w[1] = w[2] THEN NoPort
        ELSE IF dirs[p] = dir THEN p
        ELSE IF dirs[p] < dir THEN g[<<mid + 1, w[2]>>]
        ELSE g[<<w[1], mid>>]

\* The place looked at is in the window, and both of what is left are smaller.
LEMMA Middle ==
    ASSUME NEW n \in Nat, NEW w \in Windows(n), w[1] # w[2]
    PROVE  LET mid == (w[1] + w[2]) \div 2
           IN  /\ mid \in 0..n /\ w[1] <= mid /\ mid < w[2] /\ mid + 1 \in 1..n
               /\ <<mid + 1, w[2]>> \in Windows(n)
               /\ <<w[1], mid>> \in Windows(n)
               /\ w[1] \in 0..n /\ w[2] \in 0..n
<1> DEFINE d == w[1] + w[2]
           mid == d \div 2
<1>1. w[1] \in 0..n /\ w[2] \in 0..n /\ w[1] < w[2]
  BY DEF Windows
<1>2. d \in Nat
  BY <1>1
<1> HIDE DEF d
<1>3. mid \in Nat /\ (d = 2 * mid \/ d = 2 * mid + 1)
  BY <1>2, Half
<1> HIDE DEF mid
<1>4. mid \in 0..n /\ w[1] <= mid /\ mid < w[2] /\ mid + 1 \in 1..n /\ mid + 1 \in 0..n /\ mid + 1 <= w[2]
  BY <1>1, <1>3 DEF d
<1>5. <<mid + 1, w[2]>> \in Windows(n) /\ <<w[1], mid>> \in Windows(n)
  BY <1>1, <1>4 DEF Windows
<1> QED
  BY <1>1, <1>4, <1>5 DEF mid, d

\* find, as far as it is determined: the windows are smaller in each call.
Finds(a, dirs, dir, find) ==
    /\ \A w \in Windows(Len(a)) : find[w] = Looked(a, dirs, dir, find, w)
    /\ Search(a, dirs, dir) = find[<<0, Len(a)>>]

\* Search does what find does at each window.
LEMMA SearchTurns ==
    ASSUME NEW V, NEW a \in Seq(V), NEW dirs, NEW dir
    PROVE  \E find : Finds(a, dirs, dir, find)
<1> DEFINE n == Len(a)
           D == Windows(Len(a))
           S == [D -> V \cup {NoPort}]
           b == [w \in D |-> NoPort]
           H(g) == [w \in D |-> Looked(a, dirs, dir, g, w)]
           G == [k \in 1..n + 2 |-> [g \in S |-> H(g)]]
           Q(g) == g = [w \in Windows(Len(a)) |->
                          LET mid == (w[1] + w[2]) \div 2
                              p == a[mid + 1]
                          IN  IF w[1] = w[2] THEN NoPort
                              ELSE IF dirs[p] = dir THEN p
                              ELSE IF dirs[p] < dir THEN g[<<mid + 1, w[2]>>]
                              ELSE g[<<w[1], mid>>]]
           find == CHOOSE g : Q(g)
<1>0. n \in Nat /\ n + 2 \in Nat
  OBVIOUS
<1>1. b \in S
  OBVIOUS
<1>2. \A g \in S : H(g) \in S
  <2> SUFFICES ASSUME NEW g \in S, NEW w \in D PROVE Looked(a, dirs, dir, g, w) \in V \cup {NoPort}
    OBVIOUS
  <2> HIDE DEF D
  <2>1. CASE w[1] = w[2]
    BY <2>1 DEF Looked
  <2>2. CASE w[1] # w[2]
    <3> DEFINE mid == (w[1] + w[2]) \div 2
    <3>1. mid + 1 \in 1..n /\ <<mid + 1, w[2]>> \in D /\ <<w[1], mid>> \in D
      BY <1>0, <2>2, Middle DEF D
    <3>2. a[mid + 1] \in V /\ g[<<mid + 1, w[2]>>] \in V \cup {NoPort}
          /\ g[<<w[1], mid>>] \in V \cup {NoPort}
      <4> HIDE DEF mid
      <4> QED
        BY <3>1, ElementOfSeq
    <3> QED
      BY <2>2, <3>2 DEF Looked
  <2> QED
    BY <2>1, <2>2
<1>3. G \in [1..n + 2 -> [S -> S]]
  <2> HIDE DEF S, H, n
  <2> QED
    BY <1>2
<1>4. PICK F : F \in [0..n + 2 -> S] /\ Iterates(F, n + 2, b, G)
  <2> HIDE DEF S, G, b, n
  <2> QED
    BY <1>0, <1>1, <1>3, Iterated
<1>5. \A k \in 1..n + 2 : F[k - 1] \in S /\ F[k] = H(F[k - 1])
  <2> HIDE DEF S, H, n
  <2>1. \A k \in 1..n + 2 : k - 1 \in 0..n + 2
    BY <1>0
  <2> QED
    BY <1>4, <2>1 DEF Iterates
<1>6. \A k \in 1..n + 2, w \in D : F[k][w] = Looked(a, dirs, dir, F[k - 1], w)
  BY <1>5
<1> DEFINE P == {k \in Nat : k <= n + 1 =>
                   \A w \in D : w[2] - w[1] < k => F[k + 1][w] = F[k][w]}
<1>7. 0 \in P
  <2>1. \A w \in D : ~(w[2] - w[1] < 0)
    BY DEF Windows
  <2> HIDE DEF D
  <2> QED
    BY <2>1
<1>8. ASSUME NEW k \in Nat, k \in P PROVE k + 1 \in P
  <2> SUFFICES ASSUME k + 1 <= n + 1, NEW w \in D, w[2] - w[1] < k + 1
               PROVE  F[k + 1 + 1][w] = F[k + 1][w]
    OBVIOUS
  <2>1. k + 1 \in 1..n + 2 /\ k + 1 + 1 \in 1..n + 2 /\ k + 1 - 1 = k /\ k + 1 + 1 - 1 = k + 1 /\ k <= n + 1
    BY <1>0
  <2>2. F[k + 1 + 1][w] = Looked(a, dirs, dir, F[k + 1], w) /\ F[k + 1][w] = Looked(a, dirs, dir, F[k], w)
    <3> HIDE DEF D, n
    <3> QED
      BY <1>6, <2>1
  <2>3. \A v \in D : v[2] - v[1] < k => F[k + 1][v] = F[k][v]
    BY <1>8, <2>1
  <2>4. CASE w[1] = w[2]
    <3> HIDE DEF D, n
    <3> QED
      BY <2>2, <2>4 DEF Looked
  <2>5. CASE w[1] # w[2]
    <3> DEFINE mid == (w[1] + w[2]) \div 2
               v == <<mid + 1, w[2]>>
               u == <<w[1], mid>>
    <3> HIDE DEF D
    <3>1. w[1] \in Nat /\ w[2] \in Nat /\ mid \in Nat /\ w[1] <= mid /\ mid < w[2] /\ v \in D /\ u \in D
      BY <1>0, <2>5, Middle DEF D
    <3>2. v[1] = mid + 1 /\ v[2] = w[2] /\ u[1] = w[1] /\ u[2] = mid
      OBVIOUS
    <3> HIDE DEF mid, v, u
    <3>3. v[2] - v[1] < k /\ u[2] - u[1] < k
      BY <3>1, <3>2
    <3>4. F[k + 1][v] = F[k][v] /\ F[k + 1][u] = F[k][u]
      BY <2>3, <3>1, <3>3
    <3> QED
      BY <2>2, <3>4 DEF Looked, v, u, mid
  <2> QED
    BY <2>4, <2>5
<1>9. Nat \subseteq P
  <2> HIDE DEF P
  <2> QED
    BY <1>7, <1>8, Induction
<1> DEFINE f == F[n + 1]
<1>10. f \in S /\ \A w \in D : f[w] = Looked(a, dirs, dir, f, w)
  <2>1. n + 1 \in Nat /\ n + 1 <= n + 1 /\ n + 1 \in 0..n + 2 /\ n + 1 + 1 \in 1..n + 2 /\ n + 1 + 1 - 1 = n + 1
    BY <1>0
  <2>2. \A w \in D : w[2] - w[1] < n + 1
    BY <1>0 DEF Windows
  <2> HIDE DEF D, S, n
  <2>3. n + 1 \in P
    BY <1>9, <2>1
  <2>4. \A w \in D : F[n + 1 + 1][w] = F[n + 1][w]
    BY <2>1, <2>2, <2>3
  <2>5. \A w \in D : F[n + 1 + 1][w] = Looked(a, dirs, dir, F[n + 1], w)
    BY <1>6, <2>1
  <2> QED
    BY <1>4, <2>1, <2>4, <2>5
<1>11. Q(f)
  <2>1. f = [w \in D |-> f[w]]
    BY <1>10
  <2>2. f = [w \in D |-> Looked(a, dirs, dir, f, w)]
    <3> HIDE DEF f, D
    <3> QED
      BY <1>10, <2>1
  <2> HIDE DEF f
  <2> QED
    BY <2>2 DEF Looked
<1>12. Q(find)
  <2> HIDE DEF Q
  <2> QED
    BY Zenon, <1>11
<1>13. Search(a, dirs, dir) = find[<<0, Len(a)>>]
  BY Zenon DEF Search
<1> HIDE DEF find
<1>14. \A w \in D : find[w] = Looked(a, dirs, dir, find, w)
  <2> HIDE DEF D
  <2>1. find = [w \in D |-> Looked(a, dirs, dir, find, w)]
    BY <1>12 DEF Looked, D
  <2> QED
    BY <2>1
<1> QED
  BY <1>13, <1>14 DEF Finds

\* p is what a search for dir in the places from lo to hi of a should return.
Found(a, dirs, dir, lo, hi, p) ==
    \/ \E c \in lo..hi : p = a[c] /\ dirs[a[c]] = dir
    \/ p = NoPort /\ \A c \in lo..hi : dirs[a[c]] # dir

Ordered(a, dirs) ==
    \A b, c \in 1..Len(a) : b < c => dirs[a[b]] <= dirs[a[c]]

\* findport: in an array in order it returns what has the directory, or that
\* nothing has.
LEMMA SearchFacts ==
    ASSUME NEW V, NEW dirs \in [V -> Nat], NEW a \in Seq(V), Ordered(a, dirs),
           NEW dir \in Nat
    PROVE  Found(a, dirs, dir, 1, Len(a), Search(a, dirs, dir))
<1> DEFINE n == Len(a)
           D == Windows(Len(a))
<1>0. n \in Nat /\ \A c \in 1..n : a[c] \in V /\ dirs[a[c]] \in Nat
  BY ElementOfSeq
<1>1. PICK find : Finds(a, dirs, dir, find)
  BY SearchTurns
<1>2. \A w \in D : find[w] = Looked(a, dirs, dir, find, w)
  BY <1>1 DEF Finds
<1> DEFINE Right(w) == Found(a, dirs, dir, w[1] + 1, w[2], find[w])
           P == {k \in Nat : \A w \in D : w[2] - w[1] < k => Right(w)}
<1>3. 0 \in P
  <2>1. \A w \in D : ~(w[2] - w[1] < 0)
    BY DEF Windows
  <2> HIDE DEF D, Right
  <2> QED
    BY <2>1
<1>4. ASSUME NEW k \in Nat, k \in P PROVE k + 1 \in P
  <2> SUFFICES ASSUME NEW w \in D, w[2] - w[1] < k + 1 PROVE Right(w)
    OBVIOUS
  <2>1. find[w] = Looked(a, dirs, dir, find, w) /\ \A v \in D : v[2] - v[1] < k => Right(v)
    BY <1>2, <1>4
  <2> HIDE DEF n
  <2>2. CASE w[1] = w[2]
    <3>1. find[w] = NoPort
      BY <2>1, <2>2 DEF Looked
    <3>2. w[1] \in Nat /\ \A c \in w[1] + 1..w[2] : FALSE
      BY <2>2 DEF Windows
    <3> QED
      BY <3>1, <3>2 DEF Found
  <2>3. CASE w[1] # w[2]
    <3> DEFINE mid == (w[1] + w[2]) \div 2
               p == a[mid + 1]
               v == <<mid + 1, w[2]>>
               u == <<w[1], mid>>
    <3> HIDE DEF D
    <3>1. /\ w[1] \in 0..n /\ w[2] \in 0..n /\ mid \in 0..n /\ w[1] <= mid /\ mid < w[2] /\ v \in D /\ u \in D
      BY <1>0, <2>3, Middle DEF D, n
    <3>2. v[1] = mid + 1 /\ v[2] = w[2] /\ u[1] = w[1] /\ u[2] = mid
      OBVIOUS
    <3>3. /\ find[w] = IF dirs[p] = dir THEN p
                       ELSE IF dirs[p] < dir THEN find[v] ELSE find[u]
      BY <2>1, <2>3 DEF Looked
    <3> HIDE DEF mid, v, u, p
    <3>4. v[2] - v[1] < k /\ u[2] - u[1] < k
      BY <1>0, <3>1, <3>2
    <3>5. mid + 1 \in 1..n /\ mid + 1 \in w[1] + 1..w[2] /\ p = a[mid + 1] /\ dirs[p] \in Nat
      BY <1>0, <3>1 DEF p
    <3>6. CASE dirs[p] = dir
      BY <3>3, <3>5, <3>6 DEF Found
    <3>7. CASE dirs[p] < dir
      <4>1. Found(a, dirs, dir, mid + 1 + 1, w[2], find[v])
        BY <2>1, <3>1, <3>2, <3>4
      <4>2. find[w] = find[v]
        BY <3>3, <3>5, <3>7
      <4>3. \A c \in mid + 1 + 1..w[2] : c \in w[1] + 1..w[2]
        BY <1>0, <3>1
      <4>4. ASSUME NEW c \in w[1] + 1..w[2], c \notin mid + 1 + 1..w[2] PROVE dirs[a[c]] # dir
        <5>1. c \in 1..n /\ c <= mid + 1
          BY <1>0, <3>1, <4>4
        <5>2. dirs[a[c]] <= dirs[a[mid + 1]]
          BY <1>0, <3>5, <5>1 DEF Ordered, n
        <5> QED
          BY <1>0, <3>5, <3>7, <5>1, <5>2
      <4> QED
        BY <4>1, <4>2, <4>3, <4>4 DEF Found
    <3>8. CASE dir < dirs[p]
      <4>1. Found(a, dirs, dir, w[1] + 1, mid, find[u])
        BY <2>1, <3>1, <3>2, <3>4
      <4>2. find[w] = find[u]
        BY <3>3, <3>5, <3>8
      <4>3. \A c \in w[1] + 1..mid : c \in w[1] + 1..w[2]
        BY <1>0, <3>1
      <4>4. ASSUME NEW c \in w[1] + 1..w[2], c \notin w[1] + 1..mid PROVE dirs[a[c]] # dir
        <5>1. c \in 1..n /\ mid + 1 <= c
          BY <1>0, <3>1, <4>4
        <5>2. dirs[a[mid + 1]] <= dirs[a[c]]
          BY <1>0, <3>5, <5>1 DEF Ordered, n
        <5> QED
          BY <1>0, <3>5, <3>8, <5>1, <5>2
      <4> QED
        BY <4>1, <4>2, <4>3, <4>4 DEF Found
    <3> QED
      BY <3>5, <3>6, <3>7, <3>8
  <2> QED
    BY <2>2, <2>3
<1>5. Nat \subseteq P
  <2> HIDE DEF P
  <2> QED
    BY <1>3, <1>4, Induction
<1> DEFINE w == <<0, n>>
<1>6. w \in D /\ w[1] = 0 /\ w[2] = n /\ n + 1 \in Nat /\ w[2] - w[1] < n + 1 /\ w[1] + 1 = 1
  BY <1>0 DEF Windows
<1>7. Right(w)
  <2> HIDE DEF w, D, n, Right
  <2>1. n + 1 \in P
    BY <1>5, <1>6
  <2> QED
    BY <1>6, <2>1
<1>8. Search(a, dirs, dir) = find[w]
  BY <1>1 DEF Finds
<1> QED
  <2> HIDE DEF w, n
  <2> QED
    BY <1>6, <1>7, <1>8 DEF n

-----------------------------------------------------------------------------
(* Arrays that grow. *)
LEMMA SeqRange ==
    ASSUME NEW V, NEW s \in Seq(V)
    PROVE  /\ Len(s) \in Nat /\ DOMAIN s = 1..Len(s)
           /\ \A c \in 1..Len(s) : s[c] \in V
           /\ Range(s) = {s[c] : c \in 1..Len(s)}
           /\ Range(s) \subseteq V
<1>1. \A c \in 1..Len(s) : s[c] \in V
  BY ElementOfSeq
<1>2. Len(s) \in Nat /\ DOMAIN s = 1..Len(s)
  OBVIOUS
<1> QED
  BY <1>1, <1>2 DEF Range

\* Arrays that their elements fit in, as recurse_one has them while it extends them.
Rooms(V) == {a \in [d : Seq(V), nd : Nat] : a.nd >= 1 /\ Len(a.d) <= a.nd}

\* e is d with elements added behind, none twice that was not there twice.
Extends(d, e) ==
    /\ Len(d) <= Len(e)
    /\ \A c \in 1..Len(d) : e[c] = d[c]
    /\ IsInjective(d) => IsInjective(e)

LEMMA AddTyped ==
    ASSUME NEW V, NEW a \in Rooms(V), NEW r \in V
    PROVE  Add(a, r) \in Rooms(V)
<1>1. a.d \in Seq(V) /\ a.nd \in Nat /\ a.nd >= 1 /\ Len(a.d) <= a.nd /\ Len(a.d) \in Nat
  BY DEF Rooms
<1>2. CASE r \in Range(a.d)
  BY <1>2 DEF Add
<1>3. CASE r \notin Range(a.d)
  <2> DEFINE e == Append(a.d, r)
             nd == IF Len(a.d) + 1 >= a.nd THEN 2 * a.nd ELSE a.nd
  <2>1. Add(a, r) = [d |-> e, nd |-> nd]
    BY <1>3 DEF Add
  <2>2. e \in Seq(V) /\ Len(e) = Len(a.d) + 1
    BY <1>1
  <2>3. nd \in Nat /\ nd >= 1 /\ Len(a.d) + 1 <= nd
    <3> HIDE DEF e
    <3> QED
      BY <1>1
  <2> HIDE DEF e, nd
  <2> QED
    BY <2>1, <2>2, <2>3 DEF Rooms
<1> QED
  BY <1>2, <1>3

\* The loop over k and the realloc: an element is added unless it is there.
LEMMA AddFacts ==
    ASSUME NEW V, NEW a \in Rooms(V), NEW r \in V
    PROVE  /\ Extends(a.d, Add(a, r).d)
           /\ Range(Add(a, r).d) = Range(a.d) \cup {r}
<1>1. a.d \in Seq(V) /\ a.nd \in Nat /\ Len(a.d) \in Nat
  BY DEF Rooms
<1>2. CASE r \in Range(a.d)
  <2>1. Add(a, r) = a
    BY <1>2 DEF Add
  <2> QED
    BY <1>1, <1>2, <2>1 DEF Extends
<1>3. CASE r \notin Range(a.d)
  <2> DEFINE d == a.d
             e == Append(a.d, r)
             n == Len(a.d)
  <2>1. Add(a, r).d = e
    BY <1>3 DEF Add
  <2>2. /\ Len(e) = n + 1 /\ e[n + 1] = r /\ \A c \in 1..n : e[c] = d[c]
        /\ DOMAIN e = 1..n + 1 /\ DOMAIN d = 1..n /\ n \in Nat
    BY <1>1
  <2>3. \A c \in 1..n : d[c] # r
    BY <1>3, <2>2 DEF Range
  <2> HIDE DEF d, e, n
  <2>4. \A c \in 1..n + 1 : c \in 1..n \/ c = n + 1
    BY <2>2
  <2>5. Range(e) = Range(d) \cup {r}
    <3>1. \A c \in 1..n : c \in 1..n + 1
      BY <2>2
    <3>2. n + 1 \in 1..n + 1
      BY <2>2
    <3> QED
      BY <2>2, <2>4, <3>1, <3>2 DEF Range
  <2>6. ASSUME IsInjective(d) PROVE IsInjective(e)
    <3>1. \A b, c \in 1..n : d[b] = d[c] => b = c
      BY <2>2, <2>6 DEF IsInjective
    <3> QED
      BY <2>2, <2>3, <2>4, <3>1 DEF IsInjective
  <2>7. Extends(d, e)
    BY <2>2, <2>6 DEF Extends, n
  <2> QED
    BY <2>1, <2>5, <2>7 DEF d
<1> QED
  BY <1>2, <1>3

\* Extending twice is extending.
LEMMA ExtendsAgain ==
    ASSUME NEW d, NEW e, NEW f, Len(d) \in Nat, Len(e) \in Nat, Len(f) \in Nat,
           Extends(d, e), Extends(e, f)
    PROVE  Extends(d, f)
<1>1. \A c \in 1..Len(d) : c \in 1..Len(e)
  BY DEF Extends
<1> QED
  BY <1>1 DEF Extends

\* The turns of the loop over j.
Grows(V, a, run, grown) ==
    /\ grown[0] = a
    /\ \A j \in 0..Len(run) : grown[j] \in Rooms(V)
    /\ \A j \in 1..Len(run) : grown[j] = Add(grown[j - 1], run[j])
    /\ AddAll(a, run) = grown[Len(run)]

\* AddAll goes through such turns.
LEMMA AddAllTurns ==
    ASSUME NEW V, NEW a \in Rooms(V), NEW run \in Seq(V)
    PROVE  \E grown : Grows(V, a, run, grown)
<1> DEFINE n == Len(run)
           S == Rooms(V)
           G == [j \in 1..n |-> [b \in S |-> Add(b, run[j])]]
           Q(g) == g = [j \in 0..Len(run) |-> IF j = 0 THEN a ELSE Add(g[j - 1], run[j])]
           grown == CHOOSE g : Q(g)
<1>0. n \in Nat /\ \A j \in 1..n : run[j] \in V
  BY ElementOfSeq
<1>1. \A j \in 1..n, b \in S : Add(b, run[j]) \in S
  <2> HIDE DEF n
  <2> QED
    BY <1>0, AddTyped
<1>2. G \in [1..n -> [S -> S]]
  <2> HIDE DEF n, S
  <2> QED
    BY <1>1
<1>3. PICK f : f \in [0..n -> S] /\ Iterates(f, n, a, G)
  <2> HIDE DEF G, n
  <2> QED
    BY <1>0, <1>2, Iterated
<1>4. \A j \in 1..n : f[j - 1] \in S /\ f[j] = Add(f[j - 1], run[j])
  <2> HIDE DEF n, S
  <2>1. \A j \in 1..n : j - 1 \in 0..n
    BY <1>0
  <2> QED
    BY <1>3, <2>1 DEF Iterates
<1>5. Q(f)
  <2>1. f = [j \in 0..n |-> f[j]]
    <3> HIDE DEF n, S
    <3> QED
      BY <1>3
  <2>2. \A j \in 0..n : f[j] = IF j = 0 THEN a ELSE Add(f[j - 1], run[j])
    <3> HIDE DEF n, S, G
    <3> QED
      BY <1>0, <1>3, <1>4 DEF Iterates
  <2> QED
    BY <2>1, <2>2
<1>6. Q(grown)
  <2> HIDE DEF Q
  <2> QED
    BY Zenon, <1>5
<1>7. AddAll(a, run) = grown[Len(run)]
  BY Zenon DEF AddAll
<1> HIDE DEF grown
<1>8. grown[0] = a /\ \A j \in 1..n : grown[j] = Add(grown[j - 1], run[j])
  BY <1>0, <1>6
<1> DEFINE P == {j \in Nat : j <= n => grown[j] \in S}
<1>9. Nat \subseteq P
  <2> HIDE DEF n, S
  <2>1. 0 \in P
    BY <1>8 DEF S
  <2>2. \A j \in Nat : j \in P => j + 1 \in P
    <3> SUFFICES ASSUME NEW j \in Nat, j + 1 <= n, grown[j] \in S PROVE grown[j + 1] \in S
      BY <1>0
    <3>1. j + 1 \in 1..n /\ j + 1 - 1 = j
      BY <1>0
    <3> QED
      BY <1>1, <1>8, <3>1
  <2> HIDE DEF P
  <2> QED
    BY <2>1, <2>2, Induction
<1> QED
  BY <1>0, <1>7, <1>8, <1>9 DEF Grows

\* The loop over j: the array holds what it held and the list added, and has room.
LEMMA AddAllFacts ==
    ASSUME NEW V, NEW a \in Rooms(V), NEW run \in Seq(V)
    PROVE  /\ AddAll(a, run) \in Rooms(V)
           /\ Extends(a.d, AddAll(a, run).d)
           /\ Range(AddAll(a, run).d) = Range(a.d) \cup Range(run)
<1> DEFINE n == Len(run)
<1>0. n \in Nat /\ (\A j \in 1..n : run[j] \in V) /\ Range(run) = {run[j] : j \in 1..n}
  BY ElementOfSeq DEF Range
<1>1. PICK grown : Grows(V, a, run, grown)
  BY AddAllTurns
<1>2. /\ grown[0] = a
      /\ \A j \in 0..n : grown[j] \in Rooms(V)
      /\ \A j \in 1..n : grown[j] = Add(grown[j - 1], run[j])
      /\ AddAll(a, run) = grown[n]
  BY <1>1 DEF Grows
<1> DEFINE Has(j) == Range(grown[j].d) = Range(a.d) \cup {run[m] : m \in 1..j}
           P == {j \in Nat : j <= n => Extends(a.d, grown[j].d) /\ Has(j)}
<1> HIDE DEF n
<1>3. 0 \in P
  <2>1. a.d \in Seq(V) /\ Len(a.d) \in Nat
    BY DEF Rooms
  <2>2. Extends(a.d, grown[0].d)
    BY <1>2, <2>1 DEF Extends
  <2>3. Has(0)
    BY <1>2
  <2> QED
    BY <2>2, <2>3
<1>4. ASSUME NEW j \in Nat, j \in P PROVE j + 1 \in P
  <2> SUFFICES ASSUME j + 1 <= n PROVE Extends(a.d, grown[j + 1].d) /\ Has(j + 1)
    OBVIOUS
  <2>1. j + 1 \in 1..n /\ j + 1 - 1 = j /\ j \in 0..n /\ j + 1 \in 0..n /\ j <= n
    BY <1>0
  <2>2. grown[j + 1] = Add(grown[j], run[j + 1]) /\ grown[j] \in Rooms(V) /\ grown[j + 1] \in Rooms(V)
        /\ run[j + 1] \in V
    BY <1>0, <1>2, <2>1
  <2>3. Extends(a.d, grown[j].d) /\ Has(j)
    BY <1>4, <2>1
  <2>4. Extends(grown[j].d, grown[j + 1].d)
        /\ Range(grown[j + 1].d) = Range(grown[j].d) \cup {run[j + 1]}
    <3> DEFINE b == grown[j]
               r == run[j + 1]
    <3>1. b \in Rooms(V) /\ r \in V
      BY <2>2
    <3> HIDE DEF b, r
    <3>2. Extends(b.d, Add(b, r).d) /\ Range(Add(b, r).d) = Range(b.d) \cup {r}
      BY <3>1, AddFacts
    <3> QED
      BY <2>2, <3>2 DEF b, r
  <2>5. Len(a.d) \in Nat /\ Len(grown[j].d) \in Nat /\ Len(grown[j + 1].d) \in Nat
    BY <2>2 DEF Rooms
  <2>6. Extends(a.d, grown[j + 1].d)
    BY <2>3, <2>4, <2>5, ExtendsAgain
  <2>7. Has(j + 1)
    <3>1. \A m : m \in 1..j + 1 <=> m \in 1..j \/ m = j + 1
      OBVIOUS
    <3> QED
      BY <2>3, <2>4, <3>1
  <2> QED
    BY <2>6, <2>7
<1>5. Nat \subseteq P
  <2> HIDE DEF P
  <2> QED
    BY <1>3, <1>4, Induction
<1>6. Extends(a.d, grown[n].d) /\ Has(n) /\ grown[n] \in Rooms(V)
  <2>1. n \in 0..n /\ n \in P
    BY <1>0, <1>5
  <2> QED
    BY <1>2, <2>1
<1> QED
  BY <1>0, <1>2, <1>6

-----------------------------------------------------------------------------
(* What is reached along edges. *)
Closed(T, edges) == \A q \in T : edges[q] \subseteq T

Onward(T, edges) == T \cup UNION {edges[q] : q \in T}

\* The steps of Closure.
Reaches(S, edges, step) ==
    /\ step[0] = S
    /\ \A n \in 0..Len(edges) : step[n] \subseteq 1..Len(edges)
    /\ \A n \in 1..Len(edges) : step[n] = Onward(step[n - 1], edges)
    /\ Closure(S, edges) = step[Len(edges)]

\* Closure goes through such steps.
LEMMA ClosureTurns ==
    ASSUME NEW N \in Nat, NEW edges \in Seq(SUBSET (1..N)), Len(edges) = N,
           NEW S \in SUBSET (1..N)
    PROVE  \E step : Reaches(S, edges, step)
<1> DEFINE T == SUBSET (1..N)
           G == [n \in 1..N |-> [t \in T |-> Onward(t, edges)]]
           Q(g) == g = [n \in 0..Len(edges) |->
                          IF n = 0 THEN S
                          ELSE g[n - 1] \cup UNION {edges[q] : q \in g[n - 1]}]
           step == CHOOSE g : Q(g)
<1>0. \A q \in 1..N : edges[q] \subseteq 1..N
  BY ElementOfSeq
<1>1. \A t \in T : Onward(t, edges) \in T
  <2> SUFFICES ASSUME NEW t \in T PROVE Onward(t, edges) \subseteq 1..N
    OBVIOUS
  <2>1. \A q \in t : edges[q] \subseteq 1..N
    BY <1>0
  <2> QED
    BY <2>1 DEF Onward
<1>2. G \in [1..N -> [T -> T]]
  <2> HIDE DEF T
  <2> QED
    BY <1>1
<1>3. PICK f : f \in [0..N -> T] /\ Iterates(f, N, S, G)
  <2> HIDE DEF G
  <2> QED
    BY <1>2, Iterated
<1>4. \A n \in 1..N : f[n - 1] \in T /\ f[n] = Onward(f[n - 1], edges)
  <2> HIDE DEF T
  <2>1. \A n \in 1..N : n - 1 \in 0..N
    OBVIOUS
  <2> QED
    BY <1>3, <2>1 DEF Iterates
<1>5. Q(f)
  <2>1. f = [n \in 0..N |-> f[n]]
    <3> HIDE DEF T
    <3> QED
      BY <1>3
  <2>2. \A n \in 0..N : f[n] = IF n = 0 THEN S ELSE Onward(f[n - 1], edges)
    <3> HIDE DEF T, G
    <3> QED
      BY <1>3, <1>4 DEF Iterates
  <2> QED
    BY <2>1, <2>2 DEF Onward
<1>6. Q(step)
  <2> HIDE DEF Q
  <2> QED
    BY Zenon, <1>5
<1>7. Closure(S, edges) = step[Len(edges)]
  BY Zenon DEF Closure
<1> HIDE DEF step
<1>8. step[0] = S /\ \A n \in 1..N : step[n] = Onward(step[n - 1], edges)
  <2> HIDE DEF T, G
  <2>1. \A n \in 0..N : step[n] = IF n = 0 THEN S ELSE Onward(step[n - 1], edges)
    BY <1>6 DEF Onward
  <2>2. 0 \in 0..N /\ \A n \in 1..N : n \in 0..N /\ n # 0
    OBVIOUS
  <2> HIDE DEF Q
  <2> QED
    BY <2>1, <2>2
<1> DEFINE P == {n \in Nat : n <= N => step[n] \in T}
<1>9. Nat \subseteq P
  <2> HIDE DEF T
  <2>1. 0 \in P
    BY <1>8 DEF T
  <2>2. \A n \in Nat : n \in P => n + 1 \in P
    <3> SUFFICES ASSUME NEW n \in Nat, n + 1 <= N, step[n] \in T PROVE step[n + 1] \in T
      OBVIOUS
    <3>1. n + 1 \in 1..N /\ n + 1 - 1 = n
      OBVIOUS
    <3> QED
      BY <1>1, <1>8, <3>1
  <2> HIDE DEF P
  <2> QED
    BY <2>1, <2>2, Induction
<1> QED
  BY <1>7, <1>8, <1>9 DEF Reaches

\* As many steps as there are ports reach all that can be reached: the closure
\* is closed.
LEMMA ClosureFacts ==
    ASSUME NEW N \in Nat, NEW edges \in Seq(SUBSET (1..N)), Len(edges) = N,
           NEW S \in SUBSET (1..N)
    PROVE  /\ S \subseteq Closure(S, edges)
           /\ Closure(S, edges) \subseteq 1..N
           /\ Closed(Closure(S, edges), edges)
<1>1. PICK step : Reaches(S, edges, step)
  BY ClosureTurns
<1>2. /\ step[0] = S
      /\ \A n \in 0..N : step[n] \subseteq 1..N
      /\ \A n \in 1..N : step[n] = Onward(step[n - 1], edges)
      /\ Closure(S, edges) = step[N]
  BY <1>1 DEF Reaches
<1>3. IsFiniteSet(1..N) /\ Cardinality(1..N) = N
  BY FS_Interval
<1> DEFINE Full(n) == S \subseteq step[n] /\ (Closed(step[n], edges) \/ Cardinality(step[n]) >= n + 1)
           P == {n \in Nat : n <= N => Full(n)}
<1>4. 0 \in P
  <2>1. CASE S = {}
    BY <1>2, <2>1 DEF Closed
  <2>2. CASE S # {}
    <3>1. IsFiniteSet(S) /\ Cardinality(S) \in Nat /\ Cardinality(S) # 0
      BY <1>3, <2>2, FS_Subset, FS_EmptySet, FS_CardinalityType
    <3> QED
      BY <1>2, <3>1
  <2> QED
    BY <2>1, <2>2
<1>5. ASSUME NEW n \in Nat, n \in P PROVE n + 1 \in P
  <2> SUFFICES ASSUME n + 1 <= N PROVE Full(n + 1)
    OBVIOUS
  <2>1. n + 1 \in 1..N /\ n + 1 - 1 = n /\ n \in 0..N /\ n <= N /\ n + 1 \in 0..N
    OBVIOUS
  <2>2. step[n + 1] = Onward(step[n], edges) /\ step[n] \subseteq 1..N /\ step[n + 1] \subseteq 1..N
    BY <1>2, <2>1
  <2>3. Full(n)
    BY <1>5, <2>1
  <2> DEFINE A == step[n]
             B == step[n + 1]
  <2> HIDE DEF A, B
  <2>4. A \subseteq 1..N /\ B \subseteq 1..N /\ B = Onward(A, edges) /\ S \subseteq A
        /\ (Closed(A, edges) \/ Cardinality(A) >= n + 1)
    BY <2>2, <2>3 DEF A, B
  <2>5. A \subseteq B
    BY <2>4 DEF Onward
  <2>6. CASE Closed(A, edges)
    <3>1. B = A
      BY <2>4, <2>6 DEF Onward, Closed
    <3> QED
      BY <2>4, <2>6, <3>1 DEF A, B
  <2>7. CASE ~Closed(A, edges)
    <3>1. A # B
      BY <2>4, <2>7 DEF Onward, Closed
    <3>2. IsFiniteSet(B)
      BY <1>3, <2>4, FS_Subset
    <3>3. Cardinality(A) <= Cardinality(B) /\ Cardinality(A) # Cardinality(B) /\ IsFiniteSet(A)
      BY <2>5, <3>1, <3>2, FS_Subset
    <3>4. Cardinality(A) \in Nat /\ Cardinality(B) \in Nat
      BY <3>2, <3>3, FS_CardinalityType
    <3>5. Cardinality(B) >= n + 1 + 1
      BY <2>4, <2>7, <3>3, <3>4
    <3> QED
      BY <2>4, <2>5, <3>5 DEF B
  <2> QED
    BY <2>6, <2>7
<1>6. Nat \subseteq P
  <2> HIDE DEF P
  <2> QED
    BY <1>4, <1>5, Induction
<1>7. Full(N)
  <2> HIDE DEF Full
  <2>1. N \in P
    BY <1>6
  <2> QED
    BY <2>1
<1> DEFINE C == step[N]
<1>8. C \subseteq 1..N
  BY <1>2
<1> HIDE DEF C
<1>9. ~(Cardinality(C) >= N + 1)
  <2>1. IsFiniteSet(C) /\ Cardinality(C) <= N
    BY <1>3, <1>8, FS_Subset
  <2>2. Cardinality(C) \in Nat
    BY <2>1, FS_CardinalityType
  <2> QED
    BY <2>1, <2>2
<1> QED
  BY <1>2, <1>7, <1>8, <1>9 DEF C

\* It is the least such set.
LEMMA ClosureLeast ==
    ASSUME NEW N \in Nat, NEW edges \in Seq(SUBSET (1..N)), Len(edges) = N,
           NEW S \in SUBSET (1..N), NEW T, S \subseteq T, Closed(T, edges)
    PROVE  Closure(S, edges) \subseteq T
<1>1. PICK step : Reaches(S, edges, step)
  BY ClosureTurns
<1>2. /\ step[0] = S
      /\ \A n \in 1..N : step[n] = Onward(step[n - 1], edges)
      /\ Closure(S, edges) = step[N]
  BY <1>1 DEF Reaches
<1> DEFINE P == {n \in Nat : n <= N => step[n] \subseteq T}
<1>3. 0 \in P
  BY <1>2
<1>4. ASSUME NEW n \in Nat, n \in P PROVE n + 1 \in P
  <2> SUFFICES ASSUME n + 1 <= N PROVE step[n + 1] \subseteq T
    OBVIOUS
  <2>1. n + 1 \in 1..N /\ n + 1 - 1 = n /\ n <= N
    OBVIOUS
  <2>2. step[n + 1] = Onward(step[n], edges) /\ step[n] \subseteq T
    BY <1>2, <1>4, <2>1
  <2> QED
    BY <2>2 DEF Onward, Closed
<1>5. Nat \subseteq P
  <2> HIDE DEF P
  <2> QED
    BY <1>3, <1>4, Induction
<1> QED
  BY <1>2, <1>5

\* What is reached from S are the elements of S and what is reached from their
\* edges.
LEMMA ClosureSteps ==
    ASSUME NEW N \in Nat, NEW edges \in Seq(SUBSET (1..N)), Len(edges) = N,
           NEW S \in SUBSET (1..N)
    PROVE  Closure(S, edges) = S \cup UNION {Closure(edges[q], edges) : q \in S}
<1>0. \A q \in 1..N : edges[q] \in SUBSET (1..N)
  BY ElementOfSeq
<1> DEFINE C == Closure(S, edges)
           D(q) == Closure(edges[q], edges)
           T == S \cup UNION {D(q) : q \in S}
<1>1. S \subseteq C /\ Closed(C, edges)
  BY ClosureFacts
<1>2. \A q \in S : edges[q] \subseteq D(q) /\ Closed(D(q), edges)
  <2> SUFFICES ASSUME NEW q \in S PROVE edges[q] \subseteq D(q) /\ Closed(D(q), edges)
    OBVIOUS
  <2>1. edges[q] \in SUBSET (1..N)
    BY <1>0
  <2> QED
    BY <2>1, ClosureFacts
<1>3. \A q \in S : D(q) \subseteq C
  <2> SUFFICES ASSUME NEW q \in S PROVE D(q) \subseteq C
    OBVIOUS
  <2>1. edges[q] \in SUBSET (1..N)
    BY <1>0
  <2>2. edges[q] \subseteq C
    BY <1>1 DEF Closed
  <2> HIDE DEF C
  <2> QED
    BY <1>1, <2>1, <2>2, ClosureLeast
<1> HIDE DEF D
<1>4. S \subseteq T /\ Closed(T, edges)
  BY <1>2 DEF Closed
<1> HIDE DEF T
<1>5. C \subseteq T
  BY <1>4, ClosureLeast
<1> HIDE DEF C
<1>6. C = T
  BY <1>1, <1>3, <1>5 DEF T
<1> QED
  BY <1>6 DEF C, T, D

-----------------------------------------------------------------------------
(* The walk of recurse. *)
\* Lists of every port: T[p][l] holds the ports that list l of p names.
Graph(T) == T \in Seq([List -> Seq(1..Len(T))])

\* What each port names to run, in any list, and what a set reaches to run; a
\* port that needs itself.
RunOf(T) == [q \in 1..Len(T) |-> Range(T[q].rdep)]
AllOf(T) == [q \in 1..Len(T) |-> UNION {Range(T[q][l]) : l \in List}]
Reached(T, S) == Closure(S, RunOf(T))
Looping(T, p) == p \in Closure(AllOf(T)[p], AllOf(T))

LEMMA ListFacts ==
    /\ Len(Lists) = 5 /\ "rdep" \in List
    /\ \A m \in 1..5 : Lists[m] \in List
    /\ \A l \in List : \E m \in 1..5 : l = Lists[m]
    /\ \A m, n \in 1..5 : Lists[m] = Lists[n] => m = n
<1>1. Len(Lists) = 5 /\ DOMAIN Lists = 1..5
  BY DEF Lists
<1>2. /\ Lists[1] = "edep" /\ Lists[2] = "pdep" /\ Lists[3] = "fdep"
      /\ Lists[4] = "bdep" /\ Lists[5] = "rdep"
  BY DEF Lists
<1>3. \A m : m \in 1..5 <=> m \in {1, 2, 3, 4, 5}
  OBVIOUS
<1>4. List = {Lists[m] : m \in 1..5}
  BY <1>1 DEF List, Range
<1>5. \A m, n \in 1..5 : Lists[m] = Lists[n] => m = n
  BY <1>2, <1>3
<1>6. "rdep" \in List
  BY <1>2, <1>3, <1>4
<1> QED
  BY <1>1, <1>4, <1>5, <1>6

LEMMA GraphFacts ==
    ASSUME NEW T, Graph(T)
    PROVE  /\ Len(T) \in Nat
           /\ \A p \in 1..Len(T), l \in List : T[p][l] \in Seq(1..Len(T))
           /\ RunOf(T) \in Seq(SUBSET (1..Len(T))) /\ Len(RunOf(T)) = Len(T)
           /\ AllOf(T) \in Seq(SUBSET (1..Len(T))) /\ Len(AllOf(T)) = Len(T)
           /\ \A q \in 1..Len(T) : RunOf(T)[q] = Range(T[q]["rdep"])
           /\ \A p \in 1..Len(T), l \in List : Range(T[p][l]) \subseteq AllOf(T)[p]
           /\ \A p \in 1..Len(T), l \in List : Range(T[p][l]) \subseteq 1..Len(T)
<1> DEFINE N == Len(T)
<1>1. N \in Nat /\ \A p \in 1..N : T[p] \in [List -> Seq(1..N)]
  BY ElementOfSeq DEF Graph
<1> HIDE DEF N
<1>2. \A p \in 1..N, l \in List : T[p][l] \in Seq(1..N)
  BY <1>1
<1>3. \A p \in 1..N, l \in List : Range(T[p][l]) \subseteq 1..N
  <2> DEFINE V == 1..N
  <2>1. \A p \in 1..N, l \in List : T[p][l] \in Seq(V)
    BY <1>2
  <2> HIDE DEF V
  <2>2. \A p \in 1..N, l \in List : Range(T[p][l]) \subseteq V
    BY <2>1, SeqRange
  <2> QED
    BY <2>2 DEF V
<1>4. RunOf(T) \in [1..N -> SUBSET (1..N)] /\ \A q \in 1..N : RunOf(T)[q] = Range(T[q]["rdep"])
  BY <1>3, ListFacts DEF RunOf, N
<1>5. AllOf(T) \in [1..N -> SUBSET (1..N)] /\ \A q \in 1..N : AllOf(T)[q] = UNION {Range(T[q][l]) : l \in List}
  BY <1>3 DEF AllOf, N
<1>6. \A p \in 1..N, l \in List : Range(T[p][l]) \subseteq AllOf(T)[p]
  BY <1>5
<1>7. RunOf(T) \in Seq(SUBSET (1..N)) /\ Len(RunOf(T)) = N /\ AllOf(T) \in Seq(SUBSET (1..N)) /\ Len(AllOf(T)) = N
  BY <1>1, <1>4, <1>5
<1> QED
  BY <1>1, <1>2, <1>3, <1>4, <1>6, <1>7 DEF N

\* What is reached: the set itself, and what each of it reaches.
LEMMA ReachedFacts ==
    ASSUME NEW T, Graph(T), NEW S \in SUBSET (1..Len(T))
    PROVE  /\ S \subseteq Reached(T, S)
           /\ Reached(T, S) \subseteq 1..Len(T)
           /\ Reached(T, S) = S \cup UNION {Reached(T, RunOf(T)[q]) : q \in S}
<1> DEFINE N == Len(T)
           E == RunOf(T)
<1>1. N \in Nat /\ E \in Seq(SUBSET (1..N)) /\ Len(E) = N /\ S \in SUBSET (1..N)
  BY GraphFacts
<1> HIDE DEF N, E
<1>2. S \subseteq Closure(S, E) /\ Closure(S, E) \subseteq 1..N
  BY <1>1, ClosureFacts
<1>3. Closure(S, E) = S \cup UNION {Closure(E[q], E) : q \in S}
  BY <1>1, ClosureSteps
<1> QED
  BY <1>2, <1>3 DEF Reached, N, E

\* What make_index has walked, for the lists T that it has started from: dp, ct,
\* rc and st are dep, count, recursed and stack.
Finished(T, dp, ct, rc, p, l) ==
    /\ Extends(T[p][l], dp[p][l])
    /\ Range(dp[p][l]) = Reached(T, Range(T[p][l]))
    /\ ct[p][l] = Len(dp[p][l])
    /\ \A q \in Range(T[p][l]) : rc[q] = 2

\* A list that recurse has not begun with.
Untouched(T, dp, ct, p, l) == dp[p][l] = T[p][l] /\ ct[p][l] = Len(T[p][l])

\* The list that recurse_one is at: of the elements before i everything they
\* reach is in it, and nothing in it that is not reached.
Growing(T, ct, rc, f) ==
    LET p == f.port
        l == Lists[f.list]
    IN  /\ f.size = Len(T[p][l])
        /\ f.i \in 1..f.size + 1
        /\ Extends(T[p][l], f.d)
        /\ Range(f.d) \subseteq Reached(T, Range(T[p][l]))
        /\ Len(f.d) <= ct[p][l]
        /\ \A m \in 1..f.i - 1 :
             /\ rc[T[p][l][m]] = 2
             /\ Reached(T, RunOf(T)[T[p][l][m]]) \subseteq Range(f.d)

FrameOf(N) == [port : 1..N, list : 1..6, i : Nat, size : Nat, d : Seq(1..N)]

\* A frame: the lists before it are finished, those after it untouched.
FrameOK(T, dp, ct, rc, f) ==
    /\ f \in FrameOf(Len(T))
    /\ rc[f.port] = 1
    /\ \A m \in 1..5 : m < f.list => Finished(T, dp, ct, rc, f.port, Lists[m])
    /\ \A m \in 1..5 : m > f.list => Untouched(T, dp, ct, f.port, Lists[m])
    /\ f.list <= 5 => Growing(T, ct, rc, f)
    /\ f.list = 6 => f.i > f.size

\* f has called recurse on the port of g.
Linked(f, g) == f.list <= 5 /\ f.i <= f.size /\ f.d[f.i] = g.port

Tables(T, dp, ct, rc) ==
    /\ Graph(T)
    /\ dp \in [1..Len(T) -> [List -> Seq(1..Len(T))]]
    /\ ct \in [1..Len(T) -> [List -> Nat]]
    /\ rc \in [1..Len(T) -> 0..2]

\* Ports not seen are as described; those recursed need themselves nowhere, and
\* their lists are finished.
Settled(T, dp, ct, rc) ==
    /\ \A p \in 1..Len(T) : rc[p] = 0 => \A l \in List : Untouched(T, dp, ct, p, l)
    /\ \A p \in 1..Len(T) : rc[p] = 2 =>
         ~Looping(T, p) /\ \A l \in List : Finished(T, dp, ct, rc, p, l)

\* The stack: each frame has called the next, and it holds every port that is
\* being recursed once.
Frames(T, dp, ct, rc, st) ==
    /\ st \in Seq(FrameOf(Len(T)))
    /\ \A k \in 1..Len(st) : FrameOK(T, dp, ct, rc, st[k])
    /\ \A k \in 1..Len(st) : k < Len(st) => Linked(st[k], st[k + 1])
    /\ \A j, k \in 1..Len(st) : st[j].port = st[k].port => j = k
    /\ \A p \in 1..Len(T) : rc[p] = 1 => \E k \in 1..Len(st) : st[k].port = p

Walk(T, dp, ct, rc, st) ==
    Tables(T, dp, ct, rc) /\ Settled(T, dp, ct, rc) /\ Frames(T, dp, ct, rc, st)

\* What is finished stays so when other ports are recursed.
LEMMA FinishedStays ==
    ASSUME NEW T, NEW dp, NEW ct, NEW rc, NEW dp2, NEW ct2, NEW rc2, Graph(T),
           NEW p \in 1..Len(T), NEW l \in List,
           Finished(T, dp, ct, rc, p, l),
           dp2[p][l] = dp[p][l], ct2[p][l] = ct[p][l],
           \A q \in 1..Len(T) : rc[q] = 2 => rc2[q] = 2
    PROVE  Finished(T, dp2, ct2, rc2, p, l)
<1>1. Range(T[p][l]) \subseteq 1..Len(T)
  BY GraphFacts
<1> QED
  BY <1>1 DEF Finished

\* So does a frame when other ports change.
LEMMA FrameStays ==
    ASSUME NEW T, NEW dp, NEW ct, NEW rc, NEW dp2, NEW ct2, NEW rc2, Graph(T),
           NEW f, FrameOK(T, dp, ct, rc, f),
           dp2[f.port] = dp[f.port], ct2[f.port] = ct[f.port], rc2[f.port] = 1,
           \A q \in 1..Len(T) : rc[q] = 2 => rc2[q] = 2
    PROVE  FrameOK(T, dp2, ct2, rc2, f)
<1>1. f \in FrameOf(Len(T)) /\ f.port \in 1..Len(T) /\ f.list \in 1..6
  BY DEF FrameOK, FrameOf
<1>2. ASSUME NEW m \in 1..5, m < f.list
      PROVE  Finished(T, dp2, ct2, rc2, f.port, Lists[m])
  <2> DEFINE p == f.port
             l == Lists[m]
  <2>1. Finished(T, dp, ct, rc, p, l) /\ l \in List /\ p \in 1..Len(T)
    BY <1>1, <1>2, ListFacts DEF FrameOK
  <2>2. dp2[p][l] = dp[p][l] /\ ct2[p][l] = ct[p][l]
    OBVIOUS
  <2> HIDE DEF p, l
  <2>3. Finished(T, dp2, ct2, rc2, p, l)
    BY <2>1, <2>2, FinishedStays
  <2> QED
    BY <2>3 DEF p, l
<1>3. ASSUME NEW m \in 1..5, m > f.list
      PROVE  Untouched(T, dp2, ct2, f.port, Lists[m])
  <2>1. Untouched(T, dp, ct, f.port, Lists[m])
    BY <1>3 DEF FrameOK
  <2> QED
    BY <2>1 DEF Untouched
<1>4. ASSUME f.list <= 5 PROVE Growing(T, ct2, rc2, f)
  <2> DEFINE l == Lists[f.list]
             s == T[f.port][l]
  <2>1. Growing(T, ct, rc, f) /\ l \in List
    BY <1>1, <1>4, ListFacts DEF FrameOK
  <2>2. s \in Seq(1..Len(T))
    BY <1>1, <2>1, GraphFacts
  <2>3. f.size = Len(s) /\ f.i \in 1..f.size + 1
    BY <2>1 DEF Growing
  <2>4. ASSUME NEW m \in 1..f.i - 1 PROVE s[m] \in 1..Len(T)
    <3>1. m \in 1..Len(s)
      BY <2>2, <2>3
    <3> HIDE DEF s
    <3> QED
      BY <2>2, <3>1, ElementOfSeq
  <2> QED
    BY <2>1, <2>4 DEF Growing
<1> QED
  BY <1>1, <1>2, <1>3, <1>4 DEF FrameOK

\* A frame of recurse_one at the start of list n of p.
Started(dp, ct, p, n) ==
    IF n <= 5
      THEN [port |-> p, list |-> n, i |-> 1, size |-> ct[p][Lists[n]], d |-> dp[p][Lists[n]]]
      ELSE [port |-> p, list |-> n, i |-> 1, size |-> 0, d |-> <<>>]

\* recurse at the start of a list.
LEMMA StartedOK ==
    ASSUME NEW T, NEW dp, NEW ct, NEW rc, Tables(T, dp, ct, rc),
           NEW p \in 1..Len(T), rc[p] = 1, NEW n \in 1..6,
           \A m \in 1..5 : m < n => Finished(T, dp, ct, rc, p, Lists[m]),
           \A m \in 1..5 : m >= n => Untouched(T, dp, ct, p, Lists[m])
    PROVE  FrameOK(T, dp, ct, rc, Started(dp, ct, p, n))
<1> DEFINE f == Started(dp, ct, p, n)
           N == Len(T)
           l == Lists[n]
           s == T[p][l]
<1>0. ASSUME f.port = p, f.list = n
      PROVE  /\ rc[f.port] = 1
             /\ \A m \in 1..5 : m < f.list => Finished(T, dp, ct, rc, f.port, Lists[m])
             /\ \A m \in 1..5 : m > f.list => Untouched(T, dp, ct, f.port, Lists[m])
  <2> HIDE DEF f
  <2>1. \A m \in 1..5 : m > n => m >= n
    OBVIOUS
  <2>2. \A m \in 1..5 : m > n => Untouched(T, dp, ct, p, Lists[m])
    BY <2>1
  <2> QED
    BY Zenon, <1>0, <2>2
<1>1. CASE n = 6
  <2>1. f = [port |-> p, list |-> 6, i |-> 1, size |-> 0, d |-> <<>>]
    BY <1>1 DEF Started
  <2>2. f \in FrameOf(N) /\ f.port = p /\ f.list = 6 /\ f.i > f.size
    BY <2>1 DEF FrameOf
  <2> HIDE DEF f
  <2>3. /\ rc[f.port] = 1
        /\ \A m \in 1..5 : m < f.list => Finished(T, dp, ct, rc, f.port, Lists[m])
        /\ \A m \in 1..5 : m > f.list => Untouched(T, dp, ct, f.port, Lists[m])
    BY <1>0, <1>1, <2>2
  <2>4. f.list <= 5 => Growing(T, ct, rc, f)
    BY <2>2
  <2>5. FrameOK(T, dp, ct, rc, f)
    BY Zenon, <2>2, <2>3, <2>4 DEF FrameOK
  <2> QED
    BY <2>5 DEF f
<1>2. CASE n # 6
  <2>1. n \in 1..5 /\ l \in List /\ Untouched(T, dp, ct, p, l)
    BY <1>2, ListFacts
  <2>2. dp[p][l] = s /\ ct[p][l] = Len(s)
    BY <2>1 DEF Untouched
  <2>3. f = [port |-> p, list |-> n, i |-> 1, size |-> Len(s), d |-> s]
    BY <1>2, <2>2 DEF Started
  <2>4. s \in Seq(1..N) /\ Range(s) \in SUBSET (1..N)
    BY <2>1, GraphFacts DEF Tables
  <2>5. Range(s) \subseteq Reached(T, Range(s))
    BY <2>4, ReachedFacts DEF Tables
  <2> HIDE DEF s, f
  <2>6. Len(s) \in Nat /\ Extends(s, s)
    BY <2>4 DEF Extends
  <2>7. /\ f \in FrameOf(N) /\ f.port = p /\ f.list = n /\ f.i = 1 /\ f.size = Len(s) /\ f.d = s
        /\ f.i \in 1..f.size + 1
    BY <2>1, <2>3, <2>4, <2>6 DEF FrameOf
  <2>8. \A m \in 1..f.i - 1 : FALSE
    BY <2>7
  <2>9. Growing(T, ct, rc, f)
    BY <2>2, <2>5, <2>6, <2>7, <2>8 DEF Growing, s
  <2>10. /\ rc[f.port] = 1
         /\ \A m \in 1..5 : m < f.list => Finished(T, dp, ct, rc, f.port, Lists[m])
         /\ \A m \in 1..5 : m > f.list => Untouched(T, dp, ct, f.port, Lists[m])
    BY <1>0, <2>7
  <2>11. f.list = 6 => f.i > f.size
    BY <2>1, <2>7
  <2>12. FrameOK(T, dp, ct, rc, f)
    BY Zenon, <2>7, <2>9, <2>10, <2>11 DEF FrameOK
  <2> QED
    BY <2>12 DEF f
<1> QED
  BY <1>1, <1>2

\* recurse(q) for a port not seen.
LEMMA EnterKeeps ==
    ASSUME NEW T, NEW dp, NEW ct, NEW rc, NEW st, Walk(T, dp, ct, rc, st),
           NEW q \in 1..Len(T), rc[q] = 0,
           st # <<>> => Linked(st[Len(st)], Started(dp, ct, q, 1))
    PROVE  Walk(T, dp, ct, [rc EXCEPT ![q] = 1], Append(st, Started(dp, ct, q, 1)))
<1> DEFINE N == Len(T)
           f == Started(dp, ct, q, 1)
           rc2 == [rc EXCEPT ![q] = 1]
           st2 == Append(st, f)
           n == Len(st)
<1>1. Tables(T, dp, ct, rc) /\ Settled(T, dp, ct, rc) /\ Frames(T, dp, ct, rc, st)
  BY DEF Walk
<1>2. Graph(T) /\ rc \in [1..N -> 0..2]
  BY <1>1 DEF Tables
<1>3. /\ rc2[q] = 1 /\ (\A p \in 1..N : p # q => rc2[p] = rc[p])
      /\ \A p \in 1..N : rc[p] = 2 => rc2[p] = 2
      /\ rc2 \in [1..N -> 0..2]
  BY <1>2
<1> HIDE DEF rc2
<1>4. Tables(T, dp, ct, rc2)
  BY <1>1, <1>3 DEF Tables
<1>5. f.port = q
  BY DEF Started
<1>6. \A l \in List : Untouched(T, dp, ct, q, l)
  BY <1>1 DEF Settled
<1>7. FrameOK(T, dp, ct, rc2, f)
  <2>1. \A m \in 1..5 : Untouched(T, dp, ct, q, Lists[m])
    BY <1>6, ListFacts
  <2>2. \A m \in 1..5 : ~(m < 1)
    OBVIOUS
  <2>3. 1 \in 1..6
    OBVIOUS
  <2> QED
    BY <1>3, <1>4, <2>1, <2>2, <2>3, StartedOK
<1> HIDE DEF f
<1>8. f \in FrameOf(N)
  BY <1>7 DEF FrameOK
<1>9. Settled(T, dp, ct, rc2)
  <2>1. ASSUME NEW p \in 1..N, rc2[p] = 0, NEW l \in List PROVE Untouched(T, dp, ct, p, l)
    BY <1>1, <1>3, <2>1 DEF Settled
  <2>2. ASSUME NEW p \in 1..N, rc2[p] = 2
        PROVE  ~Looping(T, p) /\ \A l \in List : Finished(T, dp, ct, rc2, p, l)
    <3>1. rc[p] = 2
      BY <1>3, <2>2
    <3>2. ~Looping(T, p) /\ \A l \in List : Finished(T, dp, ct, rc, p, l)
      BY <1>1, <3>1 DEF Settled
    <3> QED
      BY <1>2, <1>3, <3>2, FinishedStays
  <2> QED
    BY <2>1, <2>2 DEF Settled
<1>10. st \in Seq(FrameOf(N)) /\ n \in Nat
  BY <1>1 DEF Frames
<1>11. /\ st2 \in Seq(FrameOf(N)) /\ Len(st2) = n + 1 /\ st2[n + 1] = f
       /\ \A k \in 1..n : st2[k] = st[k]
  BY <1>8, <1>10
<1>12. \A k \in 1..n : FrameOK(T, dp, ct, rc, st[k]) /\ st[k].port \in 1..N
  BY <1>1 DEF Frames, FrameOK, FrameOf
<1>13. \A k \in 1..n : FrameOK(T, dp, ct, rc2, st[k]) /\ st[k].port # q
  <2> SUFFICES ASSUME NEW k \in 1..n PROVE FrameOK(T, dp, ct, rc2, st[k]) /\ st[k].port # q
    OBVIOUS
  <2> DEFINE g == st[k]
  <2>1. FrameOK(T, dp, ct, rc, g) /\ g.port \in 1..N
    BY <1>12
  <2> HIDE DEF g
  <2>2. rc[g.port] = 1
    BY <2>1 DEF FrameOK
  <2>3. g.port # q /\ rc2[g.port] = 1
    BY <1>3, <2>1, <2>2
  <2>4. FrameOK(T, dp, ct, rc2, g)
    BY <1>2, <1>3, <2>1, <2>3, FrameStays
  <2> QED
    BY <2>3, <2>4 DEF g
<1> HIDE DEF st2, n
<1>14. \A k \in 1..n + 1 : k \in 1..n \/ k = n + 1
  BY <1>10
<1>15. Frames(T, dp, ct, rc2, st2)
  <2>1. \A k \in 1..n + 1 : FrameOK(T, dp, ct, rc2, st2[k])
    BY <1>7, <1>11, <1>13, <1>14
  <2>2. ASSUME NEW k \in 1..n + 1, k < n + 1 PROVE Linked(st2[k], st2[k + 1])
    <3>1. k \in 1..n
      BY <1>10, <2>2
    <3>2. CASE k = n
      <4>1. st # <<>> /\ Len(st) = n
        BY <1>10, <3>1 DEF n
      <4>2. Linked(st[n], f)
        BY <4>1 DEF f
      <4> QED
        BY <1>11, <3>1, <3>2, <4>2
    <3>3. CASE k # n
      <4>1. k < n /\ k + 1 \in 1..n
        BY <1>10, <3>1, <3>3
      <4>2. Linked(st[k], st[k + 1])
        BY <1>1, <3>1, <4>1 DEF Frames, n
      <4> QED
        BY <1>11, <3>1, <4>1, <4>2
    <3> QED
      BY <3>2, <3>3
  <2>3. ASSUME NEW j \in 1..n + 1, NEW k \in 1..n + 1, st2[j].port = st2[k].port PROVE j = k
    <3>1. \A a, b \in 1..n : st[a].port = st[b].port => a = b
      BY <1>1 DEF Frames, n
    <3> QED
      BY <1>5, <1>11, <1>13, <1>14, <2>3, <3>1
  <2>4. ASSUME NEW p \in 1..N, rc2[p] = 1 PROVE \E k \in 1..n + 1 : st2[k].port = p
    <3>1. CASE p = q
      <4>1. n + 1 \in 1..n + 1
        BY <1>10
      <4> QED
        BY <1>5, <1>11, <3>1, <4>1
    <3>2. CASE p # q
      <4>1. rc[p] = 1
        BY <1>3, <2>4, <3>2
      <4>2. PICK k \in 1..n : st[k].port = p
        BY <1>1, <4>1 DEF Frames, n
      <4>3. k \in 1..n + 1
        BY <1>10
      <4> QED
        BY <1>11, <4>2, <4>3
    <3> QED
      BY <3>1, <3>2
  <2> QED
    BY <1>11, <2>1, <2>2, <2>3, <2>4 DEF Frames
<1> QED
  BY <1>4, <1>9, <1>15 DEF Walk, f, st2, rc2

\* The lists of a port that is being recursed are nothing to the others.
LEMMA SettledStays ==
    ASSUME NEW T, NEW dp, NEW ct, NEW rc, NEW dp2, NEW ct2, Graph(T),
           Settled(T, dp, ct, rc), NEW q, rc[q] = 1,
           \A p \in 1..Len(T) : p # q => dp2[p] = dp[p] /\ ct2[p] = ct[p]
    PROVE  Settled(T, dp2, ct2, rc)
<1>1. ASSUME NEW p \in 1..Len(T), rc[p] = 0, NEW l \in List PROVE Untouched(T, dp2, ct2, p, l)
  BY <1>1 DEF Settled, Untouched
<1>2. ASSUME NEW p \in 1..Len(T), rc[p] = 2, NEW l \in List PROVE Finished(T, dp2, ct2, rc, p, l)
  <2>1. dp2[p] = dp[p] /\ ct2[p] = ct[p] /\ Finished(T, dp, ct, rc, p, l)
    BY <1>2 DEF Settled
  <2> QED
    BY <2>1, FinishedStays
<1> QED
  BY <1>1, <1>2 DEF Settled

\* The innermost frame changes.
LEMMA TopReplaced ==
    ASSUME NEW T, NEW dp, NEW ct, NEW rc, NEW st, NEW dp2, NEW ct2, Graph(T),
           Frames(T, dp, ct, rc, st), st # <<>>,
           NEW g, g.port = st[Len(st)].port, FrameOK(T, dp2, ct2, rc, g),
           \A p \in 1..Len(T) : p # g.port => dp2[p] = dp[p] /\ ct2[p] = ct[p]
    PROVE  Frames(T, dp2, ct2, rc, [st EXCEPT ![Len(st)] = g])
<1> DEFINE N == Len(T)
           n == Len(st)
           F == FrameOf(N)
           st2 == [st EXCEPT ![n] = g]
<1>1. st \in Seq(F) /\ n \in Nat /\ n # 0
  BY EmptySeq DEF Frames
<1>2. g \in F
  BY DEF FrameOK
<1>3. st2 \in Seq(F) /\ Len(st2) = n /\ st2[n] = g /\ \A k \in 1..n : k # n => st2[k] = st[k]
  <2> HIDE DEF F
  <2> QED
    BY <1>1, <1>2
<1> HIDE DEF st2, F
<1>4. \A k \in 1..n : st2[k].port = st[k].port
  BY <1>3
<1>5. \A j, k \in 1..n : st[j].port = st[k].port => j = k
  BY DEF Frames
<1>6. \A k \in 1..n : FrameOK(T, dp2, ct2, rc, st2[k])
  <2> SUFFICES ASSUME NEW k \in 1..n PROVE FrameOK(T, dp2, ct2, rc, st2[k])
    OBVIOUS
  <2>1. CASE k = n
    BY <1>3, <2>1
  <2>2. CASE k # n
    <3> DEFINE f == st[k]
    <3>1. FrameOK(T, dp, ct, rc, f) /\ st2[k] = f
      BY <1>3, <2>2 DEF Frames
    <3>2. f.port # g.port
      BY <1>1, <1>5, <2>2
    <3> HIDE DEF f
    <3>3. f.port \in 1..N /\ rc[f.port] = 1
      BY <3>1 DEF FrameOK, FrameOf
    <3>4. dp2[f.port] = dp[f.port] /\ ct2[f.port] = ct[f.port]
      BY <3>2, <3>3
    <3>5. FrameOK(T, dp2, ct2, rc, f)
      BY <3>1, <3>3, <3>4, FrameStays
    <3> QED
      BY <3>1, <3>5
  <2> QED
    BY <2>1, <2>2
<1>7. ASSUME NEW k \in 1..n, k < n PROVE Linked(st2[k], st2[k + 1])
  <2>1. k # n /\ k + 1 \in 1..n
    BY <1>1, <1>7
  <2>2. Linked(st[k], st[k + 1])
    BY <1>7 DEF Frames
  <2> QED
    BY <1>3, <1>4, <2>1, <2>2 DEF Linked
<1>8. \A j, k \in 1..n : st2[j].port = st2[k].port => j = k
  BY <1>4, <1>5
<1>9. \A p \in 1..N : rc[p] = 1 => \E k \in 1..n : st2[k].port = p
  BY <1>4 DEF Frames
<1> HIDE DEF n
<1>10. Frames(T, dp2, ct2, rc, st2)
  BY <1>3, <1>6, <1>7, <1>8, <1>9 DEF Frames, F
<1> QED
  BY <1>10 DEF st2, n

\* The element that a frame is at is one of the list it started from.
LEMMA FrameAt ==
    ASSUME NEW T, NEW dp, NEW ct, NEW rc, NEW f, Graph(T), FrameOK(T, dp, ct, rc, f),
           f.i <= f.size
    PROVE  LET s == T[f.port][Lists[f.list]]
           IN  /\ f.list \in 1..5 /\ f.port \in 1..Len(T) /\ Lists[f.list] \in List
               /\ f.i \in 1..Len(s) /\ f.i \in 1..Len(f.d) /\ f.d[f.i] = s[f.i]
               /\ s[f.i] \in Range(s) /\ s[f.i] \in 1..Len(T)
<1> DEFINE l == Lists[f.list]
           s == T[f.port][l]
           N == Len(T)
<1>1. f.list \in 1..6 /\ f.port \in 1..N /\ f.i \in Nat /\ f.size \in Nat /\ f.d \in Seq(1..N)
  BY DEF FrameOK, FrameOf
<1>2. f.list # 6
  BY <1>1 DEF FrameOK
<1>3. f.list \in 1..5 /\ l \in List
  BY <1>1, <1>2, ListFacts
<1>4. s \in Seq(1..N) /\ Range(s) \subseteq 1..N
  BY <1>1, <1>3, GraphFacts
<1>5. f.size = Len(s) /\ f.i \in 1..f.size + 1 /\ Extends(s, f.d)
  BY <1>3 DEF FrameOK, Growing
<1> HIDE DEF s
<1>6. Len(s) \in Nat /\ Len(f.d) \in Nat
  BY <1>1, <1>4
<1>7. f.i \in 1..Len(s) /\ f.i \in 1..Len(f.d) /\ f.d[f.i] = s[f.i]
  BY <1>1, <1>5, <1>6 DEF Extends
<1>8. s[f.i] \in Range(s)
  BY <1>4, <1>7, SeqRange
<1> QED
  BY <1>1, <1>3, <1>4, <1>7, <1>8 DEF s

\* A frame with another list, an element further.
LEMMA MovedOn ==
    ASSUME NEW V, NEW f \in [port : V, list : 1..6, i : Nat, size : Nat, d : Seq(V)],
           NEW e \in Seq(V)
    PROVE  LET g == [f EXCEPT !.d = e, !.i = f.i + 1]
           IN  /\ g \in [port : V, list : 1..6, i : Nat, size : Nat, d : Seq(V)]
               /\ g.port = f.port /\ g.list = f.list /\ g.i = f.i + 1 /\ g.size = f.size
               /\ g.d = e
<1> DEFINE g == [f EXCEPT !.d = e, !.i = f.i + 1]
<1>1. g.port = f.port /\ g.list = f.list /\ g.i = f.i + 1 /\ g.size = f.size /\ g.d = e
  OBVIOUS
<1>2. g \in [port : V, list : 1..6, i : Nat, size : Nat, d : Seq(V)]
  <2> DEFINE L == 1..6
             D == Seq(V)
             m == f.i + 1
  <2>1. f \in [port : V, list : L, i : Nat, size : Nat, d : D] /\ m \in Nat /\ e \in D
    OBVIOUS
  <2> HIDE DEF L, D, m
  <2>2. [f EXCEPT !.d = e, !.i = m] \in [port : V, list : L, i : Nat, size : Nat, d : D]
    BY <2>1
  <2> QED
    BY <2>2 DEF L, D, m
<1> HIDE DEF g
<1>3. /\ g \in [port : V, list : 1..6, i : Nat, size : Nat, d : Seq(V)]
      /\ g.port = f.port /\ g.list = f.list /\ g.i = f.i + 1 /\ g.size = f.size
      /\ g.d = e
  BY <1>1, <1>2
<1> QED
  BY Zenon, <1>3 DEF g

\* What the frame f is after the element it is at.
Extending(T, dp, ct, rc, f) ==
    LET l == Lists[f.list]
        grown == AddAll([d |-> f.d, nd |-> ct[f.port][l]], dp[f.d[f.i]]["rdep"])
        ct2 == [ct EXCEPT ![f.port][l] = grown.nd]
        g == [f EXCEPT !.d = grown.d, !.i = f.i + 1]
    IN  /\ FrameOK(T, dp, ct2, rc, g) /\ g.port = f.port
        /\ grown.nd \in Nat /\ f.port \in 1..Len(T) /\ l \in List

\* recurse_one copies the run dependencies of a port that has been recursed.
LEMMA FrameExtends ==
    ASSUME NEW T, NEW dp, NEW ct, NEW rc, NEW f, Tables(T, dp, ct, rc), Settled(T, dp, ct, rc),
           FrameOK(T, dp, ct, rc, f), f.i <= f.size, rc[f.d[f.i]] = 2
    PROVE  Extending(T, dp, ct, rc, f)
<1> DEFINE N == Len(T)
           l == Lists[f.list]
           p == f.port
           s == T[p][l]
           q == f.d[f.i]
           run == dp[q]["rdep"]
           a == [d |-> f.d, nd |-> ct[p][l]]
           grown == AddAll(a, run)
           ct2 == [ct EXCEPT ![p][l] = grown.nd]
           g == [f EXCEPT !.d = grown.d, !.i = f.i + 1]
<1>0. Graph(T) /\ N \in Nat /\ dp \in [1..N -> [List -> Seq(1..N)]] /\ ct \in [1..N -> [List -> Nat]]
  BY GraphFacts DEF Tables
<1>1. /\ f.list \in 1..5 /\ p \in 1..N /\ l \in List /\ f.i \in 1..Len(s) /\ f.i \in 1..Len(f.d)
      /\ q = s[f.i] /\ q \in Range(s) /\ q \in 1..N
  <2>1. Graph(T)
    BY <1>0
  <2>2. LET u == T[f.port][Lists[f.list]]
        IN  /\ f.list \in 1..5 /\ f.port \in 1..Len(T) /\ Lists[f.list] \in List
            /\ f.i \in 1..Len(u) /\ f.i \in 1..Len(f.d) /\ f.d[f.i] = u[f.i]
            /\ u[f.i] \in Range(u) /\ u[f.i] \in 1..Len(T)
    BY Zenon, <2>1, FrameAt
  <2> QED
    BY Zenon, <2>2
<1>2. f \in FrameOf(N) /\ f.d \in Seq(1..N) /\ f.size \in Nat /\ f.i \in Nat
  BY DEF FrameOK, FrameOf
<1>3. Growing(T, ct, rc, f)
  BY <1>1 DEF FrameOK
<1>4. /\ f.size = Len(s) /\ Extends(s, f.d) /\ Range(f.d) \subseteq Reached(T, Range(s))
      /\ Len(f.d) <= ct[p][l]
      /\ \A m \in 1..f.i - 1 : rc[s[m]] = 2 /\ Reached(T, RunOf(T)[s[m]]) \subseteq Range(f.d)
  BY <1>3 DEF Growing
<1>5. s \in Seq(1..N) /\ Range(s) \in SUBSET (1..N)
  BY <1>0, <1>1, GraphFacts
<1>6. run \in Seq(1..N) /\ Range(run) = Reached(T, RunOf(T)[q])
  <2>1. Finished(T, dp, ct, rc, q, "rdep")
    <3>1. rc[q] = 2 /\ q \in 1..N /\ "rdep" \in List
      BY <1>1, ListFacts
    <3> HIDE DEF q
    <3> QED
      BY <3>1 DEF Settled
  <2>2. Range(run) = Reached(T, Range(T[q]["rdep"]))
    BY <2>1 DEF Finished
  <2>3. RunOf(T)[q] = Range(T[q]["rdep"])
    BY <1>0, <1>1, GraphFacts
  <2>4. run \in Seq(1..N)
    <3>1. q \in 1..N /\ "rdep" \in List /\ dp \in [1..N -> [List -> Seq(1..N)]]
      BY <1>0, <1>1, ListFacts
    <3> HIDE DEF q, N
    <3> QED
      BY <3>1
  <2> QED
    BY <2>2, <2>3, <2>4
<1>7. Reached(T, RunOf(T)[q]) \subseteq Reached(T, Range(s))
  <2> HIDE DEF q, s
  <2>1. Reached(T, Range(s)) = Range(s) \cup UNION {Reached(T, RunOf(T)[r]) : r \in Range(s)}
    BY <1>0, <1>5, ReachedFacts
  <2> QED
    BY <1>1, <2>1
<1>8. ct[p][l] \in Nat
  BY <1>0, <1>1
<1> HIDE DEF N, l, p, s, q, run
<1>9. a \in Rooms(1..N) /\ a.d = f.d
  <2>1. Len(f.d) \in Nat /\ Len(f.d) >= 1
    BY <1>1, <1>2
  <2> QED
    BY <1>2, <1>4, <1>8, <2>1 DEF Rooms
<1> HIDE DEF a
<1>10. grown \in Rooms(1..N) /\ Extends(f.d, grown.d) /\ Range(grown.d) = Range(f.d) \cup Range(run)
  <2> DEFINE V == 1..N
  <2>1. a \in Rooms(V) /\ run \in Seq(V)
    BY <1>6, <1>9
  <2> HIDE DEF V
  <2>2. AddAll(a, run) \in Rooms(V) /\ Extends(a.d, AddAll(a, run).d)
        /\ Range(AddAll(a, run).d) = Range(a.d) \cup Range(run)
    BY <2>1, AddAllFacts
  <2> QED
    BY <1>9, <2>2 DEF V
<1> HIDE DEF grown
<1>11. grown.d \in Seq(1..N) /\ grown.nd \in Nat /\ Len(grown.d) <= grown.nd
  BY <1>10 DEF Rooms
<1>12. /\ g.port = p /\ g.list = f.list /\ g.i = f.i + 1 /\ g.size = f.size /\ g.d = grown.d
       /\ g \in FrameOf(N)
  <2> DEFINE V == 1..N
             e == grown.d
  <2>1. f \in [port : V, list : 1..6, i : Nat, size : Nat, d : Seq(V)] /\ e \in Seq(V)
    BY <1>2, <1>11 DEF FrameOf
  <2> HIDE DEF V, e
  <2>2. g = [f EXCEPT !.d = e, !.i = f.i + 1]
    BY DEF e
  <2> HIDE DEF g
  <2>3. /\ g \in [port : V, list : 1..6, i : Nat, size : Nat, d : Seq(V)]
        /\ g.port = f.port /\ g.list = f.list /\ g.i = f.i + 1 /\ g.size = f.size /\ g.d = e
    BY Zenon, <2>1, <2>2, MovedOn
  <2> QED
    BY Zenon, <2>3 DEF FrameOf, p, V, e
<1> HIDE DEF g
<1>13. /\ ct2[p][l] = grown.nd /\ \A m \in List : m # l => ct2[p][m] = ct[p][m]
  BY <1>0, <1>1
<1> HIDE DEF ct2
<1>14. Growing(T, ct2, rc, g)
  <2>1. Extends(s, g.d)
    <3>1. Len(s) \in Nat /\ Len(f.d) \in Nat /\ Len(grown.d) \in Nat
      BY <1>2, <1>5, <1>11
    <3>2. Extends(s, grown.d)
      BY <1>4, <1>10, <3>1, ExtendsAgain
    <3> QED
      BY <1>12, <3>2
  <2>2. Range(g.d) \subseteq Reached(T, Range(s))
    BY <1>4, <1>6, <1>7, <1>10, <1>12
  <2>3. ASSUME NEW m \in 1..g.i - 1
        PROVE  rc[s[m]] = 2 /\ Reached(T, RunOf(T)[s[m]]) \subseteq Range(g.d)
    <3>1. m \in 1..f.i - 1 \/ m = f.i
      BY <1>2, <1>12
    <3>2. Range(g.d) = Range(f.d) \cup Reached(T, RunOf(T)[q])
      BY <1>6, <1>10, <1>12
    <3>3. rc[q] = 2
      BY DEF q
    <3>4. CASE m \in 1..f.i - 1
      BY <1>4, <3>2, <3>4
    <3>5. CASE m = f.i
      BY <1>1, <3>2, <3>3, <3>5
    <3> QED
      BY <3>1, <3>4, <3>5
  <2>4. g.i \in 1..g.size + 1
    <3>1. Len(s) \in Nat
      BY <1>5
    <3> QED
      BY <1>1, <1>2, <1>4, <1>12, <3>1
  <2>5. g.size = Len(s) /\ Len(g.d) <= ct2[p][l]
    BY <1>4, <1>11, <1>12, <1>13
  <2> QED
    BY <1>12, <2>1, <2>2, <2>3, <2>4, <2>5 DEF Growing, s, l, p
<1>15. FrameOK(T, dp, ct2, rc, g)
  <2>1. rc[g.port] = 1
    BY <1>12 DEF FrameOK, p
  <2>2. ASSUME NEW m \in 1..5, m < g.list PROVE Finished(T, dp, ct2, rc, g.port, Lists[m])
    <3>0. m # f.list /\ f.list \in 1..5
      BY <1>1, <1>12, <2>2
    <3>1. Lists[m] \in List /\ Lists[m] # l
      BY <3>0, ListFacts DEF l
    <3>2. Finished(T, dp, ct, rc, p, Lists[m])
      <4>1. m < f.list
        BY <1>12, <2>2
      <4> QED
        BY <4>1 DEF FrameOK, p
    <3>3. ct2[p][Lists[m]] = ct[p][Lists[m]]
      BY <1>13, <3>1
    <3>4. Finished(T, dp, ct2, rc, p, Lists[m])
      BY <3>2, <3>3 DEF Finished
    <3>5. g.port = p
      BY <1>12
    <3> QED
      BY Zenon, <3>4, <3>5
  <2>3. ASSUME NEW m \in 1..5, m > g.list PROVE Untouched(T, dp, ct2, g.port, Lists[m])
    <3>0. m # f.list /\ f.list \in 1..5
      BY <1>1, <1>12, <2>3
    <3>1. Lists[m] \in List /\ Lists[m] # l
      BY <3>0, ListFacts DEF l
    <3>2. Untouched(T, dp, ct, p, Lists[m])
      BY <1>12, <2>3 DEF FrameOK, p
    <3>3. ct2[p][Lists[m]] = ct[p][Lists[m]]
      BY <1>13, <3>1
    <3> QED
      BY <1>12, <3>2, <3>3 DEF Untouched
  <2>4. g.list # 6
    BY <1>1, <1>12
  <2> QED
    BY <1>12, <1>14, <2>1, <2>2, <2>3, <2>4 DEF FrameOK, N
<1> QED
  BY <1>1, <1>11, <1>12, <1>15 DEF Extending, N, l, p, s, q, run, a, grown, ct2, g

\* ... and the walk is what it was.
LEMMA ExtendKeeps ==
    ASSUME NEW T, NEW dp, NEW ct, NEW rc, NEW st, Walk(T, dp, ct, rc, st),
           st # <<>>, NEW f, f = st[Len(st)], f.i <= f.size, rc[f.d[f.i]] = 2
    PROVE  LET l == Lists[f.list]
               grown == AddAll([d |-> f.d, nd |-> ct[f.port][l]], dp[f.d[f.i]]["rdep"])
           IN  Walk(T, dp, [ct EXCEPT ![f.port][l] = grown.nd], rc,
                    [st EXCEPT ![Len(st)] = [f EXCEPT !.d = grown.d, !.i = f.i + 1]])
<1> DEFINE l == Lists[f.list]
           grown == AddAll([d |-> f.d, nd |-> ct[f.port][l]], dp[f.d[f.i]]["rdep"])
           ct2 == [ct EXCEPT ![f.port][l] = grown.nd]
           g == [f EXCEPT !.d = grown.d, !.i = f.i + 1]
           N == Len(T)
<1>1. Tables(T, dp, ct, rc) /\ Settled(T, dp, ct, rc) /\ Frames(T, dp, ct, rc, st)
  BY DEF Walk
<1>2. Graph(T) /\ ct \in [1..N -> [List -> Nat]]
  BY <1>1 DEF Tables
<1>3. FrameOK(T, dp, ct, rc, f)
  <2>1. Len(st) \in 1..Len(st)
    BY <1>1, EmptySeq DEF Frames
  <2> QED
    BY <1>1, <2>1 DEF Frames
<1>4. /\ FrameOK(T, dp, ct2, rc, g) /\ g.port = f.port
      /\ grown.nd \in Nat /\ f.port \in 1..N /\ l \in List
  <2>1. Extending(T, dp, ct, rc, f)
    BY <1>1, <1>3, FrameExtends
  <2> QED
    BY Zenon, <2>1 DEF Extending
<1> HIDE DEF l, grown, g
<1>5. ct2 \in [1..N -> [List -> Nat]] /\ \A p \in 1..N : p # f.port => ct2[p] = ct[p]
  <2> DEFINE r == f.port
             V == 1..N
             nd == grown.nd
  <2>1. ct \in [V -> [List -> Nat]] /\ r \in V /\ l \in List /\ nd \in Nat
    BY <1>2, <1>4
  <2>2. ct2 = [ct EXCEPT ![r][l] = nd]
    OBVIOUS
  <2> HIDE DEF r, V, nd, ct2
  <2>3. ct2 \in [V -> [List -> Nat]] /\ \A p \in V : p # r => ct2[p] = ct[p]
    BY <2>1, <2>2
  <2> QED
    BY <2>3 DEF r, V
<1> HIDE DEF ct2
<1>6. rc[f.port] = 1
  BY <1>3 DEF FrameOK
<1>7. Tables(T, dp, ct2, rc)
  BY <1>1, <1>5 DEF Tables
<1>8. Settled(T, dp, ct2, rc)
  BY <1>1, <1>2, <1>5, <1>6, SettledStays
<1>9. Frames(T, dp, ct2, rc, [st EXCEPT ![Len(st)] = g])
  <2>1. g.port = st[Len(st)].port
    BY <1>4
  <2>2. \A p \in 1..N : p # g.port => dp[p] = dp[p] /\ ct2[p] = ct[p]
    BY <1>4, <1>5
  <2>3. Graph(T) /\ Frames(T, dp, ct, rc, st) /\ FrameOK(T, dp, ct2, rc, g)
    BY <1>1, <1>2, <1>4
  <2> QED
    BY <2>1, <2>2, <2>3, TopReplaced, SMTT(30)
<1> QED
  BY <1>7, <1>8, <1>9 DEF Walk, ct2, g, grown, l

\* What a frame holds at the end of its list.
Ending(T, rc, f) ==
    LET s == T[f.port][Lists[f.list]]
    IN  /\ f.list \in 1..5 /\ f.port \in 1..Len(T) /\ Lists[f.list] \in List
        /\ f.d \in Seq(1..Len(T)) /\ Extends(s, f.d)
        /\ Range(f.d) = Reached(T, Range(s))
        /\ \A q \in Range(s) : rc[q] = 2

\* At the end of its list everything reached is in it.
LEMMA FrameEnds ==
    ASSUME NEW T, NEW dp, NEW ct, NEW rc, NEW f, Graph(T), FrameOK(T, dp, ct, rc, f),
           f.list <= 5, f.i > f.size
    PROVE  Ending(T, rc, f)
<1> DEFINE l == Lists[f.list]
           s == T[f.port][l]
           N == Len(T)
<1>1. f.list \in 1..6 /\ f.port \in 1..N /\ f.i \in Nat /\ f.size \in Nat /\ f.d \in Seq(1..N)
  BY DEF FrameOK, FrameOf
<1>2. f.list \in 1..5
  BY <1>1
<1>3. l \in List
  BY <1>2, ListFacts
<1>4. s \in Seq(1..N) /\ Range(s) \in SUBSET (1..N)
  BY <1>1, <1>3, GraphFacts
<1>5. /\ f.size = Len(s) /\ f.i \in 1..f.size + 1 /\ Extends(s, f.d)
      /\ Range(f.d) \subseteq Reached(T, Range(s))
      /\ \A m \in 1..f.i - 1 : rc[s[m]] = 2 /\ Reached(T, RunOf(T)[s[m]]) \subseteq Range(f.d)
  BY <1>2 DEF FrameOK, Growing
<1> HIDE DEF s
<1>6. Len(s) \in Nat /\ Range(s) = {s[m] : m \in 1..Len(s)}
  BY <1>4, SeqRange
<1>7. \A m \in 1..Len(s) : m \in 1..f.i - 1
  BY <1>1, <1>5, <1>6
<1>8. \A q \in Range(s) : rc[q] = 2 /\ Reached(T, RunOf(T)[q]) \subseteq Range(f.d)
  BY <1>5, <1>6, <1>7
<1>9. Range(s) \subseteq Range(f.d)
  <2> DEFINE e == f.d
  <2>1. e \in Seq(1..N) /\ Extends(s, e)
    BY <1>1, <1>5
  <2> HIDE DEF e
  <2>2. Len(e) \in Nat /\ Range(e) = {e[c] : c \in 1..Len(e)}
    BY <2>1, SeqRange
  <2>3. \A m \in 1..Len(s) : m \in 1..Len(e) /\ e[m] = s[m]
    BY <1>6, <2>1, <2>2 DEF Extends
  <2>4. Range(s) \subseteq Range(e)
    BY <1>6, <2>2, <2>3
  <2> QED
    BY <2>4 DEF e
<1>10. Reached(T, Range(s)) = Range(s) \cup UNION {Reached(T, RunOf(T)[q]) : q \in Range(s)}
  BY <1>4, ReachedFacts
<1>11. Range(f.d) = Reached(T, Range(s))
  BY <1>5, <1>8, <1>9, <1>10
<1> QED
  BY <1>1, <1>2, <1>3, <1>5, <1>8, <1>11 DEF Ending, s

\* recurse_one stores the list and recurse goes on with the next.
LEMMA EndListKeeps ==
    ASSUME NEW T, NEW dp, NEW ct, NEW rc, NEW st, Walk(T, dp, ct, rc, st),
           st # <<>>, NEW f, f = st[Len(st)], f.list <= 5, f.i > f.size
    PROVE  LET l == Lists[f.list]
           IN  Walk(T, [dp EXCEPT ![f.port][l] = f.d], [ct EXCEPT ![f.port][l] = Len(f.d)], rc,
                    [st EXCEPT ![Len(st)] = Started(dp, ct, f.port, f.list + 1)])
<1> DEFINE p == f.port
           n == f.list
           l == Lists[n]
           dp2 == [dp EXCEPT ![p][l] = f.d]
           ct2 == [ct EXCEPT ![p][l] = Len(f.d)]
           g == Started(dp, ct, p, n + 1)
           N == Len(T)
<1>1. Tables(T, dp, ct, rc) /\ Settled(T, dp, ct, rc) /\ Frames(T, dp, ct, rc, st)
  BY DEF Walk
<1>2. /\ Graph(T) /\ ct \in [1..N -> [List -> Nat]] /\ dp \in [1..N -> [List -> Seq(1..N)]]
      /\ rc \in [1..N -> 0..2]
  BY <1>1 DEF Tables
<1>3. FrameOK(T, dp, ct, rc, f)
  <2>1. Len(st) \in 1..Len(st)
    BY <1>1, EmptySeq DEF Frames
  <2> QED
    BY <1>1, <2>1 DEF Frames
<1>4. /\ n \in 1..5 /\ p \in 1..N /\ l \in List
      /\ f.d \in Seq(1..N) /\ Extends(T[p][l], f.d)
      /\ Range(f.d) = Reached(T, Range(T[p][l]))
      /\ \A q \in Range(T[p][l]) : rc[q] = 2
  <2>1. Ending(T, rc, f)
    BY <1>2, <1>3, FrameEnds
  <2> QED
    BY Zenon, <2>1 DEF Ending
<1>5. rc[p] = 1 /\ st[Len(st)].port = p
  BY <1>3 DEF FrameOK
<1>6. /\ \A m \in 1..5 : m < n => Finished(T, dp, ct, rc, p, Lists[m])
      /\ \A m \in 1..5 : m > n => Untouched(T, dp, ct, p, Lists[m])
  BY <1>3 DEF FrameOK
<1> DEFINE V == 1..N
           e == f.d
<1>a. l = Lists[n]
  OBVIOUS
<1> HIDE DEF p, n, l
<1>7. e \in Seq(V) /\ Len(e) \in Nat /\ dp \in [V -> [List -> Seq(V)]] /\ ct \in [V -> [List -> Nat]] /\ p \in V
      /\ N \in Nat
  <2>1. e \in Seq(V)
    BY <1>4
  <2>2. Len(e) \in Nat
    BY <2>1
  <2> QED
    BY <1>2, <1>4, <2>1, <2>2, GraphFacts
<1> HIDE DEF V, e
<1>8. /\ dp2 = [dp EXCEPT ![p][l] = e] /\ ct2 = [ct EXCEPT ![p][l] = Len(e)]
  BY DEF e
<1> HIDE DEF dp2, ct2
<1>9. /\ dp2 \in [V -> [List -> Seq(V)]] /\ dp2[p][l] = e
      /\ \A m \in List : m # l => dp2[p][m] = dp[p][m]
      /\ \A q \in V : q # p => dp2[q] = dp[q]
  BY <1>4, <1>7, <1>8
<1>10. /\ ct2 \in [V -> [List -> Nat]] /\ ct2[p][l] = Len(e)
       /\ \A m \in List : m # l => ct2[p][m] = ct[p][m]
       /\ \A q \in V : q # p => ct2[q] = ct[q]
  BY <1>4, <1>7, <1>8
<1>11. \A m \in 1..5 : Lists[m] \in List /\ (m # n => Lists[m] # l)
  BY <1>4, <1>a, ListFacts
<1>12. Tables(T, dp2, ct2, rc)
  BY <1>1, <1>9, <1>10 DEF Tables, V
<1>13. Settled(T, dp2, ct2, rc)
  <2>1. \A q \in 1..N : q # p => dp2[q] = dp[q] /\ ct2[q] = ct[q]
    BY <1>9, <1>10 DEF V
  <2>2. rc[p] = 1
    BY <1>5
  <2> QED
    BY <1>1, <1>2, <2>1, <2>2, SettledStays
<1>14. Finished(T, dp2, ct2, rc, p, l)
  BY <1>4, <1>9, <1>10 DEF Finished, e
<1>15. ASSUME NEW m \in 1..5, m < n + 1 PROVE Finished(T, dp2, ct2, rc, p, Lists[m])
  <2>1. CASE m = n
    BY <1>14, <1>a, <2>1
  <2>2. CASE m # n
    <3>1. m < n
      BY <1>4, <1>15, <2>2
    <3>2. Finished(T, dp, ct, rc, p, Lists[m]) /\ Lists[m] \in List /\ Lists[m] # l
      BY <1>6, <1>11, <2>2, <3>1
    <3>3. dp2[p][Lists[m]] = dp[p][Lists[m]] /\ ct2[p][Lists[m]] = ct[p][Lists[m]]
      BY <1>9, <1>10, <3>2
    <3> QED
      BY <3>2, <3>3 DEF Finished
  <2> QED
    BY <2>1, <2>2
<1>16. ASSUME NEW m \in 1..5, m >= n + 1 PROVE Untouched(T, dp2, ct2, p, Lists[m])
  <2>1. m > n
    BY <1>4, <1>16
  <2>2. Untouched(T, dp, ct, p, Lists[m]) /\ Lists[m] \in List /\ Lists[m] # l
    BY <1>4, <1>6, <1>11, <2>1
  <2>3. dp2[p][Lists[m]] = dp[p][Lists[m]] /\ ct2[p][Lists[m]] = ct[p][Lists[m]]
    BY <1>9, <1>10, <2>2
  <2> QED
    BY <2>2, <2>3 DEF Untouched
<1>17. g = Started(dp2, ct2, p, n + 1)
  <2>1. CASE n + 1 <= 5
    <3>1. n + 1 \in 1..5 /\ n + 1 # n
      BY <1>4, <2>1
    <3>2. Lists[n + 1] \in List /\ Lists[n + 1] # l
      BY <1>11, <3>1
    <3>3. dp2[p][Lists[n + 1]] = dp[p][Lists[n + 1]] /\ ct2[p][Lists[n + 1]] = ct[p][Lists[n + 1]]
      BY <1>9, <1>10, <3>2
    <3> QED
      BY <3>3 DEF Started
  <2>2. CASE ~(n + 1 <= 5)
    BY <2>2 DEF Started
  <2> QED
    BY <2>1, <2>2
<1> HIDE DEF g
<1>18. FrameOK(T, dp2, ct2, rc, g)
  <2>1. n + 1 \in 1..6 /\ p \in 1..N
    BY <1>4
  <2>2. FrameOK(T, dp2, ct2, rc, Started(dp2, ct2, p, n + 1))
    BY <1>5, <1>12, <1>15, <1>16, <2>1, StartedOK
  <2> QED
    BY <1>17, <2>2
<1>19. g.port = p
  BY DEF g, Started
<1>20. Frames(T, dp2, ct2, rc, [st EXCEPT ![Len(st)] = g])
  <2>1. g.port = st[Len(st)].port
    BY <1>5, <1>19
  <2>2. \A q \in 1..N : q # g.port => dp2[q] = dp[q] /\ ct2[q] = ct[q]
    BY <1>9, <1>10, <1>19 DEF V
  <2> QED
    <3>1. Graph(T) /\ Frames(T, dp, ct, rc, st) /\ st # <<>> /\ FrameOK(T, dp2, ct2, rc, g)
      BY <1>1, <1>2, <1>18
    <3> QED
      BY <2>1, <2>2, <3>1, TopReplaced
<1>21. Walk(T, dp2, ct2, rc, [st EXCEPT ![Len(st)] = g])
  BY <1>12, <1>13, <1>20 DEF Walk
<1> QED
  BY <1>21 DEF dp2, ct2, g, l, p, n

\* Once all lists of a port are finished it is not in a loop: all that it needs
\* was finished before it.
LEMMA NoLoop ==
    ASSUME NEW T, NEW dp, NEW ct, NEW rc, Graph(T), Settled(T, dp, ct, rc),
           NEW p \in 1..Len(T), rc[p] # 2,
           \A l \in List : Finished(T, dp, ct, rc, p, l)
    PROVE  ~Looping(T, p)
<1> DEFINE N == Len(T)
           E == AllOf(T)
           R == {q \in 1..N : rc[q] = 2}
<1>1. N \in Nat /\ E \in Seq(SUBSET (1..N)) /\ Len(E) = N
  BY GraphFacts
<1>2. \A q \in 1..N : (\A l \in List : Finished(T, dp, ct, rc, q, l)) => E[q] \subseteq R
  <2> SUFFICES ASSUME NEW q \in 1..N, \A l \in List : Finished(T, dp, ct, rc, q, l)
               PROVE  E[q] \subseteq R
    OBVIOUS
  <2>1. \A l \in List : Range(T[q][l]) \subseteq R
    <3>1. \A l \in List : Range(T[q][l]) \subseteq 1..N
      BY GraphFacts
    <3> QED
      BY <3>1 DEF Finished
  <2>2. E[q] = UNION {Range(T[q][l]) : l \in List}
    BY DEF AllOf
  <2> QED
    BY <2>1, <2>2
<1>3. Closed(R, E)
  <2>1. \A q \in R : \A l \in List : Finished(T, dp, ct, rc, q, l)
    BY DEF Settled
  <2> HIDE DEF E
  <2> QED
    BY <1>2, <2>1 DEF Closed
<1>4. E[p] \subseteq R /\ E[p] \in SUBSET (1..N)
  BY <1>2
<1> HIDE DEF E, R
<1>5. Closure(E[p], E) \subseteq R
  <2> HIDE DEF N
  <2> QED
    BY <1>1, <1>3, <1>4, ClosureLeast
<1>6. p \notin R
  BY DEF R
<1> QED
  BY <1>5, <1>6 DEF Looping, E

\* A stack without its last frame.
LEMMA FrontFacts ==
    ASSUME NEW S, NEW s \in Seq(S), s # <<>>
    PROVE  /\ Front(s) \in Seq(S) /\ Len(Front(s)) = Len(s) - 1
           /\ \A k \in 1..Len(s) - 1 : Front(s)[k] = s[k]
<1>1. Len(s) \in Nat /\ Len(s) # 0
  BY EmptySeq
<1>2. 1 \in 1..Len(s) + 1 /\ Len(s) - 1 \in 0..Len(s)
  BY <1>1
<1> DEFINE n == Len(s) - 1
<1>3. n \in Nat /\ (1..n) \subseteq 1..Len(s) /\ n + 1 = Len(s)
  BY <1>1
<1>4. SubSeq(s, 1, n) = [k \in 1..n |-> s[k]]
  BY <1>3
<1>5. \A k \in 1..n : s[k] \in S
  BY <1>3, ElementOfSeq
<1> HIDE DEF n
<1>6. Front(s) = [k \in 1..n |-> s[k]]
  BY <1>4 DEF Front, n
<1> DEFINE e == [k \in 1..n |-> s[k]]
<1>7. e \in [1..n -> S] /\ \A k \in 1..n : e[k] = s[k]
  BY <1>5
<1> HIDE DEF e
<1>8. e \in Seq(S) /\ Len(e) = n
  BY <1>3, <1>7
<1> QED
  BY <1>6, <1>7, <1>8 DEF e, n

\* recurse returns: the port is finished.
LEMMA ReturnKeeps ==
    ASSUME NEW T, NEW dp, NEW ct, NEW rc, NEW st, Walk(T, dp, ct, rc, st),
           st # <<>>, NEW f, f = st[Len(st)], f.list > 5
    PROVE  Walk(T, dp, ct, [rc EXCEPT ![f.port] = 2], Front(st))
<1> DEFINE p == f.port
           rc2 == [rc EXCEPT ![p] = 2]
           n == Len(st)
           st2 == Front(st)
           N == Len(T)
           F == FrameOf(N)
<1>1. Tables(T, dp, ct, rc) /\ Settled(T, dp, ct, rc) /\ Frames(T, dp, ct, rc, st)
  BY DEF Walk
<1>2. Graph(T) /\ rc \in [1..N -> 0..2]
  BY <1>1 DEF Tables
<1>3. st \in Seq(F) /\ n \in Nat /\ n # 0 /\ n \in 1..n
  BY <1>1, EmptySeq DEF Frames
<1>4. FrameOK(T, dp, ct, rc, f)
  BY <1>1, <1>3 DEF Frames
<1>5. p \in 1..N /\ rc[p] = 1 /\ f.list = 6
  BY <1>4 DEF FrameOK, FrameOf
<1>6. \A l \in List : Finished(T, dp, ct, rc, p, l)
  <2>1. \A m \in 1..5 : Finished(T, dp, ct, rc, p, Lists[m])
    BY <1>4, <1>5 DEF FrameOK
  <2> QED
    BY <2>1, ListFacts
<1>7. ~Looping(T, p)
  BY <1>1, <1>2, <1>5, <1>6, NoLoop
<1> HIDE DEF p
<1>8. /\ rc2 \in [1..N -> 0..2] /\ rc2[p] = 2 /\ \A q \in 1..N : q # p => rc2[q] = rc[q]
      /\ \A q \in 1..N : rc[q] = 2 => rc2[q] = 2
  BY <1>2, <1>5
<1> HIDE DEF rc2
<1>9. Tables(T, dp, ct, rc2)
  BY <1>1, <1>8 DEF Tables
<1>10. Settled(T, dp, ct, rc2)
  <2>1. ASSUME NEW q \in 1..N, rc2[q] = 0, NEW l \in List PROVE Untouched(T, dp, ct, q, l)
    BY <1>1, <1>8, <2>1 DEF Settled
  <2>2. ASSUME NEW q \in 1..N, rc2[q] = 2
        PROVE  ~Looping(T, q) /\ \A l \in List : Finished(T, dp, ct, rc2, q, l)
    <3>1. ~Looping(T, q) /\ \A l \in List : Finished(T, dp, ct, rc, q, l)
      BY <1>1, <1>6, <1>7, <1>8, <2>2 DEF Settled
    <3> QED
      BY <1>2, <1>8, <3>1, FinishedStays
  <2> QED
    BY <2>1, <2>2 DEF Settled
<1>11. /\ st2 \in Seq(F) /\ Len(st2) = n - 1 /\ \A k \in 1..n - 1 : st2[k] = st[k]
  <2> HIDE DEF F
  <2> QED
    BY <1>3, FrontFacts
<1> HIDE DEF st2
<1>12. \A k \in 1..n - 1 : k \in 1..n /\ k # n
  BY <1>3
<1>13. \A k \in 1..n - 1 : st[k].port # p
  <2>1. \A j, k \in 1..n : st[j].port = st[k].port => j = k
    BY <1>1 DEF Frames
  <2> QED
    BY <1>3, <1>12, <2>1 DEF p
<1> HIDE DEF n
<1>14. \A k \in 1..n - 1 : FrameOK(T, dp, ct, rc2, st2[k])
  <2> SUFFICES ASSUME NEW k \in 1..n - 1 PROVE FrameOK(T, dp, ct, rc2, st2[k])
    OBVIOUS
  <2> DEFINE g == st[k]
  <2>1. FrameOK(T, dp, ct, rc, g) /\ g.port # p /\ st2[k] = g
    BY <1>1, <1>11, <1>12, <1>13 DEF Frames, n
  <2> HIDE DEF g
  <2>2. g.port \in 1..N /\ rc[g.port] = 1
    BY <2>1 DEF FrameOK, FrameOf
  <2>3. rc2[g.port] = 1
    BY <1>8, <2>1, <2>2
  <2>4. FrameOK(T, dp, ct, rc2, g)
    <3>1. Graph(T) /\ FrameOK(T, dp, ct, rc, g) /\ \A q \in 1..N : rc[q] = 2 => rc2[q] = 2
      BY <1>2, <1>8, <2>1
    <3> QED
      BY <2>3, <3>1, FrameStays
  <2> QED
    BY <2>1, <2>4
<1>15. ASSUME NEW k \in 1..n - 1, k < n - 1 PROVE Linked(st2[k], st2[k + 1])
  <2>1. k \in 1..n /\ k < n /\ k + 1 \in 1..n - 1
    BY <1>3, <1>15
  <2>2. Linked(st[k], st[k + 1])
    BY <1>1, <2>1 DEF Frames, n
  <2> QED
    BY <1>11, <2>1, <2>2
<1>16. \A j, k \in 1..n - 1 : st2[j].port = st2[k].port => j = k
  BY <1>1, <1>11, <1>12 DEF Frames, n
<1>17. ASSUME NEW q \in 1..N, rc2[q] = 1 PROVE \E k \in 1..n - 1 : st2[k].port = q
  <2>1. q # p /\ rc[q] = 1
    BY <1>8, <1>17
  <2>2. PICK k \in 1..n : st[k].port = q
    BY <1>1, <2>1 DEF Frames, n
  <2>3. k # n
    BY <2>1, <2>2 DEF p, n
  <2>4. k \in 1..n - 1
    BY <1>3, <2>3
  <2> QED
    BY <1>11, <2>2, <2>4
<1>18. Frames(T, dp, ct, rc2, st2)
  BY <1>11, <1>14, <1>15, <1>16, <1>17 DEF Frames, F
<1>19. Walk(T, dp, ct, rc2, st2)
  BY <1>9, <1>10, <1>18 DEF Walk
<1> QED
  BY <1>19 DEF rc2, st2, p

\* An element that is on the stack closes a loop.
LEMMA LoopFound ==
    ASSUME NEW T, NEW dp, NEW ct, NEW rc, NEW st, Walk(T, dp, ct, rc, st),
           st # <<>>, NEW f, f = st[Len(st)], f.i <= f.size,
           NEW q, q = f.d[f.i], rc[q] = 1
    PROVE  q \in 1..Len(T) /\ Looping(T, q)
<1> DEFINE n == Len(st)
           N == Len(T)
           E == AllOf(T)
<1>1. Tables(T, dp, ct, rc) /\ Settled(T, dp, ct, rc) /\ Frames(T, dp, ct, rc, st)
  BY DEF Walk
<1>2. Graph(T)
  BY <1>1 DEF Tables
<1>3. n \in Nat /\ n # 0 /\ n \in 1..n
  BY <1>1, EmptySeq DEF Frames
<1>4. N \in Nat /\ E \in Seq(SUBSET (1..N)) /\ Len(E) = N
  BY <1>2, GraphFacts
<1>5. ASSUME NEW g, FrameOK(T, dp, ct, rc, g), g.i <= g.size
      PROVE  g.d[g.i] \in E[g.port] /\ g.d[g.i] \in 1..N
  <2> DEFINE s == T[g.port][Lists[g.list]]
  <2>1. /\ g.port \in 1..N /\ Lists[g.list] \in List
        /\ g.d[g.i] = s[g.i] /\ s[g.i] \in Range(s) /\ s[g.i] \in 1..N
    BY <1>2, <1>5, FrameAt
  <2>2. Range(s) \subseteq E[g.port]
    BY <1>2, <2>1, GraphFacts
  <2> HIDE DEF s
  <2> QED
    BY <2>1, <2>2
<1>6. q \in E[st[n].port] /\ q \in 1..N
  BY <1>1, <1>3, <1>5 DEF Frames
<1>7. ASSUME NEW k \in 1..n, k < n PROVE st[k + 1].port \in E[st[k].port]
  <2>1. FrameOK(T, dp, ct, rc, st[k]) /\ Linked(st[k], st[k + 1])
    BY <1>1, <1>7 DEF Frames
  <2> QED
    BY <1>5, <2>1 DEF Linked
<1>8. PICK j \in 1..n : st[j].port = q
  BY <1>1, <1>6 DEF Frames
<1> DEFINE C == Closure(E[q], E)
<1>9. E[q] \subseteq C /\ Closed(C, E)
  <2>1. E[q] \in SUBSET (1..N)
    BY <1>4, <1>6, ElementOfSeq
  <2> HIDE DEF E, N
  <2> QED
    BY <1>4, <2>1, ClosureFacts
<1> HIDE DEF C, E
<1> DEFINE P == {k \in Nat : j + k <= n /\ k >= 1 => st[j + k].port \in C}
<1>10. 0 \in P
  OBVIOUS
<1>11. ASSUME NEW k \in Nat, k \in P PROVE k + 1 \in P
  <2> SUFFICES ASSUME j + (k + 1) <= n PROVE st[j + (k + 1)].port \in C
    OBVIOUS
  <2>1. j + k \in 1..n /\ j + k < n /\ j + (k + 1) = (j + k) + 1
    BY <1>3
  <2>2. st[j + (k + 1)].port \in E[st[j + k].port]
    BY <1>7, <2>1
  <2>3. CASE k = 0
    <3>1. j + k = j
      BY <2>3
    <3> QED
      BY <1>8, <1>9, <2>2, <3>1
  <2>4. CASE k # 0
    <3>1. k >= 1 /\ j + k <= n
      BY <2>1, <2>4
    <3>2. st[j + k].port \in C
      BY <1>11, <3>1
    <3> QED
      BY <1>9, <2>2, <3>2 DEF Closed
  <2> QED
    BY <2>3, <2>4
<1>12. Nat \subseteq P
  <2> HIDE DEF P
  <2> QED
    BY <1>10, <1>11, Induction
<1>13. q \in C
  <2>1. CASE j = n
    BY <1>6, <1>8, <1>9, <2>1
  <2>2. CASE j # n
    <3>1. n - j \in Nat /\ n - j >= 1 /\ j + (n - j) = n
      BY <1>3, <2>2
    <3>2. n - j \in P
      BY <1>12, <3>1
    <3>3. st[n].port \in C
      BY <3>1, <3>2
    <3> QED
      BY <1>6, <1>9, <3>3 DEF Closed
  <2> QED
    BY <2>1, <2>2
<1> QED
  BY <1>6, <1>13 DEF Looping, C, E

\* No more frames than ports.
LEMMA StackFits ==
    ASSUME NEW T, NEW dp, NEW ct, NEW rc, NEW st, Walk(T, dp, ct, rc, st)
    PROVE  Len(st) <= Len(T)
<1> DEFINE n == Len(st)
           N == Len(T)
           f == [k \in 1..n |-> st[k].port]
<1>1. Frames(T, dp, ct, rc, st) /\ N \in Nat
  BY GraphFacts DEF Walk, Tables
<1>2. n \in Nat /\ \A k \in 1..n : st[k].port \in 1..N
  BY <1>1 DEF Frames, FrameOK, FrameOf
<1>3. \A j, k \in 1..n : f[j] = f[k] => j = k
  BY <1>1 DEF Frames
<1>4. f \in [1..n -> 1..N]
  BY <1>2
<1> HIDE DEF f, n, N
<1>5. /\ IsFiniteSet(1..n) /\ Cardinality(1..n) = n
      /\ IsFiniteSet(1..N) /\ Cardinality(1..N) = N
  BY <1>1, <1>2, FS_Interval
<1>6. ~(Cardinality(1..N) < Cardinality(1..n))
  <2> DEFINE S == 1..n
             V == 1..N
  <2>1. f \in [S -> V] /\ IsFiniteSet(S) /\ IsFiniteSet(V) /\ \A j, k \in S : f[j] = f[k] => j = k
    BY <1>3, <1>4, <1>5
  <2> HIDE DEF S, V
  <2>2. ASSUME Cardinality(V) < Cardinality(S) PROVE FALSE
    <3>1. \E x, y \in S : x # y /\ f[x] = f[y]
      BY <2>1, <2>2, FS_PigeonHole
    <3> QED
      BY <2>1, <3>1
  <2> QED
    BY <2>2 DEF S, V
<1> QED
  BY <1>1, <1>2, <1>5, <1>6 DEF n, N

-----------------------------------------------------------------------------
(* The tables of main. *)
\* The fields of the lines.
LEMMA LineFacts ==
    ASSUME file \in Seq(Described)
    PROVE  /\ Len(file) \in Nat /\ Port = 1..Len(file)
           /\ \A p \in Port : file[p].portdir \in Dir /\ file[p].pkgname \in Nat
           /\ \A p \in Port, l \in List : file[p][l] \in Seq(Dir)
           /\ DirOf \in [Port -> Dir] /\ DirOf \in [Port -> Nat] /\ NameOf \in [Port -> Nat]
           /\ \A p \in Port : DirOf[p] = file[p].portdir /\ NameOf[p] = file[p].pkgname
<1>1. Len(file) \in Nat /\ Port = 1..Len(file) /\ \A p \in Port : file[p] \in Described
  BY ElementOfSeq DEF Port
<1>2. Dir \subseteq Nat
  BY DescribesAssumption
<1>3. \A p \in Port : file[p].portdir \in Dir /\ file[p].pkgname \in Nat
  BY <1>1 DEF Described
<1>4. ASSUME NEW p \in Port, NEW l \in List PROVE file[p][l] \in Seq(Dir)
  <2> DEFINE r == file[p]
             D == Seq(Dir)
  <2>1. r \in [portdir : Dir, pkgname : Nat, edep : D, pdep : D, fdep : D, bdep : D, rdep : D]
    BY <1>1 DEF Described
  <2> HIDE DEF r, D
  <2>2. r["edep"] \in D /\ r["pdep"] \in D /\ r["fdep"] \in D /\ r["bdep"] \in D /\ r["rdep"] \in D
    BY <2>1
  <2>3. l \in {"edep", "pdep", "fdep", "bdep", "rdep"}
    <3>1. PICK m \in 1..5 : l = Lists[m]
      BY ListFacts
    <3>2. m = 1 \/ m = 2 \/ m = 3 \/ m = 4 \/ m = 5
      OBVIOUS
    <3> QED
      BY <3>1, <3>2 DEF Lists
  <2>4. r[l] \in D
    BY <2>2, <2>3
  <2> QED
    BY <2>4 DEF r, D
<1>5. DirOf \in [Port -> Dir] /\ DirOf \in [Port -> Nat] /\ NameOf \in [Port -> Nat]
  BY <1>2, <1>3 DEF DirOf, NameOf
<1>6. \A p \in Port : DirOf[p] = file[p].portdir /\ NameOf[p] = file[p].pkgname
  BY DEF DirOf, NameOf
<1> QED
  BY <1>1, <1>3, <1>4, <1>5, <1>6

\* pp holds every port once.
Permuted ==
    /\ pp \in Seq(Port) /\ Len(pp) = Len(file)
    /\ \A j, k \in 1..Len(file) : pp[j] = pp[k] => j = k
    /\ \A p \in Port : \E k \in 1..Len(file) : pp[k] = p

\* findport on the sorted ports returns a line that describes the directory, or
\* NoPort if none does.
LEMMA FindPortFacts ==
    ASSUME file \in Seq(Described), Permuted, Ordered(pp, DirOf), NEW dir \in Dir
    PROVE  \/ FindPort(dir) \in Port /\ file[FindPort(dir)].portdir = dir /\ FindPort(dir) # NoPort
              /\ Of(dir) # {}
           \/ FindPort(dir) = NoPort /\ Of(dir) = {}
<1> DEFINE q == FindPort(dir)
           n == Len(file)
<1>1. /\ n \in Nat /\ Port = 1..n /\ DirOf \in [Port -> Nat]
      /\ \A p \in Port : DirOf[p] = file[p].portdir
  BY LineFacts
<1>2. /\ pp \in Seq(Port) /\ Len(pp) = n /\ \A c \in 1..n : pp[c] \in Port
      /\ \A p \in Port : \E k \in 1..n : pp[k] = p
  BY ElementOfSeq DEF Permuted
<1>3. dir \in Nat
  BY DescribesAssumption
<1>4. Found(pp, DirOf, dir, 1, n, q)
  <2>1. Found(pp, DirOf, dir, 1, Len(pp), Search(pp, DirOf, dir))
    BY <1>1, <1>2, <1>3, SearchFacts
  <2> QED
    BY <1>2, <2>1 DEF FindPort
<1> HIDE DEF q, n
<1>5. CASE \E c \in 1..n : q = pp[c] /\ DirOf[pp[c]] = dir
  <2>1. q \in Port /\ DirOf[q] = dir
    BY <1>2, <1>5
  <2>2. file[q].portdir = dir /\ q \in Of(dir) /\ q # NoPort
    BY <1>1, <2>1 DEF Of, NoPort
  <2> QED
    BY <2>1, <2>2 DEF q
<1>6. CASE q = NoPort /\ \A c \in 1..n : DirOf[pp[c]] # dir
  <2>1. \A p \in Port : DirOf[p] # dir
    BY <1>2, <1>6
  <2>2. Of(dir) = {}
    BY <1>1, <2>1 DEF Of
  <2> QED
    BY <1>6, <2>2 DEF q
<1> QED
  BY <1>4, <1>5, <1>6 DEF Found

\* A list, translated, and that nothing in it has no entry.
Ports(s) == [k \in DOMAIN s |-> FindPort(s[k])]
FoundAll(s) == \A k \in DOMAIN s : FindPort(s[k]) # NoPort

\* The lists of every port, translated.
Net == [p \in Port |-> [l \in List |-> Ports(file[p][l])]]
AllFound == \A p \in Port, l \in List : FoundAll(file[p][l])

\* No line is corrupt, and pp is sorted by directory.
Searchable == file \in Seq(Described) /\ Permuted /\ Ordered(pp, DirOf)

\* Translating a list: the ports of its directories, none twice that is not
\* there twice.
LEMMA PortsFacts ==
    ASSUME Searchable, NEW s \in Seq(Dir), FoundAll(s)
    PROVE  /\ Ports(s) \in Seq(Port) /\ Len(Ports(s)) = Len(s)
           /\ Range(Ports(s)) = {FindPort(dir) : dir \in Range(s)}
           /\ IsInjective(s) => IsInjective(Ports(s))
<1> DEFINE n == Len(s)
           t == Ports(s)
<1>1. n \in Nat /\ DOMAIN s = 1..n /\ (\A k \in 1..n : s[k] \in Dir) /\ Range(s) = {s[k] : k \in 1..n}
  BY SeqRange
<1>2. \A dir \in Dir : FindPort(dir) # NoPort => FindPort(dir) \in Port /\ file[FindPort(dir)].portdir = dir
  BY FindPortFacts DEF Searchable
<1>3. \A k \in 1..n : FindPort(s[k]) \in Port /\ file[FindPort(s[k])].portdir = s[k]
  BY <1>1, <1>2 DEF FoundAll
<1> HIDE DEF n
<1>4. t = [k \in 1..n |-> FindPort(s[k])]
  BY <1>1 DEF Ports
<1>5. t \in [1..n -> Port] /\ \A k \in 1..n : t[k] = FindPort(s[k])
  BY <1>3, <1>4
<1> HIDE DEF t
<1>6. t \in Seq(Port) /\ Len(t) = n /\ DOMAIN t = 1..n
  BY <1>1, <1>5
<1>7. Range(t) = {FindPort(dir) : dir \in Range(s)}
  BY <1>1, <1>5, <1>6 DEF Range
<1>8. ASSUME IsInjective(s) PROVE IsInjective(t)
  <2>1. \A j, k \in 1..n : s[j] = s[k] => j = k
    BY <1>1, <1>8 DEF IsInjective
  <2>2. \A j, k \in 1..n : t[j] = t[k] => s[j] = s[k]
    BY <1>3, <1>5
  <2> QED
    BY <1>6, <2>1, <2>2 DEF IsInjective
<1> QED
  BY <1>6, <1>7, <1>8 DEF t, n

\* The translated lists are the graph that the properties speak of.
LEMMA NetFacts ==
    ASSUME Searchable, AllFound
    PROVE  /\ Graph(Net) /\ Len(Net) = Len(file)
           /\ \A p \in Port, l \in List :
                /\ Net[p][l] = Ports(file[p][l])
                /\ Range(Net[p][l]) = Direct(p, l)
                /\ IsInjective(file[p][l]) => IsInjective(Net[p][l])
           /\ RunEdges = RunOf(Net) /\ Edges = AllOf(Net)
<1> DEFINE n == Len(file)
<1>1. n \in Nat /\ Port = 1..n /\ \A p \in Port, l \in List : file[p][l] \in Seq(Dir)
  BY LineFacts DEF Searchable
<1> HIDE DEF n
<1>2. ASSUME NEW p \in Port, NEW l \in List
      PROVE  /\ Ports(file[p][l]) \in Seq(Port)
             /\ Range(Ports(file[p][l])) = Direct(p, l)
             /\ IsInjective(file[p][l]) => IsInjective(Ports(file[p][l]))
  <2> DEFINE s == file[p][l]
  <2>1. s \in Seq(Dir) /\ FoundAll(s)
    BY <1>1 DEF AllFound
  <2> HIDE DEF s
  <2>2. /\ Ports(s) \in Seq(Port)
        /\ Range(Ports(s)) = {FindPort(dir) : dir \in Range(s)}
        /\ IsInjective(s) => IsInjective(Ports(s))
    BY <2>1, PortsFacts
  <2>3. \A dir \in Range(s) : FindPort(dir) # NoPort
    BY <2>1 DEF FoundAll, Range
  <2>4. Direct(p, l) = {FindPort(dir) : dir \in Range(s)}
    BY <2>3 DEF Direct, NamedBy, s
  <2> QED
    BY <2>2, <2>4 DEF s
<1>3. \A p \in Port, l \in List : Net[p][l] = Ports(file[p][l])
  BY DEF Net
<1>4. Net \in [Port -> [List -> Seq(Port)]]
  BY <1>2 DEF Net
<1>5. Len(Net) = n /\ Net \in Seq([List -> Seq(Port)])
  <2> DEFINE S == [List -> Seq(Port)]
  <2>1. Net \in [1..n -> S]
    BY <1>1, <1>4
  <2> HIDE DEF S
  <2>2. Len(Net) = n /\ Net \in Seq(S)
    BY <1>1, <2>1
  <2> QED
    BY <2>2 DEF S
<1>6. Graph(Net)
  BY <1>1, <1>5 DEF Graph
<1>7. \A p \in Port, l \in List : Range(Net[p][l]) = Direct(p, l)
  BY <1>2, <1>3
<1>8. RunEdges = RunOf(Net)
  <2>1. \A q \in Port : Range(Net[q]["rdep"]) = Direct(q, "rdep")
    BY <1>7, ListFacts
  <2>2. RunOf(Net) = [q \in Port |-> Range(Net[q]["rdep"])]
    BY <1>1, <1>5 DEF RunOf
  <2> QED
    BY <2>1, <2>2 DEF RunEdges
<1>9. Edges = AllOf(Net)
  <2>1. \A q \in Port : UNION {Range(Net[q][l]) : l \in List} = UNION {Direct(q, l) : l \in List}
    BY <1>7
  <2>2. AllOf(Net) = [q \in Port |-> UNION {Range(Net[q][l]) : l \in List}]
    BY <1>1, <1>5 DEF AllOf
  <2> QED
    BY <2>1, <2>2 DEF Edges
<1> QED
  BY <1>2, <1>3, <1>5, <1>6, <1>7, <1>8, <1>9 DEF n

-----------------------------------------------------------------------------
(* The inductive invariant. *)
\* dep and count hold what Read has put there.
Idle == recursed = [p \in Port |-> 0] /\ stack = <<>> /\ out = <<>>
Counted == \A p \in Port, l \in List : count[p][l] = Len(file[p][l])
AsRead(p) == dep[p] = [l \in List |-> file[p][l]]

\* What holds at each step of main.
AtRead == i = 1 /\ Idle

AtSort ==
    /\ file \in Seq(Described) /\ Permuted
    /\ Idle /\ Counted /\ i = 1 /\ i \in Port
    /\ \A p \in Port : AsRead(p)

\* The lists of p are translated, and nothing in them had no entry.
Translated(p) == dep[p] = Net[p] /\ \A l \in List : FoundAll(file[p][l])

AtTranslate ==
    /\ Searchable /\ Idle /\ Counted /\ i \in Port
    /\ \A k \in 1..Len(file) : k >= i => AsRead(pp[k])
    /\ \A k \in 1..Len(file) : k < i => Translated(pp[k])

AtNoEntry == Searchable /\ Idle /\ ~AllFound

\* recurse is under way or has found a loop.
Walking ==
    /\ Searchable /\ AllFound /\ out = <<>>
    /\ Walk(Net, dep, count, recursed, stack)

AtRecurse ==
    /\ Walking /\ i \in Port
    /\ \A k \in 1..Len(file) : k < i => recursed[pp[k]] = 2

AtLoop == Walking /\ \E p \in Port : Looping(Net, p)

\* The lists that are printed, in whatever order.
Full(p, l, s) ==
    /\ s \in Seq(Port)
    /\ Range(s) = Reached(Net, Range(Net[p][l]))
    /\ IsInjective(file[p][l]) => IsInjective(s)

IndexLine == [port : Port, lists : [List -> Seq(Port)]]

\* The line of port pp[k] is as it should be.
Printed(k) ==
    /\ out[k].port = pp[k]
    /\ \A l \in List :
         /\ Full(pp[k], l, out[k].lists[l])
         /\ Ordered(out[k].lists[l], NameOf)

\* The INDEX has n lines.
Printing(n) ==
    /\ Searchable /\ AllFound /\ stack = <<>>
    /\ \A p \in Port : ~Looping(Net, p)
    /\ out \in Seq(IndexLine) /\ Len(out) = n
    /\ \A k \in 1..n : Printed(k)

\* The ports before i are printed, the lists of the others full but not sorted.
AtPrint ==
    /\ i \in Port /\ Printing(i - 1)
    /\ \A k \in 1..Len(file), l \in List : k >= i => Full(pp[k], l, dep[pp[k]][l])

\* The types of the tables.
Tabled ==
    /\ file \in Describes
    /\ dep \in [Port -> [List -> Seq(Dir \cup Port)]]
    /\ count \in [Port -> [List -> Nat]]
    /\ recursed \in [Port -> 0..2]
    /\ i \in Nat

Phase ==
    \/ pc \in {"read", "corrupt"} /\ AtRead
    \/ pc = "sort" /\ AtSort
    \/ pc = "translate" /\ AtTranslate
    \/ pc = "no_entry" /\ AtNoEntry
    \/ pc = "recurse" /\ AtRecurse
    \/ pc = "loop" /\ AtLoop
    \/ pc = "print" /\ AtPrint
    \/ pc = "ok" /\ Printing(Len(file))

\* The inductive invariant.
IInv == Tabled /\ Phase

-----------------------------------------------------------------------------
(* What the invariant implies. *)
\* The lines of a describe file.
LEMMA FileFacts ==
    ASSUME file \in Describes
    PROVE  file \in Seq(Described \cup {Corrupt}) /\ Len(file) \in Nat /\ Port = 1..Len(file)
BY DescribesAssumption DEF Port

\* pp is a permutation of the ports.
LEMMA SearchableFacts ==
    ASSUME Searchable
    PROVE  /\ file \in Seq(Described) /\ Permuted
           /\ pp \in [Port -> Port] /\ Len(pp) = Len(file) /\ Len(file) \in Nat /\ Port = 1..Len(file)
           /\ \A k \in 1..Len(file) : pp[k] \in Port
<1>1. Len(file) \in Nat /\ Port = 1..Len(file)
  BY LineFacts DEF Searchable
<1>2. pp \in Seq(Port) /\ Len(pp) = Len(file)
  BY DEF Searchable, Permuted
<1>3. pp \in [Port -> Port]
  BY <1>1, <1>2
<1> QED
  BY <1>1, <1>2, <1>3 DEF Searchable

\* The stack is one of frames, no deeper than there are ports.
LEMMA WalkingFacts ==
    ASSUME Walking
    PROVE  stack \in Seq(Frame) /\ Len(stack) <= Len(file) /\ Frame = FrameOf(Len(file))
           /\ Graph(Net) /\ Len(Net) = Len(file) /\ Port = 1..Len(file) /\ Len(file) \in Nat
<1>1. Graph(Net) /\ Len(Net) = Len(file)
  BY NetFacts DEF Walking
<1>2. Port = 1..Len(file) /\ Len(file) \in Nat
  BY SearchableFacts DEF Walking
<1>3. Frame = FrameOf(Len(file))
  BY <1>2, ListFacts DEF Frame, FrameOf
<1>4. Walk(Net, dep, count, recursed, stack)
  BY DEF Walking
<1>5. stack \in Seq(FrameOf(Len(file)))
  BY <1>1, <1>4 DEF Walk, Frames
<1>6. Len(stack) <= Len(file)
  BY <1>1, <1>4, StackFits
<1> QED
  BY <1>1, <1>2, <1>3, <1>5, <1>6

\* The invariant implies that every variable has its type.
LEMMA StateIsTyped ==
    ASSUME IInv
    PROVE  TypeOK
<1>1. /\ dep \in [Port -> [List -> Seq(Dir \cup Port)]]
      /\ count \in [Port -> [List -> Nat]]
      /\ recursed \in [Port -> 0..2] /\ i \in Nat
      /\ Len(file) \in Nat /\ Port = 1..Len(file)
  BY FileFacts DEF IInv, Tabled
<1>2. ASSUME Idle PROVE stack \in Seq(Frame) /\ Len(stack) <= Len(file) /\ Len(out) <= Len(file)
  BY <1>1, <1>2 DEF Idle
<1>3. CASE pc \in {"read", "corrupt"} /\ AtRead
  BY <1>1, <1>2, <1>3 DEF AtRead, TypeOK, Ends
<1>4. CASE pc = "sort" /\ AtSort
  <2>0. pp \in Seq(Port) /\ Len(pp) = Len(file)
    BY <1>4 DEF AtSort, Permuted
  <2>1. pp \in [Port -> Port]
    BY <1>1, <2>0
  <2> QED
    BY <1>1, <1>2, <1>4, <2>1 DEF AtSort, TypeOK, Ends
<1>5. CASE pc = "translate" /\ AtTranslate
  <2>1. pp \in [Port -> Port]
    BY <1>5, SearchableFacts DEF AtTranslate
  <2> QED
    BY <1>1, <1>2, <1>5, <2>1 DEF AtTranslate, TypeOK, Ends
<1>6. CASE pc = "no_entry" /\ AtNoEntry
  <2>1. pp \in [Port -> Port]
    BY <1>6, SearchableFacts DEF AtNoEntry
  <2> QED
    BY <1>1, <1>2, <1>6, <2>1 DEF AtNoEntry, TypeOK, Ends
<1>7. ASSUME Walking PROVE pp \in [Port -> Port] /\ stack \in Seq(Frame)
                           /\ Len(stack) <= Len(file) /\ Len(out) <= Len(file)
  <2>1. pp \in [Port -> Port] /\ out = <<>>
    BY <1>7, SearchableFacts DEF Walking
  <2>2. stack \in Seq(Frame) /\ Len(stack) <= Len(file)
    BY <1>7, WalkingFacts
  <2> QED
    BY <1>1, <2>1, <2>2
<1>8. CASE pc = "recurse" /\ AtRecurse
  BY <1>1, <1>7, <1>8 DEF AtRecurse, TypeOK, Ends
<1>9. CASE pc = "loop" /\ AtLoop
  BY <1>1, <1>7, <1>9 DEF AtLoop, TypeOK, Ends
<1>10. ASSUME NEW n \in 0..Len(file), Printing(n)
       PROVE  pp \in [Port -> Port] /\ stack \in Seq(Frame) /\ Len(stack) <= Len(file)
              /\ Len(out) <= Len(file)
  <2>1. pp \in [Port -> Port]
    BY <1>10, SearchableFacts DEF Printing
  <2>2. stack = <<>> /\ Len(out) = n
    BY <1>10 DEF Printing
  <2> QED
    BY <1>1, <2>1, <2>2
<1>11. CASE pc = "print" /\ AtPrint
  <2>1. i - 1 \in 0..Len(file) /\ Printing(i - 1) /\ i \in Port
    BY <1>1, <1>11 DEF AtPrint
  <2>2. /\ pp \in [Port -> Port] /\ stack \in Seq(Frame) /\ Len(stack) <= Len(file)
        /\ Len(out) <= Len(file)
    BY <1>10, <2>1
  <2> QED
    BY <1>1, <1>11, <2>1, <2>2 DEF TypeOK, Ends
<1>12. CASE pc = "ok" /\ Printing(Len(file))
  <2>1. Len(file) \in 0..Len(file)
    BY <1>1
  <2>2. /\ pp \in [Port -> Port] /\ stack \in Seq(Frame) /\ Len(stack) <= Len(file)
        /\ Len(out) <= Len(file)
    BY <1>10, <1>12, <2>1
  <2> QED
    BY <1>1, <1>12, <2>2 DEF TypeOK, Ends
<1> QED
  BY <1>3, <1>4, <1>5, <1>6, <1>8, <1>9, <1>11, <1>12 DEF IInv, Phase

\* It implies that the list recurse_one extends fits in its array.
LEMMA RoomIsEnough ==
    ASSUME IInv
    PROVE  NoOverrun
<1>1. TypeOK
  BY StateIsTyped
<1>2. ASSUME Walking, NEW k \in DOMAIN stack, stack[k].list <= Len(Lists)
      PROVE  Len(stack[k].d) <= count[stack[k].port][Lists[stack[k].list]]
  <2>1. stack \in Seq(Frame)
    BY <1>2, WalkingFacts
  <2>2. k \in 1..Len(stack)
    BY <1>2, <2>1
  <2>3. FrameOK(Net, dep, count, recursed, stack[k])
    BY <1>2, <2>2 DEF Walking, Walk, Frames
  <2>4. Growing(Net, count, recursed, stack[k])
    BY <1>2, <2>3, ListFacts DEF FrameOK
  <2> QED
    BY <2>4 DEF Growing
<1>3. stack = <<>> \/ Walking
  BY DEF IInv, Phase, AtRead, AtSort, AtTranslate, AtNoEntry, AtRecurse, AtLoop, AtPrint,
         Printing, Idle
<1>4. CASE stack = <<>>
  BY <1>1, <1>4 DEF NoOverrun
<1>5. CASE Walking
  BY <1>1, <1>2, <1>5 DEF NoOverrun
<1> QED
  BY <1>3, <1>4, <1>5

\* A name without an entry is one that Of finds nothing for.
LEMMA MissingFacts ==
    ASSUME Searchable
    PROVE  AllFound <=> ~\E p \in Port, l \in List : \E dir \in NamedBy(p, l) : Of(dir) = {}
<1>1. \A p \in Port, l \in List : file[p][l] \in Seq(Dir)
  BY LineFacts DEF Searchable
<1>2. \A dir \in Dir : FindPort(dir) # NoPort <=> Of(dir) # {}
  BY FindPortFacts DEF Searchable
<1>3. ASSUME NEW p \in Port, NEW l \in List
      PROVE  FoundAll(file[p][l]) <=> \A dir \in NamedBy(p, l) : Of(dir) # {}
  <2> DEFINE s == file[p][l]
  <2>1. s \in Seq(Dir)
    BY <1>1
  <2> HIDE DEF s
  <2>2. DOMAIN s = 1..Len(s) /\ (\A k \in 1..Len(s) : s[k] \in Dir) /\ Range(s) = {s[k] : k \in 1..Len(s)}
    BY <2>1, SeqRange
  <2>3. FoundAll(s) <=> \A dir \in Range(s) : Of(dir) # {}
    BY <1>2, <2>2 DEF FoundAll
  <2> QED
    BY <2>3 DEF NamedBy, s
<1> QED
  BY <1>3 DEF AllFound

\* A loop of the translated lists is one of the described ones.
LEMMA LoopFacts ==
    ASSUME Searchable, AllFound, NEW p
    PROVE  InLoop(p) <=> Looping(Net, p)
BY NetFacts DEF InLoop, Looping

\* It implies that make_index ends with "no entry for", "Circular dependency loop
\* found" or the INDEX exactly when it should.
LEMMA EndIsRight ==
    ASSUME IInv
    PROVE  RightEnd
<1> DEFINE missing == \E p \in Port, l \in List : \E dir \in NamedBy(p, l) : Of(dir) = {}
           loop == \E p \in Port : InLoop(p)
<1>1. CASE pc = "no_entry" /\ AtNoEntry
  <2>1. missing
    BY <1>1, MissingFacts DEF AtNoEntry
  <2> HIDE DEF missing, loop
  <2> QED
    BY <1>1, <2>1 DEF RightEnd, missing
<1>2. CASE pc = "loop" /\ AtLoop
  <2>1. Searchable /\ AllFound /\ \E p \in Port : Looping(Net, p)
    BY <1>2 DEF AtLoop, Walking
  <2>2. ~missing
    BY <2>1, MissingFacts
  <2>3. loop
    BY <2>1, LoopFacts
  <2> HIDE DEF missing, loop
  <2> QED
    BY <1>2, <2>2, <2>3 DEF RightEnd, missing, loop
<1>3. CASE pc = "ok" /\ Printing(Len(file))
  <2>1. Searchable /\ AllFound /\ \A p \in Port : ~Looping(Net, p)
    BY <1>3 DEF Printing
  <2>2. ~missing
    BY <2>1, MissingFacts
  <2>3. ~loop
    BY <2>1, LoopFacts
  <2> HIDE DEF missing, loop
  <2> QED
    BY <1>3, <2>2, <2>3 DEF RightEnd, missing, loop
<1>4. CASE pc \notin {"ok", "no_entry", "loop"}
  BY <1>4 DEF RightEnd, Ends
<1> QED
  BY <1>1, <1>2, <1>3, <1>4 DEF IInv, Phase

\* It implies that the INDEX printed is the right one.
LEMMA IndexIsRight ==
    ASSUME IInv
    PROVE  RightIndex
<1> SUFFICES ASSUME pc = "ok" PROVE RightIndex
  BY DEF RightIndex
<1> DEFINE n == Len(file)
<1>1. Printing(n)
  BY DEF IInv, Phase
<1>2. Searchable /\ AllFound /\ out \in Seq(IndexLine) /\ Len(out) = n /\ \A k \in 1..n : Printed(k)
  BY <1>1 DEF Printing
<1>3. /\ n \in Nat /\ Port = 1..n /\ \A k \in 1..n : pp[k] \in Port
      /\ Permuted /\ DOMAIN out = 1..n
  BY <1>2, SearchableFacts
<1> HIDE DEF n
<1>4. \A k \in 1..n : out[k].port = pp[k]
  BY <1>2 DEF Printed
<1>5. {out[k].port : k \in DOMAIN out} = Port
  <2>1. \A p \in Port : \E k \in 1..n : pp[k] = p
    BY <1>3 DEF Permuted, n
  <2> QED
    BY <1>3, <1>4, <2>1
<1>6. \A k \in 2..Len(out) : DirOf[out[k - 1].port] <= DirOf[out[k].port]
  <2> SUFFICES ASSUME NEW k \in 2..n PROVE DirOf[out[k - 1].port] <= DirOf[out[k].port]
    BY <1>2
  <2>1. k - 1 \in 1..n /\ k \in 1..n /\ k - 1 < k
    BY <1>3
  <2>2. Ordered(pp, DirOf) /\ Len(pp) = n
    BY <1>2 DEF Searchable, Permuted, n
  <2>3. DirOf[pp[k - 1]] <= DirOf[pp[k]]
    BY <2>1, <2>2 DEF Ordered
  <2> QED
    BY <1>4, <2>1, <2>3
<1>7. ASSUME NEW k \in 1..n, NEW l \in List
      PROVE  LET p == out[k].port
                 s == out[k].lists[l]
             IN  /\ Range(s) = Closure(Direct(p, l), RunEdges)
                 /\ IsInjective(file[p][l]) => IsInjective(s)
                 /\ \A m \in 2..Len(s) : NameOf[s[m - 1]] <= NameOf[s[m]]
  <2> DEFINE s == out[k].lists[l]
             p == pp[k]
  <2>1. Full(p, l, s) /\ Ordered(s, NameOf) /\ out[k].port = p /\ p \in Port
    BY <1>2, <1>3 DEF Printed
  <2> HIDE DEF s, p
  <2>2. Range(s) = Closure(Direct(p, l), RunEdges)
    <3>1. Range(Net[p][l]) = Direct(p, l) /\ RunEdges = RunOf(Net)
      BY <1>2, <2>1, NetFacts
    <3> QED
      BY <2>1, <3>1 DEF Full, Reached
  <2>3. IsInjective(file[p][l]) => IsInjective(s)
    BY <2>1 DEF Full
  <2>4. ASSUME NEW m \in 2..Len(s) PROVE NameOf[s[m - 1]] <= NameOf[s[m]]
    <3>1. s \in Seq(Port)
      BY <2>1 DEF Full
    <3>2. Len(s) \in Nat
      BY <3>1
    <3>3. m - 1 \in 1..Len(s) /\ m \in 1..Len(s) /\ m - 1 < m
      BY <3>2
    <3> QED
      BY <2>1, <3>3 DEF Ordered
  <2> QED
    BY <2>1, <2>2, <2>3, <2>4 DEF s
<1> QED
  BY <1>2, <1>3, <1>5, <1>6, <1>7 DEF RightIndex, n

-----------------------------------------------------------------------------
(* It holds at the start, and each step keeps it. *)
\* What is read off the lines and pp alone does not change while those do not.
LEMMA Stable ==
    ASSUME file' = file, pp' = pp
    PROVE  /\ Port' = Port /\ DirOf' = DirOf /\ NameOf' = NameOf /\ Net' = Net
           /\ (AllFound' <=> AllFound) /\ (Searchable' <=> Searchable)
           /\ (Permuted' <=> Permuted)
<1>1. Port' = Port
  BY DEF Port
<1>2. DirOf' = DirOf /\ NameOf' = NameOf
  BY <1>1 DEF DirOf, NameOf
<1>3. Net' = Net
  BY <1>1, <1>2 DEF Net, Ports, FindPort
<1>4. AllFound' <=> AllFound
  BY <1>1, <1>2 DEF AllFound, FoundAll, FindPort
<1>5. Permuted' <=> Permuted
  BY <1>1 DEF Permuted
<1>6. Searchable' <=> Searchable
  BY <1>2, <1>5 DEF Searchable
<1> QED
  BY <1>1, <1>2, <1>3, <1>4, <1>5, <1>6

\* A list of ports is a list of directories and ports.
LEMMA Wider ==
    ASSUME NEW V, NEW W
    PROVE  /\ Seq(V) \subseteq Seq(V \cup W) /\ Seq(W) \subseteq Seq(V \cup W)
           /\ \A U : [U -> [List -> Seq(W)]] \subseteq [U -> [List -> Seq(V \cup W)]]
<1>1. Seq(V) \subseteq Seq(V \cup W) /\ Seq(W) \subseteq Seq(V \cup W)
  OBVIOUS
<1> DEFINE A == Seq(W)
           B == Seq(V \cup W)
<1>2. A \subseteq B
  BY <1>1
<1> HIDE DEF A, B
<1>3. \A U : [U -> [List -> A]] \subseteq [U -> [List -> B]]
  BY <1>2
<1> QED
  BY <1>1, <1>3 DEF A, B

\* The invariant holds when main starts.
LEMMA Starts ==
    ASSUME Init
    PROVE  IInv
<1>1. Tabled
  <2> DEFINE S == Seq(Dir \cup Port)
  <2>1. <<>> \in S
    OBVIOUS
  <2> HIDE DEF S
  <2>2. dep \in [Port -> [List -> S]]
    BY <2>1 DEF Init
  <2>3. count \in [Port -> [List -> Nat]] /\ recursed \in [Port -> 0..2] /\ i \in Nat
    BY DEF Init
  <2> QED
    BY <2>2, <2>3 DEF Tabled, Init, S
<1> QED
  BY <1>1 DEF IInv, Phase, AtRead, Idle, Init

\* A file without a corrupt line is one of described ports.
LEMMA DescribedFile ==
    ASSUME file \in Describes, Corrupt \notin Range(file)
    PROVE  file \in Seq(Described)
<1> DEFINE n == Len(file)
           C == Described \cup {Corrupt}
<1>1. file \in Seq(C)
  BY FileFacts
<1> HIDE DEF C
<1>2. n \in Nat /\ (\A k \in 1..n : file[k] \in C) /\ Range(file) = {file[k] : k \in 1..n}
  BY <1>1, SeqRange
<1>3. \A k \in 1..n : file[k] \in Described
  BY <1>2 DEF C
<1>4. file = [k \in 1..n |-> file[k]]
  BY <1>1
<1> HIDE DEF n
<1> QED
  BY <1>2, <1>3, <1>4

\* Step 1, the lines read.
LEMMA ReadKeeps ==
    ASSUME IInv, Read
    PROVE  IInv'
<1> DEFINE n == Len(file)
<1>1. file \in Describes /\ file \in Seq(Described)
  BY DescribedFile DEF IInv, Tabled, Read
<1>2. /\ n \in Nat /\ Port = 1..n
      /\ \A p \in Port, l \in List : file[p][l] \in Seq(Dir)
  BY <1>1, LineFacts
<1>3. /\ file' = file /\ i' = i /\ recursed' = recursed /\ stack' = stack /\ out' = out
      /\ pp' = [k \in Port |-> k]
      /\ dep' = [p \in Port |-> [l \in List |-> file[p][l]]]
      /\ count' = [p \in Port |-> [l \in List |-> Len(file[p][l])]]
      /\ pc' = IF file = <<>> THEN "ok" ELSE "sort"
  BY DEF Read
<1>4. i = 1 /\ Idle /\ recursed \in [Port -> 0..2]
  BY DEF IInv, Phase, Tabled, AtRead, Read
<1>5. Port' = Port
  BY <1>3 DEF Port
<1>6. Tabled'
  <2>1. \A p \in Port, l \in List : file[p][l] \in Seq(Dir \cup Port) /\ Len(file[p][l]) \in Nat
    BY <1>2, Wider, SeqRange
  <2> DEFINE S == Seq(Dir \cup Port)
  <2>2. \A p \in Port, l \in List : file[p][l] \in S /\ Len(file[p][l]) \in Nat
    BY <2>1
  <2> HIDE DEF S
  <2>3. dep' \in [Port -> [List -> S]] /\ count' \in [Port -> [List -> Nat]]
    BY <1>3, <2>2
  <2> QED
    BY <1>1, <1>3, <1>4, <1>5, <2>3 DEF Tabled, S
<1>7. pp' \in Seq(Port) /\ Len(pp') = n /\ \A k \in 1..n : pp'[k] = k
  <2> HIDE DEF n
  <2> QED
    BY <1>2, <1>3
<1>8. Permuted'
  <2> HIDE DEF n
  <2>1. Len(file') = n
    BY <1>3 DEF n
  <2> QED
    BY <1>2, <1>5, <1>7, <2>1 DEF Permuted
<1>9. Idle'
  BY <1>3, <1>4, <1>5 DEF Idle
<1>10. CASE file = <<>>
  <2>1. n = 0 /\ Port = {}
    BY <1>2, <1>10
  <2>2. Ordered(pp', DirOf')
    BY <1>7, <2>1 DEF Ordered
  <2>3. Searchable'
    BY <1>1, <1>3, <1>8, <2>2 DEF Searchable
  <2>4. AllFound' /\ ~(\E p \in Port' : Looping(Net', p))
    BY <1>5, <2>1 DEF AllFound
  <2>5. stack' = <<>> /\ out' = <<>> /\ Len(file') = 0
    BY <1>3, <1>4, <1>9, <2>1 DEF Idle
  <2>6. Printing(Len(file))'
    BY <2>3, <2>4, <2>5 DEF Printing
  <2> QED
    BY <1>3, <1>6, <1>10, <2>6 DEF IInv, Phase
<1>11. CASE file # <<>>
  <2>1. n # 0
    BY <1>1, <1>11, EmptySeq
  <2>2. i' = 1 /\ i' \in Port'
    BY <1>2, <1>3, <1>4, <1>5, <2>1
  <2>3. Counted' /\ \A p \in Port' : AsRead(p)'
    BY <1>3, <1>5 DEF Counted, AsRead
  <2>4. AtSort'
    BY <1>1, <1>3, <1>8, <1>9, <2>2, <2>3 DEF AtSort
  <2> QED
    BY <1>3, <1>6, <1>11, <2>4 DEF IInv, Phase
<1> QED
  BY <1>10, <1>11

\* Step 1, a corrupt line.
LEMMA ReadFailsKeeps ==
    ASSUME IInv, ReadFails
    PROVE  IInv'
<1>1. /\ file' = file /\ i' = i /\ pp' = pp /\ dep' = dep /\ count' = count
      /\ recursed' = recursed /\ stack' = stack /\ out' = out /\ pc' = "corrupt"
      /\ Tabled /\ AtRead
  BY DEF ReadFails, lists, IInv, Phase
<1>2. Port' = Port
  BY <1>1 DEF Port
<1>3. Tabled' /\ AtRead'
  BY <1>1, <1>2 DEF Tabled, AtRead, Idle
<1> QED
  BY <1>1, <1>3 DEF IInv, Phase

\* sortports: all the ports, in the order of their directories.
LEMMA SortedPorts ==
    ASSUME file \in Seq(Described), Permuted
    PROVE  LET t == HeapSort(pp, DirOf)
           IN  /\ t \in Seq(Port) /\ Len(t) = Len(file) /\ Ordered(t, DirOf)
               /\ \A j, k \in 1..Len(file) : t[j] = t[k] => j = k
               /\ \A p \in Port : \E k \in 1..Len(file) : t[k] = p
<1> DEFINE n == Len(file)
           V == Port
           t == HeapSort(pp, DirOf)
<1>1. n \in Nat /\ V = 1..n /\ V \subseteq Nat /\ DirOf \in [V -> Nat]
  BY LineFacts
<1>2. /\ pp \in Seq(V) /\ Len(pp) = n
      /\ \A j, k \in 1..n : pp[j] = pp[k] => j = k
      /\ \A p \in V : \E k \in 1..n : pp[k] = p
  BY DEF Permuted
<1> HIDE DEF V
<1>3. t \in Seq(V) /\ Rearranged(pp, t, Len(pp))
      /\ \A a, b \in 1..Len(pp) : a < b => DirOf[t[a]] <= DirOf[t[b]]
  BY <1>1, <1>2, HeapSortFacts
<1> HIDE DEF t, n
<1>4. Len(t) = n /\ Ordered(t, DirOf)
  BY <1>2, <1>3 DEF Rearranged, Ordered
<1>5. \A p \in V : \E k \in 1..n : t[k] = p
  BY <1>2, <1>3 DEF Rearranged
<1>6. \A j, k \in 1..n : t[j] = t[k] => j = k
  <2>1. DOMAIN pp = 1..n /\ DOMAIN t = 1..n
    BY <1>2, <1>3, <1>4
  <2>2. IsInjective(pp)
    BY <1>2, <2>1 DEF IsInjective
  <2>3. IsInjective(t)
    BY <1>3, <2>2 DEF Rearranged
  <2> QED
    BY <2>1, <2>3 DEF IsInjective
<1> QED
  BY <1>3, <1>4, <1>5, <1>6 DEF V, t, n

\* Step 2.
LEMMA SortKeeps ==
    ASSUME IInv, Sort
    PROVE  IInv'
<1>1. /\ file' = file /\ i' = i /\ dep' = dep /\ count' = count
      /\ recursed' = recursed /\ stack' = stack /\ out' = out
      /\ pp' = HeapSort(pp, DirOf) /\ pc' = "translate"
  BY DEF Sort, lists
<1>2. Tabled /\ AtSort
  BY DEF Sort, IInv, Phase
<1>3. Port' = Port /\ DirOf' = DirOf
  BY <1>1 DEF Port, DirOf
<1>4. file \in Seq(Described) /\ Permuted /\ i = 1 /\ i \in Port /\ Idle /\ Counted
      /\ \A p \in Port : AsRead(p)
  BY <1>2 DEF AtSort
<1>5. Searchable'
  BY <1>1, <1>3, <1>4, SortedPorts DEF Searchable, Permuted
<1>6. Tabled' /\ Idle' /\ Counted'
  BY <1>1, <1>2, <1>3, <1>4 DEF Tabled, Idle, Counted
<1>7. \A k \in 1..Len(file) : pp'[k] \in Port
  BY <1>1, <1>3, <1>5, ElementOfSeq DEF Searchable, Permuted
<1>8. \A p \in Port : AsRead(p)'
  BY <1>1, <1>4 DEF AsRead
<1>9. \A k \in 1..Len(file) : ~(k < i)
  BY <1>4
<1>10. AtTranslate'
  BY <1>1, <1>3, <1>4, <1>5, <1>6, <1>7, <1>8, <1>9 DEF AtTranslate
<1> QED
  BY <1>1, <1>6, <1>10 DEF IInv, Phase

\* translateport finds an entry for every name or not.
LEMMA NamedFacts ==
    ASSUME Searchable, NEW p \in Port, AsRead(p)
    PROVE  (\A dir \in Named(p) : FindPort(dir) # NoPort) <=> (\A l \in List : FoundAll(file[p][l]))
<1>1. \A l \in List : dep[p][l] = file[p][l] /\ file[p][l] \in Seq(Dir)
  BY LineFacts DEF AsRead, Searchable
<1>2. ASSUME NEW l \in List
      PROVE  FoundAll(file[p][l]) <=> \A dir \in Range(dep[p][l]) : FindPort(dir) # NoPort
  BY <1>1 DEF FoundAll, Range
<1> QED
  BY <1>2 DEF Named

\* Step 3, no entry for a name.
LEMMA TranslateFailsKeeps ==
    ASSUME IInv, TranslateFails
    PROVE  IInv'
<1>1. /\ file' = file /\ i' = i /\ pp' = pp /\ dep' = dep /\ count' = count
      /\ recursed' = recursed /\ stack' = stack /\ out' = out /\ pc' = "no_entry"
      /\ Tabled /\ AtTranslate
  BY DEF TranslateFails, lists, IInv, Phase
<1>2. /\ Port' = Port /\ (AllFound' <=> AllFound) /\ (Searchable' <=> Searchable)
  BY <1>1, Stable
<1>3. Searchable /\ Idle /\ i \in Port /\ Port = 1..Len(file) /\ pp[i] \in Port /\ Len(file) \in Nat
  BY <1>1, SearchableFacts DEF AtTranslate
<1>4. AsRead(pp[i])
  BY <1>1, <1>3 DEF AtTranslate
<1>5. ~AllFound
  <2>1. ~ \A dir \in Named(pp[i]) : FindPort(dir) # NoPort
    BY DEF TranslateFails
  <2>2. ~ \A l \in List : FoundAll(file[pp[i]][l])
    BY <1>3, <1>4, <2>1, NamedFacts
  <2> QED
    BY <1>3, <2>2 DEF AllFound
<1>6. Tabled' /\ AtNoEntry'
  BY <1>1, <1>2, <1>3, <1>5 DEF Tabled, AtNoEntry, Idle
<1> QED
  BY <1>1, <1>6 DEF IInv, Phase

\* Its lists, translated, are lists of ports.
LEMMA TranslatedFacts ==
    ASSUME Searchable, NEW p \in Port, \A l \in List : FoundAll(file[p][l])
    PROVE  /\ Net[p] \in [List -> Seq(Port)]
           /\ \A l \in List : Len(Net[p][l]) = Len(file[p][l])
<1>1. \A l \in List : file[p][l] \in Seq(Dir)
  BY LineFacts DEF Searchable
<1>2. \A l \in List : Ports(file[p][l]) \in Seq(Port) /\ Len(Ports(file[p][l])) = Len(file[p][l])
  BY <1>1, PortsFacts
<1> QED
  BY <1>2 DEF Net

\* The walk that main starts.
LEMMA WalkStarts ==
    ASSUME Searchable, AllFound, Idle, Counted, Tabled
    PROVE  Walk(Net, Net, count, recursed, <<>>)
<1> DEFINE n == Len(file)
           T == Net
<1>1. Graph(T) /\ Len(T) = n /\ n \in Nat /\ Port = 1..n
  BY NetFacts, SearchableFacts
<1>2. \A p \in Port : T[p] \in [List -> Seq(Port)] /\ \A l \in List : Len(T[p][l]) = Len(file[p][l])
  BY TranslatedFacts DEF AllFound
<1>3. T = [p \in Port |-> T[p]]
  BY DEF Net
<1> HIDE DEF T, n
<1>4. T \in [Port -> [List -> Seq(Port)]]
  BY <1>2, <1>3
<1>5. Tables(T, T, count, recursed)
  BY <1>1, <1>4 DEF Tables, Tabled
<1>6. recursed = [p \in Port |-> 0]
  BY DEF Idle
<1>7. Settled(T, T, count, recursed)
  <2>1. \A p \in Port, l \in List : Untouched(T, T, count, p, l)
    BY <1>2 DEF Untouched, Counted
  <2>2. \A p \in Port : recursed[p] = 0
    BY <1>6
  <2> QED
    BY <1>1, <2>1, <2>2 DEF Settled
<1>8. Frames(T, T, count, recursed, <<>>)
  <2>1. \A p \in 1..Len(T) : recursed[p] # 1
    BY <1>1, <1>6
  <2>2. Len(<<>>) = 0 /\ <<>> \in Seq(FrameOf(Len(T)))
    OBVIOUS
  <2>3. \A k : k \notin 1..Len(<<>>)
    OBVIOUS
  <2> QED
    BY <2>1, <2>2, <2>3 DEF Frames
<1> QED
  BY <1>5, <1>7, <1>8 DEF Walk, T

\* Step 3 replaces the lists of one port by the translated ones.
LEMMA TranslateOne ==
    ASSUME Searchable, Tabled, Translate, i \in Port, AsRead(pp[i])
    PROVE  /\ pp[i] \in Port /\ \A l \in List : FoundAll(file[pp[i]][l])
           /\ dep' = [dep EXCEPT ![pp[i]] = Net[pp[i]]]
           /\ dep' \in [Port -> [List -> Seq(Dir \cup Port)]]
<1> DEFINE p == pp[i]
<1>1. p \in Port
  BY SearchableFacts
<1>2. \A l \in List : FoundAll(file[p][l])
  <2>1. \A dir \in Named(p) : FindPort(dir) # NoPort
    BY DEF Translate
  <2> HIDE DEF p
  <2> QED
    BY <1>1, <2>1, NamedFacts DEF p
<1>3. [l \in List |-> [k \in DOMAIN dep[p][l] |-> FindPort(dep[p][l][k])]] = Net[p]
  <2>1. \A l \in List : dep[p][l] = file[p][l]
    BY DEF AsRead
  <2> HIDE DEF p
  <2> QED
    BY <1>1, <2>1 DEF Net, Ports
<1>4. dep' = [dep EXCEPT ![p] = [l \in List |-> [k \in DOMAIN dep[p][l] |-> FindPort(dep[p][l][k])]]]
  BY DEF Translate
<1>5. dep' = [dep EXCEPT ![p] = Net[p]]
  BY Zenon, <1>3, <1>4
<1>6. dep' \in [Port -> [List -> Seq(Dir \cup Port)]]
  <2> DEFINE A == Seq(Dir \cup Port)
             B == Seq(Port)
             r == Net[p]
  <2>1. B \subseteq A
    BY Wider
  <2>2. r \in [List -> B]
    BY <1>1, <1>2, TranslatedFacts
  <2>3. dep \in [Port -> [List -> A]]
    BY DEF Tabled
  <2> HIDE DEF A, B, r, p
  <2>4. r \in [List -> A]
    BY <2>1, <2>2
  <2>5. dep' = [dep EXCEPT ![p] = r]
    BY <1>5 DEF r
  <2>6. dep' \in [Port -> [List -> A]]
    BY <1>1, <2>3, <2>4, <2>5
  <2> QED
    BY <2>6 DEF A
<1> QED
  BY <1>1, <1>2, <1>5, <1>6

\* Step 3, one port after the other; after the last the walk starts.
LEMMA TranslateKeeps ==
    ASSUME IInv, Translate
    PROVE  IInv'
<1> DEFINE n == Len(file)
           p == pp[i]
<1>1. /\ file' = file /\ pp' = pp /\ count' = count
      /\ recursed' = recursed /\ stack' = stack /\ out' = out
  BY DEF Translate
<1>2. Tabled /\ AtTranslate
  BY DEF Translate, IInv, Phase
<1>3. /\ Searchable /\ Idle /\ Counted /\ i \in Port
      /\ n \in Nat /\ Port = 1..n /\ Len(pp) = n /\ AsRead(p)
      /\ \A k \in 1..n : pp[k] \in Port
      /\ \A j, k \in 1..n : pp[j] = pp[k] => j = k
      /\ \A q \in Port : \E k \in 1..n : pp[k] = q
      /\ \A k \in 1..n : k >= i => AsRead(pp[k])
      /\ \A k \in 1..n : k < i => Translated(pp[k])
  BY <1>2, SearchableFacts DEF AtTranslate, Permuted
<1>4. /\ p \in Port /\ (\A l \in List : FoundAll(file[p][l]))
      /\ dep' = [dep EXCEPT ![p] = Net[p]]
      /\ dep' \in [Port -> [List -> Seq(Dir \cup Port)]]
  BY <1>2, <1>3, TranslateOne
<1>5. /\ Port' = Port /\ Net' = Net /\ (AllFound' <=> AllFound) /\ (Searchable' <=> Searchable)
  BY <1>1, Stable
<1>6. \A q \in Port : q # p => dep'[q] = dep[q]
  BY <1>2, <1>4 DEF Tabled
<1>7. dep'[p] = Net[p]
  BY <1>2, <1>4 DEF Tabled
<1>8. Idle' /\ Counted'
  BY <1>1, <1>3, <1>5 DEF Idle, Counted
<1> HIDE DEF p
<1>9. \A k \in 1..n : k < i + 1 =>
        dep'[pp[k]] = Net[pp[k]] /\ \A l \in List : FoundAll(file[pp[k]][l])
  <2>1. ASSUME NEW k \in 1..n, k < i
        PROVE  dep'[pp[k]] = Net[pp[k]] /\ \A l \in List : FoundAll(file[pp[k]][l])
    <3>1. pp[k] # p
      BY <1>3, <2>1 DEF p
    <3> QED
      BY <1>3, <1>6, <2>1, <3>1 DEF Translated
  <2>2. dep'[pp[i]] = Net[pp[i]] /\ \A l \in List : FoundAll(file[pp[i]][l])
    BY <1>4, <1>7 DEF p
  <2>3. \A k \in 1..n : k < i + 1 => k < i \/ k = i
    BY <1>3
  <2> QED
    BY <2>1, <2>2, <2>3
<1>10. \A k \in 1..n : k >= i + 1 => dep'[pp[k]] = dep[pp[k]] /\ AsRead(pp[k])
  <2>1. ASSUME NEW k \in 1..n, k >= i + 1
        PROVE  dep'[pp[k]] = dep[pp[k]] /\ AsRead(pp[k])
    <3>1. k # i /\ k >= i /\ i \in 1..n
      BY <1>3, <2>1
    <3>2. pp[k] # p /\ AsRead(pp[k])
      BY <1>3, <3>1 DEF p
    <3> QED
      BY <1>3, <1>6, <3>2
  <2> QED
    BY <2>1
<1>11. CASE i < n
  <2>1. i' = i + 1 /\ pc' = "translate"
    BY <1>3, <1>11 DEF Translate, Turn
  <2>0. i' \in 1..n /\ i' \in Nat
    BY <1>3, <1>11, <2>1
  <2>2. Tabled' /\ i' \in Port'
    BY <1>1, <1>2, <1>4, <1>5, <1>3, <2>0 DEF Tabled
  <2>3. \A k \in 1..n : k < i' => Translated(pp[k])'
    <3>1. \A q : Translated(q)' <=> dep'[q] = Net'[q] /\ \A l \in List : FoundAll(file[q][l])'
      BY DEF Translated
    <3>2. \A s : FoundAll(s)' <=> FoundAll(s)
      BY <1>1, Stable DEF FoundAll, FindPort
    <3> QED
      BY <1>1, <1>5, <1>9, <2>1, <3>1, <3>2
  <2>4. \A k \in 1..n : k >= i' => AsRead(pp[k])'
    BY <1>1, <1>10, <2>1 DEF AsRead
  <2>5. AtTranslate'
    BY <1>1, <1>3, <1>5, <1>8, <2>2, <2>3, <2>4 DEF AtTranslate
  <2> QED
    BY <2>1, <2>2, <2>5 DEF IInv, Phase
<1>12. CASE ~(i < n)
  <2>1. i' = 1 /\ pc' = "recurse"
    BY <1>3, <1>12 DEF Translate, Turn
  <2>0. i' \in 1..n /\ i' \in Nat
    BY <1>3, <1>12, <2>1
  <2>2. Tabled' /\ i' \in Port'
    BY <1>1, <1>2, <1>4, <1>5, <1>3, <2>0 DEF Tabled
  <2>3. \A q \in Port : dep'[q] = Net[q] /\ \A l \in List : FoundAll(file[q][l])
    <3>1. \A k \in 1..n : k < i + 1
      BY <1>3, <1>12
    <3> QED
      BY <1>3, <1>9, <3>1, SMTT(20)
  <2>4. AllFound
    BY <2>3 DEF AllFound
  <2>5. dep' = Net
    <3>1. Net = [q \in Port |-> Net[q]]
      BY DEF Net
    <3> QED
      BY <1>4, <2>3, <3>1
  <2>6. Walk(Net, Net, count, recursed, <<>>)
    BY <1>2, <1>3, <2>4, WalkStarts
  <2>7. stack' = <<>> /\ out' = <<>>
    BY <1>1, <1>3 DEF Idle
  <2>8. Walking'
    BY <1>1, <1>3, <1>5, <2>4, <2>5, <2>6, <2>7 DEF Walking
  <2>9. \A k \in 1..n : ~(k < i')
    BY <2>1
  <2>10. AtRecurse'
    BY <1>1, <2>2, <2>8, <2>9 DEF AtRecurse
  <2> QED
    BY <2>1, <2>2, <2>10 DEF IInv, Phase
<1> QED
  BY <1>11, <1>12

\* The frame of the model is that of the walk.
LEMMA BeginFacts ==
    ASSUME NEW p, NEW n
    PROVE  Begin(p, n) = Started(dep, count, p, n)
BY ListFacts DEF Begin, Started

\* A step of recurse or recurse_one that keeps the walk keeps the invariant.
LEMMA WalkGoesOn ==
    ASSUME IInv, pc = "recurse",
           file' = file, pp' = pp, i' = i, pc' = pc, out' = out,
           Walk(Net, dep', count', recursed', stack'),
           \A q \in Port : recursed[q] = 2 => recursed'[q] = 2
    PROVE  IInv'
<1> DEFINE n == Len(file)
<1>1. Tabled /\ AtRecurse
  BY DEF IInv, Phase
<1>2. Walking /\ i \in Port /\ \A k \in 1..n : k < i => recursed[pp[k]] = 2
  BY <1>1 DEF AtRecurse
<1>3. /\ n \in Nat /\ Port = 1..n /\ Graph(Net) /\ Len(Net) = n
      /\ \A k \in 1..n : pp[k] \in Port
  BY <1>2, NetFacts, SearchableFacts DEF Walking
<1>4. /\ Port' = Port /\ Net' = Net /\ (AllFound' <=> AllFound) /\ (Searchable' <=> Searchable)
  BY Stable
<1>5. Tabled'
  <2>1. Tables(Net, dep', count', recursed')
    BY DEF Walk
  <2>2. dep' \in [Port -> [List -> Seq(Port)]] /\ count' \in [Port -> [List -> Nat]]
        /\ recursed' \in [Port -> 0..2]
    BY <1>3, <2>1 DEF Tables
  <2>3. dep' \in [Port -> [List -> Seq(Dir \cup Port)]]
    <3> DEFINE A == [Port -> [List -> Seq(Port)]]
               B == [Port -> [List -> Seq(Dir \cup Port)]]
    <3>1. A \subseteq B
      BY Wider
    <3>2. dep' \in A
      BY <2>2
    <3> HIDE DEF A, B
    <3>3. dep' \in B
      BY <3>1, <3>2
    <3> QED
      BY <3>3 DEF B
  <2> QED
    BY <1>1, <1>4, <2>2, <2>3 DEF Tabled
<1>6. Walking'
  BY <1>2, <1>4 DEF Walking
<1>7. AtRecurse'
  BY <1>2, <1>3, <1>4, <1>6 DEF AtRecurse
<1> QED
  BY <1>5, <1>7 DEF IInv, Phase

\* What holds at each step of the walk.
LEMMA RecurseFacts ==
    ASSUME IInv, pc = "recurse"
    PROVE  /\ Walking /\ Walk(Net, dep, count, recursed, stack) /\ Tables(Net, dep, count, recursed)
           /\ i \in Port /\ Len(file) \in Nat /\ Port = 1..Len(file) /\ Len(Net) = Len(file)
           /\ \A k \in 1..Len(file) : pp[k] \in Port
           /\ recursed \in [Port -> 0..2]
           /\ stack # <<>> => FrameOK(Net, dep, count, recursed, Top)
<1>1. Tabled /\ AtRecurse /\ Walking /\ Searchable /\ AllFound
  BY DEF IInv, Phase, AtRecurse, Walking
<1>2. Walk(Net, dep, count, recursed, stack) /\ stack \in Seq(Frame)
  BY <1>1, WalkingFacts DEF Walking
<1>3. ASSUME stack # <<>> PROVE FrameOK(Net, dep, count, recursed, Top)
  <2>1. Len(stack) \in 1..Len(stack)
    BY <1>2, <1>3, EmptySeq
  <2> QED
    BY <1>2, <2>1 DEF Walk, Frames, Top
<1> QED
  BY <1>1, <1>2, <1>3, NetFacts, SearchableFacts DEF Walk, AtRecurse, Tabled

\* main calls recurse.
LEMMA RecursePortKeeps ==
    ASSUME IInv, RecursePort
    PROVE  IInv'
<1> DEFINE p == pp[i]
<1>1. /\ pc = "recurse" /\ stack = <<>> /\ recursed[p] = 0
      /\ recursed' = [recursed EXCEPT ![p] = 1] /\ stack' = Append(stack, Begin(p, 1))
      /\ file' = file /\ pp' = pp /\ i' = i /\ pc' = pc /\ out' = out
      /\ dep' = dep /\ count' = count
  BY DEF RecursePort, Enter
<1>2. p \in Port /\ p \in 1..Len(Net) /\ recursed \in [Port -> 0..2]
      /\ Walk(Net, dep, count, recursed, stack)
  BY <1>1, RecurseFacts
<1> HIDE DEF p
<1>3. Walk(Net, dep, count, [recursed EXCEPT ![p] = 1], Append(stack, Started(dep, count, p, 1)))
  BY <1>1, <1>2, EnterKeeps
<1>4. Walk(Net, dep', count', recursed', stack')
  BY <1>1, <1>3, BeginFacts
<1>5. \A q \in Port : recursed[q] = 2 => recursed'[q] = 2
  BY <1>1, <1>2
<1> QED
  BY <1>1, <1>4, <1>5, WalkGoesOn

\* The element of its list that the innermost recurse_one is at.
LEMMA AtFacts ==
    ASSUME IInv, NEW q, At(q)
    PROVE  /\ q \in 1..Len(Net) /\ q \in Port /\ q = Top.d[Top.i] /\ Top.list \in 1..5
           /\ Top.port \in 1..Len(Net) /\ Top.i <= Top.size
           /\ stack # <<>> /\ Top = stack[Len(stack)]
<1>1. /\ pc = "recurse" /\ stack # <<>> /\ Top.i <= Top.size /\ q = Top.d[Top.i]
  BY DEF At
<1>2. FrameOK(Net, dep, count, recursed, Top) /\ Graph(Net) /\ Len(Net) = Len(file) /\ Port = 1..Len(file)
  BY <1>1, RecurseFacts DEF Tables
<1>3. Top.list \in 1..5 /\ Top.port \in 1..Len(Net) /\ q \in 1..Len(Net)
  <2> DEFINE f == Top
             s == Net[f.port][Lists[f.list]]
  <2> HIDE DEF f
  <2>1. f.list \in 1..5 /\ f.port \in 1..Len(Net) /\ f.d[f.i] = s[f.i] /\ s[f.i] \in 1..Len(Net)
    BY <1>1, <1>2, FrameAt DEF f
  <2> QED
    BY <1>1, <2>1 DEF f
<1> QED
  BY <1>1, <1>2, <1>3 DEF Top

\* recurse_one calls recurse on a port not seen.
LEMMA DescendKeeps ==
    ASSUME IInv, NEW q, Descend(q)
    PROVE  IInv'
<1>1. /\ At(q) /\ pc = "recurse" /\ recursed[q] = 0
      /\ recursed' = [recursed EXCEPT ![q] = 1] /\ stack' = Append(stack, Begin(q, 1))
      /\ file' = file /\ pp' = pp /\ i' = i /\ pc' = pc /\ out' = out
      /\ dep' = dep /\ count' = count
  BY DEF Descend, Enter, At
<1>2. recursed \in [Port -> 0..2] /\ Walk(Net, dep, count, recursed, stack)
  BY <1>1, RecurseFacts
<1>3. /\ q \in 1..Len(Net) /\ q \in Port /\ q = Top.d[Top.i] /\ Top.list \in 1..5
      /\ Top.i <= Top.size /\ stack # <<>> /\ Top = stack[Len(stack)]
  BY <1>1, AtFacts
<1> DEFINE g == Started(dep, count, q, 1)
<1>4. Linked(stack[Len(stack)], g)
  <2>1. g.port = q
    BY DEF Started
  <2> HIDE DEF g
  <2> QED
    BY <1>3, <2>1 DEF Linked
<1>5. Walk(Net, dep, count, [recursed EXCEPT ![q] = 1], Append(stack, Started(dep, count, q, 1)))
  BY <1>1, <1>2, <1>3, <1>4, EnterKeeps
<1>6. Walk(Net, dep', count', recursed', stack')
  BY <1>1, <1>5, BeginFacts
<1>7. \A p \in Port : recursed[p] = 2 => recursed'[p] = 2
  BY <1>1, <1>2
<1> QED
  BY <1>1, <1>6, <1>7, WalkGoesOn

\* recurse_one meets a port that is being recursed.
LEMMA CircularKeeps ==
    ASSUME IInv, NEW q, Circular(q)
    PROVE  IInv'
<1>1. /\ At(q) /\ pc = "recurse" /\ recursed[q] = 1 /\ pc' = "loop"
      /\ file' = file /\ pp' = pp /\ i' = i /\ out' = out
      /\ dep' = dep /\ count' = count /\ recursed' = recursed /\ stack' = stack
  BY DEF Circular, At, lists
<1>2. Walking /\ Walk(Net, dep, count, recursed, stack) /\ Port = 1..Len(file) /\ Len(Net) = Len(file)
  BY <1>1, RecurseFacts
<1>3. /\ q = Top.d[Top.i] /\ Top.i <= Top.size /\ stack # <<>> /\ Top = stack[Len(stack)]
  BY <1>1, AtFacts
<1>4. q \in 1..Len(Net) /\ Looping(Net, q)
  <2> DEFINE f == Top
  <2>1. f = stack[Len(stack)] /\ f.i <= f.size /\ q = f.d[f.i]
    BY <1>3
  <2> HIDE DEF f
  <2> QED
    BY <1>1, <1>2, <1>3, <2>1, LoopFound
<1>5. /\ Port' = Port /\ Net' = Net /\ (AllFound' <=> AllFound) /\ (Searchable' <=> Searchable)
  BY <1>1, Stable
<1>6. Tabled
  BY DEF IInv
<1>7. Tabled' /\ Walking'
  BY <1>1, <1>2, <1>5, <1>6 DEF Tabled, Walking
<1>8. AtLoop'
  BY <1>2, <1>4, <1>5, <1>7 DEF AtLoop
<1> QED
  BY <1>1, <1>7, <1>8 DEF IInv, Phase

\* What is copied from a recursed port is its list of run dependencies: nothing
\* past the end of its array.
LEMMA RunDependsFacts ==
    ASSUME NEW T, Walk(T, dep, count, recursed, stack), NEW q \in 1..Len(T), recursed[q] = 2
    PROVE  RunDepends(q) = dep[q]["rdep"]
<1> DEFINE s == dep[q]["rdep"]
           V == 1..Len(T)
<1>1. "rdep" \in List
  BY ListFacts
<1>2. Finished(T, dep, count, recursed, q, "rdep")
  BY <1>1 DEF Walk, Settled
<1>3. count[q]["rdep"] = Len(s)
  BY <1>2 DEF Finished
<1>4. s \in Seq(V)
  BY <1>1 DEF Walk, Tables
<1> HIDE DEF V, s
<1>5. Len(s) \in Nat /\ s = [j \in 1..Len(s) |-> s[j]]
  BY <1>4
<1>6. RunDepends(q) = [j \in 1..Len(s) |-> IF j <= Len(s) THEN s[j] ELSE Garbage]
  BY <1>3 DEF RunDepends, s
<1>7. \A j \in 1..Len(s) : (IF j <= Len(s) THEN s[j] ELSE Garbage) = s[j]
  BY <1>5
<1> QED
  BY <1>5, <1>6, <1>7 DEF s

\* Two assignments to fields of the last element.
LEMMA LastMoved ==
    ASSUME NEW V, NEW st \in Seq([port : V, list : 1..6, i : Nat, size : Nat, d : Seq(V)]),
           st # <<>>, NEW e
    PROVE  [st EXCEPT ![Len(st)].d = e, ![Len(st)].i = @ + 1]
             = [st EXCEPT ![Len(st)] = [st[Len(st)] EXCEPT !.d = e, !.i = st[Len(st)].i + 1]]
<1> DEFINE n == Len(st)
           F == [port : V, list : 1..6, i : Nat, size : Nat, d : Seq(V)]
           f == st[n]
           h == [f EXCEPT !.d = e]
           mid == [st EXCEPT ![n].d = e]
<1>1. n \in DOMAIN st /\ f \in F
  <2> HIDE DEF F
  <2>1. st \in Seq(F) /\ st # <<>>
    BY DEF F
  <2>2. n \in 1..n
    BY <2>1, EmptySeq
  <2> QED
    BY <2>1, <2>2, ElementOfSeq
<1>2. mid = [st EXCEPT ![n] = h]
  OBVIOUS
<1> HIDE DEF n, F, h, mid
<1>3. mid[n] = h /\ DOMAIN mid = DOMAIN st /\ \A k \in DOMAIN st : k # n => mid[k] = st[k]
  BY <1>1, <1>2
<1>4. h.i = f.i
  BY <1>1 DEF h, F
<1>5. [mid EXCEPT ![n].i = @ + 1] = [mid EXCEPT ![n] = [h EXCEPT !.i = f.i + 1]]
  BY <1>3, <1>4
<1>6. [mid EXCEPT ![n] = [h EXCEPT !.i = f.i + 1]] = [st EXCEPT ![n] = [h EXCEPT !.i = f.i + 1]]
  BY <1>2
<1>7. [h EXCEPT !.i = f.i + 1] = [f EXCEPT !.d = e, !.i = f.i + 1]
  BY DEF h
<1> QED
  BY <1>5, <1>6, <1>7 DEF n, mid

\* recurse_one copies those of the element it is at.
LEMMA ExtendStepKeeps ==
    ASSUME IInv, NEW q, Extend(q)
    PROVE  IInv'
<1> DEFINE f == Top
           l == Lists[f.list]
           grown == AddAll([d |-> f.d, nd |-> count[f.port][l]], RunDepends(q))
           T == Net
<1>1. /\ At(q) /\ pc = "recurse" /\ recursed[q] = 2
      /\ stack' = [stack EXCEPT ![Len(stack)].d = grown.d, ![Len(stack)].i = @ + 1]
      /\ count' = [count EXCEPT ![f.port][l] = grown.nd]
      /\ file' = file /\ pp' = pp /\ i' = i /\ pc' = pc /\ out' = out
      /\ dep' = dep /\ recursed' = recursed
  BY DEF Extend, At
<1>2. Walk(T, dep, count, recursed, stack)
  BY <1>1, RecurseFacts
<1>3. /\ q \in 1..Len(T) /\ q = f.d[f.i] /\ f.i <= f.size
      /\ stack # <<>> /\ f = stack[Len(stack)]
  BY <1>1, AtFacts
<1> HIDE DEF T
<1>4. RunDepends(q) = dep[q]["rdep"]
  BY <1>1, <1>2, <1>3, RunDependsFacts
<1>5. stack' = [stack EXCEPT ![Len(stack)] = [f EXCEPT !.d = grown.d, !.i = f.i + 1]]
  <2> DEFINE e == grown.d
             V == 1..Len(T)
  <2>1. stack \in Seq([port : V, list : 1..6, i : Nat, size : Nat, d : Seq(V)])
    BY <1>2 DEF Walk, Frames, FrameOf
  <2> HIDE DEF e, V
  <2>2. [stack EXCEPT ![Len(stack)].d = e, ![Len(stack)].i = @ + 1]
          = [stack EXCEPT ![Len(stack)] =
               [stack[Len(stack)] EXCEPT !.d = e, !.i = stack[Len(stack)].i + 1]]
    BY <1>3, <2>1, LastMoved
  <2>3. stack' = [stack EXCEPT ![Len(stack)].d = e, ![Len(stack)].i = @ + 1]
    BY <1>1 DEF e
  <2>4. f = stack[Len(stack)]
    BY <1>3
  <2> HIDE DEF f
  <2>5. stack' = [stack EXCEPT ![Len(stack)] = [f EXCEPT !.d = e, !.i = f.i + 1]]
    BY Zenon, <2>2, <2>3, <2>4
  <2> QED
    BY <2>5 DEF e
<1>6. Walk(T, dep', count', recursed', stack')
  <2> DEFINE more == AddAll([d |-> f.d, nd |-> count[f.port][l]], dep[f.d[f.i]]["rdep"])
  <2>1. grown = more
    BY <1>3, <1>4
  <2>2. Walk(T, dep, [count EXCEPT ![f.port][l] = more.nd], recursed,
             [stack EXCEPT ![Len(stack)] = [f EXCEPT !.d = more.d, !.i = f.i + 1]])
    <3>1. recursed[f.d[f.i]] = 2
      BY <1>1, <1>3
    <3> HIDE DEF f
    <3> QED
      BY <1>2, <1>3, <3>1, ExtendKeeps
  <2> HIDE DEF more, grown, f
  <2> QED
    BY <1>1, <1>5, <2>1, <2>2
<1>7. \A p \in Port : recursed[p] = 2 => recursed'[p] = 2
  BY <1>1
<1> QED
  BY <1>1, <1>6, <1>7, WalkGoesOn DEF T

\* recurse_one returns.
LEMMA EndListStepKeeps ==
    ASSUME IInv, EndList
    PROVE  IInv'
<1> DEFINE f == Top
           l == Lists[f.list]
           T == Net
<1>1. /\ pc = "recurse" /\ stack # <<>> /\ f.list <= 5 /\ f.i > f.size
      /\ dep' = [dep EXCEPT ![f.port][l] = f.d]
      /\ count' = [count EXCEPT ![f.port][l] = Len(f.d)]
      /\ stack' = [stack EXCEPT ![Len(stack)] = Begin(f.port, f.list + 1)]
      /\ file' = file /\ pp' = pp /\ i' = i /\ pc' = pc /\ out' = out /\ recursed' = recursed
  BY ListFacts DEF EndList
<1>2. Walk(T, dep, count, recursed, stack) /\ f = stack[Len(stack)]
  BY <1>1, RecurseFacts DEF Top
<1>3. Begin(f.port, f.list + 1) = Started(dep, count, f.port, f.list + 1)
  BY BeginFacts
<1> HIDE DEF T
<1>4. Walk(T, [dep EXCEPT ![f.port][l] = f.d], [count EXCEPT ![f.port][l] = Len(f.d)], recursed,
           [stack EXCEPT ![Len(stack)] = Started(dep, count, f.port, f.list + 1)])
  <2> HIDE DEF f
  <2> QED
    BY <1>1, <1>2, EndListKeeps
<1>5. Walk(T, dep', count', recursed', stack')
  <2> HIDE DEF f
  <2> QED
    BY <1>1, <1>3, <1>4
<1>6. \A p \in Port : recursed[p] = 2 => recursed'[p] = 2
  BY <1>1
<1> QED
  BY <1>1, <1>5, <1>6, WalkGoesOn DEF T

\* recurse returns.
LEMMA ReturnStepKeeps ==
    ASSUME IInv, Return
    PROVE  IInv'
<1> DEFINE f == Top
           T == Net
<1>1. /\ pc = "recurse" /\ stack # <<>> /\ f.list > 5
      /\ recursed' = [recursed EXCEPT ![f.port] = 2] /\ stack' = Front(stack)
      /\ file' = file /\ pp' = pp /\ i' = i /\ pc' = pc /\ out' = out
      /\ dep' = dep /\ count' = count
  BY ListFacts DEF Return
<1>2. Walk(T, dep, count, recursed, stack) /\ f = stack[Len(stack)]
      /\ recursed \in [Port -> 0..2]
  BY <1>1, RecurseFacts DEF Top
<1> HIDE DEF T
<1>3. Walk(T, dep, count, [recursed EXCEPT ![f.port] = 2], Front(stack))
  <2> HIDE DEF f
  <2> QED
    BY <1>1, <1>2, ReturnKeeps
<1>4. Walk(T, dep', count', recursed', stack')
  BY <1>1, <1>3
<1>5. \A p \in Port : recursed[p] = 2 => recursed'[p] = 2
  BY <1>1, <1>2
<1> QED
  BY <1>1, <1>4, <1>5, WalkGoesOn DEF T

\* A recursed port needs itself nowhere, and its lists are full.
LEMMA FullFacts ==
    ASSUME Walking, NEW p \in Port, recursed[p] = 2
    PROVE  ~Looping(Net, p) /\ \A l \in List : Full(p, l, dep[p][l])
<1> DEFINE n == Len(file)
<1>1. /\ Graph(Net) /\ Len(Net) = n /\ Port = 1..n
      /\ \A l \in List : IsInjective(file[p][l]) => IsInjective(Net[p][l])
  BY NetFacts, SearchableFacts DEF Walking
<1>2. /\ Settled(Net, dep, count, recursed)
      /\ dep \in [Port -> [List -> Seq(Port)]]
  BY <1>1 DEF Walking, Walk, Tables
<1> HIDE DEF n
<1>3. ~Looping(Net, p) /\ \A l \in List : Finished(Net, dep, count, recursed, p, l)
  BY <1>1, <1>2 DEF Settled
<1>4. ASSUME NEW l \in List PROVE Full(p, l, dep[p][l])
  <2>1. Finished(Net, dep, count, recursed, p, l) /\ dep[p][l] \in Seq(Port)
    BY <1>2, <1>3
  <2> QED
    BY <1>1, <2>1 DEF Finished, Extends, Full
<1> QED
  BY <1>3, <1>4

\* Full speaks of the lines and pp only.
LEMMA FullStable ==
    ASSUME file' = file, pp' = pp, NEW p, NEW l, NEW s
    PROVE  Full(p, l, s)' <=> Full(p, l, s)
<1>1. Port' = Port /\ Net' = Net
  BY Stable
<1> QED
  BY <1>1 DEF Full

\* main goes on with the next port; after the last the printing starts.
LEMMA NextPortKeeps ==
    ASSUME IInv, NextPort
    PROVE  IInv'
<1> DEFINE n == Len(file)
           T == Net
<1>1. /\ pc = "recurse" /\ stack = <<>> /\ recursed[pp[i]] = 2
      /\ file' = file /\ pp' = pp /\ out' = out /\ dep' = dep /\ count' = count
      /\ recursed' = recursed /\ stack' = stack
  BY DEF NextPort, lists
<1>2. /\ Walking /\ Tabled /\ i \in Port /\ n \in Nat /\ Port = 1..n
      /\ (\A k \in 1..n : pp[k] \in Port) /\ (\A k \in 1..n : k < i => recursed[pp[k]] = 2)
      /\ Searchable /\ AllFound /\ out = <<>>
  BY <1>1, RecurseFacts DEF IInv, Phase, AtRecurse, Walking
<1>3. Len(pp) = n /\ \A p \in Port : \E k \in 1..n : pp[k] = p
  BY <1>2, SearchableFacts DEF Permuted
<1>4. /\ Port' = Port /\ Net' = Net /\ (AllFound' <=> AllFound) /\ (Searchable' <=> Searchable)
  BY <1>1, Stable
<1>5. \A k \in 1..n : k < i + 1 => recursed[pp[k]] = 2
  <2>1. \A k \in 1..n : k < i + 1 => k < i \/ k = i
    BY <1>2
  <2> QED
    BY <1>1, <1>2, <2>1
<1> HIDE DEF T
<1>6. CASE i < n
  <2>1. i' = i + 1 /\ pc' = "recurse"
    BY <1>1, <1>3, <1>6 DEF NextPort, Turn
  <2>2. i' \in 1..n /\ i' \in Nat
    BY <1>2, <1>6, <2>1
  <2>3. Tabled' /\ i' \in Port'
    BY <1>1, <1>2, <1>4, <2>2 DEF Tabled
  <2>4. Walking'
    BY <1>1, <1>2, <1>4 DEF Walking
  <2>5. AtRecurse'
    BY <1>1, <1>5, <2>1, <2>3, <2>4 DEF AtRecurse
  <2> QED
    BY <2>1, <2>3, <2>5 DEF IInv, Phase
<1>7. CASE ~(i < n)
  <2>1. i' = 1 /\ pc' = "print"
    BY <1>1, <1>3, <1>7 DEF NextPort, Turn
  <2>2. i' \in 1..n /\ i' \in Nat
    BY <1>2, <1>7, <2>1
  <2>3. Tabled' /\ i' \in Port'
    BY <1>1, <1>2, <1>4, <2>2 DEF Tabled
  <2>4. \A p \in Port : recursed[p] = 2
    <3>1. \A k \in 1..n : k < i + 1
      BY <1>2, <1>7
    <3> QED
      BY <1>3, <1>5, <3>1
  <2>5. \A p \in Port : ~Looping(Net, p) /\ \A l \in List : Full(p, l, dep[p][l])
    BY <1>2, <2>4, FullFacts
  <2>6. \A p \in Port' : ~Looping(Net', p)
    BY <1>4, <2>5
  <2>7. out' \in Seq(IndexLine)' /\ Len(out') = 0
    BY <1>1, <1>2
  <2>8. i' - 1 = 0
    BY <2>1
  <2>9. Printing(i - 1)'
    BY <1>1, <1>2, <1>4, <2>6, <2>7, <2>8 DEF Printing
  <2>10. ASSUME NEW k \in 1..n, NEW l \in List
         PROVE  Full(pp[k], l, dep[pp[k]][l])'
    <3> DEFINE p == pp[k]
    <3>1. Full(p, l, dep[p][l])
      BY <1>2, <2>5
    <3> QED
      BY <1>1, <1>4, <3>1 DEF Full
  <2>11. AtPrint'
    BY <1>1, <2>3, <2>9, <2>10 DEF AtPrint
  <2> QED
    BY <2>1, <2>3, <2>11 DEF IInv, Phase
<1> QED
  BY <1>6, <1>7

\* sortpkgs leaves a full list full.
LEMMA SortedList ==
    ASSUME Searchable, NEW p, NEW l, NEW s, Full(p, l, s)
    PROVE  LET t == HeapSort(s, NameOf)
           IN  t \in Seq(Port) /\ Full(p, l, t) /\ Ordered(t, NameOf)
<1> DEFINE t == HeapSort(s, NameOf)
           V == Port
<1>1. V \subseteq Nat /\ NameOf \in [V -> Nat]
  BY LineFacts DEF Searchable
<1>2. s \in Seq(V) /\ Range(s) = Reached(Net, Range(Net[p][l]))
      /\ (IsInjective(file[p][l]) => IsInjective(s))
  BY DEF Full
<1> HIDE DEF V
<1>3. /\ t \in Seq(V) /\ Rearranged(s, t, Len(s))
      /\ \A a, b \in 1..Len(s) : a < b => NameOf[t[a]] <= NameOf[t[b]]
  BY <1>1, <1>2, HeapSortFacts
<1> HIDE DEF t
<1>4. Len(t) = Len(s) /\ (IsInjective(s) => IsInjective(t))
      /\ (\A c \in 1..Len(s) : \E a \in 1..Len(s) : t[c] = s[a])
      /\ (\A a \in 1..Len(s) : \E c \in 1..Len(s) : s[a] = t[c])
  BY <1>3 DEF Rearranged
<1>5. Range(s) = {s[c] : c \in 1..Len(s)} /\ Range(t) = {t[c] : c \in 1..Len(t)}
  BY <1>2, <1>3, SeqRange
<1>6. Range(t) = Range(s)
  BY <1>4, <1>5
<1>7. Ordered(t, NameOf)
  BY <1>3, <1>4 DEF Ordered
<1>8. Full(p, l, t)
  BY <1>2, <1>3, <1>4, <1>6 DEF Full, V
<1> QED
  BY <1>3, <1>7, <1>8 DEF t, V

\* What printport prints of the port at i.
LEMMA PrintedNext ==
    ASSUME Searchable, AtPrint, PrintPort
    PROVE  LET p == pp[i]
               sorted == [l \in List |-> HeapSort(dep[p][l], NameOf)]
           IN  /\ dep' = [dep EXCEPT ![p] = sorted]
               /\ out' = Append(out, [port |-> p, lists |-> sorted])
               /\ p \in Port /\ sorted \in [List -> Seq(Port)]
               /\ \A l \in List : Full(p, l, sorted[l]) /\ Ordered(sorted[l], NameOf)
<1> DEFINE p == pp[i]
           sorted == [l \in List |-> HeapSort(dep[p][l], NameOf)]
<1>1. dep' = [dep EXCEPT ![p] = sorted] /\ out' = Append(out, [port |-> p, lists |-> sorted])
  BY DEF PrintPort
<1>2. i \in 1..Len(file) /\ p \in Port /\ i >= i
  BY SearchableFacts DEF AtPrint
<1>3. \A l \in List : Full(p, l, dep[p][l])
  BY <1>2 DEF AtPrint
<1>4. \A l \in List : LET t == HeapSort(dep[p][l], NameOf)
                      IN  t \in Seq(Port) /\ Full(p, l, t) /\ Ordered(t, NameOf)
  BY <1>3, SortedList
<1> HIDE DEF p
<1>5. \A l \in List : sorted[l] = HeapSort(dep[p][l], NameOf)
  OBVIOUS
<1>6. sorted \in [List -> Seq(Port)]
  BY <1>4
<1> HIDE DEF sorted
<1>7. \A l \in List : Full(p, l, sorted[l]) /\ Ordered(sorted[l], NameOf)
  BY <1>4, <1>5
<1> QED
  BY <1>1, <1>2, <1>6, <1>7 DEF p, sorted

\* A line added to the INDEX.
LEMMA LinePrinted ==
    ASSUME NEW m \in Nat, NEW L, NEW s \in Seq(L), Len(s) = m - 1, NEW e \in L
    PROVE  /\ Append(s, e) \in Seq(L) /\ Len(Append(s, e)) = m
           /\ Append(s, e)[m] = e /\ \A k \in 1..m - 1 : Append(s, e)[k] = s[k]
OBVIOUS

\* Step 5, one port after the other.
LEMMA PrintPortKeeps ==
    ASSUME IInv, PrintPort
    PROVE  IInv'
<1> DEFINE n == Len(file)
           p == pp[i]
           sorted == [l \in List |-> HeapSort(dep[p][l], NameOf)]
           line == [port |-> p, lists |-> sorted]
<1>1. /\ pc = "print" /\ file' = file /\ pp' = pp /\ count' = count
      /\ recursed' = recursed /\ stack' = stack
  BY DEF PrintPort
<1>2. Tabled /\ AtPrint
  BY <1>1 DEF IInv, Phase
<1>3. /\ i \in Port /\ Searchable /\ AllFound /\ stack = <<>>
      /\ (\A q \in Port : ~Looping(Net, q))
      /\ out \in Seq(IndexLine) /\ Len(out) = i - 1 /\ \A k \in 1..i - 1 : Printed(k)
  BY <1>2 DEF AtPrint, Printing
<1>4. /\ n \in Nat /\ Port = 1..n /\ Len(pp) = n /\ \A k \in 1..n : pp[k] \in Port
      /\ \A j, k \in 1..n : pp[j] = pp[k] => j = k
  BY <1>3, SearchableFacts DEF Searchable, Permuted
<1>5. /\ dep' = [dep EXCEPT ![p] = sorted] /\ out' = Append(out, line)
      /\ p \in Port /\ sorted \in [List -> Seq(Port)]
      /\ \A l \in List : Full(p, l, sorted[l]) /\ Ordered(sorted[l], NameOf)
  BY <1>2, <1>3, PrintedNext
<1>6. /\ Port' = Port /\ Net' = Net /\ NameOf' = NameOf
      /\ (AllFound' <=> AllFound) /\ (Searchable' <=> Searchable)
  BY <1>1, Stable
<1> HIDE DEF sorted, p
<1>7. line \in IndexLine
  BY <1>5 DEF IndexLine
<1>8. line.port = p /\ line.lists = sorted
  OBVIOUS
<1> HIDE DEF line
<1>9. /\ out' \in Seq(IndexLine) /\ Len(out') = i
      /\ out'[i] = line /\ \A k \in 1..i - 1 : out'[k] = out[k]
  <2> DEFINE L == IndexLine
  <2>1. i \in Nat /\ out \in Seq(L) /\ line \in L
    BY <1>3, <1>4, <1>7
  <2> HIDE DEF L
  <2>2. /\ Append(out, line) \in Seq(L) /\ Len(Append(out, line)) = i
        /\ Append(out, line)[i] = line /\ \A k \in 1..i - 1 : Append(out, line)[k] = out[k]
    BY <1>3, <2>1, LinePrinted
  <2> QED
    BY <1>5, <2>2 DEF L
<1>10. ASSUME NEW k \in 1..i PROVE Printed(k)'
  <2>1. CASE k = i
    <3>1. out'[k].port = pp[k] /\ out'[k].lists = sorted
      BY <1>8, <1>9, <2>1 DEF p
    <3>2. \A l \in List : Full(pp[k], l, sorted[l]) /\ Ordered(sorted[l], NameOf)
      BY <1>5, <2>1 DEF p
    <3> QED
      BY <1>1, <1>6, <3>1, <3>2 DEF Printed, Full, Ordered
  <2>2. CASE k # i
    <3>1. k \in 1..i - 1
      BY <1>3, <1>4, <2>2
    <3>2. out'[k] = out[k] /\ Printed(k)
      BY <1>3, <1>9, <3>1
    <3> QED
      BY <1>1, <1>6, <3>2 DEF Printed, Full, Ordered
  <2> QED
    BY <2>1, <2>2
<1>11. /\ Searchable' /\ AllFound' /\ stack' = <<>> /\ \A q \in Port' : ~Looping(Net', q)
       /\ out' \in Seq(IndexLine') /\ Len(out') = i /\ \A k \in 1..i : Printed(k)'
  <2>1. IndexLine' = IndexLine
    BY <1>6 DEF IndexLine
  <2> QED
    BY <1>1, <1>3, <1>6, <1>9, <1>10, <2>1
<1>12. dep' \in [Port -> [List -> Seq(Dir \cup Port)]]
  <2> DEFINE A == Seq(Dir \cup Port)
             B == Seq(Port)
  <2>1. B \subseteq A
    BY Wider
  <2>2. sorted \in [List -> B] /\ dep \in [Port -> [List -> A]]
    BY <1>2, <1>5 DEF Tabled
  <2> HIDE DEF A, B
  <2>3. dep' \in [Port -> [List -> A]]
    BY <1>5, <2>1, <2>2
  <2> QED
    BY <2>3 DEF A
<1>13. CASE i < n
  <2>1. i' = i + 1 /\ pc' = "print"
    BY <1>1, <1>4, <1>13 DEF PrintPort, Turn
  <2>2. i' \in 1..n /\ i' \in Nat /\ i' - 1 = i
    BY <1>3, <1>4, <1>13, <2>1
  <2>3. Tabled' /\ i' \in Port'
    BY <1>1, <1>2, <1>4, <1>6, <1>12, <2>2 DEF Tabled
  <2>4. Printing(i - 1)'
    BY <1>11, <2>2 DEF Printing
  <2>5. ASSUME NEW k \in 1..n, k >= i', NEW l \in List
        PROVE  Full(pp[k], l, dep[pp[k]][l])'
    <3>1. k # i /\ k >= i /\ i \in 1..n
      BY <1>3, <1>4, <2>1, <2>5
    <3>2. pp[k] # p /\ pp[k] \in Port
      BY <1>4, <3>1 DEF p
    <3>3. dep'[pp[k]] = dep[pp[k]]
      BY <1>2, <1>5, <3>2 DEF Tabled
    <3>4. Full(pp[k], l, dep[pp[k]][l])
      BY <1>2, <3>1 DEF AtPrint
    <3> QED
      BY <1>1, <1>6, <3>3, <3>4 DEF Full
  <2>6. AtPrint'
    BY <1>1, <2>3, <2>4, <2>5 DEF AtPrint
  <2> QED
    BY <2>1, <2>3, <2>6 DEF IInv, Phase
<1>14. CASE ~(i < n)
  <2>1. i' = 1 /\ pc' = "ok" /\ i = n
    BY <1>1, <1>3, <1>4, <1>14 DEF PrintPort, Turn
  <2>2. Tabled'
    BY <1>1, <1>2, <1>6, <1>12, <2>1 DEF Tabled
  <2>3. Printing(Len(file))'
    BY <1>1, <1>11, <2>1 DEF Printing
  <2> QED
    BY <2>1, <2>2, <2>3 DEF IInv, Phase
<1> QED
  BY <1>13, <1>14

-----------------------------------------------------------------------------
(* Every step, and the theorems. *)
\* Nothing changes.
LEMMA StutterKeeps ==
    ASSUME IInv, UNCHANGED vars
    PROVE  IInv'
<1>1. /\ file' = file /\ pc' = pc /\ i' = i /\ pp' = pp /\ dep' = dep /\ count' = count
      /\ recursed' = recursed /\ stack' = stack /\ out' = out
  BY DEF vars
<1>2. /\ Port' = Port /\ DirOf' = DirOf /\ NameOf' = NameOf /\ Net' = Net
      /\ (AllFound' <=> AllFound) /\ (Searchable' <=> Searchable) /\ (Permuted' <=> Permuted)
  BY <1>1, Stable
<1>3. Tabled'
  BY <1>1, <1>2 DEF IInv, Tabled
<1>4. (Idle' <=> Idle) /\ (Counted' <=> Counted) /\ (Walking' <=> Walking)
  BY <1>1, <1>2 DEF Idle, Counted, Walking
<1>5. \A p : (AsRead(p)' <=> AsRead(p)) /\ (Translated(p)' <=> Translated(p))
  <2>1. \A s : FoundAll(s)' <=> FoundAll(s)
    BY <1>1, <1>2 DEF FoundAll, FindPort
  <2> QED
    BY <1>1, <1>2, <2>1 DEF AsRead, Translated
<1>6. \A p, l, s : Full(p, l, s)' <=> Full(p, l, s)
  BY <1>1, FullStable
<1>7. \A n : Printing(n)' <=> Printing(n)
  <2>1. \A k : Printed(k)' <=> Printed(k)
    BY <1>1, <1>2 DEF Printed, Ordered, Full
  <2> QED
    BY <1>1, <1>2, <2>1 DEF Printing, IndexLine
<1>8. (AtRead' <=> AtRead) /\ (AtNoEntry' <=> AtNoEntry) /\ (AtRecurse' <=> AtRecurse)
  BY <1>1, <1>2, <1>4 DEF AtRead, AtNoEntry, AtRecurse
<1>9. AtLoop' <=> AtLoop
  BY <1>1, <1>2, <1>4 DEF AtLoop
<1>10. (AtSort' <=> AtSort) /\ (AtTranslate' <=> AtTranslate)
  BY <1>1, <1>2, <1>4, <1>5 DEF AtSort, AtTranslate, AsRead, Translated
<1>11. AtPrint' <=> AtPrint
  BY <1>1, <1>2, <1>6, <1>7 DEF AtPrint, Full, Printing
<1>12. Printing(Len(file))' <=> Printing(Len(file))
  BY <1>1, <1>7 DEF Printing
<1> QED
  BY <1>1, <1>3, <1>8, <1>9, <1>10, <1>11, <1>12 DEF IInv, Phase

\* Every step of make_index keeps the invariant.
LEMMA StepKeeps ==
    ASSUME IInv, [Next]_vars
    PROVE  IInv'
<1>1. CASE Read
  BY <1>1, ReadKeeps
<1>2. CASE ReadFails
  BY <1>2, ReadFailsKeeps
<1>3. CASE Sort
  BY <1>3, SortKeeps
<1>4. CASE Translate
  BY <1>4, TranslateKeeps
<1>5. CASE TranslateFails
  BY <1>5, TranslateFailsKeeps
<1>6. CASE RecursePort
  BY <1>6, RecursePortKeeps
<1>7. CASE NextPort
  BY <1>7, NextPortKeeps
<1>8. ASSUME NEW q \in Port, Descend(q) PROVE IInv'
  BY <1>8, DescendKeeps
<1>9. ASSUME NEW q \in Port, Circular(q) PROVE IInv'
  BY <1>9, CircularKeeps
<1>10. ASSUME NEW q \in Port, Extend(q) PROVE IInv'
  BY <1>10, ExtendStepKeeps
<1>11. CASE EndList
  BY <1>11, EndListStepKeeps
<1>12. CASE Return
  BY <1>12, ReturnStepKeeps
<1>13. CASE PrintPort
  BY <1>13, PrintPortKeeps
<1>14. CASE UNCHANGED vars
  BY <1>14, StutterKeeps
<1> QED
  BY <1>1, <1>2, <1>3, <1>4, <1>5, <1>6, <1>7, <1>8, <1>9, <1>10, <1>11, <1>12, <1>13, <1>14
  DEF Next, Step, Exited

\* The inductive invariant: at each step of main, what the tables, the stack and
\* the INDEX hold of the describe file.
THEOREM InvariantHolds == Spec => []IInv
BY Starts, StepKeeps, PTL DEF Spec

\* Every variable keeps its type, for any describe file: the loop counters and
\* the stack stay within the number of ports.
THEOREM TypeCorrect == Spec => []TypeOK
BY InvariantHolds, StateIsTyped, PTL

\* recurse_one never writes past the end of the array that it extends, however
\* often it is doubled.
THEOREM RoomEnough == Spec => []NoOverrun
BY InvariantHolds, RoomIsEnough, PTL

\* make_index reports a missing entry exactly if a list names a directory that no
\* line describes, a loop exactly if a port needs itself, and prints the INDEX
\* otherwise.
THEOREM EndsRight == Spec => []RightEnd
BY InvariantHolds, EndIsRight, PTL

\* The INDEX has a line for every port in the order of the directories, and its
\* lists hold exactly what is reached along run dependencies, in the order of
\* the names.
THEOREM IndexRight == Spec => []RightIndex
BY InvariantHolds, IndexIsRight, PTL
=============================================================================
