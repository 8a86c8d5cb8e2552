---------------------------- MODULE TasksProofs ----------------------------
(***************************************************************************)
(* The scheduler of os.c for every pool size, every set of tasks and every *)
(* order in which poll functions create, end and finish tasks: the task    *)
(* list is sound while OsTick walks it, and a walk goes down the           *)
(* priorities.                                                             *)
(*                                                                         *)
(* The first part is about LinkedList, which the timers share: the loop    *)
(* over a NULL-terminated list visits its slots in order, ListRemove takes *)
(* one out, and the insertion loop puts one in where the order wants it.   *)
(* The order is made explicit as a numbering q of the m slots of the list; *)
(* no such thing exists in the code.                                       *)
(***************************************************************************)
EXTENDS Tasks, WellFoundedInduction, TLAPS

(* The time each step may take. *)
USE SMTT(30), ZenonT(40)

-----------------------------------------------------------------------------

Pointers(n) == 1 .. n \cup {NULL}
Pools(n)    == [1 .. n -> [next : Pointers(n), previous : Pointers(n)]]

(* q enumerates the slots S of the list from 1 to m in the order of links. *)
Enumerates(link, start, S, q, m) ==
  /\ q \in [1 .. m -> S]
  /\ \A i, j \in 1 .. m : q[i] = q[j] => i = j
  /\ \A s \in S : \E i \in 1 .. m : q[i] = s
  /\ start = IF m = 0 THEN NULL ELSE q[1]
  /\ \A i \in 1 .. m : /\ link[q[i]].next = IF i = m THEN NULL ELSE q[i + 1]
                       /\ link[q[i]].previous = IF i = 1 THEN NULL ELSE q[i - 1]

(* The keys do not decrease along the list. *)
Sorted(q, m, key) == \A i, j \in 1 .. m : i <= j => key[q[i]] <= key[q[j]]

(* The slots S are linked from start, in the order of their keys. *)
IsList(link, start, S, key) ==
  \E m \in Nat : \E q \in [1 .. m -> S] : Enumerates(link, start, S, q, m) /\ Sorted(q, m, key)

-----------------------------------------------------------------------------
(* Induction, with sets in the place of predicates. *)

(* A set of naturals that is not empty has a least element. *)
LEMMA LeastNat ==
  ASSUME NEW T \in SUBSET Nat, T # {}
  PROVE  \E m \in T : \A k \in T : m <= k
<1> DEFINE R == OpToRel(<, Nat)
<1>1. PICK m \in T : \A k \in T : ~(<<k, m>> \in R)
  <2>1. IsWellFoundedOn(R, Nat)
    BY NatLessThanWellFounded, Zenon
  <2> HIDE DEF R
  <2> QED BY <2>1, WFMin, Zenon
<1>2. ASSUME NEW k \in T PROVE m <= k
  <2>1. k \in Nat /\ m \in Nat
    OBVIOUS
  <2>2. ~(k < m)
    BY <1>1, <2>1, Zenon DEF OpToRel
  <2> QED BY <2>1, <2>2
<1> QED BY <1>2

(* A set of naturals with 0 and every successor is all of them. *)
LEMMA SetInduction ==
  ASSUME NEW S \in SUBSET Nat, 0 \in S, \A n \in S : n + 1 \in S
  PROVE  S = Nat
<1> SUFFICES ASSUME Nat \ S # {} PROVE FALSE
  BY Zenon
<1>1. PICK m \in Nat \ S : \A k \in Nat \ S : m <= k
  BY LeastNat, Zenon
<1>2. m - 1 \in S
  BY <1>1
<1> QED BY <1>1, <1>2

(* No more than n pigeons have a hole each of n. *)
LEMMA Pigeonhole ==
  ASSUME NEW n \in Nat, NEW m \in Nat, NEW q \in [1 .. m -> 1 .. n],
         \A i, j \in 1 .. m : q[i] = q[j] => i = j
  PROVE  m <= n
<1> DEFINE Fits(k) == \A l \in Nat : \A f \in [1 .. l -> 1 .. k] :
                        (\A i, j \in 1 .. l : f[i] = f[j] => i = j) => l <= k
           S == {k \in Nat : Fits(k)}
<1>1. 0 \in S
  <2>1. ASSUME NEW l \in Nat, NEW f \in [1 .. l -> 1 .. 0] PROVE l <= 0
    <3> SUFFICES ASSUME 1 \in 1 .. l PROVE FALSE
      OBVIOUS
    <3>1. f[1] \in 1 .. 0
      OBVIOUS
    <3> QED BY <3>1
  <2> QED BY <2>1
<1>2. ASSUME NEW k \in S PROVE k + 1 \in S
  <2>1. ASSUME NEW l \in Nat, NEW f \in [1 .. l -> 1 .. k + 1], l > 0,
               \A i, j \in 1 .. l : f[i] = f[j] => i = j
        PROVE  l <= k + 1
    <3> DEFINE g == [i \in 1 .. l - 1 |-> IF f[i] = k + 1 THEN f[l] ELSE f[i]]
    <3>1. l - 1 \in Nat /\ l \in 1 .. l /\ 1 .. l - 1 \subseteq 1 .. l
      BY <2>1
    <3>2. ASSUME NEW i \in 1 .. l - 1 PROVE g[i] \in 1 .. k
      <4>1. i \in 1 .. l /\ i # l /\ f[i] \in 1 .. k + 1 /\ f[l] \in 1 .. k + 1
        BY <3>1
      <4>2. f[i] # f[l]
        BY <2>1, <3>1, <4>1
      <4> QED BY <4>1, <4>2
    <3>3. ASSUME NEW i \in 1 .. l - 1, NEW j \in 1 .. l - 1, g[i] = g[j] PROVE i = j
      <4>1. i \in 1 .. l /\ j \in 1 .. l /\ i # l /\ j # l
        BY <3>1
      <4>2. f[i] # f[l] /\ f[j] # f[l] /\ (f[i] = f[j] => i = j)
        BY <2>1, <3>1, <4>1
      <4> QED BY <3>3, <4>2
    <3>4. g \in [1 .. l - 1 -> 1 .. k]
      BY <3>2
    <3>5. l - 1 <= k
      <4> HIDE DEF g
      <4>1. Fits(k)
        BY Zenon
      <4> QED BY <3>1, <3>3, <3>4, <4>1, Zenon
    <3> QED BY <3>5
  <2>2. Fits(k + 1)
    <3>1. ASSUME NEW l \in Nat, NEW f \in [1 .. l -> 1 .. k + 1],
                 \A i, j \in 1 .. l : f[i] = f[j] => i = j
          PROVE  l <= k + 1
      <4>1. CASE l = 0
        BY <4>1
      <4>2. CASE l > 0
        BY <3>1, <4>2, <2>1, Zenon
      <4> QED BY <4>1, <4>2
    <3> QED BY <3>1, Zenon
  <2> QED BY <2>2
<1>3. S = Nat
  <2>1. S \in SUBSET Nat
    OBVIOUS
  <2> HIDE DEF S
  <2> QED BY <1>1, <1>2, <2>1, SetInduction, Zenon
<1>4. Fits(n)
  BY <1>3, Zenon
<1> QED BY <1>4

-----------------------------------------------------------------------------
(* The loop over the list. *)

(* One more iteration of the loop. *)
After(link, s) == IF s = NULL THEN NULL ELSE link[s].next

(* The recursive function Visit exists: a loop over links goes on from any *)
(* slot to the next, or stays at NULL.                                     *)
LEMMA VisitDef ==
  ASSUME NEW link, NEW start, NEW n \in Nat
  PROVE  /\ DOMAIN Visit(link, start, n) = 0 .. n
         /\ Visit(link, start, n)[0] = start
         /\ \A k \in 1 .. n : Visit(link, start, n)[k] = After(link, Visit(link, start, n)[k - 1])
<1> DEFINE Body(f, k) == IF k = 0 THEN start
                          ELSE IF f[k - 1] = NULL THEN NULL
                          ELSE link[f[k - 1]].next
           Is(f, m) == f = [k \in 0 .. m |-> Body(f, k)]
           S == {m \in Nat : \E f : Is(f, m)}
<1>1. 0 \in S
  <2>1. Is([k \in 0 .. 0 |-> start], 0)
    OBVIOUS
  <2> QED BY <2>1, Zenon
<1>2. ASSUME NEW m \in S PROVE m + 1 \in S
  <2>1. PICK f : Is(f, m)
    OBVIOUS
  <2> DEFINE g == [k \in 0 .. m + 1 |-> IF k = m + 1 THEN After(link, f[m]) ELSE f[k]]
  <2>2. \A k \in 0 .. m + 1 : g[k] = Body(g, k)
    <3>1. \A k \in 0 .. m : f[k] = Body(f, k)
      BY <2>1
    <3> QED BY <3>1 DEF After
  <2>3. Is(g, m + 1)
    BY <2>2
  <2>4. m + 1 \in Nat
    OBVIOUS
  <2> QED BY <2>3, <2>4, Zenon
<1>3. S = Nat
  <2>1. S \in SUBSET Nat
    OBVIOUS
  <2> HIDE DEF S
  <2> QED BY <1>1, <1>2, <2>1, SetInduction
<1>4. PICK f : Is(f, n)
  BY <1>3, Zenon
<1>5. Is(Visit(link, start, n), n)
  BY <1>4, Zenon DEF Visit
<1> DEFINE v == Visit(link, start, n)
<1>6. DOMAIN v = 0 .. n /\ \A k \in 0 .. n : v[k] = Body(v, k)
  BY <1>5, Zenon
<1> HIDE DEF v
<1>7. v[0] = start /\ \A k \in 1 .. n : v[k] = After(link, v[k - 1])
  BY <1>6 DEF After
<1> QED BY <1>6, <1>7 DEF v

(* A list in a pool of n slots has at most n. *)
LEMMA ListFits ==
  ASSUME NEW n \in Nat, NEW S \in SUBSET (1 .. n), NEW m \in Nat, NEW q \in [1 .. m -> S],
         \A i, j \in 1 .. m : q[i] = q[j] => i = j
  PROVE  m <= n
<1>1. q \in [1 .. m -> 1 .. n]
  BY Zenon
<1> QED BY <1>1, Pigeonhole, Zenon

(* The k-th iteration of the loop finds the slot numbered k + 1. *)
LEMMA VisitsInOrder ==
  ASSUME NEW n \in Nat, NEW S \in SUBSET (1 .. n), NEW m \in Nat, m <= n,
         NEW q, NEW link, NEW start, Enumerates(link, start, S, q, m)
  PROVE  \A k \in 0 .. n : Visit(link, start, n)[k] = IF k < m THEN q[k + 1] ELSE NULL
<1> DEFINE v == Visit(link, start, n)
           Good == {k \in Nat : k <= n => v[k] = IF k < m THEN q[k + 1] ELSE NULL}
<1>1. v[0] = start /\ \A k \in 1 .. n : v[k] = After(link, v[k - 1])
  BY VisitDef
<1> HIDE DEF v
<1>2. 0 \in Good
  BY <1>1 DEF Enumerates
<1>3. ASSUME NEW k \in Good PROVE k + 1 \in Good
  <2> SUFFICES ASSUME k + 1 <= n
               PROVE  v[k + 1] = IF k + 1 < m THEN q[k + 2] ELSE NULL
    OBVIOUS
  <2>1. v[k + 1] = After(link, v[k])
    BY <1>1
  <2>2. v[k] = IF k < m THEN q[k + 1] ELSE NULL
    OBVIOUS
  <2>3. CASE k < m
    <3>1. k + 1 \in 1 .. m
      BY <2>3
    <3>2. q[k + 1] \in 1 .. n
      BY <3>1, Zenon DEF Enumerates
    <3>3. link[q[k + 1]].next = IF k + 1 = m THEN NULL ELSE q[(k + 1) + 1]
      BY <3>1 DEF Enumerates
    <3> QED BY <2>1, <2>2, <2>3, <3>2, <3>3 DEF After, NULL
  <2>4. CASE ~(k < m)
    BY <2>1, <2>2, <2>4 DEF After
  <2> QED BY <2>3, <2>4
<1>4. Good = Nat
  <2>1. Good \in SUBSET Nat
    OBVIOUS
  <2> HIDE DEF Good
  <2> QED BY <1>2, <1>3, <2>1, SetInduction
<1>5. \A k \in 0 .. n : v[k] = IF k < m THEN q[k + 1] ELSE NULL
  BY <1>4
<1> QED BY <1>5 DEF v

(* The loop ends, and has then seen every slot of the list and no other. *)
LEMMA LoopSeesAll ==
  ASSUME NEW n \in Nat, NEW S \in SUBSET (1 .. n), NEW link, NEW start, NEW key,
         IsList(link, start, S, key)
  PROVE  /\ Terminated(link, start, n) /\ Reachable(link, start, n) = S
         /\ \A k \in 0 .. n : Visit(link, start, n)[k] \in S \cup {NULL}
<1>1. PICK m \in Nat : \E q \in [1 .. m -> S] : Enumerates(link, start, S, q, m)
  BY DEF IsList
<1>2. PICK q \in [1 .. m -> S] : Enumerates(link, start, S, q, m)
  BY <1>1
<1>3. m <= n
  BY <1>2, ListFits, Zenon DEF Enumerates
<1> DEFINE v == Visit(link, start, n)
<1>4. \A k \in 0 .. n : v[k] = IF k < m THEN q[k + 1] ELSE NULL
  BY <1>2, <1>3, VisitsInOrder, Zenon
<1> HIDE DEF v
<1>5. v[n] = NULL
  BY <1>3, <1>4
<1>6. {v[k] : k \in 0 .. n} \ {NULL} = S
  <2>1. ASSUME NEW s \in S PROVE s \in {v[k] : k \in 0 .. n} \ {NULL}
    <3>1. PICK i \in 1 .. m : q[i] = s
      BY <1>2, Zenon DEF Enumerates
    <3>2. i - 1 \in 0 .. n /\ v[i - 1] = s
      BY <1>3, <1>4, <3>1
    <3> QED BY <3>2 DEF NULL
  <2>2. ASSUME NEW k \in 0 .. n, v[k] # NULL PROVE v[k] \in S
    BY <1>4, <2>2
  <2> QED BY <2>1, <2>2, Zenon
<1>7. \A k \in 0 .. n : v[k] \in S \cup {NULL}
  BY <1>4
<1> QED BY <1>5, <1>6, <1>7 DEF Terminated, Reachable, v

(* Neighbours know each other, in order, and only the first has none before it. *)
WellLinked(link, start, S, key) ==
  \A s \in S : /\ link[s].next # NULL =>
                    /\ link[s].next \in S
                    /\ link[link[s].next].previous = s
                    /\ key[s] <= key[link[s].next]
               /\ link[s].previous = NULL <=> s = start

(* A list is doubly linked. *)
LEMMA DoublyLinked ==
  ASSUME NEW n \in Nat, NEW S \in SUBSET (1 .. n), NEW link, NEW start, NEW key,
         IsList(link, start, S, key)
  PROVE  WellLinked(link, start, S, key)
<1>1. PICK m \in Nat : \E q \in [1 .. m -> S] : Enumerates(link, start, S, q, m) /\ Sorted(q, m, key)
  BY DEF IsList
<1>2. PICK q \in [1 .. m -> S] : Enumerates(link, start, S, q, m) /\ Sorted(q, m, key)
  BY <1>1
<1> SUFFICES ASSUME NEW i \in 1 .. m
             PROVE  /\ link[q[i]].next # NULL =>
                         /\ link[q[i]].next \in S
                         /\ link[link[q[i]].next].previous = q[i]
                         /\ key[q[i]] <= key[link[q[i]].next]
                    /\ link[q[i]].previous = NULL <=> q[i] = start
  BY <1>2 DEF Enumerates, WellLinked
<1>3. CASE i = m
  <2>1. link[q[i]].next = NULL
    BY <1>2, <1>3 DEF Enumerates
  <2>2. link[q[i]].previous = NULL <=> q[i] = start
    BY <1>2, <1>3 DEF Enumerates, NULL
  <2> QED BY <2>1, <2>2
<1>4. CASE i # m
  <2>1. i + 1 \in 1 .. m /\ link[q[i]].next = q[i + 1] /\ link[q[i + 1]].previous = q[i]
    BY <1>2, <1>4 DEF Enumerates
  <2>2. key[q[i]] <= key[q[i + 1]]
    BY <1>2, <2>1 DEF Sorted
  <2>3. link[q[i]].previous = NULL <=> q[i] = start
    BY <1>2, <1>4 DEF Enumerates, NULL
  <2> QED BY <2>1, <2>2, <2>3
<1> QED BY <1>3, <1>4

(* The first slot has the least key. *)
LEMMA FirstIsLeast ==
  ASSUME NEW n \in Nat, NEW S \in SUBSET (1 .. n), NEW link, NEW start, NEW key,
         IsList(link, start, S, key)
  PROVE  /\ start = NULL <=> S = {}
         /\ start # NULL => start \in S /\ \A s \in S : key[start] <= key[s]
<1>1. PICK m \in Nat : \E q \in [1 .. m -> S] : Enumerates(link, start, S, q, m) /\ Sorted(q, m, key)
  BY DEF IsList
<1>2. PICK q \in [1 .. m -> S] : Enumerates(link, start, S, q, m) /\ Sorted(q, m, key)
  BY <1>1
<1>3. CASE m = 0
  BY <1>2, <1>3 DEF Enumerates
<1>4. CASE m # 0
  <2>1. 1 \in 1 .. m /\ start = q[1] /\ start \in S /\ start # NULL
    BY <1>2, <1>4 DEF Enumerates, NULL
  <2>2. ASSUME NEW s \in S PROVE key[start] <= key[s]
    <3>1. PICK i \in 1 .. m : q[i] = s
      BY <1>2 DEF Enumerates
    <3> QED BY <1>2, <2>1, <3>1 DEF Sorted
  <2> QED BY <2>1, <2>2
<1> QED BY <1>3, <1>4

(* A list is one of its slots' links and keys only. *)
LEMMA SameLinks ==
  ASSUME NEW S, NEW link, NEW start, NEW key, NEW link2, NEW key2, IsList(link, start, S, key),
         \A s \in S : link2[s] = link[s] /\ key2[s] = key[s]
  PROVE  IsList(link2, start, S, key2)
<1>1. PICK m \in Nat : \E q \in [1 .. m -> S] : Enumerates(link, start, S, q, m) /\ Sorted(q, m, key)
  BY DEF IsList
<1>2. PICK q \in [1 .. m -> S] : Enumerates(link, start, S, q, m) /\ Sorted(q, m, key)
  BY <1>1
<1>3. Enumerates(link2, start, S, q, m)
  <2>1. \A i \in 1 .. m : link2[q[i]] = link[q[i]]
    OBVIOUS
  <2> QED BY <1>2, <2>1, Zenon DEF Enumerates
<1>4. Sorted(q, m, key2)
  BY <1>2 DEF Sorted
<1> QED BY <1>3, <1>4 DEF IsList

-----------------------------------------------------------------------------
(* What ListRemove writes: the neighbours of item are joined. *)
LEMMA RemoveWrites ==
  ASSUME NEW n \in Nat, NEW link \in Pools(n), NEW item \in 1 .. n
  PROVE  /\ ListRemove(link, item) \in Pools(n)
         /\ \A s \in 1 .. n :
              /\ ListRemove(link, item)[s].next =
                   IF s = link[item].previous THEN link[item].next ELSE link[s].next
              /\ ListRemove(link, item)[s].previous =
                   IF s = link[item].next THEN link[item].previous ELSE link[s].previous
<1> DEFINE prev == link[item].previous
           nxt  == link[item].next
           joined == IF prev = NULL THEN link ELSE [link EXCEPT ![prev].next = nxt]
<1>1. prev \in 0 .. n /\ nxt \in 0 .. n
  BY DEF Pools, Pointers, NULL
<1>2. /\ joined \in Pools(n)
      /\ \A s \in 1 .. n : /\ joined[s].next = IF s = prev THEN nxt ELSE link[s].next
                           /\ joined[s].previous = link[s].previous
  BY <1>1 DEF Pools, Pointers, NULL
<1>3. ListRemove(link, item) = IF nxt = NULL THEN joined ELSE [joined EXCEPT ![nxt].previous = prev]
  BY DEF ListRemove
<1> HIDE DEF joined
<1> QED BY <1>1, <1>2, <1>3 DEF Pools, Pointers, NULL

(* Two slots with the same neighbours have the same links. *)
LEMMA SameRecord ==
  ASSUME NEW n \in Nat, NEW a \in Pools(n), NEW b \in Pools(n), NEW s \in 1 .. n,
         a[s].next = b[s].next, a[s].previous = b[s].previous
  PROVE  a[s] = b[s]
<1>1. /\ a[s] \in [next : Pointers(n), previous : Pointers(n)]
      /\ b[s] \in [next : Pointers(n), previous : Pointers(n)]
  BY DEF Pools
<1> QED BY <1>1

(* The slots outside S have the same links. *)
KeepsOthers(link, new, n, S) == \A s \in 1 .. n : s \notin S => new[s] = link[s]

(* Linked(link, new, n, item, prev, nxt): new is link with item put between prev and nxt. *)
Linked(link, new, n, item, prev, nxt) ==
  /\ new \in Pools(n)
  /\ \A s \in 1 .. n :
       /\ new[s].next = IF s = item THEN nxt ELSE IF s = prev THEN item ELSE link[s].next
       /\ new[s].previous = IF s = item THEN prev ELSE IF s = nxt THEN item ELSE link[s].previous

(* What ListInsertAfter writes. *)
LEMMA InsertAfterWrites ==
  ASSUME NEW n \in Nat, NEW link \in Pools(n), NEW item \in 1 .. n, NEW current \in 1 .. n,
         item # current, link[current].next # item
  PROVE  Linked(link, ListInsertAfter(link, item, current), n, item, current, link[current].next)
<1> DEFINE nxt == link[current].next
           linked == [link EXCEPT ![item] = [next |-> nxt, previous |-> current]]
           after  == [linked EXCEPT ![current].next = item]
<1>1. nxt \in 0 .. n
  BY DEF Pools, Pointers, NULL
<1>2. /\ linked \in Pools(n)
      /\ \A s \in 1 .. n : /\ linked[s].next = IF s = item THEN nxt ELSE link[s].next
                           /\ linked[s].previous = IF s = item THEN current ELSE link[s].previous
  BY <1>1 DEF Pools, Pointers, NULL
<1>3. ListInsertAfter(link, item, current) =
        IF after[item].next = NULL THEN after ELSE [after EXCEPT ![after[item].next].previous = item]
  BY DEF ListInsertAfter
<1> HIDE DEF linked
<1>4. /\ after \in Pools(n)
      /\ \A s \in 1 .. n : /\ after[s].next = IF s = current THEN item ELSE linked[s].next
                           /\ after[s].previous = linked[s].previous
  BY <1>2 DEF Pools, Pointers, NULL
<1> HIDE DEF after
<1>5. after[item].next = nxt
  BY <1>2, <1>4
<1>6. CASE nxt = NULL
  BY <1>1, <1>2, <1>3, <1>4, <1>5, <1>6 DEF Linked, NULL
<1>7. CASE nxt # NULL
  <2> DEFINE new == [after EXCEPT ![nxt].previous = item]
  <2>1. /\ new \in Pools(n)
        /\ \A s \in 1 .. n : /\ new[s].next = after[s].next
                             /\ new[s].previous = IF s = nxt THEN item ELSE after[s].previous
    BY <1>1, <1>4, <1>7 DEF Pools, Pointers, NULL
  <2>2. ListInsertAfter(link, item, current) = new
    BY <1>3, <1>5, <1>7
  <2> HIDE DEF new
  <2>3. Linked(link, new, n, item, current, nxt)
    BY <1>2, <1>4, <2>1 DEF Linked
  <2> QED BY <2>2, <2>3
<1> QED BY <1>6, <1>7

(* What ListInsertBefore writes. *)
LEMMA InsertBeforeWrites ==
  ASSUME NEW n \in Nat, NEW link \in Pools(n), NEW item \in 1 .. n, NEW current \in 1 .. n,
         item # current, link[current].previous # item
  PROVE  Linked(link, ListInsertBefore(link, item, current), n, item, link[current].previous, current)
<1> DEFINE prev == link[current].previous
           linked == [link EXCEPT ![item] = [next |-> current, previous |-> prev]]
           before == [linked EXCEPT ![current].previous = item]
<1>1. prev \in 0 .. n
  BY DEF Pools, Pointers, NULL
<1>2. /\ linked \in Pools(n)
      /\ \A s \in 1 .. n : /\ linked[s].next = IF s = item THEN current ELSE link[s].next
                           /\ linked[s].previous = IF s = item THEN prev ELSE link[s].previous
  BY <1>1 DEF Pools, Pointers, NULL
<1>3. ListInsertBefore(link, item, current) =
        IF before[item].previous = NULL THEN before
        ELSE [before EXCEPT ![before[item].previous].next = item]
  BY DEF ListInsertBefore
<1> HIDE DEF linked
<1>4. /\ before \in Pools(n)
      /\ \A s \in 1 .. n : /\ before[s].next = linked[s].next
                           /\ before[s].previous = IF s = current THEN item ELSE linked[s].previous
  BY <1>2 DEF Pools, Pointers, NULL
<1> HIDE DEF before
<1>5. before[item].previous = prev
  BY <1>2, <1>4
<1>6. CASE prev = NULL
  BY <1>1, <1>2, <1>3, <1>4, <1>5, <1>6 DEF Linked, NULL
<1>7. CASE prev # NULL
  <2> DEFINE new == [before EXCEPT ![prev].next = item]
  <2>1. /\ new \in Pools(n)
        /\ \A s \in 1 .. n : /\ new[s].next = IF s = prev THEN item ELSE before[s].next
                             /\ new[s].previous = before[s].previous
    BY <1>1, <1>4, <1>7 DEF Pools, Pointers, NULL
  <2>2. ListInsertBefore(link, item, current) = new
    BY <1>3, <1>5, <1>7
  <2> HIDE DEF new
  <2>3. Linked(link, new, n, item, prev, current)
    BY <1>2, <1>4, <2>1 DEF Linked
  <2> QED BY <2>2, <2>3
<1> QED BY <1>6, <1>7

-----------------------------------------------------------------------------
(* ListRemove, with the owner's new start, takes item out and nothing else. *)
LEMMA RemoveKeeps ==
  ASSUME NEW n \in Nat, NEW S \in SUBSET (1 .. n), NEW link \in Pools(n), NEW start, NEW key,
         IsList(link, start, S, key), NEW item \in S
  PROVE  /\ IsList(ListRemove(link, item), IF item = start THEN link[item].next ELSE start,
                   S \ {item}, key)
         /\ KeepsOthers(link, ListRemove(link, item), n, S)
<1>1. PICK m \in Nat : \E q \in [1 .. m -> S] : Enumerates(link, start, S, q, m) /\ Sorted(q, m, key)
  BY DEF IsList
<1>2. PICK q \in [1 .. m -> S] : Enumerates(link, start, S, q, m) /\ Sorted(q, m, key)
  BY <1>1
<1>3. PICK p \in 1 .. m : q[p] = item
  BY <1>2 DEF Enumerates
<1> DEFINE new == ListRemove(link, item)
           rest == [i \in 1 .. m - 1 |-> IF i < p THEN q[i] ELSE q[i + 1]]
<1>4. \A i, j \in 1 .. m : q[i] = q[j] => i = j
  BY <1>2 DEF Enumerates
<1>5. rest \in [1 .. m - 1 -> S \ {item}] /\ m - 1 \in Nat
  BY <1>3, <1>4
<1>6. \A i \in 1 .. m - 1 : rest[i] = IF i < p THEN q[i] ELSE q[i + 1]
  OBVIOUS
<1> HIDE DEF rest
<1>7. \A i, j \in 1 .. m - 1 : rest[i] = rest[j] => i = j
  BY <1>4, <1>6
<1>8. ASSUME NEW s \in S \ {item} PROVE \E i \in 1 .. m - 1 : rest[i] = s
  <2>1. PICK i \in 1 .. m : q[i] = s
    BY <1>2 DEF Enumerates
  <2>2. CASE i < p
    <3>1. i \in 1 .. m - 1 /\ rest[i] = s
      BY <1>6, <2>1, <2>2
    <3> QED BY <3>1
  <2>3. CASE i > p
    <3>1. i - 1 \in 1 .. m - 1 /\ rest[i - 1] = s
      BY <1>6, <2>1, <2>3
    <3> QED BY <3>1
  <2> QED BY <1>3, <2>1, <2>2, <2>3
<1>9. /\ link[item].next = IF p = m THEN NULL ELSE q[p + 1]
      /\ link[item].previous = IF p = 1 THEN NULL ELSE q[p - 1]
  BY <1>2, <1>3 DEF Enumerates
<1>10. (IF item = start THEN link[item].next ELSE start) = IF m - 1 = 0 THEN NULL ELSE rest[1]
  <2>1. start = q[1]
    BY <1>2 DEF Enumerates
  <2>2. CASE p = 1
    BY <1>3, <1>6, <1>9, <2>1, <2>2
  <2>3. CASE p # 1
    <3>1. item # start
      BY <1>3, <1>4, <2>1, <2>3
    <3>2. m - 1 # 0 /\ rest[1] = q[1]
      BY <1>6, <2>3
    <3> QED BY <2>1, <3>1, <3>2
  <2> QED BY <2>2, <2>3
<1>11. ASSUME NEW i \in 1 .. m, i # p
       PROVE  /\ new[q[i]].next = IF i = p - 1 THEN link[item].next ELSE link[q[i]].next
              /\ new[q[i]].previous = IF i = p + 1 THEN link[item].previous ELSE link[q[i]].previous
  <2>1. q[i] \in 1 .. n /\ item \in 1 .. n
    BY Zenon
  <2>2. q[i] = link[item].previous <=> i = p - 1
    BY <1>4, <1>9, <1>11, <2>1 DEF NULL
  <2>3. q[i] = link[item].next <=> i = p + 1
    BY <1>4, <1>9, <1>11, <2>1 DEF NULL
  <2> QED BY <2>1, <2>2, <2>3, RemoveWrites
<1>12. ASSUME NEW i \in 1 .. m
       PROVE  /\ link[q[i]].next = IF i = m THEN NULL ELSE q[i + 1]
              /\ link[q[i]].previous = IF i = 1 THEN NULL ELSE q[i - 1]
  BY <1>2, Zenon DEF Enumerates
<1>13. ASSUME NEW i \in 1 .. m - 1
       PROVE  /\ new[rest[i]].next = IF i = m - 1 THEN NULL ELSE rest[i + 1]
              /\ new[rest[i]].previous = IF i = 1 THEN NULL ELSE rest[i - 1]
  <2> HIDE DEF new
  <2>1. CASE i < p
    <3>1. i \in 1 .. m /\ i # p /\ i # p + 1 /\ i # m /\ rest[i] = q[i]
      BY <1>6, <2>1
    <3>2. /\ new[q[i]].next = IF i = p - 1 THEN link[item].next ELSE q[i + 1]
          /\ new[q[i]].previous = IF i = 1 THEN NULL ELSE q[i - 1]
      BY <1>11, <1>12, <3>1
    <3>3. i = p - 1 => i + 1 = p
      OBVIOUS
    <3>4. i # m - 1 => rest[i + 1] = IF i = p - 1 THEN q[p + 1] ELSE q[i + 1]
      BY <1>6, <2>1
    <3>5. i # 1 => rest[i - 1] = q[i - 1]
      BY <1>6, <2>1
    <3>6. i = m - 1 => i = p - 1 /\ p = m
      BY <2>1
    <3>7. i = p - 1 /\ i # m - 1 => p # m
      BY <2>1
    <3> QED BY <1>9, <3>1, <3>2, <3>4, <3>5, <3>6, <3>7
  <2>2. CASE i >= p
    <3>1. i + 1 \in 1 .. m /\ i + 1 # p /\ i + 1 # p - 1 /\ i + 1 # 1 /\ rest[i] = q[i + 1]
      BY <1>6, <2>2
    <3>2. (i + 1 = p + 1 <=> i = p) /\ (i + 1 = m <=> i = m - 1) /\ i + 1 + 1 = i + 2 /\ i + 1 - 1 = i
      OBVIOUS
    <3>3. /\ new[q[i + 1]].next = link[q[i + 1]].next
          /\ new[q[i + 1]].previous = IF i = p THEN link[item].previous ELSE link[q[i + 1]].previous
      BY <1>11, <3>1, <3>2
    <3>4. /\ link[q[i + 1]].next = IF i = m - 1 THEN NULL ELSE q[i + 2]
          /\ link[q[i + 1]].previous = q[i]
      BY <1>12, <3>1, <3>2
    <3>5. i # m - 1 => rest[i + 1] = q[i + 2]
      BY <1>6, <2>2
    <3>6. i # 1 => rest[i - 1] = IF i = p THEN q[p - 1] ELSE q[i]
      BY <1>6, <2>2
    <3>7. i = 1 => i = p
      BY <2>2
    <3> QED BY <1>9, <3>1, <3>3, <3>4, <3>5, <3>6, <3>7
  <2> QED BY <2>1, <2>2
<1>14. Enumerates(new, IF item = start THEN link[item].next ELSE start, S \ {item}, rest, m - 1)
  BY <1>5, <1>7, <1>8, <1>10, <1>13 DEF Enumerates
<1>15. Sorted(rest, m - 1, key)
  BY <1>2, <1>6 DEF Sorted
<1>16. ASSUME NEW s \in 1 .. n \ S PROVE new[s] = link[s]
  <2>1. link[item].next # s /\ link[item].previous # s
    <3>1. (p # m => q[p + 1] \in S) /\ (p # 1 => q[p - 1] \in S)
      OBVIOUS
    <3> QED BY <1>9, <3>1 DEF NULL
  <2>2. new \in Pools(n) /\ new[s].next = link[s].next /\ new[s].previous = link[s].previous
    BY <2>1, RemoveWrites
  <2> HIDE DEF new
  <2> QED BY <2>2, SameRecord
<1>17. IsList(new, IF item = start THEN link[item].next ELSE start, S \ {item}, key)
  BY <1>5, <1>14, <1>15 DEF IsList
<1> QED BY <1>16, <1>17 DEF KeepsOthers

(* A slot linked in before the p-th one, or after the last, is part of the list. *)
LEMMA LinkKeeps ==
  ASSUME NEW n \in Nat, NEW S \in SUBSET (1 .. n), NEW link \in Pools(n), NEW start, NEW m \in Nat,
         NEW q \in [1 .. m -> S], Enumerates(link, start, S, q, m),
         NEW key \in [1 .. n -> Int], Sorted(q, m, key),
         NEW item \in 1 .. n, item \notin S, NEW p \in 1 .. m + 1, NEW new,
         Linked(link, new, n, item, IF p = 1 THEN NULL ELSE q[p - 1], IF p = m + 1 THEN NULL ELSE q[p]),
         \A i \in 1 .. p - 1 : key[q[i]] <= key[item],
         p <= m => key[item] <= key[q[p]]
  PROVE  IsList(new, IF p = 1 THEN item ELSE start, S \cup {item}, key)
<1> DEFINE all == [i \in 1 .. m + 1 |-> IF i < p THEN q[i] ELSE IF i = p THEN item ELSE q[i - 1]]
<1>1. all \in [1 .. m + 1 -> S \cup {item}] /\ m + 1 \in Nat
  OBVIOUS
<1>2. \A i \in 1 .. m + 1 : all[i] = IF i < p THEN q[i] ELSE IF i = p THEN item ELSE q[i - 1]
  OBVIOUS
<1> HIDE DEF all
<1>3. /\ \A i, j \in 1 .. m : q[i] = q[j] => i = j
      /\ \A i \in 1 .. m : q[i] # item /\ q[i] \in 1 .. n
  <2>1. \A i, j \in 1 .. m : q[i] = q[j] => i = j
    BY DEF Enumerates
  <2>2. \A i \in 1 .. m : q[i] # item /\ q[i] \in 1 .. n
    BY Zenon
  <2> QED BY <2>1, <2>2
<1>4. \A i, j \in 1 .. m + 1 : all[i] = all[j] => i = j
  <2> SUFFICES ASSUME NEW i \in 1 .. m + 1, NEW j \in 1 .. m + 1, i < j
               PROVE  all[i] # all[j]
    <3> SUFFICES ASSUME NEW i \in 1 .. m + 1, NEW j \in 1 .. m + 1, i # j PROVE all[i] # all[j]
      OBVIOUS
    <3> QED OBVIOUS
  <2>1. CASE j < p
    <3>1. all[i] = q[i] /\ all[j] = q[j] /\ i \in 1 .. m /\ j \in 1 .. m /\ i # j
      BY <1>2, <2>1
    <3> QED BY <1>3, <3>1
  <2>2. CASE j = p
    <3>1. all[i] = q[i] /\ all[j] = item /\ i \in 1 .. m
      BY <1>2, <2>2
    <3> QED BY <1>3, <3>1
  <2>3. CASE i < p /\ p < j
    <3>1. all[i] = q[i] /\ all[j] = q[j - 1] /\ i \in 1 .. m /\ j - 1 \in 1 .. m /\ i # j - 1
      BY <1>2, <2>3
    <3> QED BY <1>3, <3>1
  <2>4. CASE i = p
    <3>1. all[i] = item /\ all[j] = q[j - 1] /\ j - 1 \in 1 .. m
      BY <1>2, <2>4
    <3> QED BY <1>3, <3>1
  <2>5. CASE i > p
    <3>1. /\ all[i] = q[i - 1] /\ all[j] = q[j - 1]
          /\ i - 1 \in 1 .. m /\ j - 1 \in 1 .. m /\ i - 1 # j - 1
      BY <1>2, <2>5
    <3> QED BY <1>3, <3>1
  <2> QED BY <2>1, <2>2, <2>3, <2>4, <2>5
<1>5. ASSUME NEW s \in S \cup {item} PROVE \E i \in 1 .. m + 1 : all[i] = s
  <2>1. CASE s = item
    <3>1. p \in 1 .. m + 1 /\ all[p] = s
      BY <1>2, <2>1
    <3> QED BY <3>1
  <2>2. CASE s # item
    <3>1. PICK i \in 1 .. m : q[i] = s
      BY <2>2 DEF Enumerates
    <3>2. CASE i < p
      <4>1. i \in 1 .. m + 1 /\ all[i] = s
        BY <1>2, <3>1, <3>2
      <4> QED BY <4>1
    <3>3. CASE i >= p
      <4>1. i + 1 \in 1 .. m + 1 /\ all[i + 1] = s
        BY <1>2, <3>1, <3>3
      <4> QED BY <4>1
    <3> QED BY <3>2, <3>3
  <2> QED BY <2>1, <2>2
<1>6. (IF p = 1 THEN item ELSE start) = all[1] /\ m + 1 # 0
  <2>1. p # 1 => m # 0
    OBVIOUS
  <2> QED BY <1>2, <2>1 DEF Enumerates
<1>7. ASSUME NEW i \in 1 .. m
      PROVE  /\ new[q[i]].next = IF i = p - 1 THEN item ELSE link[q[i]].next
             /\ new[q[i]].previous = IF i = p THEN item ELSE link[q[i]].previous
  <2>1. q[i] \in 1 .. n /\ q[i] # item
    BY <1>3
  <2>2. q[i] = (IF p = 1 THEN NULL ELSE q[p - 1]) <=> i = p - 1
    <3>1. CASE p = 1
      BY <2>1, <3>1 DEF NULL
    <3>2. CASE p # 1
      <4>1. p - 1 \in 1 .. m
        BY <3>2
      <4> QED BY <1>3, <3>2, <4>1
    <3> QED BY <3>1, <3>2
  <2>3. q[i] = (IF p = m + 1 THEN NULL ELSE q[p]) <=> i = p
    BY <1>3, <2>1 DEF NULL
  <2> QED BY <2>1, <2>2, <2>3 DEF Linked
<1>8. ASSUME NEW i \in 1 .. m
      PROVE  /\ link[q[i]].next = IF i = m THEN NULL ELSE q[i + 1]
             /\ link[q[i]].previous = IF i = 1 THEN NULL ELSE q[i - 1]
  BY DEF Enumerates
<1>9. /\ new[item].next = IF p = m + 1 THEN NULL ELSE q[p]
      /\ new[item].previous = IF p = 1 THEN NULL ELSE q[p - 1]
  BY Zenon DEF Linked
<1>10. ASSUME NEW i \in 1 .. m + 1
       PROVE  /\ new[all[i]].next = IF i = m + 1 THEN NULL ELSE all[i + 1]
              /\ new[all[i]].previous = IF i = 1 THEN NULL ELSE all[i - 1]
  <2>1. CASE i < p
    <3>1. i \in 1 .. m /\ i # p /\ i # m + 1 /\ all[i] = q[i]
      BY <1>2, <2>1
    <3>2. /\ new[q[i]].next = IF i = p - 1 THEN item ELSE link[q[i]].next
          /\ new[q[i]].previous = link[q[i]].previous
      BY <1>7, <3>1
    <3>3. /\ link[q[i]].next = IF i = m THEN NULL ELSE q[i + 1]
          /\ link[q[i]].previous = IF i = 1 THEN NULL ELSE q[i - 1]
      BY <1>8, <3>1, Zenon
    <3>4. all[i + 1] = IF i = p - 1 THEN item ELSE q[i + 1]
      BY <1>2, <2>1
    <3>5. i # 1 => all[i - 1] = q[i - 1]
      BY <1>2, <2>1
    <3>6. i = m => i = p - 1
      BY <2>1
    <3> QED BY <3>1, <3>2, <3>3, <3>4, <3>5, <3>6
  <2>2. CASE i = p
    <3>1. all[i] = item
      BY <1>2, <2>2
    <3>2. i # m + 1 => all[i + 1] = q[i]
      BY <1>2, <2>2
    <3>3. i # 1 => all[i - 1] = q[i - 1]
      BY <1>2, <2>2
    <3> QED BY <1>9, <2>2, <3>1, <3>2, <3>3
  <2>3. CASE i > p
    <3>1. i - 1 \in 1 .. m /\ i - 1 # p - 1 /\ all[i] = q[i - 1]
      BY <1>2, <2>3
    <3>2. (i - 1 = m <=> i = m + 1) /\ i - 1 + 1 = i /\ i - 1 - 1 = i - 2 /\ i # 1
      BY <2>3
    <3>3. /\ new[q[i - 1]].next = link[q[i - 1]].next
          /\ new[q[i - 1]].previous = IF i - 1 = p THEN item ELSE link[q[i - 1]].previous
      BY <1>7, <3>1
    <3>4. /\ link[q[i - 1]].next = IF i = m + 1 THEN NULL ELSE q[i]
          /\ link[q[i - 1]].previous = IF i - 1 = 1 THEN NULL ELSE q[i - 2]
      BY <1>8, <3>1, <3>2
    <3>5. i # m + 1 => all[i + 1] = q[i]
      BY <1>2, <2>3
    <3>6. all[i - 1] = IF i - 1 = p THEN item ELSE q[i - 2]
      BY <1>2, <2>3
    <3>7. i - 1 = 1 => i - 1 = p
      BY <2>3
    <3> QED BY <3>1, <3>2, <3>3, <3>4, <3>5, <3>6, <3>7
  <2> QED BY <2>1, <2>2, <2>3
<1>11. Enumerates(new, IF p = 1 THEN item ELSE start, S \cup {item}, all, m + 1)
  BY <1>1, <1>4, <1>5, <1>6, <1>10 DEF Enumerates
<1>12. Sorted(all, m + 1, key)
  <2>1. /\ \A i \in 1 .. m : key[q[i]] \in Int
        /\ key[item] \in Int
    BY Zenon
  <2>2. \A i, j \in 1 .. m : i <= j => key[q[i]] <= key[q[j]]
    BY DEF Sorted
  <2>3. \A i \in p .. m : key[item] <= key[q[i]]
    BY <2>1, <2>2
  <2>4. ASSUME NEW i \in 1 .. m + 1, NEW j \in 1 .. m + 1, i <= j
        PROVE  key[all[i]] <= key[all[j]]
    <3>1. CASE j < p
      <4>1. all[i] = q[i] /\ all[j] = q[j] /\ i \in 1 .. m /\ j \in 1 .. m
        BY <1>2, <2>4, <3>1
      <4> QED BY <2>2, <2>4, <4>1
    <3>2. CASE j = p /\ i < j
      <4>1. all[i] = q[i] /\ all[j] = item /\ i \in 1 .. p - 1
        BY <1>2, <3>2
      <4> QED BY <4>1
    <3>3. CASE i < p /\ p < j
      <4>1. all[i] = q[i] /\ all[j] = q[j - 1] /\ i \in 1 .. m /\ j - 1 \in 1 .. m /\ i <= j - 1
        BY <1>2, <3>3
      <4> QED BY <2>2, <4>1
    <3>4. CASE i = p /\ i < j
      <4>1. all[i] = item /\ all[j] = q[j - 1] /\ j - 1 \in p .. m
        BY <1>2, <3>4
      <4> QED BY <2>3, <4>1
    <3>5. CASE i > p
      <4>1. /\ all[i] = q[i - 1] /\ all[j] = q[j - 1]
            /\ i - 1 \in 1 .. m /\ j - 1 \in 1 .. m /\ i - 1 <= j - 1
        BY <1>2, <2>4, <3>5
      <4> QED BY <2>2, <4>1
    <3>6. CASE i = p /\ j = p
      BY <1>2, <2>1, <3>6
    <3> QED BY <2>4, <3>1, <3>2, <3>3, <3>4, <3>5, <3>6
  <2> QED BY <2>4 DEF Sorted
<1> QED BY <1>1, <1>11, <1>12 DEF IsList

(* Slot item may be put into the list of the slots S, which are some. *)
Insertable(link, start, S, n, item, key) ==
  /\ S \in SUBSET (1 .. n) /\ S # {}
  /\ link \in Pools(n) /\ key \in [1 .. n -> Int]
  /\ IsList(link, start, S, key)
  /\ item \in 1 .. n /\ item \notin S

(* The insertion loop of TaskNew and TimerSchedule puts item into a non-empty list, in order. *)
LEMMA InsertKeeps ==
  ASSUME NEW n \in Nat, NEW S, NEW link, NEW start, NEW key, NEW item, NEW ins,
         Insertable(link, start, S, n, item, key),
         ins = InsertOrdered(link, start, n, item, key)
  PROVE  /\ ins.link \in Pools(n)
         /\ ins.start \in 1 .. n
         /\ IsList(ins.link, ins.start, S \cup {item}, key)
         /\ KeepsOthers(link, ins.link, n, S \cup {item})
<1> USE DEF Insertable
<1>1. PICK m \in Nat : \E q \in [1 .. m -> S] : Enumerates(link, start, S, q, m) /\ Sorted(q, m, key)
  BY DEF IsList
<1>2. PICK q \in [1 .. m -> S] : Enumerates(link, start, S, q, m) /\ Sorted(q, m, key)
  BY <1>1
<1>3. m <= n /\ m # 0
  <2>1. m <= n
    BY <1>2, ListFits, Zenon DEF Enumerates
  <2>2. m # 0
    <3>1. PICK s \in S : TRUE
      BY Zenon
    <3>2. PICK i \in 1 .. m : q[i] = s
      BY <1>2 DEF Enumerates
    <3> QED BY <3>2
  <2> QED BY <2>1, <2>2
<1> DEFINE at == Visit(link, start, n)
           stop(k) == at[k] # NULL /\ (key[item] < key[at[k]] \/ link[at[k]].next = NULL)
           first == CHOOSE k \in 0 .. n : stop(k) /\ \A j \in 0 .. k - 1 : ~stop(j)
           current == at[first]
<1>4. \A k \in 0 .. n : at[k] = IF k < m THEN q[k + 1] ELSE NULL
  <2>1. Enumerates(link, start, S, q, m) /\ m <= n
    BY <1>2, <1>3
  <2> HIDE DEF stop, first, current
  <2> QED BY ONLY n \in Nat, S \in SUBSET (1 .. n), m \in Nat, <2>1, VisitsInOrder, Zenon
<1>5. ins = IF key[item] < key[current]
            THEN [link  |-> ListInsertBefore(link, item, current),
                  start |-> IF current = start THEN item ELSE start]
            ELSE [link  |-> ListInsertAfter(link, item, current), start |-> start]
  BY Zenon DEF InsertOrdered
<1> HIDE DEF at
<1>6. \A k \in 0 .. n : stop(k) <=> k < m /\ (key[item] < key[q[k + 1]] \/ k + 1 = m)
  <2> SUFFICES ASSUME NEW k \in 0 .. n
               PROVE  stop(k) <=> k < m /\ (key[item] < key[q[k + 1]] \/ k + 1 = m)
    OBVIOUS
  <2>1. CASE k >= m
    BY <1>4, <2>1
  <2>2. CASE k < m
    <3>1. k + 1 \in 1 .. m /\ at[k] = q[k + 1]
      BY <1>4, <2>2
    <3>2. q[k + 1] \in 1 .. n
      BY <3>1, Zenon
    <3>3. link[q[k + 1]].next = NULL <=> k + 1 = m
      <4>1. link[q[k + 1]].next = IF k + 1 = m THEN NULL ELSE q[k + 1 + 1]
        BY <1>2, <3>1, Zenon DEF Enumerates
      <4>2. k + 1 # m => k + 1 + 1 \in 1 .. m
        BY <3>1
      <4>3. k + 1 # m => q[k + 1 + 1] \in 1 .. n
        BY <4>2, Zenon
      <4> QED BY <4>1, <4>3 DEF NULL
    <3> QED BY <2>2, <3>1, <3>2, <3>3 DEF NULL
  <2> QED BY <2>1, <2>2
<1>7. first \in 0 .. n /\ stop(first) /\ \A j \in 0 .. first - 1 : ~stop(j)
  <2> DEFINE T == {k \in 0 .. n : stop(k)}
  <2>1. m - 1 \in T
    BY <1>3, <1>6
  <2> HIDE DEF stop
  <2>2. PICK k \in T : \A j \in T : k <= j
    <3>1. T \in SUBSET Nat /\ T # {}
      BY <2>1
    <3> HIDE DEF T
    <3> QED BY <3>1, LeastNat, Zenon
  <2>3. k \in 0 .. n /\ stop(k) /\ \A j \in 0 .. k - 1 : ~stop(j)
    BY <2>2
  <2> QED BY <2>3, Zenon
<1> HIDE DEF stop, first
<1> DEFINE p == first + 1
<1>8. p \in 1 .. m /\ current = q[p] /\ (key[item] < key[q[p]] \/ p = m)
  BY <1>4, <1>6, <1>7
<1>9. \A i \in 1 .. p - 1 : key[q[i]] <= key[item]
  <2> SUFFICES ASSUME NEW i \in 1 .. p - 1 PROVE key[q[i]] <= key[item]
    OBVIOUS
  <2>1. i \in 1 .. m /\ i - 1 \in 0 .. n /\ i - 1 \in 0 .. first - 1 /\ i - 1 < m /\ i - 1 + 1 = i
    BY <1>3, <1>7, <1>8
  <2>2. ~(key[item] < key[q[i]])
    BY <1>6, <1>7, <2>1, Zenon
  <2>3. key[item] \in Int /\ key[q[i]] \in Int
    BY <2>1, Zenon
  <2> QED BY <2>2, <2>3
<1> HIDE DEF current, p
<1>10. /\ current \in 1 .. n /\ current # item
       /\ link[current].next = IF p = m THEN NULL ELSE q[p + 1]
       /\ link[current].previous = IF p = 1 THEN NULL ELSE q[p - 1]
       /\ start = q[1]
  <2>1. current \in S
    BY <1>8
  <2>2. /\ link[q[p]].next = IF p = m THEN NULL ELSE q[p + 1]
        /\ link[q[p]].previous = IF p = 1 THEN NULL ELSE q[p - 1]
    BY <1>2, <1>8 DEF Enumerates
  <2>3. start = q[1]
    BY <1>2, <1>3 DEF Enumerates
  <2> QED BY <1>8, <2>1, <2>2, <2>3
<1>11. link[current].next # item /\ link[current].previous # item
  <2>1. (p # m => q[p + 1] \in S) /\ (p # 1 => q[p - 1] \in S)
    BY <1>8
  <2> QED BY <1>10, <2>1 DEF NULL
<1>12. key[item] \in Int /\ key[q[p]] \in Int /\ start \in 1 .. n
  BY <1>3, <1>8, <1>10
<1>13. ASSUME NEW new,
              \/ Linked(link, new, n, item, current, link[current].next)
              \/ Linked(link, new, n, item, link[current].previous, current)
       PROVE  KeepsOthers(link, new, n, S \cup {item})
  <2> SUFFICES ASSUME NEW s \in 1 .. n, s \notin S \cup {item} PROVE new[s] = link[s]
    BY DEF KeepsOthers
  <2>1. current # s /\ link[current].next # s /\ link[current].previous # s
    <3>1. (p # m => q[p + 1] \in S) /\ (p # 1 => q[p - 1] \in S) /\ q[p] \in S
      BY <1>8
    <3> QED BY <1>8, <1>10, <3>1 DEF NULL
  <2>2. new \in Pools(n) /\ new[s].next = link[s].next /\ new[s].previous = link[s].previous
    BY <1>13, <2>1 DEF Linked
  <2> QED BY <2>2, SameRecord
<1>14. CASE key[item] < key[current]
  <2>1. ins.link = ListInsertBefore(link, item, current)
        /\ ins.start = IF p = 1 THEN item ELSE start
    <3>1. current = start <=> p = 1
      <4>1. p \in 1 .. m /\ 1 \in 1 .. m /\ current = q[p] /\ start = q[1]
        BY <1>3, <1>8, <1>10
      <4>2. q[p] = q[1] => p = 1
        BY <1>2, <4>1, Zenon DEF Enumerates
      <4> QED BY <4>1, <4>2, Zenon
    <3> QED BY <1>5, <1>14, <3>1
  <2>2. Linked(link, ins.link, n, item, link[current].previous, current)
    BY <1>10, <1>11, <2>1, InsertBeforeWrites
  <2>3. p \in 1 .. m + 1 /\ p # m + 1
    BY <1>8
  <2>4. Linked(link, ins.link, n, item, IF p = 1 THEN NULL ELSE q[p - 1], IF p = m + 1 THEN NULL ELSE q[p])
    BY <1>8, <1>10, <2>2, <2>3
  <2>5. p <= m => key[item] <= key[q[p]]
    BY <1>8, <1>12, <1>14
  <2>6. IsList(ins.link, IF p = 1 THEN item ELSE start, S \cup {item}, key)
    BY <1>2, <1>9, <2>3, <2>4, <2>5, LinkKeeps, Zenon
  <2>7. ins.link \in Pools(n)
    BY <2>2 DEF Linked
  <2>8. KeepsOthers(link, ins.link, n, S \cup {item})
    BY <1>13, <2>2, Zenon
  <2> QED BY <1>12, <2>1, <2>6, <2>7, <2>8
<1>15. CASE ~(key[item] < key[current])
  <2>1. ins.link = ListInsertAfter(link, item, current) /\ ins.start = start
    BY <1>5, <1>15
  <2>2. Linked(link, ins.link, n, item, current, link[current].next)
    BY <1>10, <1>11, <2>1, InsertAfterWrites
  <2>3. p = m /\ m + 1 \in 1 .. m + 1 /\ m + 1 # 1 /\ m + 1 - 1 = m
    BY <1>3, <1>8, <1>15
  <2>4. Linked(link, ins.link, n, item, IF m + 1 = 1 THEN NULL ELSE q[m + 1 - 1],
               IF m + 1 = m + 1 THEN NULL ELSE q[m + 1])
    BY <1>8, <1>10, <2>2, <2>3
  <2>5. \A i \in 1 .. m + 1 - 1 : key[q[i]] <= key[item]
    BY <1>8, <1>9, <1>12, <1>15, <2>3
  <2>6. m + 1 <= m => key[item] <= key[q[m + 1]]
    OBVIOUS
  <2>7. IsList(ins.link, IF m + 1 = 1 THEN item ELSE start, S \cup {item}, key)
    <3> DEFINE e == m + 1
               new == ins.link
    <3>1. e \in 1 .. m + 1
      BY <2>3
    <3>2. Linked(link, new, n, item, IF e = 1 THEN NULL ELSE q[e - 1], IF e = m + 1 THEN NULL ELSE q[e])
      BY <2>4
    <3>3. /\ \A i \in 1 .. e - 1 : key[q[i]] <= key[item]
          /\ e <= m => key[item] <= key[q[e]]
      BY <2>5, <2>6
    <3> HIDE DEF e, new
    <3>4. IsList(new, IF e = 1 THEN item ELSE start, S \cup {item}, key)
      BY <1>2, <3>1, <3>2, <3>3, LinkKeeps, Zenon
    <3> QED BY <3>4 DEF e, new
  <2>8. ins.link \in Pools(n)
    BY <2>2 DEF Linked
  <2>9. KeepsOthers(link, ins.link, n, S \cup {item})
    BY <1>13, <2>2, Zenon
  <2> QED BY <1>12, <2>1, <2>3, <2>7, <2>8, <2>9
<1> QED BY <1>14, <1>15

(* A slot alone is a list. *)
LEMMA OneSlot ==
  ASSUME NEW link, NEW item, NEW key, link[item] = NoLinks, key[item] \in Int
  PROVE  IsList(link, item, {item}, key)
<1> DEFINE q == [i \in 1 .. 1 |-> item]
<1>1. q \in [1 .. 1 -> {item}]
  OBVIOUS
<1>2. Enumerates(link, item, {item}, q, 1)
  BY DEF Enumerates, NoLinks
<1>3. Sorted(q, 1, key)
  BY DEF Sorted
<1> QED BY <1>1, <1>2, <1>3, Zenon DEF IsList

(* No slot is a list too. *)
LEMMA NoSlot ==
  ASSUME NEW link, NEW key
  PROVE  IsList(link, NULL, {}, key)
<1> DEFINE q == [i \in 1 .. 0 |-> NULL]
<1>1. q \in [1 .. 0 -> {}]
  OBVIOUS
<1>2. Enumerates(link, NULL, {}, q, 0)
  BY DEF Enumerates
<1>3. Sorted(q, 0, key)
  BY DEF Sorted
<1> QED BY <1>1, <1>2, <1>3, Zenon DEF IsList

(* Keys that all go down by one keep the order. *)
LEMMA AgedKeys ==
  ASSUME NEW n \in Nat, NEW S \in SUBSET (1 .. n), NEW link, NEW start, NEW key \in [1 .. n -> Int],
         NEW key2, IsList(link, start, S, key), \A s \in S : key2[s] = key[s] - 1
  PROVE  IsList(link, start, S, key2)
<1>1. PICK m \in Nat : \E q \in [1 .. m -> S] : Enumerates(link, start, S, q, m) /\ Sorted(q, m, key)
  BY DEF IsList
<1>2. PICK q \in [1 .. m -> S] : Enumerates(link, start, S, q, m) /\ Sorted(q, m, key)
  BY <1>1
<1>3. \A i \in 1 .. m : key2[q[i]] = key[q[i]] - 1 /\ key[q[i]] \in Int
  BY Zenon
<1>4. Sorted(q, m, key2)
  BY <1>2, <1>3 DEF Sorted
<1> QED BY <1>2, <1>4 DEF IsList

-----------------------------------------------------------------------------
(* The pool and the list between two calls of TaskNew and TaskEnd. *)
TaskPoolInv ==
  /\ TasksStart \in TaskSlots \cup {NULL}
  /\ taskLink \in Pools(MAX_TASKS)
  /\ taskPoll \in [TaskSlots -> Programs \cup {NULL}]
  /\ data \in [TaskSlots -> BOOLEAN]
  /\ priority \in [TaskSlots -> Nat]
  /\ IsList(taskLink, TasksStart, InUse, priority)

(* A task keeps what it was created with, and the first one is never ended. *)
TaskInv ==
  /\ \A s \in TaskSlots :
       taskPoll[s] # NULL => /\ priority[s] = Priority[taskPoll[s]]
                             /\ data[s] <=> taskPoll[s] \notin NoData
  /\ TasksStart # NULL => \A e \in Endable : priority[TasksStart] < Priority[e]

(* OsTick is at a task of the list, or between two walks. *)
WalkInv ==
  /\ currentTask \in InUse \cup {NULL}
  /\ running \in BOOLEAN
  /\ running => currentTask # NULL
  /\ status \in {NoStatus, TASK_IDLE, TASK_READY, TASK_FINISHED}
  /\ booted \in 0 .. Len(Boot)
  /\ booted > 0 => TasksStart # NULL
  /\ stopped \in BOOLEAN
  /\ ends \in 0 .. MaxEnds

TasksInv == TaskPoolInv /\ TaskInv /\ WalkInv

-----------------------------------------------------------------------------
(* The facts about the list every step starts from. *)
LEMMA ListFacts ==
  ASSUME TasksAssumption, TaskPoolInv
  PROVE  /\ MAX_TASKS \in Nat /\ TaskSlots = 1 .. MAX_TASKS /\ InUse \in SUBSET (1 .. MAX_TASKS)
         /\ TasksStart = NULL <=> InUse = {}
         /\ TasksStart # NULL => TasksStart \in InUse
         /\ WellLinked(taskLink, TasksStart, InUse, priority)
<1>1. MAX_TASKS \in Nat /\ TaskSlots = 1 .. MAX_TASKS /\ InUse \in SUBSET (1 .. MAX_TASKS)
  BY DEF TasksAssumption, TaskSlots, InUse
<1>2. IsList(taskLink, TasksStart, InUse, priority)
  BY DEF TaskPoolInv
<1>3. TasksStart = NULL <=> InUse = {}
  BY <1>1, <1>2, FirstIsLeast, Zenon
<1>4. TasksStart # NULL => TasksStart \in InUse
  BY <1>1, <1>2, FirstIsLeast, Zenon
<1>5. WellLinked(taskLink, TasksStart, InUse, priority)
  BY <1>1, <1>2, DoublyLinked, Zenon
<1> QED BY <1>1, <1>3, <1>4, <1>5

(* TaskNew of a slot that is free links it into the list where its priority belongs. *)
LEMMA PlaceKeeps ==
  ASSUME TasksAssumption, TaskPoolInv, TaskInv, NEW s \in Free, NEW p \in Programs, Place(s, p),
         TasksStart = NULL => \A e \in Endable : Priority[p] < Priority[e]
  PROVE  /\ TaskPoolInv' /\ TaskInv' /\ TasksStart' # NULL
         /\ InUse' = InUse \cup {s}
<1> DEFINE n == MAX_TASKS
           clean == [taskLink EXCEPT ![s] = NoLinks]
           prio  == [priority EXCEPT ![s] = Priority[p]]
           ins   == InsertOrdered(clean, TasksStart, n, s, prio)
<1>1. /\ n \in Nat /\ TaskSlots = 1 .. n /\ InUse \in SUBSET (1 .. n)
      /\ TasksStart = NULL <=> InUse = {}
      /\ TasksStart # NULL => TasksStart \in InUse
  BY ListFacts
<1>2. s \in 1 .. n /\ s \notin InUse /\ s # NULL
  BY <1>1 DEF Free, InUse, NULL
<1>3. /\ taskPoll' = [taskPoll EXCEPT ![s] = p]
      /\ data' = [data EXCEPT ![s] = p \notin NoData]
      /\ priority' = prio
      /\ IF TasksStart = NULL
         THEN TasksStart' = s /\ taskLink' = clean
         ELSE TasksStart' = ins.start /\ taskLink' = ins.link
  BY DEF Place
<1> HIDE DEF ins
<1>4. clean \in Pools(n) /\ clean[s] = NoLinks /\ \A t \in TaskSlots : t # s => clean[t] = taskLink[t]
  BY <1>1, <1>2 DEF TaskPoolInv, Pools, Pointers, NoLinks
<1>5. Priority[p] \in Nat /\ NULL \notin Programs
  BY DEF TasksAssumption
<1>6. /\ prio \in [TaskSlots -> Nat] /\ prio \in [1 .. n -> Int] /\ prio[s] = Priority[p]
      /\ \A t \in TaskSlots : t # s => prio[t] = priority[t]
  BY <1>1, <1>2, <1>5 DEF TaskPoolInv
<1> HIDE DEF clean, prio
<1>7. /\ taskPoll' \in [TaskSlots -> Programs \cup {NULL}] /\ taskPoll'[s] = p
      /\ \A t \in TaskSlots : t # s => taskPoll'[t] = taskPoll[t]
  BY <1>1, <1>2, <1>3 DEF TaskPoolInv
<1>8. /\ data' \in [TaskSlots -> BOOLEAN] /\ data'[s] = (p \notin NoData)
      /\ \A t \in TaskSlots : t # s => data'[t] = data[t]
  BY <1>1, <1>2, <1>3 DEF TaskPoolInv
<1>9. InUse' = InUse \cup {s}
  BY <1>1, <1>2, <1>5, <1>7, <1>8 DEF InUse, Free
<1>10. IsList(clean, TasksStart, InUse, prio)
  <2>1. \A t \in InUse : clean[t] = taskLink[t] /\ prio[t] = priority[t]
    BY <1>1, <1>2, <1>4, <1>6
  <2>2. IsList(taskLink, TasksStart, InUse, priority)
    BY DEF TaskPoolInv
  <2> QED BY <2>1, <2>2, SameLinks
<1>11. /\ taskLink' \in Pools(n) /\ TasksStart' \in TaskSlots /\ TasksStart' # NULL
       /\ IsList(taskLink', TasksStart', InUse', prio)
  <2>1. CASE TasksStart = NULL
    <3>1. IsList(clean, s, {s}, prio)
      BY <1>2, <1>4, <1>6, OneSlot, Zenon
    <3>2. InUse' = {s} /\ taskLink' = clean /\ TasksStart' = s
      BY <1>1, <1>3, <1>9, <2>1, Zenon
    <3> QED BY <1>1, <1>2, <1>4, <3>1, <3>2
  <2>2. CASE TasksStart # NULL
    <3>1. Insertable(clean, TasksStart, InUse, n, s, prio)
      BY <1>1, <1>2, <1>4, <1>6, <1>10, <2>2 DEF Insertable
    <3>2. ins = InsertOrdered(clean, TasksStart, n, s, prio)
      BY DEF ins
    <3>3. /\ ins.link \in Pools(n) /\ ins.start \in 1 .. n
          /\ IsList(ins.link, ins.start, InUse \cup {s}, prio)
      BY <1>1, <3>1, <3>2, InsertKeeps, Zenon
    <3> QED BY <1>1, <1>3, <1>9, <2>2, <3>3 DEF NULL
  <2> QED BY <2>1, <2>2
<1>12. TaskPoolInv'
  BY <1>3, <1>6, <1>7, <1>8, <1>11 DEF TaskPoolInv
<1>13. ASSUME NEW t \in TaskSlots, taskPoll'[t] # NULL
       PROVE  priority'[t] = Priority[taskPoll'[t]] /\ (data'[t] <=> taskPoll'[t] \notin NoData)
  <2>1. CASE t = s
    BY <1>3, <1>6, <1>7, <1>8, <2>1, Zenon
  <2>2. CASE t # s
    <3>1. priority'[t] = priority[t] /\ taskPoll'[t] = taskPoll[t] /\ data'[t] = data[t]
      BY <1>3, <1>6, <1>7, <1>8, <2>2
    <3> QED BY <1>13, <3>1, Zenon DEF TaskInv
  <2> QED BY <2>1, <2>2
<1>14. ASSUME NEW e \in Endable PROVE priority'[TasksStart'] < Priority[e]
  <2>1. \A t \in InUse' : prio[TasksStart'] <= prio[t]
    <3>1. InUse' \in SUBSET (1 .. n)
      BY <1>1, <1>2, <1>9
    <3> QED BY <1>1, <1>11, <3>1, FirstIsLeast, Zenon
  <2>2. Priority[e] \in Nat
    BY DEF TasksAssumption
  <2>3. PICK t \in InUse' : prio[t] < Priority[e]
    <3>1. CASE TasksStart = NULL
      BY <1>6, <1>9, <3>1
    <3>2. CASE TasksStart # NULL
      <4>1. TasksStart \in InUse /\ prio[TasksStart] = priority[TasksStart]
        BY <1>1, <1>2, <1>6, <3>2, Zenon
      <4> QED BY <1>9, <3>2, <4>1 DEF TaskInv
    <3> QED BY <3>1, <3>2
  <2>4. t \in TaskSlots /\ prio[t] \in Nat /\ prio[TasksStart'] \in Nat
    BY <1>1, <1>2, <1>6, <1>9, <1>11
  <2> QED BY <1>3, <2>1, <2>2, <2>3, <2>4
<1>15. TaskInv'
  BY <1>13, <1>14 DEF TaskInv
<1> QED BY <1>9, <1>11, <1>12, <1>15

(* TaskNew: the first free slot, if there is one. *)
LEMMA TaskNewKeeps ==
  ASSUME TasksAssumption, TaskPoolInv, TaskInv, NEW p \in Programs, TaskNew(p),
         TasksStart = NULL => \A e \in Endable : Priority[p] < Priority[e]
  PROVE  TaskPoolInv' /\ TaskInv' /\ TasksStart' # NULL /\ InUse \subseteq InUse'
<1>1. CASE Free = {}
  <2>1. UNCHANGED tasks
    BY <1>1 DEF TaskNew
  <2>2. TaskPoolInv' /\ TaskInv' /\ InUse' = InUse
    BY <2>1 DEF tasks, TaskPoolInv, TaskInv, InUse, Free
  <2>3. TasksStart # NULL
    <3>1. 1 \in TaskSlots /\ InUse = TaskSlots
      BY <1>1 DEF InUse, TaskSlots, TasksAssumption
    <3> QED BY <3>1, ListFacts
  <2> QED BY <2>1, <2>2, <2>3 DEF tasks
<1>2. CASE Free # {}
  <2>1. First(Free) \in Free
    <3> DEFINE T == Free
    <3>1. T \in SUBSET Nat
      BY DEF Free, TaskSlots
    <3>2. First(T) = CHOOSE s \in T : \A t \in T : s <= t
      BY DEF First
    <3>3. \E s \in T : \A t \in T : s <= t
      <4> HIDE DEF T
      <4> QED BY <1>2, <3>1, LeastNat DEF T
    <3> HIDE DEF T
    <3>4. First(T) \in T
      BY <3>2, <3>3
    <3> QED BY <3>4 DEF T
  <2>2. PICK s \in Free : s = First(Free)
    BY <2>1
  <2>3. Place(s, p)
    BY <1>2, <2>2 DEF TaskNew
  <2> QED BY <2>3, PlaceKeeps
<1> QED BY <1>1, <1>2

-----------------------------------------------------------------------------
(* OsInit leaves an empty list. *)
LEMMA TasksInitInv == ASSUME TasksAssumption, TasksInit PROVE TasksInv
<1>1. InUse = {} /\ TasksStart = NULL
  BY DEF TasksInit, OsInit, InUse, Free
<1>2. IsList(taskLink, TasksStart, InUse, priority)
  BY <1>1, NoSlot
<1>3. TaskPoolInv
  BY <1>1, <1>2 DEF TaskPoolInv, TasksInit, OsInit, Pools, Pointers, TaskSlots, NoLinks
<1>4. TaskInv
  BY <1>1 DEF TaskInv, TasksInit, OsInit
<1>5. Len(Boot) \in Nat /\ MaxEnds \in Nat
  BY DEF TasksAssumption
<1>6. booted \in 0 .. Len(Boot) /\ ~(booted > 0) /\ ends \in 0 .. MaxEnds
  BY <1>5 DEF TasksInit
<1>7. WalkInv
  BY <1>6, Zenon DEF WalkInv, TasksInit
<1> QED BY <1>3, <1>4, <1>7 DEF TasksInv

(* main creates its tasks. *)
LEMMA MainKeeps == ASSUME TasksAssumption, TaskListAssumption, TasksInv, Main PROVE TasksInv'
<1> USE DEF TasksInv
<1> DEFINE p == Boot[booted + 1]
<1>1. /\ booted < Len(Boot) /\ TaskNew(p) /\ booted' = booted + 1
      /\ UNCHANGED <<currentTask, running, status, stopped, ends>>
  BY DEF Main
<1>2. Len(Boot) \in Nat /\ booted \in Nat /\ booted + 1 \in 1 .. Len(Boot)
  BY <1>1 DEF TasksAssumption, WalkInv
<1>3. p \in Programs
  BY <1>2 DEF TasksAssumption
<1>4. ASSUME TasksStart = NULL, NEW e \in Endable PROVE Priority[p] < Priority[e]
  <2>1. booted = 0 /\ p = Boot[1]
    BY <1>2, <1>4 DEF WalkInv
  <2>2. Boot # <<>>
    BY <1>2 DEF TasksAssumption
  <2> QED BY <2>1, <2>2 DEF TaskListAssumption
<1>5. TaskPoolInv' /\ TaskInv' /\ TasksStart' # NULL /\ InUse \subseteq InUse'
  <2> HIDE DEF p
  <2> QED BY <1>1, <1>3, <1>4, TaskNewKeeps
<1>6. WalkInv'
  BY <1>1, <1>2, <1>5 DEF WalkInv
<1> QED BY <1>5, <1>6

(* A poll function creates a task. *)
LEMMA SpawnKeeps == ASSUME TasksAssumption, TasksInv, NEW p \in Spawned, Spawn(p) PROVE TasksInv'
<1> USE DEF TasksInv
<1>1. running /\ TaskNew(p) /\ UNCHANGED <<currentTask, running, status, booted, stopped, ends>>
  BY DEF Spawn
<1>2. p \in Programs
  BY DEF TasksAssumption
<1>3. TasksStart # NULL
  BY <1>1, ListFacts DEF WalkInv
<1>4. TaskPoolInv' /\ TaskInv' /\ TasksStart' # NULL /\ InUse \subseteq InUse'
  BY <1>1, <1>2, <1>3, TaskNewKeeps
<1>5. WalkInv'
  BY <1>1, <1>4 DEF WalkInv
<1> QED BY <1>4, <1>5

(* TaskEnd of a task that is not the first takes it off the list. *)
LEMMA EndKeeps == ASSUME TasksAssumption, TasksInv, NEW s \in TaskSlots, End(s) PROVE TasksInv'
<1> USE DEF TasksInv
<1> DEFINE n == MAX_TASKS
<1>1. /\ running /\ s # currentTask /\ taskPoll[s] \in Endable /\ ends < MaxEnds /\ ends' = ends + 1
      /\ UNCHANGED <<currentTask, running, status, booted, stopped>>
      /\ data' = [data EXCEPT ![s] = FALSE]
      /\ taskPoll' = [taskPoll EXCEPT ![s] = NULL]
      /\ taskLink' = ListRemove(taskLink, s)
      /\ UNCHANGED <<TasksStart, priority>>
  BY DEF End, TaskEnd
<1>2. n \in Nat /\ TaskSlots = 1 .. n /\ InUse \in SUBSET (1 .. n)
  BY ListFacts
<1>3. taskPoll[s] # NULL /\ taskPoll[s] \in Programs
  BY <1>1 DEF TasksAssumption
<1>4. s \in InUse
  BY <1>3 DEF InUse, Free
<1>5. s # TasksStart
  <2>1. priority[s] = Priority[taskPoll[s]] /\ priority[s] \in Nat
    <3>1. priority[s] = Priority[taskPoll[s]]
      BY <1>3, Zenon DEF TaskInv
    <3>2. priority[s] \in Nat
      BY DEF TaskPoolInv
    <3> QED BY <3>1, <3>2
  <2>2. TasksStart # NULL => priority[TasksStart] < Priority[taskPoll[s]]
    BY <1>1 DEF TaskInv
  <2>3. s # NULL
    BY <1>2 DEF NULL
  <2> QED BY <2>1, <2>2, <2>3
<1>6. /\ taskPoll' \in [TaskSlots -> Programs \cup {NULL}] /\ data' \in [TaskSlots -> BOOLEAN]
      /\ taskPoll'[s] = NULL /\ ~data'[s]
      /\ \A t \in TaskSlots : t # s => taskPoll'[t] = taskPoll[t] /\ data'[t] = data[t]
  BY <1>1 DEF TaskPoolInv
<1>7. InUse' = InUse \ {s}
  BY <1>6 DEF InUse, Free
<1>8. taskLink' \in Pools(n) /\ IsList(taskLink', TasksStart, InUse', priority)
  <2>1. taskLink \in Pools(n) /\ IsList(taskLink, TasksStart, InUse, priority)
    BY DEF TaskPoolInv
  <2>2. IsList(ListRemove(taskLink, s), IF s = TasksStart THEN taskLink[s].next ELSE TasksStart,
               InUse \ {s}, priority)
    BY <1>2, <1>4, <2>1, RemoveKeeps, Zenon
  <2>3. ListRemove(taskLink, s) \in Pools(n)
    BY <1>2, <1>4, <2>1, RemoveWrites
  <2> QED BY <1>1, <1>5, <1>7, <2>2, <2>3
<1>9. TaskPoolInv'
  BY <1>1, <1>6, <1>8 DEF TaskPoolInv
<1>10. TaskInv'
  BY <1>1, <1>6 DEF TaskInv
<1>11. WalkInv'
  <2>1. ends' \in 0 .. MaxEnds
    BY <1>1 DEF WalkInv, TasksAssumption
  <2> QED BY <1>1, <1>7, <2>1 DEF WalkInv
<1> QED BY <1>9, <1>10, <1>11

(* OsTick goes from task to task. *)
LEMMA WalkKeeps ==
  ASSUME TasksAssumption, TasksInv, StartTick \/ Call \/ Skip \/ Terminating PROVE TasksInv'
<1> USE DEF TasksInv
<1>1. UNCHANGED tasks
  BY DEF StartTick, Call, Skip, Terminating, tasksVars
<1>2. TaskPoolInv' /\ TaskInv' /\ InUse' = InUse
  BY <1>1 DEF tasks, TaskPoolInv, TaskInv, InUse, Free
<1>3. CASE StartTick
  <2>1. TasksStart \in InUse \cup {NULL}
    BY ListFacts
  <2> QED BY <1>1, <1>2, <1>3, <2>1, Zenon DEF StartTick, WalkInv, tasks
<1>4. CASE Call
  BY <1>1, <1>2, <1>4 DEF Call, WalkInv, tasks
<1>5. CASE Skip
  <2>1. currentTask \in InUse /\ currentTask # NULL
    BY <1>5 DEF Skip, WalkInv
  <2>2. taskLink[currentTask].next \in InUse \cup {NULL}
    BY <2>1, ListFacts DEF WellLinked
  <2> QED BY <1>1, <1>2, <1>5, <2>2 DEF Skip, WalkInv, tasks
<1>6. CASE Terminating
  BY <1>1, <1>2, <1>6 DEF Terminating, tasksVars, WalkInv, tasks
<1> QED BY <1>3, <1>4, <1>5, <1>6

(* OsTick takes the result of a poll function; a finished task keeps its slot. *)
LEMMA ReturnKeeps ==
  ASSUME TasksAssumption, TaskListAssumption, TasksInv, NEW s \in TaskSlots, NEW r \in Results(s), Return(s, r)
  PROVE  TasksInv'
<1> USE DEF TasksInv
<1>1. /\ running /\ currentTask = s /\ status' = r
      /\ taskPoll' = IF r = TASK_FINISHED THEN [taskPoll EXCEPT ![s] = NULL] ELSE taskPoll
      /\ currentTask' = IF r = TASK_READY THEN NULL ELSE taskLink[s].next
      /\ running' = FALSE
      /\ UNCHANGED <<TasksStart, taskLink, data, priority, booted, stopped, ends>>
  BY DEF Return
<1>2. taskPoll \in [TaskSlots -> Programs \cup {NULL}]
  BY DEF TaskPoolInv
<1>3. r \in {TASK_IDLE, TASK_READY, TASK_FINISHED} /\ (r = TASK_FINISHED => taskPoll[s] \in Jobs)
  BY DEF Results, TASK_IDLE, TASK_READY, TASK_FINISHED
<1>4. r = TASK_FINISHED => data[s]
  BY <1>3 DEF TaskInv, TaskListAssumption, TasksAssumption
<1>5. taskPoll' \in [TaskSlots -> Programs \cup {NULL}] /\ \A t \in TaskSlots : taskPoll'[t] \in {taskPoll[t], NULL}
  BY <1>1, <1>2, Zenon
<1>6. InUse' = InUse
  <2>1. \A t \in TaskSlots : t # s => taskPoll'[t] = taskPoll[t]
    BY <1>1, <1>2
  <2>2. r # TASK_FINISHED => taskPoll' = taskPoll
    BY <1>1
  <2> QED BY <1>1, <1>4, <2>1, <2>2 DEF InUse, Free
<1>7. TaskPoolInv'
  BY <1>1, <1>5, <1>6 DEF TaskPoolInv
<1>8. TaskInv'
  BY <1>1, <1>5 DEF TaskInv
<1>9. taskLink[s].next \in InUse \cup {NULL}
  <2>1. s \in InUse
    BY <1>1 DEF WalkInv
  <2> QED BY <2>1, ListFacts DEF WellLinked
<1>10. WalkInv'
  BY <1>1, <1>3, <1>6, <1>9, Zenon DEF WalkInv
<1> QED BY <1>7, <1>8, <1>10

(* Every step of the scheduler keeps the invariant. *)
LEMMA TasksStep == ASSUME TasksAssumption, TaskListAssumption, TasksInv, [TasksNext]_tasksVars PROVE TasksInv'
<1>1. CASE UNCHANGED tasksVars
  BY <1>1 DEF tasksVars, tasks, TasksInv, TaskPoolInv, TaskInv, WalkInv, InUse, Free
<1>2. CASE TasksNext
  <2>1. CASE Main
    BY <2>1, MainKeeps
  <2>2. CASE StartTick \/ Call \/ Skip \/ Terminating
    BY <2>2, WalkKeeps
  <2>3. CASE \E p \in Spawned : Spawn(p)
    BY <2>3, SpawnKeeps
  <2>4. CASE \E s \in TaskSlots : End(s)
    BY <2>4, EndKeeps
  <2>5. CASE \E s \in TaskSlots : \E r \in Results(s) : Return(s, r)
    BY <2>5, ReturnKeeps
  <2> QED BY <1>2, <2>1, <2>2, <2>3, <2>4, <2>5 DEF TasksNext
<1> QED BY <1>1, <1>2

(* The invariant is more than what the runs check of the list. *)
LEMMA TasksInvSound == ASSUME TasksAssumption, TasksInv PROVE TasksTypeOK /\ TaskListInv
<1> USE DEF TasksInv
<1>1. /\ MAX_TASKS \in Nat /\ TaskSlots = 1 .. MAX_TASKS /\ InUse \in SUBSET (1 .. MAX_TASKS)
      /\ WellLinked(taskLink, TasksStart, InUse, priority)
  BY ListFacts
<1>2. IsList(taskLink, TasksStart, InUse, priority)
  BY DEF TaskPoolInv
<1>3. TasksTypeOK
  BY <1>1 DEF TasksTypeOK, TaskPoolInv, WalkInv, Pools, Pointers
<1>4. Terminated(taskLink, TasksStart, MAX_TASKS) /\ Reachable(taskLink, TasksStart, MAX_TASKS) = InUse
  BY <1>1, <1>2, LoopSeesAll, Zenon
<1> QED BY <1>1, <1>3, <1>4 DEF TaskListInv, Listed, WellLinked

(* The list is sound in any behaviour, whatever the scheduling. *)
LEMMA TasksSoundAlways ==
  TasksAssumption /\ TaskListAssumption => (TasksInit /\ [][TasksNext]_tasksVars => []TaskListSound)
<1> SUFFICES ASSUME TasksAssumption, TaskListAssumption PROVE TasksInit /\ [][TasksNext]_tasksVars => []TaskListSound
  OBVIOUS
<1>1. TasksInit => TasksInv
  BY TasksInitInv
<1>2. TasksInv /\ [TasksNext]_tasksVars => TasksInv'
  BY TasksStep
<1>3. TasksInv => TaskListSound
  BY TasksInvSound DEF TaskListSound
<1> QED BY <1>1, <1>2, <1>3, PTL

(***************************************************************************)
(* TaskNew, TaskEnd, OsTick: the task list is whole, exact and in priority *)
(* order while it is walked, as long as the tasks without data do not      *)
(* finish and the first task is not ended.                                 *)
(***************************************************************************)
THEOREM TasksSound ==
  ASSUME TasksAssumption, TaskListAssumption PROVE TasksSpec => []TaskListSound
  BY TasksSoundAlways, PTL DEF TasksSpec

(* One step of a walk goes to a task that is not more important, or ends it. *)
LEMMA OrderStep ==
  ASSUME TasksAssumption, TasksInv, [TasksNext]_tasksVars
  PROVE  /\ (currentTask # NULL /\ currentTask' # NULL) => priority[currentTask] <= priority[currentTask']
         /\ (running /\ status' = TASK_READY /\ ~running') => currentTask' = NULL
<1> USE DEF TasksInv
<1>1. ASSUME currentTask # NULL, currentTask' = taskLink[currentTask].next, currentTask' # NULL
      PROVE  priority[currentTask] <= priority[currentTask']
  BY <1>1, ListFacts DEF WalkInv, WellLinked
<1>2. ASSUME currentTask # NULL, currentTask' = currentTask
      PROVE  priority[currentTask] <= priority[currentTask']
  <2>1. priority[currentTask] \in Nat
    BY <1>2 DEF WalkInv, TaskPoolInv, InUse
  <2> QED BY <1>2, <2>1
<1>3. CASE \E s \in TaskSlots : \E r \in Results(s) : Return(s, r)
  BY <1>1, <1>3 DEF Return
<1>4. CASE Skip
  BY <1>1, <1>4 DEF Skip
<1>5. CASE StartTick
  BY <1>2, <1>5 DEF StartTick
<1>6. CASE UNCHANGED tasksVars \/ Main \/ Call \/ Terminating
           \/ (\E p \in Spawned : Spawn(p)) \/ (\E s \in TaskSlots : End(s))
  <2>1. currentTask' = currentTask /\ (running => running')
    BY <1>6 DEF tasksVars, Main, Call, Terminating, Spawn, End
  <2> QED BY <1>2, <2>1
<1> QED
  <2>1. Skip => (running => running')
    BY DEF Skip
  <2> QED BY <1>3, <1>4, <1>5, <1>6, <2>1 DEF TasksNext

(***************************************************************************)
(* OsTick calls the tasks in the order of their priorities, and starts     *)
(* again from the first one after a task that was ready.                   *)
(***************************************************************************)
THEOREM WalksInOrder ==
  ASSUME TasksAssumption, TaskListAssumption PROVE TasksSpec => PriorityOrder
<1>1. TasksInit => TasksInv
  BY TasksInitInv
<1>2. TasksInv /\ [TasksNext]_tasksVars => TasksInv'
  BY TasksStep
<1>3. TasksInv /\ [TasksNext]_tasksVars =>
        [/\ (currentTask # NULL /\ currentTask' # NULL)
              => priority[currentTask] <= priority[currentTask']
         /\ (running /\ status' = TASK_READY /\ ~running') => currentTask' = NULL]_tasksVars
  BY OrderStep
<1> QED BY <1>1, <1>2, <1>3, PTL DEF TasksSpec, PriorityOrder
=============================================================================
