--------------------------- MODULE RoutinesProofs ---------------------------
(***************************************************************************)
(* The heap of malloc.c is sound for every set of size classes, every heap *)
(* and every sequence of requests, until NextBlock goes round.             *)
(*                                                                         *)
(* The leaf routines for every width of a word, every size of a buffer and *)
(* of a packet, every length and alignment of a copy, and every delay: the *)
(* clock, the division, the accounting of a data stage and memcpy.         *)
(***************************************************************************)
EXTENDS Routines, Malloc, WellFoundedInduction, TLAPS

(* The time each step may take. *)
USE SMTT(30), ZenonT(40)

-----------------------------------------------------------------------------

(***************************************************************************)
(* The room taken for a block is a positive number of bytes.               *)
(***************************************************************************)
LEMMA SpanPositive == \A n \in Nat : Span(n) \in Nat /\ Span(n) > 0
<1> SUFFICES ASSUME NEW n \in Nat PROVE Span(n) \in Nat /\ Span(n) > 0
  OBVIOUS
<1> DEFINE x == Header + n + BLOCK_ALIGN - 1
           q == x \div BLOCK_ALIGN
<1>1. x \in Nat /\ x >= BLOCK_ALIGN /\ BLOCK_ALIGN \in Nat /\ BLOCK_ALIGN > 0
  BY MallocAssumption
<1>2. q \in Int /\ q >= 1
  BY <1>1, SMTT(30)
<1>3. q * BLOCK_ALIGN \in Nat /\ q * BLOCK_ALIGN > 0
  <2> HIDE DEF q
  <2> QED BY <1>1, <1>2, SMTT(30)
<1> QED BY <1>3 DEF Span

(***************************************************************************)
(* MallocInit leaves an empty heap: nothing carved, every free list empty. *)
(***************************************************************************)
LEMMA InitInv == HeapInit => HeapInv
<1> SUFFICES ASSUME HeapInit PROVE HeapInv
  OBVIOUS
<1>1. HeapTypeOK
  BY MallocAssumption DEF HeapInit, MallocInit, HeapTypeOK, Addresses, BlockLimit
<1>2. Carved = {}
  BY DEF HeapInit, Carved
<1>3. HeapStart <= NextBlock
  BY MallocAssumption DEF HeapInit, MallocInit
<1>4. FreeListsSound
  BY <1>2 DEF HeapInit, MallocInit, FreeListsSound
<1> QED
  BY <1>1, <1>2, <1>3, <1>4 DEF HeapInv, BelowNext, Disjoint, InHeap, Fits, HeapInit

(***************************************************************************)
(* Taking the first block of a free list.                                  *)
(***************************************************************************)
LEMMA ReuseInv ==
  ASSUME HeapInv, ~wrapped, NEW n \in Requests, NEW c \in Classes,
         ClassOf(n, c), Reuse(n, c)
  PROVE  HeapInv'
<1> DEFINE a == Head(freeList[c])
<1>1. HeapTypeOK /\ BelowNext /\ Disjoint /\ InHeap /\ FreeListsSound /\ Fits
  BY DEF HeapInv
<1>2. /\ freeList[c] \in Seq(Addresses) /\ freeList[c] # << >>
      /\ n \in Nat /\ n <= c
  BY <1>1, MallocAssumption DEF HeapTypeOK, Reuse, ClassOf
<1>3. a \in Addresses /\ 1 \in DOMAIN freeList[c] /\ a = freeList[c][1]
  BY <1>2
<1>4. a \in Carved \ live /\ size[a] = c
  BY <1>1, <1>3 DEF FreeListsSound
<1>5. HeapTypeOK'
  BY <1>1, <1>2, <1>3 DEF HeapTypeOK, Reuse
<1>6. Carved' = Carved /\ NextBlock' = NextBlock /\ size' = size
  BY DEF Reuse, Carved
<1>7. BelowNext' /\ Disjoint' /\ InHeap'
  BY <1>1, <1>6 DEF BelowNext, Disjoint, InHeap
<1>8. FreeListsSound'
  <2>1. live' \subseteq Carved'
    BY <1>1, <1>4, <1>6 DEF Reuse, FreeListsSound
  <2>2. ASSUME NEW d \in Classes, NEW i \in DOMAIN freeList'[d]
        PROVE  /\ freeList'[d][i] \in Carved' \ live'
               /\ size'[freeList'[d][i]] = d
               /\ \A j \in DOMAIN freeList'[d] : freeList'[d][i] = freeList'[d][j] => i = j
    <3>1. CASE d = c
      <4>1. freeList'[c] = Tail(freeList[c])
        BY <1>1 DEF Reuse, HeapTypeOK
      <4>2. ASSUME NEW j \in DOMAIN freeList'[c]
            PROVE  /\ j + 1 \in DOMAIN freeList[c]
                   /\ freeList'[c][j] = freeList[c][j + 1]
                   /\ j + 1 # 1 /\ j \in Int
        BY <1>2, <4>1
      <4>3. \A j \in DOMAIN freeList'[c] :
              /\ freeList'[c][j] \in Carved \ live
              /\ size[freeList'[c][j]] = c
              /\ freeList'[c][j] # a
        BY <1>1, <1>3, <4>2 DEF FreeListsSound
      <4>4. \A j \in DOMAIN freeList'[c] : freeList'[c][i] = freeList'[c][j] => i = j
        BY <1>1, <3>1, <4>2 DEF FreeListsSound
      <4> QED BY <3>1, <4>3, <4>4, <1>6 DEF Reuse
    <3>2. CASE d # c
      <4>1. freeList'[d] = freeList[d]
        BY <1>1, <3>2 DEF Reuse, HeapTypeOK
      <4>2. freeList[d][i] # a
        BY <1>1, <1>4, <3>2, <4>1 DEF FreeListsSound
      <4>3. /\ freeList[d][i] \in Carved \ live
            /\ size[freeList[d][i]] = d
            /\ \A j \in DOMAIN freeList[d] : freeList[d][i] = freeList[d][j] => i = j
        BY <1>1, <4>1 DEF FreeListsSound
      <4>4. live' = live \cup {a}
        BY DEF Reuse
      <4> QED BY <4>1, <4>2, <4>3, <4>4, <1>6
    <3> QED BY <3>1, <3>2
  <2> QED BY <2>1, <2>2 DEF FreeListsSound
<1>9. Fits'
  BY <1>1, <1>2, <1>3, <1>4 DEF Fits, Reuse, HeapTypeOK
<1> QED BY <1>5, <1>7, <1>8, <1>9 DEF HeapInv

(***************************************************************************)
(* Carving a block of m bytes, m the class or the request itself.          *)
(***************************************************************************)
LEMMA CarveInv ==
  ASSUME HeapInv, ~wrapped, NEW n \in Nat, NEW m \in Nat \ {0}, n <= m, Carve(n, m)
  PROVE  HeapInv'
<1> DEFINE a   == NextBlock
           end == (NextBlock + Span(m)) % AddressSpace
<1>1. HeapTypeOK /\ BelowNext /\ Disjoint /\ InHeap /\ FreeListsSound /\ Fits
  BY DEF HeapInv
<1>2. Span(m) \in Nat /\ Span(m) > 0
  BY SpanPositive
<1>3. a \in Addresses /\ a \in Nat /\ AddressSpace \in Nat \ {0}
  BY <1>1, MallocAssumption DEF HeapTypeOK, Addresses
<1>4. end \in Addresses
  BY <1>2, <1>3, SMTT(30) DEF Addresses
<1>5. HeapTypeOK'
  <2>1. NextBlock' \in Addresses
    BY <1>4 DEF Carve
  <2>2. size' \in [Addresses -> Nat] /\ live' \subseteq Addresses /\ asked' \in [Addresses -> Nat]
    BY <1>1, <1>3, Zenon DEF Carve, HeapTypeOK
  <2>3. freeList' \in [Classes -> Seq(Addresses)]
    BY <1>1 DEF Carve, HeapTypeOK
  <2>4. wrapped' \in BOOLEAN
    BY DEF Carve
  <2> QED BY <2>1, <2>2, <2>3, <2>4 DEF HeapTypeOK
<1>6. SUFFICES ASSUME ~wrapped'
               PROVE  BelowNext' /\ Disjoint' /\ InHeap' /\ FreeListsSound' /\ Fits'
  BY <1>5 DEF HeapInv
<1>7. NextBlock + Span(m) < AddressSpace
  <2>1. wrapped' = (wrapped \/ NextBlock + Span(m) >= AddressSpace)
    BY DEF Carve
  <2>2. ~(NextBlock + Span(m) >= AddressSpace)
    BY <2>1, <1>6, Zenon
  <2> QED BY <2>2, <1>2, <1>3
<1>8. NextBlock' = NextBlock + Span(m) /\ end = NextBlock + Span(m)
  <2>1. end = NextBlock + Span(m)
    BY <1>2, <1>3, <1>7, SMTT(30)
  <2> QED BY <2>1 DEF Carve
<1>9. CASE end > BlockLimit
  <2>1. size' = size /\ live' = live /\ asked' = asked /\ freeList' = freeList /\ Carved' = Carved
    BY <1>9 DEF Carve, Carved
  <2>2. BelowNext'
    <3>1. ASSUME NEW b \in Carved
          PROVE  b \in Nat /\ Span(size[b]) \in Nat
      <4>1. b \in Nat /\ size[b] \in Nat
        BY <1>1, <1>3 DEF Carved, HeapTypeOK, Addresses
      <4> QED BY <4>1, SpanPositive
    <3> QED BY <1>1, <1>2, <1>3, <1>8, <2>1, <3>1, MallocAssumption DEF BelowNext
  <2> QED BY <1>1, <2>1, <2>2 DEF Disjoint, InHeap, FreeListsSound, Fits
<1>10. CASE ~(end > BlockLimit)
  <2>1. /\ size' = [size EXCEPT ![a] = m]
        /\ live' = live \cup {a}
        /\ asked' = [asked EXCEPT ![a] = n]
        /\ freeList' = freeList
    BY <1>10 DEF Carve
  <2>2. Carved' = Carved \cup {a} /\ size'[a] = m
    BY <1>1, <1>3, <2>1 DEF Carved, HeapTypeOK
  <2>3. ASSUME NEW b \in Carved
        PROVE  /\ b \in Nat /\ Span(size[b]) \in Nat
               /\ Span(size[b]) > 0 /\ b + Span(size[b]) <= a
    <3>1. b \in Nat /\ size[b] \in Nat
      BY <1>1, <1>3 DEF Carved, HeapTypeOK, Addresses
    <3>2. b + Span(size[b]) <= a
      BY <1>1 DEF BelowNext
    <3> QED BY <3>1, <3>2, SpanPositive
  <2>4. a \notin Carved
    BY <2>3, <1>3
  <2>5. \A b \in Carved : size'[b] = size[b] /\ b # a
    BY <1>1, <2>1, <2>4 DEF HeapTypeOK, Carved
  <2>6. BelowNext'
    BY <1>1, <1>2, <1>3, <1>8, <2>2, <2>3, <2>5, MallocAssumption DEF BelowNext
  <2>7. Disjoint'
    BY <1>1, <1>3, <2>2, <2>3, <2>5 DEF Disjoint
  <2>8. InHeap'
    BY <1>1, <1>2, <1>3, <1>8, <1>10, <2>2, <2>3, <2>5, MallocAssumption
       DEF InHeap, BelowNext, BlockLimit
  <2>9. FreeListsSound'
    <3>1. live' \subseteq Carved'
      BY <1>1, <2>1, <2>2 DEF FreeListsSound
    <3>2. ASSUME NEW d \in Classes, NEW i \in DOMAIN freeList[d]
          PROVE  /\ freeList[d][i] \in Carved \ live
                 /\ size[freeList[d][i]] = d
                 /\ \A j \in DOMAIN freeList[d] : freeList[d][i] = freeList[d][j] => i = j
      BY <1>1 DEF FreeListsSound
    <3>3. ASSUME NEW d \in Classes, NEW i \in DOMAIN freeList[d]
          PROVE  freeList[d][i] \in Carved' \ live' /\ size'[freeList[d][i]] = d
      BY <3>2, <2>1, <2>2, <2>5
    <3> QED BY <2>1, <3>1, <3>2, <3>3 DEF FreeListsSound
  <2>10. Fits'
    <3>1. \A b \in live : b \in Carved
      BY <1>1 DEF FreeListsSound
    <3> QED BY <1>1, <1>3, <2>1, <2>2, <2>5, <3>1 DEF Fits, HeapTypeOK
  <2> QED BY <2>6, <2>7, <2>8, <2>9, <2>10
<1> QED BY <1>9, <1>10

(***************************************************************************)
(* Giving a block back: it goes to the front of the list of its own class, *)
(* where it was not before.                                                *)
(***************************************************************************)
LEMMA FreeInv ==
  ASSUME HeapInv, ~wrapped, NEW a \in live, free(a)
  PROVE  HeapInv'
<1>1. HeapTypeOK /\ BelowNext /\ Disjoint /\ InHeap /\ FreeListsSound /\ Fits
  BY DEF HeapInv
<1>2. /\ live' = live \ {a}
      /\ NextBlock' = NextBlock /\ size' = size /\ asked' = asked /\ wrapped' = wrapped
      /\ Carved' = Carved
  BY DEF free, Carved
<1>3. a \in Addresses /\ a \in Carved
  BY <1>1 DEF HeapTypeOK, FreeListsSound
<1>4. \A c \in Classes : freeList'[c] = IF size[a] = c THEN <<a>> \o freeList[c] ELSE freeList[c]
  BY DEF free
<1>5. \A c \in Classes : freeList[c] \in Seq(Addresses)
  BY <1>1 DEF HeapTypeOK
<1>6. HeapTypeOK'
  <2>1. ASSUME NEW c \in Classes PROVE freeList'[c] \in Seq(Addresses)
    <3>1. freeList[c] \in Seq(Addresses) /\ <<a>> \in Seq(Addresses)
      BY <1>3, <1>5
    <3>2. <<a>> \o freeList[c] \in Seq(Addresses)
      BY <3>1
    <3> QED BY <1>4, <3>1, <3>2, Zenon
  <2>2. freeList' = [c \in Classes |-> freeList'[c]]
    BY DEF free
  <2>3. freeList' \in [Classes -> Seq(Addresses)]
    BY <2>1, <2>2
  <2> QED BY <1>1, <1>2, <2>3 DEF HeapTypeOK
<1>7. BelowNext' /\ Disjoint' /\ InHeap' /\ Fits'
  BY <1>1, <1>2 DEF BelowNext, Disjoint, InHeap, Fits
<1>8. FreeListsSound'
  <2>1. live' \subseteq Carved'
    BY <1>1, <1>2 DEF FreeListsSound
  <2>2. ASSUME NEW c \in Classes, NEW i \in DOMAIN freeList'[c]
        PROVE  /\ freeList'[c][i] \in Carved' \ live'
               /\ size'[freeList'[c][i]] = c
               /\ \A j \in DOMAIN freeList'[c] : freeList'[c][i] = freeList'[c][j] => i = j
    <3> DEFINE old == freeList[c]
    <3>1. \A k \in DOMAIN old :
             /\ old[k] \in Carved \ live
             /\ size[old[k]] = c
             /\ \A j \in DOMAIN old : old[k] = old[j] => k = j
      BY <1>1 DEF FreeListsSound
    <3>2. CASE size[a] = c
      <4>1. freeList'[c] = <<a>> \o old /\ old \in Seq(Addresses)
        BY <1>4, <1>5, <3>2, Zenon
      <4>2. DOMAIN old = 1 .. Len(old) /\ Len(old) \in Nat
        BY <4>1
      <4>3. DOMAIN freeList'[c] = 1 .. Len(old) + 1
        BY <1>3, <4>1
      <4>4. freeList'[c][1] = a
        BY <1>3, <4>1
      <4>5. \A k \in 2 .. Len(old) + 1 : freeList'[c][k] = old[k - 1] /\ k - 1 \in DOMAIN old
        BY <1>3, <4>1, <4>2
      <4>6. \A k \in DOMAIN old : old[k] # a
        BY <3>1
      <4>7. CASE i = 1
        <5>1. ASSUME NEW j \in DOMAIN freeList'[c], freeList'[c][j] = a
              PROVE  j = 1
          <6> HIDE DEF old
          <6>1. SUFFICES ASSUME j # 1 PROVE FALSE
            OBVIOUS
          <6>2. j \in 2 .. Len(old) + 1
            BY <4>2, <4>3, <6>1
          <6> QED BY <4>5, <4>6, <5>1, <6>2
        <5> QED BY <1>2, <1>3, <3>2, <4>4, <4>7, <5>1
      <4>8. CASE i # 1
        <5>1. i \in 2 .. Len(old) + 1
          BY <4>2, <4>3, <4>8
        <5>2. i - 1 \in DOMAIN old /\ freeList'[c][i] = old[i - 1]
          BY <4>5, <5>1
        <5>3. freeList'[c][i] \in Carved' \ live' /\ size'[freeList'[c][i]] = c
          BY <1>2, <3>1, <5>2
        <5>4. ASSUME NEW j \in DOMAIN freeList'[c], freeList'[c][i] = freeList'[c][j]
              PROVE  i = j
          <6>1. j # 1
            BY <4>4, <4>6, <5>2, <5>4, Zenon
          <6>2. j \in 2 .. Len(old) + 1
            BY <4>2, <4>3, <6>1
          <6>3. j - 1 \in DOMAIN old /\ old[i - 1] = old[j - 1]
            BY <4>5, <5>2, <5>4, <6>2
          <6>4. i - 1 = j - 1
            BY <3>1, <5>2, <6>3
          <6> QED BY <5>1, <6>2, <6>4, <4>2
        <5> QED BY <5>3, <5>4
      <4> QED BY <4>7, <4>8
    <3>3. CASE size[a] # c
      <4>1. freeList'[c] = old
        BY <1>4, <3>3
      <4> QED BY <1>2, <3>1, <4>1
    <3> QED BY <3>2, <3>3
  <2> QED BY <2>1, <2>2 DEF FreeListsSound
<1> QED BY <1>6, <1>7, <1>8 DEF HeapInv

(***************************************************************************)
(* Every step keeps the inductive invariant: malloc by recycling or by     *)
(* carving, free by pushing.                                               *)
(***************************************************************************)
LEMMA NextInv == HeapInv /\ [HeapNext]_heapVars => HeapInv'
<1> SUFFICES ASSUME HeapInv, [HeapNext]_heapVars PROVE HeapInv'
  OBVIOUS
<1>1. CASE ~wrapped /\ \E n \in Requests : malloc(n)
  <2>1. PICK n \in Requests : malloc(n)
    BY <1>1
  <2>2. n \in Nat
    BY MallocAssumption
  <2>3. ASSUME NEW c \in Classes, ClassOf(n, c), Reuse(n, c) PROVE HeapInv'
    BY <1>1, <2>3, ReuseInv
  <2>4. ASSUME NEW c \in Classes, ClassOf(n, c), Carve(n, c) PROVE HeapInv'
    <3>1. c \in Nat \ {0} /\ n <= c
      BY <2>4, MallocAssumption DEF ClassOf
    <3> QED BY <1>1, <2>2, <2>4, <3>1, CarveInv
  <2>5. ASSUME \A c \in Classes : n > c, Carve(n, n) PROVE HeapInv'
    <3>1. PICK c \in Classes : c \in Nat \ {0}
      BY MallocAssumption, Zenon
    <3>2. n > c
      BY <2>5
    <3>3. n \in Nat \ {0} /\ n <= n
      BY <2>2, <3>1, <3>2
    <3> QED BY <1>1, <2>5, <3>3, CarveInv
  <2> QED BY <2>1, <2>3, <2>4, <2>5 DEF malloc
<1>2. CASE ~wrapped /\ \E a \in live : free(a)
  BY <1>2, FreeInv
<1>3. CASE UNCHANGED heapVars
  BY <1>3 DEF heapVars, HeapInv, HeapTypeOK, BelowNext, Disjoint, InHeap, FreeListsSound, Fits, Carved
<1> QED BY <1>1, <1>2, <1>3 DEF HeapNext

(***************************************************************************)
(* The inductive invariant holds throughout.                               *)
(***************************************************************************)
THEOREM Inductive == HeapSpec => []HeapInv
  BY InitInv, NextInv, PTL DEF HeapSpec

(***************************************************************************)
(* The fields of malloc.c keep their types: in particular NextBlock stays  *)
(* a machine address however many requests fail.                           *)
(***************************************************************************)
THEOREM TypeCorrect == HeapSpec => []HeapTypeOK
<1>1. HeapInv => HeapTypeOK
  BY DEF HeapInv
<1> QED BY <1>1, Inductive, PTL

(***************************************************************************)
(* malloc never hands out overlapping memory, nor memory outside the heap. *)
(***************************************************************************)
THEOREM NoOverlap == HeapSpec => []BlocksApart
<1>1. HeapInv => BlocksApart
  BY DEF HeapInv, BlocksApart
<1> QED BY <1>1, Inductive, PTL

(***************************************************************************)
(* A block is never both in use and on a free list, nor twice on one.      *)
(***************************************************************************)
THEOREM SingleOwner == HeapSpec => []OneOwner
<1>1. HeapInv => OneOwner
  BY DEF HeapInv, OneOwner
<1> QED BY <1>1, Inductive, PTL

(***************************************************************************)
(* malloc(n) returns a block of at least n bytes, recycled or new.         *)
(***************************************************************************)
THEOREM EnoughRoom == HeapSpec => []BigEnough
<1>1. HeapInv => BigEnough
  BY DEF HeapInv, BigEnough, Fits
<1> QED BY <1>1, Inductive, PTL

(***************************************************************************)
(* The three together: whatever the sizes asked for and the order of the   *)
(* calls, every block malloc hands out is memory of its owner alone, and   *)
(* enough of it.                                                           *)
(***************************************************************************)
THEOREM HeapIsSound == HeapSpec => []HeapSound
<1>1. BlocksApart /\ OneOwner /\ BigEnough => HeapSound
  BY DEF HeapSound
<1> QED BY <1>1, NoOverlap, SingleOwner, EnoughRoom, PTL

-----------------------------------------------------------------------------
(* A set of naturals that is not empty has a least element. *)
LEMMA LeastOf ==
  ASSUME NEW T \in SUBSET Nat, T # {}
  PROVE  \E m \in T : \A k \in T : m <= k
<1> DEFINE R == OpToRel(<, Nat)
<1>1. PICK m \in T : \A k \in T : ~(<<k, m>> \in R)
  <2>1. IsWellFoundedOn(R, Nat)
    BY NatLessThanWellFounded, Zenon
  <2> HIDE DEF R
  <2> QED BY <2>1, WFMin, Zenon
<1>2. ASSUME NEW k \in T PROVE m <= k
  <2>1. k \in Nat /\ m \in Nat
    OBVIOUS
  <2>2. ~(k < m)
    BY <1>1, <2>1, Zenon DEF OpToRel
  <2> QED BY <2>1, <2>2
<1> QED BY <1>2

(* A set of naturals with 0 and every successor is all of them. *)
LEMMA FromZeroOn ==
  ASSUME NEW S \in SUBSET Nat, 0 \in S, \A n \in S : n + 1 \in S
  PROVE  S = Nat
<1> SUFFICES ASSUME Nat \ S # {} PROVE FALSE
  BY Zenon
<1>1. PICK m \in Nat \ S : \A k \in Nat \ S : m <= k
  BY LeastOf, Zenon
<1>2. m - 1 \in S
  BY <1>1
<1> QED BY <1>1, <1>2

-----------------------------------------------------------------------------
(* The clock. *)

(* A reading under way; a timer whose readings were whole. *)
ClockInv ==
  /\ ticks \in Nat /\ started \in Nat /\ since \in Nat /\ low \in Nat /\ now \in Nat
  /\ delay \in Nat /\ expire \in Nat /\ remaining \in Nat
  /\ reading \in {"none", "TimerRegister", "TimerRemaining"}
  /\ reading # "none" => started <= ticks /\ low = started % Low
  /\ reading = "TimerRegister" => ~armed /\ since = started
  /\ reading = "TimerRemaining" => armed
  /\ armed /\ ~torn => expire = since + delay

(* The two halves put together: no other error than a whole low half. *)
LEMMA ComposeRight ==
  ASSUME Clk!ClockAssumption, ClockInv, reading # "none"
  PROVE  /\ Clk!Compose \in Nat
         /\ \E t \in started .. ticks : Clk!Compose \in {t, t + Low}
         /\ ticks \div Low = started \div Low => Clk!Compose = started
<1> DEFINE p == started \div Low
           q == ticks \div Low
<1>1. /\ Low \in Nat /\ Low > 0 /\ p \in Nat /\ q \in Nat /\ started \in Nat /\ ticks \in Nat
      /\ started <= ticks /\ low \in 0 .. Low - 1
      /\ started = Low * p + low
      /\ Low * q <= ticks /\ ticks < Low * q + Low
  BY DEF Clk!ClockAssumption, ClockInv
<1>2. Clk!Compose = low + Low * q
  BY DEF Clk!Compose, Clk!TIMER_CHI
<1> HIDE DEF p, q
<1>3. Low * p \in Nat /\ Low * q \in Nat
  BY <1>1
<1>4. CASE p = q
  BY <1>1, <1>2, <1>3, <1>4 DEF p, q
<1>5. CASE p # q
  <2> ticks \div Low # started \div Low
    BY <1>5 DEF p, q
  <2>1. p < q
    <3> SUFFICES ASSUME q < p PROVE FALSE
      BY <1>1, <1>5
    <3>1. Low * q + Low <= Low * p
      BY <1>1
    <3> QED BY <1>1, <1>3, <3>1
  <2>2. Low * p + Low <= Low * q
    BY <1>1, <2>1
  <2>3. CASE Clk!Compose <= ticks
    <3>1. Clk!Compose \in started .. ticks
      BY <1>1, <1>2, <1>3, <2>2, <2>3
    <3> QED BY <1>1, <3>1
  <2>4. CASE Clk!Compose > ticks
    <3> DEFINE t == Clk!Compose - Low
    <3>1. t \in started .. ticks
      BY <1>1, <1>2, <1>3, <2>2, <2>4
    <3>2. Clk!Compose = t + Low /\ Clk!Compose \in Nat
      BY <1>1, <1>2, <1>3
    <3> HIDE DEF t
    <3> QED BY <3>1, <3>2
  <2>5. Clk!Compose \in Int
    BY <1>1, <1>2, <1>3
  <2> QED BY <1>1, <2>3, <2>4, <2>5
<1> QED BY <1>4, <1>5

LEMMA ClockInit == Clk!ClockAssumption /\ Clk!Init => ClockInv
  BY DEF Clk!ClockAssumption, Clk!Init, ClockInv

LEMMA ClockStep ==
  ASSUME Clk!ClockAssumption, ClockInv, Clk!Next
  PROVE  ClockInv'
<1>1. CASE Clk!Tick
  BY <1>1 DEF Clk!Tick, ClockInv
<1>2. CASE Clk!RegisterLow
  BY <1>2 DEF Clk!RegisterLow, Clk!ReadLow, Clk!TIMER_CLO, ClockInv, Clk!ClockAssumption
<1>3. CASE Clk!TimerRegister
  <2>1. reading = "TimerRegister" /\ now' = Clk!Compose /\ expire' = now' + delay /\ armed' = TRUE
    BY <1>3 DEF Clk!TimerRegister, Clk!ReadHigh
  <2>2. Clk!Compose \in Nat /\ (ticks \div Low = started \div Low => Clk!Compose = started)
    BY <2>1, ComposeRight
  <2>3. ~torn' => ticks \div Low = started \div Low
    BY <1>3, Zenon DEF Clk!TimerRegister, Clk!ReadHigh
  <2>4. reading' = "none" /\ UNCHANGED <<ticks, low, started, delay, since, remaining>>
    BY <1>3, Zenon DEF Clk!TimerRegister, Clk!ReadHigh
  <2> QED BY <2>1, <2>2, <2>3, <2>4 DEF ClockInv
<1>4. CASE Clk!RemainingLow
  BY <1>4 DEF Clk!RemainingLow, Clk!ReadLow, Clk!TIMER_CLO, ClockInv, Clk!ClockAssumption
<1>5. CASE Clk!TimerRemaining
  <2>1. reading = "TimerRemaining" /\ now' = Clk!Compose
    BY <1>5 DEF Clk!TimerRemaining, Clk!ReadHigh
  <2>2. Clk!Compose \in Nat
    BY <2>1, ComposeRight
  <2>3. remaining' \in Nat
    BY <1>5, <2>1, <2>2 DEF Clk!TimerRemaining, Clk!Remaining, ClockInv
  <2>4. ~torn' => ~torn
    BY <1>5, Zenon DEF Clk!TimerRemaining, Clk!ReadHigh
  <2>5. armed
    BY <2>1 DEF ClockInv
  <2>6. reading' = "none" /\ UNCHANGED <<ticks, low, started, delay, since, expire>>
    BY <1>5, Zenon DEF Clk!TimerRemaining, Clk!ReadHigh
  <2> QED BY <2>1, <2>2, <2>3, <2>4, <2>5, <2>6 DEF ClockInv
<1> QED BY <1>1, <1>2, <1>3, <1>4, <1>5 DEF Clk!Next

(* What NeverBehind and ExpiresNotEarly say of a step. *)
LEMMA ClockSteps ==
  ASSUME Clk!ClockAssumption, ClockInv, Clk!Next
  PROVE  /\ now' # now \/ (reading # "none" /\ reading' = "none")
              => \E t \in started .. ticks : now' \in {t, t + Low}
         /\ armed /\ ~armed' /\ ~torn' => ticks >= since + delay
<1>1. CASE Clk!Tick
  BY <1>1 DEF Clk!Tick
<1>2. CASE Clk!RegisterLow
  BY <1>2 DEF Clk!RegisterLow, Clk!ReadLow
<1>3. CASE Clk!TimerRegister
  <2>1. reading # "none" /\ now' = Clk!Compose /\ armed' = TRUE
    BY <1>3 DEF Clk!TimerRegister, Clk!ReadHigh
  <2> QED BY <2>1, ComposeRight
<1>4. CASE Clk!RemainingLow
  BY <1>4 DEF Clk!RemainingLow, Clk!ReadLow
<1>5. CASE Clk!TimerRemaining
  <2>1. reading # "none" /\ now' = Clk!Compose
    BY <1>5 DEF Clk!TimerRemaining, Clk!ReadHigh
  <2>2. armed /\ ~armed' /\ ~torn' => ticks >= since + delay
    <3> SUFFICES ASSUME armed, ~armed', ~torn' PROVE ticks >= since + delay
      OBVIOUS
    <3>1. now' = started /\ ~torn
      BY <1>5, <2>1, ComposeRight, Zenon DEF Clk!TimerRemaining, Clk!ReadHigh, ClockInv
    <3>2. ~(Clk!Remaining(now') > 0)
      BY <1>5, Zenon DEF Clk!TimerRemaining
    <3>3. started >= expire
      BY <3>1, <3>2 DEF Clk!Remaining, ClockInv
    <3> QED BY <2>1, <3>1, <3>3 DEF ClockInv
  <2> QED BY <2>1, <2>2, ComposeRight
<1> QED BY <1>1, <1>2, <1>3, <1>4, <1>5 DEF Clk!Next

-----------------------------------------------------------------------------
(* The division. *)

(* Pow2 doubles. *)
LEMMA Pow2Def ==
  ASSUME Div!DivisionAssumption
  PROVE  /\ Div!Pow2[0] = 1 /\ \A n \in 1 .. Width : Div!Pow2[n] = 2 * Div!Pow2[n - 1]
         /\ \A n \in 0 .. Width : Div!Pow2[n] \in Nat \ {0}
<1> DEFINE Body(f, n) == IF n = 0 THEN 1 ELSE 2 * f[n - 1]
           Is(f, m) == f = [n \in 0 .. m |-> Body(f, n)]
           S == {m \in Nat : \E f : Is(f, m)}
<1>1. 0 \in S
  <2>1. Is([n \in 0 .. 0 |-> 1], 0)
    OBVIOUS
  <2> QED BY <2>1, Zenon
<1>2. ASSUME NEW m \in S PROVE m + 1 \in S
  <2>1. PICK f : Is(f, m)
    BY Zenon
  <2> DEFINE g == [n \in 0 .. m + 1 |-> IF n = m + 1 THEN 2 * f[m] ELSE f[n]]
  <2>2. \A n \in 0 .. m + 1 : g[n] = Body(g, n)
    <3>1. \A n \in 0 .. m : f[n] = Body(f, n)
      BY <2>1
    <3> QED BY <3>1
  <2>3. Is(g, m + 1)
    BY <2>2
  <2>4. m + 1 \in Nat
    OBVIOUS
  <2> QED BY <2>3, <2>4, Zenon
<1>3. S = Nat
  <2>1. S \in SUBSET Nat
    OBVIOUS
  <2> HIDE DEF S
  <2> QED BY <1>1, <1>2, <2>1, FromZeroOn, Zenon
<1>4. Is(Div!Pow2, Width)
  <2>1. Width \in S
    BY <1>3, Zenon DEF Div!DivisionAssumption
  <2>2. \E f : Is(f, Width)
    BY <2>1, Zenon
  <2> QED BY <2>2, Zenon DEF Div!Pow2
<1>5. \A n \in 0 .. Width : Div!Pow2[n] = Body(Div!Pow2, n)
  BY <1>4, Zenon
<1> DEFINE T == {n \in Nat : n <= Width => Div!Pow2[n] \in Nat \ {0}}
<1>6. T = Nat
  <2>1. 0 \in T
    BY <1>5 DEF Div!DivisionAssumption
  <2>2. ASSUME NEW n \in T PROVE n + 1 \in T
    <3> SUFFICES ASSUME n + 1 <= Width PROVE Div!Pow2[n + 1] \in Nat \ {0}
      OBVIOUS
    <3>1. Div!Pow2[n + 1] = 2 * Div!Pow2[n] /\ Div!Pow2[n] \in Nat \ {0}
      BY <1>5 DEF Div!DivisionAssumption
    <3> QED BY <3>1
  <2>3. T \in SUBSET Nat
    OBVIOUS
  <2> HIDE DEF T
  <2> QED BY <2>1, <2>2, <2>3, FromZeroOn, Zenon
<1>7. \A n \in 0 .. Width : n \in Nat /\ n <= Width
  BY DEF Div!DivisionAssumption
<1> QED BY <1>5, <1>6, <1>7 DEF Div!DivisionAssumption

(* What the quotient so far leaves of the dividend is less than the        *)
(* divisor shifted one bit further than the next round will try.           *)
DivInv ==
  /\ dividend \in Div!Words /\ divisor \in Div!Words \ {0}
  /\ value \in Nat /\ quotient \in Nat /\ bit \in -1 .. Width - 1
  /\ dividend = quotient * divisor + value
  /\ value < divisor * Div!Pow2[bit + 1]
  /\ ~returned => high = 0 \/ quotient >= Div!Pow2[Width - 1]
  /\ returned => bit = -1 /\ (high = value \/ quotient >= Div!Pow2[Width - 1])

(* Numbers are numbers. *)
LEMMA DivTypes ==
  ASSUME Div!DivisionAssumption
  PROVE  /\ Width \in Nat /\ Width > 0 /\ Width - 1 \in 0 .. Width
         /\ Div!Word \in Nat /\ Div!Word > 0 /\ Div!Word = Div!Pow2[Width]
         /\ Div!Pow2[Width - 1] \in Nat
         /\ \A w \in Div!Words : w \in Nat /\ w < Div!Word
<1>1. Width \in Nat /\ Width > 0 /\ Width - 1 \in 0 .. Width /\ Width \in 0 .. Width
  BY DEF Div!DivisionAssumption
<1>2. Div!Word \in Nat /\ Div!Word > 0 /\ Div!Word = Div!Pow2[Width] /\ Div!Pow2[Width - 1] \in Nat
  BY <1>1, Pow2Def DEF Div!Word
<1> QED BY <1>1, <1>2 DEF Div!Words

LEMMA DivInit == Div!DivisionAssumption /\ Div!Init => DivInv
<1> SUFFICES ASSUME Div!DivisionAssumption, Div!Init PROVE DivInv
  OBVIOUS
<1>1. dividend \in Nat /\ dividend < Div!Word /\ divisor \in Nat /\ divisor > 0 /\ Div!Word \in Nat
  BY DivTypes DEF Div!Init
<1>2. dividend < divisor * Div!Word
  <2>1. divisor * Div!Word >= Div!Word
    BY <1>1
  <2>2. divisor * Div!Word \in Nat
    BY <1>1
  <2> QED BY <1>1, <2>1, <2>2
<1>3. bit = Width - 1 /\ bit + 1 = Width /\ bit \in -1 .. Width - 1
  BY DivTypes DEF Div!Init
<1>4. 0 * divisor + dividend = dividend
  BY <1>1
<1>5. ~returned
  BY Zenon DEF Div!Init
<1> QED BY <1>1, <1>2, <1>3, <1>4, <1>5, DivTypes DEF Div!Init, DivInv

(* The test of a round: the shift loses nothing, and the rest is enough. *)
LEMMA FitsRight ==
  ASSUME Div!DivisionAssumption, DivInv, bit >= 0
  PROVE  LET shifted == divisor * Div!Pow2[bit]
         IN  /\ shifted \in Nat
             /\ Div!Fits => Div!Shifted(divisor, bit) = shifted /\ shifted <= value
             /\ ~Div!Fits => value < shifted
<1> DEFINE p == Div!Pow2[bit]
           s == divisor * p
           t == Div!Shifted(divisor, bit)
<1>1. divisor \in Nat /\ divisor > 0 /\ value \in Nat /\ bit \in 0 .. Width
  BY DivTypes DEF DivInv
<1>2. p \in Nat /\ p > 0
  BY <1>1, Pow2Def
<1>3. s \in Nat /\ s >= p
  BY <1>1, <1>2
<1>4. Div!Word \in Nat /\ Div!Word > 0 /\ value < Div!Word
  <2>1. quotient * divisor \in Nat /\ dividend \in Nat /\ dividend < Div!Word
        /\ dividend = quotient * divisor + value
    BY <1>1, DivTypes DEF DivInv
  <2> QED BY <1>1, <2>1, DivTypes
<1> HIDE DEF p
<1>5. t = s % Div!Word
  BY DEF Div!Shifted, p
<1>6. t \in Nat /\ (s < Div!Word => t = s) /\ (s >= Div!Word => t < s)
  <2> HIDE DEF s, t
  <2> QED BY <1>3, <1>4, <1>5
<1>7. t \div p = divisor => t >= s
  <2> HIDE DEF t
  <2> QED BY <1>1, <1>2, <1>6
<1>8. s \div p = divisor
  BY <1>1, <1>2
<1> HIDE DEF s, t
<1>9. Div!Fits <=> t \div p = divisor /\ value >= t
  BY DEF Div!Fits, t, p
<1> QED BY <1>1, <1>3, <1>4, <1>6, <1>7, <1>8, <1>9 DEF s, t, p

LEMMA DivStep ==
  ASSUME Div!DivisionAssumption, DivInv, Div!Next
  PROVE  DivInv'
<1>0. divisor \in Nat /\ divisor > 0 /\ value \in Nat /\ quotient \in Nat /\ bit \in -1 .. Width - 1
      /\ Width \in Nat
  BY DivTypes DEF DivInv
<1>1. CASE Div!Subtract
  <2>1. bit >= 0 /\ Div!Fits /\ ~returned /\ bit \in 0 .. Width - 1
    BY <1>0, <1>1 DEF Div!Subtract
  <2> DEFINE p == Div!Pow2[bit]
             s == divisor * p
  <2>2. s \in Nat /\ s <= value /\ Div!Shifted(divisor, bit) = s
    BY <2>1, FitsRight
  <2>3. p \in Nat /\ p > 0 /\ Div!Pow2[bit + 1] = 2 * p
    <3>1. bit \in 0 .. Width /\ bit + 1 \in 1 .. Width /\ bit + 1 - 1 = bit
      BY <1>0, <2>1
    <3> QED BY <3>1, Pow2Def
  <2>4. value < s + s
    <3>1. value < divisor * (2 * p)
      BY <2>3 DEF DivInv
    <3> HIDE DEF p
    <3> QED BY <1>0, <2>3, <3>1
  <2>5. value' = value - s /\ quotient' = quotient + p
        /\ high' = (IF bit = Width - 1 THEN Div!Word - 1 ELSE high)
        /\ bit' = (IF value' = 0 THEN -1 ELSE bit - 1)
        /\ UNCHANGED <<dividend, divisor, returned>>
    BY <1>1, <2>2 DEF Div!Subtract, Div!SetBit
  <2>6. value' \in Nat /\ quotient' \in Nat /\ bit' \in -1 .. Width - 1 /\ value' < s
    BY <1>0, <2>1, <2>2, <2>3, <2>4, <2>5
  <2>7. dividend = (quotient + p) * divisor + (value - s)
    <3>1. dividend = quotient * divisor + value
      BY DEF DivInv
    <3> HIDE DEF p
    <3> QED BY <1>0, <2>2, <2>3, <3>1
  <2>8. value' < divisor * Div!Pow2[bit' + 1]
    <3>1. CASE value' = 0
      <4>1. bit' + 1 = 0
        BY <2>5, <3>1
      <4> QED BY <1>0, <3>1, <4>1, Pow2Def
    <3>2. CASE value' # 0
      <4>1. bit' + 1 = bit
        BY <1>0, <2>5, <3>2
      <4> QED BY <2>6, <4>1
    <3> QED BY <3>1, <3>2
  <2>9. high' = 0 \/ quotient' >= Div!Pow2[Width - 1]
    <3>1. Div!Pow2[Width - 1] \in Nat
      BY DivTypes
    <3>2. CASE bit = Width - 1
      BY <1>0, <2>5, <3>1, <3>2
    <3>3. CASE bit # Width - 1
      <4>1. high = 0 \/ quotient >= Div!Pow2[Width - 1]
        BY <2>1 DEF DivInv
      <4> HIDE DEF p
      <4> QED BY <1>0, <2>3, <2>5, <3>1, <3>3, <4>1
    <3> QED BY <3>2, <3>3
  <2>10. ~returned'
    BY <2>1, <2>5
  <2>11. dividend' \in Div!Words /\ divisor' \in Div!Words \ {0}
    BY <2>5 DEF DivInv
  <2>12. dividend' = quotient' * divisor' + value' /\ value' < divisor' * Div!Pow2[bit' + 1]
    BY <2>5, <2>7, <2>8
  <2> HIDE DEF p, s
  <2> QED BY <2>6, <2>9, <2>10, <2>11, <2>12 DEF DivInv
<1>2. CASE Div!Skip
  <2>1. bit >= 0 /\ ~Div!Fits /\ ~returned /\ bit' = bit - 1
        /\ UNCHANGED <<dividend, divisor, value, quotient, high, returned>>
    BY <1>2 DEF Div!Skip
  <2>2. value < divisor * Div!Pow2[bit]
    BY <2>1, FitsRight
  <2>3. bit' + 1 = bit /\ bit' \in -1 .. Width - 1
    BY <1>0, <2>1
  <2> QED BY <2>1, <2>2, <2>3 DEF DivInv
<1>3. CASE Div!Return
  BY <1>3 DEF Div!Return, DivInv
<1>4. CASE Div!Done
  BY <1>4 DEF Div!Done, Div!vars, DivInv
<1> QED BY <1>1, <1>2, <1>3, <1>4 DEF Div!Next

(* A rest less than the divisor is the remainder. *)
LEMMA DivSafe == Div!DivisionAssumption /\ DivInv => Div!Divides
<1> SUFFICES ASSUME Div!DivisionAssumption, DivInv, returned
             PROVE  /\ quotient = dividend \div divisor
                    /\ quotient < Div!Pow2[Width - 1] => high = dividend % divisor
  BY DEF Div!Divides
<1>1. divisor \in Nat /\ divisor > 0 /\ value \in Nat /\ quotient \in Nat /\ dividend \in Nat
      /\ dividend = quotient * divisor + value /\ Div!Pow2[Width - 1] \in Nat
  BY DivTypes DEF DivInv
<1>2. value < divisor
  <2>1. bit + 1 = 0
    BY DEF DivInv
  <2>2. value < divisor * 1
    BY <2>1, Pow2Def DEF DivInv
  <2> QED BY <1>1, <2>2
<1>3. quotient = dividend \div divisor /\ value = dividend % divisor
  BY <1>1, <1>2
<1>4. high = value \/ quotient >= Div!Pow2[Width - 1]
  BY DEF DivInv
<1> QED BY <1>1, <1>3, <1>4

-----------------------------------------------------------------------------
(* The accounting of a data stage. *)

(* The loop of TransferStageDataAttach stops at the first count of packets *)
(* that holds all but the last byte.                                       *)
LEMMA PacketCountRight ==
  ASSUME NEW n \in Nat, n > 1, NEW m \in Nat \ {0}
  PROVE  /\ Stg!PacketCount(n, m) \in 1 .. n
         /\ Stg!PacketCount(n, m) * m >= n - 1
         /\ \A j \in 0 .. Stg!PacketCount(n, m) - 1 : j * m < n - 1
<1> DEFINE Stops(k) == /\ n + m - 1 - k * m <= m
                       /\ \A j \in 0 .. k - 1 : n + m - 1 - j * m > m
           w == (n + m - 2) \div m
<1>1. w \in Nat /\ m * w <= n + m - 2 /\ n + m - 2 < m * w + m
  OBVIOUS
<1> HIDE DEF w
<1>2. w <= n
  <2> SUFFICES ASSUME w >= n + 1 PROVE FALSE
    BY <1>1
  <2>1. m * w >= m * n + m
    BY <1>1
  <2>2. m * n >= n
    OBVIOUS
  <2> QED BY <1>1, <2>1, <2>2
<1>3. Stops(w)
  <2>1. ASSUME NEW j \in 0 .. w - 1 PROVE n + m - 1 - j * m > m
    <3>1. j * m + m <= m * w
      BY <1>1
    <3> QED BY <1>1, <3>1
  <2>2. w * m = m * w
    BY <1>1
  <2> QED BY <1>1, <2>1, <2>2
<1>4. PICK k : k = Stg!PacketCount(n, m)
  OBVIOUS
<1>5. k \in 0 .. n /\ Stops(k)
  <2>1. w \in 0 .. n
    BY <1>1, <1>2
  <2>2. k = CHOOSE i \in 0 .. n : Stops(i)
    BY <1>4 DEF Stg!PacketCount
  <2> HIDE DEF Stops
  <2> QED BY <1>3, <2>1, <2>2, Zenon
<1>6. k * m >= n - 1 /\ k # 0
  BY <1>5
<1>7. \A j \in 0 .. k - 1 : j * m < n - 1
  BY <1>5
<1> QED BY <1>4, <1>5, <1>6, <1>7

Total   == Stg!PacketCount(transferSize, maxPacketSize)
Counted == (Total - packets) * maxPacketSize

(* The data stage while a transaction is under way.  A transaction counts  *)
(* at most a packet's bytes for a packet, and exactly those until the      *)
(* device falls short.                                                     *)
StageInv ==
  /\ splitTransaction \in BOOLEAN /\ short \in BOOLEAN /\ active \in BOOLEAN
  /\ Stg!WholeBufferMoved
  /\ active =>
       /\ transferSize \in 2 .. MaxSize /\ maxPacketSize \in Nat \ {0}
       /\ totalBytesTransfered \in Nat /\ bytesPerTransaction \in Nat /\ packets \in 1 .. Total
       /\ totalBytesTransfered + bytesPerTransaction <= transferSize
       /\ IF splitTransaction
          THEN /\ packetsPerTransaction = 1
               /\ totalBytesTransfered <= Counted
               /\ bytesPerTransaction <= maxPacketSize
               /\ ~short => /\ totalBytesTransfered = Counted
                            /\ bytesPerTransaction =
                                 Stg!Smaller(maxPacketSize, transferSize - totalBytesTransfered)
          ELSE /\ packetsPerTransaction = packets /\ packets = Total
               /\ totalBytesTransfered = 0 /\ bytesPerTransaction = transferSize /\ ~short

LEMMA StageInit == Stg!Init => StageInv
<1> SUFFICES ASSUME Stg!Init PROVE StageInv
  OBVIOUS
<1>1. splitTransaction \in BOOLEAN /\ short \in BOOLEAN /\ active \in BOOLEAN /\ ~active
  BY Zenon DEF Stg!Init
<1>2. Stg!WholeBufferMoved
  BY DEF Stg!Init, Stg!WholeBufferMoved
<1> QED BY <1>1, <1>2 DEF StageInv

(* TransferStageDataAttach. *)
LEMMA AttachRight ==
  ASSUME Stg!StageAssumption, StageInv, Stg!TransferStageDataAttach
  PROVE  StageInv'
<1>1. PICK n \in 2 .. MaxSize, m \in MaxPacketSizes, split \in BOOLEAN : Stg!Attach(n, m, split)
  BY Zenon DEF Stg!TransferStageDataAttach
<1>2. n \in Nat /\ n > 1 /\ m \in Nat \ {0}
  BY DEF Stg!StageAssumption
<1>3. PICK k : k = Stg!PacketCount(n, m)
  OBVIOUS
<1>4. k \in 1 .. n
  BY <1>2, <1>3, PacketCountRight
<1>5. /\ transferSize' = n /\ maxPacketSize' = m /\ splitTransaction' = split
      /\ packets' = k
      /\ packetsPerTransaction' = (IF split THEN 1 ELSE k)
      /\ bytesPerTransaction' = (IF split THEN Stg!Smaller(n, m) ELSE n)
      /\ totalBytesTransfered' = 0
  BY <1>1, <1>3 DEF Stg!Attach
<1>6. short' = FALSE /\ active' = TRUE
  BY <1>1, Zenon DEF Stg!Attach
<1>7. Total' = k /\ Counted' = 0
  BY <1>2, <1>3, <1>4, <1>5 DEF Total, Counted
<1>8. Stg!WholeBufferMoved'
  BY <1>6 DEF Stg!WholeBufferMoved
<1>9. /\ splitTransaction' \in BOOLEAN /\ short' \in BOOLEAN /\ active' \in BOOLEAN
  BY <1>5, <1>6, Zenon
<1>10. CASE split
  BY <1>2, <1>4, <1>5, <1>6, <1>7, <1>8, <1>9, <1>10 DEF StageInv, Stg!Smaller, Stg!StageAssumption
<1>11. CASE ~split
  BY <1>2, <1>4, <1>5, <1>6, <1>7, <1>8, <1>9, <1>11 DEF StageInv, Stg!StageAssumption
<1> QED BY <1>10, <1>11

(* TransferStageDataTransactionComplete: the packets left are fewer. *)
LEMMA CompleteCounts ==
  ASSUME Stg!StageAssumption, StageInv, NEW n \in 0 .. MaxSize, NEW p \in 1 .. MaxSize,
         Stg!TransactionComplete(n, p)
  PROVE  /\ packets' = packets - p /\ p \in 1 .. packetsPerTransaction /\ p <= packets
         /\ n \in 0 .. bytesPerTransaction /\ n <= p * maxPacketSize
<1>1. active /\ Stg!Moved(n, p) /\ packets' = Stg!u32(packets - p)
  BY Zenon DEF Stg!TransactionComplete, Stg!Account
<1>2. /\ transferSize \in 2 .. MaxSize /\ maxPacketSize \in Nat \ {0} /\ packets \in 1 .. Total
      /\ bytesPerTransaction \in Nat
      /\ packetsPerTransaction \in {1, packets}
  BY <1>1 DEF StageInv
<1>3. Total \in 1 .. transferSize
  BY <1>2, PacketCountRight DEF Total
<1>4. p \in 1 .. packetsPerTransaction /\ n \in 0 .. bytesPerTransaction /\ n <= p * maxPacketSize
  BY <1>1, <1>2 DEF Stg!Moved, Stg!Smaller
<1>5. packets - p \in 0 .. MaxSize
  BY <1>2, <1>3, <1>4 DEF Stg!StageAssumption
<1>6. packets' = packets - p
  <2>1. packets' = (packets - p) % U32
    BY <1>1 DEF Stg!u32
  <2>2. U32 \in Nat /\ packets - p \in Nat /\ packets - p < U32
    BY <1>5 DEF Stg!StageAssumption
  <2>3. \A x, u \in Nat : x < u => x % u = x
    OBVIOUS
  <2> QED BY <2>1, <2>2, <2>3
<1>7. p <= packets
  <2>1. packets \in Nat /\ p \in Nat
    BY <1>2, <1>3, <1>4
  <2> QED BY <1>5, <2>1
<1> QED BY <1>4, <1>6, <1>7, Zenon

(* The only transaction of a stage without splits. *)
LEMMA WholeRight ==
  ASSUME Stg!StageAssumption, StageInv, ~splitTransaction,
         NEW n \in 0 .. MaxSize, NEW p \in 1 .. MaxSize, Stg!TransactionComplete(n, p)
  PROVE  StageInv'
<1>1. active /\ active' = FALSE /\ splitTransaction' = splitTransaction
  BY Zenon DEF Stg!TransactionComplete
<1>2. short' = (short \/ n < Stg!Smaller(bytesPerTransaction,
                                         packetsPerTransaction * maxPacketSize))
  BY Zenon DEF Stg!TransactionComplete
<1>3. /\ totalBytesTransfered' = totalBytesTransfered + n
      /\ transferSize' = transferSize /\ maxPacketSize' = maxPacketSize
  BY DEF Stg!TransactionComplete, Stg!Account, Stg!BytesTransfered
<1>4. PICK k : k = Total
  OBVIOUS
<1>5. /\ transferSize \in Nat /\ transferSize > 1 /\ maxPacketSize \in Nat \ {0}
      /\ packetsPerTransaction = k /\ totalBytesTransfered = 0
      /\ bytesPerTransaction = transferSize
  BY <1>1, <1>4 DEF StageInv
<1>6. k \in Nat /\ k * maxPacketSize >= transferSize - 1
  BY <1>4, <1>5, PacketCountRight DEF Total
<1>7. ASSUME ~short', (transferSize - 1) % maxPacketSize # 0
      PROVE  totalBytesTransfered' >= transferSize
  <2>1. n >= Stg!Smaller(transferSize, k * maxPacketSize)
    <3>1. ~(n < Stg!Smaller(bytesPerTransaction, packetsPerTransaction * maxPacketSize))
      BY <1>2, <1>7, Zenon
    <3> QED BY <1>5, <1>6, <3>1 DEF Stg!Smaller
  <2>2. k * maxPacketSize # transferSize - 1
    <3>1. (k * maxPacketSize) % maxPacketSize = 0
      BY <1>5, <1>6
    <3> QED BY <1>7, <3>1
  <2>3. k * maxPacketSize \in Nat
    BY <1>5, <1>6
  <2> QED BY <1>3, <1>5, <1>6, <2>1, <2>2, <2>3 DEF Stg!Smaller
<1>8. totalBytesTransfered' \in Nat
  BY <1>3, <1>5
<1>9. Stg!WholeBufferMoved'
  BY <1>3, <1>5, <1>7, <1>8 DEF Stg!WholeBufferMoved, Stg!TransferStageDataGetResultLen, Stg!Smaller
<1>10. splitTransaction' \in BOOLEAN /\ short' \in BOOLEAN /\ active' \in BOOLEAN /\ ~active'
  BY <1>1, <1>2, Zenon DEF StageInv
<1> QED BY <1>9, <1>10 DEF StageInv

(* A transaction of a stage with splits, of one packet. *)
LEMMA SplitRight ==
  ASSUME Stg!StageAssumption, StageInv, splitTransaction,
         NEW n \in 0 .. MaxSize, NEW p \in 1 .. MaxSize, Stg!TransactionComplete(n, p)
  PROVE  StageInv'
<1> DEFINE N == transferSize
           m == maxPacketSize
<1>1. /\ active
      /\ active' = (splitTransaction /\ packets' # 0)
      /\ splitTransaction' = splitTransaction
      /\ short' = (short \/ n < Stg!Smaller(bytesPerTransaction,
                                            packetsPerTransaction * maxPacketSize))
  BY Zenon DEF Stg!TransactionComplete
<1>2. N' = N /\ m' = m /\ packetsPerTransaction' = packetsPerTransaction /\ Total' = Total
  BY DEF Stg!TransactionComplete, Total
<1>3. PICK k, c : k = Total /\ c = (k - packets) * m
  OBVIOUS
<1>4. /\ MaxSize \in Nat /\ N \in 2 .. MaxSize /\ N \in Nat
      /\ m \in Nat \ {0} /\ totalBytesTransfered \in Nat
      /\ bytesPerTransaction \in Nat /\ packets \in 1 .. k /\ packetsPerTransaction = 1
      /\ totalBytesTransfered + bytesPerTransaction <= N
      /\ totalBytesTransfered <= c
      /\ bytesPerTransaction <= m
      /\ ~short => totalBytesTransfered = c
                   /\ bytesPerTransaction = Stg!Smaller(m, N - totalBytesTransfered)
  BY <1>1, <1>3 DEF StageInv, Counted, Stg!StageAssumption
<1>5. k \in 1 .. N /\ k * m >= N - 1 /\ \A j \in 0 .. k - 1 : j * m < N - 1
  BY <1>3, <1>4, PacketCountRight DEF Total
<1>6. packets' = packets - 1 /\ n \in 0 .. bytesPerTransaction
  BY <1>4, CompleteCounts
<1>7. Counted' = c + m /\ c \in Nat
  <2>1. (k - (packets - 1)) * m = c + m
    BY <1>3, <1>4, <1>5
  <2> QED BY <1>2, <1>3, <1>4, <1>5, <1>6, <2>1 DEF Counted
<1>8. c < N - 1
  BY <1>3, <1>4, <1>5
<1>9. totalBytesTransfered' = totalBytesTransfered +
         (IF n = 0 /\ bytesPerTransaction > 0 THEN m ELSE n)
  <2>1. p = 1
    BY <1>4, CompleteCounts
  <2>2. totalBytesTransfered' = totalBytesTransfered + Stg!BytesTransfered(n, p)
    BY Zenon DEF Stg!TransactionComplete, Stg!Account
  <2> QED BY <1>4, <2>1, <2>2 DEF Stg!BytesTransfered
<1>10. totalBytesTransfered' \in Nat /\ totalBytesTransfered' <= c + m
  BY <1>4, <1>6, <1>7, <1>9
<1>11. ASSUME ~short'
       PROVE  /\ ~short /\ n = Stg!Smaller(m, N - c) /\ n > 0
              /\ totalBytesTransfered' = c + Stg!Smaller(m, N - c)
  <2>1. /\ ~short
        /\ ~(n < Stg!Smaller(bytesPerTransaction, packetsPerTransaction * maxPacketSize))
    BY <1>1, <1>11, Zenon
  <2>2. n = Stg!Smaller(m, N - c) /\ n > 0
    BY <1>4, <1>6, <1>7, <1>8, <2>1 DEF Stg!Smaller
  <2> QED BY <1>4, <1>9, <2>1, <2>2
<1>12. splitTransaction' \in BOOLEAN /\ short' \in BOOLEAN /\ active' \in BOOLEAN
  BY <1>1, Zenon DEF StageInv
<1>13. CASE packets = 1
  <2>1. ~active'
    <3>1. packets' = 0
      BY <1>6, <1>13
    <3> QED BY <1>1, <3>1, Zenon
  <2>2. c + m = k * m
    BY <1>3, <1>4, <1>5, <1>13
  <2>3. ASSUME ~short', (N - 1) % m # 0 PROVE totalBytesTransfered' >= N
    <3>1. k * m # N - 1
      <4>1. (k * m) % m = 0
        BY <1>4, <1>5
      <4> QED BY <2>3, <4>1
    <3>2. c + m >= N
      BY <1>4, <1>5, <1>7, <2>2, <3>1
    <3> QED BY <1>4, <1>7, <1>11, <2>3, <3>2 DEF Stg!Smaller
  <2>4. Stg!WholeBufferMoved'
    BY <1>2, <1>4, <1>10, <2>3
       DEF Stg!WholeBufferMoved, Stg!TransferStageDataGetResultLen, Stg!Smaller
  <2> QED BY <1>12, <2>1, <2>4 DEF StageInv
<1>14. CASE packets > 1
  <2>1. active' /\ packets' \in 1 .. Total'
    <3>1. packets' # 0 /\ packets' \in 1 .. Total'
      BY <1>2, <1>3, <1>4, <1>5, <1>6, <1>14
    <3>2. active'
      BY <1>1, <3>1, Zenon
    <3> QED BY <3>1, <3>2
  <2>2. c + m < N - 1
    <3>1. (k - (packets - 1)) * m < N - 1
      BY <1>4, <1>5, <1>14
    <3> QED BY <1>3, <1>4, <1>5, <3>1
  <2>7. PICK t, b : t = totalBytesTransfered' /\ b = bytesPerTransaction'
    OBVIOUS
  <2> /\ c \in Nat /\ m \in Nat /\ N \in Nat /\ N <= MaxSize /\ MaxSize \in Nat
      /\ t \in Nat /\ t <= c + m
    BY <1>4, <1>7, <1>10, <2>7
  <2>3. b = Stg!Smaller(bytesPerTransaction, N - t) /\ t < N
    <3>1. b = Stg!Smaller(bytesPerTransaction, Stg!u32(N - t))
      BY <2>7, Zenon DEF Stg!TransactionComplete, Stg!Account
    <3>2. t < N
      BY <2>2
    <3>3. N - t \in 0 .. MaxSize
      BY <3>2
    <3> QED BY <3>1, <3>2, <3>3 DEF Stg!u32, Stg!StageAssumption
  <2>4. Stg!WholeBufferMoved'
    BY <2>1 DEF Stg!WholeBufferMoved
  <2>5. ASSUME ~short' PROVE t = c + m /\ b = Stg!Smaller(m, N - t)
    <3>1. t = c + Stg!Smaller(m, N - c) /\ ~short
      BY <1>11, <2>5, <2>7
    <3> QED BY <1>4, <2>2, <2>3, <3>1 DEF Stg!Smaller
  <2>6. b \in Nat /\ b <= m /\ t + b <= N
    BY <1>4, <2>3 DEF Stg!Smaller
  <2> QED BY <1>1, <1>2, <1>4, <1>7, <1>10, <1>12, <2>1, <2>4, <2>5, <2>6, <2>7, Zenon DEF StageInv
<1> QED BY <1>4, <1>13, <1>14

(* A step keeps the accounting right, and a transaction uses up packets. *)
LEMMA StageStep ==
  ASSUME Stg!StageAssumption, StageInv, Stg!Next
  PROVE  StageInv' /\ (active => packets' < packets)
<1>1. CASE Stg!TransferStageDataAttach
  <2>1. ~active
    BY <1>1 DEF Stg!TransferStageDataAttach
  <2> QED BY <1>1, <2>1, AttachRight
<1>2. ASSUME NEW n \in 0 .. MaxSize, NEW p \in 1 .. MaxSize, Stg!TransactionComplete(n, p)
      PROVE  StageInv' /\ (active => packets' < packets)
  <2>1. StageInv'
    BY <1>2, WholeRight, SplitRight
  <2>2. active => packets \in Nat
    BY DEF StageInv
  <2>3. packets' = packets - p
    BY <1>2, CompleteCounts
  <2> QED BY <2>1, <2>2, <2>3
<1> QED BY <1>1, <1>2 DEF Stg!Next

(* DMA within the buffer, the whole buffer moved. *)
LEMMA StageSafe == StageInv => Stg!DmaWithinBuffer /\ Stg!WholeBufferMoved
  BY DEF StageInv, Stg!DmaWithinBuffer

-----------------------------------------------------------------------------
(* memcpy. *)

(* The memory when b bytes have been copied. *)
Image(b) == [a \in Cpy!Addresses |-> IF a \in dst .. dst + b - 1 THEN src + a - dst ELSE a]

(* The arguments, and how far the loop has come. *)
CopyInv ==
  /\ dst \in Nat /\ src \in Nat /\ length \in Nat /\ dst < src
  /\ src + length <= 3 * Cpy!Region /\ Cpy!Region \in Nat
  /\ bytes \in 0 .. length
  /\ memory = Image(bytes)

LEMMA CopyInit == Cpy!CopyAssumption /\ Cpy!Init => CopyInv
<1> SUFFICES ASSUME Cpy!CopyAssumption, Cpy!Init PROVE CopyInv
  OBVIOUS
<1>1. Cpy!Region \in Nat /\ Cpy!Region >= MaxLength + 9
  BY DEF Cpy!Region, Cpy!CopyAssumption
<1>2. dst \in 0 .. 7 /\ length \in 0 .. MaxLength /\ bytes = 0 /\ MaxLength \in Nat
  BY DEF Cpy!Init, Cpy!CopyAssumption
<1>3. src \in Nat /\ dst < src /\ src + length <= 3 * Cpy!Region
  <2>1. CASE src \in {Cpy!Region + a : a \in Alignments}
    BY <1>1, <1>2, <2>1 DEF Cpy!CopyAssumption
  <2>2. CASE src \in {dst + n : n \in 1 .. MaxLength}
    BY <1>1, <1>2, <2>2
  <2> QED BY <2>1, <2>2 DEF Cpy!Init
<1>4. memory = Image(bytes)
  BY <1>2 DEF Cpy!Init, Image
<1> QED BY <1>1, <1>2, <1>3, <1>4 DEF CopyInv

(* A word that starts where the copy is, or a byte before, takes it to the *)
(* end of the word: what it reads is not yet overwritten.                  *)
LEMMA WordRight ==
  ASSUME CopyInv, NEW b \in 0 .. length, NEW c \in Nat, NEW width \in Nat \ {0},
         c <= b, b <= c + 1, c + width <= length
  PROVE  Cpy!Word(Image(b), dst + c, src + c, width) = Image(c + width)
<1>1. /\ dst \in Nat /\ src \in Nat /\ length \in Nat /\ dst < src
      /\ src + length <= 3 * Cpy!Region /\ Cpy!Region \in Nat
  BY DEF CopyInv
<1>2. ASSUME NEW a \in Cpy!Addresses
      PROVE  (IF a \in dst + c .. dst + c + width - 1 THEN Image(b)[src + c + a - (dst + c)]
              ELSE Image(b)[a])
             = IF a \in dst .. dst + (c + width) - 1 THEN src + a - dst ELSE a
  <2>1. a \in Nat
    BY <1>1 DEF Cpy!Addresses
  <2>2. CASE a \in dst + c .. dst + c + width - 1
    <3> DEFINE r == src + c + a - (dst + c)
    <3>1. r = src + a - dst /\ r \in Nat /\ r < src + length /\ r >= dst + b
      BY <1>1, <2>1, <2>2
    <3>2. r \in Cpy!Addresses
      BY <1>1, <3>1 DEF Cpy!Addresses
    <3> HIDE DEF r
    <3>3. Image(b)[r] = r
      BY <1>1, <3>1, <3>2 DEF Image
    <3>4. a \in dst .. dst + (c + width) - 1
      BY <1>1, <2>1, <2>2
    <3> QED BY <2>2, <3>1, <3>3, <3>4 DEF r
  <2>3. CASE a \notin dst + c .. dst + c + width - 1
    <3>1. a \in dst .. dst + b - 1 <=> a \in dst .. dst + (c + width) - 1
      BY <1>1, <2>1, <2>3
    <3> QED BY <2>3, <3>1 DEF Image
  <2> QED BY <2>2, <2>3
<1> QED BY <1>2 DEF Cpy!Word, Image

(* The inner loop, which copies word by word. *)
LEMMA WordsRight ==
  ASSUME CopyInv, NEW b \in 0 .. length, NEW c \in Nat, NEW width \in Nat \ {0},
         c <= b, b <= c + 1, c + width <= length
  PROVE  LET e == c + ((length - c) \div width) * width
         IN  Cpy!Words(Image(b), c, width) = Image(e) /\ e \in b .. length
<1>1. /\ dst \in Nat /\ src \in Nat /\ length \in Nat
  BY DEF CopyInv
<1> DEFINE words == (length - c) \div width
           Body(f, n) == IF n = 0 THEN Image(b)
                         ELSE Cpy!Word(f[n - 1], dst + c + (n - 1) * width,
                                       src + c + (n - 1) * width, width)
           Is(f, n) == f = [i \in 0 .. n |-> Body(f, i)]
<1>2. words \in Nat /\ words > 0 /\ words * width <= length - c
  <2>1. length - c \in Nat /\ length - c >= width
    BY <1>1
  <2>2. words \in Nat /\ width * words <= length - c /\ length - c < width * words + width
    BY <2>1
  <2> HIDE DEF words
  <2>3. words # 0
    BY <2>1, <2>2
  <2> QED BY <2>1, <2>2, <2>3
<1> HIDE DEF words
<1>3. ASSUME NEW n \in 1 .. words
      PROVE  n * width <= length - c /\ n * width >= width /\ n * width \in Nat
  <2>1. n \in Nat /\ n > 0 /\ n <= words
    BY <1>2
  <2>2. n * width <= words * width /\ n * width >= width /\ n * width \in Nat
    BY <1>2, <2>1
  <2> QED BY <1>1, <1>2, <2>2
<1> DEFINE F == [i \in 0 .. words |-> IF i = 0 THEN Image(b) ELSE Image(c + i * width)]
<1>4. Is(F, words)
  <2>1. ASSUME NEW n \in 0 .. words PROVE F[n] = Body(F, n)
    <3>1. CASE n = 0
      BY <1>2, <3>1
    <3>2. CASE n = 1
      <4>1. F[0] = Image(b) /\ F[1] = Image(c + width)
        BY <1>2
      <4>2. Cpy!Word(Image(b), dst + c, src + c, width) = Image(c + width)
        BY WordRight
      <4>3. dst + c + (1 - 1) * width = dst + c /\ src + c + (1 - 1) * width = src + c
        BY <1>1 DEF CopyInv
      <4> HIDE DEF F
      <4> QED BY <3>2, <4>1, <4>2, <4>3
    <3>3. CASE n > 1
      <4> DEFINE d == c + (n - 1) * width
      <4>1. n \in 1 .. words /\ n - 1 \in 1 .. words /\ n \in 0 .. words /\ n - 1 \in 0 .. words
        BY <1>2, <3>3
      <4>2. (n - 1) * width + width = n * width
        BY <1>2
      <4>3. d \in Nat /\ d \in 0 .. length /\ d + width = c + n * width /\ d + width <= length
        BY <1>1, <1>3, <4>1, <4>2
      <4>4. F[n - 1] = Image(d) /\ F[n] = Image(c + n * width)
        BY <3>3, <4>1
      <4>5. Cpy!Word(Image(d), dst + d, src + d, width) = Image(d + width)
        BY <4>3, WordRight
      <4>6. dst + d = dst + c + (n - 1) * width /\ src + d = src + c + (n - 1) * width
        BY <1>1, <1>3, <4>1
      <4> HIDE DEF F, d
      <4> QED BY <3>3, <4>3, <4>4, <4>5, <4>6
    <3> QED BY <1>2, <3>1, <3>2, <3>3
  <2>2. F = [i \in 0 .. words |-> F[i]]
    OBVIOUS
  <2> HIDE DEF F
  <2> QED BY <2>1, <2>2, Zenon
<1>5. PICK v : Is(v, words) /\ Cpy!Words(Image(b), c, width) = v[words]
  <2> HIDE DEF F
  <2>1. \E f : Is(f, words)
    BY <1>4, Zenon
  <2> QED BY <2>1, Zenon DEF Cpy!Words, words
<1>6. \A n \in 0 .. words : v[n] = F[n]
  <2> DEFINE S == {n \in Nat : n <= words => v[n] = F[n]}
  <2>1. \A n \in 0 .. words : v[n] = Body(v, n) /\ F[n] = Body(F, n)
    <3> HIDE DEF F
    <3> QED BY <1>4, <1>5, Zenon
  <2> HIDE DEF F
  <2>2. 0 \in S
    BY <1>2, <2>1
  <2>3. ASSUME NEW n \in S PROVE n + 1 \in S
    <3> SUFFICES ASSUME n + 1 <= words PROVE v[n + 1] = F[n + 1]
      OBVIOUS
    <3>1. n + 1 \in 0 .. words /\ n + 1 # 0 /\ (n + 1) - 1 = n
      BY <1>2
    <3>2. v[n] = F[n]
      BY <1>2
    <3> QED BY <2>1, <3>1, <3>2
  <2>4. S = Nat
    <3>1. S \in SUBSET Nat
      OBVIOUS
    <3> HIDE DEF S
    <3> QED BY <2>2, <2>3, <3>1, FromZeroOn
  <2> QED BY <1>2, <2>4
<1>7. words \in 0 .. words /\ words \in 1 .. words /\ words # 0
  BY <1>2
<1>8. F[words] = Image(c + words * width)
  BY <1>7
<1>9. c + words * width \in b .. length
  <2>1. words * width <= length - c /\ words * width >= width /\ words * width \in Nat
    BY <1>3, <1>7
  <2> QED BY <1>1, <2>1
<1> HIDE DEF F
<1> QED BY <1>5, <1>6, <1>7, <1>8, <1>9, Zenon DEF words

(* A round of memcpy's loop. *)
LEMMA CopyStep ==
  ASSUME Cpy!CopyAssumption, CopyInv, Cpy!Next
  PROVE  CopyInv'
<1>1. CASE Cpy!Return
  BY <1>1 DEF Cpy!Return, Cpy!vars, CopyInv, Image, Cpy!Addresses, Cpy!Region
<1>2. CASE Cpy!Step
  <2> DEFINE m == IF Cpy!Wide(bytes, 8) THEN Cpy!Words(memory, bytes, 8) ELSE memory
             b == IF Cpy!Wide(bytes, 8) THEN Cpy!LastOf(bytes, 8) ELSE bytes
  <2>1. /\ dst \in Nat /\ src \in Nat /\ length \in Nat /\ bytes \in 0 .. length
        /\ bytes < length /\ memory = Image(bytes)
        /\ UNCHANGED <<dst, src, length>>
    BY <1>2 DEF Cpy!Step, CopyInv
  <2>2. PICK e \in bytes .. length :
          m = Image(e) /\ b \in Nat /\ b \in bytes .. e /\ e <= b + 1 /\ b < length
    <3>1. CASE Cpy!Wide(bytes, 8)
      <4> DEFINE e == bytes + ((length - bytes) \div 8) * 8
      <4>1. bytes + 8 <= length
        BY <2>1, <3>1 DEF Cpy!Wide
      <4>2. m = Image(e) /\ e \in bytes .. length
        BY <2>1, <3>1, <4>1, WordsRight
      <4>3. b = e - 1 /\ e > bytes
        BY <2>1, <3>1, <4>1 DEF Cpy!LastOf
      <4> HIDE DEF e, m, b
      <4> QED BY <2>1, <4>2, <4>3
    <3>2. CASE ~Cpy!Wide(bytes, 8)
      BY <2>1, <3>2
    <3> QED BY <3>1, <3>2
  <2>3. /\ Cpy!Wide(b, 4) => memory' = Cpy!Words(m, b, 4) /\ bytes' = Cpy!LastOf(b, 4) + 1
        /\ ~Cpy!Wide(b, 4) => memory' = Cpy!Word(m, dst + b, src + b, 1) /\ bytes' = b + 1
    BY <1>2, Zenon DEF Cpy!Step
  <2> HIDE DEF m, b
  <2>4. memory' = Image(bytes') /\ bytes' \in 0 .. length
    <3>1. CASE Cpy!Wide(b, 4)
      <4> DEFINE d == b + ((length - b) \div 4) * 4
      <4>1. b + 4 <= length
        BY <2>1, <2>2, <3>1 DEF Cpy!Wide
      <4>2. Cpy!Words(Image(e), b, 4) = Image(d) /\ d \in e .. length
        BY <2>1, <2>2, <4>1, WordsRight
      <4>3. bytes' = d
        <5>1. ((length - b) \div 4) * 4 \in Int
          BY <2>1, <2>2
        <5> QED BY <2>1, <2>2, <2>3, <3>1, <5>1 DEF Cpy!LastOf
      <4> HIDE DEF d
      <4> QED BY <2>1, <2>2, <2>3, <3>1, <4>2, <4>3
    <3>2. CASE ~Cpy!Wide(b, 4)
      <4>1. Cpy!Word(Image(e), dst + b, src + b, 1) = Image(b + 1)
        BY <2>1, <2>2, WordRight
      <4> QED BY <2>1, <2>2, <2>3, <3>2, <4>1
    <3> QED BY <3>1, <3>2
  <2>5. memory' = Image(bytes)'
    BY <2>1, <2>4 DEF Image, Cpy!Addresses, Cpy!Region
  <2> QED BY <2>1, <2>4, <2>5 DEF CopyInv, Cpy!Region
<1> QED BY <1>1, <1>2 DEF Cpy!Next

(* At the end the region is copied. *)
LEMMA CopySafe == CopyInv => Cpy!Copies
<1> SUFFICES ASSUME CopyInv, bytes >= length, NEW a \in Cpy!Addresses
             PROVE  memory[a] = IF a \in dst .. dst + length - 1 THEN src + a - dst ELSE a
  BY DEF Cpy!Copies
<1>1. bytes = length /\ memory = Image(bytes)
  BY DEF CopyInv
<1> QED BY <1>1 DEF Image

-----------------------------------------------------------------------------

-----------------------------------------------------------------------------
(* The four routines side by side, each from its own initial states. *)
RoutinesInit == Clk!Init /\ Div!Init /\ Stg!Init /\ Cpy!Init

(* A step of the system is a step of a routine or leaves it alone. *)
RoutinesNext == [Clk!Next]_clock /\ [Div!Next]_division /\ [Stg!Next]_stage /\ [Cpy!Next]_copy

RoutinesInv == ClockInv /\ DivInv /\ StageInv /\ CopyInv

(* Every step keeps the invariant of every routine. *)
LEMMA RoutinesStep ==
  ASSUME RoutinesAssumption, RoutinesInv, RoutinesNext
  PROVE  RoutinesInv'
<1> USE DEF RoutinesAssumption, RoutinesInv
<1>1. [Clk!Next]_clock /\ [Div!Next]_division /\ [Stg!Next]_stage /\ [Cpy!Next]_copy
  BY DEF RoutinesNext
<1>3. ClockInv'
  <2>1. CASE Clk!Next
    BY <2>1, ClockStep
  <2>2. CASE UNCHANGED clock
    BY <2>2 DEF clock, ClockInv
  <2> QED BY <1>1, <2>1, <2>2
<1>4. DivInv'
  <2>1. CASE Div!Next
    BY <2>1, DivStep
  <2>2. CASE UNCHANGED division
    BY <2>2 DEF division, DivInv
  <2> QED BY <1>1, <2>1, <2>2
<1>5. StageInv'
  <2>1. CASE Stg!Next
    BY <2>1, StageStep
  <2>2. CASE UNCHANGED stage
    BY <2>2 DEF stage, StageInv, Total, Counted, Stg!WholeBufferMoved,
                Stg!TransferStageDataGetResultLen
  <2> QED BY <1>1, <2>1, <2>2
<1>6. CopyInv'
  <2>1. CASE Cpy!Next
    BY <2>1, CopyStep
  <2>2. CASE UNCHANGED copy
    BY <2>2 DEF copy, CopyInv, Image
  <2> QED BY <1>1, <2>1, <2>2
<1> QED BY <1>3, <1>4, <1>5, <1>6

(***************************************************************************)
(* Whatever the widths, the sizes, the packet sizes, the delays and the    *)
(* alignments: __aeabi_uidivmod divides; TransferStageDataAttach counts    *)
(* enough packets for the buffer, and TransferStageDataTransactionComplete *)
(* never lets them pass zero nor DMA leave the buffer; memcpy copies its   *)
(* region, all of it and nothing else; a reading of the clock is never     *)
(* behind, and a timer whose readings are whole never expires early.       *)
(***************************************************************************)
THEOREM RoutinesAlwaysRight ==
  RoutinesAssumption =>
    (RoutinesInit /\ [][Clk!Next]_clock /\ [][Div!Next]_division /\ [][Stg!Next]_stage
       /\ [][Cpy!Next]_copy => RoutinesRight)
<1> SUFFICES ASSUME RoutinesAssumption
             PROVE  RoutinesInit /\ [][Clk!Next]_clock /\ [][Div!Next]_division
                      /\ [][Stg!Next]_stage /\ [][Cpy!Next]_copy => RoutinesRight
  OBVIOUS
<1>1. RoutinesInit => RoutinesInv
  BY ClockInit, DivInit, StageInit, CopyInit DEF RoutinesAssumption, RoutinesInit, RoutinesInv
<1>2. RoutinesInv /\ [Clk!Next]_clock /\ [Div!Next]_division /\ [Stg!Next]_stage
        /\ [Cpy!Next]_copy => RoutinesInv'
  BY RoutinesStep DEF RoutinesNext
<1>3. RoutinesInv => Div!Divides /\ Stg!DmaWithinBuffer /\ Stg!WholeBufferMoved /\ Cpy!Copies
  BY DivSafe, StageSafe, CopySafe DEF RoutinesAssumption, RoutinesInv
<1>4. RoutinesInv /\ [Clk!Next]_clock =>
        /\ [now' # now \/ (reading # "none" /\ reading' = "none")
              => \E t \in started .. ticks : now' \in {t, t + Low}]_(Clk!vars)
        /\ [armed /\ ~armed' /\ ~torn' => ticks >= since + delay]_(Clk!vars)
  <2> SUFFICES ASSUME RoutinesInv, [Clk!Next]_clock
               PROVE  Clk!Next => /\ now' # now \/ (reading # "none" /\ reading' = "none")
                                       => \E t \in started .. ticks : now' \in {t, t + Low}
                                  /\ armed /\ ~armed' /\ ~torn' => ticks >= since + delay
    BY DEF clock, Clk!vars
  <2> QED BY ClockSteps DEF RoutinesAssumption, RoutinesInv
<1>5. RoutinesInv /\ [Stg!Next]_stage => [active => packets' < packets]_(Stg!vars)
  BY StageStep DEF RoutinesAssumption, RoutinesInv, stage, Stg!vars
<1> QED BY <1>1, <1>2, <1>3, <1>4, <1>5, PTL
       DEF RoutinesRight, Stg!PacketsSuffice, Clk!NeverBehind, Clk!ExpiresNotEarly
=============================================================================
