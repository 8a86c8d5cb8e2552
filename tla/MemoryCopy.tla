----------------------------- MODULE MemoryCopy -----------------------------
(***************************************************************************)
(* memcpy of system/string.c, which every transfer and every scroll of the *)
(* screen goes through: it copies 64 bits at a time where both pointers    *)
(* allow, 32 bits where they allow that, and bytes otherwise.  A step is a *)
(* round of its loop.  memory holds a different value at every address.    *)
(***************************************************************************)
EXTENDS Integers

CONSTANTS MaxLength,   \* bound: bytes to copy
          Alignments   \* bound: how far the regions are from a 64 bit boundary

CopyAssumption == MaxLength \in Nat /\ Alignments \subseteq 0 .. 7

VARIABLES dst, src, length,  \* the arguments
          bytes,             \* of the loop
          memory

vars == <<dst, src, length, bytes, memory>>

Region    == 8 * (MaxLength \div 8 + 2)
Addresses == 0 .. 3 * Region - 1

(***************************************************************************)
(* memcpy is entered with two regions that are apart, or with the source   *)
(* above the destination, as the rows of a scroll are.                     *)
(***************************************************************************)
Init ==
  /\ length \in 0 .. MaxLength /\ dst \in Alignments
  /\ src \in {Region + a : a \in Alignments} \cup {dst + n : n \in 1 .. MaxLength}
  /\ bytes = 0 /\ memory = [a \in Addresses |-> a]

(* A word of size bytes is read and then written. *)
Word(m, to, from, size) ==
  [a \in Addresses |-> IF a \in to .. to + size - 1 THEN m[from + a - to] ELSE m[a]]

(* Both pointers are aligned at b and a word remains. *)
Wide(b, size) ==
  length - b > size - 1 /\ (dst + b) % size = 0 /\ (src + b) % size = 0

(* The inner loops: as many words as remain. *)
Words(m, b, size) ==
  LET words == (length - b) \div size
      copied[n \in 0 .. words] ==
        IF n = 0 THEN m
        ELSE Word(copied[n - 1], dst + b + (n - 1) * size, src + b + (n - 1) * size, size)
  IN  copied[words]

LastOf(b, size) == b + ((length - b) \div size) * size - 1

(***************************************************************************)
(* A round.  The 64 bit copy ends on the last byte copied, where the tests *)
(* for 32 bits are made again, so that byte is copied a second time.       *)
(***************************************************************************)
Step ==
  /\ bytes < length
  /\ LET m == IF Wide(bytes, 8) THEN Words(memory, bytes, 8) ELSE memory
         b == IF Wide(bytes, 8) THEN LastOf(bytes, 8) ELSE bytes
     IN  IF Wide(b, 4)
         THEN memory' = Words(m, b, 4) /\ bytes' = LastOf(b, 4) + 1
         ELSE memory' = Word(m, dst + b, src + b, 1) /\ bytes' = b + 1
  /\ UNCHANGED <<dst, src, length>>

Return == bytes >= length /\ UNCHANGED vars

Next == Step \/ Return

Spec == Init /\ [][Next]_vars

-----------------------------------------------------------------------------
(***************************************************************************)
(* memcpy: whatever the alignments, the length and the width of the words, *)
(* and although bytes are copied twice and regions overlap, in the end the *)
(* destination holds what the source held, and nothing else has changed.   *)
(***************************************************************************)
Copies ==
  bytes >= length =>
    \A a \in Addresses :
      memory[a] = IF a \in dst .. dst + length - 1 THEN src + a - dst ELSE a
=============================================================================
