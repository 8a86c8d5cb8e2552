------------------------------ MODULE Division ------------------------------
(***************************************************************************)
(* __aeabi_uidivmod of boards/rpi/board.c, the division the compiler calls *)
(* for every unsigned / and %: one step per round of its loop over the     *)
(* bits, for words of Width bits.                                          *)
(***************************************************************************)
EXTENDS Integers

CONSTANT Width  \* bits of a u32, 32

DivisionAssumption == Width \in Nat \ {0}

VARIABLES dividend, divisor,  \* the arguments
          value,              \* what is left of the dividend
          quotient, high,     \* the halves of answer
          bit,                \* of the loop; -1 after the last round
          returned

vars == <<dividend, divisor, value, quotient, high, bit, returned>>

(* 1 << n, for the shifts of a word. *)
Pow2[n \in 0 .. Width] == IF n = 0 THEN 1 ELSE 2 * Pow2[n - 1]

Word  == Pow2[Width]
Words == 0 .. Word - 1

Shifted(x, n) == (x * Pow2[n]) % Word

(* __aeabi_uidivmod is entered; no caller divides by zero. *)
Init ==
  /\ dividend \in Words /\ divisor \in Words \ {0}
  /\ value = dividend /\ quotient = 0 /\ high = 0
  /\ bit = Width - 1 /\ returned = FALSE

(* The divisor survives the shift and can be subtracted. *)
Fits ==
  /\ Shifted(divisor, bit) \div Pow2[bit] = divisor
  /\ value >= Shifted(divisor, bit)

(***************************************************************************)
(* "answer |= 1 << bit": 1 is a signed int, so its top bit is copied into  *)
(* the whole high half of the 64 bit answer.                               *)
(***************************************************************************)
SetBit ==
  /\ quotient' = quotient + Pow2[bit]
  /\ high' = IF bit = Width - 1 THEN Word - 1 ELSE high

Subtract ==
  /\ ~returned /\ bit >= 0 /\ Fits
  /\ value' = value - Shifted(divisor, bit)
  /\ SetBit
  /\ bit' = IF value' = 0 THEN -1 ELSE bit - 1
  /\ UNCHANGED <<dividend, divisor, returned>>

Skip ==
  /\ ~returned /\ bit >= 0 /\ ~Fits
  /\ bit' = bit - 1
  /\ UNCHANGED <<dividend, divisor, value, quotient, high, returned>>

(* "answer |= (u64)value << 32"; high is zero or all ones before it. *)
Return ==
  /\ ~returned /\ bit = -1
  /\ high' = IF high = 0 THEN value ELSE high
  /\ returned' = TRUE
  /\ UNCHANGED <<dividend, divisor, value, quotient, bit>>

Done == returned /\ UNCHANGED vars

Next == Subtract \/ Skip \/ Return \/ Done

Spec == Init /\ [][Next]_vars

-----------------------------------------------------------------------------
(* Shape of the state: every quantity fits its word. *)
TypeOK ==
  /\ dividend \in Words /\ divisor \in Words \ {0} /\ value \in Words
  /\ quotient \in Words /\ high \in Words
  /\ bit \in -1 .. Width - 1 /\ returned \in BOOLEAN

(***************************************************************************)
(* __aeabi_uidiv: the low half of the answer is the quotient.  The high    *)
(* half is the remainder unless the quotient has its top bit set.          *)
(***************************************************************************)
Divides ==
  returned => /\ quotient = dividend \div divisor
              /\ quotient < Pow2[Width - 1] => high = dividend % divisor
=============================================================================
