---------------------------------- MODULE Bytes --------------------------------
(***************************************************************************)
(* Byte strings and the fixed-width integers of the SDK's encoders.  Base  *)
(* is 256 in the code; the widths of the wide integers are parameters, so  *)
(* that TLC can reach their limits.                                        *)
(***************************************************************************)
EXTENDS Integers, Sequences

CONSTANTS
  Base,        \* 256: what one byte can hold
  Threw        \* a conversion that throws

ASSUME BaseAssumption == Base \in Nat /\ Base >= 2

Byte == 0..(Base - 1)
Bytes == Seq(Byte)

\* v, and what is left of it after each division of a loop by base.
Quotients(v, base, steps) ==
  LET after[i \in 0..steps] == IF i = 0 THEN v ELSE after[i - 1] \div base
  IN  after

\* The loops that shift by a byte: v >>= 8n.
Shifted(v, steps) == Quotients(v, Base, steps)

\* The loops that take digits off while there is something left: the digits of v,
\* least significant first, and none of zero.
Digits(v, base) ==
  LET left == Quotients(v, base, v)
      count == CHOOSE k \in 0..v : left[k] = 0 /\ \A j \in 0..(k - 1) : left[j] # 0
  IN  [i \in 1..count |-> left[i - 1] % base]

\* v !== 0n after the loop refuses what does not fit.
Fits(v, width) == v >= 0 /\ Shifted(v, width)[width] = 0

\* setUint32(0, n, false): big-endian, modulo 2^32.
U32be(n) ==
  LET n1 == n \div Base
      n2 == n1 \div Base
      n3 == n2 \div Base
  IN  <<n3 % Base, n2 % Base, n1 % Base, n % Base>>

\* What fits in 32 bits.
FitsU32(n) == (((n \div Base) \div Base) \div Base) \div Base = 0

\* setBigUint64 and the loops over >> 8n: the low digits, least significant first.
UintLe(v, width) ==
  LET left == Shifted(v, width) IN [i \in 1..width |-> left[i - 1] % Base]

UintBe(v, width) ==
  LET left == Shifted(v, width) IN [i \in 1..width |-> left[width - i] % Base]

\* bigUintBe: negative values and values that need more bytes are refused.
BigUintBe(v, width) == IF Fits(v, width) THEN UintBe(v, width) ELSE Threw

\* u64FromLeBytes: n = (n << 8n) | b[i], from the last byte to the first.
FromLe(b) ==
  LET taken[i \in 0..Len(b)] ==
        IF i = 0 THEN 0 ELSE taken[i - 1] * Base + b[Len(b) + 1 - i]
  IN  taken[Len(b)]

FromBe(b) == FromLe([i \in DOMAIN b |-> b[Len(b) + 1 - i]])

UnframedBytes(b) == b

\* pushBytes: the length in 32 bits, then the bytes.
Framed(b) == U32be(Len(b)) \o b

\* slice(from, to): what there is of it.
Slice(b, from, to) == SubSeq(b, from + 1, IF to < Len(b) THEN to ELSE Len(b))

Zeros(n) == [i \in 1..n |-> 0]
=============================================================================
