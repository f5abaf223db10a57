------------------------------ MODULE Codecs_proofs ----------------------------
(***************************************************************************)
(* The encoders of the SDK, for texts of any length that 32 bits can hold  *)
(* and integers of any width.                                              *)
(*                                                                         *)
(* Integers.  A loop that shifts out byte after byte is a recursive        *)
(* function; LoopRuns shows that it has a value, and FirstNumber takes the *)
(* place of induction: a least number for which a statement fails would be *)
(* neither zero nor the successor of one for which it holds.               *)
(*                                                                         *)
(* Preimages.  A framed text can be taken off the front of what follows    *)
(* it: its length is in the first four bytes (U32Injective), and with the  *)
(* length known the text ends where it says (JoinedInjective).  A preimage *)
(* is a tag followed by framed texts and strings of fixed width, so its    *)
(* fields come off one after the other (SplitsTag, SplitsFramed,           *)
(* SplitsFixed).                                                           *)
(*                                                                         *)
(* Claims.  Byte order is a strict total order (BeforeTransitive,          *)
(* BeforeTotal); every finite set of keys can be sorted (SortedExists), and*)
(* in one way only (SortedOnce).                                           *)
(*                                                                         *)
(* Instructions.  Placed says where a field stands; the decoder cuts the   *)
(* fields that the encoder put one after the other (PackedComesOut), and   *)
(* what it cuts makes up the whole (CutComesTogether).                     *)
(*                                                                         *)
(* Digits.  Writes says that a sequence holds the digits of a number; a    *)
(* number has one such sequence without zeros in front (WritesOnce), which *)
(* makes decimal amounts unambiguous (NumeralDetermines), and a round of   *)
(* base58btcEncode takes the digits of n to those of 256 * n plus a byte   *)
(* (AbsorbedWrites).                                                       *)
(*                                                                         *)
(* Signatures and keys.  What MinimalInt leaves of a number is that number *)
(* without its leading zeros (MinimalIntStrips), and the two halves of the *)
(* output put them back (HalvesFilled).  A key is taken from where it      *)
(* stands (KeyTaken).                                                      *)
(*                                                                         *)
(* Results.  A result is the value of the call it answers (Answered), so   *)
(* what holds of every value holds of the specification.                   *)
(***************************************************************************)
EXTENDS Codecs, SequenceTheorems, FiniteSetTheorems, WellFoundedInduction, TLAPS

\* Two fronts that byte strings are cut after at the same place.
Splits(p, q) ==
  /\ p \in Bytes /\ q \in Bytes
  /\ \A x, y \in Bytes : p \o x = q \o y => p = q /\ x = y
-----------------------------------------------------------------------------
(***************************************************************************)
(* Integers                                                                *)
(***************************************************************************)
\* The natural numbers are well-founded.
LEMMA LeastNumber ==
  \A T \in SUBSET Nat : T # {} => \E m \in T : \A k \in T : m <= k
<1> SUFFICES ASSUME NEW T \in SUBSET Nat, T # {} PROVE \E m \in T : \A k \in T : m <= k
  OBVIOUS
<1>1. PICK m \in T : \A k \in T : ~(<<k, m>> \in OpToRel(<, Nat))
  BY NatLessThanWellFounded, WFMin
<1>2. \A k \in T : ~(k < m)
  BY <1>1 DEF OpToRel
<1>3. \A k \in T : m <= k
  BY <1>2
<1> QED BY <1>3

\* What holds of zero, and of a number after the one below it, holds of all: a
\* least number of which it does not hold would be neither.
LEMMA FirstNumber ==
  \A T \in SUBSET Nat : T # {} => \E m \in T : m = 0 \/ (m - 1 \in Nat /\ m - 1 \notin T)
<1> SUFFICES ASSUME NEW T \in SUBSET Nat, T # {}
             PROVE  \E m \in T : m = 0 \/ (m - 1 \in Nat /\ m - 1 \notin T)
  OBVIOUS
<1>1. PICK m \in T : \A k \in T : m <= k
  BY LeastNumber
<1>2. m = 0 \/ (m - 1 \in Nat /\ ~(m <= m - 1))
  OBVIOUS
<1> QED BY <1>1, <1>2

\* What a variable holds before the first and after each step of a loop.
Loop(n, X, start, step) ==
  {g \in [0..n -> X] : \A i \in 0..n : g[i] = IF i = 0 THEN start ELSE step[<<i, g[i - 1]>>]}

\* A loop of any number of steps has a state after each of them.
LEMMA LoopRuns ==
  \A n \in Nat : \A X : \A start \in X : \A step \in [(1..n) \X X -> X] :
    Loop(n, X, start, step) # {}
<1> TAKE n \in Nat
<1> TAKE X
<1> TAKE start \in X
<1> TAKE step \in [(1..n) \X X -> X]
<1> DEFINE Runs(m, g) == g \in [0..m -> X]
                         /\ \A i \in 0..m : g[i] = IF i = 0 THEN start ELSE step[<<i, g[i - 1]>>]
           T == {m \in 0..n : \A g : ~Runs(m, g)}
<1>1. ASSUME T # {} PROVE FALSE
  <2>1. PICK m \in T : m = 0 \/ (m - 1 \in Nat /\ m - 1 \notin T)
    <3>1. T \in SUBSET Nat
      OBVIOUS
    <3> HIDE DEF T
    <3> QED BY <1>1, <3>1, FirstNumber, Zenon
  <2>2. m \in 0..n /\ \A g : ~Runs(m, g)
    OBVIOUS
  <2>3. m # 0
    <3>1. Runs(0, [i \in 0..0 |-> start])
      OBVIOUS
    <3> QED BY <2>2, <3>1, Zenon
  <2>4. PICK g : Runs(m - 1, g)
    BY <2>1, <2>2, <2>3
  <2>5. PICK h : h = [i \in 0..m |-> IF i = m THEN step[<<m, g[m - 1]>>] ELSE g[i]]
    OBVIOUS
  <2>6. g[m - 1] \in X /\ step[<<m, g[m - 1]>>] \in X
    BY <2>2, <2>3, <2>4
  <2>7. Runs(m, h)
    <3>1. m \in Nat /\ m - 1 \in 0..m /\ m - 1 # m
          /\ \A i \in 0..m : i # m => i \in 0..(m - 1)
      BY <2>2, <2>3
    <3>2. h \in [0..m -> X]
      BY <2>4, <2>5, <2>6, <3>1
    <3>3. h[m] = step[<<m, h[m - 1]>>]
      BY <2>5, <3>1
    <3>4. ASSUME NEW i \in 0..m, i # m
          PROVE  h[i] = IF i = 0 THEN start ELSE step[<<i, h[i - 1]>>]
      <4>1. i \in 0..(m - 1)
        BY <3>1, <3>4
      <4>2. i # 0 => i - 1 \in 0..m /\ i - 1 # m
        BY <3>1, <4>1
      <4>3. g[i] = IF i = 0 THEN start ELSE step[<<i, g[i - 1]>>]
        BY <2>4, <4>1
      <4> QED BY <2>5, <3>4, <4>2, <4>3
    <3> QED BY <2>3, <3>2, <3>3, <3>4
  <2> QED BY <2>2, <2>7, Zenon
<1>2. \E g : Runs(n, g)
  BY <1>1
<1> QED BY <1>2 DEF Loop

\* f is what is left of v after each of n divisions by d.
LeftOf(f, v, d, n) ==
  f \in [0..n -> Nat] /\ f[0] = v /\ \A i \in 1..n : f[i] = f[i - 1] \div d

LEMMA QuotientsLoop ==
  \A v, n \in Nat : \A d \in Nat \ {0} : LeftOf(Quotients(v, d, n), v, d, n)
<1> TAKE v, n \in Nat
<1> TAKE d \in Nat \ {0}
<1> DEFINE step == [p \in (1..n) \X Nat |-> p[2] \div d]
           F(f) == [i \in 0..n |-> IF i = 0 THEN v ELSE f[i - 1] \div d]
<1>1. step \in [(1..n) \X Nat -> Nat]
  OBVIOUS
<1>2. PICK g : g \in Loop(n, Nat, v, step)
  <2> HIDE DEF step
  <2>1. Loop(n, Nat, v, step) # {}
    BY <1>1, LoopRuns
  <2> QED BY <2>1
<1>3. \A i \in 1..n : step[<<i, g[i - 1]>>] = g[i - 1] \div d
  <2>1. \A i \in 1..n : <<i, g[i - 1]>> \in (1..n) \X Nat
    BY <1>2 DEF Loop
  <2> QED BY <2>1
<1>4. g = F(g)
  <2> HIDE DEF step
  <2>1. \A i \in 0..n : i # 0 => i \in 1..n
    OBVIOUS
  <2>2. g \in [0..n -> Nat] /\ \A i \in 0..n : g[i] = IF i = 0 THEN v ELSE g[i - 1] \div d
    BY <1>2, <1>3, <2>1 DEF Loop
  <2> QED BY <2>2
<1>5. Quotients(v, d, n) = CHOOSE f : f = F(f)
  BY DEF Quotients
<1>6. PICK f : f = Quotients(v, d, n)
  OBVIOUS
<1>7. f = F(f)
  <2> HIDE DEF F
  <2> QED BY <1>4, <1>5, <1>6, Zenon
<1>8. f[0] = v /\ \A i \in 1..n : f[i] = f[i - 1] \div d
  <2>1. 0 \in 0..n /\ \A i \in 1..n : i \in 0..n /\ i # 0
    OBVIOUS
  <2> QED BY <1>7, <2>1
<1>9. f \in [0..n -> Nat]
  <2> DEFINE T == {i \in 0..n : f[i] \notin Nat}
  <2>1. ASSUME T # {} PROVE FALSE
    <3>1. PICK m \in T : m = 0 \/ (m - 1 \in Nat /\ m - 1 \notin T)
      <4>1. T \in SUBSET Nat
        OBVIOUS
      <4> HIDE DEF T
      <4> QED BY <2>1, <4>1, FirstNumber, Zenon
    <3>2. m # 0 /\ m \in 1..n /\ f[m - 1] \in Nat
      BY <1>8, <3>1
    <3> QED BY <1>8, <3>2
  <2> QED BY <1>7, <2>1
<1> QED BY ONLY <1>6, <1>8, <1>9 DEF LeftOf

LEMMA ShiftedLoop ==
  \A v, n \in Nat :
    /\ Shifted(v, n) \in [0..n -> Nat]
    /\ Shifted(v, n)[0] = v
    /\ \A i \in 1..n : Shifted(v, n)[i] = Shifted(v, n)[i - 1] \div Base
<1> TAKE v, n \in Nat
<1>1. Base \in Nat \ {0}
  BY BaseAssumption
<1>2. PICK g : g = Quotients(v, Base, n)
  OBVIOUS
<1>3. PICK d \in Nat \ {0} : d = Base
  BY <1>1
<1>4. g \in [0..n -> Nat] /\ g[0] = v /\ \A i \in 1..n : g[i] = g[i - 1] \div Base
  <2>1. g = Quotients(v, d, n)
    BY <1>2, <1>3
  <2>2. g \in [0..n -> Nat] /\ g[0] = v /\ \A i \in 1..n : g[i] = g[i - 1] \div d
    <3>1. LeftOf(Quotients(v, d, n), v, d, n)
      BY ONLY v \in Nat, n \in Nat, d \in Nat \ {0}, QuotientsLoop
    <3> QED BY ONLY <2>1, <3>1 DEF LeftOf
  <2> QED BY ONLY <1>3, <2>2
<1>5. g = Shifted(v, n)
  BY <1>2 DEF Shifted
<1> QED BY ONLY <1>4, <1>5

LEMMA FromLeLoop ==
  \A b \in Bytes : \E taken \in [0..Len(b) -> Nat] :
    /\ taken[0] = 0 /\ FromLe(b) = taken[Len(b)]
    /\ \A i \in 1..Len(b) : taken[i] = taken[i - 1] * Base + b[Len(b) + 1 - i]
<1> TAKE b \in Bytes
<1>0. PICK n : n = Len(b)
  OBVIOUS
<1>n. n \in Nat /\ \A i \in 1..n : n + 1 - i \in 1..n /\ b[n + 1 - i] \in Nat
  BY <1>0, BaseAssumption DEF Bytes, Byte
<1> DEFINE step == [p \in (1..n) \X Nat |-> p[2] * Base + b[n + 1 - p[1]]]
           F(f) == [i \in 0..n |-> IF i = 0 THEN 0 ELSE f[i - 1] * Base + b[n + 1 - i]]
<1>1. step \in [(1..n) \X Nat -> Nat]
  <2>1. \A p \in (1..n) \X Nat : p[2] * Base + b[n + 1 - p[1]] \in Nat
    BY <1>n, BaseAssumption
  <2> QED BY <2>1
<1>2. PICK g : g \in Loop(n, Nat, 0, step)
  <2> HIDE DEF step
  <2>1. Loop(n, Nat, 0, step) # {}
    BY <1>1, <1>n, LoopRuns
  <2> QED BY <2>1
<1>3. \A i \in 1..n : step[<<i, g[i - 1]>>] = g[i - 1] * Base + b[n + 1 - i]
  <2>1. \A i \in 1..n : <<i, g[i - 1]>> \in (1..n) \X Nat
    BY <1>n, <1>2 DEF Loop
  <2> QED BY <2>1
<1>4. g = F(g)
  <2> HIDE DEF step
  <2>1. \A i \in 0..n : i # 0 => i \in 1..n
    OBVIOUS
  <2>2. g \in [0..n -> Nat]
        /\ \A i \in 0..n : g[i] = IF i = 0 THEN 0 ELSE g[i - 1] * Base + b[n + 1 - i]
    BY <1>n, <1>2, <1>3, <2>1 DEF Loop
  <2> QED BY <2>2
<1>5. PICK f : f = CHOOSE h : h = F(h)
  OBVIOUS
<1>6. FromLe(b) = f[n]
  BY <1>0, <1>5 DEF FromLe
<1>7. f = F(f)
  <2> HIDE DEF F
  <2> QED BY <1>4, <1>5, Zenon
<1>8. f[0] = 0 /\ \A i \in 1..n : f[i] = f[i - 1] * Base + b[n + 1 - i]
  <2>1. 0 \in 0..n /\ \A i \in 1..n : i \in 0..n /\ i # 0
    BY <1>n
  <2> QED BY <1>7, <2>1
<1>9. f \in [0..n -> Nat]
  <2> DEFINE T == {i \in 0..n : f[i] \notin Nat}
  <2>1. ASSUME T # {} PROVE FALSE
    <3>1. PICK m \in T : m = 0 \/ (m - 1 \in Nat /\ m - 1 \notin T)
      <4>1. T \in SUBSET Nat
        OBVIOUS
      <4> HIDE DEF T
      <4> QED BY <2>1, <4>1, FirstNumber, Zenon
    <3>2. m # 0 /\ m \in 1..n /\ f[m - 1] \in Nat
      BY <1>8, <1>n, <3>1
    <3> QED BY <1>8, <1>n, <3>2, BaseAssumption
  <2> QED BY <1>7, <2>1
<1> QED BY <1>0, <1>6, <1>8, <1>9

\* A digit pushed under a number comes off again.
LEMMA PushedComesOff ==
  \A m \in Nat, d \in Byte : (m * Base + d) \div Base = m /\ (m * Base + d) % Base = d
BY BaseAssumption DEF Byte

LEMMA ComesOffPushed ==
  \A m \in Nat : (m \div Base) * Base + (m % Base) = m
BY BaseAssumption DEF Byte

LEMMA UintDigits ==
  \A v, n \in Nat :
    /\ UintLe(v, n) \in Fixed(n) /\ UintBe(v, n) \in Fixed(n)
    /\ \A i \in 1..n : /\ UintLe(v, n)[i] = Shifted(v, n)[i - 1] % Base
                       /\ UintBe(v, n)[n + 1 - i] = Shifted(v, n)[i - 1] % Base
<1> TAKE v, n \in Nat
<1>1. PICK left : left = Shifted(v, n)
  OBVIOUS
<1>2. left \in [0..n -> Nat]
  BY <1>1, ShiftedLoop
<1>3. \A i \in 0..n : left[i] % Base \in Byte
  BY <1>2, BaseAssumption DEF Byte
<1>4. UintLe(v, n) = [i \in 1..n |-> left[i - 1] % Base]
  BY <1>1 DEF UintLe
<1>5. UintBe(v, n) = [i \in 1..n |-> left[n - i] % Base]
  BY <1>1 DEF UintBe
<1>6. \A i \in 1..n : i - 1 \in 0..n /\ n - i \in 0..n /\ n + 1 - i \in 1..n /\ n - (n + 1 - i) = i - 1
  OBVIOUS
<1>7. UintLe(v, n) \in Fixed(n)
  BY <1>3, <1>4, <1>6 DEF Fixed, Bytes
<1>8. UintBe(v, n) \in Fixed(n)
  BY <1>3, <1>5, <1>6 DEF Fixed, Bytes
<1> QED BY <1>1, <1>4, <1>5, <1>6, <1>7, <1>8

LEMMA FromLeRestores ==
  \A v, n \in Nat : Fits(v, n) => FromLe(UintLe(v, n)) = v
<1> TAKE v, n \in Nat
<1> HAVE Fits(v, n)
<1>1. PICK left : left = Shifted(v, n)
  OBVIOUS
<1>2. left \in [0..n -> Nat] /\ left[0] = v /\ left[n] = 0
      /\ \A i \in 1..n : left[i] = left[i - 1] \div Base
  <2>1. left[n] = 0
    BY <1>1 DEF Fits
  <2>2. left \in [0..n -> Nat] /\ left[0] = v
        /\ \A i \in 1..n : left[i] = left[i - 1] \div Base
    BY ONLY <1>1, ShiftedLoop, v \in Nat, n \in Nat
  <2> QED BY <2>1, <2>2
<1>3. PICK b : b = UintLe(v, n)
  OBVIOUS
<1>4. b \in Bytes /\ Len(b) = n /\ \A i \in 1..n : b[i] = left[i - 1] % Base
  BY <1>1, <1>3, UintDigits DEF Fixed
<1>5. PICK taken \in [0..n -> Nat] :
        /\ taken[0] = 0 /\ FromLe(b) = taken[n]
        /\ \A i \in 1..n : taken[i] = taken[i - 1] * Base + b[n + 1 - i]
  BY <1>4, FromLeLoop
<1> DEFINE T == {k \in 0..n : taken[k] # left[n - k]}
<1>6. ASSUME T # {} PROVE FALSE
  <2>1. PICK m \in T : m = 0 \/ (m - 1 \in Nat /\ m - 1 \notin T)
    <3>1. T \in SUBSET Nat
      OBVIOUS
    <3> HIDE DEF T
    <3> QED BY <1>6, <3>1, FirstNumber, Zenon
  <2>2. m # 0
    BY <1>2, <1>5
  <2>3. PICK j : j = n + 1 - m
    OBVIOUS
  <2>4. m \in 1..n /\ j \in 1..n /\ n - m = j - 1 /\ n - (m - 1) = j
    BY <2>2, <2>3
  <2>5. taken[m - 1] = left[j]
    BY <2>1, <2>2, <2>4
  <2>6. taken[m] = left[j] * Base + (left[j - 1] % Base)
    BY <1>4, <1>5, <2>3, <2>4, <2>5
  <2>7. left[j - 1] \in Nat /\ left[j] = left[j - 1] \div Base
    <3>1. j \in 1..n /\ j - 1 \in 0..n
      BY <2>4
    <3>2. left \in [0..n -> Nat] /\ \A i \in 1..n : left[i] = left[i - 1] \div Base
      BY <1>2
    <3>3. left[j] = left[j - 1] \div Base
      BY ONLY <3>1, <3>2, Zenon
    <3>4. left[j - 1] \in Nat
      BY ONLY <3>1, <3>2, Zenon
    <3> QED BY ONLY <3>3, <3>4
  <2>8. taken[m] = left[n - m]
    BY <2>4, <2>6, <2>7, ComesOffPushed
  <2> QED BY <2>8
<1>7. taken[n] = left[0]
  BY <1>6
<1> QED BY <1>2, <1>3, <1>5, <1>7

\* A number that fits is known from its bytes.
LEMMA UintDetermines ==
  \A v, w, n \in Nat : Fits(v, n) /\ Fits(w, n) /\ UintBe(v, n) = UintBe(w, n) => v = w
<1> TAKE v, w, n \in Nat
<1> HAVE Fits(v, n) /\ Fits(w, n) /\ UintBe(v, n) = UintBe(w, n)
<1>1. \A i \in 1..n : n + 1 - i \in 1..n
  OBVIOUS
<1>2. /\ UintLe(v, n) \in Seq(Byte) /\ Len(UintLe(v, n)) = n
      /\ UintLe(w, n) \in Seq(Byte) /\ Len(UintLe(w, n)) = n
  BY UintDigits DEF Fixed, Bytes
<1>3. \A i \in 1..n : UintLe(v, n)[i] = UintLe(w, n)[i]
  <2> TAKE i \in 1..n
  <2>1. UintLe(v, n)[i] = UintBe(v, n)[n + 1 - i]
    BY UintDigits
  <2>2. UintLe(w, n)[i] = UintBe(w, n)[n + 1 - i]
    BY UintDigits
  <2> QED BY <2>1, <2>2
<1>4. UintLe(v, n) = UintLe(w, n)
  BY <1>2, <1>3, SeqEqual
<1>5. FromLe(UintLe(v, n)) = v /\ FromLe(UintLe(w, n)) = w
  BY FromLeRestores
<1> QED BY <1>4, <1>5

\* bigUintBe throws or keeps the number.
LEMMA BigUintBeKeeps ==
  \A n \in Nat : \A v \in Int : BigUintBe(v, n) # Threw =>
    v \in Nat /\ Fits(v, n) /\ BigUintBe(v, n) = UintBe(v, n) /\ BigUintBe(v, n) \in Fixed(n)
<1> TAKE n \in Nat
<1> TAKE v \in Int
<1> HAVE BigUintBe(v, n) # Threw
<1>1. Fits(v, n) /\ BigUintBe(v, n) = UintBe(v, n)
  BY DEF BigUintBe
<1>2. v \in Nat
  BY <1>1 DEF Fits
<1> QED BY <1>1, <1>2, UintDigits

LEMMA BigUintBeDetermines ==
  \A n \in Nat : \A v, w \in Int :
    BigUintBe(v, n) # Threw /\ BigUintBe(v, n) = BigUintBe(w, n) => v = w
<1> TAKE n \in Nat
<1> TAKE v, w \in Int
<1> HAVE BigUintBe(v, n) # Threw /\ BigUintBe(v, n) = BigUintBe(w, n)
<1>1. v \in Nat /\ Fits(v, n) /\ BigUintBe(v, n) = UintBe(v, n)
  BY BigUintBeKeeps
<1>2. w \in Nat /\ Fits(w, n) /\ BigUintBe(w, n) = UintBe(w, n)
  BY BigUintBeKeeps
<1> QED BY <1>1, <1>2, UintDetermines

LEMMA UintRestores ==
  \A b \in Bytes : /\ FromLe(b) \in Nat /\ Fits(FromLe(b), Len(b))
                   /\ UintLe(FromLe(b), Len(b)) = b
<1> TAKE b \in Bytes
<1>1. PICK n \in Nat : n = Len(b)
  BY DEF Bytes
<1>2. PICK taken \in [0..n -> Nat] :
        /\ taken[0] = 0 /\ FromLe(b) = taken[n]
        /\ \A i \in 1..n : taken[i] = taken[i - 1] * Base + b[n + 1 - i]
  BY <1>1, FromLeLoop
<1>3. PICK v : v = FromLe(b)
  OBVIOUS
<1>4. v \in Nat
  BY <1>2, <1>3
<1>5. PICK left : left = Shifted(v, n)
  OBVIOUS
<1>6. left \in [0..n -> Nat] /\ left[0] = v
      /\ \A i \in 1..n : left[i] = left[i - 1] \div Base
  BY <1>4, <1>5, ShiftedLoop
<1>7. \A i \in 1..n : b[i] \in Byte
  BY <1>1 DEF Bytes
<1> DEFINE T == {k \in 0..n : left[k] # taken[n - k]}
<1>8. ASSUME T # {} PROVE FALSE
  <2>1. PICK m \in T : m = 0 \/ (m - 1 \in Nat /\ m - 1 \notin T)
    <3>1. T \in SUBSET Nat
      OBVIOUS
    <3> HIDE DEF T
    <3> QED BY <1>8, <3>1, FirstNumber, Zenon
  <2>2. m # 0
    BY <1>2, <1>3, <1>6
  <2>3. PICK j : j = n + 1 - m
    OBVIOUS
  <2>4. m \in 1..n /\ j \in 1..n /\ n - m = j - 1 /\ n - (m - 1) = j /\ n + 1 - j = m
    BY <2>2, <2>3
  <2>5. left[m - 1] = taken[j]
    BY <2>1, <2>2, <2>4
  <2>6. left[m] = (taken[j - 1] * Base + b[m]) \div Base
    BY <1>2, <1>6, <2>4, <2>5
  <2>7. taken[j - 1] \in Nat
    BY <2>4
  <2>8. left[m] = taken[n - m]
    BY <1>7, <2>4, <2>6, <2>7, PushedComesOff
  <2> QED BY <2>8
<1>9. \A k \in 0..n : left[k] = taken[n - k]
  BY <1>8
<1>10. Fits(v, n)
  BY <1>2, <1>4, <1>5, <1>9 DEF Fits
<1>11. ASSUME NEW i \in 1..n PROVE left[i - 1] % Base = b[i]
  <2>1. PICK j : j = n + 1 - i
    OBVIOUS
  <2>2. j \in 1..n /\ n - (i - 1) = j /\ n + 1 - j = i /\ i - 1 \in 0..n
    BY <2>1
  <2>3. left[i - 1] = taken[j - 1] * Base + b[i] /\ taken[j - 1] \in Nat
    BY <1>2, <1>9, <2>2
  <2> QED BY <1>7, <2>3, PushedComesOff
<1>12. UintLe(v, n) = b
  <2>1. UintLe(v, n) \in Seq(Byte) /\ Len(UintLe(v, n)) = n
        /\ \A i \in 1..n : UintLe(v, n)[i] = b[i]
    BY <1>4, <1>5, <1>11, UintDigits DEF Fixed, Bytes
  <2> QED BY <1>1, <2>1, SeqEqual DEF Bytes
<1> QED BY <1>1, <1>3, <1>4, <1>10, <1>12
-----------------------------------------------------------------------------
(***************************************************************************)
(* Byte strings                                                            *)
(***************************************************************************)
\* A number is known from its last digit and the digits before it.
LEMMA DivModDetermine ==
  ASSUME NEW m \in Nat, NEW n \in Nat,
         m \div Base = n \div Base, m % Base = n % Base
  PROVE  m = n
BY BaseAssumption, SMT

LEMMA DivNat ==
  ASSUME NEW n \in Nat
  PROVE  n \div Base \in Nat
BY BaseAssumption, SMT

LEMMA U32Injective ==
  ASSUME NEW m \in Nat, NEW n \in Nat, FitsU32(m), FitsU32(n), U32be(m) = U32be(n)
  PROVE  m = n
<1> DEFINE m1 == m \div Base
           m2 == m1 \div Base
           m3 == m2 \div Base
           n1 == n \div Base
           n2 == n1 \div Base
           n3 == n2 \div Base
<1>1. m1 \in Nat /\ m2 \in Nat /\ m3 \in Nat /\ n1 \in Nat /\ n2 \in Nat /\ n3 \in Nat
  BY DivNat
<1>2. <<m3 % Base, m2 % Base, m1 % Base, m % Base>> = <<n3 % Base, n2 % Base, n1 % Base, n % Base>>
  BY DEF U32be
<1>3. m3 % Base = n3 % Base /\ m2 % Base = n2 % Base /\ m1 % Base = n1 % Base /\ m % Base = n % Base
  BY ONLY <1>2
<1>4. m3 \div Base = n3 \div Base
  BY DEF FitsU32
<1> HIDE DEF m1, m2, m3, n1, n2, n3
<1>5. m3 = n3
  BY <1>1, <1>3, <1>4, DivModDetermine
<1>6. m2 = n2
  BY <1>1, <1>3, <1>5, DivModDetermine DEF m3, n3
<1>7. m1 = n1
  BY <1>1, <1>3, <1>6, DivModDetermine DEF m2, n2
<1> QED
  BY <1>3, <1>7, DivModDetermine DEF m1, n1

LEMMA U32Bytes ==
  ASSUME NEW n \in Nat
  PROVE  U32be(n) \in Bytes /\ Len(U32be(n)) = 4
<1> DEFINE n1 == n \div Base
           n2 == n1 \div Base
           n3 == n2 \div Base
<1>1. n1 \in Nat /\ n2 \in Nat /\ n3 \in Nat
  BY DivNat
<1> HIDE DEF n1, n2, n3
<1>2. n % Base \in Byte /\ n1 % Base \in Byte /\ n2 % Base \in Byte /\ n3 % Base \in Byte
  BY <1>1, BaseAssumption DEF Byte
<1>3. U32be(n) = <<n3 % Base, n2 % Base, n1 % Base, n % Base>>
  BY DEF U32be, n1, n2, n3
<1> QED
  BY <1>2, <1>3 DEF Bytes
-----------------------------------------------------------------------------
LEMMA JoinedPositions ==
  ASSUME NEW s \in Bytes, NEW t \in Bytes
  PROVE  /\ s \o t \in Bytes /\ Len(s \o t) = Len(s) + Len(t)
         /\ \A i \in 1..Len(s) : (s \o t)[i] = s[i]
         /\ \A i \in 1..Len(t) : (s \o t)[Len(s) + i] = t[i]
BY DEF Bytes

\* Brackets in a concatenation are no matter.
Regroups(s, t, u) == (s \o t) \o u = s \o (t \o u)

LEMMA JoinedAssociative ==
  \A s, t, u \in Bytes : Regroups(s, t, u)
BY ConcatAssociative DEF Bytes, Regroups

LEMMA JoinedBytes ==
  \A s, t \in Bytes : s \o t \in Bytes
BY JoinedPositions

LEMMA JoinedLength ==
  \A s, t \in Bytes : Len(s \o t) = Len(s) + Len(t)
BY JoinedPositions

LEMMA JoinedInjective ==
  \A a, b, x, y \in Bytes : Len(a) = Len(b) /\ a \o x = b \o y => a = b /\ x = y
<1> SUFFICES ASSUME NEW a \in Bytes, NEW b \in Bytes, NEW x \in Bytes, NEW y \in Bytes,
                    Len(a) = Len(b), a \o x = b \o y
             PROVE  a = b /\ x = y
  OBVIOUS
<1>1. \A i \in 1..Len(a) : a[i] = b[i]
  BY JoinedPositions
<1>2. Len(x) = Len(y)
  <2>1. Len(a \o x) = Len(a) + Len(x) /\ Len(b \o y) = Len(b) + Len(y)
    BY JoinedPositions
  <2>2. Len(a) \in Nat /\ Len(x) \in Nat /\ Len(y) \in Nat
    BY DEF Bytes
  <2> QED
    BY <2>1, <2>2
<1>3. \A i \in 1..Len(x) : x[i] = y[i]
  <2>1. \A i \in 1..Len(x) : (a \o x)[Len(a) + i] = x[i]
    BY JoinedPositions
  <2>2. \A i \in 1..Len(x) : (b \o y)[Len(b) + i] = y[i]
    BY <1>2, JoinedPositions
  <2> QED
    BY <2>1, <2>2
<1> QED
  BY <1>1, <1>2, <1>3, SeqEqual DEF Bytes

LEMMA FramedBytes ==
  ASSUME NEW b \in Bytes
  PROVE  Framed(b) \in Bytes
<1>1. Len(b) \in Nat
  BY DEF Bytes
<1> QED
  BY <1>1, U32Bytes DEF Framed, Bytes

LEMMA FramedThen ==
  \A b, x \in Bytes : Framed(b) \o x = U32be(Len(b)) \o (b \o x)
<1> TAKE b, x \in Bytes
<1>1. U32be(Len(b)) \in Bytes
  <2>1. Len(b) \in Nat
    BY DEF Bytes
  <2> QED
    BY <2>1, U32Bytes
<1>2. Regroups(U32be(Len(b)), b, x)
  BY <1>1, JoinedAssociative
<1>3. (U32be(Len(b)) \o b) \o x = U32be(Len(b)) \o (b \o x)
  BY ONLY <1>2 DEF Regroups
<1> QED
  BY <1>3, Zenon DEF Framed

\* pushBytes (src/app.ts, src/identity.ts) can be undone: whatever follows, a
\* framed text is told from every other one, and so is what follows it.
THEOREM FramingInjective ==
  ASSUME NEW a \in Framable, NEW b \in Framable, NEW x \in Bytes, NEW y \in Bytes,
         Framed(a) \o x = Framed(b) \o y
  PROVE  a = b /\ x = y
<1>1. a \in Bytes /\ b \in Bytes /\ FitsU32(Len(a)) /\ FitsU32(Len(b))
      /\ Len(a) \in Nat /\ Len(b) \in Nat
  BY DEF Framable, Bytes
<1>2. U32be(Len(a)) \in Bytes /\ U32be(Len(b)) \in Bytes
      /\ Len(U32be(Len(a))) = Len(U32be(Len(b)))
  BY <1>1, U32Bytes
<1>3. a \o x \in Bytes /\ b \o y \in Bytes
  BY <1>1, JoinedPositions
<1>4. U32be(Len(a)) \o (a \o x) = U32be(Len(b)) \o (b \o y)
  <2>1. Framed(a) \o x = U32be(Len(a)) \o (a \o x)
    BY <1>1, FramedThen, Zenon
  <2>2. Framed(b) \o y = U32be(Len(b)) \o (b \o y)
    BY <1>1, FramedThen, Zenon
  <2> QED
    BY <2>1, <2>2, Zenon
<1>5. U32be(Len(a)) = U32be(Len(b)) /\ a \o x = b \o y
  <2> DEFINE h == U32be(Len(a))
             k == U32be(Len(b))
             u == a \o x
             v == b \o y
  <2>1. h \in Bytes /\ k \in Bytes /\ u \in Bytes /\ v \in Bytes
    BY <1>2, <1>3
  <2>2. Len(h) = Len(k) /\ h \o u = k \o v
    BY <1>2, <1>4
  <2> HIDE DEF h, k, u, v
  <2>3. h = k /\ u = v
    BY ONLY <2>1, <2>2, JoinedInjective
  <2> QED
    BY <2>3 DEF h, k, u, v
<1>6. Len(a) = Len(b)
  <2>1. U32be(Len(a)) = U32be(Len(b))
    BY <1>5
  <2> QED
    BY ONLY <1>1, <2>1, U32Injective
<1> QED
  BY <1>1, <1>5, <1>6, JoinedInjective, Zenon
-----------------------------------------------------------------------------
LEMMA SplitsTag ==
  ASSUME NEW t \in Tags
  PROVE  Splits(Tag[t], Tag[t])
<1>1. Tag[t] \in Bytes
  BY TagAssumption
<1> QED
  BY <1>1, JoinedInjective DEF Splits

LEMMA SplitsFramed ==
  ASSUME NEW p, NEW q, Splits(p, q), NEW a \in Framable, NEW b \in Framable
  PROVE  /\ Splits(p \o Framed(a), q \o Framed(b))
         /\ p \o Framed(a) = q \o Framed(b) => p = q /\ a = b
<1>1. Framed(a) \in Bytes /\ Framed(b) \in Bytes /\ p \in Bytes /\ q \in Bytes
  BY FramedBytes DEF Framable, Splits
<1>2. p \o Framed(a) = q \o Framed(b) => p = q /\ a = b
  <2> HAVE p \o Framed(a) = q \o Framed(b)
  <2>1. p = q /\ Framed(a) = Framed(b)
    BY <1>1 DEF Splits
  <2>2. <<>> \in Bytes /\ Framed(a) \o <<>> = Framed(b) \o <<>>
    BY <2>1 DEF Bytes
  <2> QED
    BY <2>1, <2>2, FramingInjective
<1>3. /\ \A x \in Bytes : (p \o Framed(a)) \o x = p \o (Framed(a) \o x)
      /\ \A y \in Bytes : (q \o Framed(b)) \o y = q \o (Framed(b) \o y)
  <2>1. /\ \A x \in Bytes : Regroups(p, Framed(a), x)
        /\ \A y \in Bytes : Regroups(q, Framed(b), y)
    BY <1>1, JoinedAssociative
  <2> QED BY ONLY <2>1 DEF Regroups
<1>4. \A x, y \in Bytes : Framed(a) \o x = Framed(b) \o y => a = b /\ x = y
  BY FramingInjective
<1>5. ASSUME NEW x \in Bytes, NEW y \in Bytes,
             (p \o Framed(a)) \o x = (q \o Framed(b)) \o y
      PROVE  p \o Framed(a) = q \o Framed(b) /\ x = y
  <2>1. p \o (Framed(a) \o x) = q \o (Framed(b) \o y)
    BY <1>3, <1>5
  <2>2. Framed(a) \o x \in Bytes /\ Framed(b) \o y \in Bytes
    BY <1>1, JoinedPositions
  <2>3. p = q /\ Framed(a) \o x = Framed(b) \o y
    BY <2>1, <2>2 DEF Splits
  <2>4. a = b /\ x = y
    BY <1>4, <2>3
  <2> QED
    BY <2>3, <2>4
<1>6. p \o Framed(a) \in Bytes /\ q \o Framed(b) \in Bytes
  BY <1>1, JoinedPositions
<1> QED
  BY <1>2, <1>5, <1>6 DEF Splits

LEMMA SplitsFixed ==
  ASSUME NEW p, NEW q, Splits(p, q), NEW a \in Bytes, NEW b \in Bytes, Len(a) = Len(b)
  PROVE  /\ Splits(p \o a, q \o b)
         /\ p \o a = q \o b => p = q /\ a = b
<1>1. p \in Bytes /\ q \in Bytes
  BY DEF Splits
<1>2. p \o a = q \o b => p = q /\ a = b
  BY <1>1 DEF Splits
<1>3. /\ \A x \in Bytes : (p \o a) \o x = p \o (a \o x)
      /\ \A y \in Bytes : (q \o b) \o y = q \o (b \o y)
  <2>1. /\ \A x \in Bytes : Regroups(p, a, x)
        /\ \A y \in Bytes : Regroups(q, b, y)
    BY <1>1, JoinedAssociative
  <2> QED BY ONLY <2>1 DEF Regroups
<1>4. \A x, y \in Bytes : a \o x = b \o y => a = b /\ x = y
  BY JoinedInjective
<1>5. ASSUME NEW x \in Bytes, NEW y \in Bytes, (p \o a) \o x = (q \o b) \o y
      PROVE  p \o a = q \o b /\ x = y
  <2>1. p \o (a \o x) = q \o (b \o y)
    BY <1>3, <1>5
  <2>2. a \o x \in Bytes /\ b \o y \in Bytes
    BY <1>1, JoinedPositions
  <2>3. p = q /\ a \o x = b \o y
    BY <2>1, <2>2 DEF Splits
  <2>4. a = b /\ x = y
    BY <1>4, <2>3
  <2> QED
    BY <2>3, <2>4
<1>6. p \o a \in Bytes /\ q \o b \in Bytes
  BY <1>1, JoinedPositions
<1> QED
  BY <1>2, <1>5, <1>6 DEF Splits
-----------------------------------------------------------------------------
\* The domain tags of src/app.ts and src/identity.ts keep the kinds apart:
\* what is signed for one of them is never what another one means.
THEOREM DomainsSeparated ==
  ASSUME NEW s \in Tags, NEW t \in Tags, NEW x \in Bytes, NEW y \in Bytes,
         Tag[s] \o x = Tag[t] \o y
  PROVE  s = t
<1>1. Tag[s] \in Bytes /\ Tag[t] \in Bytes /\ Len(Tag[s]) \in Nat /\ Len(Tag[t]) \in Nat
  BY TagAssumption DEF Bytes
<1>2. ASSUME NEW a \in Bytes, NEW b \in Bytes, NEW u \in Bytes, NEW v \in Bytes,
             Len(a) <= Len(b), a \o u = b \o v
      PROVE  StartsWith(b, a)
  <2>1. \A i \in 1..Len(a) : a[i] = b[i]
    <3>1. \A i \in 1..Len(a) : (a \o u)[i] = a[i]
      BY JoinedPositions
    <3>2. \A i \in 1..Len(b) : (b \o v)[i] = b[i]
      BY JoinedPositions
    <3>3. \A i \in 1..Len(a) : i \in 1..Len(b)
      BY <1>2 DEF Bytes
    <3> QED
      BY <1>2, <3>1, <3>2, <3>3
  <2>2. /\ SubSeq(b, 1, Len(a)) \in Bytes /\ Len(SubSeq(b, 1, Len(a))) = Len(a)
        /\ \A i \in 1..Len(a) : SubSeq(b, 1, Len(a))[i] = b[i]
    BY <1>2 DEF Bytes
  <2>3. SubSeq(b, 1, Len(a)) = a
    BY <2>1, <2>2, SeqEqual DEF Bytes
  <2> QED
    BY <1>2, <2>3 DEF StartsWith
<1>3. CASE Len(Tag[s]) <= Len(Tag[t])
  BY <1>1, <1>2, <1>3, TagAssumption
<1>4. CASE Len(Tag[t]) <= Len(Tag[s])
  BY <1>1, <1>2, <1>4, TagAssumption
<1> QED
  BY <1>1, <1>3, <1>4

\* appStatusParams: a signed status names one app and one state of it.
THEOREM StatusInjective ==
  ASSUME NEW a \in Framable, NEW b \in Framable, NEW active \in BOOLEAN, NEW on \in BOOLEAN,
         AppStatusParams(a, active) = AppStatusParams(b, on)
  PROVE  a = b /\ active = on
<1> DEFINE p == Tag["status"] \o Framed(a)
           q == Tag["status"] \o Framed(b)
           flag == <<IF active THEN 1 ELSE 0>>
           other == <<IF on THEN 1 ELSE 0>>
<1>1. flag \in Bytes /\ other \in Bytes /\ Len(flag) = Len(other)
  BY BaseAssumption DEF Bytes, Byte
<1>2. flag[1] = other[1] => active = on
  OBVIOUS
<1>3. p \o flag = q \o other
  BY DEF AppStatusParams
<1>4. Splits(Tag["status"], Tag["status"])
  BY SplitsTag DEF Tags
<1>5. Splits(p, q) /\ (p = q => a = b)
  BY <1>4, SplitsFramed
<1> HIDE DEF p, q, flag, other
<1>6. p = q /\ flag = other
  BY <1>1, <1>3, <1>5 DEF Splits
<1> QED
  BY <1>2, <1>5, <1>6

\* identityServiceParams (src/identity.ts): one identity, type and endpoint.
THEOREM ServiceInjective ==
  ASSUME NEW r \in Services, NEW s \in Services,
         IdentityServiceParams(r.did, r.serviceType, r.endpoint) =
           IdentityServiceParams(s.did, s.serviceType, s.endpoint)
  PROVE  r = s
<1> DEFINE p1 == Tag["service"] \o Framed(r.did)
           p2 == p1 \o Framed(r.serviceType)
           q1 == Tag["service"] \o Framed(s.did)
           q2 == q1 \o Framed(s.serviceType)
<1>1. p2 \o Framed(r.endpoint) = q2 \o Framed(s.endpoint)
  BY DEF IdentityServiceParams
<1> HIDE DEF p1, p2, q1, q2
<1>2. Splits(Tag["service"], Tag["service"])
  BY SplitsTag DEF Tags
<1>3. Splits(p1, q1) /\ (p1 = q1 => r.did = s.did)
  <2>1. r.did \in Framable /\ s.did \in Framable
    BY DEF Services
  <2> QED
    BY <1>2, <2>1, SplitsFramed DEF p1, q1
<1>4. Splits(p2, q2) /\ (p2 = q2 => p1 = q1 /\ r.serviceType = s.serviceType)
  <2>1. r.serviceType \in Framable /\ s.serviceType \in Framable
    BY DEF Services
  <2> QED
    BY <1>3, <2>1, SplitsFramed DEF p2, q2
<1>5. p2 = q2 /\ r.endpoint = s.endpoint
  <2>1. r.endpoint \in Framable /\ s.endpoint \in Framable
    BY DEF Services
  <2> QED
    BY <1>1, <1>4, <2>1, SplitsFramed
<1>6. /\ r.did = s.did /\ r.serviceType = s.serviceType /\ r.endpoint = s.endpoint
  BY <1>3, <1>4, <1>5
<1> QED
  BY <1>6 DEF Services

\* identityCredentialParams: a signed credential is for one subject, of one type,
\* from one issuer and about one set of claims.
THEOREM CredentialInjective ==
  ASSUME NEW r \in Credentials, NEW s \in Credentials,
         IdentityCredentialParams(r.did, r.credentialType, r.issuer,
                                  r.claims) =
           IdentityCredentialParams(s.did, s.credentialType, s.issuer,
                                    s.claims)
  PROVE  r = s
<1> DEFINE p1 == Tag["credential"] \o Framed(r.did)
           p2 == p1 \o Framed(r.credentialType)
           p3 == p2 \o Framed(r.issuer)
           q1 == Tag["credential"] \o Framed(s.did)
           q2 == q1 \o Framed(s.credentialType)
           q3 == q2 \o Framed(s.issuer)
<1>1. p3 \o Framed(r.claims) = q3 \o Framed(s.claims)
  BY DEF IdentityCredentialParams
<1> HIDE DEF p1, p2, p3, q1, q2, q3
<1>2. Splits(Tag["credential"], Tag["credential"])
  BY SplitsTag DEF Tags
<1>3. Splits(p1, q1) /\ (p1 = q1 => r.did = s.did)
  <2>1. r.did \in Framable /\ s.did \in Framable
    BY DEF Credentials
  <2> QED
    BY <1>2, <2>1, SplitsFramed DEF p1, q1
<1>4. Splits(p2, q2) /\ (p2 = q2 => p1 = q1 /\ r.credentialType = s.credentialType)
  <2>1. r.credentialType \in Framable /\ s.credentialType \in Framable
    BY DEF Credentials
  <2> QED
    BY <1>3, <2>1, SplitsFramed DEF p2, q2
<1>5. Splits(p3, q3) /\ (p3 = q3 => p2 = q2 /\ r.issuer = s.issuer)
  <2>1. r.issuer \in Framable /\ s.issuer \in Framable
    BY DEF Credentials
  <2> QED
    BY <1>4, <2>1, SplitsFramed DEF p3, q3
<1>6. p3 = q3 /\ r.claims = s.claims
  <2>1. r.claims \in Framable /\ s.claims \in Framable
    BY DEF Credentials
  <2> QED
    BY <1>1, <1>5, <2>1, SplitsFramed
<1>7. /\ r.did = s.did /\ r.credentialType = s.credentialType /\ r.issuer = s.issuer
      /\ r.claims = s.claims
  BY <1>3, <1>4, <1>5, <1>6
<1> QED
  BY <1>7 DEF Credentials

\* The fields of an envelope, its time encoded.
EncodedEnvelopes ==
  [did : Framable, method : Framable, paramsHash : Fixed(KeyWidth),
   timestamp : Fixed(W64), nonce : Fixed(NonceWidth)]

LEMMA EnvelopeLayoutInjective ==
  ASSUME NEW r \in EncodedEnvelopes, NEW s \in EncodedEnvelopes,
         EnvelopeLayout(r.did, r.method, r.paramsHash, r.timestamp,
                        r.nonce) =
           EnvelopeLayout(s.did, s.method, s.paramsHash, s.timestamp,
                          s.nonce)
  PROVE  r = s
<1> DEFINE p1 == Tag["envelope"] \o Framed(r.did)
           p2 == p1 \o Framed(r.method)
           p3 == p2 \o r.paramsHash
           p4 == p3 \o r.timestamp
           q1 == Tag["envelope"] \o Framed(s.did)
           q2 == q1 \o Framed(s.method)
           q3 == q2 \o s.paramsHash
           q4 == q3 \o s.timestamp
<1>1. p4 \o r.nonce = q4 \o s.nonce
  BY DEF EnvelopeLayout
<1> HIDE DEF p1, p2, p3, p4, q1, q2, q3, q4
<1>2. Splits(Tag["envelope"], Tag["envelope"])
  BY SplitsTag DEF Tags
<1>3. Splits(p1, q1) /\ (p1 = q1 => r.did = s.did)
  <2>1. r.did \in Framable /\ s.did \in Framable
    BY DEF EncodedEnvelopes
  <2> QED
    BY <1>2, <2>1, SplitsFramed DEF p1, q1
<1>4. Splits(p2, q2) /\ (p2 = q2 => p1 = q1 /\ r.method = s.method)
  <2>1. r.method \in Framable /\ s.method \in Framable
    BY DEF EncodedEnvelopes
  <2> QED
    BY <1>3, <2>1, SplitsFramed DEF p2, q2
<1>5. Splits(p3, q3) /\ (p3 = q3 => p2 = q2 /\ r.paramsHash = s.paramsHash)
  <2>1. r.paramsHash \in Bytes /\ s.paramsHash \in Bytes /\ Len(r.paramsHash) = Len(s.paramsHash)
    BY DEF EncodedEnvelopes, Fixed
  <2> QED
    BY <1>4, <2>1, SplitsFixed DEF p3, q3
<1>6. Splits(p4, q4) /\ (p4 = q4 => p3 = q3 /\ r.timestamp = s.timestamp)
  <2>1. r.timestamp \in Bytes /\ s.timestamp \in Bytes /\ Len(r.timestamp) = Len(s.timestamp)
    BY DEF EncodedEnvelopes, Fixed
  <2> QED
    BY <1>5, <2>1, SplitsFixed DEF p4, q4
<1>7. p4 = q4 /\ r.nonce = s.nonce
  <2>1. r.nonce \in Bytes /\ s.nonce \in Bytes /\ Len(r.nonce) = Len(s.nonce)
    BY DEF EncodedEnvelopes, Fixed
  <2> QED
    BY <1>1, <1>6, <2>1 DEF Splits
<1>8. /\ r.did = s.did /\ r.method = s.method /\ r.paramsHash = s.paramsHash
      /\ r.timestamp = s.timestamp /\ r.nonce = s.nonce
  BY <1>3, <1>4, <1>5, <1>6, <1>7
<1> QED
  BY <1>8 DEF EncodedEnvelopes

\* envelopeCanonicalPreimage (src/app.ts): the node's verification of an envelope
\* admits one caller, method, parameters, time and nonce.
THEOREM EnvelopeInjective ==
  ASSUME NEW r \in Envelopes, NEW s \in Envelopes,
         EnvelopeCanonicalPreimage(r) # Threw,
         EnvelopeCanonicalPreimage(r) = EnvelopeCanonicalPreimage(s)
  PROVE  r = s
<1>1. BigUintBe(r.timestamp, W64) # Threw /\ BigUintBe(s.timestamp, W64) # Threw
  BY DEF EnvelopeCanonicalPreimage
<1>2. PICK t, u : t = BigUintBe(r.timestamp, W64) /\ u = BigUintBe(s.timestamp, W64)
  OBVIOUS
<1>3. t \in Fixed(W64) /\ u \in Fixed(W64)
  BY <1>1, <1>2, BigUintBeKeeps, WidthsAssumption DEF Envelopes
<1>4. EnvelopeLayout(r.did, r.method, r.paramsHash, t, r.nonce) =
        EnvelopeLayout(s.did, s.method, s.paramsHash, u, s.nonce)
  BY <1>1, <1>2 DEF EnvelopeCanonicalPreimage
<1> DEFINE e == [did |-> r.did, method |-> r.method, paramsHash |-> r.paramsHash,
                 timestamp |-> t, nonce |-> r.nonce]
           f == [did |-> s.did, method |-> s.method, paramsHash |-> s.paramsHash,
                 timestamp |-> u, nonce |-> s.nonce]
<1>5. e \in EncodedEnvelopes /\ f \in EncodedEnvelopes
  BY <1>3 DEF EncodedEnvelopes, Envelopes
<1>6. e = f
  BY <1>4, <1>5, EnvelopeLayoutInjective
<1>7. r.did = s.did /\ r.method = s.method /\ r.paramsHash = s.paramsHash
      /\ t = u /\ r.nonce = s.nonce
  BY <1>6
<1>8. r.timestamp = s.timestamp
  BY <1>1, <1>2, <1>7, BigUintBeDetermines, WidthsAssumption DEF Envelopes
<1> QED BY <1>7, <1>8 DEF Envelopes

\* The fields of an authorization, its integers encoded.
EncodedSettlements ==
  [appId : Framable, chainId : Fixed(W64), payerDid : Framable,
   amount : Fixed(W128), externalRef : Framable, nonce : Fixed(KeyWidth),
   expiry : Fixed(W64), keyId : Framable]

LEMMA SettlementLayoutInjective ==
  ASSUME NEW r \in EncodedSettlements, NEW s \in EncodedSettlements,
         SettlementLayout(r.appId, r.chainId, r.payerDid, r.amount,
                          r.externalRef, r.nonce, r.expiry, r.keyId) =
           SettlementLayout(s.appId, s.chainId, s.payerDid, s.amount,
                            s.externalRef, s.nonce, s.expiry, s.keyId)
  PROVE  r = s
<1> DEFINE p1 == Tag["settlement"] \o Framed(r.appId)
           p2 == p1 \o r.chainId
           p3 == p2 \o Framed(r.payerDid)
           p4 == p3 \o r.amount
           p5 == p4 \o Framed(r.externalRef)
           p6 == p5 \o r.nonce
           p7 == p6 \o r.expiry
           q1 == Tag["settlement"] \o Framed(s.appId)
           q2 == q1 \o s.chainId
           q3 == q2 \o Framed(s.payerDid)
           q4 == q3 \o s.amount
           q5 == q4 \o Framed(s.externalRef)
           q6 == q5 \o s.nonce
           q7 == q6 \o s.expiry
<1>1. p7 \o Framed(r.keyId) = q7 \o Framed(s.keyId)
  BY DEF SettlementLayout
<1> HIDE DEF p1, p2, p3, p4, p5, p6, p7, q1, q2, q3, q4, q5, q6, q7
<1>2. Splits(Tag["settlement"], Tag["settlement"])
  BY SplitsTag DEF Tags
<1>3. Splits(p1, q1) /\ (p1 = q1 => r.appId = s.appId)
  <2>1. r.appId \in Framable /\ s.appId \in Framable
    BY DEF EncodedSettlements
  <2> QED
    BY <1>2, <2>1, SplitsFramed DEF p1, q1
<1>4. Splits(p2, q2) /\ (p2 = q2 => p1 = q1 /\ r.chainId = s.chainId)
  <2>1. r.chainId \in Bytes /\ s.chainId \in Bytes /\ Len(r.chainId) = Len(s.chainId)
    BY DEF EncodedSettlements, Fixed
  <2> QED
    BY <1>3, <2>1, SplitsFixed DEF p2, q2
<1>5. Splits(p3, q3) /\ (p3 = q3 => p2 = q2 /\ r.payerDid = s.payerDid)
  <2>1. r.payerDid \in Framable /\ s.payerDid \in Framable
    BY DEF EncodedSettlements
  <2> QED
    BY <1>4, <2>1, SplitsFramed DEF p3, q3
<1>6. Splits(p4, q4) /\ (p4 = q4 => p3 = q3 /\ r.amount = s.amount)
  <2>1. r.amount \in Bytes /\ s.amount \in Bytes /\ Len(r.amount) = Len(s.amount)
    BY DEF EncodedSettlements, Fixed
  <2> QED
    BY <1>5, <2>1, SplitsFixed DEF p4, q4
<1>7. Splits(p5, q5) /\ (p5 = q5 => p4 = q4 /\ r.externalRef = s.externalRef)
  <2>1. r.externalRef \in Framable /\ s.externalRef \in Framable
    BY DEF EncodedSettlements
  <2> QED
    BY <1>6, <2>1, SplitsFramed DEF p5, q5
<1>8. Splits(p6, q6) /\ (p6 = q6 => p5 = q5 /\ r.nonce = s.nonce)
  <2>1. r.nonce \in Bytes /\ s.nonce \in Bytes /\ Len(r.nonce) = Len(s.nonce)
    BY DEF EncodedSettlements, Fixed
  <2> QED
    BY <1>7, <2>1, SplitsFixed DEF p6, q6
<1>9. Splits(p7, q7) /\ (p7 = q7 => p6 = q6 /\ r.expiry = s.expiry)
  <2>1. r.expiry \in Bytes /\ s.expiry \in Bytes /\ Len(r.expiry) = Len(s.expiry)
    BY DEF EncodedSettlements, Fixed
  <2> QED
    BY <1>8, <2>1, SplitsFixed DEF p7, q7
<1>10. p7 = q7 /\ r.keyId = s.keyId
  <2>1. r.keyId \in Framable /\ s.keyId \in Framable
    BY DEF EncodedSettlements
  <2> QED
    BY <1>1, <1>9, <2>1, SplitsFramed
<1>11. /\ r.appId = s.appId /\ r.chainId = s.chainId /\ r.payerDid = s.payerDid
       /\ r.amount = s.amount /\ r.externalRef = s.externalRef /\ r.nonce = s.nonce
       /\ r.expiry = s.expiry /\ r.keyId = s.keyId
  BY <1>3, <1>4, <1>5, <1>6, <1>7, <1>8, <1>9, <1>10
<1> QED
  BY <1>11 DEF EncodedSettlements

\* settlementSigningPreimage (src/app.ts): it throws or it keeps all eight fields,
\* so one authorization signs one payment, whoever chose the app, the payer and
\* the reference.
THEOREM SettlementInjective ==
  ASSUME NEW r \in Settlements, NEW s \in Settlements,
         SettlementSigningPreimage(r) # Threw,
         SettlementSigningPreimage(r) = SettlementSigningPreimage(s)
  PROVE  r = s
<1> DEFINE Sound(x) ==
             /\ BigUintBe(x.chainId, W64) # Threw /\ BigUintBe(x.amount, W128) # Threw
             /\ BigUintBe(x.expiry, W64) # Threw /\ Len(x.nonce) = KeyWidth
           Layout(x) ==
             SettlementLayout(x.appId, BigUintBe(x.chainId, W64), x.payerDid,
               BigUintBe(x.amount, W128), x.externalRef, x.nonce,
               BigUintBe(x.expiry, W64), x.keyId)
           Encoded(x) ==
             [appId |-> x.appId, chainId |-> BigUintBe(x.chainId, W64), payerDid |-> x.payerDid,
              amount |-> BigUintBe(x.amount, W128), externalRef |-> x.externalRef,
              nonce |-> x.nonce, expiry |-> BigUintBe(x.expiry, W64), keyId |-> x.keyId]
<1>1. \A x : SettlementSigningPreimage(x) # Threw =>
              Sound(x) /\ SettlementSigningPreimage(x) = Layout(x)
  BY DEF SettlementSigningPreimage
<1>2. Sound(r) /\ Sound(s) /\ Layout(r) = Layout(s)
  BY <1>1, Zenon
<1>3. ASSUME NEW x \in Settlements, Sound(x) PROVE Encoded(x) \in EncodedSettlements
  <2>1. /\ BigUintBe(x.chainId, W64) \in Fixed(W64) /\ BigUintBe(x.amount, W128) \in Fixed(W128)
        /\ BigUintBe(x.expiry, W64) \in Fixed(W64)
    BY <1>3, BigUintBeKeeps, WidthsAssumption DEF Settlements
  <2>2. x.nonce \in Fixed(KeyWidth)
    BY <1>3 DEF Fixed, Settlements
  <2> QED BY <2>1, <2>2 DEF EncodedSettlements, Settlements
<1>4. Encoded(r) = Encoded(s)
  <2>1. PICK e, f : e = Encoded(r) /\ f = Encoded(s)
    OBVIOUS
  <2>2. e \in EncodedSettlements /\ f \in EncodedSettlements
    BY <1>2, <1>3, <2>1
  <2>3. SettlementLayout(e.appId, e.chainId, e.payerDid, e.amount,
                         e.externalRef, e.nonce, e.expiry, e.keyId) =
          SettlementLayout(f.appId, f.chainId, f.payerDid, f.amount,
                           f.externalRef, f.nonce, f.expiry, f.keyId)
    BY <1>2, <2>1
  <2>4. e = f
    BY <2>2, <2>3, SettlementLayoutInjective
  <2> QED BY <2>1, <2>4
<1>5. /\ r.appId = s.appId /\ r.payerDid = s.payerDid /\ r.externalRef = s.externalRef
      /\ r.nonce = s.nonce /\ r.keyId = s.keyId
      /\ BigUintBe(r.chainId, W64) = BigUintBe(s.chainId, W64)
      /\ BigUintBe(r.amount, W128) = BigUintBe(s.amount, W128)
      /\ BigUintBe(r.expiry, W64) = BigUintBe(s.expiry, W64)
  BY <1>4
<1>6. r.chainId = s.chainId /\ r.amount = s.amount /\ r.expiry = s.expiry
  BY <1>2, <1>5, BigUintBeDetermines, WidthsAssumption DEF Settlements
<1> QED BY <1>5, <1>6 DEF Settlements

\* The fields of a claim, its topic encoded.
EncodedClaims ==
  [address : Framable, topic : Fixed(W64), issuer : Framable,
   data : Framable, validFrom : Framable, validTo : Framable]

LEMMA ClaimLayoutInjective ==
  ASSUME NEW r \in EncodedClaims, NEW s \in EncodedClaims,
         ClaimLayout(r.address, r.topic, r.issuer, r.data, r.validFrom,
                     r.validTo) =
           ClaimLayout(s.address, s.topic, s.issuer, s.data, s.validFrom,
                       s.validTo)
  PROVE  r = s
<1> DEFINE p1 == Tag["claim"] \o Framed(r.address)
           p2 == p1 \o r.topic
           p3 == p2 \o Framed(r.issuer)
           p4 == p3 \o Framed(r.data)
           p5 == p4 \o Framed(r.validFrom)
           q1 == Tag["claim"] \o Framed(s.address)
           q2 == q1 \o s.topic
           q3 == q2 \o Framed(s.issuer)
           q4 == q3 \o Framed(s.data)
           q5 == q4 \o Framed(s.validFrom)
<1>1. p5 \o Framed(r.validTo) = q5 \o Framed(s.validTo)
  BY DEF ClaimLayout
<1> HIDE DEF p1, p2, p3, p4, p5, q1, q2, q3, q4, q5
<1>2. Splits(Tag["claim"], Tag["claim"])
  BY SplitsTag DEF Tags
<1>3. Splits(p1, q1) /\ (p1 = q1 => r.address = s.address)
  <2>1. r.address \in Framable /\ s.address \in Framable
    BY DEF EncodedClaims
  <2> QED
    BY <1>2, <2>1, SplitsFramed DEF p1, q1
<1>4. Splits(p2, q2) /\ (p2 = q2 => p1 = q1 /\ r.topic = s.topic)
  <2>1. r.topic \in Bytes /\ s.topic \in Bytes /\ Len(r.topic) = Len(s.topic)
    BY DEF EncodedClaims, Fixed
  <2> QED
    BY <1>3, <2>1, SplitsFixed DEF p2, q2
<1>5. Splits(p3, q3) /\ (p3 = q3 => p2 = q2 /\ r.issuer = s.issuer)
  <2>1. r.issuer \in Framable /\ s.issuer \in Framable
    BY DEF EncodedClaims
  <2> QED
    BY <1>4, <2>1, SplitsFramed DEF p3, q3
<1>6. Splits(p4, q4) /\ (p4 = q4 => p3 = q3 /\ r.data = s.data)
  <2>1. r.data \in Framable /\ s.data \in Framable
    BY DEF EncodedClaims
  <2> QED
    BY <1>5, <2>1, SplitsFramed DEF p4, q4
<1>7. Splits(p5, q5) /\ (p5 = q5 => p4 = q4 /\ r.validFrom = s.validFrom)
  <2>1. r.validFrom \in Framable /\ s.validFrom \in Framable
    BY DEF EncodedClaims
  <2> QED
    BY <1>6, <2>1, SplitsFramed DEF p5, q5
<1>8. p5 = q5 /\ r.validTo = s.validTo
  <2>1. r.validTo \in Framable /\ s.validTo \in Framable
    BY DEF EncodedClaims
  <2> QED
    BY <1>1, <1>7, <2>1, SplitsFramed
<1>9. /\ r.address = s.address /\ r.topic = s.topic /\ r.issuer = s.issuer
      /\ r.data = s.data /\ r.validFrom = s.validFrom /\ r.validTo = s.validTo
  BY <1>3, <1>4, <1>5, <1>6, <1>7, <1>8
<1> QED
  BY <1>9 DEF EncodedClaims

\* identityClaimParams (src/identity.ts): a claim is about one address, topic,
\* issuer and period.
THEOREM ClaimInjective ==
  ASSUME NEW r \in Claims, NEW s \in Claims,
         IdentityClaimParams(r) = IdentityClaimParams(s)
  PROVE  r = s
<1>1. PICK t, u : t = UintBe(r.topic, W64) /\ u = UintBe(s.topic, W64)
  OBVIOUS
<1>2. t \in Fixed(W64) /\ u \in Fixed(W64)
  BY <1>1, UintDigits, WidthsAssumption DEF Claims, U64
<1>3. ClaimLayout(r.address, t, r.issuer, r.data, r.validFrom, r.validTo) =
        ClaimLayout(s.address, u, s.issuer, s.data, s.validFrom, s.validTo)
  BY <1>1 DEF IdentityClaimParams
<1> DEFINE e == [address |-> r.address, topic |-> t, issuer |-> r.issuer, data |-> r.data,
                 validFrom |-> r.validFrom, validTo |-> r.validTo]
           f == [address |-> s.address, topic |-> u, issuer |-> s.issuer, data |-> s.data,
                 validFrom |-> s.validFrom, validTo |-> s.validTo]
<1>4. e \in EncodedClaims /\ f \in EncodedClaims
  BY <1>2 DEF EncodedClaims, Claims
<1>5. e = f
  BY <1>3, <1>4, ClaimLayoutInjective
<1>6. r.address = s.address /\ t = u /\ r.issuer = s.issuer /\ r.data = s.data
      /\ r.validFrom = s.validFrom /\ r.validTo = s.validTo
  BY <1>5
<1>7. r.topic = s.topic
  BY <1>1, <1>6, UintDetermines, WidthsAssumption DEF Claims, U64
<1> QED BY <1>6, <1>7 DEF Claims

-----------------------------------------------------------------------------
(***************************************************************************)
(* An app's registration: a list of keys of any length.                    *)
(***************************************************************************)
LEMMA ConcatenatedLoop ==
  \A ss \in Seq(Bytes) : \E upTo \in [0..Len(ss) -> Bytes] :
    /\ upTo[0] = <<>> /\ Concatenated(ss) = upTo[Len(ss)]
    /\ \A i \in 1..Len(ss) : upTo[i] = upTo[i - 1] \o ss[i]
<1> TAKE ss \in Seq(Bytes)
<1>1. PICK n \in Nat : n = Len(ss)
  OBVIOUS
<1>2. \A i \in 1..n : ss[i] \in Bytes
  BY <1>1
<1> DEFINE step == [p \in (1..n) \X Bytes |-> p[2] \o ss[p[1]]]
           F(f) == [i \in 0..n |-> IF i = 0 THEN <<>> ELSE f[i - 1] \o ss[i]]
<1>3. step \in [(1..n) \X Bytes -> Bytes]
  <2>1. \A p \in (1..n) \X Bytes : p[2] \o ss[p[1]] \in Bytes
    BY <1>2, JoinedPositions
  <2> QED BY <2>1
<1>4. PICK g : g \in Loop(n, Bytes, <<>>, step)
  <2>1. <<>> \in Bytes
    BY DEF Bytes
  <2> HIDE DEF step
  <2>2. Loop(n, Bytes, <<>>, step) # {}
    BY <1>3, <2>1, LoopRuns
  <2> QED BY <2>2
<1>5. \A i \in 1..n : step[<<i, g[i - 1]>>] = g[i - 1] \o ss[i]
  <2>1. \A i \in 1..n : <<i, g[i - 1]>> \in (1..n) \X Bytes
    BY <1>4 DEF Loop
  <2> QED BY <2>1
<1>6. g = F(g)
  <2> HIDE DEF step
  <2>1. \A i \in 0..n : i # 0 => i \in 1..n
    OBVIOUS
  <2>2. g \in [0..n -> Bytes]
        /\ \A i \in 0..n : g[i] = IF i = 0 THEN <<>> ELSE g[i - 1] \o ss[i]
    BY <1>4, <1>5, <2>1 DEF Loop
  <2> QED BY <2>2
<1>7. PICK f : f = CHOOSE h : h = F(h)
  OBVIOUS
<1>8. Concatenated(ss) = f[n]
  BY <1>1, <1>7 DEF Concatenated
<1>9. f = F(f)
  <2> HIDE DEF F
  <2> QED BY <1>6, <1>7, Zenon
<1>10. f[0] = <<>> /\ \A i \in 1..n : f[i] = f[i - 1] \o ss[i]
  <2>1. 0 \in 0..n /\ \A i \in 1..n : i \in 0..n /\ i # 0
    OBVIOUS
  <2> QED BY <1>9, <2>1
<1>11. f \in [0..n -> Bytes]
  <2> DEFINE T == {i \in 0..n : f[i] \notin Bytes}
  <2>1. ASSUME T # {} PROVE FALSE
    <3>1. PICK m \in T : m = 0 \/ (m - 1 \in Nat /\ m - 1 \notin T)
      <4>1. T \in SUBSET Nat
        OBVIOUS
      <4> HIDE DEF T
      <4> QED BY <2>1, <4>1, FirstNumber, Zenon
    <3>2. m # 0 /\ m \in 1..n /\ f[m - 1] \in Bytes
      <4>1. <<>> \in Bytes
        BY DEF Bytes
      <4> QED BY <1>10, <3>1, <4>1
    <3>3. f[m] \in Bytes
      BY <1>2, <1>10, <3>2, JoinedPositions
    <3> QED BY <3>1, <3>3
  <2> QED BY <1>9, <2>1
<1> QED BY <1>1, <1>8, <1>10, <1>11

\* One key of an app; an absent limit has no value.
SigningKeys ==
  {k \in KeyFields :
     IF k.limited THEN BigUintBe(k.dailyLimit, W128) # Threw ELSE k.dailyLimit = 0}

LimitOf(k) == IF k.limited THEN <<1>> \o BigUintBe(k.dailyLimit, W128) ELSE <<0>>

LEMMA LimitBytes ==
  \A k \in SigningKeys :
    /\ LimitOf(k) \in Bytes
    /\ <<0>> \in Bytes /\ <<1>> \in Bytes
    /\ k.limited => BigUintBe(k.dailyLimit, W128) \in Bytes /\ Len(BigUintBe(k.dailyLimit, W128)) = W128
<1> TAKE k \in SigningKeys
<1>1. <<0>> \in Bytes /\ <<1>> \in Bytes
  BY BaseAssumption DEF Bytes, Byte
<1>2. k.limited => BigUintBe(k.dailyLimit, W128) \in Fixed(W128)
  BY BigUintBeKeeps, WidthsAssumption DEF SigningKeys, KeyFields
<1>3. \A b \in Bytes : <<1>> \o b \in Bytes
  BY <1>1, JoinedPositions
<1> QED BY <1>1, <1>2, <1>3 DEF Fixed, LimitOf

\* A limit is told from an absent one by its first byte.
LEMMA LimitSplits ==
  \A k, l \in SigningKeys : \A x, y \in Bytes :
    LimitOf(k) \o x = LimitOf(l) \o y =>
      k.limited = l.limited /\ k.dailyLimit = l.dailyLimit /\ x = y
<1> TAKE k, l \in SigningKeys
<1> TAKE x, y \in Bytes
<1> HAVE LimitOf(k) \o x = LimitOf(l) \o y
<1>0. k.limited \in BOOLEAN /\ l.limited \in BOOLEAN
  BY DEF SigningKeys, KeyFields
<1>p. PICK zero, one : zero = <<0>> /\ one = <<1>>
  OBVIOUS
<1>1. zero \in Bytes /\ one \in Bytes /\ Len(zero) = Len(one) /\ zero # one
  BY <1>p, LimitBytes
<1>2. CASE k.limited /\ l.limited
  <2>1. PICK b, c : b = BigUintBe(k.dailyLimit, W128) /\ c = BigUintBe(l.dailyLimit, W128)
    OBVIOUS
  <2>2. b \in Bytes /\ c \in Bytes /\ Len(b) = Len(c)
    BY <1>2, <2>1, LimitBytes
  <2>3. (one \o b) \o x = (one \o c) \o y
    BY <1>2, <1>p, <2>1 DEF LimitOf
  <2>4. one \o b \in Bytes /\ one \o c \in Bytes /\ Len(one \o b) = Len(one \o c)
    <3>1. one \o b \in Bytes /\ one \o c \in Bytes
      BY <1>1, <2>2, JoinedBytes, Zenon
    <3>2. Len(one \o b) = Len(one) + Len(b)
      BY <1>1, <2>2, JoinedLength, Zenon
    <3>3. Len(one \o c) = Len(one) + Len(c)
      BY <1>1, <2>2, JoinedLength, Zenon
    <3> QED BY <2>2, <3>1, <3>2, <3>3
  <2>5. one \o b = one \o c /\ x = y
    <3>1. PICK g, h : g = one \o b /\ h = one \o c
      OBVIOUS
    <3>2. g \in Bytes /\ h \in Bytes /\ Len(g) = Len(h) /\ g \o x = h \o y
      BY <2>3, <2>4, <3>1
    <3>3. g = h /\ x = y
      BY <3>2, JoinedInjective
    <3> QED BY <3>1, <3>3
  <2>6. b = c
    BY <1>1, <2>2, <2>5, JoinedInjective
  <2>7. k.dailyLimit = l.dailyLimit
    BY <1>2, <2>1, <2>6, BigUintBeDetermines, WidthsAssumption DEF SigningKeys, KeyFields
  <2> QED BY <1>2, <2>5, <2>7
<1>3. CASE ~k.limited /\ ~l.limited
  <2>1. zero \o x = zero \o y
    BY <1>3, <1>p DEF LimitOf
  <2>2. x = y
    BY <1>1, <2>1, JoinedInjective
  <2> QED BY <1>0, <1>3, <2>2 DEF SigningKeys, KeyFields
<1>4. ASSUME NEW m \in SigningKeys, NEW u \in Bytes, NEW v \in Bytes,
             m.limited, LimitOf(m) \o u = zero \o v
      PROVE  FALSE
  <2>1. PICK b : b = BigUintBe(m.dailyLimit, W128)
    OBVIOUS
  <2>2. b \in Bytes /\ LimitOf(m) = one \o b
    BY <1>4, <1>p, <2>1, LimitBytes DEF LimitOf
  <2>3. one \o (b \o u) = zero \o v /\ b \o u \in Bytes
    <3>1. (one \o b) \o u = one \o (b \o u)
      <4>1. one \in Bytes /\ b \in Bytes /\ u \in Bytes
        BY <1>1, <2>2
      <4>2. Regroups(one, b, u)
        BY ONLY <4>1, JoinedAssociative
      <4> QED BY ONLY <4>2 DEF Regroups
    <3>2. b \o u \in Bytes
      BY <2>2, JoinedBytes, Zenon
    <3> QED BY <1>4, <2>2, <3>1, <3>2
  <2> QED BY <1>1, <2>3, JoinedInjective
<1>5. CASE k.limited /\ ~l.limited
  BY <1>4, <1>5, <1>p DEF LimitOf
<1>6. CASE l.limited /\ ~k.limited
  BY <1>4, <1>6, <1>p DEF LimitOf
<1> QED BY <1>0, <1>2, <1>3, <1>5, <1>6

SplitsWithLimits(p, q, k, l) ==
  /\ Splits(p \o LimitOf(k), q \o LimitOf(l))
  /\ p \o LimitOf(k) = q \o LimitOf(l) =>
       p = q /\ k.limited = l.limited /\ k.dailyLimit = l.dailyLimit

LEMMA SplitsLimit ==
  \A k, l \in SigningKeys : \A p, q : Splits(p, q) => SplitsWithLimits(p, q, k, l)
<1> TAKE k, l \in SigningKeys
<1> TAKE p, q
<1> HAVE Splits(p, q)
<1>1. PICK a, b : a = LimitOf(k) /\ b = LimitOf(l)
  OBVIOUS
<1>2. a \in Bytes /\ b \in Bytes /\ p \in Bytes /\ q \in Bytes
  BY <1>1, LimitBytes DEF Splits
<1>3. \A x, y \in Bytes : a \o x = b \o y =>
        k.limited = l.limited /\ k.dailyLimit = l.dailyLimit /\ x = y
  <2>1. \A x, y \in Bytes : LimitOf(k) \o x = LimitOf(l) \o y =>
          k.limited = l.limited /\ k.dailyLimit = l.dailyLimit /\ x = y
    BY LimitSplits, Zenon
  <2> QED BY <1>1, <2>1
<1>4. ASSUME NEW x \in Bytes, NEW y \in Bytes, (p \o a) \o x = (q \o b) \o y
      PROVE  p = q /\ a = b /\ x = y /\ k.limited = l.limited /\ k.dailyLimit = l.dailyLimit
  <2>1. p \o (a \o x) = q \o (b \o y) /\ a \o x \in Bytes /\ b \o y \in Bytes
    <3>1. (p \o a) \o x = p \o (a \o x)
      <4>1. Regroups(p, a, x)
        BY ONLY <1>2, x \in Bytes, JoinedAssociative
      <4> QED BY ONLY <4>1 DEF Regroups
    <3>2. (q \o b) \o y = q \o (b \o y)
      <4>1. Regroups(q, b, y)
        BY ONLY <1>2, y \in Bytes, JoinedAssociative
      <4> QED BY ONLY <4>1 DEF Regroups
    <3>3. a \o x \in Bytes /\ b \o y \in Bytes
      BY <1>2, JoinedBytes, Zenon
    <3> QED BY <1>4, <3>1, <3>2, <3>3
  <2>2. p = q /\ a \o x = b \o y
    BY <2>1 DEF Splits
  <2>3. k.limited = l.limited /\ k.dailyLimit = l.dailyLimit /\ x = y
    BY <1>3, <2>2
  <2>4. a = b
    BY <1>1, <2>3 DEF LimitOf
  <2> QED BY <2>2, <2>3, <2>4
<1>5. p \o a \in Bytes /\ q \o b \in Bytes
  BY <1>2, JoinedPositions
<1>6. Splits(p \o a, q \o b)
  BY <1>4, <1>5 DEF Splits
<1>7. p \o a = q \o b => p = q /\ k.limited = l.limited /\ k.dailyLimit = l.dailyLimit
  <2>1. <<>> \in Bytes
    BY DEF Bytes
  <2> QED BY <1>4, <2>1
<1> QED BY <1>1, <1>6, <1>7 DEF SplitsWithLimits

SplitsWithKeys(p, q, k, l) ==
  /\ Splits(p \o SigningKey(k), q \o SigningKey(l))
  /\ p \o SigningKey(k) = q \o SigningKey(l) => p = q /\ k = l

LEMMA SplitsKey ==
  \A k, l \in SigningKeys : \A p, q : Splits(p, q) => SplitsWithKeys(p, q, k, l)
<1> TAKE k, l \in SigningKeys
<1> TAKE p, q
<1> HAVE Splits(p, q)
<1> DEFINE p1 == p \o Framed(k.keyId)
           p2 == p1 \o Framed(k.publicKey)
           q1 == q \o Framed(l.keyId)
           q2 == q1 \o Framed(l.publicKey)
<1>1. ASSUME NEW r \in Bytes, NEW m \in SigningKeys
      PROVE  r \o SigningKey(m) = ((r \o Framed(m.keyId)) \o Framed(m.publicKey)) \o LimitOf(m)
  <2>1. PICK a, b, c : a = Framed(m.keyId) /\ b = Framed(m.publicKey) /\ c = LimitOf(m)
    OBVIOUS
  <2>2. a \in Bytes /\ b \in Bytes /\ c \in Bytes
    BY <2>1, LimitBytes, FramedBytes DEF SigningKeys, KeyFields, Framable
  <2>3. a \o b \in Bytes /\ r \o a \in Bytes
    BY <2>2, JoinedPositions
  <2>4. r \o ((a \o b) \o c) = ((r \o a) \o b) \o c
    <3>1. r \o ((a \o b) \o c) = (r \o (a \o b)) \o c
      <4>1. Regroups(r, a \o b, c)
        BY <2>2, <2>3, JoinedAssociative
      <4> QED BY ONLY <4>1 DEF Regroups
    <3>2. r \o (a \o b) = (r \o a) \o b
      <4>1. Regroups(r, a, b)
        BY <2>2, JoinedAssociative
      <4> QED BY ONLY <4>1 DEF Regroups
    <3> QED BY <3>1, <3>2
  <2>5. SigningKey(m) = (a \o b) \o c
    BY <2>1 DEF SigningKey, LimitOf
  <2> QED BY <2>1, <2>4, <2>5
<1>2. p \o SigningKey(k) = p2 \o LimitOf(k) /\ q \o SigningKey(l) = q2 \o LimitOf(l)
  BY <1>1 DEF Splits
<1> HIDE DEF p1, p2, q1, q2
<1>3. Splits(p1, q1) /\ (p1 = q1 => p = q /\ k.keyId = l.keyId)
  <2>1. k.keyId \in Framable /\ l.keyId \in Framable
    BY DEF SigningKeys, KeyFields
  <2> QED BY <2>1, SplitsFramed DEF p1, q1
<1>4. Splits(p2, q2) /\ (p2 = q2 => p1 = q1 /\ k.publicKey = l.publicKey)
  <2>1. k.publicKey \in Framable /\ l.publicKey \in Framable
    BY DEF SigningKeys, KeyFields
  <2> QED BY <1>3, <2>1, SplitsFramed DEF p2, q2
<1>5. SplitsWithLimits(p2, q2, k, l)
  BY <1>4, SplitsLimit, Zenon
<1>6. ASSUME k.keyId = l.keyId, k.publicKey = l.publicKey, k.limited = l.limited,
             k.dailyLimit = l.dailyLimit
      PROVE  k = l
  BY <1>6 DEF SigningKeys, KeyFields
<1> QED BY <1>2, <1>3, <1>4, <1>5, <1>6 DEF SplitsWithKeys, SplitsWithLimits

LEMMA SigningKeyBytes ==
  \A k \in SigningKeys : SigningKey(k) \in Bytes
<1> TAKE k \in SigningKeys
<1>1. Framed(k.keyId) \in Bytes /\ Framed(k.publicKey) \in Bytes
  BY FramedBytes DEF SigningKeys, KeyFields, Framable
<1>2. SigningKey(k) = (Framed(k.keyId) \o Framed(k.publicKey)) \o LimitOf(k)
  BY DEF SigningKey, LimitOf
<1> QED BY <1>1, <1>2, LimitBytes, JoinedBytes

\* Two lists of equally many keys.
SplitsWithLists(ks, ls) ==
  LET a == Concatenated([i \in DOMAIN ks |-> SigningKey(ks[i])])
      b == Concatenated([i \in DOMAIN ls |-> SigningKey(ls[i])])
  IN  Splits(a, b) /\ (a = b => ks = ls)

LEMMA SplitsLists ==
  \A ks, ls \in Seq(SigningKeys) : Len(ks) = Len(ls) => SplitsWithLists(ks, ls)
<1> TAKE ks, ls \in Seq(SigningKeys)
<1> HAVE Len(ks) = Len(ls)
<1>1. PICK n \in Nat : n = Len(ks) /\ n = Len(ls)
  OBVIOUS
<1>2. \A i \in 1..n : ks[i] \in SigningKeys /\ ls[i] \in SigningKeys
  BY <1>1
<1>3. PICK a, b : /\ a = [i \in DOMAIN ks |-> SigningKey(ks[i])]
                  /\ b = [i \in DOMAIN ls |-> SigningKey(ls[i])]
  OBVIOUS
<1>4. a \in Seq(Bytes) /\ b \in Seq(Bytes) /\ Len(a) = n /\ Len(b) = n
      /\ \A i \in 1..n : a[i] = SigningKey(ks[i]) /\ b[i] = SigningKey(ls[i])
  <2>1. DOMAIN ks = 1..n /\ DOMAIN ls = 1..n
    BY <1>1
  <2>2. \A i \in 1..n : SigningKey(ks[i]) \in Bytes /\ SigningKey(ls[i]) \in Bytes
    BY <1>2, SigningKeyBytes
  <2>3. a = [i \in 1..n |-> SigningKey(ks[i])] /\ b = [i \in 1..n |-> SigningKey(ls[i])]
    BY <1>3, <2>1
  <2> QED BY <2>2, <2>3
<1>5. PICK f \in [0..n -> Bytes] :
        /\ f[0] = <<>> /\ Concatenated(a) = f[n]
        /\ \A i \in 1..n : f[i] = f[i - 1] \o SigningKey(ks[i])
  <2>1. PICK h \in [0..Len(a) -> Bytes] :
          /\ h[0] = <<>> /\ Concatenated(a) = h[Len(a)]
          /\ \A i \in 1..Len(a) : h[i] = h[i - 1] \o a[i]
    BY <1>4, ConcatenatedLoop, Zenon
  <2>2. h \in [0..n -> Bytes] /\ h[0] = <<>> /\ Concatenated(a) = h[n]
        /\ \A i \in 1..n : h[i] = h[i - 1] \o SigningKey(ks[i])
    BY <1>4, <2>1
  <2> QED BY <2>2
<1>6. PICK g \in [0..n -> Bytes] :
        /\ g[0] = <<>> /\ Concatenated(b) = g[n]
        /\ \A i \in 1..n : g[i] = g[i - 1] \o SigningKey(ls[i])
  <2>1. PICK h \in [0..Len(b) -> Bytes] :
          /\ h[0] = <<>> /\ Concatenated(b) = h[Len(b)]
          /\ \A i \in 1..Len(b) : h[i] = h[i - 1] \o b[i]
    BY <1>4, ConcatenatedLoop, Zenon
  <2>2. h \in [0..n -> Bytes] /\ h[0] = <<>> /\ Concatenated(b) = h[n]
        /\ \A i \in 1..n : h[i] = h[i - 1] \o SigningKey(ls[i])
    BY <1>4, <2>1
  <2> QED BY <2>2
<1> DEFINE Same(m) == Splits(f[m], g[m]) /\ (f[m] = g[m] => \A i \in 1..m : ks[i] = ls[i])
           T == {m \in 0..n : ~Same(m)}
<1>7. Same(0)
  <2>1. \A x \in Bytes : <<>> \o x = x
    BY DEF Bytes
  <2>2. Splits(<<>>, <<>>)
    BY <2>1 DEF Splits, Bytes
  <2> QED BY <1>5, <1>6, <2>2
<1>8. ASSUME NEW m \in 1..n, Same(m - 1) PROVE Same(m)
  <2>1. SplitsWithKeys(f[m - 1], g[m - 1], ks[m], ls[m])
    BY <1>2, <1>8, SplitsKey, Zenon
  <2>2. f[m] = f[m - 1] \o SigningKey(ks[m]) /\ g[m] = g[m - 1] \o SigningKey(ls[m])
    BY <1>5, <1>6
  <2>3. Splits(f[m], g[m]) /\ (f[m] = g[m] => f[m - 1] = g[m - 1] /\ ks[m] = ls[m])
    BY <2>1, <2>2 DEF SplitsWithKeys
  <2>4. \A i \in 1..m : i = m \/ i \in 1..(m - 1)
    OBVIOUS
  <2> QED BY <1>8, <2>3, <2>4
<1>9. ASSUME T # {} PROVE FALSE
  <2>1. PICK m \in T : m = 0 \/ (m - 1 \in Nat /\ m - 1 \notin T)
    <3>1. T \in SUBSET Nat
      OBVIOUS
    <3> HIDE DEF T
    <3> QED BY <1>9, <3>1, FirstNumber, Zenon
  <2> HIDE DEF Same
  <2>2. m # 0 /\ m \in 1..n /\ m - 1 \in 0..n
    BY <1>7, <2>1
  <2>3. Same(m - 1)
    BY <2>1, <2>2
  <2> QED BY <1>8, <2>2, <2>3
<1>10. Same(n)
  <2> HIDE DEF Same
  <2> QED BY <1>9
<1>11. (\A i \in 1..n : ks[i] = ls[i]) => ks = ls
  BY <1>1, SeqEqual
<1> QED BY <1>3, <1>5, <1>6, <1>10, <1>11 DEF SplitsWithLists

\* What follows the tag and the three texts, after the number of keys.
RegistrationTail(r) ==
  ((Concatenated([i \in DOMAIN r.keys |-> SigningKey(r.keys[i])])
     \o U32be(r.marginBps)) \o BigUintBe(r.minBalance, W128))
       \o <<IF r.active THEN 1 ELSE 0>>

RegistrationHead(r) ==
  Tag["registration"] \o Framed(r.appId) \o Framed(r.developerDid) \o Framed(r.appWallet)
    \o U32be(Len(r.keys))

\* A registration that does not throw.
LEMMA RegistrationParts ==
  \A r \in Registrations : AppRegistrationParams(r) # Threw =>
    /\ r.keys \in Seq(SigningKeys) /\ BigUintBe(r.minBalance, W128) # Threw
    /\ RegistrationHead(r) \in Bytes /\ RegistrationTail(r) \in Bytes
    /\ AppRegistrationParams(r) = RegistrationHead(r) \o RegistrationTail(r)
<1> TAKE r \in Registrations
<1> HAVE AppRegistrationParams(r) # Threw
<1>1. BigUintBe(r.minBalance, W128) # Threw
      /\ \A i \in DOMAIN r.keys : r.keys[i].limited => BigUintBe(r.keys[i].dailyLimit, W128) # Threw
  BY DEF AppRegistrationParams
<1>2. r.keys \in Seq(KeyFields)
      /\ \A i \in DOMAIN r.keys : ~r.keys[i].limited => r.keys[i].dailyLimit = 0
  BY DEF Registrations
<1>3. PICK ks : ks = r.keys
  OBVIOUS
<1>4. \A i \in 1..Len(ks) : ks[i] \in SigningKeys
  <2> TAKE i \in 1..Len(ks)
  <2>1. PICK k : k = ks[i]
    OBVIOUS
  <2>2. k \in KeyFields
    BY <1>2, <1>3, <2>1
  <2>3. i \in DOMAIN ks
    BY <1>2, <1>3
  <2>4. /\ k.limited => BigUintBe(k.dailyLimit, W128) # Threw
        /\ ~k.limited => k.dailyLimit = 0
    BY <1>1, <1>2, <1>3, <2>1, <2>3
  <2> QED BY <2>1, <2>2, <2>4 DEF SigningKeys, KeyFields
<1>5. ks \in Seq(SigningKeys)
  BY <1>2, <1>3, <1>4
<1>6. PICK c, m, u, a : /\ c = Concatenated([i \in DOMAIN ks |-> SigningKey(ks[i])])
                        /\ m = U32be(r.marginBps) /\ u = BigUintBe(r.minBalance, W128)
                        /\ a = <<IF r.active THEN 1 ELSE 0>>
  OBVIOUS
<1>7. c \in Bytes /\ m \in Bytes /\ u \in Bytes /\ a \in Bytes
  <2>1. c \in Bytes
    <3>1. SplitsWithLists(ks, ks)
      BY <1>5, SplitsLists
    <3> QED BY <1>6, <3>1 DEF SplitsWithLists, Splits
  <2>2. m \in Bytes
    BY <1>6, U32Bytes DEF Registrations
  <2>3. u \in Bytes
    BY <1>1, <1>6, BigUintBeKeeps, WidthsAssumption DEF Registrations, Fixed
  <2>4. a \in Bytes
    BY <1>6, BaseAssumption DEF Bytes, Byte
  <2> QED BY <2>1, <2>2, <2>3, <2>4
<1>8. PICK h : h = RegistrationHead(r)
  OBVIOUS
<1>9. h \in Bytes
  <2>1. Tag["registration"] \in Bytes
    BY TagAssumption DEF Tags
  <2>2. Framed(r.appId) \in Bytes /\ Framed(r.developerDid) \in Bytes /\ Framed(r.appWallet) \in Bytes
    BY FramedBytes DEF Registrations, Framable
  <2>3. U32be(Len(ks)) \in Bytes
    BY <1>5, U32Bytes
  <2> QED BY <1>3, <1>8, <2>1, <2>2, <2>3, JoinedBytes DEF RegistrationHead
<1>10. AppRegistrationParams(r) = (((h \o c) \o m) \o u) \o a
  BY <1>1, <1>3, <1>6, <1>8 DEF AppRegistrationParams, RegistrationHead
<1>11. RegistrationTail(r) = ((c \o m) \o u) \o a
  BY <1>3, <1>6 DEF RegistrationTail
<1>12. c \o m \in Bytes /\ (c \o m) \o u \in Bytes /\ ((c \o m) \o u) \o a \in Bytes
  BY <1>7, JoinedBytes
<1>13. (((h \o c) \o m) \o u) \o a = h \o (((c \o m) \o u) \o a)
  <2>1. (h \o c) \o m = h \o (c \o m)
    <3>1. Regroups(h, c, m)
      BY ONLY <1>7, <1>9, JoinedAssociative
    <3> QED BY ONLY <3>1 DEF Regroups
  <2>2. (h \o (c \o m)) \o u = h \o ((c \o m) \o u)
    <3>1. Regroups(h, c \o m, u)
      BY ONLY <1>7, <1>9, <1>12, JoinedAssociative
    <3> QED BY ONLY <3>1 DEF Regroups
  <2>3. (h \o ((c \o m) \o u)) \o a = h \o (((c \o m) \o u) \o a)
    <3>1. Regroups(h, (c \o m) \o u, a)
      BY ONLY <1>7, <1>9, <1>12, JoinedAssociative
    <3> QED BY ONLY <3>1 DEF Regroups
  <2> QED BY <2>1, <2>2, <2>3
<1> QED BY <1>1, <1>3, <1>5, <1>8, <1>9, <1>10, <1>11, <1>12, <1>13

LEMMA HeadsSplit ==
  ASSUME NEW r \in Registrations, NEW s \in Registrations
  PROVE  /\ Splits(RegistrationHead(r), RegistrationHead(s))
         /\ RegistrationHead(r) = RegistrationHead(s) =>
              /\ r.appId = s.appId /\ r.developerDid = s.developerDid /\ r.appWallet = s.appWallet
              /\ Len(r.keys) = Len(s.keys)
<1> DEFINE p1 == Tag["registration"] \o Framed(r.appId)
           p2 == p1 \o Framed(r.developerDid)
           p3 == p2 \o Framed(r.appWallet)
           q1 == Tag["registration"] \o Framed(s.appId)
           q2 == q1 \o Framed(s.developerDid)
           q3 == q2 \o Framed(s.appWallet)
<1>1. RegistrationHead(r) = p3 \o U32be(Len(r.keys)) /\ RegistrationHead(s) = q3 \o U32be(Len(s.keys))
  BY DEF RegistrationHead
<1> HIDE DEF p1, p2, p3, q1, q2, q3
<1>2. Splits(Tag["registration"], Tag["registration"])
  BY SplitsTag DEF Tags
<1>3. Splits(p1, q1) /\ (p1 = q1 => r.appId = s.appId)
  <2>1. r.appId \in Framable /\ s.appId \in Framable
    BY DEF Registrations
  <2> QED BY <1>2, <2>1, SplitsFramed DEF p1, q1
<1>4. Splits(p2, q2) /\ (p2 = q2 => p1 = q1 /\ r.developerDid = s.developerDid)
  <2>1. r.developerDid \in Framable /\ s.developerDid \in Framable
    BY DEF Registrations
  <2> QED BY <1>3, <2>1, SplitsFramed DEF p2, q2
<1>5. Splits(p3, q3) /\ (p3 = q3 => p2 = q2 /\ r.appWallet = s.appWallet)
  <2>1. r.appWallet \in Framable /\ s.appWallet \in Framable
    BY DEF Registrations
  <2> QED BY <1>4, <2>1, SplitsFramed DEF p3, q3
<1>6. PICK m, n : m = Len(r.keys) /\ n = Len(s.keys)
  OBVIOUS
<1>7. m \in Nat /\ n \in Nat /\ FitsU32(m) /\ FitsU32(n)
  BY <1>6 DEF Registrations
<1>8. U32be(m) \in Bytes /\ U32be(n) \in Bytes /\ Len(U32be(m)) = Len(U32be(n))
  BY <1>7, U32Bytes
<1>9. /\ Splits(p3 \o U32be(m), q3 \o U32be(n))
      /\ p3 \o U32be(m) = q3 \o U32be(n) => p3 = q3 /\ U32be(m) = U32be(n)
  BY <1>5, <1>8, SplitsFixed
<1>10. U32be(m) = U32be(n) => m = n
  BY <1>7, U32Injective
<1> QED BY <1>1, <1>3, <1>4, <1>5, <1>6, <1>9, <1>10

LEMMA TailsDetermine ==
  ASSUME NEW r \in Registrations, NEW s \in Registrations,
         r.keys \in Seq(SigningKeys), s.keys \in Seq(SigningKeys), Len(r.keys) = Len(s.keys),
         BigUintBe(r.minBalance, W128) # Threw, BigUintBe(s.minBalance, W128) # Threw,
         RegistrationTail(r) = RegistrationTail(s)
  PROVE  r.keys = s.keys /\ r.marginBps = s.marginBps /\ r.minBalance = s.minBalance
         /\ r.active = s.active
<1>1. PICK c, d : /\ c = Concatenated([i \in DOMAIN r.keys |-> SigningKey(r.keys[i])])
                  /\ d = Concatenated([i \in DOMAIN s.keys |-> SigningKey(s.keys[i])])
  OBVIOUS
<1>2. Splits(c, d) /\ (c = d => r.keys = s.keys)
  <2>1. PICK ks, ls : ks = r.keys /\ ls = s.keys
    OBVIOUS
  <2>2. SplitsWithLists(ks, ls)
    BY <2>1, SplitsLists
  <2> QED BY <1>1, <2>1, <2>2 DEF SplitsWithLists
<1>3. r.marginBps \in Nat /\ s.marginBps \in Nat /\ FitsU32(r.marginBps) /\ FitsU32(s.marginBps)
      /\ r.minBalance \in Int /\ s.minBalance \in Int
      /\ r.active \in BOOLEAN /\ s.active \in BOOLEAN
  BY DEF Registrations
<1>4. PICK m, n : m = U32be(r.marginBps) /\ n = U32be(s.marginBps)
  OBVIOUS
<1>5. m \in Bytes /\ n \in Bytes /\ Len(m) = Len(n) /\ (m = n => r.marginBps = s.marginBps)
  BY <1>3, <1>4, U32Bytes, U32Injective
<1>6. PICK u, v : u = BigUintBe(r.minBalance, W128) /\ v = BigUintBe(s.minBalance, W128)
  OBVIOUS
<1>7. u \in Bytes /\ v \in Bytes /\ Len(u) = Len(v)
  BY <1>3, <1>6, BigUintBeKeeps, WidthsAssumption DEF Fixed
<1>8. u = v => r.minBalance = s.minBalance
  BY <1>3, <1>6, BigUintBeDetermines, WidthsAssumption
<1>9. PICK a, b : a = <<IF r.active THEN 1 ELSE 0>> /\ b = <<IF s.active THEN 1 ELSE 0>>
  OBVIOUS
<1>10. a \in Bytes /\ b \in Bytes /\ Len(a) = Len(b) /\ (a = b => r.active = s.active)
  BY <1>3, <1>9, BaseAssumption DEF Bytes, Byte
<1>11. Splits(c \o m, d \o n) /\ (c \o m = d \o n => c = d /\ m = n)
  BY <1>2, <1>5, SplitsFixed
<1>12. /\ Splits((c \o m) \o u, (d \o n) \o v)
       /\ (c \o m) \o u = (d \o n) \o v => c \o m = d \o n /\ u = v
  <2>1. PICK p, q : p = c \o m /\ q = d \o n
    OBVIOUS
  <2>2. Splits(p, q)
    BY ONLY <1>11, <2>1
  <2>3. Splits(p \o u, q \o v) /\ (p \o u = q \o v => p = q /\ u = v)
    BY ONLY <1>7, <2>2, SplitsFixed
  <2> QED BY ONLY <2>1, <2>3
<1>13. ((c \o m) \o u) \o a = ((d \o n) \o v) \o b
  BY <1>1, <1>4, <1>6, <1>9 DEF RegistrationTail
<1>14. (c \o m) \o u = (d \o n) \o v /\ a = b
  BY <1>10, <1>12, <1>13 DEF Splits
<1> QED BY <1>2, <1>5, <1>8, <1>10, <1>11, <1>12, <1>14

\* appRegistrationParams (src/app.ts): a signed registration names one app,
\* developer and wallet, one list of keys with their limits - however many keys
\* there are and wherever one ends - and one margin, balance and state.
THEOREM RegistrationInjective ==
  ASSUME NEW r \in Registrations, NEW s \in Registrations,
         AppRegistrationParams(r) # Threw,
         AppRegistrationParams(r) = AppRegistrationParams(s)
  PROVE  r = s
<1>1. PICK h, g, t, u : /\ h = RegistrationHead(r) /\ g = RegistrationHead(s)
                        /\ t = RegistrationTail(r) /\ u = RegistrationTail(s)
  OBVIOUS
<1>2. r.keys \in Seq(SigningKeys) /\ BigUintBe(r.minBalance, W128) # Threw
      /\ t \in Bytes /\ AppRegistrationParams(r) = h \o t
  BY <1>1, RegistrationParts
<1>3. s.keys \in Seq(SigningKeys) /\ BigUintBe(s.minBalance, W128) # Threw
      /\ u \in Bytes /\ AppRegistrationParams(s) = g \o u
  BY <1>1, RegistrationParts
<1>4. Splits(h, g)
  BY <1>1, HeadsSplit
<1>5. h = g /\ t = u
  BY <1>2, <1>3, <1>4 DEF Splits
<1>6. /\ r.appId = s.appId /\ r.developerDid = s.developerDid /\ r.appWallet = s.appWallet
      /\ Len(r.keys) = Len(s.keys)
  BY <1>1, <1>5, HeadsSplit
<1>7. r.keys = s.keys /\ r.marginBps = s.marginBps /\ r.minBalance = s.minBalance
      /\ r.active = s.active
  BY <1>1, <1>2, <1>3, <1>5, <1>6, TailsDetermine
<1> QED BY <1>6, <1>7 DEF Registrations
-----------------------------------------------------------------------------
(***************************************************************************)
(* Byte strings without a domain tag                                       *)
(***************************************************************************)
LEMMA SplitsNothing ==
  /\ Splits(<<>>, <<>>)
  /\ \A b \in Bytes : <<>> \o b = b
<1>1. \A x \in Bytes : <<>> \o x = x
  BY DEF Bytes
<1> QED BY <1>1 DEF Splits, Bytes

\* envelopeToHeaderValue (src/app.ts): what the node reads from the header is the
\* envelope that was signed, and its signature.
THEOREM HeaderInjective ==
  ASSUME NEW r \in Headers, NEW s \in Headers,
         EnvelopeToHeaderValue(r) # Threw, EnvelopeToHeaderValue(r) = EnvelopeToHeaderValue(s)
  PROVE  r = s
<1>1. BigUintBe(r.timestamp, W64) # Threw /\ BigUintBe(s.timestamp, W64) # Threw
  BY DEF EnvelopeToHeaderValue
<1>2. PICK t, u : t = BigUintBe(r.timestamp, W64) /\ u = BigUintBe(s.timestamp, W64)
  OBVIOUS
<1>3. t \in Bytes /\ u \in Bytes /\ Len(t) = Len(u)
  BY <1>1, <1>2, BigUintBeKeeps, WidthsAssumption DEF Headers, Fixed
<1>4. /\ r.did \in Framable /\ s.did \in Framable /\ r.method \in Framable /\ s.method \in Framable
      /\ r.signature \in Framable /\ s.signature \in Framable
  BY DEF Headers
<1>5. /\ r.paramsHash \in Bytes /\ s.paramsHash \in Bytes /\ Len(r.paramsHash) = Len(s.paramsHash)
      /\ r.nonce \in Bytes /\ s.nonce \in Bytes /\ Len(r.nonce) = Len(s.nonce)
  BY DEF Headers, Fixed
<1> DEFINE p1 == Framed(r.did)
           p2 == p1 \o Framed(r.method)
           p3 == p2 \o r.paramsHash
           p4 == p3 \o t
           p5 == p4 \o r.nonce
           q1 == Framed(s.did)
           q2 == q1 \o Framed(s.method)
           q3 == q2 \o s.paramsHash
           q4 == q3 \o u
           q5 == q4 \o s.nonce
<1>6. p5 \o Framed(r.signature) = q5 \o Framed(s.signature)
  BY <1>1, <1>2 DEF EnvelopeToHeaderValue
<1> HIDE DEF p1, p2, p3, p4, p5, q1, q2, q3, q4, q5
<1>7. Splits(p1, q1) /\ (p1 = q1 => r.did = s.did)
  <2>1. Framed(r.did) \in Bytes /\ Framed(s.did) \in Bytes
    BY <1>4, FramedBytes DEF Framable
  <2>2. <<>> \o Framed(r.did) = p1 /\ <<>> \o Framed(s.did) = q1
    BY <2>1, SplitsNothing DEF p1, q1
  <2> QED BY <1>4, <2>2, SplitsNothing, SplitsFramed
<1>8. Splits(p2, q2) /\ (p2 = q2 => p1 = q1 /\ r.method = s.method)
  BY <1>4, <1>7, SplitsFramed DEF p2, q2
<1>9. Splits(p3, q3) /\ (p3 = q3 => p2 = q2 /\ r.paramsHash = s.paramsHash)
  BY <1>5, <1>8, SplitsFixed DEF p3, q3
<1>10. Splits(p4, q4) /\ (p4 = q4 => p3 = q3 /\ t = u)
  BY <1>3, <1>9, SplitsFixed DEF p4, q4
<1>11. Splits(p5, q5) /\ (p5 = q5 => p4 = q4 /\ r.nonce = s.nonce)
  BY <1>5, <1>10, SplitsFixed DEF p5, q5
<1>12. p5 = q5 /\ r.signature = s.signature
  <2>1. PICK a, b : a = r.signature /\ b = s.signature
    OBVIOUS
  <2>2. a \in Framable /\ b \in Framable
    BY ONLY <1>4, <2>1
  <2>3. p5 \o Framed(a) = q5 \o Framed(b) => p5 = q5 /\ a = b
    BY ONLY <1>11, <2>2, SplitsFramed
  <2> QED BY ONLY <1>6, <2>1, <2>3
<1>13. r.timestamp = s.timestamp
  BY <1>1, <1>2, <1>9, <1>10, <1>11, <1>12, BigUintBeDetermines, WidthsAssumption DEF Headers
<1> QED BY <1>7, <1>8, <1>9, <1>10, <1>11, <1>12, <1>13 DEF Headers

LEMMA FourReversed ==
  \A m \in Bytes : Len(m) = 4 => <<m[4], m[3], m[2], m[1]>> \in Bytes
<1> TAKE m \in Bytes
<1> HAVE Len(m) = 4
<1>1. m[1] \in Byte /\ m[2] \in Byte /\ m[3] \in Byte /\ m[4] \in Byte
  <2>1. m \in [1..4 -> Byte]
    BY m \in Seq(Byte), LenProperties DEF Bytes
  <2>2. 1 \in 1..4 /\ 2 \in 1..4 /\ 3 \in 1..4 /\ 4 \in 1..4
    OBVIOUS
  <2> QED BY ONLY <2>1, <2>2
<1> QED BY <1>1 DEF Bytes

\* A text framed with a little-endian length comes off the front too.
LEMMA FramedLeSplits ==
  \A a, b \in Framable : \A x, y \in Bytes : FramedLe(a) \o x = FramedLe(b) \o y => a = b /\ x = y
<1> TAKE a, b \in Framable
<1> TAKE x, y \in Bytes
<1> HAVE FramedLe(a) \o x = FramedLe(b) \o y
<1>1. a \in Bytes /\ b \in Bytes /\ FitsU32(Len(a)) /\ FitsU32(Len(b))
      /\ Len(a) \in Nat /\ Len(b) \in Nat
  BY DEF Framable, Bytes
<1>2. PICK m, n : m = U32be(Len(a)) /\ n = U32be(Len(b))
  OBVIOUS
<1>3. m \in Bytes /\ n \in Bytes /\ Len(m) = 4 /\ Len(n) = 4
  BY <1>1, <1>2, U32Bytes
<1>4. PICK h, g : h = <<m[4], m[3], m[2], m[1]>> /\ g = <<n[4], n[3], n[2], n[1]>>
  OBVIOUS
<1>5. h \in Bytes /\ g \in Bytes /\ Len(h) = Len(g)
  <2>1. h \in Bytes
    BY ONLY <1>3, <1>4, FourReversed
  <2>2. g \in Bytes
    BY ONLY <1>3, <1>4, FourReversed
  <2>3. Len(h) = 4 /\ Len(g) = 4
    BY ONLY <1>4
  <2> QED BY ONLY <2>1, <2>2, <2>3
<1>6. FramedLe(a) = h \o a /\ FramedLe(b) = g \o b
  BY <1>2, <1>4 DEF FramedLe
<1>7. (h \o a) \o x = h \o (a \o x)
  <2>1. h \in Bytes /\ a \in Bytes /\ x \in Bytes
    BY <1>1, <1>5
  <2>2. Regroups(h, a, x)
    BY ONLY <2>1, JoinedAssociative
  <2> QED BY ONLY <2>2 DEF Regroups
<1>8. (g \o b) \o y = g \o (b \o y)
  <2>1. g \in Bytes /\ b \in Bytes /\ y \in Bytes
    BY <1>1, <1>5
  <2>2. Regroups(g, b, y)
    BY ONLY <2>1, JoinedAssociative
  <2> QED BY ONLY <2>2 DEF Regroups
<1>9. a \o x \in Bytes /\ b \o y \in Bytes
  BY <1>1, JoinedBytes, Zenon
<1>10. h \o (a \o x) = g \o (b \o y)
  BY <1>6, <1>7, <1>8
<1>11. h = g /\ a \o x = b \o y
  <2>1. PICK w, z : w = a \o x /\ z = b \o y
    OBVIOUS
  <2>2. w \in Bytes /\ z \in Bytes /\ h \o w = g \o z
    BY ONLY <1>9, <1>10, <2>1
  <2>3. h = g /\ w = z
    BY ONLY <1>5, <2>2, JoinedInjective, Zenon
  <2> QED BY ONLY <2>1, <2>3
<1>12. m = n
  <2>1. m[1] = n[1] /\ m[2] = n[2] /\ m[3] = n[3] /\ m[4] = n[4]
    BY <1>4, <1>11
  <2>2. \A i \in 1..4 : i = 1 \/ i = 2 \/ i = 3 \/ i = 4
    OBVIOUS
  <2>3. \A i \in 1..4 : m[i] = n[i]
    BY <2>1, <2>2
  <2> QED BY <1>3, <2>3, SeqEqual DEF Bytes
<1>13. Len(a) = Len(b)
  BY <1>1, <1>2, <1>12, U32Injective
<1> QED BY <1>1, <1>11, <1>13, JoinedInjective, Zenon

\* packAux (src/passkey.ts): the validator reads the authenticator data and the
\* client data from the auxiliary data of an assertion, as they were.
THEOREM AuxiliaryInjective ==
  ASSUME NEW a \in Framable, NEW b \in Framable, NEW c \in Framable, NEW d \in Framable,
         PackAux(a, c) = PackAux(b, d)
  PROVE  a = b /\ c = d
<1>1. FramedLe(a) \o FramedLe(c) = FramedLe(b) \o FramedLe(d)
  BY DEF PackAux
<1>2. \A e \in Framable : FramedLe(e) \in Bytes /\ FramedLe(e) \o <<>> = FramedLe(e)
  <2> TAKE e \in Framable
  <2>1. PICK m : m = U32be(Len(e))
    OBVIOUS
  <2>2. m \in Bytes /\ Len(m) = 4 /\ e \in Bytes
    BY <2>1, U32Bytes DEF Framable, Bytes
  <2>3. <<m[4], m[3], m[2], m[1]>> \in Bytes
    BY ONLY <2>2, FourReversed
  <2>4. FramedLe(e) = <<m[4], m[3], m[2], m[1]>> \o e
    BY <2>1 DEF FramedLe
  <2>5. FramedLe(e) \in Bytes
    BY <2>2, <2>3, <2>4, JoinedBytes
  <2>6. \A x \in Bytes : x \o <<>> = x
    BY DEF Bytes
  <2> QED BY <2>5, <2>6
<1>3. a = b /\ FramedLe(c) = FramedLe(d)
  <2>1. PICK x, y : x = FramedLe(c) /\ y = FramedLe(d)
    OBVIOUS
  <2>2. x \in Bytes /\ y \in Bytes /\ FramedLe(a) \o x = FramedLe(b) \o y
    BY <1>1, <1>2, <2>1
  <2>3. \A v, w \in Bytes : FramedLe(a) \o v = FramedLe(b) \o w => a = b /\ v = w
    BY FramedLeSplits, Zenon
  <2>4. a = b /\ x = y
    BY ONLY <2>2, <2>3
  <2> QED BY <2>1, <2>4
<1>4. PICK e : e = <<>>
  OBVIOUS
<1>5. e \in Bytes /\ FramedLe(c) \o e = FramedLe(d) \o e
  BY <1>3, <1>4 DEF Bytes
<1>6. \A x, y \in Bytes : FramedLe(c) \o x = FramedLe(d) \o y => c = d
  BY FramedLeSplits, Zenon
<1>7. c = d
  BY ONLY <1>5, <1>6, Zenon
<1> QED BY <1>3, <1>7
-----------------------------------------------------------------------------
(***************************************************************************)
(* The order of the keys of a claims object                                *)
(***************************************************************************)
\* byteCompare position by position: a goes on in b, or is below it at the first
\* place where they differ.
GoesOn(a, b) == Len(a) < Len(b) /\ \A i \in 1..Len(a) : a[i] = b[i]
Below(a, b) ==
  \E i \in 1..Len(a) : i <= Len(b) /\ a[i] < b[i] /\ \A j \in 1..(i - 1) : a[j] = b[j]

LEMMA BytesTyped ==
  \A a \in Bytes : Len(a) \in Nat /\ DOMAIN a = 1..Len(a) /\ \A i \in 1..Len(a) : a[i] \in Int
<1> TAKE a \in Bytes
<1>1. Len(a) \in Nat /\ a \in [1..Len(a) -> Byte] /\ DOMAIN a = 1..Len(a)
  BY a \in Seq(Byte), LenProperties DEF Bytes
<1>2. \A i \in Byte : i \in Int
  BY BaseAssumption DEF Byte
<1> QED BY <1>1, <1>2

LEMMA EqualBytes ==
  \A a, b \in Bytes : Len(a) = Len(b) /\ (\A i \in 1..Len(a) : a[i] = b[i]) => a = b
BY SeqEqual DEF Bytes

LEMMA ByteBeforeMeans ==
  \A a, b \in Bytes : ByteBefore(a, b) <=> GoesOn(a, b) \/ Below(a, b)
<1> TAKE a, b \in Bytes
<1>1. Len(a) \in Nat /\ Len(b) \in Nat /\ DOMAIN a = 1..Len(a) /\ DOMAIN b = 1..Len(b)
  BY BytesTyped
<1>2. (\E i \in DOMAIN a \cap DOMAIN b : a[i] < b[i] /\ \A j \in 1..(i - 1) : a[j] = b[j])
      <=> Below(a, b)
  BY <1>1 DEF Below
<1>3. ASSUME Len(a) <= Len(b)
      PROVE  (SubSeq(b, 1, Len(a)) = a) <=> (\A i \in 1..Len(a) : a[i] = b[i])
  <2>1. PICK c : c = SubSeq(b, 1, Len(a))
    OBVIOUS
  <2>2. c \in Bytes /\ Len(c) = Len(a) /\ \A i \in 1..Len(a) : c[i] = b[i]
    BY <1>1, <1>3, <2>1 DEF Bytes
  <2>3. (\A i \in 1..Len(a) : a[i] = b[i]) => c = a
    BY <2>2, EqualBytes
  <2>4. c = a => \A i \in 1..Len(a) : a[i] = b[i]
    BY <2>2
  <2> QED BY <2>1, <2>3, <2>4
<1>4. a # b /\ StartsWith(b, a) => GoesOn(a, b)
  <2> HAVE a # b /\ StartsWith(b, a)
  <2>1. Len(a) <= Len(b) /\ \A i \in 1..Len(a) : a[i] = b[i]
    BY <1>3 DEF StartsWith
  <2>2. Len(a) # Len(b)
    BY <2>1, EqualBytes
  <2>3. Len(a) < Len(b)
    <3>1. \A m, n \in Nat : m <= n /\ m # n => m < n
      OBVIOUS
    <3> QED BY ONLY <1>1, <2>1, <2>2, <3>1, Zenon
  <2> QED BY ONLY <2>1, <2>3 DEF GoesOn
<1>5. GoesOn(a, b) => a # b /\ StartsWith(b, a)
  BY <1>1, <1>3 DEF GoesOn, StartsWith
<1> QED BY <1>2, <1>4, <1>5 DEF ByteBefore

LEMMA BeforeIrreflexive == \A a \in Bytes : ~ByteBefore(a, a)
<1> TAKE a \in Bytes
<1>1. ~GoesOn(a, a) /\ ~Below(a, a)
  BY BytesTyped DEF GoesOn, Below
<1> QED BY <1>1, ByteBeforeMeans

LEMMA BeforeTransitive ==
  \A a, b, c \in Bytes : ByteBefore(a, b) /\ ByteBefore(b, c) => ByteBefore(a, c)
<1> TAKE a, b, c \in Bytes
<1>1. /\ Len(a) \in Nat /\ Len(b) \in Nat /\ Len(c) \in Nat
      /\ \A i \in 1..Len(a) : a[i] \in Int
      /\ \A i \in 1..Len(b) : b[i] \in Int
      /\ \A i \in 1..Len(c) : c[i] \in Int
  BY BytesTyped
<1>2. GoesOn(a, b) /\ GoesOn(b, c) => GoesOn(a, c)
  BY <1>1 DEF GoesOn
<1>3. ASSUME GoesOn(a, b), Below(b, c) PROVE GoesOn(a, c) \/ Below(a, c)
  <2>1. PICK i \in 1..Len(b) : i <= Len(c) /\ b[i] < c[i] /\ \A j \in 1..(i - 1) : b[j] = c[j]
    BY <1>3 DEF Below
  <2>2. CASE i <= Len(a)
    BY <1>1, <1>3, <2>1, <2>2 DEF GoesOn, Below
  <2>3. CASE i > Len(a)
    BY <1>1, <1>3, <2>1, <2>3 DEF GoesOn
  <2> QED BY <1>1, <2>2, <2>3
<1>4. ASSUME Below(a, b), GoesOn(b, c) PROVE Below(a, c)
  BY <1>1, <1>4 DEF GoesOn, Below
<1>5. ASSUME Below(a, b), Below(b, c) PROVE Below(a, c)
  <2>1. PICK i \in 1..Len(a) : i <= Len(b) /\ a[i] < b[i] /\ \A j \in 1..(i - 1) : a[j] = b[j]
    BY <1>5 DEF Below
  <2>2. PICK k \in 1..Len(b) : k <= Len(c) /\ b[k] < c[k] /\ \A j \in 1..(k - 1) : b[j] = c[j]
    BY <1>5 DEF Below
  <2>3. CASE i < k
    <3>1. i \in 1..Len(a) /\ i <= Len(c)
      BY <1>1, <2>1, <2>2, <2>3
    <3>2. a[i] < c[i]
      BY <1>1, <2>1, <2>2, <2>3, <3>1
    <3>3. \A j \in 1..(i - 1) : a[j] = c[j]
      BY <1>1, <2>1, <2>2, <2>3, <3>1
    <3> QED BY ONLY <3>1, <3>2, <3>3 DEF Below
  <2>4. CASE i = k
    <3>1. i \in 1..Len(a) /\ i <= Len(c)
      BY <1>1, <2>1, <2>2, <2>4
    <3>2. a[i] < c[i]
      BY <1>1, <2>1, <2>2, <2>4, <3>1
    <3>3. \A j \in 1..(i - 1) : a[j] = c[j]
      BY <1>1, <2>1, <2>2, <2>4, <3>1
    <3> QED BY ONLY <3>1, <3>2, <3>3 DEF Below
  <2>5. CASE k < i
    <3>1. k \in 1..Len(a) /\ k <= Len(c)
      BY <1>1, <2>1, <2>2, <2>5
    <3>2. a[k] < c[k]
      BY <1>1, <2>1, <2>2, <2>5, <3>1
    <3>3. \A j \in 1..(k - 1) : a[j] = c[j]
      BY <1>1, <2>1, <2>2, <2>5, <3>1
    <3> QED BY ONLY <3>1, <3>2, <3>3 DEF Below
  <2> QED BY <1>1, <2>3, <2>4, <2>5
<1> QED BY <1>2, <1>3, <1>4, <1>5, ByteBeforeMeans

LEMMA BeforeTotal ==
  \A a, b \in Bytes : a = b \/ ByteBefore(a, b) \/ ByteBefore(b, a)
<1> TAKE a, b \in Bytes
<1>1. /\ Len(a) \in Nat /\ Len(b) \in Nat
      /\ \A i \in 1..Len(a) : a[i] \in Int
      /\ \A i \in 1..Len(b) : b[i] \in Int
  BY BytesTyped
<1> DEFINE T == {i \in Nat : i >= 1 /\ i <= Len(a) /\ i <= Len(b) /\ a[i] # b[i]}
<1>2. CASE T = {}
  <2>1. \A i \in 1..Len(a) : i <= Len(b) => a[i] = b[i]
    BY <1>1, <1>2
  <2>2. Len(a) < Len(b) => GoesOn(a, b)
    BY <1>1, <2>1 DEF GoesOn
  <2>3. Len(b) < Len(a) => GoesOn(b, a)
    BY <1>1, <2>1 DEF GoesOn
  <2>4. Len(a) = Len(b) => a = b
    BY <1>1, <2>1, EqualBytes
  <2> QED BY <1>1, <2>2, <2>3, <2>4, ByteBeforeMeans
<1>3. CASE T # {}
  <2>1. PICK i \in T : \A k \in T : i <= k
    <3>1. T \in SUBSET Nat
      OBVIOUS
    <3> HIDE DEF T
    <3> QED BY <1>3, <3>1, LeastNumber, Zenon
  <2>2. i \in 1..Len(a) /\ i \in 1..Len(b) /\ a[i] # b[i]
    BY <1>1
  <2>3. \A j \in 1..(i - 1) : a[j] = b[j]
    <3> TAKE j \in 1..(i - 1)
    <3>1. j \in Nat /\ j >= 1 /\ j <= Len(a) /\ j <= Len(b) /\ ~(i <= j)
      BY <1>1, <2>2
    <3> QED BY <2>1, <3>1
  <2>4. a[i] < b[i] => Below(a, b)
    BY <1>1, <2>2, <2>3 DEF Below
  <2>5. b[i] < a[i] => Below(b, a)
    BY <1>1, <2>2, <2>3 DEF Below
  <2>6. a[i] \in Int /\ b[i] \in Int
    BY <1>1, <2>2
  <2> QED BY <2>2, <2>4, <2>5, <2>6, ByteBeforeMeans
<1> QED BY <1>2, <1>3
-----------------------------------------------------------------------------
\* What a sort by byteCompare gives.
Sorted(s) == \A i, j \in DOMAIN s : i < j => ByteBefore(s[i], s[j])

\* Every finite set of keys can be sorted: a key is put before the first one that
\* it is before.
LEMMA SortedExists ==
  \A n \in Nat : \A K \in SUBSET Bytes :
    IsFiniteSet(K) /\ Cardinality(K) = n => \E s \in [1..n -> K] : Sorted(s)
<1> DEFINE T == {n \in Nat : \E K \in SUBSET Bytes : IsFiniteSet(K) /\ Cardinality(K) = n
                                 /\ \A s \in [1..n -> K] : ~Sorted(s)}
<1>1. ASSUME T # {} PROVE FALSE
  <2>1. PICK n \in T : n = 0 \/ (n - 1 \in Nat /\ n - 1 \notin T)
    <3>1. T \in SUBSET Nat
      OBVIOUS
    <3> HIDE DEF T
    <3> QED BY <1>1, <3>1, FirstNumber, Zenon
  <2>2. n \in Nat
    OBVIOUS
  <2>3. PICK K \in SUBSET Bytes : IsFiniteSet(K) /\ Cardinality(K) = n
                                 /\ \A s \in [1..n -> K] : ~Sorted(s)
    OBVIOUS
  <2>4. n # 0
    <3> SUFFICES ASSUME n = 0 PROVE FALSE
      OBVIOUS
    <3>1. \A i : i \notin 1..n
      BY <2>2
    <3>2. PICK s : s = [i \in 1..n |-> i]
      OBVIOUS
    <3>3. s \in [1..n -> K] /\ Sorted(s)
      BY <3>1, <3>2 DEF Sorted
    <3> QED BY <2>3, <3>3
  <2>5. PICK x \in K : TRUE
    <3>1. K # {}
      BY <2>3, <2>4, FS_EmptySet
    <3> QED BY <3>1
  <2>6. IsFiniteSet(K \ {x}) /\ Cardinality(K \ {x}) = n - 1
    BY <2>3, <2>5, FS_RemoveElement
  <2>7. PICK s \in [1..(n - 1) -> K \ {x}] : Sorted(s)
    <3>1. n - 1 \in Nat /\ n - 1 \notin T
      BY <2>1, <2>4
    <3>2. K \ {x} \in SUBSET Bytes
      BY <2>3
    <3> QED BY <2>6, <3>1, <3>2
  <2> HIDE DEF T
  <2>8. \A i \in 1..(n - 1) : s[i] \in Bytes /\ s[i] # x /\ s[i] \in K
    BY <2>3, <2>7
  <2>9. x \in Bytes
    BY <2>3, <2>5
  <2> DEFINE Later == {i \in 1..n : i = n \/ ByteBefore(x, s[i])}
  <2>10. PICK p \in 1..n : (p = n \/ ByteBefore(x, s[p]))
                           /\ \A i \in 1..n : i < p => ~ByteBefore(x, s[i])
    <3>1. Later \in SUBSET Nat /\ n \in Later
      BY <2>2, <2>4
    <3>2. PICK p \in Later : \A i \in Later : p <= i
      <4> HIDE DEF Later
      <4>1. Later # {}
        BY <3>1
      <4> QED BY <3>1, <4>1, LeastNumber, Zenon
    <3>3. \A i \in 1..n : i < p => i \notin Later
      BY <2>2, <3>2
    <3> QED BY <3>2, <3>3
  <2> HIDE DEF Later
  <2>11. PICK h : h = [i \in 1..n |-> IF i < p THEN s[i] ELSE IF i = p THEN x ELSE s[i - 1]]
    OBVIOUS
  <2>12. \A i \in 1..n : /\ i < p => i \in 1..(n - 1)
                         /\ i > p => i - 1 \in 1..(n - 1)
    BY <2>2, <2>10
  <2>13. h \in [1..n -> K]
    BY <2>5, <2>8, <2>11, <2>12
  <2>14. \A i, j \in 1..(n - 1) : i < j => ByteBefore(s[i], s[j])
    BY <2>7 DEF Sorted
  <2>15. \A i \in 1..(n - 1) : i < p => ByteBefore(s[i], x)
    <3> TAKE i \in 1..(n - 1)
    <3> HAVE i < p
    <3>1. ~ByteBefore(x, s[i]) /\ s[i] # x /\ s[i] \in Bytes
      BY <2>2, <2>8, <2>10
    <3> QED BY <2>9, <3>1, BeforeTotal
  <2>16. \A j \in 1..(n - 1) : p <= j => ByteBefore(x, s[j])
    <3> TAKE j \in 1..(n - 1)
    <3> HAVE p <= j
    <3>1. p \in 1..(n - 1) /\ p # n
      BY <2>2
    <3>2. ByteBefore(x, s[p])
      BY <2>10, <3>1
    <3>3. CASE p = j
      BY <3>2, <3>3
    <3>4. CASE p < j
      <4>1. ByteBefore(s[p], s[j])
        BY <2>14, <3>1, <3>4
      <4> QED BY <2>8, <2>9, <3>1, <3>2, <4>1, BeforeTransitive
    <3> QED BY <2>10, <3>3, <3>4
  <2>17. ASSUME NEW i \in 1..n, NEW j \in 1..n, i < j PROVE ByteBefore(h[i], h[j])
    <3>1. CASE j < p
      <4>1. h[i] = s[i] /\ h[j] = s[j] /\ i \in 1..(n - 1) /\ j \in 1..(n - 1)
        BY <2>2, <2>11, <2>12, <2>17, <3>1
      <4> QED BY <2>14, <2>17, <4>1
    <3>2. CASE j = p
      <4>1. h[i] = s[i] /\ h[j] = x /\ i \in 1..(n - 1) /\ i < p
        BY <2>2, <2>11, <2>12, <2>17, <3>2
      <4> QED BY <2>15, <4>1
    <3>3. CASE i < p /\ p < j
      <4>1. h[i] = s[i] /\ h[j] = s[j - 1] /\ i \in 1..(n - 1) /\ j - 1 \in 1..(n - 1)
            /\ i < j - 1
        BY <2>2, <2>11, <2>12, <3>3
      <4> QED BY <2>14, <4>1
    <3>4. CASE i = p
      <4>1. h[i] = x /\ h[j] = s[j - 1] /\ j - 1 \in 1..(n - 1) /\ p <= j - 1
        BY <2>2, <2>11, <2>12, <2>17, <3>4
      <4> QED BY <2>16, <4>1
    <3>5. CASE p < i
      <4>1. h[i] = s[i - 1] /\ h[j] = s[j - 1] /\ i - 1 \in 1..(n - 1)
            /\ j - 1 \in 1..(n - 1) /\ i - 1 < j - 1
        BY <2>2, <2>11, <2>12, <2>17, <3>5
      <4> QED BY <2>14, <4>1
    <3> QED BY <2>2, <2>17, <3>1, <3>2, <3>3, <3>4, <3>5
  <2>18. Sorted(h)
    BY <2>13, <2>17 DEF Sorted
  <2> QED BY <2>3, <2>13, <2>18
<1>2. \A n \in Nat : n \notin T
  BY <1>1
<1> QED BY <1>2

\* A sorted listing of a set has all of it.
LEMMA SortedLists ==
  \A n \in Nat : \A K \in SUBSET Bytes : \A s \in [1..n -> K] :
    IsFiniteSet(K) /\ Cardinality(K) = n /\ Sorted(s) => \A k \in K : \E i \in 1..n : s[i] = k
<1> TAKE n \in Nat
<1> TAKE K \in SUBSET Bytes
<1> TAKE s \in [1..n -> K]
<1> HAVE IsFiniteSet(K) /\ Cardinality(K) = n /\ Sorted(s)
<1>1. ASSUME NEW i \in 1..n, NEW j \in 1..n, s[i] = s[j] PROVE i = j
  <2>1. s[i] \in Bytes /\ s[j] \in Bytes
    OBVIOUS
  <2>2. ~ByteBefore(s[i], s[j]) /\ ~ByteBefore(s[j], s[i])
    BY <1>1, <2>1, BeforeIrreflexive
  <2>3. ~(i < j) /\ ~(j < i)
    BY <2>2 DEF Sorted
  <2> QED BY <2>3
<1>2. s \in Injection(1..n, K)
  BY <1>1 DEF Injection, IsInjective
<1>3. Cardinality(1..n) = n
  <2>1. 1 \in Int /\ n \in Int
    OBVIOUS
  <2>2. Cardinality(1..n) = IF 1 > n THEN 0 ELSE n - 1 + 1
    BY <2>1, FS_Interval, Zenon
  <2> QED BY <2>2
<1>4. s \in Surjection(1..n, K)
  BY <1>2, <1>3, FS_Injection
<1> QED BY <1>4 DEF Surjection

LEMMA SortedOnce ==
  \A n \in Nat : \A K \in SUBSET Bytes : \A s, t \in [1..n -> K] :
    IsFiniteSet(K) /\ Cardinality(K) = n /\ Sorted(s) /\ Sorted(t) => s = t
<1> TAKE n \in Nat
<1> TAKE K \in SUBSET Bytes
<1>1. ASSUME NEW s \in [1..n -> K], NEW t \in [1..n -> K], Sorted(s), Sorted(t),
             IsFiniteSet(K), Cardinality(K) = n,
             NEW i \in 1..n, \A j \in 1..n : j < i => s[j] = t[j]
      PROVE  ~ByteBefore(s[i], t[i])
  <2> SUFFICES ASSUME ByteBefore(s[i], t[i]) PROVE FALSE
    OBVIOUS
  <2>1. PICK j \in 1..n : t[j] = s[i]
    <3>1. s[i] \in K
      OBVIOUS
    <3> QED BY <1>1, <3>1, SortedLists
  <2>2. s[i] \in Bytes /\ t[i] \in Bytes /\ t[j] \in Bytes /\ s[j] \in Bytes
    OBVIOUS
  <2>3. CASE j < i
    <3>1. ByteBefore(s[j], s[i]) /\ s[j] = s[i]
      BY <1>1, <2>1, <2>3 DEF Sorted
    <3> QED BY <2>2, <3>1, BeforeIrreflexive
  <2>4. CASE j = i
    <3>1. ByteBefore(s[i], s[i])
      BY <2>1, <2>4
    <3> QED BY <2>2, <3>1, BeforeIrreflexive
  <2>5. CASE i < j
    <3>1. ByteBefore(t[i], s[i])
      BY <1>1, <2>1, <2>5 DEF Sorted
    <3>2. ByteBefore(s[i], s[i])
      BY <2>2, <3>1, BeforeTransitive
    <3> QED BY <2>2, <3>2, BeforeIrreflexive
  <2> QED BY <2>3, <2>4, <2>5
<1> TAKE s, t \in [1..n -> K]
<1> HAVE IsFiniteSet(K) /\ Cardinality(K) = n /\ Sorted(s) /\ Sorted(t)
<1> DEFINE T == {i \in 1..n : s[i] # t[i]}
<1>2. ASSUME T # {} PROVE FALSE
  <2>1. PICK i \in T : \A k \in T : i <= k
    <3>1. T \in SUBSET Nat
      OBVIOUS
    <3> HIDE DEF T
    <3> QED BY <1>2, <3>1, LeastNumber, Zenon
  <2>2. i \in 1..n /\ s[i] # t[i] /\ \A j \in 1..n : j < i => s[j] = t[j]
    BY <2>1
  <2>3. ~ByteBefore(s[i], t[i])
    BY <1>1, <2>2
  <2>4. ~ByteBefore(t[i], s[i])
    BY <1>1, <2>2
  <2>5. s[i] \in Bytes /\ t[i] \in Bytes
    BY <2>2
  <2> QED BY <2>2, <2>3, <2>4, <2>5, BeforeTotal
<1> QED BY <1>2

LEMMA KeyListSize ==
  ASSUME NEW X, NEW keys \in KeyLists(X)
  PROVE  /\ Len(keys) \in Nat /\ DOMAIN keys = 1..Len(keys)
         /\ ToSet(keys) = {keys[i] : i \in DOMAIN keys} /\ ToSet(keys) \in SUBSET X
         /\ IsFiniteSet(ToSet(keys)) /\ Cardinality(ToSet(keys)) = Len(keys)
<1>1. keys \in Seq(X) /\ IsInjective(keys)
  BY DEF KeyLists
<1>2. PICK n : n = Len(keys)
  OBVIOUS
<1>3. n \in Nat /\ keys \in [1..n -> X] /\ DOMAIN keys = 1..n
  BY <1>1, <1>2, LenProperties
<1>4. PICK K : K = ToSet(keys)
  OBVIOUS
<1>5. K = {keys[i] : i \in DOMAIN keys}
  BY <1>4 DEF ToSet
<1>6. K \in SUBSET X /\ keys \in [1..n -> K] /\ \A k \in K : \E i \in 1..n : keys[i] = k
  BY <1>3, <1>5
<1>7. keys \in Bijection(1..n, K)
  BY <1>1, <1>6 DEF Bijection, Injection, Surjection
<1>8. IsFiniteSet(1..n) /\ Cardinality(1..n) = n
  <2>1. 1 \in Int /\ n \in Int
    BY <1>3
  <2>2. IsFiniteSet(1..n) /\ Cardinality(1..n) = IF 1 > n THEN 0 ELSE n - 1 + 1
    BY <2>1, FS_Interval, Zenon
  <2> QED BY <1>3, <2>2
<1>9. ExistsBijection(1..n, K)
  BY <1>7 DEF ExistsBijection
<1>10. IsFiniteSet(K) /\ Cardinality(K) = n
  BY <1>8, <1>9, FS_Bijection
<1> QED BY <1>2, <1>3, <1>4, <1>5, <1>6, <1>10

\* sortJson (src/identity.ts) has one outcome for an object, whatever its keys
\* are and however many: they are in byte order, and no other listing of them is,
\* so that the sort of the engine and the order it meets the keys in are no matter.
THEOREM SortJsonCorrect ==
  ASSUME NEW keys \in KeyLists(Bytes)
  PROVE  /\ SortJson(keys) \in [DOMAIN keys -> ToSet(keys)]
         /\ Sorted(SortJson(keys))
         /\ \A s \in [DOMAIN keys -> ToSet(keys)] : Sorted(s) => s = SortJson(keys)
<1>1. PICK n, K : n = Len(keys) /\ K = ToSet(keys)
  OBVIOUS
<1>2. /\ n \in Nat /\ DOMAIN keys = 1..n /\ K = {keys[i] : i \in DOMAIN keys}
      /\ K \in SUBSET Bytes /\ IsFiniteSet(K) /\ Cardinality(K) = n
  BY <1>1, KeyListSize
<1>3. SortJson(keys) = CHOOSE s \in [1..n -> K] : Sorted(s)
  BY <1>2 DEF SortJson, Sorted
<1>4. \E s \in [1..n -> K] : Sorted(s)
  BY <1>2, SortedExists
<1>5. SortJson(keys) \in [1..n -> K] /\ Sorted(SortJson(keys))
  BY <1>3, <1>4
<1>6. \A s \in [1..n -> K] : Sorted(s) => s = SortJson(keys)
  BY <1>2, <1>5, SortedOnce
<1> QED BY <1>1, <1>2, <1>5, <1>6

LEMMA SortJsonOfSet ==
  ASSUME NEW X, NEW keys \in KeyLists(X), NEW others \in KeyLists(X), ToSet(keys) = ToSet(others)
  PROVE  SortJson(keys) = SortJson(others)
<1>1. /\ DOMAIN keys = 1..Len(keys) /\ Cardinality(ToSet(keys)) = Len(keys)
      /\ ToSet(keys) = {keys[i] : i \in DOMAIN keys}
  BY KeyListSize
<1>2. /\ DOMAIN others = 1..Len(others) /\ Cardinality(ToSet(others)) = Len(others)
      /\ ToSet(others) = {others[i] : i \in DOMAIN others}
  BY KeyListSize
<1>3. DOMAIN keys = DOMAIN others
  BY <1>1, <1>2
<1> QED BY <1>1, <1>2, <1>3 DEF SortJson

\* canonicalClaimsBytes (src/identity.ts): whichever keys an object has, its bytes
\* do not depend on the order of their insertion.
THEOREM ClaimsCorrect == Spec => []ClaimsOrderFree
<1>1. Init => call \in Calls
  BY DEF Init
<1>2. call \in Calls /\ [Next]_vars => (call \in Calls)'
  BY DEF Next, vars, Answer, EncodeInstruction, DecodeInstruction, ConvertSignature, FindKey,
         SignContent, SortClaims, ParseDid, BuildChainId, EncodeKey
<1>3. call \in Calls => ClaimsOrderFree
  <2> SUFFICES ASSUME call \in Calls, call.fn = "claims", NEW keys \in Insertions,
                      ToSet(keys) = ToSet(call.arg),
                      NEW a \in ToSet(keys), NEW b \in ToSet(keys)
               PROVE  WrittenBefore(keys, a, b) <=> WrittenBefore(call.arg, a, b)
    BY DEF ClaimsOrderFree, Of
  <2>1. call.arg \in Insertions
    BY DEF Calls
  <2>2. \A k \in Insertions : k \in KeyLists(Bytes)
    BY ArgumentsAssumption
  <2>3. PICK others : others = call.arg
    OBVIOUS
  <2>4. SortJson(keys) = SortJson(others)
    BY <2>1, <2>2, <2>3, SortJsonOfSet
  <2> QED BY <2>3, <2>4 DEF WrittenBefore
<1> QED BY <1>1, <1>2, <1>3, PTL DEF Spec
-----------------------------------------------------------------------------
(***************************************************************************)
(* Cross-VM instructions                                                   *)
(***************************************************************************)
\* t stands in p after o bytes.
Placed(p, o, t) == o + Len(t) <= Len(p) /\ \A i \in 1..Len(t) : p[o + i] = t[i]

LEMMA SliceBytes ==
  \A p \in Bytes : \A from, to \in Nat : from <= to /\ to <= Len(p) =>
    /\ Slice(p, from, to) \in Bytes /\ Len(Slice(p, from, to)) = to - from
    /\ \A i \in 1..(to - from) : Slice(p, from, to)[i] = p[from + i]
<1> TAKE p \in Bytes
<1> TAKE from, to \in Nat
<1> HAVE from <= to /\ to <= Len(p)
<1>1. p \in Seq(Byte) /\ Len(p) \in Nat /\ p \in [1..Len(p) -> Byte]
  BY LenProperties DEF Bytes
<1>2. Slice(p, from, to) = SubSeq(p, from + 1, to)
  BY <1>1 DEF Slice
<1>3. PICK q : q = [i \in 1..(to - from) |-> p[from + i]]
  OBVIOUS
<1>4. SubSeq(p, from + 1, to) = q
  BY <1>1, <1>3
<1>5. q \in [1..(to - from) -> Byte]
  BY <1>1, <1>3
<1>6. q \in Seq(Byte) /\ Len(q) = to - from
  BY <1>5
<1> QED BY <1>2, <1>3, <1>4, <1>6 DEF Bytes

LEMMA PlacedLast == \A s, t \in Bytes : Placed(s \o t, Len(s), t)
<1> TAKE s, t \in Bytes
<1>1. Len(s) \in Nat /\ Len(t) \in Nat
  BY BytesTyped
<1>2. Len(s \o t) = Len(s) + Len(t) /\ \A i \in 1..Len(t) : (s \o t)[Len(s) + i] = t[i]
  BY JoinedPositions
<1> QED BY <1>1, <1>2 DEF Placed

LEMMA PlacedStays ==
  \A s, t, u \in Bytes : \A o \in Nat : Placed(s, o, t) => Placed(s \o u, o, t)
<1> TAKE s, t, u \in Bytes
<1> TAKE o \in Nat
<1> HAVE Placed(s, o, t)
<1>1. Len(s) \in Nat /\ Len(t) \in Nat /\ Len(u) \in Nat
  BY BytesTyped
<1>2. PICK x : x = s \o u
  OBVIOUS
<1>3. Len(x) = Len(s) + Len(u) /\ \A i \in 1..Len(s) : x[i] = s[i]
  BY <1>2, JoinedPositions
<1>4. \A i \in 1..Len(t) : o + i \in 1..Len(s)
  BY <1>1 DEF Placed
<1>5. Placed(x, o, t)
  BY <1>1, <1>3, <1>4 DEF Placed
<1> QED BY <1>2, <1>5

LEMMA PlacedCut ==
  \A p, t \in Bytes : \A o \in Nat : Placed(p, o, t) => Slice(p, o, o + Len(t)) = t
<1> TAKE p, t \in Bytes
<1> TAKE o \in Nat
<1> HAVE Placed(p, o, t)
<1>1. Len(p) \in Nat /\ Len(t) \in Nat
  BY BytesTyped
<1>2. PICK n, m : n = Len(t) /\ m = o + n
  OBVIOUS
<1>3. n \in Nat /\ m \in Nat /\ o <= m /\ m <= Len(p) /\ m - o = n
  BY <1>1, <1>2 DEF Placed
<1>4. PICK x : x = Slice(p, o, m)
  OBVIOUS
<1>5. x \in Bytes /\ Len(x) = n /\ \A i \in 1..n : x[i] = p[o + i]
  <2>1. \A from, to \in Nat : from <= to /\ to <= Len(p) =>
          /\ Slice(p, from, to) \in Bytes /\ Len(Slice(p, from, to)) = to - from
          /\ \A i \in 1..(to - from) : Slice(p, from, to)[i] = p[from + i]
    BY SliceBytes, Zenon
  <2>2. /\ Slice(p, o, m) \in Bytes /\ Len(Slice(p, o, m)) = m - o
        /\ \A i \in 1..(m - o) : Slice(p, o, m)[i] = p[o + i]
    BY ONLY o \in Nat, <1>3, <2>1, Zenon
  <2> QED BY ONLY <1>3, <1>4, <2>2
<1>6. \A i \in 1..n : x[i] = t[i]
  BY <1>2, <1>5 DEF Placed
<1>7. x = t
  BY <1>2, <1>5, <1>6, EqualBytes
<1> QED BY <1>2, <1>4, <1>7

LEMMA PlacedBehind ==
  \A p, t \in Bytes : \A d, o \in Nat :
    Placed(p, d + o, t) => Placed(Slice(p, d, Len(p)), o, t)
<1> TAKE p, t \in Bytes
<1> TAKE d, o \in Nat
<1> HAVE Placed(p, d + o, t)
<1>1. PICK m, n : m = Len(p) /\ n = Len(t)
  OBVIOUS
<1>2. m \in Nat /\ n \in Nat
  BY <1>1, BytesTyped
<1>3. d + o + n <= m /\ \A i \in 1..n : p[d + o + i] = t[i]
  BY <1>1 DEF Placed
<1>4. d <= m /\ m <= Len(p) /\ o + n <= m - d /\ m - d \in Nat
  BY <1>1, <1>2, <1>3
<1>5. PICK x : x = Slice(p, d, m)
  OBVIOUS
<1>6. x \in Bytes /\ Len(x) = m - d /\ \A i \in 1..(m - d) : x[i] = p[d + i]
  <2>1. \A from, to \in Nat : from <= to /\ to <= Len(p) =>
          /\ Slice(p, from, to) \in Bytes /\ Len(Slice(p, from, to)) = to - from
          /\ \A i \in 1..(to - from) : Slice(p, from, to)[i] = p[from + i]
    BY SliceBytes, Zenon
  <2> QED BY ONLY d \in Nat, <1>2, <1>4, <1>5, <2>1
<1>7. \A i \in 1..n : o + i \in 1..(m - d) /\ d + (o + i) = d + o + i
  BY <1>2, <1>4
<1>8. \A i \in 1..n : x[o + i] = t[i]
  BY <1>3, <1>6, <1>7
<1>9. Placed(x, o, t)
  BY <1>1, <1>4, <1>6, <1>8 DEF Placed
<1> QED BY <1>1, <1>5, <1>9

\* An instruction: its discriminator and up to five fields.
Packed(d, a, b, c, e, f) == d \o a \o b \o c \o e \o f

\* Where the decoder finds them.
Unpacked(x, d, a, b, c, e, f) ==
  LET q == Slice(x, Len(d), Len(x))
      la == Len(a)
      lb == la + Len(b)
      lc == lb + Len(c)
      le == lc + Len(e)
  IN  /\ x \in Bytes /\ Len(x) = Len(d) + (le + Len(f)) /\ Slice(x, 0, Len(d)) = d
      /\ q \in Bytes /\ Len(q) = le + Len(f)
      /\ Slice(q, 0, la) = a /\ Slice(q, la, lb) = b /\ Slice(q, lb, lc) = c
      /\ Slice(q, lc, le) = e /\ Slice(q, le, le + Len(f)) = f

LEMMA PackedComesOut ==
  \A d, a, b, c, e, f \in Bytes : Unpacked(Packed(d, a, b, c, e, f), d, a, b, c, e, f)
<1> TAKE d, a, b, c, e, f \in Bytes
<1>1. PICK ld, la, lb, lc, le, lf :
        ld = Len(d) /\ la = Len(a) /\ lb = la + Len(b) /\ lc = lb + Len(c) /\ le = lc + Len(e)
        /\ lf = le + Len(f)
  OBVIOUS
<1>2. /\ ld \in Nat /\ la \in Nat /\ lb \in Nat /\ lc \in Nat /\ le \in Nat /\ lf \in Nat
  <2>1. /\ Len(d) \in Nat /\ Len(a) \in Nat /\ Len(b) \in Nat /\ Len(c) \in Nat
        /\ Len(e) \in Nat /\ Len(f) \in Nat
    BY BytesTyped, Zenon
  <2>2. \A k, m \in Nat : k + m \in Nat
    OBVIOUS
  <2>3. ld \in Nat /\ la \in Nat
    BY ONLY <1>1, <2>1, Zenon
  <2>4. lb \in Nat
    BY ONLY <1>1, <2>1, <2>2, <2>3, Zenon
  <2>5. lc \in Nat
    BY ONLY <1>1, <2>1, <2>2, <2>4, Zenon
  <2>6. le \in Nat
    BY ONLY <1>1, <2>1, <2>2, <2>5, Zenon
  <2>7. lf \in Nat
    BY ONLY <1>1, <2>1, <2>2, <2>6, Zenon
  <2> QED BY ONLY <2>3, <2>4, <2>5, <2>6, <2>7
<1>3. PICK x1, x2, x3, x4, x5 :
        x1 = d \o a /\ x2 = x1 \o b /\ x3 = x2 \o c /\ x4 = x3 \o e /\ x5 = x4 \o f
  OBVIOUS
<1>4. /\ x1 \in Bytes /\ x2 \in Bytes /\ x3 \in Bytes /\ x4 \in Bytes /\ x5 \in Bytes
  BY <1>3, JoinedBytes
<1>5. Packed(d, a, b, c, e, f) = x5
  BY <1>3 DEF Packed
<1>6. Len(x1) = ld + la /\ Len(x2) = ld + lb /\ Len(x3) = ld + lc /\ Len(x4) = ld + le
      /\ Len(x5) = ld + lf
  <2>1. Len(x1) = Len(d) + Len(a)
    BY <1>3, JoinedLength, Zenon
  <2>2. Len(x2) = Len(x1) + Len(b)
    BY <1>3, <1>4, JoinedLength, Zenon
  <2>3. Len(x3) = Len(x2) + Len(c)
    BY <1>3, <1>4, JoinedLength, Zenon
  <2>4. Len(x4) = Len(x3) + Len(e)
    BY <1>3, <1>4, JoinedLength, Zenon
  <2>5. Len(x5) = Len(x4) + Len(f)
    BY <1>3, <1>4, JoinedLength, Zenon
  <2>6. Len(b) \in Nat /\ Len(c) \in Nat /\ Len(e) \in Nat /\ Len(f) \in Nat
    BY BytesTyped, Zenon
  <2> QED BY ONLY <1>1, <1>2, <2>1, <2>2, <2>3, <2>4, <2>5, <2>6
<1>7. /\ ld + la \in Nat /\ ld + lb \in Nat /\ ld + lc \in Nat /\ ld + le \in Nat
      /\ 0 \in Nat /\ ld + 0 = ld
  BY <1>2
<1>8. Placed(x5, 0, d)
  <2>1. Placed(d, 0, d)
    BY BytesTyped DEF Placed
  <2>2. Placed(x1, 0, d)
    BY <1>3, <1>7, <2>1, PlacedStays, Zenon
  <2>3. Placed(x2, 0, d)
    BY <1>3, <1>4, <1>7, <2>2, PlacedStays, Zenon
  <2>4. Placed(x3, 0, d)
    BY <1>3, <1>4, <1>7, <2>3, PlacedStays, Zenon
  <2>5. Placed(x4, 0, d)
    BY <1>3, <1>4, <1>7, <2>4, PlacedStays, Zenon
  <2> QED BY <1>3, <1>4, <1>7, <2>5, PlacedStays, Zenon
<1>9. Placed(x5, ld + 0, a)
  <2>1. Placed(x1, ld, a)
    BY <1>1, <1>3, PlacedLast, Zenon
  <2>2. Placed(x2, ld, a)
    BY <1>2, <1>3, <1>4, <2>1, PlacedStays, Zenon
  <2>3. Placed(x3, ld, a)
    BY <1>2, <1>3, <1>4, <2>2, PlacedStays, Zenon
  <2>4. Placed(x4, ld, a)
    BY <1>2, <1>3, <1>4, <2>3, PlacedStays, Zenon
  <2>5. Placed(x5, ld, a)
    BY <1>2, <1>3, <1>4, <2>4, PlacedStays, Zenon
  <2> QED BY <1>7, <2>5
<1>10. Placed(x5, ld + la, b)
  <2>1. Placed(x2, Len(x1), b)
    BY <1>3, <1>4, PlacedLast, Zenon
  <2>2. Placed(x2, ld + la, b)
    BY <1>6, <2>1
  <2>3. Placed(x3, ld + la, b)
    BY <1>3, <1>4, <1>7, <2>2, PlacedStays, Zenon
  <2>4. Placed(x4, ld + la, b)
    BY <1>3, <1>4, <1>7, <2>3, PlacedStays, Zenon
  <2> QED BY <1>3, <1>4, <1>7, <2>4, PlacedStays, Zenon
<1>11. Placed(x5, ld + lb, c)
  <2>1. Placed(x3, Len(x2), c)
    BY <1>3, <1>4, PlacedLast, Zenon
  <2>2. Placed(x3, ld + lb, c)
    BY <1>6, <2>1
  <2>3. Placed(x4, ld + lb, c)
    BY <1>3, <1>4, <1>7, <2>2, PlacedStays, Zenon
  <2> QED BY <1>3, <1>4, <1>7, <2>3, PlacedStays, Zenon
<1>12. Placed(x5, ld + lc, e)
  <2>1. Placed(x4, Len(x3), e)
    BY <1>3, <1>4, PlacedLast, Zenon
  <2>2. Placed(x4, ld + lc, e)
    BY <1>6, <2>1
  <2> QED BY <1>3, <1>4, <1>7, <2>2, PlacedStays, Zenon
<1>13. Placed(x5, ld + le, f)
  <2>1. Placed(x5, Len(x4), f)
    BY <1>3, <1>4, PlacedLast, Zenon
  <2> QED BY <1>6, <2>1
<1>14. PICK q : q = Slice(x5, ld, Len(x5))
  OBVIOUS
<1>15. q \in Bytes /\ Len(q) = lf
  <2>1. PICK m : m = ld + lf
    OBVIOUS
  <2>2. m \in Nat /\ ld <= m /\ m - ld = lf /\ m = Len(x5) /\ m <= Len(x5)
    BY <1>2, <1>6, <2>1
  <2>3. \A from, to \in Nat : from <= to /\ to <= Len(x5) =>
          Slice(x5, from, to) \in Bytes /\ Len(Slice(x5, from, to)) = to - from
    BY <1>4, SliceBytes, Zenon
  <2>4. Slice(x5, ld, m) \in Bytes /\ Len(Slice(x5, ld, m)) = m - ld
    BY ONLY <1>2, <2>2, <2>3, Zenon
  <2> QED BY <1>14, <2>2, <2>4
<1>16. /\ Placed(q, 0, a) /\ Placed(q, la, b) /\ Placed(q, lb, c) /\ Placed(q, lc, e)
       /\ Placed(q, le, f)
  BY <1>2, <1>4, <1>7, <1>9, <1>10, <1>11, <1>12, <1>13, <1>14, PlacedBehind, Zenon
<1>17. Slice(x5, 0, ld) = d
  <2>1. Slice(x5, 0, 0 + Len(d)) = d
    BY <1>4, <1>7, <1>8, PlacedCut, Zenon
  <2> QED BY <1>1, <1>2, <2>1
<1>18. Slice(q, 0, la) = a
  <2>1. Slice(q, 0, 0 + Len(a)) = a
    BY <1>7, <1>15, <1>16, PlacedCut, Zenon
  <2> QED BY <1>1, <1>2, <2>1
<1>19. /\ Slice(q, la, la + Len(b)) = b /\ Slice(q, lb, lb + Len(c)) = c
       /\ Slice(q, lc, lc + Len(e)) = e /\ Slice(q, le, le + Len(f)) = f
  BY <1>2, <1>15, <1>16, PlacedCut, Zenon
<1> QED BY <1>1, <1>4, <1>5, <1>6, <1>14, <1>15, <1>17, <1>18, <1>19 DEF Unpacked

\* Two slices that meet make one.
LEMMA SlicesMeet ==
  \A p \in Bytes : \A from, mid, to \in Nat : from <= mid /\ mid <= to /\ to <= Len(p) =>
    Slice(p, from, mid) \o Slice(p, mid, to) = Slice(p, from, to)
<1> TAKE p \in Bytes
<1> TAKE from, mid, to \in Nat
<1> HAVE from <= mid /\ mid <= to /\ to <= Len(p)
<1>1. Len(p) \in Nat
  BY BytesTyped
<1>2. from <= to /\ mid <= Len(p)
  BY <1>1
<1>3. PICK x, y, z : x = Slice(p, from, mid) /\ y = Slice(p, mid, to) /\ z = Slice(p, from, to)
  OBVIOUS
<1>4. x \in Bytes /\ Len(x) = mid - from /\ \A i \in 1..(mid - from) : x[i] = p[from + i]
  BY <1>2, <1>3, SliceBytes
<1>5. y \in Bytes /\ Len(y) = to - mid /\ \A i \in 1..(to - mid) : y[i] = p[mid + i]
  BY <1>2, <1>3, SliceBytes
<1>6. z \in Bytes /\ Len(z) = to - from /\ \A i \in 1..(to - from) : z[i] = p[from + i]
  BY <1>2, <1>3, SliceBytes
<1>7. PICK w : w = x \o y
  OBVIOUS
<1>8. /\ w \in Bytes /\ Len(w) = Len(x) + Len(y)
      /\ \A i \in 1..Len(x) : w[i] = x[i]
      /\ \A i \in 1..Len(y) : w[Len(x) + i] = y[i]
  BY <1>4, <1>5, <1>7, JoinedPositions
<1>9. Len(w) = Len(z)
  BY <1>4, <1>5, <1>6, <1>8
<1>10. \A i \in 1..Len(w) : w[i] = z[i]
  <2> TAKE i \in 1..Len(w)
  <2>1. CASE i <= mid - from
    BY <1>4, <1>6, <1>8, <1>9, <2>1
  <2>2. CASE i > mid - from
    <3>1. PICK j : j = i - (mid - from)
      OBVIOUS
    <3>2. j \in 1..(to - mid) /\ i = (mid - from) + j /\ from + i = mid + j
          /\ i \in 1..(to - from)
      BY <1>6, <1>9, <2>2, <3>1
    <3>3. w[i] = y[j] /\ y[j] = p[mid + j] /\ z[i] = p[from + i]
      BY <1>4, <1>5, <1>6, <1>8, <3>2
    <3> QED BY <3>2, <3>3
  <2> QED BY <1>6, <1>9, <2>1, <2>2
<1> QED BY <1>3, <1>6, <1>7, <1>8, <1>9, <1>10, EqualBytes

\* A slice of what is behind the discriminator is one of the whole.
LEMMA SliceBehind ==
  \A p \in Bytes : \A d, from, to \in Nat : from <= to /\ d + to <= Len(p) =>
    Slice(Slice(p, d, Len(p)), from, to) = Slice(p, d + from, d + to)
<1> TAKE p \in Bytes
<1> TAKE d, from, to \in Nat
<1> HAVE from <= to /\ d + to <= Len(p)
<1>1. PICK m : m = Len(p)
  OBVIOUS
<1>2. m \in Nat /\ d <= m /\ m <= Len(p) /\ d + from \in Nat /\ d + to \in Nat
      /\ d + from <= d + to /\ d + to <= m
  BY <1>1, BytesTyped
<1>3. PICK q, x, y : q = Slice(p, d, m) /\ x = Slice(q, from, to) /\ y = Slice(p, d + from, d + to)
  OBVIOUS
<1>4. q \in Bytes /\ Len(q) = m - d /\ \A i \in 1..(m - d) : q[i] = p[d + i]
  <2>1. \A f, t \in Nat : f <= t /\ t <= Len(p) =>
          /\ Slice(p, f, t) \in Bytes /\ Len(Slice(p, f, t)) = t - f
          /\ \A i \in 1..(t - f) : Slice(p, f, t)[i] = p[f + i]
    BY SliceBytes, Zenon
  <2> QED BY ONLY d \in Nat, <1>2, <1>3, <2>1
<1>5. to <= Len(q)
  BY <1>2, <1>4
<1>6. x \in Bytes /\ Len(x) = to - from /\ \A i \in 1..(to - from) : x[i] = q[from + i]
  BY <1>3, <1>4, <1>5, SliceBytes
<1>7. y \in Bytes /\ Len(y) = (d + to) - (d + from)
      /\ \A i \in 1..((d + to) - (d + from)) : y[i] = p[(d + from) + i]
  <2>1. \A f, t \in Nat : f <= t /\ t <= Len(p) =>
          /\ Slice(p, f, t) \in Bytes /\ Len(Slice(p, f, t)) = t - f
          /\ \A i \in 1..(t - f) : Slice(p, f, t)[i] = p[f + i]
    BY SliceBytes, Zenon
  <2>2. d + to <= Len(p)
    OBVIOUS
  <2> QED BY ONLY <1>2, <1>3, <2>1, <2>2
<1>8. (d + to) - (d + from) = to - from
      /\ \A i \in 1..(to - from) : from + i \in 1..(m - d) /\ d + (from + i) = (d + from) + i
  BY <1>2
<1>9. \A i \in 1..(to - from) : x[i] = y[i]
  BY <1>4, <1>6, <1>7, <1>8
<1> QED BY <1>1, <1>3, <1>6, <1>7, <1>8, <1>9, EqualBytes

\* What is cut at the offsets of the fields is the whole when put together.
Cuts(x, p, d, la, lb, lc, le, lf) ==
  Packed(Slice(x, 0, d), Slice(p, 0, la), Slice(p, la, lb), Slice(p, lb, lc),
         Slice(p, lc, le), Slice(p, le, lf)) = x

LEMMA CutComesTogether ==
  \A x \in Bytes : \A d, la, lb, lc, le, lf \in Nat :
    la <= lb /\ lb <= lc /\ lc <= le /\ le <= lf /\ Len(x) = d + lf =>
      Cuts(x, Slice(x, d, Len(x)), d, la, lb, lc, le, lf)
<1> TAKE x \in Bytes
<1> TAKE d, la, lb, lc, le, lf \in Nat
<1> HAVE la <= lb /\ lb <= lc /\ lc <= le /\ le <= lf /\ Len(x) = d + lf
<1> DEFINE q == Slice(x, d, Len(x))
<1>1. /\ 0 \in Nat /\ d + 0 = d /\ d + la \in Nat /\ d + lb \in Nat /\ d + lc \in Nat
      /\ d + le \in Nat /\ d + lf \in Nat
      /\ 0 <= d /\ 0 <= d + la /\ 0 <= d + lb /\ 0 <= d + lc /\ 0 <= d + le
      /\ d <= d + la /\ d + la <= d + lb /\ d + lb <= d + lc /\ d + lc <= d + le
      /\ d + le <= d + lf
      /\ d + la <= Len(x) /\ d + lb <= Len(x) /\ d + lc <= Len(x) /\ d + le <= Len(x)
      /\ d + lf <= Len(x) /\ 0 <= la
  OBVIOUS
<1>2. /\ Slice(q, 0, la) = Slice(x, d + 0, d + la)
      /\ Slice(q, la, lb) = Slice(x, d + la, d + lb)
      /\ Slice(q, lb, lc) = Slice(x, d + lb, d + lc)
      /\ Slice(q, lc, le) = Slice(x, d + lc, d + le)
      /\ Slice(q, le, lf) = Slice(x, d + le, d + lf)
  <2>1. \A f, t \in Nat : f <= t /\ d + t <= Len(x) => Slice(q, f, t) = Slice(x, d + f, d + t)
    BY SliceBehind
  <2> QED BY <1>1, <2>1
<1>3. \A t \in Nat : \A m \in Nat : m <= t /\ t <= Len(x) =>
        Slice(x, 0, m) \o Slice(x, m, t) = Slice(x, 0, t)
  <2>1. \A f, m, t \in Nat : f <= m /\ m <= t /\ t <= Len(x) =>
          Slice(x, f, m) \o Slice(x, m, t) = Slice(x, f, t)
    BY SlicesMeet, Zenon
  <2>2. \A m \in Nat : 0 <= m
    OBVIOUS
  <2> QED BY <1>1, <2>1, <2>2, Zenon
<1> HIDE DEF q
<1>n. PICK ka, kb, kc, ke, kf :
        ka = d + la /\ kb = d + lb /\ kc = d + lc /\ ke = d + le /\ kf = d + lf
  OBVIOUS
<1>m. /\ ka \in Nat /\ kb \in Nat /\ kc \in Nat /\ ke \in Nat /\ kf \in Nat
      /\ d <= ka /\ ka <= kb /\ kb <= kc /\ kc <= ke /\ ke <= kf
      /\ ka <= Len(x) /\ kb <= Len(x) /\ kc <= Len(x) /\ ke <= Len(x) /\ kf <= Len(x)
  BY ONLY <1>1, <1>n
<1>4. Slice(x, 0, d) \o Slice(x, d, ka) = Slice(x, 0, ka)
  BY ONLY d \in Nat, <1>m, <1>3, Zenon
<1>5. Slice(x, 0, ka) \o Slice(x, ka, kb) = Slice(x, 0, kb)
  BY ONLY <1>m, <1>3, Zenon
<1>6. Slice(x, 0, kb) \o Slice(x, kb, kc) = Slice(x, 0, kc)
  BY ONLY <1>m, <1>3, Zenon
<1>7. Slice(x, 0, kc) \o Slice(x, kc, ke) = Slice(x, 0, ke)
  BY ONLY <1>m, <1>3, Zenon
<1>8. Slice(x, 0, ke) \o Slice(x, ke, kf) = Slice(x, 0, kf)
  BY ONLY <1>m, <1>3, Zenon
<1>9. Slice(x, 0, kf) = x
  <2>1. PICK n : n = kf
    OBVIOUS
  <2>2. PICK y : y = Slice(x, 0, n)
    OBVIOUS
  <2>3. n \in Nat /\ 0 <= n /\ n <= Len(x) /\ n - 0 = n /\ Len(x) = n /\ \A i \in 1..n : 0 + i = i
    BY <1>1, <1>n, <2>1
  <2>4. y \in Bytes /\ Len(y) = n - 0 /\ \A i \in 1..(n - 0) : y[i] = x[0 + i]
    <3>1. \A f, t \in Nat : f <= t /\ t <= Len(x) =>
            /\ Slice(x, f, t) \in Bytes /\ Len(Slice(x, f, t)) = t - f
            /\ \A i \in 1..(t - f) : Slice(x, f, t)[i] = x[f + i]
      BY SliceBytes, Zenon
    <3>2. 0 \in Nat
      OBVIOUS
    <3>3. /\ Slice(x, 0, n) \in Bytes /\ Len(Slice(x, 0, n)) = n - 0
          /\ \A i \in 1..(n - 0) : Slice(x, 0, n)[i] = x[0 + i]
      BY ONLY <2>3, <3>1, <3>2, Zenon
    <3> QED BY ONLY <2>2, <3>3
  <2>5. \A i \in 1..Len(y) : y[i] = x[i]
    BY <2>3, <2>4
  <2>6. y = x
    BY <2>3, <2>4, <2>5, EqualBytes
  <2> QED BY <2>1, <2>2, <2>6
<1>10. Packed(Slice(x, 0, d), Slice(q, 0, la), Slice(q, la, lb), Slice(q, lb, lc),
              Slice(q, lc, le), Slice(q, le, lf)) = x
  <2>1. /\ Slice(q, 0, la) = Slice(x, d, ka) /\ Slice(q, la, lb) = Slice(x, ka, kb)
        /\ Slice(q, lb, lc) = Slice(x, kb, kc) /\ Slice(q, lc, le) = Slice(x, kc, ke)
        /\ Slice(q, le, lf) = Slice(x, ke, kf)
    BY ONLY <1>1, <1>2, <1>n
  <2> QED BY ONLY <1>4, <1>5, <1>6, <1>7, <1>8, <1>9, <2>1 DEF Packed
<1> QED BY <1>10 DEF q, Cuts
-----------------------------------------------------------------------------
(***************************************************************************)
(* Which instruction is decoded                                            *)
(***************************************************************************)
\* Data that the decoder takes for instruction k.
Names(x, k) ==
  /\ DiscWidth <= Len(x) /\ Slice(x, 0, DiscWidth) = Discriminator[k]
  /\ Len(Slice(x, DiscWidth, Len(x))) = PayloadSize(k)
  /\ k = "transferCrossVm" => ~(Slice(x, DiscWidth, Len(x))[PubkeyWidth + 1] > MaxVm)

LEMMA DecodeNames ==
  \A x \in Bytes : \A k \in Instructions :
    Names(x, k) => Decode(x) = [kind |-> k, args |-> ArgsOf(k, Slice(x, DiscWidth, Len(x)))]
<1> TAKE x \in Bytes
<1> TAKE k \in Instructions
<1> HAVE Names(x, k)
<1> DEFINE p == Slice(x, DiscWidth, Len(x))
           named == {l \in Instructions :
                       Discriminator[l] = Slice(x, 0, DiscWidth) /\ Len(p) = PayloadSize(l)}
           c == CHOOSE l \in named : TRUE
<1>1. k \in named
  BY DEF Names
<1>2. \A l \in named : l = k
  BY DiscriminatorAssumption DEF Names
<1>3. c = k
  BY <1>1, <1>2
<1>4. ~(Len(x) < DiscWidth)
  BY InstructionWidthsAssumption, BytesTyped DEF Names
<1>5. ~(Len(x) < DiscWidth \/ named = {})
  BY <1>1, <1>4
<1>6. ~(c = "transferCrossVm" /\ p[PubkeyWidth + 1] > MaxVm)
  BY <1>3 DEF Names
<1>7. Decode(x) = IF Len(x) < DiscWidth \/ named = {} THEN Threw
                  ELSE IF c = "transferCrossVm" /\ p[PubkeyWidth + 1] > MaxVm THEN Threw
                  ELSE [kind |-> c, args |-> ArgsOf(c, p)]
  BY DEF Decode
<1> HIDE DEF c, named, p
<1>8. Decode(x) = [kind |-> k, args |-> ArgsOf(k, p)]
  BY <1>3, <1>5, <1>6, <1>7
<1> QED BY <1>8 DEF p

LEMMA DecodedNames ==
  \A x \in Bytes : Decode(x) # Threw => \E k \in Instructions : Names(x, k)
<1> TAKE x \in Bytes
<1> HAVE Decode(x) # Threw
<1> DEFINE p == Slice(x, DiscWidth, Len(x))
           named == {l \in Instructions :
                       Discriminator[l] = Slice(x, 0, DiscWidth) /\ Len(p) = PayloadSize(l)}
           c == CHOOSE l \in named : TRUE
<1>1. Decode(x) = IF Len(x) < DiscWidth \/ named = {} THEN Threw
                  ELSE IF c = "transferCrossVm" /\ p[PubkeyWidth + 1] > MaxVm THEN Threw
                  ELSE [kind |-> c, args |-> ArgsOf(c, p)]
  BY DEF Decode
<1>2. ~(Len(x) < DiscWidth) /\ named # {}
      /\ ~(c = "transferCrossVm" /\ p[PubkeyWidth + 1] > MaxVm)
  <2> HIDE DEF c, named, p
  <2> QED BY <1>1
<1>3. c \in named
  BY <1>2
<1>4. DiscWidth <= Len(x)
  BY <1>2, InstructionWidthsAssumption, BytesTyped
<1>5. c \in Instructions /\ Names(x, c)
  <2>1. c \in Instructions /\ Discriminator[c] = Slice(x, 0, DiscWidth) /\ Len(p) = PayloadSize(c)
    BY <1>3
  <2> HIDE DEF c
  <2> QED BY <1>2, <1>4, <2>1 DEF Names
<1> QED BY <1>5
-----------------------------------------------------------------------------
(***************************************************************************)
(* The four instructions                                                   *)
(***************************************************************************)
LEMMA WordBytes ==
  \A v \in Int : FitsWord(v) =>
    /\ v \in Nat /\ UintLe(v, WordWidth) \in Bytes /\ Len(UintLe(v, WordWidth)) = WordWidth
    /\ FromLe(UintLe(v, WordWidth)) = v
<1> TAKE v \in Int
<1> HAVE FitsWord(v)
<1>1. v \in Nat /\ WordWidth \in Nat /\ Fits(v, WordWidth)
  BY InstructionWidthsAssumption DEF FitsWord, Fits
<1>2. UintLe(v, WordWidth) \in Fixed(WordWidth)
  BY <1>1, UintDigits
<1>3. FromLe(UintLe(v, WordWidth)) = v
  BY <1>1, FromLeRestores
<1> QED BY <1>1, <1>2, <1>3 DEF Fixed

LEMMA EmptyBytes ==
  /\ <<>> \in Bytes /\ Len(<<>>) = 0
  /\ \A s \in Bytes : s \o <<>> = s
BY DEF Bytes

LEMMA NoBytes ==
  \A s \in Bytes : Len(s) = 0 => s = <<>>
BY DEF Bytes

LEMMA DiscriminatorBytes ==
  \A k \in Instructions : Discriminator[k] \in Bytes /\ Len(Discriminator[k]) = DiscWidth
BY DiscriminatorAssumption

LEMMA BridgeToEvmDecodes ==
  \A a \in BridgeToEvmArgs : EncodeBridgeToEvm(a) # Threw =>
    Decode(EncodeBridgeToEvm(a)) = [kind |-> "bridgeToEvm", args |-> a]
<1> TAKE a \in BridgeToEvmArgs
<1> HAVE EncodeBridgeToEvm(a) # Threw
<1> DEFINE k == "bridgeToEvm"
<1>1. Len(a.mint) = PubkeyWidth /\ Len(a.evmDest) = AddressWidth
      /\ FitsWord(a.amount) /\ FitsWord(a.nonce)
  BY DEF EncodeBridgeToEvm
<1>2. PICK d, m, e, u, v : d = Discriminator[k] /\ m = a.mint /\ e = a.evmDest
        /\ u = UintLe(a.amount, WordWidth) /\ v = UintLe(a.nonce, WordWidth)
  OBVIOUS
<1>3. /\ d \in Bytes /\ m \in Bytes /\ e \in Bytes /\ u \in Bytes /\ v \in Bytes
      /\ Len(d) = DiscWidth /\ Len(m) = PubkeyWidth /\ Len(e) = AddressWidth
      /\ Len(u) = WordWidth /\ Len(v) = WordWidth
      /\ FromLe(u) = a.amount /\ FromLe(v) = a.nonce
  <2>1. k \in Instructions
    BY DEF Instructions
  <2>2. a.mint \in Bytes /\ a.evmDest \in Bytes /\ a.amount \in Int /\ a.nonce \in Int
    BY DEF BridgeToEvmArgs
  <2> HIDE DEF k
  <2> QED BY <1>1, <1>2, <2>1, <2>2, DiscriminatorBytes, WordBytes
<1>4. PICK x : x = EncodeBridgeToEvm(a)
  OBVIOUS
<1>5. x = Packed(d, m, e, u, v, <<>>)
  <2>1. x = d \o m \o e \o u \o v
    BY <1>1, <1>2, <1>4 DEF EncodeBridgeToEvm
  <2>2. d \o m \o e \o u \o v \in Bytes
    BY ONLY <1>3, JoinedBytes
  <2>3. (d \o m \o e \o u \o v) \o <<>> = d \o m \o e \o u \o v
    BY ONLY <2>2, EmptyBytes, Zenon
  <2> QED BY ONLY <2>1, <2>3 DEF Packed
<1>6. Unpacked(x, d, m, e, u, v, <<>>)
  BY <1>3, <1>5, EmptyBytes, PackedComesOut, Zenon
<1>7. PICK q : q = Slice(x, DiscWidth, Len(x))
  OBVIOUS
<1>8. PICK P, A, W : P = PubkeyWidth /\ A = AddressWidth /\ W = WordWidth
  OBVIOUS
<1>9. P \in Nat /\ A \in Nat /\ W \in Nat /\ DiscWidth \in Nat
  BY <1>8, InstructionWidthsAssumption
<1>10. /\ x \in Bytes /\ Len(x) = DiscWidth + (P + A + W + W + 0) /\ Slice(x, 0, DiscWidth) = d
       /\ Len(q) = P + A + W + W + 0
       /\ Slice(q, 0, P) = m /\ Slice(q, P, P + A) = e
       /\ Slice(q, P + A, P + A + W) = u /\ Slice(q, P + A + W, P + A + W + W) = v
  BY ONLY <1>3, <1>6, <1>7, <1>8, EmptyBytes DEF Unpacked
<1>11. P + A + W + W + 0 = PayloadSize(k)
  BY <1>8, <1>9 DEF PayloadSize
<1>12. k \in Instructions /\ Names(x, k)
  <2>1. DiscWidth <= Len(x)
    BY <1>9, <1>10
  <2> QED BY <1>2, <1>7, <1>10, <1>11, <2>1 DEF Names, Instructions
<1>13. Decode(x) = [kind |-> k, args |-> ArgsOf(k, q)]
  <2> HIDE DEF k
  <2> QED BY <1>7, <1>10, <1>12, DecodeNames
<1>14. ArgsOf(k, q) = [mint |-> Slice(q, 0, 0 + P), evmDest |-> Slice(q, P, P + A),
                       amount |-> FromLe(Slice(q, P + A, P + A + W)),
                       nonce |-> FromLe(Slice(q, P + A + W, P + A + W + W))]
  BY <1>8 DEF ArgsOf, Pubkey, Address, Word
<1>15. 0 + P = P
  BY <1>9
<1>16. ArgsOf(k, q) = [mint |-> a.mint, evmDest |-> a.evmDest,
                       amount |-> a.amount, nonce |-> a.nonce]
  BY <1>2, <1>3, <1>10, <1>14, <1>15
<1>17. a = [mint |-> a.mint, evmDest |-> a.evmDest, amount |-> a.amount, nonce |-> a.nonce]
  BY DEF BridgeToEvmArgs
<1> QED BY <1>4, <1>13, <1>16, <1>17

LEMMA BridgeFromEvmDecodes ==
  \A a \in BridgeFromEvmArgs : EncodeBridgeFromEvm(a) # Threw =>
    Decode(EncodeBridgeFromEvm(a)) = [kind |-> "bridgeFromEvm", args |-> a]
<1> TAKE a \in BridgeFromEvmArgs
<1> HAVE EncodeBridgeFromEvm(a) # Threw
<1> DEFINE k == "bridgeFromEvm"
<1>1. Len(a.mint) = PubkeyWidth /\ Len(a.svmDest) = PubkeyWidth
      /\ FitsWord(a.amount) /\ FitsWord(a.nonce)
  BY DEF EncodeBridgeFromEvm
<1>2. PICK d, m, e, u, v : d = Discriminator[k] /\ m = a.mint /\ e = a.svmDest
        /\ u = UintLe(a.amount, WordWidth) /\ v = UintLe(a.nonce, WordWidth)
  OBVIOUS
<1>3. /\ d \in Bytes /\ m \in Bytes /\ e \in Bytes /\ u \in Bytes /\ v \in Bytes
      /\ Len(d) = DiscWidth /\ Len(m) = PubkeyWidth /\ Len(e) = PubkeyWidth
      /\ Len(u) = WordWidth /\ Len(v) = WordWidth
      /\ FromLe(u) = a.amount /\ FromLe(v) = a.nonce
  <2>1. k \in Instructions
    BY DEF Instructions
  <2>2. a.mint \in Bytes /\ a.svmDest \in Bytes /\ a.amount \in Int /\ a.nonce \in Int
    BY DEF BridgeFromEvmArgs
  <2> HIDE DEF k
  <2> QED BY <1>1, <1>2, <2>1, <2>2, DiscriminatorBytes, WordBytes
<1>4. PICK x : x = EncodeBridgeFromEvm(a)
  OBVIOUS
<1>5. x = Packed(d, m, e, u, v, <<>>)
  <2>1. x = d \o m \o e \o u \o v
    BY <1>1, <1>2, <1>4 DEF EncodeBridgeFromEvm
  <2>2. d \o m \o e \o u \o v \in Bytes
    BY ONLY <1>3, JoinedBytes
  <2>3. (d \o m \o e \o u \o v) \o <<>> = d \o m \o e \o u \o v
    BY ONLY <2>2, EmptyBytes, Zenon
  <2> QED BY ONLY <2>1, <2>3 DEF Packed
<1>6. Unpacked(x, d, m, e, u, v, <<>>)
  BY <1>3, <1>5, EmptyBytes, PackedComesOut, Zenon
<1>7. PICK q : q = Slice(x, DiscWidth, Len(x))
  OBVIOUS
<1>8. PICK P, W : P = PubkeyWidth /\ W = WordWidth
  OBVIOUS
<1>9. P \in Nat /\ W \in Nat /\ DiscWidth \in Nat
  BY <1>8, InstructionWidthsAssumption
<1>10. /\ x \in Bytes /\ Len(x) = DiscWidth + (P + P + W + W + 0) /\ Slice(x, 0, DiscWidth) = d
       /\ Len(q) = P + P + W + W + 0
       /\ Slice(q, 0, P) = m /\ Slice(q, P, P + P) = e
       /\ Slice(q, P + P, P + P + W) = u /\ Slice(q, P + P + W, P + P + W + W) = v
  BY ONLY <1>3, <1>6, <1>7, <1>8, EmptyBytes DEF Unpacked
<1>11. P + P + W + W + 0 = PayloadSize(k)
  BY <1>8, <1>9 DEF PayloadSize
<1>12. k \in Instructions /\ Names(x, k)
  <2>1. DiscWidth <= Len(x)
    BY <1>9, <1>10
  <2> QED BY <1>2, <1>7, <1>10, <1>11, <2>1 DEF Names, Instructions
<1>13. Decode(x) = [kind |-> k, args |-> ArgsOf(k, q)]
  <2> HIDE DEF k
  <2> QED BY <1>7, <1>10, <1>12, DecodeNames
<1>14. ArgsOf(k, q) = [mint |-> Slice(q, 0, 0 + P), svmDest |-> Slice(q, P, P + P),
                       amount |-> FromLe(Slice(q, 2 * P, 2 * P + W)),
                       nonce |-> FromLe(Slice(q, 2 * P + W, 2 * P + W + W))]
  BY <1>8 DEF ArgsOf, Pubkey, Word
<1>15. 0 + P = P /\ 2 * P = P + P
  BY <1>9
<1>16. ArgsOf(k, q) = [mint |-> a.mint, svmDest |-> a.svmDest,
                       amount |-> a.amount, nonce |-> a.nonce]
  BY <1>2, <1>3, <1>10, <1>14, <1>15
<1>17. a = [mint |-> a.mint, svmDest |-> a.svmDest, amount |-> a.amount, nonce |-> a.nonce]
  BY DEF BridgeFromEvmArgs
<1> QED BY <1>4, <1>13, <1>16, <1>17

LEMMA RegisterTokenPointerDecodes ==
  \A a \in RegisterTokenPointerArgs : EncodeRegisterTokenPointer(a) # Threw =>
    Decode(EncodeRegisterTokenPointer(a)) = [kind |-> "registerTokenPointer", args |-> a]
<1> TAKE a \in RegisterTokenPointerArgs
<1> HAVE EncodeRegisterTokenPointer(a) # Threw
<1> DEFINE k == "registerTokenPointer"
<1>1. Len(a.mint) = PubkeyWidth /\ Len(a.evmTokenAddress) = AddressWidth
      /\ Len(a.tokenId) = PubkeyWidth
  BY DEF EncodeRegisterTokenPointer
<1>2. PICK d, m, e, u : d = Discriminator[k] /\ m = a.mint /\ e = a.evmTokenAddress
        /\ u = a.tokenId
  OBVIOUS
<1>3. /\ d \in Bytes /\ m \in Bytes /\ e \in Bytes /\ u \in Bytes
      /\ Len(d) = DiscWidth /\ Len(m) = PubkeyWidth /\ Len(e) = AddressWidth
      /\ Len(u) = PubkeyWidth
  <2>1. k \in Instructions
    BY DEF Instructions
  <2>2. a.mint \in Bytes /\ a.evmTokenAddress \in Bytes /\ a.tokenId \in Bytes
    BY DEF RegisterTokenPointerArgs
  <2> HIDE DEF k
  <2> QED BY <1>1, <1>2, <2>1, <2>2, DiscriminatorBytes
<1>4. PICK x : x = EncodeRegisterTokenPointer(a)
  OBVIOUS
<1>5. x = Packed(d, m, e, u, <<>>, <<>>)
  <2>1. x = d \o m \o e \o u
    BY <1>1, <1>2, <1>4 DEF EncodeRegisterTokenPointer
  <2>2. d \o m \o e \o u \in Bytes
    BY ONLY <1>3, JoinedBytes
  <2>3. (d \o m \o e \o u) \o <<>> = d \o m \o e \o u
    BY ONLY <2>2, EmptyBytes, Zenon
  <2> QED BY ONLY <2>1, <2>3 DEF Packed
<1>6. Unpacked(x, d, m, e, u, <<>>, <<>>)
  BY <1>3, <1>5, EmptyBytes, PackedComesOut, Zenon
<1>7. PICK q : q = Slice(x, DiscWidth, Len(x))
  OBVIOUS
<1>8. PICK P, A : P = PubkeyWidth /\ A = AddressWidth
  OBVIOUS
<1>9. P \in Nat /\ A \in Nat /\ DiscWidth \in Nat
  BY <1>8, InstructionWidthsAssumption
<1>10. /\ x \in Bytes /\ Len(x) = DiscWidth + (P + A + P + 0 + 0) /\ Slice(x, 0, DiscWidth) = d
       /\ Len(q) = P + A + P + 0 + 0
       /\ Slice(q, 0, P) = m /\ Slice(q, P, P + A) = e
       /\ Slice(q, P + A, P + A + P) = u
  BY ONLY <1>3, <1>6, <1>7, <1>8, EmptyBytes DEF Unpacked
<1>11. P + A + P + 0 + 0 = PayloadSize(k)
  BY <1>8, <1>9 DEF PayloadSize
<1>12. k \in Instructions /\ Names(x, k)
  <2>1. DiscWidth <= Len(x)
    BY <1>9, <1>10
  <2> QED BY <1>2, <1>7, <1>10, <1>11, <2>1 DEF Names, Instructions
<1>13. Decode(x) = [kind |-> k, args |-> ArgsOf(k, q)]
  <2> HIDE DEF k
  <2> QED BY <1>7, <1>10, <1>12, DecodeNames
<1>14. ArgsOf(k, q) = [mint |-> Slice(q, 0, 0 + P), evmTokenAddress |-> Slice(q, P, P + A),
                       tokenId |-> Slice(q, P + A, P + A + P)]
  BY <1>8 DEF ArgsOf, Pubkey, Address
<1>15. 0 + P = P
  BY <1>9
<1>16. ArgsOf(k, q) = [mint |-> a.mint, evmTokenAddress |-> a.evmTokenAddress,
                       tokenId |-> a.tokenId]
  BY <1>2, <1>3, <1>10, <1>14, <1>15
<1>17. a = [mint |-> a.mint, evmTokenAddress |-> a.evmTokenAddress, tokenId |-> a.tokenId]
  BY DEF RegisterTokenPointerArgs
<1> QED BY <1>4, <1>13, <1>16, <1>17

LEMMA OneByte ==
  \A n \in Byte : <<n>> \in Bytes /\ Len(<<n>>) = 1
BY DEF Bytes

LEMMA TransferCrossVmDecodes ==
  \A a \in TransferCrossVmArgs : EncodeTransferCrossVm(a) # Threw =>
    Decode(EncodeTransferCrossVm(a)) = [kind |-> "transferCrossVm", args |-> a]
<1> TAKE a \in TransferCrossVmArgs
<1> HAVE EncodeTransferCrossVm(a) # Threw
<1> DEFINE k == "transferCrossVm"
<1>1. Len(a.mint) = PubkeyWidth /\ Len(a.destAddress) = PubkeyWidth /\ a.destVm \in 0..MaxVm
      /\ FitsWord(a.amount) /\ FitsWord(a.nonce)
  BY DEF EncodeTransferCrossVm
<1>2. PICK d, m, w, e, u, v : d = Discriminator[k] /\ m = a.mint /\ w = <<a.destVm>>
        /\ e = a.destAddress
        /\ u = UintLe(a.amount, WordWidth) /\ v = UintLe(a.nonce, WordWidth)
  OBVIOUS
<1>3. /\ d \in Bytes /\ m \in Bytes /\ w \in Bytes /\ e \in Bytes /\ u \in Bytes /\ v \in Bytes
      /\ Len(d) = DiscWidth /\ Len(m) = PubkeyWidth /\ Len(w) = 1 /\ Len(e) = PubkeyWidth
      /\ Len(u) = WordWidth /\ Len(v) = WordWidth /\ w[1] = a.destVm
      /\ FromLe(u) = a.amount /\ FromLe(v) = a.nonce
  <2>1. k \in Instructions
    BY DEF Instructions
  <2>2. a.mint \in Bytes /\ a.destAddress \in Bytes /\ a.amount \in Int /\ a.nonce \in Int
    BY DEF TransferCrossVmArgs
  <2>3. a.destVm \in Byte
    BY <1>1, BaseAssumption, InstructionWidthsAssumption DEF Byte, MaxVm
  <2>4. w \in Bytes /\ Len(w) = 1 /\ w[1] = a.destVm
    BY <1>2, <2>3, OneByte
  <2> HIDE DEF k
  <2> QED BY <1>1, <1>2, <2>1, <2>2, <2>4, DiscriminatorBytes, WordBytes
<1>4. PICK x : x = EncodeTransferCrossVm(a)
  OBVIOUS
<1>5. x = Packed(d, m, w, e, u, v)
  BY <1>1, <1>2, <1>4 DEF EncodeTransferCrossVm, Packed
<1>6. Unpacked(x, d, m, w, e, u, v)
  BY <1>3, <1>5, PackedComesOut, Zenon
<1>7. PICK q : q = Slice(x, DiscWidth, Len(x))
  OBVIOUS
<1>8. PICK P, W : P = PubkeyWidth /\ W = WordWidth
  OBVIOUS
<1>9. P \in Nat /\ W \in Nat /\ DiscWidth \in Nat
  BY <1>8, InstructionWidthsAssumption
<1>10. /\ x \in Bytes /\ Len(x) = DiscWidth + (P + 1 + P + W + W) /\ Slice(x, 0, DiscWidth) = d
       /\ q \in Bytes /\ Len(q) = P + 1 + P + W + W
       /\ Slice(q, 0, P) = m /\ Slice(q, P, P + 1) = w /\ Slice(q, P + 1, P + 1 + P) = e
       /\ Slice(q, P + 1 + P, P + 1 + P + W) = u
       /\ Slice(q, P + 1 + P + W, P + 1 + P + W + W) = v
  BY ONLY <1>3, <1>6, <1>7, <1>8 DEF Unpacked
<1>11. P + 1 + P + W + W = PayloadSize(k)
  BY <1>8, <1>9 DEF PayloadSize
<1>n. q[P + 1] = a.destVm
  <2>1. PICK n : n = P + 1
    OBVIOUS
  <2>2. n \in Nat /\ P <= n /\ n <= Len(q) /\ n - P = 1
    BY <1>9, <1>10, <2>1
  <2>3. \A i \in 1..(n - P) : Slice(q, P, n)[i] = q[P + i]
    BY <1>9, <1>10, <2>2, SliceBytes
  <2>4. Slice(q, P, n)[1] = q[P + 1]
    BY <2>2, <2>3
  <2> QED BY <1>3, <1>10, <2>1, <2>4
<1>12. k \in Instructions /\ Names(x, k)
  <2>1. DiscWidth <= Len(x)
    BY <1>9, <1>10
  <2>2. ~(q[PubkeyWidth + 1] > MaxVm)
    BY <1>1, <1>8, <1>n DEF MaxVm
  <2> QED BY <1>2, <1>7, <1>10, <1>11, <2>1, <2>2 DEF Names, Instructions
<1>13. Decode(x) = [kind |-> k, args |-> ArgsOf(k, q)]
  <2> HIDE DEF k
  <2> QED BY <1>7, <1>10, <1>12, DecodeNames
<1>14. ArgsOf(k, q) = [mint |-> Slice(q, 0, 0 + P), destVm |-> q[P + 1],
                       destAddress |-> Slice(q, P + 1, P + 1 + P),
                       amount |-> FromLe(Slice(q, 2 * P + 1, 2 * P + 1 + W)),
                       nonce |-> FromLe(Slice(q, 2 * P + 1 + W, 2 * P + 1 + W + W))]
  BY <1>8 DEF ArgsOf, Pubkey, Word
<1>15. 0 + P = P /\ 2 * P + 1 = P + 1 + P
  BY <1>9
<1>16. ArgsOf(k, q) = [mint |-> a.mint, destVm |-> a.destVm, destAddress |-> a.destAddress,
                       amount |-> a.amount, nonce |-> a.nonce]
  BY <1>2, <1>3, <1>10, <1>14, <1>15, <1>n
<1>17. a = [mint |-> a.mint, destVm |-> a.destVm, destAddress |-> a.destAddress,
            amount |-> a.amount, nonce |-> a.nonce]
  BY DEF TransferCrossVmArgs
<1> QED BY <1>4, <1>13, <1>16, <1>17

\* svm-cross-vm.ts: what an encoder does not refuse, the decoder gives back: the
\* instruction with every key, address, tag and number.
THEOREM InstructionsDecode ==
  ASSUME NEW ins \in AnyInstruction, Encode(ins) # Threw
  PROVE  Decode(Encode(ins)) = ins
<1>1. CASE ins \in [kind : {"bridgeToEvm"}, args : BridgeToEvmArgs]
  <2>1. ins = [kind |-> "bridgeToEvm", args |-> ins.args] /\ ins.args \in BridgeToEvmArgs
        /\ Encode(ins) = EncodeBridgeToEvm(ins.args)
    BY <1>1 DEF Encode
  <2> QED BY <2>1, BridgeToEvmDecodes
<1>2. CASE ins \in [kind : {"bridgeFromEvm"}, args : BridgeFromEvmArgs]
  <2>1. ins = [kind |-> "bridgeFromEvm", args |-> ins.args] /\ ins.args \in BridgeFromEvmArgs
        /\ Encode(ins) = EncodeBridgeFromEvm(ins.args)
    BY <1>2 DEF Encode
  <2> QED BY <2>1, BridgeFromEvmDecodes
<1>3. CASE ins \in [kind : {"registerTokenPointer"}, args : RegisterTokenPointerArgs]
  <2>1. /\ ins = [kind |-> "registerTokenPointer", args |-> ins.args]
        /\ ins.args \in RegisterTokenPointerArgs
        /\ Encode(ins) = EncodeRegisterTokenPointer(ins.args)
    BY <1>3 DEF Encode
  <2> QED BY <2>1, RegisterTokenPointerDecodes
<1>4. CASE ins \in [kind : {"transferCrossVm"}, args : TransferCrossVmArgs]
  <2>1. ins = [kind |-> "transferCrossVm", args |-> ins.args] /\ ins.args \in TransferCrossVmArgs
        /\ Encode(ins) = EncodeTransferCrossVm(ins.args)
    BY <1>4 DEF Encode
  <2> QED BY <2>1, TransferCrossVmDecodes
<1> QED BY <1>1, <1>2, <1>3, <1>4 DEF AnyInstruction

LEMMA WordRestores ==
  \A b \in Bytes : Len(b) = WordWidth =>
    FitsWord(FromLe(b)) /\ UintLe(FromLe(b), WordWidth) = b
BY UintRestores DEF FitsWord

\* What a slice of bytes is.
LEMMA SliceLength ==
  \A p \in Bytes : \A from, to \in Nat : from <= to /\ to <= Len(p) =>
    Slice(p, from, to) \in Bytes /\ Len(Slice(p, from, to)) = to - from
BY SliceBytes

LEMMA PayloadOf ==
  \A x \in Bytes : \A k \in Instructions : Names(x, k) =>
    /\ Slice(x, DiscWidth, Len(x)) \in Bytes
    /\ Len(Slice(x, DiscWidth, Len(x))) = PayloadSize(k)
    /\ Len(x) = DiscWidth + PayloadSize(k)
<1> TAKE x \in Bytes
<1> TAKE k \in Instructions
<1> HAVE Names(x, k)
<1>1. PICK m, d, s : m = Len(x) /\ d = DiscWidth /\ s = PayloadSize(k)
  OBVIOUS
<1>2. m \in Nat /\ d \in Nat /\ d <= m /\ m <= Len(x) /\ Len(Slice(x, d, m)) = s
  BY <1>1, BytesTyped, InstructionWidthsAssumption DEF Names
<1>3. Slice(x, d, m) \in Bytes /\ Len(Slice(x, d, m)) = m - d
  BY <1>2, SliceLength, Zenon
<1>4. m = d + s
  BY <1>2, <1>3
<1> QED BY <1>1, <1>2, <1>3, <1>4

\* The fields of instruction k in data x with payload q, cut at the offsets given.
Fields(x, q, k, o1, o2, o3, o4, o5) ==
  /\ Slice(q, 0, o1) \in Bytes /\ Len(Slice(q, 0, o1)) = o1
  /\ Slice(q, o1, o2) \in Bytes /\ Len(Slice(q, o1, o2)) = o2 - o1
  /\ Slice(q, o2, o3) \in Bytes /\ Len(Slice(q, o2, o3)) = o3 - o2
  /\ Slice(q, o3, o4) \in Bytes /\ Len(Slice(q, o3, o4)) = o4 - o3
  /\ Slice(q, o4, o5) \in Bytes /\ Len(Slice(q, o4, o5)) = o5 - o4
  /\ Packed(Discriminator[k], Slice(q, 0, o1), Slice(q, o1, o2), Slice(q, o2, o3),
            Slice(q, o3, o4), Slice(q, o4, o5)) = x

LEMMA FieldsCut ==
  \A x \in Bytes : \A k \in Instructions : \A o1, o2, o3, o4, o5 \in Nat :
    Names(x, k) /\ o1 <= o2 /\ o2 <= o3 /\ o3 <= o4 /\ o4 <= o5 /\ o5 = PayloadSize(k) =>
      Fields(x, Slice(x, DiscWidth, Len(x)), k, o1, o2, o3, o4, o5)
<1> TAKE x \in Bytes
<1> TAKE k \in Instructions
<1> TAKE o1, o2, o3, o4, o5 \in Nat
<1> HAVE Names(x, k) /\ o1 <= o2 /\ o2 <= o3 /\ o3 <= o4 /\ o4 <= o5 /\ o5 = PayloadSize(k)
<1>1. PICK q : q = Slice(x, DiscWidth, Len(x))
  OBVIOUS
<1>2. q \in Bytes /\ Len(q) = o5 /\ Len(x) = DiscWidth + o5 /\ DiscWidth \in Nat
  BY <1>1, PayloadOf, InstructionWidthsAssumption
<1>3. /\ 0 \in Nat /\ 0 <= o1 /\ o1 - 0 = o1
      /\ o1 <= Len(q) /\ o2 <= Len(q) /\ o3 <= Len(q) /\ o4 <= Len(q) /\ o5 <= Len(q)
  BY <1>2
<1>4. \A f, t \in Nat : f <= t /\ t <= Len(q) =>
        Slice(q, f, t) \in Bytes /\ Len(Slice(q, f, t)) = t - f
  BY <1>2, SliceLength, Zenon
<1>5. /\ Slice(q, o1, o2) \in Bytes /\ Len(Slice(q, o1, o2)) = o2 - o1
      /\ Slice(q, o2, o3) \in Bytes /\ Len(Slice(q, o2, o3)) = o3 - o2
      /\ Slice(q, o3, o4) \in Bytes /\ Len(Slice(q, o3, o4)) = o4 - o3
      /\ Slice(q, o4, o5) \in Bytes /\ Len(Slice(q, o4, o5)) = o5 - o4
  BY <1>3, <1>4
<1>6. Slice(q, 0, o1) \in Bytes /\ Len(Slice(q, 0, o1)) = o1
  <2>1. Slice(q, 0, o1) \in Bytes /\ Len(Slice(q, 0, o1)) = o1 - 0
    BY <1>3, <1>4, Zenon
  <2> QED BY <1>3, <2>1
<1>7. Slice(x, 0, DiscWidth) = Discriminator[k]
  BY DEF Names
<1>8. Cuts(x, Slice(x, DiscWidth, Len(x)), DiscWidth, o1, o2, o3, o4, o5)
  BY <1>2, CutComesTogether
<1>9. Packed(Discriminator[k], Slice(q, 0, o1), Slice(q, o1, o2), Slice(q, o2, o3),
             Slice(q, o3, o4), Slice(q, o4, o5)) = x
  BY ONLY <1>1, <1>7, <1>8 DEF Cuts
<1>10. Fields(x, q, k, o1, o2, o3, o4, o5)
  BY ONLY <1>5, <1>6, <1>9 DEF Fields
<1> QED BY <1>1, <1>10

LEMMA BridgeToEvmEncodes ==
  \A x \in Bytes : Names(x, "bridgeToEvm") =>
    EncodeBridgeToEvm(ArgsOf("bridgeToEvm", Slice(x, DiscWidth, Len(x)))) = x
<1> TAKE x \in Bytes
<1> HAVE Names(x, "bridgeToEvm")
<1> DEFINE k == "bridgeToEvm"
<1>1. PICK P, A, W : P = PubkeyWidth /\ A = AddressWidth /\ W = WordWidth
  OBVIOUS
<1>2. P \in Nat /\ A \in Nat /\ W \in Nat
  BY <1>1, InstructionWidthsAssumption
<1>3. PICK q : q = Slice(x, DiscWidth, Len(x))
  OBVIOUS
<1>4. PICK o1, o2, o3, o4 : o1 = P /\ o2 = P + A /\ o3 = P + A + W /\ o4 = P + A + W + W
  OBVIOUS
<1>5. /\ o1 \in Nat /\ o2 \in Nat /\ o3 \in Nat /\ o4 \in Nat
      /\ o1 <= o2 /\ o2 <= o3 /\ o3 <= o4 /\ o4 <= o4
      /\ o2 - o1 = A /\ o3 - o2 = W /\ o4 - o3 = W /\ o4 - o4 = 0
  BY <1>2, <1>4
<1>6. o4 = PayloadSize(k) /\ k \in Instructions
  BY <1>1, <1>2, <1>4 DEF PayloadSize, Instructions
<1>7. Fields(x, q, k, o1, o2, o3, o4, o4)
  BY <1>3, <1>5, <1>6, FieldsCut
<1>8. PICK d, m, e, u, v : d = Discriminator[k] /\ m = Slice(q, 0, o1) /\ e = Slice(q, o1, o2)
                           /\ u = Slice(q, o2, o3) /\ v = Slice(q, o3, o4)
  OBVIOUS
<1>9. /\ d \in Bytes /\ m \in Bytes /\ e \in Bytes /\ u \in Bytes /\ v \in Bytes
      /\ Len(m) = P /\ Len(e) = A /\ Len(u) = W /\ Len(v) = W
      /\ Packed(d, m, e, u, v, Slice(q, o4, o4)) = x
  <2>1. d \in Bytes
    BY <1>6, <1>8, DiscriminatorBytes
  <2> QED BY ONLY <1>4, <1>5, <1>7, <1>8, <2>1 DEF Fields
<1>10. Slice(q, o4, o4) = <<>>
  BY ONLY <1>5, <1>7, NoBytes DEF Fields
<1>11. d \o m \o e \o u \o v = x
  <2>1. Packed(d, m, e, u, v, <<>>) = x
    BY ONLY <1>9, <1>10
  <2>2. d \o m \o e \o u \o v \in Bytes
    BY ONLY <1>9, JoinedBytes
  <2>3. (d \o m \o e \o u \o v) \o <<>> = d \o m \o e \o u \o v
    BY ONLY <2>2, EmptyBytes, Zenon
  <2> QED BY ONLY <2>1, <2>3 DEF Packed
<1>12. ArgsOf(k, q) = [mint |-> m, evmDest |-> e, amount |-> FromLe(u), nonce |-> FromLe(v)]
  <2>1. ArgsOf(k, q) = [mint |-> Slice(q, 0, 0 + P), evmDest |-> Slice(q, P, P + A),
                        amount |-> FromLe(Slice(q, P + A, P + A + W)),
                        nonce |-> FromLe(Slice(q, P + A + W, P + A + W + W))]
    BY <1>1 DEF ArgsOf, Pubkey, Address, Word
  <2>2. 0 + P = P
    BY <1>2
  <2> QED BY ONLY <1>4, <1>8, <2>1, <2>2
<1>13. /\ FitsWord(FromLe(u)) /\ UintLe(FromLe(u), WordWidth) = u
       /\ FitsWord(FromLe(v)) /\ UintLe(FromLe(v), WordWidth) = v
  BY ONLY <1>1, <1>9, WordRestores
<1>14. EncodeBridgeToEvm([mint |-> m, evmDest |-> e, amount |-> FromLe(u), nonce |-> FromLe(v)])
         = Discriminator[k] \o m \o e \o u \o v
  BY ONLY <1>1, <1>9, <1>13 DEF EncodeBridgeToEvm
<1> QED BY <1>3, <1>8, <1>11, <1>12, <1>14

LEMMA BridgeFromEvmEncodes ==
  \A x \in Bytes : Names(x, "bridgeFromEvm") =>
    EncodeBridgeFromEvm(ArgsOf("bridgeFromEvm", Slice(x, DiscWidth, Len(x)))) = x
<1> TAKE x \in Bytes
<1> HAVE Names(x, "bridgeFromEvm")
<1> DEFINE k == "bridgeFromEvm"
<1>1. PICK P, W : P = PubkeyWidth /\ W = WordWidth
  OBVIOUS
<1>2. P \in Nat /\ W \in Nat
  BY <1>1, InstructionWidthsAssumption
<1>3. PICK q : q = Slice(x, DiscWidth, Len(x))
  OBVIOUS
<1>4. PICK o1, o2, o3, o4 : o1 = P /\ o2 = 2 * P /\ o3 = 2 * P + W /\ o4 = 2 * P + W + W
  OBVIOUS
<1>5. /\ o1 \in Nat /\ o2 \in Nat /\ o3 \in Nat /\ o4 \in Nat
      /\ o1 <= o2 /\ o2 <= o3 /\ o3 <= o4 /\ o4 <= o4
      /\ o2 - o1 = P /\ o3 - o2 = W /\ o4 - o3 = W /\ o4 - o4 = 0
  BY <1>2, <1>4
<1>6. o4 = PayloadSize(k) /\ k \in Instructions
  BY <1>1, <1>2, <1>4 DEF PayloadSize, Instructions
<1>7. Fields(x, q, k, o1, o2, o3, o4, o4)
  BY <1>3, <1>5, <1>6, FieldsCut
<1>8. PICK d, m, e, u, v : d = Discriminator[k] /\ m = Slice(q, 0, o1) /\ e = Slice(q, o1, o2)
                           /\ u = Slice(q, o2, o3) /\ v = Slice(q, o3, o4)
  OBVIOUS
<1>9. /\ d \in Bytes /\ m \in Bytes /\ e \in Bytes /\ u \in Bytes /\ v \in Bytes
      /\ Len(m) = P /\ Len(e) = P /\ Len(u) = W /\ Len(v) = W
      /\ Packed(d, m, e, u, v, Slice(q, o4, o4)) = x
  <2>1. d \in Bytes
    BY <1>6, <1>8, DiscriminatorBytes
  <2> QED BY ONLY <1>4, <1>5, <1>7, <1>8, <2>1 DEF Fields
<1>10. Slice(q, o4, o4) = <<>>
  BY ONLY <1>5, <1>7, NoBytes DEF Fields
<1>11. d \o m \o e \o u \o v = x
  <2>1. Packed(d, m, e, u, v, <<>>) = x
    BY ONLY <1>9, <1>10
  <2>2. d \o m \o e \o u \o v \in Bytes
    BY ONLY <1>9, JoinedBytes
  <2>3. (d \o m \o e \o u \o v) \o <<>> = d \o m \o e \o u \o v
    BY ONLY <2>2, EmptyBytes, Zenon
  <2> QED BY ONLY <2>1, <2>3 DEF Packed
<1>12. ArgsOf(k, q) = [mint |-> m, svmDest |-> e, amount |-> FromLe(u), nonce |-> FromLe(v)]
  <2>1. ArgsOf(k, q) = [mint |-> Slice(q, 0, 0 + P), svmDest |-> Slice(q, P, P + P),
                        amount |-> FromLe(Slice(q, 2 * P, 2 * P + W)),
                        nonce |-> FromLe(Slice(q, 2 * P + W, 2 * P + W + W))]
    BY <1>1 DEF ArgsOf, Pubkey, Word
  <2>2. 0 + P = P /\ P + P = 2 * P
    BY <1>2
  <2> QED BY ONLY <1>4, <1>8, <2>1, <2>2
<1>13. /\ FitsWord(FromLe(u)) /\ UintLe(FromLe(u), WordWidth) = u
       /\ FitsWord(FromLe(v)) /\ UintLe(FromLe(v), WordWidth) = v
  BY ONLY <1>1, <1>9, WordRestores
<1>14. EncodeBridgeFromEvm([mint |-> m, svmDest |-> e, amount |-> FromLe(u), nonce |-> FromLe(v)])
         = Discriminator[k] \o m \o e \o u \o v
  BY ONLY <1>1, <1>9, <1>13 DEF EncodeBridgeFromEvm
<1> QED BY <1>3, <1>8, <1>11, <1>12, <1>14

LEMMA RegisterTokenPointerEncodes ==
  \A x \in Bytes : Names(x, "registerTokenPointer") =>
    EncodeRegisterTokenPointer(ArgsOf("registerTokenPointer", Slice(x, DiscWidth, Len(x)))) = x
<1> TAKE x \in Bytes
<1> HAVE Names(x, "registerTokenPointer")
<1> DEFINE k == "registerTokenPointer"
<1>1. PICK P, A : P = PubkeyWidth /\ A = AddressWidth
  OBVIOUS
<1>2. P \in Nat /\ A \in Nat
  BY <1>1, InstructionWidthsAssumption
<1>3. PICK q : q = Slice(x, DiscWidth, Len(x))
  OBVIOUS
<1>4. PICK o1, o2, o3 : o1 = P /\ o2 = P + A /\ o3 = P + A + P
  OBVIOUS
<1>5. /\ o1 \in Nat /\ o2 \in Nat /\ o3 \in Nat
      /\ o1 <= o2 /\ o2 <= o3 /\ o3 <= o3
      /\ o2 - o1 = A /\ o3 - o2 = P /\ o3 - o3 = 0
  BY <1>2, <1>4
<1>6. o3 = PayloadSize(k) /\ k \in Instructions
  BY <1>1, <1>2, <1>4 DEF PayloadSize, Instructions
<1>7. Fields(x, q, k, o1, o2, o3, o3, o3)
  BY <1>3, <1>5, <1>6, FieldsCut
<1>8. PICK d, m, e, u : d = Discriminator[k] /\ m = Slice(q, 0, o1) /\ e = Slice(q, o1, o2)
                        /\ u = Slice(q, o2, o3)
  OBVIOUS
<1>9. /\ d \in Bytes /\ m \in Bytes /\ e \in Bytes /\ u \in Bytes
      /\ Len(m) = P /\ Len(e) = A /\ Len(u) = P
      /\ Packed(d, m, e, u, Slice(q, o3, o3), Slice(q, o3, o3)) = x
  <2>1. d \in Bytes
    BY <1>6, <1>8, DiscriminatorBytes
  <2> QED BY ONLY <1>4, <1>5, <1>7, <1>8, <2>1 DEF Fields
<1>10. Slice(q, o3, o3) = <<>>
  BY ONLY <1>5, <1>7, NoBytes DEF Fields
<1>11. d \o m \o e \o u = x
  <2>1. Packed(d, m, e, u, <<>>, <<>>) = x
    BY ONLY <1>9, <1>10
  <2>2. d \o m \o e \o u \in Bytes
    BY ONLY <1>9, JoinedBytes
  <2>3. (d \o m \o e \o u) \o <<>> = d \o m \o e \o u
    BY ONLY <2>2, EmptyBytes, Zenon
  <2> QED BY ONLY <2>1, <2>3 DEF Packed
<1>12. ArgsOf(k, q) = [mint |-> m, evmTokenAddress |-> e, tokenId |-> u]
  <2>1. ArgsOf(k, q) = [mint |-> Slice(q, 0, 0 + P), evmTokenAddress |-> Slice(q, P, P + A),
                        tokenId |-> Slice(q, P + A, P + A + P)]
    BY <1>1 DEF ArgsOf, Pubkey, Address
  <2>2. 0 + P = P
    BY <1>2
  <2> QED BY ONLY <1>4, <1>8, <2>1, <2>2
<1>13. EncodeRegisterTokenPointer([mint |-> m, evmTokenAddress |-> e, tokenId |-> u])
         = Discriminator[k] \o m \o e \o u
  BY ONLY <1>1, <1>9 DEF EncodeRegisterTokenPointer
<1> QED BY <1>3, <1>8, <1>11, <1>12, <1>13

LEMMA TransferCrossVmEncodes ==
  \A x \in Bytes : Names(x, "transferCrossVm") =>
    EncodeTransferCrossVm(ArgsOf("transferCrossVm", Slice(x, DiscWidth, Len(x)))) = x
<1> TAKE x \in Bytes
<1> HAVE Names(x, "transferCrossVm")
<1> DEFINE k == "transferCrossVm"
<1>1. PICK P, W : P = PubkeyWidth /\ W = WordWidth
  OBVIOUS
<1>2. P \in Nat /\ W \in Nat
  BY <1>1, InstructionWidthsAssumption
<1>3. PICK q : q = Slice(x, DiscWidth, Len(x))
  OBVIOUS
<1>4. PICK o1, o2, o3, o4, o5 : o1 = P /\ o2 = P + 1 /\ o3 = 2 * P + 1 /\ o4 = 2 * P + 1 + W
                                /\ o5 = 2 * P + 1 + W + W
  OBVIOUS
<1>5. /\ o1 \in Nat /\ o2 \in Nat /\ o3 \in Nat /\ o4 \in Nat /\ o5 \in Nat
      /\ o1 <= o2 /\ o2 <= o3 /\ o3 <= o4 /\ o4 <= o5
      /\ o2 - o1 = 1 /\ o3 - o2 = P /\ o4 - o3 = W /\ o5 - o4 = W
  BY <1>2, <1>4
<1>6. o5 = PayloadSize(k) /\ k \in Instructions
  BY <1>1, <1>2, <1>4 DEF PayloadSize, Instructions
<1>7. Fields(x, q, k, o1, o2, o3, o4, o5)
  BY <1>3, <1>5, <1>6, FieldsCut
<1>8. PICK d, m, w, e, u, v : d = Discriminator[k] /\ m = Slice(q, 0, o1) /\ w = Slice(q, o1, o2)
                              /\ e = Slice(q, o2, o3) /\ u = Slice(q, o3, o4)
                              /\ v = Slice(q, o4, o5)
  OBVIOUS
<1>9. /\ m \in Bytes /\ w \in Bytes /\ e \in Bytes /\ u \in Bytes /\ v \in Bytes
      /\ Len(m) = P /\ Len(w) = 1 /\ Len(e) = P /\ Len(u) = W /\ Len(v) = W
      /\ Packed(d, m, w, e, u, v) = x
  BY ONLY <1>4, <1>5, <1>7, <1>8 DEF Fields
<1>10. q \in Bytes /\ Len(q) = o5 /\ ~(q[P + 1] > MaxVm)
  BY <1>1, <1>3, <1>6, PayloadOf DEF Names
<1>11. w = <<q[P + 1]>> /\ q[P + 1] \in 0..MaxVm
  <2>1. o1 \in Nat /\ o2 \in Nat /\ o1 <= o2 /\ o2 <= Len(q)
    BY <1>5, <1>10
  <2>2. \A i \in 1..(o2 - o1) : Slice(q, o1, o2)[i] = q[o1 + i]
    BY <1>10, <2>1, SliceBytes
  <2>3. w[1] = q[P + 1]
    BY <1>4, <1>5, <1>8, <2>2
  <2>4. w[1] \in Byte
    <3>1. w \in Seq(Byte) /\ 1 \in 1..Len(w)
      BY ONLY <1>9 DEF Bytes
    <3> QED BY ONLY <3>1, ElementOfSeq
  <2>5. w = <<w[1]>>
    BY ONLY <1>9 DEF Bytes
  <2>6. w[1] \in Nat /\ ~(w[1] > MaxVm)
    BY <1>10, <2>3, <2>4, BaseAssumption DEF Byte
  <2> QED BY <2>3, <2>5, <2>6 DEF MaxVm
<1>12. d \o m \o w \o e \o u \o v = x
  BY ONLY <1>9 DEF Packed
<1>13. ArgsOf(k, q) = [mint |-> m, destVm |-> q[P + 1], destAddress |-> e,
                       amount |-> FromLe(u), nonce |-> FromLe(v)]
  <2>1. ArgsOf(k, q) = [mint |-> Slice(q, 0, 0 + P), destVm |-> q[P + 1],
                        destAddress |-> Slice(q, P + 1, P + 1 + P),
                        amount |-> FromLe(Slice(q, 2 * P + 1, 2 * P + 1 + W)),
                        nonce |-> FromLe(Slice(q, 2 * P + 1 + W, 2 * P + 1 + W + W))]
    BY <1>1 DEF ArgsOf, Pubkey, Word
  <2>2. 0 + P = P /\ P + 1 + P = 2 * P + 1
    BY <1>2
  <2> QED BY ONLY <1>4, <1>8, <2>1, <2>2
<1>14. /\ FitsWord(FromLe(u)) /\ UintLe(FromLe(u), WordWidth) = u
       /\ FitsWord(FromLe(v)) /\ UintLe(FromLe(v), WordWidth) = v
  BY ONLY <1>1, <1>9, WordRestores
<1>15. EncodeTransferCrossVm([mint |-> m, destVm |-> q[P + 1], destAddress |-> e,
                              amount |-> FromLe(u), nonce |-> FromLe(v)])
         = Discriminator[k] \o m \o <<q[P + 1]>> \o e \o u \o v
  BY ONLY <1>1, <1>9, <1>11, <1>14 DEF EncodeTransferCrossVm
<1> QED BY <1>3, <1>8, <1>11, <1>12, <1>13, <1>15

\* svm-cross-vm.ts: what the decoder does not refuse, the encoder gives back byte
\* for byte: no two byte strings are the same instruction.
THEOREM InstructionsEncode ==
  ASSUME NEW data \in Bytes, Decode(data) # Threw
  PROVE  Encode(Decode(data)) = data
<1>1. PICK k \in Instructions : Names(data, k)
  BY DecodedNames
<1>2. PICK q, ins : q = Slice(data, DiscWidth, Len(data)) /\ ins = [kind |-> k, args |-> ArgsOf(k, q)]
  OBVIOUS
<1>3. Decode(data) = ins
  BY <1>1, <1>2, DecodeNames
<1>4. ins.kind = k /\ ins.args = ArgsOf(k, q)
  BY <1>2
<1>5. CASE k = "bridgeToEvm"
  <2>1. Encode(ins) = EncodeBridgeToEvm(ArgsOf(k, q))
    BY <1>4, <1>5 DEF Encode
  <2> QED BY <1>1, <1>2, <1>3, <1>5, <2>1, BridgeToEvmEncodes
<1>6. CASE k = "bridgeFromEvm"
  <2>1. Encode(ins) = EncodeBridgeFromEvm(ArgsOf(k, q))
    BY <1>4, <1>6 DEF Encode
  <2> QED BY <1>1, <1>2, <1>3, <1>6, <2>1, BridgeFromEvmEncodes
<1>7. CASE k = "registerTokenPointer"
  <2>1. Encode(ins) = EncodeRegisterTokenPointer(ArgsOf(k, q))
    BY <1>4, <1>7 DEF Encode
  <2> QED BY <1>1, <1>2, <1>3, <1>7, <2>1, RegisterTokenPointerEncodes
<1>8. CASE k = "transferCrossVm"
  <2>1. Encode(ins) = EncodeTransferCrossVm(ArgsOf(k, q))
    BY <1>4, <1>8 DEF Encode
  <2> QED BY <1>1, <1>2, <1>3, <1>8, <2>1, TransferCrossVmEncodes
<1> QED BY <1>5, <1>6, <1>7, <1>8 DEF Instructions
-----------------------------------------------------------------------------
(***************************************************************************)
(* Digits in a base                                                        *)
(***************************************************************************)
LEMMA Division ==
  \A n \in Nat : \A d \in Nat \ {0} :
    n \div d \in Nat /\ n % d \in 0..(d - 1) /\ n = (n \div d) * d + (n % d)
OBVIOUS

LEMMA DivisionShrinks ==
  \A n \in Nat : \A d \in Nat \ {0, 1} : n # 0 => n \div d < n
<1> TAKE n \in Nat
<1> TAKE d \in Nat \ {0, 1}
<1> HAVE n # 0
<1>1. PICK q \in Nat : q = n \div d
  BY Division
<1>2. q * d <= n
  BY <1>1, Division
<1>3. q * 2 <= q * d
  BY SMT
<1>4. q * 2 <= n
  BY <1>2, <1>3, SMT
<1> QED BY <1>1, <1>4

\* d writes v in a base, least significant digit first: what is left of v after
\* each digit, and nothing after the last.
Writes(d, base, v) ==
  \E left \in [0..Len(d) -> Nat] :
    /\ left[0] = v /\ left[Len(d)] = 0
    /\ \A i \in 1..Len(d) : left[i - 1] # 0 /\ left[i - 1] = left[i] * base + d[i]

LEMMA DigitsWrite ==
  \A v \in Nat : \A base \in Nat \ {0, 1} :
    Digits(v, base) \in Seq(0..(base - 1)) /\ Writes(Digits(v, base), base, v)
<1> TAKE v \in Nat
<1> TAKE base \in Nat \ {0, 1}
<1>1. PICK left : left = Quotients(v, base, v)
  OBVIOUS
<1>2. left \in [0..v -> Nat] /\ left[0] = v /\ \A i \in 1..v : left[i] = left[i - 1] \div base
  <2>1. LeftOf(Quotients(v, base, v), v, base, v)
    <3>1. base \in Nat \ {0}
      OBVIOUS
    <3> QED BY ONLY v \in Nat, <3>1, QuotientsLoop
  <2> QED BY ONLY <1>1, <2>1 DEF LeftOf
<1> DEFINE T == {i \in 0..v : ~(left[i] = 0 \/ left[i] + i <= v)}
<1>3. ASSUME T # {} PROVE FALSE
  <2>1. PICK m \in T : m = 0 \/ (m - 1 \in Nat /\ m - 1 \notin T)
    <3>1. T \in SUBSET Nat
      OBVIOUS
    <3> HIDE DEF T
    <3> QED BY <1>3, <3>1, FirstNumber, Zenon
  <2>2. m # 0 /\ m \in 1..v /\ m - 1 \in 0..v
    BY <1>2, <2>1
  <2>3. PICK x, y \in Nat : x = left[m - 1] /\ y = left[m]
    BY <1>2, <2>2
  <2>4. y = x \div base /\ (x = 0 \/ x + (m - 1) <= v)
    BY <1>2, <2>1, <2>2, <2>3
  <2>5. x = 0 => y = 0
    BY <2>4
  <2>6. x # 0 => y < x
    BY <2>4, DivisionShrinks
  <2>7. y # 0 /\ ~(y + m <= v)
    BY <2>1, <2>3
  <2> HIDE DEF T
  <2> QED BY ONLY v \in Nat, <2>2, <2>3, <2>4, <2>5, <2>6, <2>7
<1>4. left[v] = 0
  BY <1>2, <1>3
<1>5. \E k \in 0..v : left[k] = 0 /\ \A j \in 0..(k - 1) : left[j] # 0
  <2> DEFINE Z == {k \in 0..v : left[k] = 0}
  <2>1. v \in Z /\ Z \in SUBSET Nat
    BY <1>4
  <2>2. PICK k \in Z : \A j \in Z : k <= j
    <3> HIDE DEF Z
    <3> QED BY <2>1, LeastNumber
  <2> QED BY <2>2
<1>6. PICK n : n = CHOOSE k \in 0..v : left[k] = 0 /\ \A j \in 0..(k - 1) : left[j] # 0
  OBVIOUS
<1>7. n \in 0..v /\ left[n] = 0 /\ \A j \in 0..(n - 1) : left[j] # 0
  BY <1>5, <1>6
<1>8. PICK d : d = [i \in 1..n |-> left[i - 1] % base]
  OBVIOUS
<1>9. Digits(v, base) = d
  BY <1>1, <1>6, <1>8 DEF Digits
<1>10. \A i \in 1..n : i \in 1..v /\ i - 1 \in 0..v /\ i - 1 \in 0..(n - 1) /\ i \in 0..v
  BY <1>7
<1>11. d \in [1..n -> 0..(base - 1)]
  BY <1>2, <1>8, <1>10, Division
<1>12. d \in Seq(0..(base - 1)) /\ Len(d) = n
  BY <1>7, <1>11
<1>13. \A i \in 1..n : left[i - 1] # 0 /\ left[i - 1] = left[i] * base + d[i]
  <2> TAKE i \in 1..n
  <2>1. PICK x \in Nat : x = left[i - 1]
    BY <1>2, <1>10
  <2>2. left[i] = x \div base /\ d[i] = x % base /\ x # 0
    BY <1>2, <1>7, <1>8, <1>10, <2>1
  <2>3. x = (x \div base) * base + (x % base)
    BY Division
  <2> QED BY <2>1, <2>2, <2>3
<1>14. PICK rest : rest = [i \in 0..n |-> left[i]]
  OBVIOUS
<1>15. /\ rest \in [0..n -> Nat] /\ rest[0] = v /\ rest[n] = 0
       /\ \A i \in 1..n : rest[i - 1] = left[i - 1] /\ rest[i] = left[i]
  <2>1. n \in 0..n /\ 0 \in 0..n /\ \A i \in 0..n : i \in 0..v
    BY <1>7
  <2>2. \A i \in 1..n : i \in 0..n /\ i - 1 \in 0..n
    BY <1>7
  <2> QED BY <1>2, <1>7, <1>14, <2>1, <2>2
<1>16. Writes(d, base, v)
  <2>1. \A i \in 1..n : rest[i - 1] # 0 /\ rest[i - 1] = rest[i] * base + d[i]
    BY ONLY <1>13, <1>15
  <2>2. /\ rest \in [0..Len(d) -> Nat] /\ rest[0] = v /\ rest[Len(d)] = 0
        /\ \A i \in 1..Len(d) : rest[i - 1] # 0 /\ rest[i - 1] = rest[i] * base + d[i]
    BY ONLY <1>12, <1>15, <2>1
  <2> QED BY ONLY <2>2 DEF Writes
<1> QED BY <1>9, <1>12, <1>16

\* Digits write one number.
LEMMA WritesOnce ==
  \A base \in Nat : \A d : Len(d) \in Nat =>
    \A v, w : Writes(d, base, v) /\ Writes(d, base, w) => v = w
<1> TAKE base \in Nat
<1> TAKE d
<1> HAVE Len(d) \in Nat
<1> TAKE v, w
<1> HAVE Writes(d, base, v) /\ Writes(d, base, w)
<1>1. PICK n \in Nat : n = Len(d)
  OBVIOUS
<1>2. PICK f \in [0..n -> Nat] :
        f[0] = v /\ f[n] = 0 /\ \A i \in 1..n : f[i - 1] = f[i] * base + d[i]
  BY <1>1 DEF Writes
<1>3. PICK g \in [0..n -> Nat] :
        g[0] = w /\ g[n] = 0 /\ \A i \in 1..n : g[i - 1] = g[i] * base + d[i]
  BY <1>1 DEF Writes
<1> DEFINE T == {k \in 0..n : f[n - k] # g[n - k]}
<1>4. ASSUME T # {} PROVE FALSE
  <2>1. PICK m \in T : m = 0 \/ (m - 1 \in Nat /\ m - 1 \notin T)
    <3>1. T \in SUBSET Nat
      OBVIOUS
    <3> HIDE DEF T
    <3> QED BY <1>4, <3>1, FirstNumber, Zenon
  <2>2. m # 0
    BY <1>2, <1>3
  <2>3. PICK j : j = n + 1 - m
    OBVIOUS
  <2>4. m \in 1..n /\ j \in 1..n /\ n - m = j - 1 /\ n - (m - 1) = j
    BY <2>2, <2>3
  <2>5. f[j] = g[j]
    <3>1. m - 1 \in 0..n /\ m - 1 \notin T
      BY <2>1, <2>2, <2>4
    <3>2. f[n - (m - 1)] = g[n - (m - 1)]
      BY ONLY <3>1
    <3> QED BY ONLY <2>4, <3>2
  <2>6. f[j - 1] = f[j] * base + d[j] /\ g[j - 1] = g[j] * base + d[j]
    BY ONLY <1>2, <1>3, <2>4
  <2> QED BY <2>1, <2>4, <2>5, <2>6
<1>5. f[0] = g[0]
  <2>1. n \in 0..n /\ n - n = 0
    OBVIOUS
  <2>2. n \notin T
    BY ONLY <1>4
  <2>3. f[n - n] = g[n - n]
    BY ONLY <2>1, <2>2
  <2> QED BY ONLY <2>1, <2>3
<1> QED BY ONLY <1>2, <1>3, <1>5

\* The digits of a number tell it from every other one.
LEMMA DigitsDetermine ==
  \A base \in Nat \ {0, 1} : \A v, w \in Nat : Digits(v, base) = Digits(w, base) => v = w
<1> TAKE base \in Nat \ {0, 1}
<1> TAKE v, w \in Nat
<1> HAVE Digits(v, base) = Digits(w, base)
<1>1. PICK d : d = Digits(v, base) /\ d = Digits(w, base)
  OBVIOUS
<1>2. d \in Seq(0..(base - 1)) /\ Writes(d, base, v) /\ Writes(d, base, w)
  BY <1>1, DigitsWrite
<1>3. Len(d) \in Nat
  BY <1>2
<1> QED BY <1>2, <1>3, WritesOnce


LEMMA NatClosed ==
  \A x, y, z \in Nat : x * y + z \in Nat /\ x + y * z \in Nat
OBVIOUS

LEMMA Base58ValueLoop ==
  \A text \in Seq(0..(Alphabet - 1)) : \E sum \in [0..Len(text) -> Nat] :
    /\ sum[0] = 0 /\ Base58Value(text) = sum[Len(text)]
    /\ \A i \in 1..Len(text) : sum[i] = sum[i - 1] * Alphabet + text[i]
<1> TAKE text \in Seq(0..(Alphabet - 1))
<1>0. PICK n : n = Len(text)
  OBVIOUS
<1>n. n \in Nat /\ \A i \in 1..n : text[i] \in Nat
  BY <1>0, AlphabetAssumption
<1> DEFINE step == [p \in (1..n) \X Nat |-> p[2] * Alphabet + text[p[1]]]
           F(f) == [i \in 0..n |-> IF i = 0 THEN 0 ELSE f[i - 1] * Alphabet + text[i]]
<1>1. step \in [(1..n) \X Nat -> Nat]
  <2>1. \A p \in (1..n) \X Nat : p[2] * Alphabet + text[p[1]] \in Nat
    <3> TAKE p \in (1..n) \X Nat
    <3>1. p[2] \in Nat /\ text[p[1]] \in Nat /\ Alphabet \in Nat
      BY <1>n, AlphabetAssumption
    <3> QED BY ONLY <3>1, NatClosed
  <2> QED BY <2>1
<1>2. PICK g : g \in Loop(n, Nat, 0, step)
  <2> HIDE DEF step
  <2>1. Loop(n, Nat, 0, step) # {}
    BY <1>1, <1>n, LoopRuns
  <2> QED BY <2>1
<1>3. \A i \in 1..n : step[<<i, g[i - 1]>>] = g[i - 1] * Alphabet + text[i]
  <2>1. \A i \in 1..n : <<i, g[i - 1]>> \in (1..n) \X Nat
    BY <1>n, <1>2 DEF Loop
  <2> QED BY <2>1
<1>4. g = F(g)
  <2> HIDE DEF step
  <2>1. \A i \in 0..n : i # 0 => i \in 1..n
    OBVIOUS
  <2>2. g \in [0..n -> Nat]
        /\ \A i \in 0..n : g[i] = IF i = 0 THEN 0 ELSE g[i - 1] * Alphabet + text[i]
    BY <1>n, <1>2, <1>3, <2>1 DEF Loop
  <2> QED BY <2>2
<1>5. PICK f : f = CHOOSE h : h = F(h)
  OBVIOUS
<1>6. Base58Value(text) = f[n]
  BY <1>0, <1>5 DEF Base58Value
<1>7. f = F(f)
  <2> HIDE DEF F
  <2> QED BY <1>4, <1>5, Zenon
<1>8. f[0] = 0 /\ \A i \in 1..n : f[i] = f[i - 1] * Alphabet + text[i]
  <2>1. 0 \in 0..n /\ \A i \in 1..n : i \in 0..n /\ i # 0
    BY <1>n
  <2> QED BY <1>7, <2>1
<1>9. f \in [0..n -> Nat]
  <2> DEFINE T == {i \in 0..n : f[i] \notin Nat}
  <2>1. ASSUME T # {} PROVE FALSE
    <3>1. PICK m \in T : m = 0 \/ (m - 1 \in Nat /\ m - 1 \notin T)
      <4>1. T \in SUBSET Nat
        OBVIOUS
      <4> HIDE DEF T
      <4> QED BY <2>1, <4>1, FirstNumber, Zenon
    <3>2. m # 0 /\ m \in 1..n /\ f[m - 1] \in Nat
      BY <1>8, <1>n, <3>1
    <3>3. f[m] = f[m - 1] * Alphabet + text[m] /\ text[m] \in Nat /\ Alphabet \in Nat
      BY ONLY <1>8, <1>n, <3>2, AlphabetAssumption
    <3>4. f[m] \in Nat
      BY ONLY <3>2, <3>3, NatClosed
    <3> QED BY <3>1, <3>4
  <2> QED BY <1>7, <2>1
<1> QED BY <1>0, <1>6, <1>8, <1>9

\* FromBe reads the first byte first.
LEMMA FromBeLoop ==
  \A b \in Bytes : \E taken \in [0..Len(b) -> Nat] :
    /\ taken[0] = 0 /\ FromBe(b) = taken[Len(b)]
    /\ \A i \in 1..Len(b) : taken[i] = taken[i - 1] * Base + b[i]
<1> TAKE b \in Bytes
<1>1. PICK n : n = Len(b)
  OBVIOUS
<1>2. n \in Nat /\ DOMAIN b = 1..n /\ b \in [1..n -> Byte]
  BY <1>1, b \in Seq(Byte), LenProperties DEF Bytes
<1>3. PICK c : c = [i \in 1..n |-> b[n + 1 - i]]
  OBVIOUS
<1>4. \A i \in 1..n : n + 1 - i \in 1..n /\ n + 1 - (n + 1 - i) = i
  BY <1>2
<1>5. c \in [1..n -> Byte]
  BY <1>2, <1>3, <1>4
<1>6. c \in Bytes /\ Len(c) = n
  BY <1>2, <1>5 DEF Bytes
<1>7. FromBe(b) = FromLe(c)
  BY <1>1, <1>2, <1>3 DEF FromBe
<1>8. PICK taken \in [0..n -> Nat] :
        /\ taken[0] = 0 /\ FromLe(c) = taken[n]
        /\ \A i \in 1..n : taken[i] = taken[i - 1] * Base + c[n + 1 - i]
  BY <1>6, FromLeLoop
<1>9. \A i \in 1..n : c[n + 1 - i] = b[i]
  BY <1>3, <1>4
<1>10. \A i \in 1..n : taken[i] = taken[i - 1] * Base + b[i]
  BY ONLY <1>8, <1>9
<1> QED BY ONLY <1>1, <1>7, <1>8, <1>10

\* The carry of one round of base58btcEncode.
LEMMA CarryLoop ==
  \A digits \in Seq(0..(Alphabet - 1)) : \A byte \in Byte :
    \E carry \in [0..Len(digits) -> Nat] :
      /\ carry[0] = byte
      /\ \A i \in 1..Len(digits) : carry[i] = (carry[i - 1] + digits[i] * Base) \div Alphabet
      /\ Absorbed(digits, byte) =
           [i \in 1..Len(digits) |-> (carry[i - 1] + digits[i] * Base) % Alphabet]
             \o Pushed(carry[Len(digits)])
<1> TAKE digits \in Seq(0..(Alphabet - 1))
<1> TAKE byte \in Byte
<1>0. PICK n : n = Len(digits)
  OBVIOUS
<1>n. n \in Nat /\ DOMAIN digits = 1..n /\ \A i \in 1..n : digits[i] \in Nat
  BY <1>0, AlphabetAssumption
<1>b. byte \in Nat /\ Base \in Nat /\ Alphabet \in Nat \ {0}
  BY BaseAssumption, AlphabetAssumption DEF Byte
<1>d. \A x \in Nat : \A i \in 1..n : (x + digits[i] * Base) \div Alphabet \in Nat
  <2> TAKE x \in Nat
  <2> TAKE i \in 1..n
  <2>1. PICK y \in Nat : y = x + digits[i] * Base
    BY ONLY <1>n, <1>b, x \in Nat, NatClosed
  <2>2. y \div Alphabet \in Nat
    BY ONLY <1>b, <2>1, Division
  <2> QED BY ONLY <2>1, <2>2
<1> DEFINE step == [p \in (1..n) \X Nat |-> (p[2] + digits[p[1]] * Base) \div Alphabet]
           F(f) == [i \in 0..n |->
                      IF i = 0 THEN byte ELSE (f[i - 1] + digits[i] * Base) \div Alphabet]
<1>1. step \in [(1..n) \X Nat -> Nat]
  BY <1>d
<1>2. PICK g : g \in Loop(n, Nat, byte, step)
  <2> HIDE DEF step
  <2>1. Loop(n, Nat, byte, step) # {}
    BY <1>1, <1>n, <1>b, LoopRuns
  <2> QED BY <2>1
<1>3. \A i \in 1..n : step[<<i, g[i - 1]>>] = (g[i - 1] + digits[i] * Base) \div Alphabet
  <2>1. \A i \in 1..n : <<i, g[i - 1]>> \in (1..n) \X Nat
    BY <1>n, <1>2 DEF Loop
  <2> QED BY <2>1
<1>4. g = F(g)
  <2> HIDE DEF step
  <2>1. \A i \in 0..n : i # 0 => i \in 1..n
    OBVIOUS
  <2>2. g \in [0..n -> Nat]
        /\ \A i \in 0..n :
             g[i] = IF i = 0 THEN byte ELSE (g[i - 1] + digits[i] * Base) \div Alphabet
    BY <1>n, <1>2, <1>3, <2>1 DEF Loop
  <2> QED BY <2>2
<1> DEFINE f == CHOOSE h : h = F(h)
           r == CHOOSE h : h = [i \in 0..Len(digits) |->
                      IF i = 0 THEN byte ELSE (h[i - 1] + digits[i] * Base) \div Alphabet]
<1>6. Absorbed(digits, byte) =
        [i \in 1..n |-> (f[i - 1] + digits[i] * Base) % Alphabet] \o Pushed(f[n])
  <2>1. r = f
    BY ONLY <1>0
  <2>2. Absorbed(digits, byte) =
          [i \in DOMAIN digits |-> (r[i - 1] + digits[i] * Base) % Alphabet]
            \o Pushed(r[Len(digits)])
    BY DEF Absorbed
  <2>3. DOMAIN digits = 1..n /\ Len(digits) = n
    BY ONLY <1>0, <1>n
  <2> HIDE DEF r, f
  <2> QED BY ONLY <2>1, <2>2, <2>3
<1>7. f = F(f)
  <2> HIDE DEF F
  <2> QED BY <1>4, Zenon
<1> HIDE DEF f
<1>8. f[0] = byte /\ \A i \in 1..n : f[i] = (f[i - 1] + digits[i] * Base) \div Alphabet
  <2>1. 0 \in 0..n /\ \A i \in 1..n : i \in 0..n /\ i # 0
    BY <1>n
  <2> QED BY <1>7, <2>1
<1>9. f \in [0..n -> Nat]
  <2> DEFINE T == {i \in 0..n : f[i] \notin Nat}
  <2>1. ASSUME T # {} PROVE FALSE
    <3>1. PICK m \in T : m = 0 \/ (m - 1 \in Nat /\ m - 1 \notin T)
      <4>1. T \in SUBSET Nat
        OBVIOUS
      <4> HIDE DEF T
      <4> QED BY <2>1, <4>1, FirstNumber, Zenon
    <3>2. m # 0 /\ m \in 1..n /\ f[m - 1] \in Nat
      <4>1. m \in 0..n /\ f[m] \notin Nat /\ (m = 0 \/ (m - 1 \in Nat /\ (m - 1 \notin 0..n \/ f[m - 1] \in Nat)))
        BY ONLY <3>1
      <4> QED BY ONLY <1>8, <1>b, <1>n, <4>1
    <3>3. f[m] \in Nat
      BY <1>8, <1>d, <3>2
    <3> QED BY <3>1, <3>3
  <2> QED BY <1>7, <2>1
<1> QED BY ONLY <1>0, <1>6, <1>8, <1>9


LEMMA SequencesJoined ==
  ASSUME NEW S, NEW s \in Seq(S), NEW t \in Seq(S)
  PROVE  /\ s \o t \in Seq(S) /\ Len(s \o t) = Len(s) + Len(t)
         /\ \A i \in 1..Len(s) : (s \o t)[i] = s[i]
         /\ \A i \in 1..Len(t) : (s \o t)[Len(s) + i] = t[i]
OBVIOUS

LEMMA Distributes ==
  \A p, q, r \in Nat : (p + q) * r = p * r + q * r /\ (p * q) * r = (p * r) * q
OBVIOUS

LEMMA ProductPositive ==
  \A b, B, f \in Nat : b # 0 /\ B # 0 => b * B + f # 0
<1> TAKE b, B, f \in Nat
<1> HAVE b # 0 /\ B # 0
<1>1. PICK p \in Nat : p = b * B
  OBVIOUS
<1>2. p # 0
  BY <1>1
<1> QED BY <1>1, <1>2

\* One round takes digits that write v to digits that write v * 256 plus the byte.
LEMMA AbsorbedWrites ==
  \A d \in Seq(0..(Alphabet - 1)) : \A byte \in Byte : \A v \in Nat :
    Writes(d, Alphabet, v) =>
      /\ Absorbed(d, byte) \in Seq(0..(Alphabet - 1))
      /\ Writes(Absorbed(d, byte), Alphabet, v * Base + byte)
<1> TAKE d \in Seq(0..(Alphabet - 1))
<1> TAKE byte \in Byte
<1> TAKE v \in Nat
<1> HAVE Writes(d, Alphabet, v)
<1>1. PICK n \in Nat : n = Len(d)
  OBVIOUS
<1>2. PICK left \in [0..n -> Nat] :
        /\ left[0] = v /\ left[n] = 0
        /\ \A i \in 1..n : left[i - 1] # 0 /\ left[i - 1] = left[i] * Alphabet + d[i]
  BY <1>1 DEF Writes
<1>3. PICK carry \in [0..n -> Nat] :
        /\ carry[0] = byte
        /\ \A i \in 1..n : carry[i] = (carry[i - 1] + d[i] * Base) \div Alphabet
        /\ Absorbed(d, byte) =
             [i \in 1..n |-> (carry[i - 1] + d[i] * Base) % Alphabet] \o Pushed(carry[n])
  BY <1>1, CarryLoop
<1>4. PICK p : p = Pushed(carry[n])
  OBVIOUS
<1>5. p \in Seq(0..(Alphabet - 1)) /\ Writes(p, Alphabet, carry[n])
  <2>1. carry[n] \in Nat /\ Alphabet \in Nat \ {0, 1}
    BY AlphabetAssumption
  <2> QED BY <1>4, <2>1, DigitsWrite DEF Pushed
<1>6. PICK l \in Nat : l = Len(p)
  BY <1>5
<1>7. PICK rest \in [0..l -> Nat] :
        /\ rest[0] = carry[n] /\ rest[l] = 0
        /\ \A i \in 1..l : rest[i - 1] # 0 /\ rest[i - 1] = rest[i] * Alphabet + p[i]
  BY <1>5, <1>6 DEF Writes
<1>8. PICK e : e = [i \in 1..n |-> (carry[i - 1] + d[i] * Base) % Alphabet]
  OBVIOUS
<1>9. Alphabet \in Nat \ {0} /\ Base \in Nat /\ Base # 0 /\ byte \in Nat
      /\ \A i \in 1..n : d[i] \in Nat /\ i \in 0..n /\ i - 1 \in 0..n
  BY <1>1, AlphabetAssumption, BaseAssumption DEF Byte
<1>10. \A i \in 1..n : \E y \in Nat : y = carry[i - 1] + d[i] * Base
  <2> TAKE i \in 1..n
  <2>1. carry[i - 1] \in Nat /\ d[i] \in Nat /\ Base \in Nat
    BY <1>3, <1>9
  <2> QED BY ONLY <2>1, NatClosed
<1>11. \A i \in 1..n : /\ e[i] \in 0..(Alphabet - 1)
                       /\ carry[i - 1] + d[i] * Base = carry[i] * Alphabet + e[i]
  <2> TAKE i \in 1..n
  <2>1. PICK y \in Nat : y = carry[i - 1] + d[i] * Base
    BY <1>10
  <2>2. carry[i] = y \div Alphabet /\ e[i] = y % Alphabet
    BY ONLY <1>3, <1>8, <2>1
  <2>3. y = (y \div Alphabet) * Alphabet + (y % Alphabet) /\ y % Alphabet \in 0..(Alphabet - 1)
    BY ONLY <1>9, <2>1, Division
  <2> QED BY ONLY <2>1, <2>2, <2>3
<1>12. e \in Seq(0..(Alphabet - 1)) /\ Len(e) = n
  <2>1. e \in [1..n -> 0..(Alphabet - 1)]
    BY ONLY <1>8, <1>11
  <2>2. PICK S : S = 0..(Alphabet - 1)
    OBVIOUS
  <2>3. e \in [1..n -> S]
    BY ONLY <2>1, <2>2
  <2>4. e \in Seq(S) /\ Len(e) = n
    BY ONLY <2>3, n \in Nat
  <2> QED BY ONLY <2>2, <2>4
<1>13. PICK x : x = e \o p
  OBVIOUS
<1>14. x \in Seq(0..(Alphabet - 1)) /\ Len(x) = n + l
       /\ (\A i \in 1..n : x[i] = e[i]) /\ \A i \in 1..l : x[n + i] = p[i]
  <2>1. PICK S : S = 0..(Alphabet - 1)
    OBVIOUS
  <2>2. e \in Seq(S) /\ p \in Seq(S)
    BY ONLY <1>5, <1>12, <2>1
  <2>3. x \in Seq(S) /\ Len(x) = n + l
        /\ (\A i \in 1..n : x[i] = e[i]) /\ \A i \in 1..l : x[n + i] = p[i]
    <3>1. /\ e \o p \in Seq(S) /\ Len(e \o p) = Len(e) + Len(p)
          /\ \A i \in 1..Len(e) : (e \o p)[i] = e[i]
          /\ \A i \in 1..Len(p) : (e \o p)[Len(e) + i] = p[i]
      BY <2>2, SequencesJoined
    <3> QED BY ONLY <1>6, <1>12, <1>13, <3>1
  <2> QED BY ONLY <2>1, <2>3
<1>15. Absorbed(d, byte) = x
  BY ONLY <1>3, <1>4, <1>8, <1>13
<1> DEFINE u == [i \in 0..(n + l) |->
                   IF i <= n THEN left[i] * Base + carry[i] ELSE rest[i - n]]
<1>16. u \in [0..(n + l) -> Nat]
  <2> SUFFICES ASSUME NEW i \in 0..(n + l)
               PROVE  (IF i <= n THEN left[i] * Base + carry[i] ELSE rest[i - n]) \in Nat
    OBVIOUS
  <2>1. CASE i <= n
    <3>1. left[i] \in Nat /\ carry[i] \in Nat /\ Base \in Nat
      BY <1>9, <2>1
    <3> QED BY ONLY <2>1, <3>1, NatClosed
  <2>2. CASE ~(i <= n)
    <3>1. i - n \in 0..l
      BY <2>2
    <3> QED BY <2>2, <3>1
  <2> QED BY <2>1, <2>2
<1>17. u[0] = v * Base + byte
  BY <1>2, <1>3
<1>18. u[n] = carry[n] /\ \A i \in 0..l : u[n + i] = rest[i]
  <2>1. u[n] = left[n] * Base + carry[n]
    BY n \in Nat, l \in Nat
  <2>2. u[n] = carry[n]
    BY <1>2, <1>9, <2>1
  <2>3. \A i \in 0..l : i # 0 => u[n + i] = rest[i]
    OBVIOUS
  <2>4. u[n] = rest[0] /\ n + 0 = n
    BY <1>7, <2>2
  <2> HIDE DEF u
  <2>5. \A i \in 0..l : u[n + i] = rest[i]
    BY ONLY <2>3, <2>4
  <2> QED BY ONLY <2>2, <2>5
<1>19. u[n + l] = 0
  <2>1. l \in 0..l
    OBVIOUS
  <2> HIDE DEF u
  <2> QED BY ONLY <1>7, <1>18, <2>1
<1>20. \A i \in 1..n : u[i - 1] # 0 /\ u[i - 1] = u[i] * Alphabet + x[i]
  <2> TAKE i \in 1..n
  <2>1. u[i] = left[i] * Base + carry[i] /\ u[i - 1] = left[i - 1] * Base + carry[i - 1]
    <3>1. PICK j : j = i - 1
      OBVIOUS
    <3>2. i \in 0..(n + l) /\ i <= n /\ j \in 0..(n + l) /\ j <= n
      BY <3>1
    <3>3. u[i] = left[i] * Base + carry[i] /\ u[j] = left[j] * Base + carry[j]
      BY ONLY <3>2
    <3> QED BY ONLY <3>1, <3>3
  <2>2. PICK a, b, c, f, y, B, A \in Nat :
          /\ a = left[i] /\ b = left[i - 1] /\ c = carry[i] /\ f = carry[i - 1] /\ y = d[i]
          /\ B = Base /\ A = Alphabet
    BY <1>2, <1>3, <1>9
  <2>3. PICK z \in Nat : z = e[i]
    <3>1. \A m \in 0..(Alphabet - 1) : m \in Nat
      OBVIOUS
    <3>2. e[i] \in 0..(Alphabet - 1)
      BY ONLY <1>11, i \in 1..n
    <3> QED BY ONLY <3>1, <3>2
  <2>4. b # 0 /\ b = a * A + y /\ f + y * B = c * A + z /\ B # 0
    BY ONLY <1>2, <1>9, <1>11, <2>2, <2>3
  <2>5. b * B + f # 0
    BY ONLY <2>2, <2>4, ProductPositive
  <2>6. b * B + f = (a * B + c) * A + z
    <3>1. PICK g, q, r, s \in Nat : g = a * A /\ q = g * B /\ r = a * B /\ s = r * A
      OBVIOUS
    <3>2. PICK t, w \in Nat : t = y * B /\ w = c * A
      OBVIOUS
    <3>3. q = s
      BY ONLY <3>1, a \in Nat, A \in Nat, B \in Nat, Distributes
    <3>4. b = g + y /\ (g + y) * B = q + t
      BY ONLY <2>4, <3>1, <3>2, y \in Nat, B \in Nat, Distributes
    <3>5. (r + c) * A = s + w
      BY ONLY <3>1, <3>2, c \in Nat, A \in Nat, Distributes
    <3>6. f + t = w + z
      BY ONLY <2>4, <3>2
    <3> QED BY ONLY <3>1, <3>2, <3>3, <3>4, <3>5, <3>6, f \in Nat, z \in Nat
  <2>7. x[i] = z
    BY ONLY <1>14, <2>3, i \in 1..n
  <2>8. PICK g, h : g = b * B + f /\ h = a * B + c
    OBVIOUS
  <2>9. u[i - 1] = g /\ u[i] = h
    BY ONLY <2>1, <2>2, <2>8
  <2>10. g # 0 /\ g = h * A + z
    BY ONLY <2>5, <2>6, <2>8
  <2> HIDE DEF u
  <2> QED BY ONLY <2>2, <2>7, <2>9, <2>10
<1>21. \A i \in 1..l : u[n + i - 1] # 0 /\ u[n + i - 1] = u[n + i] * Alphabet + x[n + i]
  <2> TAKE i \in 1..l
  <2>1. i - 1 \in 0..l /\ i \in 0..l /\ n + (i - 1) = n + i - 1
    OBVIOUS
  <2> HIDE DEF u
  <2>2. u[n + i - 1] = rest[i - 1] /\ u[n + i] = rest[i]
    <3>1. u[n + (i - 1)] = rest[i - 1] /\ u[n + i] = rest[i]
      BY ONLY <1>18, <2>1
    <3> QED BY ONLY <2>1, <3>1
  <2>3. rest[i - 1] # 0 /\ rest[i - 1] = rest[i] * Alphabet + p[i] /\ x[n + i] = p[i]
    BY ONLY <1>7, <1>14, i \in 1..l
  <2> QED BY ONLY <2>2, <2>3
<1>22. \A i \in 1..(n + l) : u[i - 1] # 0 /\ u[i - 1] = u[i] * Alphabet + x[i]
  <2> TAKE i \in 1..(n + l)
  <2>1. CASE i <= n
    <3>1. i \in 1..n
      BY <2>1
    <3> QED BY ONLY <1>20, <3>1
  <2>2. CASE ~(i <= n)
    <3>1. PICK k \in 1..l : i = n + k
      BY <2>2
    <3>2. i - 1 = n + k - 1
      BY <3>1
    <3> HIDE DEF u
    <3> QED BY ONLY <1>21, <3>1, <3>2
  <2> QED BY <2>1, <2>2
<1>23. Writes(x, Alphabet, v * Base + byte)
  <2>1. PICK m : m = n + l
    OBVIOUS
  <2>2. PICK r : r = u
    OBVIOUS
  <2> HIDE DEF u
  <2>3. /\ r \in [0..m -> Nat] /\ r[0] = v * Base + byte /\ r[m] = 0 /\ Len(x) = m
        /\ \A i \in 1..m : r[i - 1] # 0 /\ r[i - 1] = r[i] * Alphabet + x[i]
    BY ONLY <1>14, <1>16, <1>17, <1>19, <1>22, <2>1, <2>2
  <2> QED BY ONLY <2>3 DEF Writes
<1> QED BY ONLY <1>14, <1>15, <1>23


\* After the last byte, base58btcEncode has digits that write the number of the bytes.
LEMMA Base58Digits ==
  \A b \in Bytes : \E d \in Seq(0..(Alphabet - 1)) :
    /\ Writes(d, Alphabet, FromBe(b))
    /\ Base58btcEncode(b) =
         Zeros(LeadingZeros(b)) \o [i \in 1..Len(d) |-> d[Len(d) + 1 - i]]
<1> TAKE b \in Bytes
<1>0. PICK n, S : n = Len(b) /\ S = Seq(0..(Alphabet - 1))
  OBVIOUS
<1>n. n \in Nat /\ \A i \in 1..n : b[i] \in Byte
  BY <1>0 DEF Bytes
<1>1. <<>> \in S /\ Writes(<<>>, Alphabet, 0)
  <2>1. PICK left : left = [i \in 0..0 |-> 0]
    OBVIOUS
  <2>2. left \in [0..0 -> Nat] /\ left[0] = 0 /\ Len(<<>>) = 0
    BY <2>1
  <2>3. \A i \in 1..0 : left[i - 1] # 0 /\ left[i - 1] = left[i] * Alphabet + <<>>[i]
    OBVIOUS
  <2>4. Writes(<<>>, Alphabet, 0)
    BY ONLY <2>2, <2>3 DEF Writes
  <2> QED BY <1>0, <2>4
<1>2. PICK taken \in [0..n -> Nat] :
        /\ taken[0] = 0 /\ FromBe(b) = taken[n]
        /\ \A i \in 1..n : taken[i] = taken[i - 1] * Base + b[i]
  BY <1>0, FromBeLoop
<1> DEFINE X == {d \in S : \E v \in Nat : Writes(d, Alphabet, v)}
           step == [p \in (1..n) \X X |-> Absorbed(p[2], b[p[1]])]
           F(f) == [i \in 0..n |-> IF i = 0 THEN <<>> ELSE Absorbed(f[i - 1], b[i])]
<1>3. \A d \in X : \A byte \in Byte : Absorbed(d, byte) \in X
  <2> TAKE d \in X
  <2> TAKE byte \in Byte
  <2>1. PICK v \in Nat : Writes(d, Alphabet, v)
    OBVIOUS
  <2>2. d \in Seq(0..(Alphabet - 1))
    BY <1>0
  <2>3. /\ Absorbed(d, byte) \in Seq(0..(Alphabet - 1))
        /\ Writes(Absorbed(d, byte), Alphabet, v * Base + byte)
    BY ONLY <2>1, <2>2, byte \in Byte, v \in Nat, AbsorbedWrites, Zenon
  <2>4. v * Base + byte \in Nat
    <3>1. Base \in Nat /\ byte \in Nat
      BY BaseAssumption DEF Byte
    <3> QED BY ONLY <3>1, v \in Nat, NatClosed
  <2> QED BY <1>0, <2>3, <2>4
<1>4. step \in [(1..n) \X X -> X]
  <2> HIDE DEF X
  <2> QED BY <1>n, <1>3
<1>5. <<>> \in X
  BY <1>1
<1>6. PICK g : g \in Loop(n, X, <<>>, step)
  <2> HIDE DEF step, X
  <2>1. Loop(n, X, <<>>, step) # {}
    BY <1>4, <1>5, <1>n, LoopRuns, Zenon
  <2> QED BY <2>1
<1>7. g \in [0..n -> X] /\ \A i \in 0..n : g[i] = IF i = 0 THEN <<>> ELSE step[<<i, g[i - 1]>>]
  <2> HIDE DEF step, X
  <2> QED BY <1>6 DEF Loop
<1>8. \A i \in 1..n : step[<<i, g[i - 1]>>] = Absorbed(g[i - 1], b[i])
  <2> HIDE DEF X
  <2>1. \A i \in 1..n : <<i, g[i - 1]>> \in (1..n) \X X
    BY <1>n, <1>7
  <2> QED BY <2>1
<1>9. g = F(g)
  <2> HIDE DEF step, X
  <2>1. \A i \in 0..n : i # 0 => i \in 1..n
    OBVIOUS
  <2>2. g \in [0..n -> X] /\ \A i \in 0..n : g[i] = IF i = 0 THEN <<>> ELSE Absorbed(g[i - 1], b[i])
    BY ONLY <1>7, <1>8, <2>1
  <2> QED BY ONLY <2>2
<1> DEFINE f == CHOOSE h : h = F(h)
           r == CHOOSE h : h = [i \in 0..Len(b) |-> IF i = 0 THEN <<>> ELSE Absorbed(h[i - 1], b[i])]
<1>10. r = f
  BY ONLY <1>0
<1>11. Base58btcEncode(b) =
         Zeros(LeadingZeros(b)) \o [i \in DOMAIN r[Len(b)] |-> r[Len(b)][Len(r[Len(b)]) + 1 - i]]
  BY DEF Base58btcEncode
<1>12. f = F(f)
  <2> HIDE DEF F
  <2> QED BY <1>9, Zenon
<1> HIDE DEF f, r
<1>13. f[0] = <<>> /\ \A i \in 1..n : f[i] = Absorbed(f[i - 1], b[i])
  <2>1. 0 \in 0..n /\ \A i \in 1..n : i \in 0..n /\ i # 0
    BY <1>n
  <2> QED BY <1>12, <2>1
<1> DEFINE T == {i \in 0..n : ~(f[i] \in S /\ Writes(f[i], Alphabet, taken[i]))}
<1>14. ASSUME T # {} PROVE FALSE
  <2>1. PICK m \in T : m = 0 \/ (m - 1 \in Nat /\ m - 1 \notin T)
    <3>1. T \in SUBSET Nat
      OBVIOUS
    <3> HIDE DEF T
    <3> QED BY <1>14, <3>1, FirstNumber, Zenon
  <2>2. m # 0
    BY <1>1, <1>2, <1>13, <2>1
  <2>3. m \in 1..n /\ m - 1 \in 0..n
    <3>1. m \in 0..n
      BY <2>1
    <3> QED BY ONLY <1>n, <2>2, <3>1
  <2>4. f[m - 1] \in S /\ Writes(f[m - 1], Alphabet, taken[m - 1])
    BY <2>1, <2>2, <2>3
  <2>5. PICK d, v : d = f[m - 1] /\ v = taken[m - 1]
    OBVIOUS
  <2>6. PICK byte \in Byte : byte = b[m]
    BY <1>n, <2>3
  <2>7. d \in Seq(0..(Alphabet - 1)) /\ v \in Nat /\ Writes(d, Alphabet, v)
    BY ONLY <1>0, <1>2, <2>3, <2>4, <2>5
  <2>8. /\ Absorbed(d, byte) \in Seq(0..(Alphabet - 1))
        /\ Writes(Absorbed(d, byte), Alphabet, v * Base + byte)
    BY ONLY <2>7, byte \in Byte, AbsorbedWrites, Zenon
  <2>9. f[m] = Absorbed(d, byte) /\ taken[m] = v * Base + byte
    BY ONLY <1>2, <1>13, <2>3, <2>5, <2>6
  <2>10. f[m] \in S /\ Writes(f[m], Alphabet, taken[m])
    BY ONLY <1>0, <2>8, <2>9, Zenon
  <2> QED BY <2>1, <2>10
<1>15. f[n] \in S /\ Writes(f[n], Alphabet, taken[n])
  BY <1>n, <1>14
<1>16. PICK d : d = f[n]
  OBVIOUS
<1>17. d \in Seq(0..(Alphabet - 1)) /\ Writes(d, Alphabet, FromBe(b))
  BY ONLY <1>0, <1>2, <1>15, <1>16
<1>18. DOMAIN d = 1..Len(d)
  BY <1>17
<1>19. d = r[Len(b)]
  BY ONLY <1>0, <1>10, <1>16
<1>20. Base58btcEncode(b) =
         Zeros(LeadingZeros(b)) \o [i \in DOMAIN d |-> d[Len(d) + 1 - i]]
  BY ONLY <1>11, <1>19
<1>21. Base58btcEncode(b) =
         Zeros(LeadingZeros(b)) \o [i \in 1..Len(d) |-> d[Len(d) + 1 - i]]
  BY ONLY <1>18, <1>20
<1> QED BY ONLY <1>17, <1>21, Zenon

LEMMA LeadingZerosNat ==
  \A b \in Bytes : LeadingZeros(b) \in Nat
<1> TAKE b \in Bytes
<1>1. PICK n : n = Len(b)
  OBVIOUS
<1>2. n \in Nat /\ DOMAIN b = 1..n
  BY <1>1, BytesTyped
<1>3. CASE \A i \in DOMAIN b : b[i] = 0
  BY <1>1, <1>2, <1>3 DEF LeadingZeros
<1>4. CASE \E i \in DOMAIN b : b[i] # 0
  <2> DEFINE Z == {i \in 1..n : b[i] # 0}
  <2>1. Z # {} /\ Z \in SUBSET Nat
    BY <1>2, <1>4
  <2>2. PICK k \in Z : \A j \in Z : k <= j
    <3> HIDE DEF Z
    <3> QED BY <2>1, LeastNumber
  <2>3. k \in DOMAIN b /\ b[k] # 0 /\ \A j \in 1..(k - 1) : b[j] = 0
    BY <1>2, <2>2
  <2>4. PICK c : c = CHOOSE i \in DOMAIN b : b[i] # 0 /\ \A j \in 1..(i - 1) : b[j] = 0
    OBVIOUS
  <2>5. c \in DOMAIN b
    BY <2>3, <2>4
  <2>6. LeadingZeros(b) = c - 1
    BY <1>4, <2>4 DEF LeadingZeros
  <2> QED BY ONLY <1>2, <2>5, <2>6
<1> QED BY <1>3, <1>4

\* What follows zeros and does not begin with one is told from them.
LEMMA LeadingZerosOf ==
  \A z, l \in Nat : \A t :
    /\ Len(t) = z + l /\ DOMAIN t = 1..(z + l)
    /\ \A i \in 1..z : t[i] = 0
    /\ l # 0 => t[z + 1] # 0
    => LeadingZeros(t) = z
<1> TAKE z, l \in Nat
<1> TAKE t
<1> HAVE /\ Len(t) = z + l /\ DOMAIN t = 1..(z + l)
         /\ \A i \in 1..z : t[i] = 0
         /\ l # 0 => t[z + 1] # 0
<1>1. CASE l = 0
  <2>1. DOMAIN t = 1..z /\ Len(t) = z
    BY <1>1
  <2> QED BY ONLY <2>1, \A i \in 1..z : t[i] = 0 DEF LeadingZeros
<1>2. CASE l # 0
  <2>1. z + 1 \in DOMAIN t /\ t[z + 1] # 0 /\ \A j \in 1..(z + 1 - 1) : t[j] = 0
    BY <1>2
  <2>2. \A i \in DOMAIN t : t[i] # 0 /\ (\A j \in 1..(i - 1) : t[j] = 0) => i = z + 1
    <3> TAKE i \in DOMAIN t
    <3> HAVE t[i] # 0 /\ \A j \in 1..(i - 1) : t[j] = 0
    <3>1. i \in 1..(z + l) /\ i \notin 1..z
      OBVIOUS
    <3>2. z + 1 \notin 1..(i - 1)
      BY <1>2
    <3> QED BY <3>1, <3>2
  <2>3. PICK c : c = CHOOSE i \in DOMAIN t : t[i] # 0 /\ \A j \in 1..(i - 1) : t[j] = 0
    OBVIOUS
  <2>4. c = z + 1
    BY ONLY <2>1, <2>2, <2>3
  <2>5. LeadingZeros(t) = c - 1
    BY <2>1, <2>3 DEF LeadingZeros
  <2> QED BY ONLY <2>4, <2>5, z \in Nat
<1> QED BY <1>1, <1>2

\* base58btcEncode (src/app.ts): the text writes the number of the key, with one
\* mark for each leading zero of the key: no two keys have the same did:key.
THEOREM Base58KeepsNumber ==
  \A b \in Bytes : /\ Base58Value(Base58btcEncode(b)) = FromBe(b)
                   /\ LeadingZeros(Base58btcEncode(b)) = LeadingZeros(b)
<1> TAKE b \in Bytes
<1>1. PICK S : S = 0..(Alphabet - 1)
  OBVIOUS
<1>a. 0 \in S /\ S \subseteq Nat
  BY <1>1, AlphabetAssumption
<1>2. PICK d \in Seq(S) :
        /\ Writes(d, Alphabet, FromBe(b))
        /\ Base58btcEncode(b) =
             Zeros(LeadingZeros(b)) \o [i \in 1..Len(d) |-> d[Len(d) + 1 - i]]
  BY <1>1, Base58Digits
<1>3. PICK z \in Nat : z = LeadingZeros(b)
  BY LeadingZerosNat
<1>4. PICK l \in Nat : l = Len(d)
  OBVIOUS
<1>5. PICK v, left : v = FromBe(b) /\ left \in [0..l -> Nat]
        /\ left[0] = v /\ left[l] = 0
        /\ \A i \in 1..l : left[i - 1] # 0 /\ left[i - 1] = left[i] * Alphabet + d[i]
  BY <1>2, <1>4 DEF Writes
<1>6. PICK h, e : h = Zeros(z) /\ e = [i \in 1..l |-> d[l + 1 - i]]
  OBVIOUS
<1>7. h \in Seq(S) /\ Len(h) = z /\ \A i \in 1..z : h[i] = 0
  <2>1. h = [i \in 1..z |-> 0]
    BY ONLY <1>6 DEF Zeros
  <2>2. h \in [1..z -> S]
    BY ONLY <1>a, <2>1
  <2> QED BY ONLY <2>1, <2>2, z \in Nat
<1>8. e \in Seq(S) /\ Len(e) = l /\ \A i \in 1..l : e[i] = d[l + 1 - i]
  <2>1. \A i \in 1..l : l + 1 - i \in 1..l
    OBVIOUS
  <2>2. \A i \in 1..l : d[i] \in S
    BY ONLY <1>4, d \in Seq(S)
  <2>3. e \in [1..l -> S]
    BY ONLY <1>6, <2>1, <2>2
  <2> QED BY ONLY <1>6, <2>3, l \in Nat
<1>9. PICK t : t = h \o e
  OBVIOUS
<1>10. Base58btcEncode(b) = t
  BY ONLY <1>2, <1>3, <1>4, <1>6, <1>9
<1>11. /\ t \in Seq(S) /\ Len(t) = z + l /\ (\A i \in 1..z : t[i] = 0)
       /\ \A i \in 1..l : t[z + i] = d[l + 1 - i]
  <2>1. /\ t \in Seq(S) /\ Len(t) = z + l /\ (\A i \in 1..z : t[i] = h[i])
        /\ \A i \in 1..l : t[z + i] = e[i]
    <3>1. h \in Seq(S) /\ e \in Seq(S)
      BY ONLY <1>7, <1>8
    <3>2. /\ h \o e \in Seq(S) /\ Len(h \o e) = Len(h) + Len(e)
          /\ \A i \in 1..Len(h) : (h \o e)[i] = h[i]
          /\ \A i \in 1..Len(e) : (h \o e)[Len(h) + i] = e[i]
      BY ONLY <3>1, SequencesJoined
    <3> QED BY ONLY <1>7, <1>8, <1>9, <3>2
  <2> QED BY ONLY <1>7, <1>8, <2>1
<1>12. l # 0 => t[z + 1] # 0
  <2> HAVE l # 0
  <2>1. 1 \in 1..l /\ l \in 1..l /\ l + 1 - 1 = l
    OBVIOUS
  <2>2. t[z + 1] = d[l]
    BY ONLY <1>11, <2>1
  <2>3. left[l - 1] # 0 /\ left[l - 1] = left[l] * Alphabet + d[l] /\ left[l] = 0
    BY ONLY <1>5, <2>1
  <2>4. d[l] # 0
    BY <2>3, AlphabetAssumption
  <2> QED BY ONLY <2>2, <2>4
<1>13. LeadingZeros(t) = z
  <2>1. DOMAIN t = 1..(z + l)
    <3>1. DOMAIN t = 1..Len(t)
      BY ONLY <1>11
    <3> QED BY ONLY <1>11, <3>1
  <2> QED BY ONLY <1>11, <1>12, <2>1, z \in Nat, l \in Nat, LeadingZerosOf
<1>14. PICK sum \in [0..(z + l) -> Nat] :
         /\ sum[0] = 0 /\ Base58Value(t) = sum[z + l]
         /\ \A i \in 1..(z + l) : sum[i] = sum[i - 1] * Alphabet + t[i]
  <2>1. t \in Seq(0..(Alphabet - 1))
    BY ONLY <1>1, <1>11
  <2>2. \E sum \in [0..Len(t) -> Nat] :
          /\ sum[0] = 0 /\ Base58Value(t) = sum[Len(t)]
          /\ \A i \in 1..Len(t) : sum[i] = sum[i - 1] * Alphabet + t[i]
    BY ONLY <2>1, Base58ValueLoop
  <2> QED BY ONLY <1>11, <2>2
<1> DEFINE T == {k \in 0..(z + l) : sum[k] # IF k <= z THEN 0 ELSE left[z + l - k]}
<1>15. ASSUME T # {} PROVE FALSE
  <2>1. PICK m \in T : m = 0 \/ (m - 1 \in Nat /\ m - 1 \notin T)
    <3>1. T \in SUBSET Nat
      OBVIOUS
    <3> HIDE DEF T
    <3> QED BY <1>15, <3>1, FirstNumber, Zenon
  <2>2. m # 0
    BY <1>14, <2>1
  <2>3. m \in 1..(z + l) /\ m - 1 \in 0..(z + l)
    BY <2>1, <2>2
  <2>4. sum[m] = sum[m - 1] * Alphabet + t[m]
    BY ONLY <1>14, <2>3
  <2>5. sum[m - 1] = IF m - 1 <= z THEN 0 ELSE left[z + l - (m - 1)]
    BY <2>1, <2>3
  <2>6. CASE m <= z
    <3>1. m \in 1..z /\ m - 1 <= z
      BY <2>3, <2>6
    <3>2. t[m] = 0 /\ sum[m - 1] = 0
      BY ONLY <1>11, <2>5, <3>1
    <3>3. sum[m] = 0
      BY <2>4, <3>2, AlphabetAssumption
    <3> QED BY <2>1, <2>6, <3>3
  <2>7. CASE ~(m <= z)
    <3>1. PICK k \in 1..l : m = z + k
      BY <2>3, <2>7
    <3>2. PICK i \in 1..l : i = l + 1 - k
      OBVIOUS
    <3>3. t[m] = d[i]
      BY ONLY <1>11, <3>1, <3>2
    <3>4. z + l - m = i - 1 /\ z + l - (m - 1) = i
      BY <3>1, <3>2
    <3>5. sum[m - 1] = left[i]
      <4>1. CASE m - 1 <= z
        <5>1. i = l
          BY <3>1, <3>2, <4>1
        <5> QED BY ONLY <1>5, <2>5, <4>1, <5>1
      <4>2. CASE ~(m - 1 <= z)
        BY ONLY <2>5, <3>4, <4>2
      <4> QED BY ONLY <4>1, <4>2
    <3>6. left[i - 1] = left[i] * Alphabet + d[i]
      BY ONLY <1>5, i \in 1..l
    <3>7. sum[m] = left[z + l - m]
      BY ONLY <2>4, <3>3, <3>4, <3>5, <3>6
    <3> QED BY <2>1, <2>7, <3>7
  <2> QED BY ONLY <2>6, <2>7
<1>16. sum[z + l] = v
  <2>1. z + l \in 0..(z + l) /\ z + l - (z + l) = 0
    OBVIOUS
  <2>2. sum[z + l] = IF z + l <= z THEN 0 ELSE left[z + l - (z + l)]
    BY <1>15, <2>1
  <2>3. z + l <= z => l = 0
    OBVIOUS
  <2>4. l = 0 => v = 0
    BY ONLY <1>5
  <2> QED BY ONLY <1>5, <2>1, <2>2, <2>3, <2>4
<1> QED BY ONLY <1>3, <1>5, <1>10, <1>13, <1>14, <1>16

-----------------------------------------------------------------------------
(***************************************************************************)
(* Transfers                                                               *)
(***************************************************************************)
LEMMA SplitsJoined ==
  ASSUME NEW p, NEW q, Splits(p, q), NEW a, NEW b, Splits(a, b)
  PROVE  /\ Splits(p \o a, q \o b)
         /\ p \o a = q \o b => p = q /\ a = b
<1>1. p \in Bytes /\ q \in Bytes /\ a \in Bytes /\ b \in Bytes
  BY DEF Splits
<1>2. p \o a = q \o b => p = q /\ a = b
  BY <1>1 DEF Splits
<1>3. /\ \A x \in Bytes : (p \o a) \o x = p \o (a \o x)
      /\ \A y \in Bytes : (q \o b) \o y = q \o (b \o y)
  <2>1. /\ \A x \in Bytes : Regroups(p, a, x)
        /\ \A y \in Bytes : Regroups(q, b, y)
    BY <1>1, JoinedAssociative
  <2> QED BY ONLY <2>1 DEF Regroups
<1>4. \A x, y \in Bytes : a \o x = b \o y => a = b /\ x = y
  BY DEF Splits
<1>5. ASSUME NEW x \in Bytes, NEW y \in Bytes, (p \o a) \o x = (q \o b) \o y
      PROVE  p \o a = q \o b /\ x = y
  <2>1. p \o (a \o x) = q \o (b \o y)
    BY <1>3, <1>5
  <2>2. a \o x \in Bytes /\ b \o y \in Bytes
    BY <1>1, JoinedPositions
  <2>3. p = q /\ a \o x = b \o y
    BY <2>1, <2>2 DEF Splits
  <2>4. a = b /\ x = y
    BY <1>4, <2>3
  <2> QED
    BY <2>3, <2>4
<1>6. p \o a \in Bytes /\ q \o b \in Bytes
  BY <1>1, JoinedPositions
<1> QED
  BY <1>2, <1>5, <1>6 DEF Splits

\* Texts without a brace, each before one.
LEMMA SplitsBrace ==
  \A e, f \in Bytes :
    (\A i \in 1..Len(e) : e[i] # Brace) /\ (\A i \in 1..Len(f) : f[i] # Brace)
      => Splits(e \o <<Brace>>, f \o <<Brace>>) /\ (e \o <<Brace>> = f \o <<Brace>> => e = f)
<1>1. PICK b : b = <<Brace>>
  OBVIOUS
<1>2. b \in Bytes /\ Len(b) = 1 /\ b[1] = Brace
  BY <1>1, BaseAssumption DEF Brace, Bytes, Byte
<1>3. ASSUME NEW e \in Bytes, NEW f \in Bytes, NEW x \in Bytes, NEW y \in Bytes,
             (e \o b) \o x = (f \o b) \o y,
             \A i \in 1..Len(f) : f[i] # Brace
      PROVE  ~(Len(e) < Len(f))
  <2> SUFFICES ASSUME Len(e) < Len(f) PROVE FALSE
    OBVIOUS
  <2>1. PICK m, n : m = Len(e) /\ n = Len(f)
    OBVIOUS
  <2>2. m \in Nat /\ n \in Nat /\ m < n
    BY <2>1, BytesTyped
  <2>3. PICK u, v : u = e \o b /\ v = f \o b
    OBVIOUS
  <2>4. u \in Bytes /\ v \in Bytes /\ Len(u) = m + 1 /\ Len(v) = n + 1
    <3>1. e \o b \in Bytes /\ f \o b \in Bytes
      BY <1>2, JoinedBytes
    <3>2. Len(e \o b) = Len(e) + Len(b) /\ Len(f \o b) = Len(f) + Len(b)
      BY <1>2, JoinedLength
    <3> QED BY ONLY <1>2, <2>1, <2>3, <3>1, <3>2
  <2>5. u[m + 1] = Brace
    <3>1. \A i \in 1..Len(b) : (e \o b)[Len(e) + i] = b[i]
      BY <1>2, JoinedPositions
    <3>2. 1 \in 1..Len(b)
      BY <1>2
    <3>3. (e \o b)[Len(e) + 1] = b[1]
      BY ONLY <3>1, <3>2
    <3> QED BY ONLY <1>2, <2>1, <2>3, <3>3
  <2>6. v[m + 1] = f[m + 1] /\ m + 1 \in 1..n
    <3>1. \A i \in 1..Len(f) : (f \o b)[i] = f[i]
      BY <1>2, JoinedPositions
    <3>2. m + 1 \in 1..n
      BY <2>2
    <3> QED BY ONLY <2>1, <2>3, <3>1, <3>2
  <2>7. PICK w : w = u \o x /\ w = v \o y
    BY <1>3, <2>3
  <2>8. w[m + 1] = u[m + 1]
    <3>1. \A i \in 1..Len(u) : (u \o x)[i] = u[i]
      BY <2>4, JoinedPositions
    <3>2. m + 1 \in 1..Len(u)
      BY <2>2, <2>4
    <3> QED BY ONLY <2>7, <3>1, <3>2
  <2>9. w[m + 1] = v[m + 1]
    <3>1. \A i \in 1..Len(v) : (v \o y)[i] = v[i]
      BY <2>4, JoinedPositions
    <3>2. m + 1 \in 1..Len(v)
      BY <2>2, <2>4
    <3> QED BY ONLY <2>7, <3>1, <3>2
  <2>10. f[m + 1] = Brace
    BY ONLY <2>5, <2>6, <2>8, <2>9
  <2> QED BY <1>3, <2>1, <2>6, <2>10
<1> TAKE e, f \in Bytes
<1> HAVE (\A i \in 1..Len(e) : e[i] # Brace) /\ (\A i \in 1..Len(f) : f[i] # Brace)
<1>4. e \o b \in Bytes /\ f \o b \in Bytes
  BY <1>2, JoinedBytes
<1>5. ASSUME NEW x \in Bytes, NEW y \in Bytes, (e \o b) \o x = (f \o b) \o y
      PROVE  e = f /\ x = y
  <2>1. Len(e) = Len(f)
    <3>1. ~(Len(e) < Len(f)) /\ ~(Len(f) < Len(e))
      BY <1>3, <1>5
    <3>2. Len(e) \in Nat /\ Len(f) \in Nat
      BY BytesTyped
    <3> QED BY ONLY <3>1, <3>2
  <2>2. PICK u, v : u = b \o x /\ v = b \o y
    OBVIOUS
  <2>3. u \in Bytes /\ v \in Bytes
    BY <1>2, <2>2, JoinedBytes
  <2>4. e \o u = f \o v
    <3>1. Regroups(e, b, x) /\ Regroups(f, b, y)
      BY <1>2, JoinedAssociative
    <3>2. (e \o b) \o x = e \o (b \o x) /\ (f \o b) \o y = f \o (b \o y)
      BY ONLY <3>1 DEF Regroups
    <3> QED BY ONLY <1>5, <2>2, <3>2
  <2>5. e = f /\ u = v
    BY ONLY <2>1, <2>3, <2>4, e \in Bytes, f \in Bytes, JoinedInjective, Zenon
  <2>6. x = y
    BY ONLY <1>2, <2>2, <2>5, x \in Bytes, y \in Bytes, JoinedInjective
  <2> QED BY ONLY <2>5, <2>6
<1>6. Splits(e \o b, f \o b)
  BY <1>4, <1>5 DEF Splits
<1>7. e \o b = f \o b => e = f
  <2> HAVE e \o b = f \o b
  <2>1. <<>> \in Bytes
    BY DEF Bytes
  <2>2. (e \o b) \o <<>> = (f \o b) \o <<>>
    OBVIOUS
  <2> QED BY ONLY <1>5, <2>1, <2>2
<1> QED BY ONLY <1>1, <1>6, <1>7

\* The digits of an amount in the order in which they are written.
Numeral(amount) ==
  LET digits == Digits(amount, Base - 1)
  IN  IF amount = 0 THEN <<0>>
      ELSE [i \in DOMAIN digits |-> digits[Len(digits) + 1 - i]]

LEMMA NumeralBytes ==
  \A v \in Nat : /\ Numeral(v) \in Bytes
                 /\ \A i \in 1..Len(Numeral(v)) : Numeral(v)[i] # Brace
                 /\ TxTypeJson(v) = Numeral(v) \o <<Brace>>
<1> TAKE v \in Nat
<1>1. CASE v = 0
  <2>1. Numeral(v) = <<0>> /\ TxTypeJson(v) = <<0, Brace>>
    BY <1>1 DEF Numeral, TxTypeJson
  <2>2. <<0, Brace>> = <<0>> \o <<Brace>>
    OBVIOUS
  <2>3. 0 \in Byte /\ 0 # Brace
    BY BaseAssumption DEF Byte, Brace
  <2> QED BY <2>1, <2>2, <2>3 DEF Bytes
<1>2. CASE v # 0
  <2>1. PICK d : d = Digits(v, Base - 1)
    OBVIOUS
  <2>2. PICK S : S = 0..(Base - 1 - 1)
    OBVIOUS
  <2>3. Base - 1 \in Nat \ {0, 1}
    BY BaseAssumption, DigitsAssumption
  <2>4. d \in Seq(S)
    BY ONLY <2>1, <2>2, <2>3, v \in Nat, DigitsWrite
  <2>5. PICK l \in Nat : l = Len(d) /\ DOMAIN d = 1..l /\ \A i \in 1..l : d[i] \in S
    BY <2>4
  <2>6. PICK e : e = [i \in 1..l |-> d[l + 1 - i]]
    OBVIOUS
  <2>7. \A i \in 1..l : l + 1 - i \in 1..l
    OBVIOUS
  <2>8. e \in [1..l -> S]
    BY ONLY <2>5, <2>6, <2>7
  <2>9. S \subseteq Byte /\ Brace \notin S
    BY <2>2, BaseAssumption DEF Byte, Brace
  <2>10. e \in Bytes /\ Len(e) = l /\ \A i \in 1..l : e[i] # Brace
    <3>1. e \in [1..l -> Byte]
      BY ONLY <2>8, <2>9
    <3> QED BY <2>8, <2>9, <3>1 DEF Bytes
  <2>11. Numeral(v) = [i \in DOMAIN d |-> d[Len(d) + 1 - i]]
    BY <1>2, <2>1 DEF Numeral
  <2>12. TxTypeJson(v) = [i \in DOMAIN d |-> d[Len(d) + 1 - i]] \o <<Brace>>
    BY <1>2, <2>1 DEF TxTypeJson
  <2>13. [i \in DOMAIN d |-> d[Len(d) + 1 - i]] = e
    BY ONLY <2>5, <2>6
  <2> QED BY ONLY <2>10, <2>11, <2>12, <2>13
<1> QED BY <1>1, <1>2

LEMMA NumeralDetermines ==
  \A v, w \in Nat : Numeral(v) = Numeral(w) => v = w
<1>a. Base - 1 \in Nat \ {0, 1}
  BY BaseAssumption, DigitsAssumption
<1>1. \A v \in Nat : v # 0 =>
        \E d : /\ d = Digits(v, Base - 1) /\ d \in Seq(0..(Base - 1 - 1)) /\ Len(d) \in Nat
               /\ Len(Numeral(v)) = Len(d)
               /\ \A i \in 1..Len(d) : d[i] = Numeral(v)[Len(d) + 1 - i]
  <2> TAKE v \in Nat
  <2> HAVE v # 0
  <2>1. PICK d : d = Digits(v, Base - 1)
    OBVIOUS
  <2>2. d \in Seq(0..(Base - 1 - 1))
    BY ONLY <1>a, <2>1, v \in Nat, DigitsWrite
  <2>3. PICK l \in Nat : l = Len(d) /\ DOMAIN d = 1..l
    BY <2>2
  <2>4. Numeral(v) = [i \in DOMAIN d |-> d[Len(d) + 1 - i]]
    BY <2>1 DEF Numeral
  <2>5. Numeral(v) = [i \in 1..l |-> d[l + 1 - i]]
    BY ONLY <2>3, <2>4
  <2>6. Len(Numeral(v)) = l
    BY ONLY <2>5, l \in Nat
  <2>7. \A i \in 1..l : l + 1 - i \in 1..l /\ l + 1 - (l + 1 - i) = i
    OBVIOUS
  <2>8. \A i \in 1..l : d[i] = Numeral(v)[l + 1 - i]
    BY ONLY <2>5, <2>7
  <2> QED BY ONLY <2>1, <2>2, <2>3, <2>6, <2>8
<1>z. PICK zero : zero = <<0>>
  OBVIOUS
<1>2. ASSUME NEW v \in Nat, v # 0 PROVE Numeral(v) # zero
  <2> SUFFICES ASSUME Numeral(v) = zero PROVE FALSE
    OBVIOUS
  <2>0. Len(Numeral(v)) = 1 /\ Numeral(v)[1] = 0
    BY ONLY <1>z, Numeral(v) = zero
  <2>1. PICK d : /\ d = Digits(v, Base - 1) /\ Len(Numeral(v)) = Len(d)
                 /\ \A i \in 1..Len(d) : d[i] = Numeral(v)[Len(d) + 1 - i]
    BY <1>1, <1>2
  <2>2. Len(d) = 1
    BY ONLY <2>0, <2>1
  <2>3. d[1] = 0
    <3>1. 1 \in 1..Len(d) /\ Len(d) + 1 - 1 = 1
      BY ONLY <2>2
    <3>2. d[1] = Numeral(v)[Len(d) + 1 - 1]
      BY ONLY <2>1, <3>1
    <3> QED BY ONLY <2>0, <3>1, <3>2
  <2>4. Writes(d, Base - 1, v)
    BY ONLY <1>a, <2>1, v \in Nat, DigitsWrite
  <2>5. PICK left \in [0..1 -> Nat] : left[1] = 0 /\ left[1 - 1] # 0 /\ left[1 - 1] = left[1] * (Base - 1) + d[1]
    <3>1. 1 \in 1..1
      OBVIOUS
    <3> QED BY ONLY <2>2, <2>4, <3>1 DEF Writes
  <2>6. left[1] * (Base - 1) = 0
    BY <1>a, <2>5
  <2> QED BY ONLY <2>3, <2>5, <2>6
<1> TAKE v, w \in Nat
<1> HAVE Numeral(v) = Numeral(w)
<1>3. CASE v = 0 \/ w = 0
  <2>1. Numeral(0) = zero
    BY <1>z DEF Numeral
  <2>2. v # 0 => Numeral(v) # zero
    BY <1>2
  <2>3. w # 0 => Numeral(w) # zero
    BY <1>2
  <2>4. v = 0 /\ w # 0 => FALSE
    BY ONLY <2>1, <2>3, Numeral(v) = Numeral(w)
  <2>5. w = 0 /\ v # 0 => FALSE
    BY ONLY <2>1, <2>2, Numeral(v) = Numeral(w)
  <2> QED BY ONLY <1>3, <2>4, <2>5
<1>4. CASE v # 0 /\ w # 0
  <2>1. PICK d : /\ d = Digits(v, Base - 1) /\ d \in Seq(0..(Base - 1 - 1)) /\ Len(d) \in Nat
                 /\ Len(Numeral(v)) = Len(d)
                 /\ \A i \in 1..Len(d) : d[i] = Numeral(v)[Len(d) + 1 - i]
    BY <1>1, <1>4
  <2>2. PICK e : /\ e = Digits(w, Base - 1) /\ e \in Seq(0..(Base - 1 - 1)) /\ Len(e) \in Nat
                 /\ Len(Numeral(w)) = Len(e)
                 /\ \A i \in 1..Len(e) : e[i] = Numeral(w)[Len(e) + 1 - i]
    BY <1>1, <1>4
  <2>3. Len(d) = Len(e) /\ \A i \in 1..Len(d) : d[i] = e[i]
    BY ONLY <2>1, <2>2, Numeral(v) = Numeral(w)
  <2>4. d = e
    BY ONLY <2>1, <2>2, <2>3, SeqEqual
  <2>5. PICK k : k = Base - 1
    OBVIOUS
  <2>6. k \in Nat \ {0, 1} /\ Digits(v, k) = Digits(w, k)
    BY ONLY <1>a, <2>1, <2>2, <2>4, <2>5
  <2> QED BY ONLY <2>6, v \in Nat, w \in Nat, DigitsDetermine, Zenon
<1> QED BY <1>3, <1>4

LEMMA SplitsTypeJson ==
  \A v, w \in Nat : /\ Splits(TxTypeJson(v), TxTypeJson(w))
                    /\ TxTypeJson(v) = TxTypeJson(w) => v = w
<1> TAKE v, w \in Nat
<1>1. PICK e, f : e = Numeral(v) /\ f = Numeral(w)
  OBVIOUS
<1>2. /\ e \in Bytes /\ (\A i \in 1..Len(e) : e[i] # Brace) /\ TxTypeJson(v) = e \o <<Brace>>
      /\ f \in Bytes /\ (\A i \in 1..Len(f) : f[i] # Brace) /\ TxTypeJson(w) = f \o <<Brace>>
  BY <1>1, NumeralBytes
<1>3. Splits(e \o <<Brace>>, f \o <<Brace>>) /\ (e \o <<Brace>> = f \o <<Brace>> => e = f)
  BY ONLY <1>2, SplitsBrace, Zenon
<1> QED BY ONLY <1>1, <1>2, <1>3, v \in Nat, w \in Nat, NumeralDetermines


\* A number of 64 bits is known from its bytes.
LEMMA WordDetermines ==
  \A v, w \in U64 : /\ UintLe(v, W64) \in Bytes /\ Len(UintLe(v, W64)) = W64
                    /\ UintLe(v, W64) = UintLe(w, W64) => v = w
<1> TAKE v, w \in U64
<1>1. v \in Nat /\ w \in Nat /\ W64 \in Nat /\ Fits(v, W64) /\ Fits(w, W64)
  BY WidthsAssumption DEF U64
<1>2. UintLe(v, W64) \in Bytes /\ Len(UintLe(v, W64)) = W64
  BY <1>1, UintDigits DEF Fixed
<1>3. FromLe(UintLe(v, W64)) = v /\ FromLe(UintLe(w, W64)) = w
  BY ONLY <1>1, FromLeRestores
<1> QED BY ONLY <1>2, <1>3

\* Two byte strings of one length, and where a cut after them leaves two fronts.
SameLength(a, b) == a \in Bytes /\ b \in Bytes /\ Len(a) = Len(b)
Extends(p, q, a, b) == Splits(p \o a, q \o b) /\ (p \o a = q \o b => p = q /\ a = b)

LEMMA SplitsSameLength ==
  \A p, q, a, b : Splits(p, q) /\ SameLength(a, b) => Extends(p, q, a, b)
<1> TAKE p, q, a, b
<1> HAVE Splits(p, q) /\ SameLength(a, b)
<1>1. a \in Bytes /\ b \in Bytes /\ Len(a) = Len(b)
  BY DEF SameLength
<1> QED BY <1>1, SplitsFixed DEF Extends

LEMMA U32leBytes ==
  \A n \in Nat : U32le(n) \in Bytes /\ Len(U32le(n)) = 4
<1> TAKE n \in Nat
<1>1. PICK m : m = U32be(n)
  OBVIOUS
<1>2. m \in Bytes /\ Len(m) = 4
  BY <1>1, U32Bytes
<1>3. U32le(n) = <<m[4], m[3], m[2], m[1]>>
  BY <1>1 DEF U32le
<1> QED BY <1>2, <1>3, FourReversed

\* transferTxHash (src/wallet.ts): the hash that a transfer signs is over one chain,
\* sender, recipient, nonce, gas, time, amount and hybrid key, though the amount is
\* written in decimal and nothing says how long it is.
THEOREM TransferInjective ==
  ASSUME NEW r \in Transfers, NEW s \in Transfers, TransferPreimage(r) = TransferPreimage(s)
  PROVE  r = s
<1>1. /\ r.chainId \in U64 /\ s.chainId \in U64 /\ r.nonce \in U64 /\ s.nonce \in U64
      /\ r.gasLimit \in U64 /\ s.gasLimit \in U64 /\ r.gasPrice \in U64 /\ s.gasPrice \in U64
      /\ r.timestamp \in U64 /\ s.timestamp \in U64
  BY DEF Transfers
<1>2. PICK a, b, c, d, e, f, g, h, i, j :
        /\ a = UintLe(r.chainId, W64) /\ b = UintLe(s.chainId, W64)
        /\ c = UintLe(r.nonce, W64) /\ d = UintLe(s.nonce, W64)
        /\ e = UintLe(r.gasLimit, W64) /\ f = UintLe(s.gasLimit, W64)
        /\ g = UintLe(r.gasPrice, W64) /\ h = UintLe(s.gasPrice, W64)
        /\ i = UintLe(r.timestamp, W64) /\ j = UintLe(s.timestamp, W64)
  OBVIOUS
<1>w. /\ SameLength(a, b) /\ SameLength(c, d) /\ SameLength(e, f) /\ SameLength(g, h)
      /\ SameLength(i, j)
  <2>1. \A v \in U64 : UintLe(v, W64) \in Bytes /\ Len(UintLe(v, W64)) = W64
    BY WordDetermines
  <2> QED BY ONLY <1>1, <1>2, <2>1 DEF SameLength
<1>d. /\ (a = b => r.chainId = s.chainId) /\ (c = d => r.nonce = s.nonce)
      /\ (e = f => r.gasLimit = s.gasLimit) /\ (g = h => r.gasPrice = s.gasPrice)
      /\ (i = j => r.timestamp = s.timestamp)
  <2>1. \A v, w \in U64 : UintLe(v, W64) = UintLe(w, W64) => v = w
    BY WordDetermines
  <2> QED BY ONLY <1>1, <1>2, <2>1
<1>3. /\ r.from \in Bytes /\ s.from \in Bytes /\ Len(r.from) = Len(s.from)
      /\ r.to \in Bytes /\ s.to \in Bytes /\ Len(r.to) = Len(s.to)
  BY DEF Transfers, Fixed
<1>4. r.amount \in Nat /\ s.amount \in Nat /\ r.pqPublicKey \in Framable /\ s.pqPublicKey \in Framable
  BY DEF Transfers
<1>5. r.pqPublicKey \in Bytes /\ s.pqPublicKey \in Bytes
  BY ONLY <1>4 DEF Framable
<1>6. PICK m, n : m = U32le(Len(r.pqPublicKey)) /\ n = U32le(Len(s.pqPublicKey))
  OBVIOUS
<1>7. m \in Bytes /\ n \in Bytes /\ Len(m) = Len(n)
  <2>1. Len(r.pqPublicKey) \in Nat /\ Len(s.pqPublicKey) \in Nat
    BY <1>5, BytesTyped, Zenon
  <2> QED BY ONLY <1>6, <2>1, U32leBytes
<1> DEFINE p1 == a
           p2 == p1 \o r.from
           p3 == p2 \o r.to
           p4 == p3 \o c
           p5 == p4 \o e
           p6 == p5 \o g
           p7 == p6 \o i
           p8 == p7 \o TxTypeJson(r.amount)
           p9 == p8 \o m
           q1 == b
           q2 == q1 \o s.from
           q3 == q2 \o s.to
           q4 == q3 \o d
           q5 == q4 \o f
           q6 == q5 \o h
           q7 == q6 \o j
           q8 == q7 \o TxTypeJson(s.amount)
           q9 == q8 \o n
<1>8. p9 \o r.pqPublicKey = q9 \o s.pqPublicKey
  BY <1>2, <1>6 DEF TransferPreimage
<1> HIDE DEF p1, p2, p3, p4, p5, p6, p7, p8, p9, q1, q2, q3, q4, q5, q6, q7, q8, q9
<1>9. Splits(p1, q1) /\ (p1 = q1 => a = b)
  <2>1. PICK o : o = <<>>
    OBVIOUS
  <2>2. Splits(o, o) /\ \A x \in Bytes : o \o x = x
    BY <2>1, SplitsNothing
  <2>3. Splits(o \o a, o \o b)
    BY ONLY <1>w, <2>2, SplitsSameLength DEF Extends
  <2>4. a \in Bytes /\ b \in Bytes
    BY ONLY <1>w DEF SameLength
  <2> QED BY ONLY <2>2, <2>3, <2>4 DEF p1, q1
<1>10. Splits(p2, q2) /\ (p2 = q2 => p1 = q1 /\ r.from = s.from)
  BY ONLY <1>3, <1>9, SplitsFixed DEF p2, q2
<1>11. Splits(p3, q3) /\ (p3 = q3 => p2 = q2 /\ r.to = s.to)
  BY ONLY <1>3, <1>10, SplitsFixed DEF p3, q3
<1>12. Splits(p4, q4) /\ (p4 = q4 => p3 = q3 /\ c = d)
  BY ONLY <1>w, <1>11, SplitsSameLength DEF Extends, p4, q4
<1>13. Splits(p5, q5) /\ (p5 = q5 => p4 = q4 /\ e = f)
  BY ONLY <1>w, <1>12, SplitsSameLength DEF Extends, p5, q5
<1>14. Splits(p6, q6) /\ (p6 = q6 => p5 = q5 /\ g = h)
  BY ONLY <1>w, <1>13, SplitsSameLength DEF Extends, p6, q6
<1>15. Splits(p7, q7) /\ (p7 = q7 => p6 = q6 /\ i = j)
  BY ONLY <1>w, <1>14, SplitsSameLength DEF Extends, p7, q7
<1>16. Splits(p8, q8) /\ (p8 = q8 => p7 = q7 /\ r.amount = s.amount)
  <2>1. PICK x, y : x = TxTypeJson(r.amount) /\ y = TxTypeJson(s.amount)
    OBVIOUS
  <2>2. Splits(x, y) /\ (x = y => r.amount = s.amount)
    BY ONLY <1>4, <2>1, SplitsTypeJson
  <2>3. Splits(p7 \o x, q7 \o y) /\ (p7 \o x = q7 \o y => p7 = q7 /\ x = y)
    BY <1>15, <2>2, SplitsJoined
  <2> QED BY <2>1, <2>2, <2>3 DEF p8, q8
<1>17. Splits(p9, q9) /\ (p9 = q9 => p8 = q8)
  BY ONLY <1>7, <1>16, SplitsFixed DEF p9, q9
<1>18. p9 = q9 /\ r.pqPublicKey = s.pqPublicKey
  BY <1>5, <1>8, <1>17 DEF Splits
<1>19. /\ r.chainId = s.chainId /\ r.from = s.from /\ r.to = s.to /\ r.nonce = s.nonce
       /\ r.gasLimit = s.gasLimit /\ r.gasPrice = s.gasPrice /\ r.timestamp = s.timestamp
       /\ r.amount = s.amount /\ r.pqPublicKey = s.pqPublicKey
  BY ONLY <1>d, <1>9, <1>10, <1>11, <1>12, <1>13, <1>14, <1>15, <1>16, <1>17, <1>18
<1> QED BY ONLY <1>19, r \in Transfers, s \in Transfers DEF Transfers

-----------------------------------------------------------------------------
(***************************************************************************)
(* Identifiers                                                             *)
(***************************************************************************)
LEMMA DidParts ==
  ASSUME NEW did \in Seq(STRING), Len(did) >= 3
  PROVE  /\ SubSeq(did, 1, 2) = <<did[1], did[2]>>
         /\ Len(SubSeq(did, 3, Len(did))) = Len(did) - 2
         /\ \A i \in 1..(Len(did) - 2) : SubSeq(did, 3, Len(did))[i] = did[i + 2]
<1>1. PICK n \in Nat : n = Len(did)
  OBVIOUS
<1>2. n >= 3 /\ did \in [1..n -> STRING]
  BY <1>1
<1>3. SubSeq(did, 1, 2) = <<did[1], did[2]>>
  <2>1. PICK s : s = SubSeq(did, 1, 2)
    OBVIOUS
  <2>2. s \in Seq(STRING) /\ Len(s) = 2 /\ s[1] = did[1] /\ s[2] = did[2]
    BY <1>1, <1>2, <2>1
  <2>3. PICK t : t = <<did[1], did[2]>>
    OBVIOUS
  <2>4. t \in Seq(STRING) /\ Len(t) = 2 /\ t[1] = did[1] /\ t[2] = did[2]
    BY <1>2, <2>3
  <2>5. \A i \in 1..2 : i = 1 \/ i = 2
    OBVIOUS
  <2>6. \A i \in 1..2 : s[i] = t[i]
    BY ONLY <2>2, <2>4, <2>5
  <2>7. s = t
    BY ONLY <2>2, <2>4, <2>6, SeqEqual
  <2> QED BY ONLY <2>1, <2>3, <2>7
<1>4. SubSeq(did, 3, n) = [i \in 1..(n - 2) |-> did[i + 2]]
  BY <1>1, <1>2
<1>5. Len([i \in 1..(n - 2) |-> did[i + 2]]) = n - 2
  BY <1>2
<1> QED BY <1>1, <1>3, <1>4, <1>5

\* parseTenzroDid and the builders (src/did-tenzro-helpers.ts): what is parsed can be
\* built again, part for part, and what a builder makes is parsed.
THEOREM DidsRoundTrip ==
  \A did \in Seq(STRING) :
    /\ ParseTenzroDid(did) # Null => Build(ParseTenzroDid(did)) = did
    /\ ParseTenzroDid(did) = Null =>
         \A u, v \in Uuids : did \notin
           {BuildDid("human", u), BuildDid("machine", u), BuildDelegatedMachineDid(u, v)}
<1> TAKE did \in Seq(STRING)
<1>1. PICK n \in Nat : n = Len(did)
  OBVIOUS
<1>2. PICK rest : rest = SubSeq(did, 3, Len(did))
  OBVIOUS
<1>3. n >= 3 => /\ SubSeq(did, 1, 2) = <<did[1], did[2]>> /\ Len(rest) = n - 2
                /\ \A i \in 1..(n - 2) : rest[i] = did[i + 2]
  BY <1>1, <1>2, DidParts
<1> DEFINE Human == n = 4 /\ did[3] = "human" /\ did[4] \in Uuids
           Machine == n = 4 /\ did[3] = "machine" /\ did[4] \in Uuids
           Delegated == n = 5 /\ did[3] = "machine" /\ {did[4], did[5]} \subseteq Uuids
           Named == did[1] = "did" /\ did[2] = "tenzro"
<1>4. n >= 3 => (SubSeq(did, 1, 2) = <<"did", "tenzro">> <=> Named)
  BY <1>3
<1>5. n >= 3 => /\ Len(rest) = 2 /\ rest[1] = "human" /\ rest[2] \in Uuids <=> Human
                /\ Len(rest) = 2 /\ rest[1] = "machine" /\ rest[2] \in Uuids <=> Machine
                /\ Len(rest) = 3 /\ rest[1] = "machine" /\ {rest[2], rest[3]} \subseteq Uuids
                     <=> Delegated
  <2> HAVE n >= 3
  <2>1. n >= 4 => rest[1] = did[3] /\ rest[2] = did[4]
    BY <1>3
  <2>2. n >= 5 => rest[3] = did[5]
    BY <1>3
  <2>3. (Len(rest) = 2 <=> n = 4) /\ (Len(rest) = 3 <=> n = 5)
    <3>1. Len(rest) = n - 2
      BY <1>3
    <3> QED BY ONLY <3>1, n \in Nat
  <2> QED BY <2>1, <2>2, <2>3
<1>6. ParseTenzroDid(did) =
        IF n < 3 \/ ~Named THEN Null
        ELSE IF Human THEN [class |-> "human", uuid |-> did[4]]
        ELSE IF Machine THEN [class |-> "machine-autonomous", uuid |-> did[4]]
        ELSE IF Delegated
        THEN [class |-> "machine-delegated", controllerUuid |-> did[4], uuid |-> did[5]]
        ELSE Null
  <2> HIDE DEF Human, Machine, Delegated, Named
  <2>1. n < 3 => ParseTenzroDid(did) = Null
    BY <1>1 DEF ParseTenzroDid
  <2>2. ASSUME n >= 3
        PROVE  ParseTenzroDid(did) =
                 IF ~Named THEN Null
                 ELSE IF Human THEN [class |-> "human", uuid |-> rest[2]]
                 ELSE IF Machine THEN [class |-> "machine-autonomous", uuid |-> rest[2]]
                 ELSE IF Delegated
                 THEN [class |-> "machine-delegated", controllerUuid |-> rest[2], uuid |-> rest[3]]
                 ELSE Null
    BY <1>1, <1>2, <1>4, <1>5, <2>2 DEF ParseTenzroDid
  <2>3. n >= 4 => rest[2] = did[4]
    BY <1>3
  <2>4. n >= 5 => rest[3] = did[5]
    BY <1>3
  <2>5. Human \/ Machine => n >= 4
    BY DEF Human, Machine
  <2>6. Delegated => n >= 5
    BY DEF Delegated
  <2> QED BY <2>1, <2>2, <2>3, <2>4, <2>5, <2>6
<1>7. ASSUME NEW u \in Uuids
      PROVE  /\ BuildDid("human", u) = <<"did", "tenzro", "human", u>>
             /\ BuildDid("machine", u) = <<"did", "tenzro", "machine", u>>
             /\ \A v \in Uuids :
                  BuildDelegatedMachineDid(u, v) = <<"did", "tenzro", "machine", u, v>>
  BY DEF BuildDid, BuildDelegatedMachineDid
<1>8. ASSUME Named, Human PROVE Build(ParseTenzroDid(did)) = did /\ ParseTenzroDid(did) # Null
  <2>1. PICK u \in Uuids : u = did[4]
    BY <1>8
  <2>2. did = <<"did", "tenzro", "human", u>>
    <3>1. Len(did) = 4 /\ did[1] = "did" /\ did[2] = "tenzro" /\ did[3] = "human" /\ did[4] = u
      BY <1>1, <1>8, <2>1
    <3> QED BY ONLY <3>1, did \in Seq(STRING)
  <2>3. ParseTenzroDid(did) = [class |-> "human", uuid |-> u]
    BY <1>6, <1>8, <2>1
  <2>4. Build([class |-> "human", uuid |-> u]) = BuildDid("human", u)
    BY DEF Build
  <2>5. [class |-> "human", uuid |-> u] # Null
    BY DidAssumption DEF ParsedDids
  <2> QED BY ONLY <1>7, <2>2, <2>3, <2>4, <2>5, u \in Uuids
<1>9. ASSUME Named, Machine PROVE Build(ParseTenzroDid(did)) = did /\ ParseTenzroDid(did) # Null
  <2>1. PICK u \in Uuids : u = did[4]
    BY <1>9
  <2>2. did = <<"did", "tenzro", "machine", u>>
    <3>1. Len(did) = 4 /\ did[1] = "did" /\ did[2] = "tenzro" /\ did[3] = "machine" /\ did[4] = u
      BY <1>1, <1>9, <2>1
    <3> QED BY ONLY <3>1, did \in Seq(STRING)
  <2>3. ParseTenzroDid(did) = [class |-> "machine-autonomous", uuid |-> u]
    BY <1>6, <1>9, <2>1
  <2>4. Build([class |-> "machine-autonomous", uuid |-> u]) = BuildDid("machine", u)
    BY DEF Build
  <2>5. [class |-> "machine-autonomous", uuid |-> u] # Null
    BY DidAssumption DEF ParsedDids
  <2> QED BY ONLY <1>7, <2>2, <2>3, <2>4, <2>5, u \in Uuids
<1>10. ASSUME Named, Delegated PROVE Build(ParseTenzroDid(did)) = did /\ ParseTenzroDid(did) # Null
  <2>1. PICK u, v \in Uuids : u = did[4] /\ v = did[5]
    BY <1>10
  <2>2. did = <<"did", "tenzro", "machine", u, v>>
    <3>1. Len(did) = 5 /\ did[1] = "did" /\ did[2] = "tenzro" /\ did[3] = "machine"
          /\ did[4] = u /\ did[5] = v
      BY <1>1, <1>10, <2>1
    <3> QED BY ONLY <3>1, did \in Seq(STRING)
  <2>3. ParseTenzroDid(did) = [class |-> "machine-delegated", controllerUuid |-> u, uuid |-> v]
    BY <1>6, <1>10, <2>1
  <2>4. Build([class |-> "machine-delegated", controllerUuid |-> u, uuid |-> v])
          = BuildDelegatedMachineDid(u, v)
    BY DEF Build
  <2>5. [class |-> "machine-delegated", controllerUuid |-> u, uuid |-> v] # Null
    BY DidAssumption DEF ParsedDids
  <2> QED BY ONLY <1>7, <2>2, <2>3, <2>4, <2>5, u \in Uuids, v \in Uuids
<1>11. ParseTenzroDid(did) # Null => Named /\ (Human \/ Machine \/ Delegated)
  BY <1>6
<1>12. ASSUME NEW u \in Uuids, NEW v \in Uuids,
              did \in {BuildDid("human", u), BuildDid("machine", u), BuildDelegatedMachineDid(u, v)}
       PROVE  Named /\ (Human \/ Machine \/ Delegated)
  <2>1. CASE did = <<"did", "tenzro", "human", u>>
    BY <1>1, <2>1
  <2>2. CASE did = <<"did", "tenzro", "machine", u>>
    BY <1>1, <2>2
  <2>3. CASE did = <<"did", "tenzro", "machine", u, v>>
    BY <1>1, <2>3
  <2> QED BY <1>7, <1>12, <2>1, <2>2, <2>3
<1> HIDE DEF Human, Machine, Delegated, Named
<1> QED BY <1>8, <1>9, <1>10, <1>11, <1>12

\* The text of a reference, in lower case and without 0x.
HexStrings ==
  {h \in Seq([nibble : Nibble, capital : {FALSE}]) : Len(h) = 2 * RefWidth}

LEMMA TextLowered ==
  \A t \in HexTexts : CaipOfText(t) # Threw =>
    \E h \in HexStrings : CaipOfText(t) = <<"tenzro", h>>
<1> TAKE t \in HexTexts
<1> HAVE CaipOfText(t) # Threw
<1>1. PICK s : s = IF t # <<>> /\ t[1] = Mark THEN Tail(t) ELSE t
  OBVIOUS
<1>2. t \in Seq(HexDigits \cup {Mark}) /\ \A i \in DOMAIN t : t[i] = Mark => i = 1
  BY DEF HexTexts, Prefixed
<1>3. PICK X : X = HexDigits \cup {Mark}
  OBVIOUS
<1>4. PICK n \in Nat : n = Len(t) /\ DOMAIN t = 1..n /\ \A i \in 1..n : t[i] \in X
  BY <1>2, <1>3
<1>5. \E m \in Nat : m = Len(s) /\ DOMAIN s = 1..m /\ \A i \in 1..m : s[i] \in X \ {Mark}
  <2>1. CASE t # <<>> /\ t[1] = Mark
    <3>1. s = Tail(t) /\ n # 0
      BY <1>1, <1>2, <1>3, <1>4, <2>1
    <3>2. t \in Seq(X)
      BY <1>2, <1>3
    <3>3. Len(s) = n - 1 /\ DOMAIN s = 1..(n - 1) /\ \A i \in 1..(n - 1) : s[i] = t[i + 1]
      BY <1>4, <3>1, <3>2
    <3>4. \A i \in 1..(n - 1) : t[i + 1] \in X \ {Mark}
      <4> TAKE i \in 1..(n - 1)
      <4>1. i + 1 \in 1..n /\ i + 1 # 1
        OBVIOUS
      <4> QED BY <1>2, <1>4, <4>1
    <3>5. n - 1 \in Nat
      BY <3>1
    <3> QED BY ONLY <3>3, <3>4, <3>5
  <2>2. CASE ~(t # <<>> /\ t[1] = Mark)
    <3>1. s = t
      BY <1>1, <2>2
    <3>2. \A i \in 1..n : t[i] # Mark
      BY <1>2, <1>4, <2>2
    <3> QED BY ONLY <1>4, <3>1, <3>2, n \in Nat
  <2> QED BY <2>1, <2>2
<1>6. PICK m \in Nat : m = Len(s) /\ DOMAIN s = 1..m /\ \A i \in 1..m : s[i] \in X \ {Mark}
  BY <1>5
<1>7. PICK h : h = Lower(s)
  OBVIOUS
<1>8. h = [i \in 1..m |-> [s[i] EXCEPT !.capital = FALSE]]
  BY <1>6, <1>7 DEF Lower
<1>9. \A i \in 1..m : [s[i] EXCEPT !.capital = FALSE] \in [nibble : Nibble, capital : {FALSE}]
  <2> TAKE i \in 1..m
  <2>1. s[i] \in [nibble : Nibble, capital : BOOLEAN]
    BY <1>3, <1>6 DEF HexDigits
  <2> QED BY <2>1
<1>10. PICK Y : Y = [nibble : Nibble, capital : {FALSE}]
  OBVIOUS
<1>11. h \in Seq(Y) /\ Len(h) = m
  <2>1. h \in [1..m -> Y]
    BY ONLY <1>8, <1>9, <1>10
  <2> QED BY ONLY <2>1, m \in Nat
<1>12. CaipOfText(t) = IF Len(h) # 2 * RefWidth THEN Threw ELSE <<"tenzro", h>>
  BY <1>1, <1>7 DEF CaipOfText
<1> QED BY <1>10, <1>11, <1>12 DEF HexStrings


LEMMA HalvesOfByte ==
  \A p, q \in Nibble :
    /\ p * HexBase + q \in Byte
    /\ (p * HexBase + q) \div HexBase = p /\ (p * HexBase + q) % HexBase = q
<1> TAKE p, q \in Nibble
<1>1. HexBase \in Nat \ {0} /\ p \in Nat /\ q \in Nat /\ p + 1 <= HexBase /\ q + 1 <= HexBase
  <2>1. HexBase \in Nat /\ HexBase * HexBase # 0
    BY HexAssumption, BaseAssumption
  <2> QED BY <2>1 DEF Nibble
<1>2. PICK h \in Nat \ {0} : h = HexBase
  BY <1>1
<1>3. (p * h + q) \div h = p /\ (p * h + q) % h = q
  <2>1. q < h
    BY <1>1, <1>2
  <2> QED BY <1>1, <2>1, SMT
<1>4. p * h + q \in Nat /\ p * h + q < h * h
  <2>1. PICK a, b, c \in Nat : a = p * h /\ b = (p + 1) * h /\ c = h * h
    BY <1>1
  <2>2. b = a + h
    BY <1>1, <2>1
  <2>3. b <= c
    <3>1. PICK k \in Nat : h = (p + 1) + k
      BY <1>1, <1>2
    <3>2. PICK d \in Nat : d = k * h
      OBVIOUS
    <3>3. ((p + 1) + k) * h = (p + 1) * h + k * h
      BY <1>1, Distributes
    <3>4. c = b + d
      BY ONLY <2>1, <3>1, <3>2, <3>3
    <3> QED BY ONLY <2>1, <3>2, <3>4
  <2> QED BY ONLY <1>1, <1>2, <2>1, <2>2, <2>3
<1>5. h * h = Base
  BY ONLY <1>2, HexAssumption
<1> QED BY ONLY <1>2, <1>3, <1>4, <1>5, BaseAssumption DEF Byte

LEMMA HexOfBytes ==
  \A h \in HexStrings : \E b \in [1..RefWidth -> Byte] : CaipOfBytes(b) = <<"tenzro", h>>
<1> TAKE h \in HexStrings
<1>1. PICK w \in Nat : w = RefWidth
  BY RefAssumption
<1>2. PICK l \in Nat : l = 2 * w
  OBVIOUS
<1>3. PICK Y : Y = [nibble : Nibble, capital : {FALSE}]
  OBVIOUS
<1>4. h \in Seq(Y) /\ Len(h) = l
  BY <1>1, <1>2, <1>3 DEF HexStrings
<1>5. h \in [1..l -> Y]
  BY ONLY <1>4
<1>6. PICK b : b = [k \in 1..w |-> h[2 * k - 1].nibble * HexBase + h[2 * k].nibble]
  OBVIOUS
<1>7. \A k \in 1..w : /\ 2 * k - 1 \in 1..l /\ 2 * k \in 1..l
                      /\ h[2 * k - 1].nibble \in Nibble /\ h[2 * k].nibble \in Nibble
  <2> TAKE k \in 1..w
  <2>1. 2 * k - 1 \in 1..l /\ 2 * k \in 1..l
    BY <1>2
  <2>2. h[2 * k - 1] \in Y /\ h[2 * k] \in Y
    BY ONLY <1>5, <2>1
  <2> QED BY ONLY <1>3, <2>1, <2>2
<1>8. \A k \in 1..w : /\ b[k] \in Byte
                      /\ b[k] \div HexBase = h[2 * k - 1].nibble
                      /\ b[k] % HexBase = h[2 * k].nibble
  <2> TAKE k \in 1..w
  <2>1. PICK p, q \in Nibble : p = h[2 * k - 1].nibble /\ q = h[2 * k].nibble
    BY <1>7
  <2>2. b[k] = p * HexBase + q
    BY ONLY <1>6, <2>1, k \in 1..w
  <2>3. /\ p * HexBase + q \in Byte
        /\ (p * HexBase + q) \div HexBase = p /\ (p * HexBase + q) % HexBase = q
    BY ONLY p \in Nibble, q \in Nibble, HalvesOfByte, Zenon
  <2> QED BY ONLY <2>1, <2>2, <2>3
<1>9. b \in [1..w -> Byte]
  BY ONLY <1>6, <1>8
<1>10. Len(b) = w
  BY ONLY <1>9, w \in Nat
<1>11. PICK g : g = HexOf(b)
  OBVIOUS
<1>12. g = [i \in 1..l |->
              [nibble |-> IF i % 2 = 1 THEN b[(i + 1) \div 2] \div HexBase
                          ELSE b[i \div 2] % HexBase,
               capital |-> FALSE]]
  BY ONLY <1>2, <1>10, <1>11 DEF HexOf
<1>13. \A i \in 1..l : g[i] = h[i]
  <2> TAKE i \in 1..l
  <2>0. h[i] = [nibble |-> h[i].nibble, capital |-> FALSE]
    <3>1. h[i] \in Y
      BY ONLY <1>5, i \in 1..l
    <3> QED BY ONLY <1>3, <3>1
  <2>1. CASE i % 2 = 1
    <3>1. PICK k \in 1..w : i = 2 * k - 1
      <4>1. PICK k \in Int : i = 2 * k - 1
        <5>1. i = 2 * ((i + 1) \div 2) - 1 /\ (i + 1) \div 2 \in Int
          BY <2>1
        <5> QED BY ONLY <5>1
      <4>2. k \in 1..w
        BY <1>2, <4>1
      <4> QED BY <4>1, <4>2
    <3>2. (i + 1) \div 2 = k
      BY <3>1
    <3>3. g[i] = [nibble |-> b[k] \div HexBase, capital |-> FALSE]
      BY ONLY <1>12, <2>1, <3>2, i \in 1..l
    <3> QED BY ONLY <1>8, <2>0, <3>1, <3>3
  <2>2. CASE i % 2 # 1
    <3>1. PICK k \in 1..w : i = 2 * k
      <4>1. PICK k \in Int : i = 2 * k
        BY <2>2
      <4>2. k \in 1..w
        BY <1>2, <4>1
      <4> QED BY <4>1, <4>2
    <3>2. i \div 2 = k
      BY <3>1
    <3>3. g[i] = [nibble |-> b[k] % HexBase, capital |-> FALSE]
      BY ONLY <1>12, <2>2, <3>2, i \in 1..l
    <3> QED BY ONLY <1>8, <2>0, <3>1, <3>3
  <2> QED BY <2>1, <2>2
<1>14. g = h
  <2>1. g \in [1..l -> Y]
    <3>1. g = [i \in 1..l |-> g[i]]
      BY ONLY <1>12
    <3> QED BY ONLY <1>5, <1>13, <3>1
  <2> QED BY ONLY <1>5, <1>13, <2>1
<1>15. CaipOfBytes(b) = <<"tenzro", h>>
  BY ONLY <1>1, <1>10, <1>11, <1>14 DEF CaipOfBytes
<1> QED BY ONLY <1>1, <1>9, <1>15

\* buildTenzroCaip2 and parseTenzroCaip2 (src/caip-helpers.ts): a chain id that was
\* built from a text is recognised, its reference is given back, and some bytes have
\* that chain id.
THEOREM ChainIdsRoundTrip ==
  \A t \in HexTexts : CaipOfText(t) # Threw =>
    /\ ParseTenzroCaip2(CaipOfText(t)) = CaipOfText(t)[2]
    /\ \E b \in [1..RefWidth -> Byte] : CaipOfBytes(b) = CaipOfText(t)
<1> TAKE t \in HexTexts
<1> HAVE CaipOfText(t) # Threw
<1>1. PICK h \in HexStrings : CaipOfText(t) = <<"tenzro", h>>
  BY TextLowered
<1>2. Len(h) = 2 * RefWidth /\ h \in Seq([nibble : Nibble, capital : {FALSE}])
  BY DEF HexStrings
<1>3. \A i \in DOMAIN h : h[i].nibble \in Nibble /\ ~h[i].capital
  <2>1. PICK Y : Y = [nibble : Nibble, capital : {FALSE}]
    OBVIOUS
  <2>2. \A i \in DOMAIN h : h[i] \in Y
    <3>1. h \in Seq(Y)
      BY ONLY <1>2, <2>1
    <3> QED BY ONLY <3>1
  <2> QED BY ONLY <2>1, <2>2
<1>4. ParseTenzroCaip2(<<"tenzro", h>>) = h
  BY ONLY <1>2, <1>3 DEF ParseTenzroCaip2
<1>5. PICK c : c = <<"tenzro", h>>
  OBVIOUS
<1>6. c[2] = h /\ ParseTenzroCaip2(c) = h
  BY ONLY <1>4, <1>5
<1>7. \E b \in [1..RefWidth -> Byte] : CaipOfBytes(b) = c
  BY ONLY <1>5, HexOfBytes
<1> QED BY ONLY <1>1, <1>5, <1>6, <1>7

\* isTenzroCaip2 (src/caip-helpers.ts): a chain id built from a text that is not
\* hexadecimal is not recognised.
LEMMA OtherTextsUnrecognised ==
  \A t \in CaipTexts \ HexTexts :
    CaipOfText(t) # Threw => ParseTenzroCaip2(CaipOfText(t)) = Null
<1> TAKE t \in CaipTexts \ HexTexts
<1> HAVE CaipOfText(t) # Threw
<1>1. PICK s : s = IF t # <<>> /\ t[1] = Mark THEN Tail(t) ELSE t
  OBVIOUS
<1>2. PICK X, Z : X = HexDigits \cup OtherCharacters \cup {Mark} /\ Z = HexDigits \cup {Mark}
  OBVIOUS
<1>3. /\ t \in Seq(X) /\ t \notin {u \in Seq(Z) : \A i \in DOMAIN u : u[i] = Mark => i = 1}
      /\ \A i \in DOMAIN t : t[i] = Mark => i = 1
  BY <1>2 DEF CaipTexts, HexTexts, Prefixed
<1>4. PICK n \in Nat : n = Len(t) /\ t \in [1..n -> X]
  BY <1>3
<1>5. PICK i \in 1..n : t[i] \notin Z
  <2>1. t \notin Seq(Z)
    BY <1>3
  <2> QED BY ONLY <1>4, <2>1, n \in Nat
<1>6. t[i] \in OtherCharacters
  <2>1. t[i] \in X
    BY ONLY <1>4, <1>5
  <2> QED BY ONLY <1>2, <1>5, <2>1
<1>7. t[i].nibble = HexBase
  BY ONLY <1>6 DEF OtherCharacters
<1>8. \E j \in DOMAIN s : s[j] = t[i]
  <2>1. CASE t # <<>> /\ t[1] = Mark
    <3>1. i # 1
      BY <1>2, <1>5, <2>1
    <3>2. s = Tail(t) /\ n # 0
      BY <1>1, <1>5, <2>1
    <3>3. t \in Seq(X)
      BY <1>3
    <3>4. DOMAIN s = 1..(n - 1) /\ \A j \in 1..(n - 1) : s[j] = t[j + 1]
      BY ONLY <1>4, <3>2, <3>3, n \in Nat
    <3>5. i - 1 \in 1..(n - 1) /\ (i - 1) + 1 = i
      BY ONLY <3>1, n \in Nat, i \in 1..n
    <3> QED BY ONLY <3>4, <3>5
  <2>2. CASE ~(t # <<>> /\ t[1] = Mark)
    <3>1. s = t /\ i \in DOMAIN t
      BY <1>1, <1>4, <1>5, <2>2
    <3> QED BY ONLY <3>1
  <2> QED BY <2>1, <2>2
<1>9. PICK j \in DOMAIN s : s[j] = t[i]
  BY <1>8
<1>10. PICK h : h = Lower(s)
  OBVIOUS
<1>11. j \in DOMAIN h /\ h[j].nibble = HexBase
  <2>1. DOMAIN h = DOMAIN s /\ h[j] = [s[j] EXCEPT !.capital = FALSE]
    BY <1>9, <1>10 DEF Lower
  <2>2. s[j] \in [nibble : {HexBase}, capital : BOOLEAN]
    BY ONLY <1>6, <1>9 DEF OtherCharacters
  <2> QED BY ONLY <2>1, <2>2, <1>9
<1>12. HexBase \notin Nibble
  BY HexAssumption DEF Nibble
<1>13. CaipOfText(t) = IF Len(h) # 2 * RefWidth THEN Threw ELSE <<"tenzro", h>>
  BY <1>1, <1>10 DEF CaipOfText
<1>14. PICK c : c = <<"tenzro", h>>
  OBVIOUS
<1>15. c[2] = h
  BY ONLY <1>14
<1>16. ParseTenzroCaip2(c) = Null
  BY ONLY <1>11, <1>12, <1>15 DEF ParseTenzroCaip2
<1> QED BY ONLY CaipOfText(t) # Threw, <1>13, <1>14, <1>16

-----------------------------------------------------------------------------
(***************************************************************************)
(* Signatures                                                              *)
(***************************************************************************)
\* e has the bytes of a coordinate without its leading zeros.
Coordinate(e, full) ==
  /\ e \in Bytes /\ Len(e) <= CoordWidth
  /\ \A k \in 1..CoordWidth :
       full[k] = IF k > CoordWidth - Len(e) THEN e[k - (CoordWidth - Len(e))] ELSE 0

LEMMA MinimalIntStrips ==
  \A v \in Nat :
    /\ MinimalInt(v) \in Bytes /\ Len(MinimalInt(v)) <= CoordWidth + 1
    /\ Coordinate(StripLeadingZero(MinimalInt(v)), UintBe(v, CoordWidth))
<1> TAKE v \in Nat
<1>1. PICK c \in Nat : c = CoordWidth /\ c # 0
  BY CoordAssumption
<1>2. PICK full : full = UintBe(v, CoordWidth)
  OBVIOUS
<1>3. full \in Bytes /\ Len(full) = c /\ full \in [1..c -> Byte]
  <2>1. full \in Bytes /\ Len(full) = c
    BY <1>1, <1>2, UintDigits DEF Fixed
  <2> QED BY <2>1 DEF Bytes
<1>b. \A x \in Byte : x \in Nat
  BY BaseAssumption DEF Byte
<1>4. \E i \in 1..c : (full[i] # 0 \/ i = c) /\ \A j \in 1..(i - 1) : full[j] = 0
  <2> DEFINE Z == {i \in 1..c : full[i] # 0 \/ i = c}
  <2>1. c \in Z /\ Z \in SUBSET Nat
    BY <1>1
  <2>2. PICK k \in Z : \A j \in Z : k <= j
    <3> HIDE DEF Z
    <3> QED BY <2>1, LeastNumber
  <2>3. \A j \in 1..(k - 1) : full[j] = 0
    <3> TAKE j \in 1..(k - 1)
    <3>1. j \in 1..c /\ ~(k <= j)
      BY <2>2
    <3> QED BY <2>2, <3>1
  <2> QED BY <2>2, <2>3
<1>5. PICK first : first = CHOOSE i \in 1..CoordWidth :
                       /\ full[i] # 0 \/ i = CoordWidth
                       /\ \A j \in 1..(i - 1) : full[j] = 0
  OBVIOUS
<1>6. first \in 1..c /\ (full[first] # 0 \/ first = c) /\ \A j \in 1..(first - 1) : full[j] = 0
  BY <1>1, <1>4, <1>5
<1>7. PICK d : d = SubSeq(full, first, CoordWidth)
  OBVIOUS
<1>8. PICK l \in Nat : l = c + 1 - first /\ l # 0 /\ l <= c
  BY <1>6
<1>9. d \in Bytes /\ Len(d) = l /\ \A i \in 1..l : d[i] = full[first - 1 + i]
  <2>1. d = [i \in 1..l |-> full[first - 1 + i]]
    <3>1. first \in 1..c /\ Len(full) = c /\ full \in Seq(Byte)
      BY <1>3, <1>6 DEF Bytes
    <3>2. SubSeq(full, first, c) = [i \in 1..(c - first + 1) |-> full[first + i - 1]]
      BY ONLY <3>1, c \in Nat
    <3>3. c - first + 1 = l /\ \A i \in 1..l : first + i - 1 = first - 1 + i
      BY <1>6, <1>8
    <3>4. d = [i \in 1..l |-> full[first + i - 1]]
      BY ONLY <1>1, <1>7, <3>2, <3>3
    <3> QED BY ONLY <3>3, <3>4
  <2>2. \A i \in 1..l : first - 1 + i \in 1..c
    BY <1>6, <1>8
  <2>3. d \in [1..l -> Byte]
    BY ONLY <1>3, <2>1, <2>2
  <2> QED BY <2>1, <2>3 DEF Bytes
<1>10. Coordinate(d, full)
  <2> SUFFICES ASSUME NEW k \in 1..c
               PROVE  full[k] = IF k > c - l THEN d[k - (c - l)] ELSE 0
    BY <1>1, <1>8, <1>9 DEF Coordinate
  <2>1. CASE k > c - l
    <3>1. PICK i \in 1..l : i = k - (c - l)
      BY <1>8, <2>1
    <3>2. first - 1 + i = k
      BY <1>6, <1>8, <3>1
    <3> QED BY ONLY <1>9, <2>1, <3>1, <3>2
  <2>2. CASE ~(k > c - l)
    <3>1. k \in 1..(first - 1)
      BY <1>6, <1>8, <2>2
    <3> QED BY ONLY <1>6, <2>2, <3>1
  <2> QED BY <2>1, <2>2
<1>11. 1 \in 1..l /\ d[1] = full[first] /\ d[1] \in Nat /\ (l # 1 => d[1] # 0)
  <2>1. 1 \in 1..l /\ first - 1 + 1 = first
    BY <1>6, <1>8
  <2>2. d[1] = full[first]
    BY ONLY <1>9, <2>1
  <2>3. l # 1 => first # c
    BY <1>8
  <2> QED BY <1>3, <1>6, <1>b, <2>1, <2>2, <2>3
<1>12. PICK m : m = MinimalInt(v)
  OBVIOUS
<1>13. m = IF d[1] >= Sign THEN <<0>> \o d ELSE d
  BY ONLY <1>2, <1>5, <1>7, <1>12 DEF MinimalInt
<1>14. CASE d[1] >= Sign
  <2>1. PICK z : z = <<0>>
    OBVIOUS
  <2>2. z \in Bytes /\ Len(z) = 1 /\ z[1] = 0
    BY <2>1, BaseAssumption DEF Bytes, Byte
  <2>3. m = z \o d
    BY ONLY <1>13, <1>14, <2>1
  <2>4. m \in Bytes /\ Len(m) = 1 + l /\ m[1] = 0 /\ \A i \in 1..l : m[1 + i] = d[i]
    <3>1. /\ z \o d \in Bytes /\ Len(z \o d) = Len(z) + Len(d)
          /\ \A i \in 1..Len(z) : (z \o d)[i] = z[i]
          /\ \A i \in 1..Len(d) : (z \o d)[Len(z) + i] = d[i]
      BY <1>9, <2>2, JoinedPositions
    <3>2. 1 \in 1..1
      OBVIOUS
    <3> QED BY ONLY <1>9, <2>2, <2>3, <3>1, <3>2
  <2>5. Tail(m) = d
    <3>1. PICK t : t = Tail(m)
      OBVIOUS
    <3>2. t \in Bytes /\ Len(t) = l /\ \A i \in 1..l : t[i] = m[1 + i]
      BY <1>8, <2>4, <3>1 DEF Bytes
    <3>3. t = d
      BY ONLY <1>9, <2>4, <3>2, EqualBytes
    <3> QED BY <3>1, <3>3
  <2>6. StripLeadingZero(m) = d
    BY <1>8, <2>4, <2>5 DEF StripLeadingZero
  <2> QED BY ONLY <1>1, <1>2, <1>8, <1>10, <1>12, <2>4, <2>6, c \in Nat, l \in Nat
<1>15. CASE ~(d[1] >= Sign)
  <2>1. m = d
    BY ONLY <1>13, <1>15
  <2>2. StripLeadingZero(m) = d
    BY <1>8, <1>9, <1>11, <2>1 DEF StripLeadingZero
  <2> QED BY ONLY <1>1, <1>2, <1>8, <1>9, <1>10, <1>12, <2>1, <2>2, c \in Nat, l \in Nat
<1> QED BY <1>14, <1>15

\* Both halves of the output hold a coordinate.
LEMMA HalvesFilled ==
  \A e, f, x, y : /\ x \in Fixed(CoordWidth) /\ y \in Fixed(CoordWidth)
                  /\ Coordinate(e, x) /\ Coordinate(f, y)
    => SetUpTo(SetUpTo(Zeros(2 * CoordWidth), e, CoordWidth), f, 2 * CoordWidth) = x \o y
<1> TAKE e, f, x, y
<1> HAVE /\ x \in Fixed(CoordWidth) /\ y \in Fixed(CoordWidth)
         /\ Coordinate(e, x) /\ Coordinate(f, y)
<1>1. PICK c \in Nat : c = CoordWidth
  BY CoordAssumption
<1>2. x \in Bytes /\ Len(x) = c /\ y \in Bytes /\ Len(y) = c
  BY <1>1 DEF Fixed
<1>3. PICK p, q \in Nat : p = Len(e) /\ q = Len(f) /\ p <= c /\ q <= c
  <2>1. e \in Bytes /\ f \in Bytes /\ Len(e) <= c /\ Len(f) <= c
    BY ONLY <1>1, Coordinate(e, x), Coordinate(f, y) DEF Coordinate
  <2> QED BY <2>1, BytesTyped
<1>4. /\ \A k \in 1..c : x[k] = IF k > c - p THEN e[k - (c - p)] ELSE 0
      /\ \A k \in 1..c : y[k] = IF k > c - q THEN f[k - (c - q)] ELSE 0
  BY ONLY <1>1, <1>3, Coordinate(e, x), Coordinate(f, y) DEF Coordinate
<1>5. PICK n \in Nat : n = 2 * c
  OBVIOUS
<1>6. PICK o : o = SetUpTo(Zeros(2 * CoordWidth), e, CoordWidth)
  OBVIOUS
<1>7. o = [k \in 1..n |-> IF k \in (c - p + 1)..c THEN e[k - (c - p)] ELSE 0]
  <2>1. PICK z : z = Zeros(n)
    OBVIOUS
  <2>2. z = [i \in 1..n |-> 0]
    BY ONLY <2>1 DEF Zeros
  <2>3. o = [k \in DOMAIN z |-> IF k \in (c - p + 1)..c THEN e[k - (c - p)] ELSE z[k]]
    BY ONLY <1>1, <1>3, <1>5, <1>6, <2>1 DEF SetUpTo
  <2> QED BY ONLY <2>2, <2>3
<1>8. PICK u : u = SetUpTo(o, f, 2 * CoordWidth)
  OBVIOUS
<1>9. u = [k \in 1..n |-> IF k \in (n - q + 1)..n THEN f[k - (n - q)] ELSE o[k]]
  <2>1. u = [k \in DOMAIN o |-> IF k \in (n - q + 1)..n THEN f[k - (n - q)] ELSE o[k]]
    BY ONLY <1>1, <1>3, <1>5, <1>8 DEF SetUpTo
  <2>2. DOMAIN o = 1..n
    BY ONLY <1>7
  <2> QED BY ONLY <2>1, <2>2
<1>10. PICK w : w = x \o y
  OBVIOUS
<1>11. w \in Bytes /\ Len(w) = n /\ (\A k \in 1..c : w[k] = x[k]) /\ \A k \in 1..c : w[c + k] = y[k]
  <2>1. /\ x \o y \in Bytes /\ Len(x \o y) = Len(x) + Len(y)
        /\ \A i \in 1..Len(x) : (x \o y)[i] = x[i]
        /\ \A i \in 1..Len(y) : (x \o y)[Len(x) + i] = y[i]
    BY <1>2, JoinedPositions
  <2>2. c + c = n
    BY <1>5
  <2> QED BY ONLY <1>2, <1>10, <2>1, <2>2
<1>12. \A k \in 1..n : u[k] = w[k]
  <2> TAKE k \in 1..n
  <2>1. CASE k <= c
    <3>1. k \in 1..c /\ k \notin (n - q + 1)..n
      BY <1>3, <1>5, <2>1
    <3>2. k \in (c - p + 1)..c <=> k > c - p
      BY <1>3, <2>1
    <3>3. u[k] = o[k]
      BY ONLY <1>9, <3>1, k \in 1..n
    <3>4. o[k] = IF k \in (c - p + 1)..c THEN e[k - (c - p)] ELSE 0
      BY ONLY <1>7, k \in 1..n
    <3> QED BY ONLY <1>4, <1>11, <3>1, <3>2, <3>3, <3>4
  <2>2. CASE ~(k <= c)
    <3>1. PICK i \in 1..c : k = c + i
      BY <1>5, <2>2
    <3>2. k \notin (c - p + 1)..c
      BY <2>2, <1>3
    <3>3. (k \in (n - q + 1)..n <=> i > c - q) /\ k - (n - q) = i - (c - q)
      BY <1>3, <1>5, <3>1
    <3>4. u[k] = IF k \in (n - q + 1)..n THEN f[k - (n - q)] ELSE o[k]
      BY ONLY <1>9, k \in 1..n
    <3>5. o[k] = 0
      BY ONLY <1>7, <3>2, k \in 1..n
    <3> QED BY ONLY <1>4, <1>11, <3>1, <3>3, <3>4, <3>5
  <2> QED BY <2>1, <2>2
<1>13. u = w
  <2>1. w \in [1..n -> Byte]
    BY <1>11 DEF Bytes
  <2> QED BY ONLY <1>9, <1>12, <2>1
<1> QED BY ONLY <1>6, <1>8, <1>10, <1>13


\* x is an integer of DER with the bytes m.
IntegerOf(x, m) ==
  /\ x \in Bytes /\ Len(x) = 2 + Len(m) /\ x[1] = INTEGER /\ x[2] = Len(m)
  /\ \A i \in 1..Len(m) : x[2 + i] = m[i]

\* A DER integer: its type, its length and its bytes.
LEMMA DerIntegerBytes ==
  \A v \in Nat : IntegerOf(DerInteger(v), MinimalInt(v))
<1> TAKE v \in Nat
<1>m. PICK m \in Bytes : m = MinimalInt(v)
  BY MinimalIntStrips
<1>l. PICK l \in Nat : l = Len(m) /\ l < Base
  <2>1. Len(m) \in Nat
    BY BytesTyped
  <2>2. Len(m) <= CoordWidth + 1
    BY ONLY <1>m, MinimalIntStrips, v \in Nat
  <2>3. CoordWidth + 1 < Base
    BY CoordAssumption, BaseAssumption
  <2> QED BY <2>1, <2>2, <2>3, CoordAssumption, BaseAssumption
<1>1. PICK a : a = <<INTEGER, l>>
  OBVIOUS
<1>2. a \in Bytes /\ Len(a) = 2 /\ a[1] = INTEGER /\ a[2] = l
  BY <1>1, <1>l, CoordAssumption, BaseAssumption DEF Bytes, Byte, INTEGER
<1>3. PICK x : x = DerInteger(v)
  OBVIOUS
<1>4. x = a \o m
  BY ONLY <1>1, <1>3, <1>m, <1>l DEF DerInteger
<1>5. /\ a \o m \in Bytes /\ Len(a \o m) = 2 + l
      /\ \A i \in 1..2 : (a \o m)[i] = a[i]
      /\ \A i \in 1..l : (a \o m)[2 + i] = m[i]
  <2>1. /\ a \o m \in Bytes /\ Len(a \o m) = Len(a) + Len(m)
        /\ \A i \in 1..Len(a) : (a \o m)[i] = a[i]
        /\ \A i \in 1..Len(m) : (a \o m)[Len(a) + i] = m[i]
    BY <1>2, JoinedPositions
  <2> QED BY ONLY <1>2, <1>l, <2>1
<1>6. 1 \in 1..2 /\ 2 \in 1..2
  OBVIOUS
<1> QED BY ONLY <1>2, <1>3, <1>4, <1>5, <1>6, <1>m, <1>l DEF IntegerOf

\* derToRawP256 (src/passkey.ts): of every signature that an authenticator encodes,
\* short or long, the validator gets r and s with the leading zeros that DER drops,
\* and without the one that it adds before a set sign bit.
THEOREM SignatureConverts ==
  \A r, s \in Nat :
    DerToRaw(Der(r, s)) = UintBe(r, CoordWidth) \o UintBe(s, CoordWidth)
<1> TAKE r, s \in Nat
<1>1. PICK c \in Nat : c = CoordWidth /\ c # 0 /\ 2 * (c + 3) < Base
  BY CoordAssumption
<1>2. PICK mr \in Bytes : mr = MinimalInt(r)
  BY MinimalIntStrips
<1>3. PICK ms \in Bytes : ms = MinimalInt(s)
  BY MinimalIntStrips
<1>4. PICK lr, ls \in Nat : lr = Len(mr) /\ ls = Len(ms)
  BY BytesTyped
<1>5. lr <= c + 1 /\ ls <= c + 1 /\ Base \in Nat
  BY <1>1, <1>2, <1>3, <1>4, MinimalIntStrips, BaseAssumption
<1>6. PICK x, y : x = DerInteger(r) /\ y = DerInteger(s)
  OBVIOUS
<1>7. /\ x \in Bytes /\ Len(x) = 2 + lr /\ x[1] = INTEGER /\ x[2] = lr
      /\ \A i \in 1..lr : x[2 + i] = mr[i]
  <2>1. IntegerOf(DerInteger(r), MinimalInt(r))
    BY ONLY DerIntegerBytes, r \in Nat
  <2> QED BY ONLY <1>2, <1>4, <1>6, <2>1 DEF IntegerOf
<1>8. /\ y \in Bytes /\ Len(y) = 2 + ls /\ y[1] = INTEGER /\ y[2] = ls
      /\ \A i \in 1..ls : y[2 + i] = ms[i]
  <2>1. IntegerOf(DerInteger(s), MinimalInt(s))
    BY ONLY DerIntegerBytes, s \in Nat
  <2> QED BY ONLY <1>3, <1>4, <1>6, <2>1 DEF IntegerOf
<1>9. PICK n, a, b \in Nat : a = 2 + lr /\ b = 2 + ls /\ n = a + b
  OBVIOUS
<1>10. n < Base
  BY <1>1, <1>5, <1>9
<1>11. PICK ints : ints = x \o y
  OBVIOUS
<1>12. /\ ints \in Bytes /\ Len(ints) = n
       /\ \A i \in 1..a : ints[i] = x[i]
       /\ \A i \in 1..b : ints[a + i] = y[i]
  <2>1. /\ x \o y \in Bytes /\ Len(x \o y) = Len(x) + Len(y)
        /\ \A k \in 1..Len(x) : (x \o y)[k] = x[k]
        /\ \A k \in 1..Len(y) : (x \o y)[Len(x) + k] = y[k]
    BY <1>7, <1>8, JoinedPositions
  <2> QED BY ONLY <1>7, <1>8, <1>9, <1>11, <2>1
<1>13. PICK h : h = <<SEQUENCE>> \o DerLength(n)
  OBVIOUS
<1>14. PICK i \in Nat : /\ h \in Bytes /\ Len(h) = i /\ h[1] = SEQUENCE /\ i \in {2, 3}
                        /\ IF h[2] >= Sign THEN h[2] - Sign = 1 /\ i = 3 ELSE i = 2
  <2>1. Sign \in Nat /\ Sign + 1 < Base /\ SEQUENCE \in Byte
    BY <1>1, BaseAssumption DEF Sign, SEQUENCE, Byte
  <2>g. PICK g : g = <<SEQUENCE>>
    OBVIOUS
  <2>h. g \in Bytes /\ Len(g) = 1 /\ g[1] = SEQUENCE
    BY <2>1, <2>g DEF Bytes
  <2>2. CASE n < Sign
    <3>1. PICK d : d = <<n>>
      OBVIOUS
    <3>2. d \in Bytes /\ Len(d) = 1 /\ d[1] = n
      BY <1>10, <3>1, BaseAssumption DEF Bytes, Byte
    <3>3. h = g \o d
      BY ONLY <1>13, <2>g, <2>2, <3>1 DEF DerLength
    <3>4. /\ g \o d \in Bytes /\ Len(g \o d) = Len(g) + Len(d)
          /\ \A k \in 1..Len(g) : (g \o d)[k] = g[k]
          /\ \A k \in 1..Len(d) : (g \o d)[Len(g) + k] = d[k]
      BY <2>h, <3>2, JoinedPositions
    <3>5. h \in Bytes /\ Len(h) = 2 /\ h[1] = SEQUENCE /\ h[2] = n
      BY ONLY <2>h, <3>2, <3>3, <3>4
    <3> QED BY <2>1, <2>2, <3>5
  <2>3. CASE ~(n < Sign)
    <3>1. PICK d : d = <<Sign + 1, n>>
      OBVIOUS
    <3>2. d \in Bytes /\ Len(d) = 2 /\ d[1] = Sign + 1
      BY <1>10, <2>1, <3>1, BaseAssumption DEF Bytes, Byte
    <3>3. h = g \o d
      BY ONLY <1>13, <2>g, <2>3, <3>1 DEF DerLength
    <3>4. /\ g \o d \in Bytes /\ Len(g \o d) = Len(g) + Len(d)
          /\ \A k \in 1..Len(g) : (g \o d)[k] = g[k]
          /\ \A k \in 1..Len(d) : (g \o d)[Len(g) + k] = d[k]
      BY <2>h, <3>2, JoinedPositions
    <3>5. h \in Bytes /\ Len(h) = 3 /\ h[1] = SEQUENCE /\ h[2] = Sign + 1
      BY ONLY <2>h, <3>2, <3>3, <3>4
    <3> QED BY <2>1, <3>5
  <2> QED BY <2>2, <2>3
<1>15. PICK der : der = h \o ints
  OBVIOUS
<1>16. Der(r, s) = der
  <2>1. Der(r, s) = <<SEQUENCE>> \o DerLength(Len(ints)) \o ints
    BY ONLY <1>6, <1>11 DEF Der
  <2> QED BY ONLY <1>12, <1>13, <1>15, <2>1
<1>17. PICK N \in Nat : N = i + n
  OBVIOUS
<1>18. /\ der \in Bytes /\ Len(der) = N /\ DOMAIN der = 1..N
       /\ \A k \in 1..i : der[k] = h[k]
       /\ \A k \in 1..n : der[i + k] = ints[k]
  <2>1. /\ h \o ints \in Bytes /\ Len(h \o ints) = i + n
        /\ \A k \in 1..i : (h \o ints)[k] = h[k]
        /\ \A k \in 1..n : (h \o ints)[i + k] = ints[k]
    <3>1. /\ h \o ints \in Bytes /\ Len(h \o ints) = Len(h) + Len(ints)
          /\ \A k \in 1..Len(h) : (h \o ints)[k] = h[k]
          /\ \A k \in 1..Len(ints) : (h \o ints)[Len(h) + k] = ints[k]
      BY <1>12, <1>14, JoinedPositions
    <3> QED BY ONLY <1>12, <1>14, <3>1
  <2>2. DOMAIN (h \o ints) = 1..Len(h \o ints)
    BY ONLY <2>1, BytesTyped
  <2> QED BY ONLY <1>15, <1>17, <2>1, <2>2
<1>19. PICK j \in Nat : j = i + a
  OBVIOUS
<1>20. /\ der[1] = SEQUENCE /\ der[2] = h[2]
       /\ der[i + 1] = INTEGER /\ der[i + 2] = lr
       /\ \A k \in 1..lr : der[(i + 2) + k] = mr[k]
  <2>1. 1 \in 1..i /\ 2 \in 1..i
    BY <1>14
  <2>2. \A k \in 1..a : der[i + k] = x[k]
    <3>1. \A k \in 1..a : k \in 1..n
      BY <1>9
    <3> QED BY ONLY <1>12, <1>18, <3>1
  <2>3. 1 \in 1..a /\ 2 \in 1..a
    BY <1>9
  <2>4. \A k \in 1..lr : 2 + k \in 1..a /\ i + (2 + k) = (i + 2) + k
    BY <1>9
  <2>5. \A k \in 1..lr : der[i + (2 + k)] = mr[k]
    BY ONLY <1>7, <2>2, <2>4
  <2>6. \A k \in 1..lr : der[(i + 2) + k] = mr[k]
    BY ONLY <2>4, <2>5
  <2> QED BY ONLY <1>7, <1>14, <1>18, <2>1, <2>2, <2>3, <2>6
<1>21. /\ der[j + 1] = INTEGER /\ der[j + 2] = ls
       /\ \A k \in 1..ls : der[(j + 2) + k] = ms[k]
  <2>1. \A k \in 1..b : der[j + k] = y[k]
    <3>1. \A k \in 1..b : a + k \in 1..n /\ i + (a + k) = j + k
      BY <1>9, <1>19
    <3>2. \A k \in 1..b : der[i + (a + k)] = y[k]
      BY ONLY <1>12, <1>18, <3>1
    <3> QED BY ONLY <3>1, <3>2
  <2>2. 1 \in 1..b /\ 2 \in 1..b
    BY <1>9
  <2>3. \A k \in 1..ls : 2 + k \in 1..b /\ j + (2 + k) = (j + 2) + k
    BY <1>9
  <2>4. \A k \in 1..ls : der[j + (2 + k)] = ms[k]
    BY ONLY <1>8, <2>1, <2>3
  <2>5. \A k \in 1..ls : der[(j + 2) + k] = ms[k]
    BY ONLY <2>3, <2>4
  <2> QED BY ONLY <1>8, <2>1, <2>2, <2>5
<1>22. {1, 2, i + 1, i + 2, j + 1, j + 2} \subseteq 1..N
  BY <1>9, <1>14, <1>17, <1>19
<1>23. /\ At(der, 1) = SEQUENCE /\ At(der, 2) = h[2] /\ At(der, i + 1) = INTEGER
       /\ At(der, i + 2) = lr /\ At(der, j + 1) = INTEGER /\ At(der, j + 2) = ls
  BY ONLY <1>18, <1>20, <1>21, <1>22 DEF At
<1>24. j = i + 2 + lr /\ i + 2 + lr <= N /\ j + 2 + ls <= N
  BY <1>9, <1>17, <1>19
<1>25. Slice(der, i + 2, i + 2 + lr) = mr
  <2>1. PICK o \in Nat : o = i + 2
    OBVIOUS
  <2>2. Placed(der, o, mr)
    BY ONLY <1>4, <1>18, <1>20, <1>24, <2>1 DEF Placed
  <2>3. Slice(der, o, o + Len(mr)) = mr
    BY ONLY <1>18, <2>2, PlacedCut, mr \in Bytes, o \in Nat, Zenon
  <2> QED BY ONLY <1>4, <2>1, <2>3
<1>26. Slice(der, j + 2, j + 2 + ls) = ms
  <2>1. PICK o \in Nat : o = j + 2
    OBVIOUS
  <2>2. Placed(der, o, ms)
    BY ONLY <1>4, <1>18, <1>21, <1>24, <2>1 DEF Placed
  <2>3. Slice(der, o, o + Len(ms)) = ms
    BY ONLY <1>18, <2>2, PlacedCut, ms \in Bytes, o \in Nat, Zenon
  <2> QED BY ONLY <1>4, <2>1, <2>3
<1>27. PICK e, f : e = StripLeadingZero(mr) /\ f = StripLeadingZero(ms)
  OBVIOUS
<1>28. PICK u, v : u = UintBe(r, CoordWidth) /\ v = UintBe(s, CoordWidth)
  OBVIOUS
<1>29. Coordinate(e, u) /\ Coordinate(f, v) /\ u \in Fixed(CoordWidth) /\ v \in Fixed(CoordWidth)
  <2>1. Coordinate(e, u) /\ Coordinate(f, v)
    BY ONLY <1>2, <1>3, <1>27, <1>28, r \in Nat, s \in Nat, MinimalIntStrips
  <2>2. u \in Fixed(CoordWidth) /\ v \in Fixed(CoordWidth)
    BY ONLY <1>1, <1>28, r \in Nat, s \in Nat, UintDigits
  <2> QED BY ONLY <2>1, <2>2
<1>30. Len(e) <= CoordWidth /\ ~(Len(f) > 2 * CoordWidth) /\ ~(Len(e) > CoordWidth)
  <2>1. e \in Bytes /\ f \in Bytes /\ Len(e) <= CoordWidth /\ Len(f) <= CoordWidth
    BY ONLY <1>29 DEF Coordinate
  <2>2. Len(e) \in Nat /\ Len(f) \in Nat
    BY ONLY <2>1, BytesTyped
  <2> QED BY ONLY <1>1, <2>1, <2>2
<1>31. 2 + (IF At(der, 2) >= Sign THEN At(der, 2) - Sign ELSE 0) = i
  BY ONLY <1>14, <1>23
<1>32. DerToRaw(der) = SetUpTo(SetUpTo(Zeros(2 * CoordWidth), e, CoordWidth), f, 2 * CoordWidth)
  <2>1. PICK k : k = 2 + (IF At(der, 2) >= Sign THEN At(der, 2) - Sign ELSE 0)
    OBVIOUS
  <2>2. /\ k = i /\ At(der, k + 2) = lr /\ k + 2 + lr = j
        /\ Slice(der, k + 2, k + 2 + lr) = mr /\ At(der, j + 2) = ls
        /\ Slice(der, j + 2, j + 2 + ls) = ms
    BY ONLY <1>23, <1>24, <1>25, <1>26, <1>31, <2>1
  <2> QED BY ONLY <1>23, <1>27, <1>30, <2>1, <2>2 DEF DerToRaw
<1> QED BY ONLY <1>16, <1>28, <1>29, <1>32, HalvesFilled

-----------------------------------------------------------------------------
(***************************************************************************)
(* Keys                                                                    *)
(***************************************************************************)
LEMMA PlacedFirst == \A s \in Bytes : Placed(s, 0, s)
<1> TAKE s \in Bytes
<1>1. Len(s) \in Nat
  BY BytesTyped
<1> QED BY <1>1 DEF Placed

LEMMA PlacedInside ==
  \A p, t, u \in Bytes : \A o, q \in Nat :
    Placed(p, o, t) /\ Placed(t, q, u) => Placed(p, o + q, u)
<1> TAKE p, t, u \in Bytes
<1> TAKE o, q \in Nat
<1> HAVE Placed(p, o, t) /\ Placed(t, q, u)
<1>1. PICK l, m, n \in Nat : l = Len(p) /\ m = Len(t) /\ n = Len(u)
  BY BytesTyped
<1>2. /\ o + m <= l /\ \A i \in 1..m : p[o + i] = t[i]
      /\ q + n <= m /\ \A i \in 1..n : t[q + i] = u[i]
  BY ONLY <1>1, Placed(p, o, t), Placed(t, q, u) DEF Placed
<1>3. PICK w \in Nat : w = o + q
  OBVIOUS
<1>4. w + n <= l
  BY <1>2, <1>3
<1>5. \A i \in 1..n : q + i \in 1..m /\ o + (q + i) = w + i
  BY <1>2, <1>3
<1>6. \A i \in 1..n : p[w + i] = u[i]
  <2>1. \A i \in 1..n : p[o + (q + i)] = u[i]
    BY ONLY <1>2, <1>5
  <2> QED BY ONLY <1>5, <2>1
<1> QED BY ONLY <1>1, <1>3, <1>4, <1>6 DEF Placed

\* The ends of a slice inside a byte string are those of the subsequence.
LEMMA SliceIsPart ==
  \A p \in Bytes : \A from, to \in Nat :
    to <= Len(p) => Slice(p, from, to) = SubSeq(p, from + 1, to)
<1> TAKE p \in Bytes
<1> TAKE from, to \in Nat
<1> HAVE to <= Len(p)
<1>1. PICK n \in Nat : n = Len(p)
  BY BytesTyped
<1>2. (IF to < n THEN to ELSE n) = to
  BY <1>1
<1> QED BY ONLY <1>1, <1>2 DEF Slice

LEMMA HeadBytes ==
  XHead \in Bytes /\ Len(XHead) = 3 /\ YHead \in Bytes /\ Len(YHead) = 3
<1>1. PICK c \in Nat : c = CoordWidth /\ 2 * (c + 3) < Base
  BY CoordAssumption
<1> QED BY <1>1, BaseAssumption DEF XHead, YHead, Bytes, Byte

\* The parts of an embedded key, each at its place.
KeyParts(k, x, y) ==
  /\ k \in Bytes /\ Len(k) = KeySize
  /\ Placed(k, 0, XHead) /\ Placed(k, 3, x)
  /\ Placed(k, 3 + CoordWidth, YHead) /\ Placed(k, 6 + CoordWidth, y)

LEMMA CoseParts ==
  \A x, y \in Fixed(CoordWidth) : KeyParts(CoseCoordinates(x, y), x, y)
<1> TAKE x, y \in Fixed(CoordWidth)
<1>1. PICK c \in Nat : c = CoordWidth
  BY CoordAssumption
<1>2. PICK h, g \in Bytes : h = XHead /\ g = YHead /\ Len(h) = 3 /\ Len(g) = 3
  BY HeadBytes
<1>3. x \in Bytes /\ y \in Bytes /\ Len(x) = c /\ Len(y) = c
  BY <1>1 DEF Fixed
<1>4. PICK a : a = h \o x
  OBVIOUS
<1>5. a \in Bytes /\ Len(a) = 3 + c /\ Placed(a, 0, h) /\ Placed(a, 3, x)
  <2>1. h \o x \in Bytes /\ Len(h \o x) = Len(h) + Len(x)
    BY <1>3, JoinedPositions
  <2>2. Placed(h, 0, h)
    BY PlacedFirst
  <2>3. Placed(h \o x, 0, h) /\ Placed(h \o x, Len(h), x)
    BY <1>3, <2>2, PlacedStays, PlacedLast
  <2> QED BY ONLY <1>2, <1>3, <1>4, <2>1, <2>3
<1>6. PICK b : b = a \o g
  OBVIOUS
<1>7. /\ b \in Bytes /\ Len(b) = (3 + c) + 3 /\ Placed(b, 0, h) /\ Placed(b, 3, x)
      /\ Placed(b, 3 + c, g)
  <2>1. a \o g \in Bytes /\ Len(a \o g) = Len(a) + Len(g)
    BY <1>5, JoinedPositions
  <2>2. Placed(a \o g, Len(a), g)
    BY <1>5, PlacedLast
  <2>3. Placed(a \o g, 0, h) /\ Placed(a \o g, 3, x)
    BY <1>3, <1>5, PlacedStays
  <2> QED BY ONLY <1>2, <1>5, <1>6, <2>1, <2>2, <2>3
<1>8. PICK k : k = b \o y
  OBVIOUS
<1>9. /\ k \in Bytes /\ Len(k) = ((3 + c) + 3) + c /\ Placed(k, 0, h) /\ Placed(k, 3, x)
      /\ Placed(k, 3 + c, g) /\ Placed(k, (3 + c) + 3, y)
  <2>1. b \o y \in Bytes /\ Len(b \o y) = Len(b) + Len(y)
    BY <1>3, <1>7, JoinedPositions
  <2>2. Placed(b \o y, Len(b), y)
    BY <1>3, <1>7, PlacedLast
  <2>3. Placed(b \o y, 0, h) /\ Placed(b \o y, 3, x)
    BY <1>3, <1>7, PlacedStays
  <2>4. Placed(b \o y, 3 + c, g)
    <3>1. PICK o \in Nat : o = 3 + c
      OBVIOUS
    <3> QED BY <1>3, <1>7, <3>1, PlacedStays
  <2> QED BY ONLY <1>3, <1>7, <1>8, <2>1, <2>2, <2>3, <2>4
<1>10. k = CoseCoordinates(x, y)
  BY ONLY <1>2, <1>4, <1>6, <1>8 DEF CoseCoordinates
<1>11. (3 + c) + 3 = 6 + c /\ ((3 + c) + 3) + c = 2 * (3 + c)
  OBVIOUS
<1> QED BY ONLY <1>1, <1>2, <1>9, <1>10, <1>11 DEF KeyParts, KeySize

\* Where the parts of a key stand, the scan sees a key and takes its coordinates.
LEMMA KeyTaken ==
  \A obj, k, x, y \in Bytes : \A n \in Nat :
    /\ KeyParts(k, x, y) /\ Len(x) = CoordWidth /\ Len(y) = CoordWidth /\ Placed(obj, n, k)
    => /\ Matches(obj, n) /\ n + KeySize <= Len(obj)
       /\ Slice(obj, n + 3, n + 3 + CoordWidth) = x
       /\ Slice(obj, n + 6 + CoordWidth, n + KeySize) = y
<1> TAKE obj, k, x, y \in Bytes
<1> TAKE n \in Nat
<1> HAVE KeyParts(k, x, y) /\ Len(x) = CoordWidth /\ Len(y) = CoordWidth /\ Placed(obj, n, k)
<1>1. PICK c, m \in Nat : c = CoordWidth /\ m = Len(obj)
  BY CoordAssumption, BytesTyped
<1>2. PICK h, g \in Bytes : h = XHead /\ g = YHead /\ Len(h) = 3 /\ Len(g) = 3
  BY HeadBytes
<1>3. PICK q, z \in Nat : q = 3 + c /\ z = 6 + c
  OBVIOUS
<1>4. /\ Len(k) = 2 * q /\ Placed(k, 0, h) /\ Placed(k, 3, x)
      /\ Placed(k, q, g) /\ Placed(k, z, y)
  BY ONLY <1>1, <1>2, <1>3, KeyParts(k, x, y) DEF KeyParts, KeySize
<1>5. n + 2 * q <= m
  BY <1>1, <1>4 DEF Placed
<1>6. PICK e, f, j \in Nat : e = n + 3 /\ f = n + q /\ j = n + z
  OBVIOUS
<1>7. Placed(obj, n, h) /\ Placed(obj, e, x) /\ Placed(obj, f, g) /\ Placed(obj, j, y)
  <2>1. Placed(obj, n + 0, h) /\ Placed(obj, n + 3, x)
    BY <1>4, PlacedInside
  <2>2. Placed(obj, n + q, g) /\ Placed(obj, n + z, y)
    BY <1>4, PlacedInside
  <2>3. n + 0 = n
    OBVIOUS
  <2> QED BY ONLY <1>6, <2>1, <2>2, <2>3
<1>8. /\ Slice(obj, n, n + 3) = h /\ Slice(obj, e, e + c) = x
      /\ Slice(obj, f, f + 3) = g /\ Slice(obj, j, j + c) = y
  <2>1. /\ Slice(obj, n, n + Len(h)) = h /\ Slice(obj, e, e + Len(x)) = x
        /\ Slice(obj, f, f + Len(g)) = g /\ Slice(obj, j, j + Len(y)) = y
    BY <1>7, PlacedCut
  <2> QED BY ONLY <1>1, <1>2, <2>1, Len(x) = CoordWidth, Len(y) = CoordWidth
<1>9. SubSeq(obj, n + 1, n + 3) = h /\ SubSeq(obj, f + 1, f + 3) = g
  <2>1. PICK t, u \in Nat : t = n + 3 /\ u = f + 3 /\ t <= m /\ u <= m
    BY <1>1, <1>3, <1>5, <1>6
  <2>2. Slice(obj, n, t) = SubSeq(obj, n + 1, t) /\ Slice(obj, f, u) = SubSeq(obj, f + 1, u)
    <3>1. \A from, to \in Nat :
            to <= Len(obj) => Slice(obj, from, to) = SubSeq(obj, from + 1, to)
      BY SliceIsPart, Zenon
    <3> QED BY ONLY <1>1, <2>1, <3>1, n \in Nat, f \in Nat, t \in Nat, u \in Nat
  <2> QED BY ONLY <1>8, <2>1, <2>2
<1>10. f + 1 = n + 4 + c /\ f + 3 = n + 6 + c /\ j = n + 6 + c /\ j + c = n + 2 * (3 + c)
       /\ 2 * q = 2 * (3 + c) /\ e = n + 3 /\ e + c = n + 3 + c
  BY <1>3, <1>6
<1>11. Matches(obj, n)
  BY ONLY <1>1, <1>2, <1>9, <1>10 DEF Matches
<1> QED BY ONLY <1>1, <1>5, <1>8, <1>10, <1>11 DEF KeySize

\* extractCosePublicKey (src/passkey.ts): a key embedded in an attestation object, with
\* nothing before it that looks like one, is found when anything follows it, and missed
\* when it ends the object.
THEOREM KeyExtracted ==
  \A o \in AnyObject :
    ExtractKey(Object(o)) = IF o.after = <<>> THEN Threw ELSE o.x \o o.y
<1> TAKE o \in AnyObject
<1>1. PICK s, x, y, t : s = o.before /\ x = o.x /\ y = o.y /\ t = o.after
  OBVIOUS
<1>2. /\ s \in Bytes /\ x \in Bytes /\ y \in Bytes /\ t \in Bytes
      /\ x \in Fixed(CoordWidth) /\ y \in Fixed(CoordWidth)
      /\ Len(x) = CoordWidth /\ Len(y) = CoordWidth
      /\ \A i \in 0..(Len(s) - 1) : ~Matches(Object(o), i)
  BY <1>1 DEF AnyObject, Fixed
<1>3. PICK k : k = CoseCoordinates(x, y)
  OBVIOUS
<1>4. KeyParts(k, x, y) /\ k \in Bytes
  <2>1. KeyParts(k, x, y)
    BY <1>2, <1>3, CoseParts
  <2> QED BY <2>1 DEF KeyParts
<1>5. PICK n, l, z \in Nat : n = Len(s) /\ l = Len(t) /\ z = KeySize
  BY <1>2, BytesTyped, CoordAssumption DEF KeySize
<1>6. PICK a : a = s \o k
  OBVIOUS
<1>7. a \in Bytes /\ Len(a) = n + z /\ Placed(a, n, k)
  <2>1. s \o k \in Bytes /\ Len(s \o k) = Len(s) + Len(k)
    BY <1>2, <1>4, JoinedPositions
  <2>2. Placed(s \o k, Len(s), k)
    BY <1>2, <1>4, PlacedLast
  <2>3. Len(k) = z
    BY ONLY <1>4, <1>5 DEF KeyParts
  <2> QED BY ONLY <1>5, <1>6, <2>1, <2>2, <2>3
<1>8. PICK obj : obj = a \o t
  OBVIOUS
<1>9. obj \in Bytes /\ Len(obj) = (n + z) + l /\ Placed(obj, n, k)
  <2>1. a \o t \in Bytes /\ Len(a \o t) = Len(a) + Len(t)
    BY <1>2, <1>7, JoinedPositions
  <2>2. Placed(a \o t, n, k)
    BY <1>2, <1>4, <1>7, PlacedStays
  <2> QED BY ONLY <1>5, <1>7, <1>8, <2>1, <2>2
<1>10. Object(o) = obj
  BY ONLY <1>1, <1>3, <1>6, <1>8 DEF Object
<1>11. /\ Matches(obj, n) /\ Slice(obj, n + 3, n + 3 + CoordWidth) = x
       /\ Slice(obj, n + 6 + CoordWidth, n + KeySize) = y
  BY <1>2, <1>4, <1>9, KeyTaken
<1>12. \A i \in 0..(n - 1) : ~Matches(obj, i)
  BY ONLY <1>2, <1>5, <1>10
<1>13. PICK found : found = {i \in Scanned(obj) : Matches(obj, i)}
  OBVIOUS
<1>14. \A i \in found : i \in Nat /\ n <= i /\ i + z < (n + z) + l
  <2> TAKE i \in found
  <2>1. i \in 0..Len(obj) /\ i + KeySize < Len(obj) /\ Matches(obj, i)
    BY <1>13 DEF Scanned
  <2>2. i \in Nat /\ i + z < (n + z) + l
    BY ONLY <1>5, <1>9, <2>1, n \in Nat, z \in Nat, l \in Nat
  <2>3. ~(i < n)
    <3>1. i < n => i \in 0..(n - 1)
      BY <2>2
    <3> QED BY ONLY <1>12, <2>1, <3>1
  <2> QED BY <2>2, <2>3
<1>15. CASE t = <<>>
  <2>1. l = 0
    BY <1>5, <1>15
  <2>2. found = {}
    BY <1>14, <2>1
  <2>3. ExtractKey(obj) = Threw
    BY ONLY <1>13, <2>2 DEF ExtractKey
  <2> QED BY ONLY <1>1, <1>10, <1>15, <2>3
<1>16. CASE t # <<>>
  <2>1. l # 0
    BY <1>2, <1>5, <1>16 DEF Bytes
  <2>2. n \in found
    <3>1. n + z < (n + z) + l /\ n \in 0..((n + z) + l)
      BY <2>1
    <3> QED BY ONLY <1>5, <1>9, <1>11, <1>13, <3>1 DEF Scanned
  <2>3. PICK i : i = CHOOSE k1 \in found : \A l1 \in found : k1 <= l1
    OBVIOUS
  <2>4. i \in found /\ \A j \in found : i <= j
    BY ONLY <1>14, <2>2, <2>3
  <2>5. i = n
    BY <1>14, <2>2, <2>4
  <2>6. ExtractKey(obj) =
          Slice(obj, n + 3, n + 3 + CoordWidth) \o Slice(obj, n + 6 + CoordWidth, n + KeySize)
    <3>1. found # {}
      BY ONLY <2>2
    <3>2. ExtractKey(obj) =
            Slice(obj, i + 3, i + 3 + CoordWidth) \o Slice(obj, i + 6 + CoordWidth, i + KeySize)
      BY ONLY <1>13, <2>3, <3>1 DEF ExtractKey
    <3> QED BY ONLY <2>5, <3>2
  <2>7. ExtractKey(obj) = x \o y
    BY ONLY <1>11, <2>6
  <2> QED BY ONLY <1>1, <1>10, <1>16, <2>7
<1> QED BY <1>15, <1>16

-----------------------------------------------------------------------------
(***************************************************************************)
(* Contents of all kinds                                                   *)
(***************************************************************************)
\* b begins with t.
Begins(b, t) == \E x \in Bytes : b = t \o x

LEMMA BeginsMore ==
  \A b, t, x : t \in Bytes /\ x \in Bytes /\ Begins(b, t) => Begins(b \o x, t)
<1> TAKE b, t, x
<1> HAVE t \in Bytes /\ x \in Bytes /\ Begins(b, t)
<1>1. PICK y \in Bytes : b = t \o y
  BY DEF Begins
<1>2. (t \o y) \o x = t \o (y \o x)
  <2>1. Regroups(t, y, x)
    BY JoinedAssociative
  <2> QED BY ONLY <2>1 DEF Regroups
<1>3. y \o x \in Bytes
  BY JoinedBytes
<1> QED BY ONLY <1>1, <1>2, <1>3 DEF Begins

\* A layout begins with what stands first in it, however many fields follow.
LEMMA BeginsTwo ==
  \A t, a, b \in Bytes : Begins(t \o a \o b, t)
<1> TAKE t, a, b \in Bytes
<1>1. PICK p : p = t \o a
  OBVIOUS
<1>2. Begins(p, t)
  BY ONLY <1>1, a \in Bytes DEF Begins
<1>3. Begins(p \o b, t)
  BY ONLY <1>2, t \in Bytes, b \in Bytes, BeginsMore
<1> QED BY ONLY <1>1, <1>3

LEMMA BeginsThree ==
  \A t, a, b, c \in Bytes : Begins(t \o a \o b \o c, t)
<1> TAKE t, a, b, c \in Bytes
<1>1. PICK p : p = t \o a \o b
  OBVIOUS
<1>2. Begins(p, t)
  <2>1. Begins(t \o a \o b, t)
    BY BeginsTwo, Zenon
  <2> QED BY ONLY <1>1, <2>1
<1>3. Begins(p \o c, t)
  BY ONLY <1>2, t \in Bytes, c \in Bytes, BeginsMore
<1> QED BY ONLY <1>1, <1>3

LEMMA BeginsFour ==
  \A t, a, b, c, d \in Bytes : Begins(t \o a \o b \o c \o d, t)
<1> TAKE t, a, b, c, d \in Bytes
<1>1. PICK p : p = t \o a \o b \o c
  OBVIOUS
<1>2. Begins(p, t)
  <2>1. Begins(t \o a \o b \o c, t)
    BY BeginsThree, Zenon
  <2> QED BY ONLY <1>1, <2>1
<1>3. Begins(p \o d, t)
  BY ONLY <1>2, t \in Bytes, d \in Bytes, BeginsMore
<1> QED BY ONLY <1>1, <1>3

LEMMA BeginsFive ==
  \A t, a, b, c, d, e \in Bytes : Begins(t \o a \o b \o c \o d \o e, t)
<1> TAKE t, a, b, c, d, e \in Bytes
<1>1. PICK p : p = t \o a \o b \o c \o d
  OBVIOUS
<1>2. Begins(p, t)
  <2>1. Begins(t \o a \o b \o c \o d, t)
    BY BeginsFour, Zenon
  <2> QED BY ONLY <1>1, <2>1
<1>3. Begins(p \o e, t)
  BY ONLY <1>2, t \in Bytes, e \in Bytes, BeginsMore
<1> QED BY ONLY <1>1, <1>3

LEMMA BeginsSix ==
  \A t, a, b, c, d, e, f \in Bytes : Begins(t \o a \o b \o c \o d \o e \o f, t)
<1> TAKE t, a, b, c, d, e, f \in Bytes
<1>1. PICK p : p = t \o a \o b \o c \o d \o e
  OBVIOUS
<1>2. Begins(p, t)
  <2>1. Begins(t \o a \o b \o c \o d \o e, t)
    BY BeginsFive, Zenon
  <2> QED BY ONLY <1>1, <2>1
<1>3. Begins(p \o f, t)
  BY ONLY <1>2, t \in Bytes, f \in Bytes, BeginsMore
<1> QED BY ONLY <1>1, <1>3

LEMMA BeginsEight ==
  \A t, a, b, c, d, e, f, g, h \in Bytes : Begins(t \o a \o b \o c \o d \o e \o f \o g \o h, t)
<1> TAKE t, a, b, c, d, e, f, g, h \in Bytes
<1>1. PICK p : p = t \o a \o b \o c \o d \o e \o f
  OBVIOUS
<1>2. Begins(p, t)
  <2>1. Begins(t \o a \o b \o c \o d \o e \o f, t)
    BY BeginsSix, Zenon
  <2> QED BY ONLY <1>1, <2>1
<1>3. PICK q : q = p \o g
  OBVIOUS
<1>4. Begins(q, t)
  <2>1. Begins(p \o g, t)
    BY ONLY <1>2, t \in Bytes, g \in Bytes, BeginsMore
  <2> QED BY ONLY <1>3, <2>1
<1>5. Begins(q \o h, t)
  BY ONLY <1>4, t \in Bytes, h \in Bytes, BeginsMore
<1> QED BY ONLY <1>1, <1>3, <1>5

Kinds == {"settlement", "envelope", "header", "transfer", "auxiliary",
          "registration", "status", "credential", "service", "claim"}

\* What a content is, of each kind, and its bytes.
ContentOf(m, kind, contents, bytes) ==
  m.kind = kind => m.content \in contents /\ CanonicalBytes(m) = bytes

LEMMA ContentKinds ==
  \A m \in AnyContent :
    LET c == m.content
    IN /\ ContentOf(m, "settlement", Settlements, SettlementSigningPreimage(c))
       /\ ContentOf(m, "envelope", Envelopes, EnvelopeCanonicalPreimage(c))
       /\ ContentOf(m, "header", Headers, EnvelopeToHeaderValue(c))
       /\ ContentOf(m, "transfer", Transfers, TransferPreimage(c))
       /\ ContentOf(m, "auxiliary", Auxiliaries, PackAux(c.authData, c.clientData))
       /\ ContentOf(m, "registration", Registrations, AppRegistrationParams(c))
       /\ ContentOf(m, "status", Statuses, AppStatusParams(c.appId, c.active))
       /\ ContentOf(m, "credential", Credentials,
                    IdentityCredentialParams(c.did, c.credentialType, c.issuer, c.claims))
       /\ ContentOf(m, "service", Services,
                    IdentityServiceParams(c.did, c.serviceType, c.endpoint))
       /\ ContentOf(m, "claim", Claims, IdentityClaimParams(c))
       /\ m.kind \in Kinds /\ m = [kind |-> m.kind, content |-> m.content]
<1> TAKE m \in AnyContent
<1>1. PICK k, c : k = m.kind /\ c = m.content
  OBVIOUS
<1>2. /\ k = "settlement" => c \in Settlements
      /\ k = "envelope" => c \in Envelopes
      /\ k = "header" => c \in Headers
      /\ k = "transfer" => c \in Transfers
      /\ k = "auxiliary" => c \in Auxiliaries
      /\ k = "registration" => c \in Registrations
      /\ k = "status" => c \in Statuses
      /\ k = "credential" => c \in Credentials
      /\ k = "service" => c \in Services
      /\ k = "claim" => c \in Claims
      /\ k \in Kinds /\ m = [kind |-> k, content |-> c]
  BY <1>1 DEF AnyContent, Kinds
<1>3. /\ k = "settlement" => CanonicalBytes(m) = SettlementSigningPreimage(c)
      /\ k = "envelope" => CanonicalBytes(m) = EnvelopeCanonicalPreimage(c)
      /\ k = "header" => CanonicalBytes(m) = EnvelopeToHeaderValue(c)
      /\ k = "transfer" => CanonicalBytes(m) = TransferPreimage(c)
      /\ k = "auxiliary" => CanonicalBytes(m) = PackAux(c.authData, c.clientData)
      /\ k = "registration" => CanonicalBytes(m) = AppRegistrationParams(c)
      /\ k = "status" => CanonicalBytes(m) = AppStatusParams(c.appId, c.active)
      /\ k = "credential" =>
           CanonicalBytes(m) =
             IdentityCredentialParams(c.did, c.credentialType, c.issuer, c.claims)
      /\ k = "service" =>
           CanonicalBytes(m) =
             IdentityServiceParams(c.did, c.serviceType, c.endpoint)
      /\ k = "claim" => CanonicalBytes(m) = IdentityClaimParams(c)
  BY ONLY <1>1 DEF CanonicalBytes
<1> QED BY ONLY <1>1, <1>2, <1>3 DEF ContentOf


TaggedAs(bytes, kind) == bytes # Threw => Begins(bytes, Tag[kind])

LEMMA TagOf == \A kind \in Tags : Tag[kind] \in Bytes
BY TagAssumption

LEMMA FlagByte == \A flag \in BOOLEAN : <<IF flag THEN 1 ELSE 0>> \in Bytes
BY BaseAssumption DEF Bytes, Byte

LEMMA FramedText == \A b \in Framable : Framed(b) \in Bytes
BY FramedBytes DEF Framable

LEMMA SettlementTagged ==
  \A r \in Settlements : TaggedAs(SettlementSigningPreimage(r), "settlement")
<1> TAKE r \in Settlements
<1> SUFFICES ASSUME SettlementSigningPreimage(r) # Threw
             PROVE  Begins(SettlementSigningPreimage(r), Tag["settlement"])
  BY DEF TaggedAs
<1>1. PICK t, a, b, c, d, e, f, g, h :
        /\ t = Tag["settlement"] /\ a = Framed(r.appId) /\ b = BigUintBe(r.chainId, W64)
        /\ c = Framed(r.payerDid) /\ d = BigUintBe(r.amount, W128) /\ e = Framed(r.externalRef)
        /\ f = r.nonce /\ g = BigUintBe(r.expiry, W64) /\ h = Framed(r.keyId)
  OBVIOUS
<1>2. b # Threw /\ d # Threw /\ g # Threw
  BY <1>1 DEF SettlementSigningPreimage
<1>3. t \in Bytes
  BY <1>1, TagOf DEF Tags
<1>4. a \in Bytes /\ c \in Bytes /\ e \in Bytes /\ h \in Bytes /\ f \in Bytes
  BY <1>1, FramedText DEF Settlements, Framable
<1>5. b \in Bytes /\ d \in Bytes /\ g \in Bytes
  BY <1>1, <1>2, BigUintBeKeeps, WidthsAssumption DEF Settlements, Fixed
<1>6. SettlementSigningPreimage(r) = t \o a \o b \o c \o d \o e \o f \o g \o h
  BY ONLY <1>1, SettlementSigningPreimage(r) # Threw
     DEF SettlementSigningPreimage, SettlementLayout
<1>7. Begins(t \o a \o b \o c \o d \o e \o f \o g \o h, t)
  BY ONLY <1>3, <1>4, <1>5, BeginsEight, Zenon
<1> QED BY ONLY <1>1, <1>6, <1>7

LEMMA EnvelopeTagged ==
  \A r \in Envelopes : TaggedAs(EnvelopeCanonicalPreimage(r), "envelope")
<1> TAKE r \in Envelopes
<1> SUFFICES ASSUME EnvelopeCanonicalPreimage(r) # Threw
             PROVE  Begins(EnvelopeCanonicalPreimage(r), Tag["envelope"])
  BY DEF TaggedAs
<1>1. PICK t, a, b, c, d, e :
        /\ t = Tag["envelope"] /\ a = Framed(r.did) /\ b = Framed(r.method)
        /\ c = r.paramsHash /\ d = BigUintBe(r.timestamp, W64) /\ e = r.nonce
  OBVIOUS
<1>2. d # Threw
  BY <1>1 DEF EnvelopeCanonicalPreimage
<1>3. t \in Bytes
  BY <1>1, TagOf DEF Tags
<1>4. a \in Bytes /\ b \in Bytes /\ c \in Bytes /\ e \in Bytes
  BY <1>1, FramedText DEF Envelopes, Fixed
<1>5. d \in Bytes
  BY <1>1, <1>2, BigUintBeKeeps, WidthsAssumption DEF Envelopes, Fixed
<1>6. EnvelopeCanonicalPreimage(r) = t \o a \o b \o c \o d \o e
  BY ONLY <1>1, <1>2 DEF EnvelopeCanonicalPreimage, EnvelopeLayout
<1>7. Begins(t \o a \o b \o c \o d \o e, t)
  BY ONLY <1>3, <1>4, <1>5, BeginsFive, Zenon
<1> QED BY ONLY <1>1, <1>6, <1>7

LEMMA RegistrationTagged ==
  \A r \in Registrations : TaggedAs(AppRegistrationParams(r), "registration")
<1> TAKE r \in Registrations
<1> SUFFICES ASSUME AppRegistrationParams(r) # Threw
             PROVE  Begins(AppRegistrationParams(r), Tag["registration"])
  BY DEF TaggedAs
<1>1. PICK h, z : h = RegistrationHead(r) /\ z = RegistrationTail(r)
  OBVIOUS
<1>2. z \in Bytes /\ AppRegistrationParams(r) = h \o z
  BY <1>1, RegistrationParts
<1>3. PICK t, a, b, c, d : /\ t = Tag["registration"] /\ a = Framed(r.appId)
                           /\ b = Framed(r.developerDid) /\ c = Framed(r.appWallet)
                           /\ d = U32be(Len(r.keys))
  OBVIOUS
<1>4. t \in Bytes
  BY <1>3, TagOf DEF Tags
<1>5. a \in Bytes /\ b \in Bytes /\ c \in Bytes
  BY <1>3, FramedText DEF Registrations
<1>6. d \in Bytes
  BY <1>3, U32Bytes DEF Registrations
<1>7. h = t \o a \o b \o c \o d
  BY ONLY <1>1, <1>3 DEF RegistrationHead
<1>8. Begins(t \o a \o b \o c \o d, t)
  BY ONLY <1>4, <1>5, <1>6, BeginsFour, Zenon
<1>9. Begins(h \o z, t)
  BY ONLY <1>2, <1>4, <1>7, <1>8, BeginsMore
<1> QED BY ONLY <1>2, <1>3, <1>9

LEMMA StatusTagged ==
  \A r \in Statuses : TaggedAs(AppStatusParams(r.appId, r.active), "status")
<1> TAKE r \in Statuses
<1>1. PICK t, a, b : /\ t = Tag["status"] /\ a = Framed(r.appId)
                     /\ b = <<IF r.active THEN 1 ELSE 0>>
  OBVIOUS
<1>2. t \in Bytes
  BY <1>1, TagOf DEF Tags
<1>3. a \in Bytes /\ b \in Bytes
  BY <1>1, FramedText, FlagByte DEF Statuses
<1>4. AppStatusParams(r.appId, r.active) = t \o a \o b
  BY ONLY <1>1 DEF AppStatusParams
<1>5. Begins(t \o a \o b, t)
  BY ONLY <1>2, <1>3, BeginsTwo, Zenon
<1> QED BY ONLY <1>1, <1>4, <1>5 DEF TaggedAs

LEMMA CredentialTagged ==
  \A r \in Credentials :
    TaggedAs(IdentityCredentialParams(r.did, r.credentialType, r.issuer, r.claims), "credential")
<1> TAKE r \in Credentials
<1>1. PICK t, a, b, c, d : /\ t = Tag["credential"] /\ a = Framed(r.did)
                           /\ b = Framed(r.credentialType) /\ c = Framed(r.issuer)
                           /\ d = Framed(r.claims)
  OBVIOUS
<1>2. t \in Bytes
  BY <1>1, TagOf DEF Tags
<1>3. a \in Bytes /\ b \in Bytes /\ c \in Bytes /\ d \in Bytes
  BY <1>1, FramedText DEF Credentials
<1>4. IdentityCredentialParams(r.did, r.credentialType, r.issuer, r.claims)
        = t \o a \o b \o c \o d
  BY ONLY <1>1 DEF IdentityCredentialParams
<1>5. Begins(t \o a \o b \o c \o d, t)
  BY ONLY <1>2, <1>3, BeginsFour, Zenon
<1> QED BY ONLY <1>1, <1>4, <1>5 DEF TaggedAs

LEMMA ServiceTagged ==
  \A r \in Services :
    TaggedAs(IdentityServiceParams(r.did, r.serviceType, r.endpoint), "service")
<1> TAKE r \in Services
<1>1. PICK t, a, b, c : /\ t = Tag["service"] /\ a = Framed(r.did)
                        /\ b = Framed(r.serviceType) /\ c = Framed(r.endpoint)
  OBVIOUS
<1>2. t \in Bytes
  BY <1>1, TagOf DEF Tags
<1>3. a \in Bytes /\ b \in Bytes /\ c \in Bytes
  BY <1>1, FramedText DEF Services
<1>4. IdentityServiceParams(r.did, r.serviceType, r.endpoint) = t \o a \o b \o c
  BY ONLY <1>1 DEF IdentityServiceParams
<1>5. Begins(t \o a \o b \o c, t)
  BY ONLY <1>2, <1>3, BeginsThree, Zenon
<1> QED BY ONLY <1>1, <1>4, <1>5 DEF TaggedAs

LEMMA ClaimTagged ==
  \A r \in Claims : TaggedAs(IdentityClaimParams(r), "claim")
<1> TAKE r \in Claims
<1>1. PICK t, a, b, c, d, e, f :
        /\ t = Tag["claim"] /\ a = Framed(r.address) /\ b = UintBe(r.topic, W64)
        /\ c = Framed(r.issuer) /\ d = Framed(r.data) /\ e = Framed(r.validFrom)
        /\ f = Framed(r.validTo)
  OBVIOUS
<1>2. t \in Bytes
  BY <1>1, TagOf DEF Tags
<1>3. a \in Bytes /\ c \in Bytes /\ d \in Bytes /\ e \in Bytes /\ f \in Bytes
  BY <1>1, FramedText DEF Claims
<1>4. b \in Bytes
  BY <1>1, UintDigits, WidthsAssumption DEF Claims, U64, Fixed
<1>5. IdentityClaimParams(r) = t \o a \o b \o c \o d \o e \o f
  BY ONLY <1>1 DEF IdentityClaimParams, ClaimLayout
<1>6. Begins(t \o a \o b \o c \o d \o e \o f, t)
  BY ONLY <1>2, <1>3, <1>4, BeginsSix, Zenon
<1> QED BY ONLY <1>1, <1>5, <1>6 DEF TaggedAs

\* A content with a domain tag begins with it.
LEMMA ContentTagged ==
  \A m \in AnyContent : m.kind \in Tags => TaggedAs(CanonicalBytes(m), m.kind)
<1> TAKE m \in AnyContent
<1> HAVE m.kind \in Tags
<1>1. PICK k, c : k = m.kind /\ c = m.content
  OBVIOUS
<1>2. CASE k = "settlement"
  BY <1>1, <1>2, ContentKinds, SettlementTagged DEF ContentOf
<1>3. CASE k = "envelope"
  BY <1>1, <1>3, ContentKinds, EnvelopeTagged DEF ContentOf
<1>4. CASE k = "registration"
  BY <1>1, <1>4, ContentKinds, RegistrationTagged DEF ContentOf
<1>5. CASE k = "status"
  BY <1>1, <1>5, ContentKinds, StatusTagged DEF ContentOf
<1>6. CASE k = "credential"
  BY <1>1, <1>6, ContentKinds, CredentialTagged DEF ContentOf
<1>7. CASE k = "service"
  BY <1>1, <1>7, ContentKinds, ServiceTagged DEF ContentOf
<1>8. CASE k = "claim"
  BY <1>1, <1>8, ContentKinds, ClaimTagged DEF ContentOf
<1> QED BY <1>1, <1>2, <1>3, <1>4, <1>5, <1>6, <1>7, <1>8 DEF Tags

\* Two contents of one kind with the same bytes are one.
SameOne(m, n) ==
  CanonicalBytes(m) # Threw /\ CanonicalBytes(m) = CanonicalBytes(n) => m.content = n.content

LEMMA KindDetermines ==
  \A m, n \in AnyContent : m.kind = n.kind => SameOne(m, n)
<1> TAKE m, n \in AnyContent
<1> HAVE m.kind = n.kind
<1> SUFFICES ASSUME CanonicalBytes(m) # Threw, CanonicalBytes(m) = CanonicalBytes(n)
             PROVE  m.content = n.content
  BY DEF SameOne
<1>1. PICK k, c, d : k = m.kind /\ k = n.kind /\ c = m.content /\ d = n.content
  OBVIOUS
<1>2. CASE k = "settlement"
  BY <1>1, <1>2, ContentKinds, SettlementInjective DEF ContentOf
<1>3. CASE k = "envelope"
  BY <1>1, <1>3, ContentKinds, EnvelopeInjective DEF ContentOf
<1>4. CASE k = "header"
  BY <1>1, <1>4, ContentKinds, HeaderInjective DEF ContentOf
<1>5. CASE k = "transfer"
  <2>1. c \in Transfers /\ d \in Transfers /\ TransferPreimage(c) = TransferPreimage(d)
    BY <1>1, <1>5, ContentKinds DEF ContentOf
  <2>2. c = d
    BY <2>1, TransferInjective
  <2> QED BY <1>1, <2>2
<1>6. CASE k = "auxiliary"
  <2>1. c \in Auxiliaries /\ d \in Auxiliaries
        /\ PackAux(c.authData, c.clientData) = PackAux(d.authData, d.clientData)
    BY <1>1, <1>6, ContentKinds DEF ContentOf
  <2>2. c.authData = d.authData /\ c.clientData = d.clientData
    BY <2>1, AuxiliaryInjective DEF Auxiliaries
  <2> QED BY <1>1, <2>1, <2>2 DEF Auxiliaries
<1>7. CASE k = "registration"
  BY <1>1, <1>7, ContentKinds, RegistrationInjective DEF ContentOf
<1>8. CASE k = "status"
  <2>1. c \in Statuses /\ d \in Statuses
        /\ AppStatusParams(c.appId, c.active) = AppStatusParams(d.appId, d.active)
    BY <1>1, <1>8, ContentKinds DEF ContentOf
  <2>2. c.appId = d.appId /\ c.active = d.active
    BY <2>1, StatusInjective DEF Statuses
  <2> QED BY <1>1, <2>1, <2>2 DEF Statuses
<1>9. CASE k = "credential"
  <2>1. /\ c \in Credentials /\ d \in Credentials
        /\ IdentityCredentialParams(c.did, c.credentialType, c.issuer, c.claims)
             = IdentityCredentialParams(d.did, d.credentialType, d.issuer, d.claims)
    BY <1>1, <1>9, ContentKinds DEF ContentOf
  <2>2. c = d
    BY <2>1, CredentialInjective
  <2> QED BY <1>1, <2>2
<1>10. CASE k = "service"
  <2>1. /\ c \in Services /\ d \in Services
        /\ IdentityServiceParams(c.did, c.serviceType, c.endpoint)
             = IdentityServiceParams(d.did, d.serviceType, d.endpoint)
    BY <1>1, <1>10, ContentKinds DEF ContentOf
  <2>2. c = d
    BY <2>1, ServiceInjective
  <2> QED BY <1>1, <2>2
<1>11. CASE k = "claim"
  <2>1. c \in Claims /\ d \in Claims /\ IdentityClaimParams(c) = IdentityClaimParams(d)
    BY <1>1, <1>11, ContentKinds DEF ContentOf
  <2>2. c = d
    BY <2>1, ClaimInjective
  <2> QED BY <1>1, <2>2
<1> QED BY <1>1, <1>2, <1>3, <1>4, <1>5, <1>6, <1>7, <1>8, <1>9, <1>10, <1>11, ContentKinds
     DEF Kinds

\* Contents of different kinds, with their tags, have different bytes.
LEMMA KindsSeparated ==
  \A m, n \in AnyContent :
    /\ {m.kind, n.kind} \subseteq Tags
    /\ CanonicalBytes(m) # Threw /\ CanonicalBytes(m) = CanonicalBytes(n)
    => m.kind = n.kind
<1> TAKE m, n \in AnyContent
<1> HAVE /\ {m.kind, n.kind} \subseteq Tags
         /\ CanonicalBytes(m) # Threw /\ CanonicalBytes(m) = CanonicalBytes(n)
<1>1. PICK k, l \in Tags : k = m.kind /\ l = n.kind
  OBVIOUS
<1>2. PICK b : b = CanonicalBytes(m)
  OBVIOUS
<1>3. Begins(b, Tag[k]) /\ Begins(b, Tag[l])
  BY <1>1, <1>2, ContentTagged DEF TaggedAs
<1>4. PICK x, y \in Bytes : b = Tag[k] \o x /\ b = Tag[l] \o y
  BY <1>3 DEF Begins
<1>5. k = l
  BY <1>4, DomainsSeparated
<1> QED BY <1>1, <1>5

-----------------------------------------------------------------------------
(***************************************************************************)
(* Results of the specification                                            *)
(***************************************************************************)
\* What a call gives.
ValueOf(c) ==
  IF c.fn = "encode" THEN Encode(c.arg)
  ELSE IF c.fn = "decode" THEN Decode(c.arg)
  ELSE IF c.fn = "signature" THEN DerToRaw(Der(c.arg[1], c.arg[2]))
  ELSE IF c.fn = "key" THEN ExtractKey(Object(c.arg))
  ELSE IF c.fn = "sign" THEN CanonicalBytes(c.arg)
  ELSE IF c.fn = "claims" THEN SortJson(c.arg)
  ELSE IF c.fn = "did" THEN ParseTenzroDid(c.arg)
  ELSE IF c.fn = "chain" THEN CaipOfText(c.arg)
  ELSE Base58btcEncode(c.arg)

\* A result is that of the call it answers.
Answered == call \in Calls /\ (result # Pending => result = ValueOf(call))

LEMMA AnsweredInvariant == Spec => []Answered
<1>1. Init => Answered
  BY DEF Init, Answered
<1>2. Answered /\ [Next]_vars => Answered'
  <2> SUFFICES ASSUME Answered, [Next]_vars PROVE Answered'
    OBVIOUS
  <2>1. ASSUME NEW fn, NEW value, Answer(fn, value), call.fn = fn => value = ValueOf(call)
        PROVE  Answered'
    BY <2>1 DEF Answer, Answered
  <2>2. CASE EncodeInstruction
    <3>1. call.fn = "encode" => Encode(call.arg) = ValueOf(call)
      BY DEF ValueOf
    <3> QED BY <2>1, <2>2, <3>1 DEF EncodeInstruction
  <2>3. CASE DecodeInstruction
    <3>1. call.fn = "decode" => Decode(call.arg) = ValueOf(call)
      BY DEF ValueOf
    <3> QED BY <2>1, <2>3, <3>1 DEF DecodeInstruction
  <2>4. CASE ConvertSignature
    <3>1. call.fn = "signature" => DerToRaw(Der(call.arg[1], call.arg[2])) = ValueOf(call)
      BY DEF ValueOf
    <3> QED BY <2>1, <2>4, <3>1 DEF ConvertSignature
  <2>5. CASE FindKey
    <3>1. call.fn = "key" => ExtractKey(Object(call.arg)) = ValueOf(call)
      BY DEF ValueOf
    <3> QED BY <2>1, <2>5, <3>1 DEF FindKey
  <2>6. CASE SignContent
    <3>1. call.fn = "sign" => CanonicalBytes(call.arg) = ValueOf(call)
      BY DEF ValueOf
    <3> QED BY <2>1, <2>6, <3>1 DEF SignContent
  <2>7. CASE SortClaims
    <3>1. call.fn = "claims" => SortJson(call.arg) = ValueOf(call)
      BY DEF ValueOf
    <3> QED BY <2>1, <2>7, <3>1 DEF SortClaims
  <2>8. CASE ParseDid
    <3>1. call.fn = "did" => ParseTenzroDid(call.arg) = ValueOf(call)
      BY DEF ValueOf
    <3> QED BY <2>1, <2>8, <3>1 DEF ParseDid
  <2>9. CASE BuildChainId
    <3>1. call.fn = "chain" => CaipOfText(call.arg) = ValueOf(call)
      BY DEF ValueOf
    <3> QED BY <2>1, <2>9, <3>1 DEF BuildChainId
  <2>10. CASE EncodeKey
    <3>1. call.fn = "base58" => Base58btcEncode(call.arg) = ValueOf(call)
      BY DEF ValueOf
    <3> QED BY <2>1, <2>10, <3>1 DEF EncodeKey
  <2>11. CASE UNCHANGED vars
    <3>1. call' = call /\ result' = result
      BY <2>11 DEF vars
    <3> QED BY <3>1 DEF Answered
  <2> QED BY <2>2, <2>3, <2>4, <2>5, <2>6, <2>7, <2>8, <2>9, <2>10, <2>11 DEF Next
<1> QED BY <1>1, <1>2, PTL DEF Spec

\* The functions that sign or pack (src/app.ts, src/identity.ts, src/wallet.ts,
\* src/passkey.ts): of all contents there are, two of one kind, or of two kinds with a
\* domain tag, never have the same bytes.
THEOREM UnambiguousCorrect == Spec => []Unambiguous
<1>1. Answered => Unambiguous
  <2> SUFFICES ASSUME Answered, Of("sign"), result # Threw, NEW m \in Contents,
                      BytesTable[m] = result,
                      m.kind = call.arg.kind \/ {m.kind, call.arg.kind} \subseteq Tags
               PROVE  m = call.arg
    BY DEF Unambiguous
  <2>1. PICK n : n = call.arg
    OBVIOUS
  <2>2. call \in Calls /\ call.fn = "sign" /\ result = ValueOf(call)
    BY DEF Answered, Of
  <2>3. n \in Contents
    BY ONLY <2>1, <2>2 DEF Calls
  <2>4. m \in AnyContent /\ n \in AnyContent
    BY <2>3, ArgumentsAssumption
  <2>5. result = CanonicalBytes(n)
    BY ONLY <2>1, <2>2 DEF ValueOf
  <2>6. BytesTable[m] = CanonicalBytes(m)
    BY ONLY m \in Contents DEF BytesTable
  <2>7. CanonicalBytes(m) # Threw /\ CanonicalBytes(m) = CanonicalBytes(n)
    BY ONLY <2>5, <2>6, BytesTable[m] = result, result # Threw
  <2>8. m.kind = n.kind
    <3>1. m.kind = n.kind \/ {m.kind, n.kind} \subseteq Tags
      BY ONLY <2>1, m.kind = call.arg.kind \/ {m.kind, call.arg.kind} \subseteq Tags
    <3> QED BY ONLY <2>4, <2>7, <3>1, KindsSeparated
  <2>9. m.content = n.content
    BY ONLY <2>4, <2>7, <2>8, KindDetermines DEF SameOne
  <2>10. m = [kind |-> m.kind, content |-> m.content] /\ n = [kind |-> n.kind, content |-> n.content]
    BY ONLY <2>4, ContentKinds
  <2> QED BY ONLY <2>1, <2>8, <2>9, <2>10
<1> QED BY <1>1, AnsweredInvariant, PTL

\* Every conversion of bytes, keys and identifiers keeps what it converts, whatever it
\* is given - provided that something follows the key in an attestation object.
THEOREM RoundTripsCorrect ==
  (\A o \in Objects : o.after # <<>>) => (Spec => []RoundTrips)
<1> SUFFICES ASSUME \A o \in Objects : o.after # <<>>
             PROVE  Spec => []RoundTrips
  OBVIOUS
<1>1. Answered => RoundTrips
  <2> SUFFICES ASSUME Answered PROVE RoundTrips
    OBVIOUS
  <2>1. PICK a : a = call.arg
    OBVIOUS
  <2>2. \A fn : Of(fn) => call \in Calls /\ call.fn = fn /\ result = ValueOf(call)
    BY DEF Answered, Of
  <2>3. InstructionsRoundTrip
    <3>1. ASSUME Of("encode"), result # Threw PROVE Decode(result) = a
      <4>1. a \in AnyInstruction
        BY <2>1, <2>2, <3>1, ArgumentsAssumption DEF Calls
      <4>2. result = Encode(a)
        BY <2>1, <2>2, <3>1 DEF ValueOf
      <4> QED BY <3>1, <4>1, <4>2, InstructionsDecode
    <3>2. ASSUME Of("decode"), result # Threw PROVE Encode(result) = a
      <4>1. a \in Bytes
        BY <2>1, <2>2, <3>2, ArgumentsAssumption DEF Calls
      <4>2. result = Decode(a)
        BY <2>1, <2>2, <3>2 DEF ValueOf
      <4> QED BY <3>2, <4>1, <4>2, InstructionsEncode
    <3> QED BY <2>1, <3>1, <3>2 DEF InstructionsRoundTrip
  <2>4. SignaturesConvert
    <3> SUFFICES ASSUME Of("signature")
                 PROVE  result = UintBe(a[1], CoordWidth) \o UintBe(a[2], CoordWidth)
      BY <2>1 DEF SignaturesConvert
    <3>1. a \in Nat \X Nat
      BY <2>1, <2>2, ArgumentsAssumption DEF Calls
    <3>2. result = DerToRaw(Der(a[1], a[2]))
      BY <2>1, <2>2 DEF ValueOf
    <3>3. a[1] \in Nat /\ a[2] \in Nat
      BY ONLY <3>1
    <3> QED BY ONLY <3>2, <3>3, SignatureConverts
  <2>5. KeyAlwaysFound
    <3> SUFFICES ASSUME Of("key") PROVE result = a.x \o a.y
      BY <2>1 DEF KeyAlwaysFound
    <3>1. a \in Objects
      BY <2>1, <2>2 DEF Calls
    <3>2. a \in AnyObject /\ a.after # <<>>
      BY <3>1, ArgumentsAssumption
    <3>3. result = ExtractKey(Object(a))
      BY <2>1, <2>2 DEF ValueOf
    <3>4. ExtractKey(Object(a)) = IF a.after = <<>> THEN Threw ELSE a.x \o a.y
      BY ONLY <3>2, KeyExtracted
    <3> QED BY ONLY <3>2, <3>3, <3>4
  <2>6. IdentifiersRoundTrip
    <3>1. ASSUME Of("did")
          PROVE  /\ result # Null => Build(result) = a
                 /\ result = Null =>
                      \A u, v \in Uuids : a \notin
                        {BuildDid("human", u), BuildDid("machine", u), BuildDelegatedMachineDid(u, v)}
      <4>1. a \in Seq(STRING)
        BY <2>1, <2>2, <3>1, ArgumentsAssumption DEF Calls
      <4>2. result = ParseTenzroDid(a)
        BY <2>1, <2>2, <3>1 DEF ValueOf
      <4> QED BY ONLY <4>1, <4>2, DidsRoundTrip
    <3>2. ASSUME Of("chain"), result # Threw
          PROVE  IF a \in HexTexts
                 THEN /\ ParseTenzroCaip2(result) = result[2]
                      /\ \E b \in [1..RefWidth -> Byte] : CaipOfBytes(b) = result
                 ELSE ParseTenzroCaip2(result) = Null
      <4>1. a \in CaipTexts
        BY <2>1, <2>2, <3>2, ArgumentsAssumption DEF Calls
      <4>2. result = CaipOfText(a)
        BY <2>1, <2>2, <3>2 DEF ValueOf
      <4> QED BY ONLY <3>2, <4>1, <4>2, ChainIdsRoundTrip, OtherTextsUnrecognised
    <3>3. ASSUME Of("base58")
          PROVE  /\ Base58Value(result) = FromBe(a) /\ LeadingZeros(result) = LeadingZeros(a)
      <4>1. a \in Bytes
        BY <2>1, <2>2, <3>3, ArgumentsAssumption DEF Calls
      <4>2. result = Base58btcEncode(a)
        BY <2>1, <2>2, <3>3 DEF ValueOf
      <4> QED BY ONLY <4>1, <4>2, Base58KeepsNumber
    <3> QED BY <2>1, <3>1, <3>2, <3>3 DEF IdentifiersRoundTrip
  <2> QED BY <2>3, <2>4, <2>5, <2>6 DEF RoundTrips
<1> QED BY <1>1, AnsweredInvariant, PTL
=============================================================================
