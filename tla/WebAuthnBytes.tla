------------------------------ MODULE WebAuthnBytes ----------------------------
(***************************************************************************)
(* The byte formats of src/passkey.ts: signatures as an authenticator      *)
(* returns them (DER) and as the validator wants them (r and s, padded),   *)
(* the P-256 key inside an attestation object, the auxiliary data of an    *)
(* assertion.                                                              *)
(***************************************************************************)
EXTENDS Bytes

CONSTANT CoordWidth    \* 32: a coordinate of P-256, and r and s

\* A byte can count the bytes of a signature: 70 of 256.
ASSUME CoordAssumption == CoordWidth \in Nat \ {0} /\ 2 * (CoordWidth + 3) < Base

\* 0x30, 0x02 and the three bytes before each coordinate: any distinct bytes.
SEQUENCE == 3
INTEGER == 2
XHead == <<Base - 3, Base - 1, CoordWidth>>
YHead == <<Base - 2, Base - 1, CoordWidth>>

Sign == Base \div 2       \* 0x80
-----------------------------------------------------------------------------
(***************************************************************************)
(* Signatures                                                              *)
(***************************************************************************)

\* An authenticator's DER: no leading zeros, but one before a set sign bit;
\* lengths from 0x80 on in long form.
MinimalInt(v) ==
  LET full == UintBe(v, CoordWidth)
      first == CHOOSE i \in 1..CoordWidth :
                 /\ full[i] # 0 \/ i = CoordWidth
                 /\ \A j \in 1..(i - 1) : full[j] = 0
      digits == SubSeq(full, first, CoordWidth)
  IN  IF digits[1] >= Sign THEN <<0>> \o digits ELSE digits

DerInteger(v) == <<INTEGER, Len(MinimalInt(v))>> \o MinimalInt(v)

DerLength(n) == IF n < Sign THEN <<n>> ELSE <<Sign + 1, n>>

Der(r, s) ==
  LET ints == DerInteger(r) \o DerInteger(s)
  IN  <<SEQUENCE>> \o DerLength(Len(ints)) \o ints

StripLeadingZero(b) == IF Len(b) > 1 /\ b[1] = 0 THEN Tail(b) ELSE b

\* out.set(b, end - b.length)
SetUpTo(out, b, end) ==
  [k \in DOMAIN out |->
     IF k \in (end - Len(b) + 1)..end THEN b[k - (end - Len(b))] ELSE out[k]]

\* der[i], with undefined beyond the end.
At(der, i) == IF i \in DOMAIN der THEN der[i] ELSE -1

\* derToRawP256: r and s end where their halves do.  A set that begins before the
\* array is a RangeError; an s longer than its half reaches into that of r.
DerToRaw(der) ==
  LET lenBytes == IF At(der, 2) >= Sign THEN At(der, 2) - Sign ELSE 0
      i == 2 + lenBytes
      rLen == At(der, i + 2)
      r == StripLeadingZero(Slice(der, i + 2, i + 2 + rLen))
      j == i + 2 + rLen
      sLen == At(der, j + 2)
      s == StripLeadingZero(Slice(der, j + 2, j + 2 + sLen))
  IN  IF At(der, 1) # SEQUENCE \/ At(der, i + 1) # INTEGER THEN Threw
      ELSE IF At(der, j + 1) # INTEGER THEN Threw
      ELSE IF Len(r) > CoordWidth \/ Len(s) > 2 * CoordWidth THEN Threw
      ELSE SetUpTo(SetUpTo(Zeros(2 * CoordWidth), r, CoordWidth), s, 2 * CoordWidth)
-----------------------------------------------------------------------------
(***************************************************************************)
(* Keys                                                                    *)
(***************************************************************************)
KeySize == 2 * (3 + CoordWidth)

\* The end of the COSE key that an authenticator embeds.
CoseCoordinates(x, y) == XHead \o x \o YHead \o y

Matches(obj, i) ==
  /\ SubSeq(obj, i + 1, i + 3) = XHead
  /\ SubSeq(obj, i + 4 + CoordWidth, i + 6 + CoordWidth) = YHead

\* The offsets that the scan of extractCosePublicKey visits: i + 70 < length.
Scanned(obj) == {i \in 0..Len(obj) : i + KeySize < Len(obj)}

\* extractCosePublicKey: the coordinates after the first match.
ExtractKey(obj) ==
  LET found == {i \in Scanned(obj) : Matches(obj, i)}
  IN  IF found = {} THEN Threw
      ELSE LET i == CHOOSE k \in found : \A l \in found : k <= l
           IN  Slice(obj, i + 3, i + 3 + CoordWidth)
                 \o Slice(obj, i + 6 + CoordWidth, i + KeySize)

-----------------------------------------------------------------------------
\* packAux: both parts framed, lengths little-endian.
FramedLe(b) == LET n == U32be(Len(b)) IN <<n[4], n[3], n[2], n[1]>> \o b

PackAux(authData, clientData) == FramedLe(authData) \o FramedLe(clientData)
=============================================================================
