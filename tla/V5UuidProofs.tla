---------------------------- MODULE V5UuidProofs ----------------------------
(***************************************************************************)
(* Proofs about version 5: first V5Hash, for every size of a block, a      *)
(* namespace, a length and a byte, and any names; then, for SHA-1's block, *)
(* a whole call of V5Uuid.                                                 *)
(*                                                                         *)
(* V5Hash.  A step leaves what the padding of FIPS 180-4 has at the place  *)
(* where the next block will go, so a block that is compressed is the      *)
(* padded message's.  The length's bytes come from shifts in the code and  *)
(* from one division after another in the padding (Digits).  The digest's  *)
(* bits are followed through the byte swap and the two masks (OctetBits).  *)
(*                                                                         *)
(* V5Uuid.  The code's compression and the standard's run side by side:    *)
(* UuidInv says that they have the same words, and that the standard's     *)
(* queue of sixteen holds the last of the code's schedule of eighty.       *)
(***************************************************************************)
EXTENDS V5Uuid, SequenceTheorems, WellFoundedInduction, TLAPS

-----------------------------------------------------------------------------
(* Division. *)

LEMMA DivMod ==
    ASSUME NEW x \in Nat, NEW b \in Nat \ {0}
    PROVE  /\ x \div b \in Nat /\ x % b \in 0 .. b - 1
           /\ x = b * (x \div b) + (x % b)
  BY SMTT(20)

LEMMA MulMono ==
    ASSUME NEW a \in Nat, NEW b \in Nat, NEW c \in Nat, a <= b
    PROVE  c * a <= c * b
  BY SMTT(20)

LEMMA MulSum ==
    ASSUME NEW a \in Nat, NEW b \in Nat, NEW c \in Nat
    PROVE  (a + b) * c = a * c + b * c
  BY SMTT(20)

LEMMA MulSwap ==
    ASSUME NEW a \in Nat, NEW b \in Nat, NEW c \in Nat
    PROVE  (a * b) * c = (a * c) * b
  BY SMTT(20)

LEMMA MulPositive ==
    ASSUME NEW a \in Nat \ {0}, NEW b \in Nat \ {0}
    PROVE  a * b \in Nat \ {0} /\ a * b = b * a
  BY SMTT(20)

(* There is one quotient and one rest.                                     *)
LEMMA DivUnique ==
    ASSUME NEW b \in Nat \ {0}, NEW q \in Nat, NEW r \in 0 .. b - 1,
           NEW x \in Nat, x = b * q + r
    PROVE  x \div b = q /\ x % b = r
  <1>1. PICK d \in Nat, m \in 0 .. b - 1 : d = x \div b /\ m = x % b /\ x = b * d + m
    BY DivMod
  <1>2. ~(d + 1 <= q)
    <2>1. SUFFICES ASSUME d + 1 <= q PROVE FALSE
      OBVIOUS
    <2>2. b * (d + 1) <= b * q
      BY <1>1, <2>1, MulMono
    <2>3. b * (d + 1) = b * d + b /\ b * d \in Nat /\ b * q \in Nat
      BY <1>1
    <2> QED BY <1>1, <2>2, <2>3
  <1>3. ~(q + 1 <= d)
    <2>1. SUFFICES ASSUME q + 1 <= d PROVE FALSE
      OBVIOUS
    <2>2. b * (q + 1) <= b * d
      BY <1>1, <2>1, MulMono
    <2>3. b * (q + 1) = b * q + b /\ b * d \in Nat /\ b * q \in Nat
      BY <1>1
    <2> QED BY <1>1, <2>2, <2>3
  <1>4. d = q
    BY <1>1, <1>2, <1>3
  <1>5. b * d = b * q /\ b * q \in Nat
    BY <1>1, <1>4
  <1> QED BY <1>1, <1>4, <1>5

(* Dividing twice divides by the product.                                  *)
LEMMA DivDiv ==
    ASSUME NEW x \in Nat, NEW a \in Nat \ {0}, NEW b \in Nat \ {0}
    PROVE  (x \div a) \div b = x \div (a * b)
  <1>1. PICK q \in Nat, r \in 0 .. a - 1 : q = x \div a /\ x = a * q + r
    BY DivMod
  <1>2. PICK p \in Nat, s \in 0 .. b - 1 : p = q \div b /\ q = b * p + s
    BY DivMod
  <1>3. a * b \in Nat \ {0}
    BY SMTT(20)
  <1>4. a * s + r \in 0 .. (a * b) - 1
    <2>1. s + 1 <= b /\ s \in Nat
      BY <1>2
    <2>2. a * (s + 1) <= a * b
      BY <2>1, MulMono
    <2>3. a * (s + 1) = a * s + a /\ a * s \in Nat /\ a * b \in Nat
      BY <2>1
    <2> QED BY <1>1, <2>2, <2>3
  <1>5. x = (a * b) * p + (a * s + r)
    <2>1. a * q = a * (b * p) + a * s
      BY <1>2
    <2>2. a * (b * p) = (a * b) * p
      BY <1>2
    <2>3. a * s \in Nat /\ (a * b) * p \in Nat /\ a * q \in Nat
      BY <1>1, <1>2, <1>3
    <2> QED BY <1>1, <2>1, <2>2, <2>3
  <1>6. x \div (a * b) = p
    <2>1. PICK c \in Nat \ {0} : c = a * b
      BY <1>3
    <2>2. PICK y \in 0 .. c - 1 : y = a * s + r
      BY <1>4, <2>1
    <2>3. x = c * p + y
      BY <1>5, <2>1, <2>2
    <2>4. x \div c = p
      BY <2>3, DivUnique, Zenon
    <2> QED BY <2>1, <2>4
  <1> QED BY <1>1, <1>2, <1>6

(* A quotient below a product, divided by one factor, is below the other.  *)
LEMMA DivBelow ==
    ASSUME NEW g \in Nat, NEW a \in Nat \ {0}, NEW b \in Nat \ {0}, g < a * b
    PROVE  g \div a \in 0 .. b - 1
  <1>1. PICK q \in Nat, r \in 0 .. a - 1 : q = g \div a /\ g = a * q + r
    BY DivMod
  <1>2. ~(b <= q)
    <2>1. SUFFICES ASSUME b <= q PROVE FALSE
      OBVIOUS
    <2>2. a * b <= a * q
      BY <1>1, <2>1, MulMono
    <2>3. a * b \in Nat /\ a * q \in Nat
      BY <1>1
    <2> QED BY <1>1, <2>2, <2>3
  <1> QED BY <1>1, <1>2

-----------------------------------------------------------------------------
(* The length's bytes. *)

(* The bits to a byte divide its values: what is left of the first byte    *)
(* when a length in bytes becomes one in bits.                             *)
Rest == Radix \div ByteBits

LEMMA Sizes ==
    /\ Block \in Nat /\ NsSize \in Nat /\ NsSize > 0 /\ NsSize < Block
    /\ LenSize \in Nat /\ LenSize >= 5 /\ LenSize < Block
  BY SizesAssumption

LEMMA Radices ==
    /\ Radix \in Nat \ {0} /\ ByteBits \in Nat \ {0} /\ Rest \in Nat \ {0}
    /\ Radix = Rest * ByteBits /\ ByteBits <= Radix
  <1>1. Radix \in Nat \ {0} /\ ByteBits \in Nat \ {0} /\ Radix % ByteBits = 0
    BY SizesAssumption
  <1>2. Rest \in Nat /\ Radix = ByteBits * Rest + 0
    BY <1>1, DivMod DEF Rest
  <1>3. Rest # 0
    <2>1. SUFFICES ASSUME Rest = 0 PROVE FALSE
      OBVIOUS
    <2>2. ByteBits * 0 = 0
      BY <1>1
    <2> QED BY <1>1, <1>2, <2>1, <2>2
  <1>4. ByteBits * Rest \in Nat /\ ByteBits * Rest = Rest * ByteBits
    BY <1>1, <1>2
  <1>5. ByteBits * 1 <= ByteBits * Rest
    BY <1>1, <1>2, <1>3, MulMono
  <1> QED BY <1>1, <1>2, <1>3, <1>4, <1>5

(* The first byte, and what is above it.                                   *)
LEMMA FirstShift ==
    ASSUME NEW t \in Nat
    PROVE  /\ t * ByteBits \in Nat
           /\ (t * ByteBits) % Radix = (t % Rest) * ByteBits
           /\ (t * ByteBits) \div Radix = t \div Rest
  <1>1. PICK q \in Nat, r \in 0 .. Rest - 1 : q = t \div Rest /\ r = t % Rest /\ t = Rest * q + r
    BY Radices, DivMod
  <1>2. t * ByteBits \in Nat /\ r * ByteBits \in Nat /\ r \in Nat
    BY <1>1, Radices
  <1>3. t * ByteBits = Radix * q + r * ByteBits
    <2>1. Rest * q \in Nat /\ r \in Nat /\ ByteBits \in Nat /\ Rest \in Nat
      BY <1>1, Radices
    <2>2. (Rest * q + r) * ByteBits = (Rest * q) * ByteBits + r * ByteBits
      BY <2>1, MulSum
    <2>3. (Rest * q) * ByteBits = (Rest * ByteBits) * q
      BY <1>1, <2>1, MulSwap
    <2>4. Rest * ByteBits = Radix
      BY Radices
    <2> QED BY <1>1, <2>2, <2>3, <2>4
  <1>4. r * ByteBits \in 0 .. Radix - 1
    <2>1. ByteBits * (r + 1) <= ByteBits * Rest
      BY <1>1, Radices, MulMono
    <2>2. ByteBits * (r + 1) = r * ByteBits + ByteBits /\ ByteBits * Rest = Radix
      BY <1>1, Radices
    <2> QED BY <1>2, <2>1, <2>2, Radices
  <1>5. (t * ByteBits) \div Radix = q /\ (t * ByteBits) % Radix = r * ByteBits
    <2>1. PICK x \in Nat : x = t * ByteBits
      BY <1>2
    <2>2. PICK y \in 0 .. Radix - 1 : y = r * ByteBits
      BY <1>4
    <2>3. PICK b \in Nat \ {0} : b = Radix
      BY SizesAssumption
    <2>4. PICK z \in 0 .. b - 1 : z = y
      BY <2>3
    <2>5. x = b * q + z
      BY <1>3, <2>1, <2>2, <2>3, <2>4
    <2>6. x \div b = q
      BY <2>5, DivUnique, Zenon
    <2>7. x % b = z
      <3>1. x % b \in 0 .. b - 1 /\ x = b * (x \div b) + (x % b)
        BY DivMod, Zenon
      <3>2. PICK m \in 0 .. b - 1 : m = x % b
        BY <3>1, Zenon
      <3>3. x = b * q + m
        BY <2>6, <3>1, <3>2, Zenon
      <3>4. PICK e \in Nat : e = b * q
        OBVIOUS
      <3>5. m \in Nat /\ z \in Nat
        BY <2>3
      <3> QED BY <2>5, <3>2, <3>3, <3>4, <3>5
    <2> QED BY <2>1, <2>2, <2>3, <2>4, <2>6, <2>7
  <1> QED BY <1>1, <1>2, <1>5

(* The shifts of a length, one after the other.                            *)
Shifts(t, f) ==
    f = [j \in 0 .. LenSize - 1 |-> IF j = 0 THEN t * ByteBits ELSE f[j - 1] \div Radix]

LEMMA LeastOf ==
    ASSUME NEW all, all \subseteq Nat, all # {}
    PROVE  \E m \in all : \A k \in all : m <= k
  <1>1. PICK m \in all : \A k \in all : <<k, m>> \notin OpToRel(<, Nat)
    BY NatLessThanWellFounded, WFMin
  <1>2. ASSUME NEW a \in Nat, NEW b \in Nat, a < b PROVE <<a, b>> \in OpToRel(<, Nat)
    BY <1>2 DEF OpToRel
  <1>3. ASSUME NEW k \in all, k < m PROVE FALSE
    BY <1>1, <1>2, <1>3
  <1> QED BY <1>3

LEMMA ShiftsUnique ==
    ASSUME NEW t, NEW f, NEW g, Shifts(t, f), Shifts(t, g), NEW j \in 0 .. LenSize - 1
    PROVE  f[j] = g[j]
  <1> DEFINE apart == { k \in 0 .. LenSize - 1 : f[k] # g[k] }
  <1>1. SUFFICES ASSUME apart # {} PROVE FALSE
    OBVIOUS
  <1>2. apart \subseteq Nat
    OBVIOUS
  <1>3. PICK m \in apart : \A k \in apart : m <= k
    BY <1>1, <1>2, LeastOf
  <1>4. m \in 0 .. LenSize - 1 /\ f[m] # g[m]
    BY <1>3
  <1>5. /\ \A k \in 0 .. LenSize - 1 : f[k] = IF k = 0 THEN t * ByteBits ELSE f[k - 1] \div Radix
        /\ \A k \in 0 .. LenSize - 1 : g[k] = IF k = 0 THEN t * ByteBits ELSE g[k - 1] \div Radix
    BY DEF Shifts
  <1>6. m # 0
    BY <1>4, <1>5
  <1>7. m - 1 \in 0 .. LenSize - 1 /\ ~(m <= m - 1)
    BY <1>4, <1>6, Sizes
  <1>8. f[m - 1] = g[m - 1]
    BY <1>3, <1>7
  <1> QED BY <1>4, <1>5, <1>6, <1>8

(* What a shift is by the code's arithmetic.                               *)
Shift(t, j) ==
    IF j = 0 THEN t * ByteBits
    ELSE IF j = 1 THEN t \div Rest
    ELSE IF j = 2 THEN t \div (Rest * Radix)
    ELSE IF j = 3 THEN t \div (Rest * Radix * Radix)
    ELSE IF j = 4 THEN (t \div (Rest * Radix * Radix)) \div Radix
    ELSE 0

(* Messages shorter than four bytes can count.                             *)
Short(t) == t \in Nat /\ (t \div (Radix * Radix)) \div Radix < Radix

LEMMA Products ==
    /\ Rest * Radix \in Nat \ {0} /\ Rest * Radix * Radix \in Nat \ {0}
    /\ Radix * Radix \in Nat \ {0} /\ Radix * Radix * Radix \in Nat \ {0}
  <1>1. Radix \in Nat \ {0} /\ Rest \in Nat \ {0}
    BY Radices
  <1>2. Rest * Radix \in Nat \ {0} /\ Radix * Radix \in Nat \ {0}
    BY <1>1, MulPositive
  <1> QED BY <1>1, <1>2, MulPositive

LEMMA FifthByte ==
    ASSUME NEW t, Short(t)
    PROVE  Shift(t, 4) \in 0 .. ByteBits - 1
  <1>1. t \in Nat
    BY DEF Short
  <1> DEFINE g == (t \div (Radix * Radix)) \div Radix
  <1>2. g \in Nat /\ g < Rest * ByteBits
    <2>1. t \div (Radix * Radix) \in Nat
      BY <1>1, Products, DivMod
    <2> QED BY <2>1, Radices, DivMod DEF Short
  <1>8. Radix \in Nat \ {0} /\ Rest \in Nat \ {0}
    BY Radices
  <1>9. PICK square \in Nat \ {0}, cube \in Nat \ {0}, high \in Nat \ {0} :
            square = Radix * Radix /\ cube = square * Radix /\ high = Rest * Radix * Radix
    BY Products
  <1>3. g = t \div cube
    BY <1>1, <1>8, <1>9, DivDiv
  <1>4. g \div Rest = t \div (cube * Rest)
    <2>1. (t \div cube) \div Rest = t \div (cube * Rest)
      BY <1>1, <1>8, DivDiv, Zenon
    <2> QED BY <1>3, <2>1, Zenon
  <1>5. Shift(t, 4) = t \div (high * Radix)
    <2>1. (t \div high) \div Radix = t \div (high * Radix)
      BY <1>1, <1>8, DivDiv, Zenon
    <2>2. Shift(t, 4) = (t \div (Rest * Radix * Radix)) \div Radix
      BY DEF Shift
    <2> QED BY <1>9, <2>1, <2>2, Zenon
  <1>6. cube * Rest = high * Radix
    <2>1. cube * Rest = (square * Rest) * Radix
      BY <1>8, <1>9, MulSwap
    <2>2. (Radix * Radix) * Rest = (Radix * Rest) * Radix
      BY <1>8, MulSwap
    <2>3. Radix * Rest = Rest * Radix
      BY <1>8, MulPositive
    <2> QED BY <1>9, <2>1, <2>2, <2>3
  <1>7. g \div Rest \in 0 .. ByteBits - 1
    <2> HIDE DEF g
    <2> QED BY <1>2, Radices, DivBelow
  <1> QED BY <1>4, <1>5, <1>6, <1>7

LEMMA ShiftsAre ==
    ASSUME NEW t, Short(t)
    PROVE  Shifts(t, [j \in 0 .. LenSize - 1 |-> Shift(t, j)])
  <1> DEFINE g == [j \in 0 .. LenSize - 1 |-> Shift(t, j)]
  <1>1. t \in Nat
    BY DEF Short
  <1>2. Shift(t, 0) = t * ByteBits
    BY DEF Shift
  <1>3. Shift(t, 1) = Shift(t, 0) \div Radix
    BY <1>1, FirstShift DEF Shift
  <1>4. Shift(t, 2) = Shift(t, 1) \div Radix
    <2>1. Radix \in Nat \ {0} /\ Rest \in Nat \ {0}
      BY Radices
    <2>2. (t \div Rest) \div Radix = t \div (Rest * Radix)
      BY <1>1, <2>1, DivDiv, Zenon
    <2>3. Shift(t, 1) = t \div Rest /\ Shift(t, 2) = t \div (Rest * Radix)
      BY DEF Shift
    <2> QED BY <2>2, <2>3, Zenon
  <1>5. Shift(t, 3) = Shift(t, 2) \div Radix
    <2>1. PICK x \in Nat \ {0} : x = Rest * Radix
      BY Products
    <2>2. Radix \in Nat \ {0}
      BY Radices
    <2>3. (t \div x) \div Radix = t \div (x * Radix)
      BY <1>1, <2>2, DivDiv
    <2> QED BY <2>1, <2>3 DEF Shift
  <1>6. Shift(t, 4) = Shift(t, 3) \div Radix
    BY DEF Shift
  <1>7. 0 \div Radix = 0
    BY Radices, DivUnique
  <1>8. Shift(t, 4) \div Radix = 0
    <2>1. PICK x \in Nat : x = Shift(t, 4) /\ x < Radix
      BY FifthByte, Radices
    <2>2. x = Radix * 0 + x /\ x \in 0 .. Radix - 1
      BY <2>1, Radices
    <2> QED BY <2>1, <2>2, Radices, DivUnique
  <1>9. ASSUME NEW j \in 1 .. LenSize - 1 PROVE Shift(t, j) = Shift(t, j - 1) \div Radix
    <2>1. CASE j \in {1, 2, 3, 4}
      BY <2>1, <1>3, <1>4, <1>5, <1>6
    <2>2. CASE j = 5
      <3>1. Shift(t, 5) = 0 /\ 5 - 1 = 4
        BY DEF Shift
      <3> QED BY <1>8, <2>2, <3>1
    <2>3. CASE j > 5
      <3>1. Shift(t, j) = 0 /\ Shift(t, j - 1) = 0
        BY <2>3 DEF Shift
      <3> QED BY <1>7, <3>1
    <2> QED BY <2>1, <2>2, <2>3
  <1>10. \A j \in 0 .. LenSize - 1 :
            Shift(t, j) = IF j = 0 THEN t * ByteBits ELSE g[j - 1] \div Radix
    <2> SUFFICES ASSUME NEW j \in 0 .. LenSize - 1, j # 0
                 PROVE  Shift(t, j) = g[j - 1] \div Radix
      BY <1>2
    <2>1. j \in 1 .. LenSize - 1 /\ j - 1 \in 0 .. LenSize - 1
      BY Sizes
    <2> QED BY <1>9, <2>1
  <1> QED BY <1>10 DEF Shifts

(* The code's length bytes are the padding's.                              *)
LEMMA Digits ==
    ASSUME NEW t, Short(t), NEW j \in 0 .. LenSize - 1
    PROVE  LengthByte(t, j) = Shifted(t)[j] % Radix
  <1>1. t \in Nat
    BY DEF Short
  <1>2. Shifts(t, Shifted(t))
    BY ShiftsAre, Zenon DEF Shifts, Shifted
  <1>3. Shifted(t)[j] = Shift(t, j)
    <2> DEFINE g == [k \in 0 .. LenSize - 1 |-> Shift(t, k)]
    <2>1. g[j] = Shift(t, j)
      OBVIOUS
    <2>2. Shifts(t, g)
      BY ShiftsAre
    <2> HIDE DEF g
    <2> QED BY <1>2, <2>1, <2>2, ShiftsUnique
  <1>4. CASE j = 0
    BY <1>1, <1>3, <1>4, FirstShift DEF Shift, LengthByte, Rest
  <1>5. CASE j \in {1, 2, 3}
    BY <1>3, <1>5 DEF Shift, LengthByte, Rest
  <1>6. CASE j = 4
    <2>1. PICK x \in Nat : x = Shift(t, 4) /\ x < ByteBits /\ x < Radix
      BY FifthByte, Radices
    <2>2. x = Radix * 0 + x /\ x \in 0 .. Radix - 1 /\ x = ByteBits * 0 + x /\ x \in 0 .. ByteBits - 1
      BY <2>1, Radices
    <2>3. x % Radix = x /\ x % ByteBits = x
      BY <2>1, <2>2, Radices, DivUnique
    <2>4. LengthByte(t, j) = Shift(t, 4) % ByteBits
      BY <1>6 DEF Shift, LengthByte, Rest
    <2> QED BY <1>3, <1>6, <2>1, <2>3, <2>4
  <1>7. CASE j > 4
    <2>1. 0 % Radix = 0
      BY Radices, DivUnique
    <2> QED BY <1>3, <1>7, <2>1 DEF Shift, LengthByte
  <1> QED BY <1>4, <1>5, <1>6, <1>7
-----------------------------------------------------------------------------
(* The padded message. *)

Total(n) == n + NsSize

PaddedBlock(n, k) == [p \in Places |-> PaddedByte(n, ((k - 1) * Block) + p)]

(* Its first k blocks.                                                     *)
PaddedBlocks(n, k) == [j \in 1 .. k |-> PaddedBlock(n, j)]

LEMMA BytesOf ==
    ASSUME NEW n \in Nat, NEW p \in Nat, NEW size \in Nat, size = Padded(n) * Block
    PROVE  /\ p < Total(n) =>
                PaddedByte(n, p) = IF p < NsSize THEN Ns(p) ELSE Name(p - NsSize)
           /\ p = Total(n) => PaddedByte(n, p) = Num(128)
           /\ Total(n) < p /\ p < size - LenSize => PaddedByte(n, p) = Num(0)
           /\ Total(n) < p /\ p >= size - LenSize =>
                PaddedByte(n, p) = Num(Shifted(Total(n))[size - 1 - p] % Radix)
  BY Sizes DEF PaddedByte, Total

(* How many blocks there are beyond the message's q whole ones and u bytes *)
(* of another.                                                             *)
LEMMA PadCount ==
    ASSUME NEW n \in Nat, NEW q \in Nat, NEW u \in Places, Total(n) = (q * Block) + u
    PROVE  Padded(n) = IF NoRoom(u) THEN q + 2 ELSE q + 1
  <1>1. PICK b \in Nat \ {0} : b = Block
    BY Sizes
  <1>2. PICK e \in Nat : e = b * q
    BY <1>1
  <1>3. u \in Nat /\ u < b /\ Total(n) = e + u
    BY <1>1, <1>2 DEF Places
  <1>4. PICK x \in Nat : x = e + b + (u + LenSize)
    BY <1>3, Sizes
  <1>5. Padded(n) = x \div b
    <2>1. n + NsSize + 1 + LenSize + Block - 1 = x
      BY <1>1, <1>3, <1>4, Sizes DEF Total
    <2> QED BY <1>1, <2>1 DEF Padded
  <1>6. CASE NoRoom(u)
    <2>1. PICK r \in 0 .. b - 1 : r = u + LenSize - b
      BY <1>1, <1>3, <1>6, Sizes DEF NoRoom
    <2>2. PICK d \in Nat : d = q + 2
      OBVIOUS
    <2>3. b * d = e + b + b
      BY <1>2, <2>2
    <2>4. x = b * d + r
      BY <1>3, <1>4, <2>1, <2>3, Sizes
    <2>5. x \div b = d
      BY <2>4, DivUnique, Zenon
    <2> QED BY <1>5, <1>6, <2>2, <2>5
  <1>7. CASE ~NoRoom(u)
    <2>1. PICK r \in 0 .. b - 1 : r = u + LenSize
      BY <1>1, <1>3, <1>7, Sizes DEF NoRoom
    <2>2. PICK d \in Nat : d = q + 1
      OBVIOUS
    <2>3. b * d = e + b
      BY <1>2, <2>2
    <2>4. x = b * d + r
      BY <1>3, <1>4, <2>1, <2>3, Sizes
    <2>5. x \div b = d
      BY <2>4, DivUnique, Zenon
    <2> QED BY <1>5, <1>7, <2>2, <2>5
  <1> QED BY <1>6, <1>7

(* The message, the mark and the length have room.                         *)
LEMMA PaddedRoom ==
    ASSUME NEW n \in Nat
    PROVE  Padded(n) \in Nat \ {0} /\ Padded(n) * Block \in Nat
           /\ Total(n) + 1 + LenSize <= Padded(n) * Block
  <1>1. PICK b \in Nat \ {0} : b = Block
    BY Sizes
  <1>2. PICK x \in Nat : x = n + NsSize + 1 + LenSize + Block - 1
    BY Sizes
  <1>3. PICK d \in Nat, m \in 0 .. b - 1 : d = x \div b /\ x = b * d + m
    <2>1. x \div b \in Nat /\ x % b \in 0 .. b - 1 /\ x = b * (x \div b) + (x % b)
      BY DivMod, Zenon
    <2> QED BY <2>1, Zenon
  <1>4. Padded(n) = d
    BY <1>1, <1>2, <1>3 DEF Padded
  <1>5. PICK e \in Nat : e = b * d
    OBVIOUS
  <1>6. d * Block = e
    BY <1>1, <1>5
  <1>7. x = e + m /\ m \in Nat /\ m < b
    BY <1>3, <1>5
  <1>8. Total(n) + 1 + LenSize <= e /\ e > 0
    BY <1>1, <1>2, <1>7, Sizes DEF Total
  <1>9. d # 0
    <2>1. SUFFICES ASSUME d = 0 PROVE FALSE
      OBVIOUS
    <2>2. b * 0 = 0
      OBVIOUS
    <2> QED BY <1>5, <1>8, <2>1, <2>2
  <1> QED BY <1>4, <1>6, <1>8, <1>9

-----------------------------------------------------------------------------
(* Sequences of its blocks. *)

LEMMA BlocksSeq ==
    ASSUME NEW n, NEW k \in Nat
    PROVE  /\ PaddedBlocks(n, k) \in Seq({ PaddedBlock(n, j) : j \in Nat })
           /\ Len(PaddedBlocks(n, k)) = k
  <1> DEFINE all == { PaddedBlock(n, j) : j \in Nat }
  <1>1. \A j \in 1 .. k : PaddedBlock(n, j) \in all
    OBVIOUS
  <1> HIDE DEF all
  <1>2. PaddedBlocks(n, k) \in [1 .. k -> all]
    BY <1>1 DEF PaddedBlocks
  <1>3. PaddedBlocks(n, k) \in Seq(all) /\ Len(PaddedBlocks(n, k)) = k
    BY <1>2
  <1> QED BY <1>3 DEF all

LEMMA OneMore ==
    ASSUME NEW n, NEW k \in Nat
    PROVE  Append(PaddedBlocks(n, k), PaddedBlock(n, k + 1)) = PaddedBlocks(n, k + 1)
  <1> DEFINE all == { PaddedBlock(n, j) : j \in Nat }
             s == PaddedBlocks(n, k)
             t == PaddedBlocks(n, k + 1)
             b == PaddedBlock(n, k + 1)
  <1>1. s \in Seq(all) /\ t \in Seq(all) /\ b \in all /\ Len(s) = k /\ Len(t) = k + 1
    <2>1. k + 1 \in Nat
      OBVIOUS
    <2> QED BY <2>1, BlocksSeq
  <1>2. \A j \in 1 .. k : s[j] = t[j]
    BY DEF PaddedBlocks
  <1>3. t[k + 1] = b
    BY DEF PaddedBlocks
  <1> HIDE DEF all, s, t, b
  <1>4. Append(s, b) \in Seq(all) /\ Len(Append(s, b)) = k + 1
    BY <1>1
  <1>5. \A j \in 1 .. k + 1 : Append(s, b)[j] = t[j]
    BY <1>1, <1>2, <1>3
  <1>6. Append(s, b) = t
    BY <1>1, <1>4, <1>5, SeqEqual
  <1> QED BY <1>6 DEF s, t, b

LEMMA OneAndMore ==
    ASSUME NEW n, NEW m \in Nat, NEW s, s = [j \in 1 .. m |-> PaddedBlock(n, j + 1)]
    PROVE  <<>> \o <<PaddedBlock(n, 1)>> \o s = PaddedBlocks(n, m + 1)
  <1> DEFINE all == { PaddedBlock(n, j) : j \in Nat }
             t == PaddedBlocks(n, m + 1)
             b == PaddedBlock(n, 1)
  <1>1. t \in Seq(all) /\ Len(t) = m + 1
    BY BlocksSeq
  <1>2. b \in all /\ \A j \in 1 .. m : PaddedBlock(n, j + 1) \in all
    OBVIOUS
  <1>3. t[1] = b /\ \A j \in 1 .. m : t[j + 1] = s[j]
    BY DEF PaddedBlocks
  <1> HIDE DEF all, t, b
  <1>4. s \in Seq(all) /\ Len(s) = m
    <2>1. s \in [1 .. m -> all]
      BY <1>2
    <2> QED BY <2>1
  <1>5. <<b>> \in Seq(all) /\ Len(<<b>>) = 1 /\ <<b>>[1] = b /\ <<>> \o <<b>> = <<b>>
    BY <1>2
  <1>6. <<b>> \o s \in Seq(all) /\ Len(<<b>> \o s) = m + 1
    BY <1>4, <1>5
  <1>7. ASSUME NEW j \in 1 .. m + 1 PROVE (<<b>> \o s)[j] = t[j]
    <2>1. CASE j = 1
      BY <1>3, <1>4, <1>5, <2>1
    <2>2. CASE j # 1
      <3>1. PICK i \in 1 .. m : j = i + 1
        BY <2>2
      <3>2. (<<b>> \o s)[j] = s[i]
        BY <1>4, <1>5, <3>1
      <3> QED BY <1>3, <3>1, <3>2
    <2> QED BY <2>1, <2>2
  <1>8. <<b>> \o s = t
    BY <1>1, <1>6, <1>7, SeqEqual
  <1> QED BY <1>5, <1>8 DEF b, t

-----------------------------------------------------------------------------
(* The invariant. *)

(* The blocks compressed so far are the padded message's first.            *)
FedPrefix ==
    Len(fed) \in Nat /\ fed = PaddedBlocks(len, Len(fed)) /\ Len(fed) <= Padded(len)

HeadReady ==
    fed = <<>> /\ buf = [p \in Places |-> IF p < NsSize THEN Ns(p) ELSE Num(0)]

FirstReady ==
    fed = <<>> /\ len >= Block - NsSize /\ buf = PaddedBlock(len, 1)

TailReady ==
    /\ used \in Places /\ Total(len) = (Len(fed) * Block) + used
    /\ buf = [p \in Places |-> IF p < used THEN PaddedByte(len, (Len(fed) * Block) + p)
                                           ELSE Num(0)]

LengthReady ==
    /\ Padded(len) = Len(fed) + 1
    /\ \A p \in Places :
          p < Block - LenSize => buf[p] = PaddedByte(len, (Len(fed) * Block) + p)

HashInv ==
    /\ at \in {"idle", "head", "blocks", "mark", "length", "digest"}
    /\ len \in Nat /\ (at # "idle" => len \in Lengths)
    /\ FedPrefix
    /\ at = "head" => HeadReady
    /\ at = "blocks" => FirstReady
    /\ at = "mark" => TailReady
    /\ at = "length" => LengthReady
    /\ at = "digest" => Len(fed) = Padded(len)

LEMMA NoBlocks ==
    ASSUME NEW n \in Nat
    PROVE  <<>> = PaddedBlocks(n, 0) /\ Len(<<>>) = 0 /\ 0 <= Padded(n)
  <1>1. PaddedBlocks(n, 0) = <<>>
    BY DEF PaddedBlocks
  <1> QED BY <1>1, PaddedRoom

LEMMA InitHash == Init => HashInv
  BY NoBlocks DEF Init, HashInv, FedPrefix

LEMMA BeginHash ==
    ASSUME HashInv, Begin
    PROVE  HashInv'
  <1>1. len' \in Lengths /\ len' \in Nat
    BY LengthsAssumption DEF Begin
  <1>2. at' = "head" /\ fed' = <<>> /\ HeadReady'
    BY DEF Begin, Goes, HeadReady
  <1>3. FedPrefix'
    BY <1>1, <1>2, NoBlocks DEF FedPrefix
  <1> QED BY <1>1, <1>2, <1>3 DEF HashInv

LEMMA HeadHash ==
    ASSUME HashInv, CopyHead
    PROVE  HashInv'
  <1>1. at = "head" /\ HeadReady /\ len \in Nat /\ len \in Lengths /\ FedPrefix
    BY DEF CopyHead, Goes, HashInv
  <1>2. /\ at' = (IF HeadSize + NsSize = Block THEN "blocks" ELSE "mark")
        /\ used' = HeadSize + NsSize /\ len' = len /\ fed' = fed
        /\ buf' = [q \in Places |-> IF q \in NsSize .. NsSize + HeadSize - 1
                                    THEN Name(0 + q - NsSize) ELSE buf[q]]
    BY DEF CopyHead, Goes, Copied
  <1>3. HeadSize \in Nat /\ HeadSize <= Block - NsSize /\ HeadSize <= len
    BY <1>1, Sizes DEF HeadSize
  <1>4. Len(fed) = 0
    BY <1>1, NoBlocks DEF HeadReady
  <1>5. PICK size \in Nat : size = Padded(len) * Block
    BY <1>1, PaddedRoom
  <1>6. ASSUME NEW p \in Places, p < HeadSize + NsSize
        PROVE  buf'[p] = PaddedByte(len, p)
    <2>1. p \in Nat /\ p < Total(len)
      BY <1>1, <1>3, <1>6, Sizes DEF Places, Total
    <2>2. PaddedByte(len, p) = IF p < NsSize THEN Ns(p) ELSE Name(p - NsSize)
      BY <1>1, <1>5, <2>1, BytesOf
    <2>3. CASE p < NsSize
      <3>1. p \notin NsSize .. NsSize + HeadSize - 1 /\ buf[p] = Ns(p)
        BY <1>1, <2>1, <2>3, Sizes DEF HeadReady
      <3> QED BY <1>2, <2>2, <2>3, <3>1
    <2>4. CASE ~(p < NsSize)
      <3>1. p \in NsSize .. NsSize + HeadSize - 1 /\ 0 + p - NsSize = p - NsSize
        BY <1>3, <1>6, <2>1, <2>4, Sizes
      <3> QED BY <1>2, <2>2, <2>4, <3>1
    <2> QED BY <2>3, <2>4
  <1>7. CASE HeadSize + NsSize = Block
    <2>1. len >= Block - NsSize
      BY <1>1, <1>3, <1>7, Sizes
    <2>2. \A p \in Places : ((1 - 1) * Block) + p = p /\ buf'[p] = PaddedByte(len, p)
      BY <1>6, <1>7, Sizes DEF Places
    <2>3. buf' = PaddedBlock(len, 1)
      BY <1>2, <2>2 DEF PaddedBlock
    <2> QED BY <1>1, <1>2, <1>7, <2>1, <2>3 DEF HashInv, FirstReady, FedPrefix, HeadReady
  <1>8. CASE HeadSize + NsSize # Block
    <2>1. HeadSize = len /\ used' \in Places /\ Total(len) = (Len(fed) * Block) + used'
      BY <1>1, <1>2, <1>3, <1>4, <1>8, Sizes DEF HeadSize, Total, Places
    <2>2. ASSUME NEW p \in Places
          PROVE  buf'[p] = IF p < used' THEN PaddedByte(len, (Len(fed) * Block) + p) ELSE Num(0)
      <3>1. (Len(fed) * Block) + p = p /\ p \in Nat
        BY <1>4, Sizes DEF Places
      <3>2. CASE p < used'
        BY <1>2, <1>6, <3>1, <3>2
      <3>3. CASE ~(p < used')
        <4>1. p \notin NsSize .. NsSize + HeadSize - 1 /\ ~(p < NsSize)
          BY <1>2, <1>3, <3>1, <3>3, Sizes
        <4> QED BY <1>1, <1>2, <3>3, <4>1 DEF HeadReady
      <3> QED BY <3>2, <3>3
    <2>3. TailReady'
      BY <1>2, <2>1, <2>2 DEF TailReady
    <2> QED BY <1>1, <1>2, <1>8, <2>3 DEF HashInv, FedPrefix
  <1> QED BY <1>7, <1>8

LEMMA BlocksHash ==
    ASSUME HashInv, CompressBlocks
    PROVE  HashInv'
  <1>1. at = "blocks" /\ FirstReady /\ len \in Nat /\ len \in Lengths
    BY DEF CompressBlocks, Goes, HashInv
  <1>2. PICK b \in Nat \ {0} : b = Block
    BY Sizes
  <1>3. HeadSize \in Nat /\ HeadSize = b - NsSize /\ len >= HeadSize
    BY <1>1, <1>2, Sizes DEF HeadSize, FirstReady
  <1>4. PICK rest \in Nat : rest = len - HeadSize
    BY <1>1, <1>3
  <1>5. PICK m \in Nat, tail \in 0 .. b - 1 : m = rest \div b /\ tail = rest % b /\ rest = b * m + tail
    <2>1. rest \div b \in Nat /\ rest % b \in 0 .. b - 1 /\ rest = b * (rest \div b) + (rest % b)
      BY DivMod, Zenon
    <2> QED BY <2>1, Zenon
  <1>6. /\ at' = "mark" /\ used' = tail /\ len' = len
        /\ fed' = fed \o <<buf>> \o NameBlocks(HeadSize, m)
        /\ buf' = Copied(Zeros, 0, HeadSize + (rest - tail), tail)
    BY <1>2, <1>4, <1>5 DEF CompressBlocks, Goes
  <1>7. PICK whole \in Nat : whole = b * m
    OBVIOUS
  <1>8. rest = whole + tail /\ Total(len) = b + whole + tail /\ tail \in Nat /\ tail < b
    BY <1>1, <1>2, <1>3, <1>4, <1>5, <1>7, Sizes DEF Total
  <1>9. (m + 1) * b = whole + b
    BY <1>7
  <1>10. PICK size \in Nat : size = Padded(len) * Block
    BY <1>1, PaddedRoom
  <1>11. NameBlocks(HeadSize, m) = [j \in 1 .. m |-> PaddedBlock(len, j + 1)]
    <2>1. ASSUME NEW j \in 1 .. m, NEW p \in Places
          PROVE  Name(HeadSize + ((j - 1) * Block) + p) = PaddedByte(len, ((j + 1 - 1) * Block) + p)
      <3>1. PICK i \in Nat : i = j - 1 /\ j = i + 1 /\ i + 1 <= m
        OBVIOUS
      <3>2. PICK e \in Nat : e = b * i
        OBVIOUS
      <3>3. i * b = e /\ (i + 1) * b = e + b /\ b * (i + 1) = e + b
        BY <3>2
      <3>4. e + b <= whole
        BY <1>7, <3>1, <3>3, MulMono
      <3>5. p \in Nat /\ p < b
        BY <1>2 DEF Places
      <3>6. PICK at0 \in Nat : at0 = e + b + p
        BY <3>5
      <3>7. at0 < Total(len) /\ ~(at0 < NsSize) /\ at0 - NsSize = HeadSize + e + p
        BY <1>2, <1>3, <1>8, <3>4, <3>5, <3>6, Sizes
      <3>8. PaddedByte(len, at0) = Name(at0 - NsSize)
        BY <1>1, <1>10, <3>7, BytesOf
      <3>9. j + 1 - 1 = i + 1
        BY <3>1
      <3>10. ((j + 1 - 1) * Block) + p = at0 /\ HeadSize + ((j - 1) * Block) + p = HeadSize + e + p
        BY <1>2, <3>1, <3>3, <3>6, <3>9
      <3> QED BY <3>7, <3>8, <3>10
    <2> QED BY <2>1 DEF NameBlocks, PaddedBlock
  <1>12. fed' = PaddedBlocks(len, m + 1)
    BY <1>1, <1>6, <1>11, OneAndMore DEF FirstReady
  <1>13. Len(fed') = m + 1
    <2>1. m + 1 \in Nat
      OBVIOUS
    <2>2. Len(PaddedBlocks(len, m + 1)) = m + 1
      BY <2>1, BlocksSeq, Zenon
    <2> QED BY <1>12, <2>2, Zenon
  <1>14. used' \in Places /\ Total(len) = ((m + 1) * Block) + used'
    BY <1>2, <1>6, <1>8, <1>9 DEF Places
  <1>15. m + 1 <= Padded(len)
    <2>1. Padded(len) = IF NoRoom(used') THEN m + 1 + 2 ELSE m + 1 + 1
      BY <1>1, <1>14, PadCount
    <2> QED BY <2>1
  <1>16. FedPrefix'
    BY <1>6, <1>12, <1>13, <1>15 DEF FedPrefix
  <1>17. ASSUME NEW p \in Places
         PROVE  buf'[p] = IF p < used' THEN PaddedByte(len, (Len(fed') * Block) + p) ELSE Num(0)
    <2>1. p \in Nat
      BY DEF Places
    <2>2. buf'[p] = IF p \in 0 .. 0 + tail - 1 THEN Name(HeadSize + (rest - tail) + p - 0) ELSE Num(0)
      BY <1>6 DEF Copied, Zeros
    <2>3. CASE p < tail
      <3>1. PICK at0 \in Nat : at0 = whole + b + p
        BY <2>1
      <3>2. at0 < Total(len) /\ ~(at0 < NsSize) /\ at0 - NsSize = HeadSize + (rest - tail) + p - 0
        BY <1>2, <1>3, <1>8, <2>1, <2>3, <3>1, Sizes
      <3>3. PaddedByte(len, at0) = Name(at0 - NsSize)
        BY <1>1, <1>10, <3>2, BytesOf
      <3>4. (Len(fed') * Block) + p = at0
        BY <1>2, <1>9, <1>13, <3>1
      <3>5. p \in 0 .. 0 + tail - 1
        BY <1>8, <2>1, <2>3
      <3> QED BY <1>6, <2>2, <2>3, <3>2, <3>3, <3>4, <3>5
    <2>4. CASE ~(p < tail)
      <3>1. p \notin 0 .. 0 + tail - 1
        BY <1>8, <2>1, <2>4
      <3> QED BY <1>6, <2>2, <2>4, <3>1
    <2> QED BY <2>3, <2>4
  <1>18. buf' = [p \in Places |-> IF p < used' THEN PaddedByte(len, (Len(fed') * Block) + p)
                                             ELSE Num(0)]
    BY <1>6, <1>17 DEF Copied
  <1>19. TailReady'
    BY <1>6, <1>13, <1>14, <1>18 DEF TailReady
  <1> QED BY <1>1, <1>6, <1>16, <1>19 DEF HashInv

(* The mark and what follows it in its block.                              *)
LEMMA MarkedBytes ==
    ASSUME HashInv, TailReady, NEW p \in Places,
           p <= used \/ (Len(fed) * Block) + p < (Padded(len) * Block) - LenSize
    PROVE  [buf EXCEPT ![used] = Num(128)][p] = PaddedByte(len, (Len(fed) * Block) + p)
  <1>1. len \in Nat /\ Len(fed) \in Nat
    BY DEF HashInv, FedPrefix
  <1>2. PICK e \in Nat : e = Len(fed) * Block
    BY <1>1, Sizes
  <1>3. PICK size \in Nat : size = Padded(len) * Block
    BY <1>1, PaddedRoom
  <1>4. /\ p \in Nat /\ used \in Nat /\ used \in Places /\ Total(len) = e + used
        /\ buf = [q \in Places |-> IF q < used THEN PaddedByte(len, (Len(fed) * Block) + q)
                                               ELSE Num(0)]
    BY <1>2 DEF TailReady, Places
  <1>5. PICK here \in Nat : here = e + p
    BY <1>4
  <1>6. CASE p < used
    BY <1>4, <1>6
  <1>7. CASE p = used
    <2>1. here = Total(len)
      BY <1>4, <1>5, <1>7
    <2>2. PaddedByte(len, here) = Num(128)
      BY <1>1, <1>3, <2>1, BytesOf
    <2> QED BY <1>2, <1>4, <1>5, <1>7, <2>2
  <1>8. CASE p > used
    <2>1. Total(len) < here /\ here < size - LenSize
      BY <1>2, <1>3, <1>4, <1>5, <1>8
    <2>2. PaddedByte(len, here) = Num(0)
      BY <1>1, <1>3, <2>1, BytesOf
    <2>3. [buf EXCEPT ![used] = Num(128)][p] = Num(0)
      BY <1>4, <1>8
    <2> QED BY <1>2, <1>5, <2>2, <2>3
  <1> QED BY <1>4, <1>6, <1>7, <1>8

LEMMA MarkHash ==
    ASSUME HashInv, Mark
    PROVE  HashInv'
  <1>1. at = "mark" /\ TailReady /\ len \in Nat /\ len \in Lengths /\ FedPrefix
    BY DEF Mark, Goes, HashInv
  <1> DEFINE marked == [buf EXCEPT ![used] = Num(128)]
  <1>2. at' = "length" /\ len' = len
    BY DEF Mark, Goes
  <1>3. PICK k \in Nat : k = Len(fed)
    BY <1>1 DEF FedPrefix
  <1>4. PICK b \in Nat \ {0} : b = Block
    BY Sizes
  <1>5. PICK e \in Nat : e = k * b
    BY <1>4
  <1>6. /\ (k + 1) * b = e + b /\ (k + 2) * b = e + b + b
        /\ used \in Places /\ used \in Nat /\ used < b /\ Total(len) = e + used
    BY <1>1, <1>3, <1>4, <1>5 DEF TailReady, Places
  <1>7. Padded(len) = IF NoRoom(used) THEN k + 2 ELSE k + 1
    BY <1>1, <1>3, PadCount DEF TailReady
  <1>8. marked = [p \in Places |-> marked[p]]
    BY <1>1 DEF TailReady
  <1>9. CASE NoRoom(used)
    <2>1. /\ fed' = Append(fed, marked)
          /\ buf' = [p \in Places |-> IF p < Block - LenSize THEN Num(0) ELSE marked[p]]
      BY <1>9 DEF Mark
    <2>2. Padded(len) * Block = e + b + b
      BY <1>4, <1>6, <1>7, <1>9
    <2>3. ASSUME NEW p \in Places
          PROVE  marked[p] = PaddedByte(len, ((k + 1 - 1) * Block) + p)
      <3>1. p \in Nat /\ p < b
        BY <1>4 DEF Places
      <3>2. Len(fed) * Block = e
        BY <1>3, <1>4, <1>5
      <3>3. (Len(fed) * Block) + p < (Padded(len) * Block) - LenSize
        BY <1>4, <2>2, <3>1, <3>2, Sizes
      <3>4. marked[p] = PaddedByte(len, (Len(fed) * Block) + p)
        BY <1>1, <3>3, MarkedBytes
      <3>5. k + 1 - 1 = Len(fed)
        BY <1>3
      <3> QED BY <3>4, <3>5
    <2>4. marked = PaddedBlock(len, k + 1)
      BY <1>8, <2>3 DEF PaddedBlock
    <2>5. fed' = PaddedBlocks(len, k + 1) /\ Len(fed') = k + 1
      <3>1. fed = PaddedBlocks(len, k)
        BY <1>1, <1>3 DEF FedPrefix
      <3>2. Append(PaddedBlocks(len, k), PaddedBlock(len, k + 1)) = PaddedBlocks(len, k + 1)
        BY OneMore
      <3>3. Len(PaddedBlocks(len, k + 1)) = k + 1
        <4>1. k + 1 \in Nat
          OBVIOUS
        <4> QED BY <4>1, BlocksSeq, Zenon
      <3> HIDE DEF marked
      <3> QED BY <2>1, <2>4, <3>1, <3>2, <3>3
    <2>6. ASSUME NEW p \in Places, p < Block - LenSize
          PROVE  buf'[p] = PaddedByte(len, (Len(fed') * Block) + p)
      <3>1. p \in Nat /\ buf'[p] = Num(0)
        BY <2>1, <2>6 DEF Places
      <3>2. PICK here \in Nat : here = e + b + p
        BY <3>1
      <3>3. (Len(fed') * Block) + p = here
        BY <1>4, <1>6, <2>5, <3>2
      <3>4. PICK size \in Nat : size = Padded(len) * Block /\ size = e + b + b
        BY <2>2
      <3>5. Total(len) < here /\ here < size - LenSize
        BY <1>4, <1>6, <2>6, <3>1, <3>2, <3>4, Sizes
      <3>6. PaddedByte(len, here) = Num(0)
        BY <1>1, <3>4, <3>5, BytesOf
      <3> QED BY <3>1, <3>3, <3>6
    <2>7. Padded(len) = Len(fed') + 1
      BY <1>7, <1>9, <2>5
    <2>8. LengthReady'
      BY <1>2, <2>6, <2>7 DEF LengthReady
    <2>9. FedPrefix'
      BY <1>2, <2>5, <2>7 DEF FedPrefix
    <2> QED BY <1>1, <1>2, <2>8, <2>9 DEF HashInv
  <1>10. CASE ~NoRoom(used)
    <2>1. fed' = fed /\ buf' = marked
      BY <1>10 DEF Mark
    <2>2. Padded(len) * Block = e + b
      BY <1>4, <1>6, <1>7, <1>10
    <2>3. ASSUME NEW p \in Places, p < Block - LenSize
          PROVE  marked[p] = PaddedByte(len, (Len(fed) * Block) + p)
      <3>1. p \in Nat
        BY DEF Places
      <3>2. Len(fed) * Block = e
        BY <1>3, <1>4, <1>5
      <3>3. (Len(fed) * Block) + p < (Padded(len) * Block) - LenSize
        BY <1>4, <2>2, <2>3, <3>1, <3>2, Sizes
      <3> QED BY <1>1, <3>3, MarkedBytes
    <2>4. Padded(len) = Len(fed) + 1
      BY <1>3, <1>7, <1>10
    <2>5. LengthReady'
      BY <1>2, <2>1, <2>3, <2>4 DEF LengthReady
    <2>6. FedPrefix'
      BY <1>1, <1>2, <2>1 DEF FedPrefix
    <2> QED BY <1>1, <1>2, <2>5, <2>6 DEF HashInv
  <1> QED BY <1>9, <1>10

LEMMA LastHash ==
    ASSUME HashInv, LastBlock
    PROVE  HashInv'
  <1>1. at = "length" /\ LengthReady /\ len \in Nat /\ len \in Lengths /\ FedPrefix
    BY DEF LastBlock, Goes, HashInv
  <1> DEFINE filled == [p \in Places |->
                          IF p >= Block - LenSize
                          THEN Num(LengthByte(MessageSize(len), Block - 1 - p))
                          ELSE buf[p]]
  <1>2. at' = "digest" /\ len' = len /\ fed' = Append(fed, filled)
    BY DEF LastBlock, Goes
  <1>3. PICK k \in Nat : k = Len(fed) /\ Padded(len) = k + 1
    BY <1>1 DEF FedPrefix, LengthReady
  <1>4. PICK b \in Nat \ {0} : b = Block
    BY Sizes
  <1>5. PICK e \in Nat : e = k * b
    BY <1>4
  <1>6. PICK size \in Nat : size = Padded(len) * Block /\ size = e + b
    <2>1. (k + 1) * b = e + b
      BY <1>5
    <2> QED BY <1>3, <1>4, <2>1
  <1>7. Total(len) \in Nat /\ Total(len) + 1 + LenSize <= size /\ MessageSize(len) = Total(len)
    BY <1>1, <1>6, PaddedRoom, Sizes DEF Total, MessageSize
  <1>8. Short(Total(len))
    BY <1>1, <1>7, LengthsAssumption DEF Short, Total
  <1>9. ASSUME NEW p \in Places
        PROVE  filled[p] = PaddedByte(len, ((k + 1 - 1) * Block) + p)
    <2>1. p \in Nat /\ p < b
      BY <1>4 DEF Places
    <2>2. PICK here \in Nat : here = e + p
      BY <2>1
    <2>3. k + 1 - 1 = k
      OBVIOUS
    <2>4. ((k + 1 - 1) * Block) + p = here /\ (Len(fed) * Block) + p = here
      BY <1>3, <1>4, <1>5, <2>2, <2>3
    <2>5. CASE p >= Block - LenSize
      <3>1. PICK j \in 0 .. LenSize - 1 : j = Block - 1 - p /\ j = size - 1 - here
        BY <1>4, <1>6, <2>1, <2>2, <2>5, Sizes
      <3>2. Total(len) < here /\ here >= size - LenSize
        BY <1>4, <1>6, <1>7, <2>1, <2>2, <2>5, Sizes
      <3>3. PaddedByte(len, here) = Num(Shifted(Total(len))[size - 1 - here] % Radix)
        BY <1>1, <1>6, <3>2, BytesOf
      <3>4. LengthByte(Total(len), j) = Shifted(Total(len))[j] % Radix
        BY <1>8, Digits
      <3>5. filled[p] = Num(LengthByte(MessageSize(len), Block - 1 - p))
        BY <2>5
      <3> HIDE DEF filled
      <3> QED BY <1>7, <2>4, <3>1, <3>3, <3>4, <3>5
    <2>6. CASE ~(p >= Block - LenSize)
      <3>1. filled[p] = buf[p] /\ p < Block - LenSize
        BY <1>4, <2>1, <2>6, Sizes
      <3> HIDE DEF filled
      <3> QED BY <1>1, <2>4, <3>1 DEF LengthReady
    <2> QED BY <2>5, <2>6
  <1>10. filled = PaddedBlock(len, k + 1)
    BY <1>9 DEF PaddedBlock
  <1>11. fed' = PaddedBlocks(len, k + 1) /\ Len(fed') = k + 1
    <2>1. fed = PaddedBlocks(len, k)
      BY <1>1, <1>3 DEF FedPrefix
    <2>2. Append(PaddedBlocks(len, k), PaddedBlock(len, k + 1)) = PaddedBlocks(len, k + 1)
      BY OneMore
    <2>3. Len(PaddedBlocks(len, k + 1)) = k + 1
      <3>1. k + 1 \in Nat
        OBVIOUS
      <3> QED BY <3>1, BlocksSeq, Zenon
    <2> HIDE DEF filled
    <2> QED BY <1>2, <1>10, <2>1, <2>2, <2>3
  <1>12. FedPrefix'
    BY <1>2, <1>3, <1>11 DEF FedPrefix
  <1> QED BY <1>1, <1>2, <1>3, <1>11, <1>12 DEF HashInv

LEMMA WriteHash ==
    ASSUME HashInv, WriteUuid
    PROVE  HashInv'
  BY DEF HashInv, FedPrefix, WriteUuid, Goes

LEMMA StepHash == HashInv /\ [Next]_vars => HashInv'
  <1> SUFFICES ASSUME HashInv, [Next]_vars PROVE HashInv'
    OBVIOUS
  <1>1. CASE Next
    BY <1>1, BeginHash, HeadHash, BlocksHash, MarkHash, LastHash, WriteHash, Zenon DEF Next
  <1>2. CASE UNCHANGED vars
    BY <1>2 DEF vars, HashInv, FedPrefix, HeadReady, FirstReady, TailReady, LengthReady
  <1> QED BY <1>1, <1>2

-----------------------------------------------------------------------------
(* The blocks are the padded message's.                                    *)
LEMMA HashInvFed == HashInv => FedAsPadded
  <1> SUFFICES ASSUME HashInv PROVE FedAsPadded
    OBVIOUS
  <1>1. Len(fed) \in Nat /\ fed = PaddedBlocks(len, Len(fed)) /\ Len(fed) <= Padded(len)
    BY DEF HashInv, FedPrefix
  <1>2. ASSUME NEW j \in 1 .. Len(fed), NEW p \in Places
        PROVE  fed[j][p] = PaddedByte(len, ((j - 1) * Block) + p)
    <2>1. PaddedBlocks(len, Len(fed))[j] = PaddedBlock(len, j)
      BY DEF PaddedBlocks
    <2>2. PaddedBlock(len, j)[p] = PaddedByte(len, ((j - 1) * Block) + p)
      BY DEF PaddedBlock
    <2> QED BY <1>1, <2>1, <2>2
  <1> QED BY <1>1, <1>2 DEF HashInv, FedAsPadded

(* Whatever names callers pass, and whatever an earlier call left on the   *)
(* stack, the blocks Xuuid_new_v5 gives SHA-1 are those of the padded      *)
(* message of FIPS 180-4.                                                  *)
THEOREM FedPadded == Spec => []FedAsPadded
  <1>1. Spec => []HashInv
    BY InitHash, StepHash, PTL DEF Spec
  <1>2. HashInv => FedAsPadded
    BY HashInvFed
  <1> QED BY <1>1, <1>2, PTL

-----------------------------------------------------------------------------
(* The UUID. *)

(* The code's rotations, shift and exclusive ors reverse a word's bytes.   *)
LEMMA SwapReverses ==
    ASSUME NEW x, NEW i \in 0 .. 3, NEW c \in 0 .. 7
    PROVE  SwapBytes(x)[(8 * i) + c] = x[(8 * (3 - i)) + c]
  <1> DEFINE bits == (8 .. 15) \cup (24 .. 31)
             kept == Keep(Xor(x, RotateRight(x, 16)), bits)
             moved == ShiftRight(kept, 8)
             turned == RotateRight(x, 8)
  <1>1. ASSUME NEW b \in 0 .. 31 PROVE SwapBytes(x)[b] = (moved[b] \cup turned[b]) \ (moved[b] \cap turned[b])
    BY DEF SwapBytes, Xor
  <1>2. ASSUME NEW b \in 0 .. 31 PROVE turned[b] = x[(b + 8) % 32]
    BY DEF RotateRight
  <1>3. ASSUME NEW b \in 0 .. 31
        PROVE  moved[b] = IF b + 8 \in bits
                          THEN (x[b + 8] \cup x[(b + 24) % 32]) \ (x[b + 8] \cap x[(b + 24) % 32])
                          ELSE {}
    <2>1. b + 8 + 16 = b + 24
      OBVIOUS
    <2>2. CASE b + 8 \in bits
      <3>1. b + 8 \in 0 .. 31 /\ b + 8 <= 31
        BY <2>2
      <3>2. kept[b + 8] = Xor(x, RotateRight(x, 16))[b + 8]
        BY <2>2, <3>1 DEF Keep
      <3>3. RotateRight(x, 16)[b + 8] = x[(b + 24) % 32]
        BY <2>1, <3>1 DEF RotateRight
      <3>4. Xor(x, RotateRight(x, 16))[b + 8] =
                (x[b + 8] \cup RotateRight(x, 16)[b + 8]) \ (x[b + 8] \cap RotateRight(x, 16)[b + 8])
        BY <3>1 DEF Xor
      <3> HIDE DEF bits, kept
      <3>5. moved[b] = kept[b + 8]
        BY <3>1 DEF ShiftRight
      <3> QED BY <2>2, <3>2, <3>3, <3>4, <3>5
    <2>3. CASE b + 8 \notin bits
      <3>1. kept[b + 8] = {} \/ ~(b + 8 <= 31)
        BY <2>3 DEF Keep
      <3> HIDE DEF bits, kept
      <3> QED BY <2>3, <3>1 DEF ShiftRight
    <2> QED BY <2>2, <2>3
  <1> HIDE DEF kept, moved, turned
  <1>4. ASSUME NEW b \in 0 .. 31, b + 8 \in bits
        PROVE  SwapBytes(x)[b] = x[(b + 24) % 32]
    <2>1. turned[b] = x[b + 8]
      <3>1. (b + 8) % 32 = b + 8
        BY <1>4
      <3> QED BY <1>2, <3>1
    <2>2. PICK s, t : s = x[b + 8] /\ t = x[(b + 24) % 32]
      OBVIOUS
    <2>3. SwapBytes(x)[b] = (((s \cup t) \ (s \cap t)) \cup s) \ (((s \cup t) \ (s \cap t)) \cap s)
      BY <1>1, <1>3, <1>4, <2>1, <2>2
    <2>4. (((s \cup t) \ (s \cap t)) \cup s) \ (((s \cup t) \ (s \cap t)) \cap s) = t
      OBVIOUS
    <2> QED BY <2>2, <2>3, <2>4
  <1>5. ASSUME NEW b \in 0 .. 31, b + 8 \notin bits
        PROVE  SwapBytes(x)[b] = x[(b + 8) % 32]
    <2>1. SwapBytes(x)[b] = ({} \cup turned[b]) \ ({} \cap turned[b])
      BY <1>1, <1>3, <1>5
    <2> QED BY <1>2, <2>1
  <1>6. (8 * i) + c \in 0 .. 31
    OBVIOUS
  <1>7. CASE i \in {0, 2}
    <2>1. (8 * i) + c + 8 \in bits
      BY <1>7
    <2>2. ((8 * i) + c + 24) % 32 = (8 * (3 - i)) + c
      BY <1>7
    <2> HIDE DEF bits
    <2> QED BY <1>4, <1>6, <2>1, <2>2
  <1>8. CASE i \in {1, 3}
    <2>1. (8 * i) + c + 8 \notin bits
      BY <1>8
    <2>2. ((8 * i) + c + 8) % 32 = (8 * (3 - i)) + c
      BY <1>8
    <2> HIDE DEF bits
    <2> QED BY <1>5, <1>6, <2>1, <2>2
  <1> QED BY <1>7, <1>8

(* The digest's bits with the version and the variant set in them.         *)
LEMMA OctetBits ==
    ASSUME NEW o \in 0 .. 15, NEW b \in 0 .. 7
    PROVE  Octets[o][b] =
             CASE o = 6 /\ b \in {4, 6}   -> {One}
               [] o = 6 /\ b \in {5, 7}   -> {}
               [] o = 8 /\ b = 7          -> {One}
               [] o = 8 /\ b = 6          -> {}
               [] OTHER -> {<<o \div 4, (8 * (3 - (o % 4))) + b>>}
  <1>1. PICK w \in 0 .. 3, i \in 0 .. 3 : o \div 4 = w /\ o % 4 = i /\ o = (4 * w) + i
    OBVIOUS
  <1>2. PICK y \in 0 .. 31 : y = (8 * (3 - i)) + b
    OBVIOUS
  <1>3. Octets[o][b] = Marked(w)[y]
    BY <1>1, <1>2, SwapReverses DEF Octets
  <1>4. Word(w)[y] = {<<w, y>>}
    BY DEF Word
  <1>5. {<<o \div 4, (8 * (3 - (o % 4))) + b>>} = {<<w, y>>}
    BY <1>1, <1>2
  <1>6. CASE w \in {0, 3}
    <2>1. Marked(w) = Word(w) /\ o # 6 /\ o # 8
      BY <1>1, <1>6 DEF Marked
    <2> QED BY <1>3, <1>4, <1>5, <2>1
  <1>7. CASE w = 1
    <2>1. Marked(w)[y] = IF y \in {12, 14} THEN {One}
                         ELSE IF y \in 12 .. 15 THEN {} ELSE {<<w, y>>}
      <3>1. Marked(w) = SetBits(Keep(Word(w), (0 .. 31) \ (12 .. 15)), {12, 14})
        BY <1>7 DEF Marked
      <3>2. Keep(Word(w), (0 .. 31) \ (12 .. 15))[y] = IF y \in 12 .. 15 THEN {} ELSE {<<w, y>>}
        BY <1>4 DEF Keep
      <3> QED BY <3>1, <3>2 DEF SetBits
    <2>2. /\ o # 8
          /\ o = 6 /\ b \in {4, 6} <=> y \in {12, 14}
          /\ o = 6 /\ b \in {5, 7} <=> y \in {13, 15}
          /\ y \in 12 .. 15 <=> y \in {12, 14} \/ y \in {13, 15}
          /\ ~(b \in {4, 6} /\ b \in {5, 7})
      BY <1>1, <1>2, <1>7
    <2> QED BY <1>3, <1>5, <2>1, <2>2, Zenon
  <1>8. CASE w = 2
    <2>1. Marked(w)[y] = IF y = 31 THEN {One} ELSE IF y = 30 THEN {} ELSE {<<w, y>>}
      <3>1. Marked(w) = SetBits(Keep(Word(w), 0 .. 29), {31})
        BY <1>8 DEF Marked
      <3>2. Keep(Word(w), 0 .. 29)[y] = IF y \in 0 .. 29 THEN {<<w, y>>} ELSE {}
        BY <1>4 DEF Keep
      <3> QED BY <3>1, <3>2 DEF SetBits
    <2>2. o # 6 /\ (o = 8 /\ b = 7 <=> y = 31) /\ (o = 8 /\ b = 6 <=> y = 30)
      BY <1>1, <1>2, <1>8
    <2> QED BY <1>3, <1>5, <2>1, <2>2
  <1> QED BY <1>6, <1>7, <1>8

(* Every UUID written is the digest's first sixteen octets, most           *)
(* significant first, with the six bits of version 5 and the RFC variant.  *)
THEOREM UuidDigest == Spec => []UuidFromDigest
  <1> DEFINE Made == out \in {NoUuid, Octets}
  <1>1. Init => Made
    BY DEF Init
  <1>2. Made /\ [Next]_vars => Made'
    BY DEF Next, vars, Begin, CopyHead, CompressBlocks, Mark, LastBlock, WriteUuid
  <1>3. Made => UuidFromDigest
    <2> SUFFICES ASSUME out = Octets PROVE UuidFromDigest
      BY DEF UuidFromDigest
    <2> QED BY OctetBits, Zenon DEF UuidFromDigest
  <1> QED BY <1>1, <1>2, <1>3, PTL DEF Spec

-----------------------------------------------------------------------------
(* Words. *)

(* The code's forms of the mixing functions are the standard's.            *)
LEMMA ChooseIs ==
    ASSUME NEW x \in S!Words, NEW y \in S!Words, NEW z \in S!Words
    PROVE  S!Xor(S!And(S!Xor(y, z), x), z) = Ch(x, y, z)
  BY DEF Ch, Not, S!Xor, S!And, S!Words

LEMMA MajorityIs ==
    ASSUME NEW x \in S!Words, NEW y \in S!Words, NEW z \in S!Words
    PROVE  S!Xor(S!And(S!Xor(y, z), x), S!And(y, z)) = Maj(x, y, z)
  BY DEF Maj, S!Xor, S!And, S!Words

LEMMA WordOperators ==
    ASSUME NEW x \in S!Words, NEW y \in S!Words, NEW k
    PROVE  /\ S!Xor(x, y) \in S!Words /\ S!And(x, y) \in S!Words
           /\ S!Add(x, y) \in S!Words /\ S!RotateLeft(x, k) \in S!Words
           /\ S!Carried(x, y) \in S!Words
  BY DEF S!Xor, S!And, S!Add, S!RotateLeft, S!Carried, S!Words

(* A sum's carries, from one bit to the next.                              *)
LEMMA CarryStep ==
    ASSUME NEW x \in S!Words, NEW y \in S!Words, NEW b \in 0 .. 30
    PROVE  /\ 0 \notin S!Carried(x, y)
           /\ b + 1 \in S!Carried(x, y) <=>
                 \/ (b \in x /\ b \in y)
                 \/ ((b \in x \/ b \in y) /\ b \in S!Carried(x, y))
  <1>1. 0 \notin S!Carried(x, y)
    BY DEF S!Carried
  <1>2. ASSUME b \in x, b \in y PROVE b + 1 \in S!Carried(x, y)
    <2>1. b \in 0 .. (b + 1) - 1 /\ b + 1 .. (b + 1) - 1 \subseteq x \cup y /\ b \in x \cap y
      BY <1>2
    <2> QED BY <2>1 DEF S!Carried, S!Bits
  <1>3. ASSUME b \in x \/ b \in y, b \in S!Carried(x, y) PROVE b + 1 \in S!Carried(x, y)
    <2>1. PICK a \in 0 .. b - 1 : a \in x \cap y /\ a + 1 .. b - 1 \subseteq x \cup y
      BY <1>3 DEF S!Carried
    <2>2. a \in 0 .. (b + 1) - 1
      BY <2>1
    <2>3. \A k \in a + 1 .. (b + 1) - 1 : k \in a + 1 .. b - 1 \/ k = b
      BY <2>1
    <2>4. a + 1 .. (b + 1) - 1 \subseteq x \cup y
      BY <1>3, <2>1, <2>3
    <2> QED BY <2>1, <2>2, <2>4 DEF S!Carried, S!Bits
  <1>4. ASSUME b + 1 \in S!Carried(x, y)
        PROVE  \/ (b \in x /\ b \in y)
               \/ ((b \in x \/ b \in y) /\ b \in S!Carried(x, y))
    <2>1. PICK a \in 0 .. (b + 1) - 1 : a \in x \cap y /\ a + 1 .. (b + 1) - 1 \subseteq x \cup y
      BY <1>4 DEF S!Carried
    <2>2. CASE a = b
      BY <2>1, <2>2
    <2>3. CASE a # b
      <3>1. a \in 0 .. b - 1 /\ b \in a + 1 .. (b + 1) - 1
        BY <2>1, <2>3
      <3>2. a + 1 .. b - 1 \subseteq a + 1 .. (b + 1) - 1
        BY <2>1
      <3>3. b \in S!Carried(x, y)
        BY <2>1, <3>1, <3>2 DEF S!Carried, S!Bits
      <3> QED BY <2>1, <3>1, <3>3
    <2> QED BY <2>2, <2>3
  <1> QED BY <1>1, <1>2, <1>3, <1>4

LEMMA AddComm ==
    ASSUME NEW x, NEW y
    PROVE  S!Add(x, y) = S!Add(y, x)
  <1>1. x \cap y = y \cap x /\ x \cup y = y \cup x
    OBVIOUS
  <1>2. S!Carried(x, y) = S!Carried(y, x)
    BY <1>1 DEF S!Carried
  <1>3. S!Xor(x, y) = S!Xor(y, x)
    BY <1>1 DEF S!Xor
  <1> QED BY <1>2, <1>3 DEF S!Add

(* A bit is in as many of one pair of sets as of another.                  *)
AsMany(b, p, q, r, s) ==
    /\ (b \in p /\ b \in q) <=> (b \in r /\ b \in s)
    /\ (b \in p \/ b \in q) <=> (b \in r \/ b \in s)

(* Whichever two of three words are added first, as many carries go into   *)
(* every bit.                                                              *)
LEMMA CarriesAsMany ==
    ASSUME NEW x \in S!Words, NEW y \in S!Words, NEW z \in S!Words, NEW b \in S!Bits
    PROVE  AsMany(b, S!Carried(x, y), S!Carried(S!Add(x, y), z),
                     S!Carried(y, z), S!Carried(x, S!Add(y, z)))
  <1> DEFINE p == S!Carried(x, y)
             q == S!Carried(S!Add(x, y), z)
             r == S!Carried(y, z)
             s == S!Carried(x, S!Add(y, z))
             odd == { k \in S!Bits : ~AsMany(k, p, q, r, s) }
  <1>1. SUFFICES ASSUME odd # {} PROVE FALSE
    OBVIOUS
  <1>2. odd \subseteq Nat
    BY DEF S!Bits
  <1>3. PICK m \in odd : \A k \in odd : m <= k
    BY <1>1, <1>2, LeastOf
  <1>4. m \in 0 .. 31 /\ ~AsMany(m, p, q, r, s)
    BY <1>3 DEF S!Bits
  <1>5. S!Add(x, y) \in S!Words /\ S!Add(y, z) \in S!Words
    BY WordOperators
  <1>6. m # 0
    <2>1. 0 \in 0 .. 30
      OBVIOUS
    <2>2. 0 \notin p /\ 0 \notin q /\ 0 \notin r /\ 0 \notin s
      BY <1>5, <2>1, CarryStep
    <2> HIDE DEF p, q, r, s
    <2> QED BY <1>4, <2>2 DEF AsMany
  <1>7. PICK k \in 0 .. 30 : m = k + 1
    BY <1>4, <1>6
  <1>8. AsMany(k, p, q, r, s)
    <2>1. k \in S!Bits /\ ~(m <= k)
      BY <1>7 DEF S!Bits
    <2> QED BY <1>3, <2>1
  <1>9. /\ m \in p <=> ((k \in x /\ k \in y) \/ ((k \in x \/ k \in y) /\ k \in p))
        /\ m \in q <=> ((k \in S!Add(x, y) /\ k \in z) \/ ((k \in S!Add(x, y) \/ k \in z) /\ k \in q))
        /\ m \in r <=> ((k \in y /\ k \in z) \/ ((k \in y \/ k \in z) /\ k \in r))
        /\ m \in s <=> ((k \in x /\ k \in S!Add(y, z)) \/ ((k \in x \/ k \in S!Add(y, z)) /\ k \in s))
    BY <1>5, <1>7, CarryStep
  <1>10. /\ k \in S!Add(x, y) <=> ((k \in x <=> k \in y) <=> k \in p)
         /\ k \in S!Add(y, z) <=> ((k \in y <=> k \in z) <=> k \in r)
    BY DEF S!Add, S!Xor
  <1> HIDE DEF p, q, r, s
  <1> QED BY <1>4, <1>8, <1>9, <1>10 DEF AsMany

LEMMA AddAssoc ==
    ASSUME NEW x \in S!Words, NEW y \in S!Words, NEW z \in S!Words
    PROVE  S!Add(S!Add(x, y), z) = S!Add(x, S!Add(y, z))
  <1> DEFINE p == S!Carried(x, y)
             q == S!Carried(S!Add(x, y), z)
             r == S!Carried(y, z)
             s == S!Carried(x, S!Add(y, z))
  <1>1. ASSUME NEW b \in S!Bits
        PROVE  b \in S!Add(S!Add(x, y), z) <=> b \in S!Add(x, S!Add(y, z))
    <2>1. AsMany(b, p, q, r, s)
      BY CarriesAsMany
    <2>2. /\ b \in S!Add(x, y) <=> ((b \in x <=> b \in y) <=> b \in p)
          /\ b \in S!Add(y, z) <=> ((b \in y <=> b \in z) <=> b \in r)
          /\ b \in S!Add(S!Add(x, y), z) <=> ((b \in S!Add(x, y) <=> b \in z) <=> b \in q)
          /\ b \in S!Add(x, S!Add(y, z)) <=> ((b \in x <=> b \in S!Add(y, z)) <=> b \in s)
      BY DEF S!Add, S!Xor
    <2> HIDE DEF p, q, r, s
    <2> QED BY <2>1, <2>2 DEF AsMany
  <1>2. S!Add(S!Add(x, y), z) \in S!Words /\ S!Add(x, S!Add(y, z)) \in S!Words
    BY WordOperators
  <1> QED BY <1>1, <1>2 DEF S!Words

(* The code adds a round's five words in another order.                    *)
LEMMA AddOrder ==
    ASSUME NEW a \in S!Words, NEW f \in S!Words, NEW e \in S!Words,
           NEW k \in S!Words, NEW w \in S!Words
    PROVE  S!Add(S!Add(S!Add(e, f), S!Add(a, w)), k) =
           S!Add(S!Add(S!Add(S!Add(a, f), e), k), w)
  <1> DEFINE A(x, y) == S!Add(x, y)
  <1>1. \A x \in S!Words, y \in S!Words : A(x, y) \in S!Words /\ A(x, y) = A(y, x)
    BY WordOperators, AddComm
  <1>2. \A x \in S!Words, y \in S!Words, z \in S!Words : A(A(x, y), z) = A(x, A(y, z))
    BY AddAssoc
  <1> HIDE DEF A
  <1>3. A(A(e, f), A(a, w)) = A(A(A(a, f), e), w)
    <2>1. A(A(e, f), A(a, w)) = A(A(A(e, f), a), w)
      BY <1>1, <1>2
    <2>2. A(A(e, f), a) = A(A(a, f), e)
      BY <1>1, <1>2
    <2> QED BY <2>1, <2>2
  <1>4. A(A(A(A(a, f), e), w), k) = A(A(A(A(a, f), e), k), w)
    <2>1. PICK s \in S!Words : s = A(A(a, f), e)
      BY <1>1
    <2>2. A(A(s, w), k) = A(A(s, k), w)
      BY <1>1, <1>2
    <2> QED BY <2>1, <2>2
  <1> QED BY <1>3, <1>4 DEF A

(* The loaded word, swapped, has its octets the other way round.           *)
LEMMA LoadedSwapped ==
    ASSUME NEW x \in S!Words, NEW i \in 0 .. 3, NEW c \in 0 .. 7
    PROVE  (8 * i) + c \in S!SwapBytes(x) <=> (8 * (3 - i)) + c \in x
  <1> DEFINE bits == (8 .. 15) \cup (24 .. 31)
             moved == S!ShiftRight(S!And(S!Xor(x, S!RotateRight(x, 16)), bits), 8)
             turned == S!RotateRight(x, 8)
  <1>1. ASSUME NEW b \in 0 .. 31
        PROVE  /\ b \in S!SwapBytes(x) <=> ~(b \in moved <=> b \in turned)
               /\ b \in turned <=> (b + 8) % 32 \in x
               /\ b \in moved <=>
                    b + 8 \in bits /\ ~(b + 8 \in x <=> (b + 24) % 32 \in x)
    <2>1. b \in S!SwapBytes(x) <=> ~(b \in moved <=> b \in turned)
      BY DEF S!SwapBytes, S!Xor
    <2>2. b + 32 - (32 - 8) = b + 8
      OBVIOUS
    <2>3. b \in turned <=> (b + 8) % 32 \in x
      BY <2>2 DEF S!RotateRight, S!RotateLeft, S!Bits
    <2>4. b + 8 \in bits => b + 8 \in S!Bits /\ b + 8 + 32 - (32 - 16) = b + 24
      BY DEF S!Bits
    <2>5. b + 8 \in bits => (b + 8 \in S!RotateRight(x, 16) <=> (b + 24) % 32 \in x)
      BY <2>4 DEF S!RotateRight, S!RotateLeft
    <2>6. b \in moved <=>
              b + 8 \in bits /\ ~(b + 8 \in x <=> b + 8 \in S!RotateRight(x, 16))
      BY DEF S!ShiftRight, S!And, S!Xor, S!Bits
    <2> QED BY <2>1, <2>3, <2>5, <2>6
  <1> HIDE DEF moved, turned
  <1>2. PICK b \in 0 .. 31 : b = (8 * i) + c
    OBVIOUS
  <1>3. CASE i \in {0, 2}
    <2>1. b + 8 \in bits /\ (b + 8) % 32 = b + 8 /\ (b + 24) % 32 = (8 * (3 - i)) + c
      BY <1>2, <1>3
    <2> HIDE DEF bits
    <2> QED BY <1>1, <1>2, <2>1
  <1>4. CASE i \in {1, 3}
    <2>1. b + 8 \notin bits /\ (b + 8) % 32 = (8 * (3 - i)) + c
      BY <1>2, <1>4
    <2> HIDE DEF bits
    <2> QED BY <1>1, <1>2, <2>1
  <1> QED BY <1>3, <1>4

(* So the words the code makes of a block of the padded message are the    *)
(* standard's.                                                             *)
LEMMA WordsSwapped ==
    ASSUME NEW n \in Nat, NEW j \in Nat \ {0}, NEW s \in 0 .. 15
    PROVE  S!SwapBytes(WordsOf(PaddedBlock(n, j))[s + 1]) = MessageWords(n, j)[s]
  <1> DEFINE w == WordsOf(PaddedBlock(n, j))[s + 1]
             place(b) == ((j - 1) * Block) + (4 * s) + 3 - (b \div 8)
  <1>1. w = { b \in S!Bits : BitOf(ByteOf(PaddedBlock(n, j)[(4 * s) + (b \div 8)]), b % 8) }
    <2>1. s + 1 \in 1 .. 16 /\ (s + 1) - 1 = s
      OBVIOUS
    <2> QED BY <2>1 DEF WordsOf
  <1>2. MessageWords(n, j)[s] = { b \in S!Bits : BitOf(ByteOf(PaddedByte(n, place(b))), b % 8) }
    BY DEF MessageWords
  <1>3. ASSUME NEW b \in S!Bits
        PROVE  b \in S!SwapBytes(w) <=> b \in MessageWords(n, j)[s]
    <2>1. PICK i \in 0 .. 3, c \in 0 .. 7 : b = (8 * i) + c /\ b \div 8 = i /\ b % 8 = c
      BY DEF S!Bits
    <2>2. PICK a \in S!Bits : a = (8 * (3 - i)) + c /\ a \div 8 = 3 - i /\ a % 8 = c
      BY DEF S!Bits
    <2>3. w \in S!Words
      BY <1>1 DEF S!Words
    <2>4. b \in S!SwapBytes(w) <=> a \in w
      BY <2>1, <2>2, <2>3, LoadedSwapped
    <2>5. (4 * s) + (3 - i) \in Places
      BY BlockAssumption DEF Places
    <2>6. PaddedBlock(n, j)[(4 * s) + (3 - i)] = PaddedByte(n, ((j - 1) * Block) + ((4 * s) + (3 - i)))
      BY <2>5 DEF PaddedBlock
    <2>7. ((j - 1) * Block) + ((4 * s) + (3 - i)) = place(b)
      <3>1. PICK e \in Int : e = (j - 1) * Block
        BY BlockAssumption
      <3> QED BY <2>1, <3>1
    <2>8. a \in w <=> BitOf(ByteOf(PaddedByte(n, place(b))), c)
      BY <1>1, <2>2, <2>6, <2>7
    <2> HIDE DEF w, place
    <2> QED BY <1>2, <2>1, <2>4, <2>8
  <1>4. S!SwapBytes(w) \subseteq S!Bits
    BY DEF S!SwapBytes, S!Xor, S!ShiftRight, S!RotateRight, S!RotateLeft
  <1> QED BY <1>2, <1>3, <1>4
-----------------------------------------------------------------------------
(* The two computations side by side. *)

Five(w) == \A i \in 1 .. 5 : w[i] \in S!Words

Blocks == [1 .. 16 -> S!Words]

FipsShape ==
    /\ fips = [h |-> fips.h, block |-> fips.block, t |-> fips.t, W |-> fips.W, v |-> fips.v]
    /\ fips.block \in Nat \ {0}

(* The standard's is between two blocks, its hash so far is h.             *)
AtBlock(h) ==
    /\ fips.h = h /\ fips.v = h /\ fips.t = 0 /\ Five(h)
    /\ fips.block = handed + 1
    /\ fips.block <= Padded(len) => fips.W = MessageWords(len, fips.block)

(* What is left to compress begins with the block the standard's is in.    *)
TodoAhead ==
    /\ todo \in Seq(Blocks) /\ todo # <<>>
    /\ fips.block + Len(todo) = handed + 1
    /\ \A j \in 1 .. Len(todo) : todo[j] = WordsOf(PaddedBlock(len, fips.block + j - 1))

(* The queue holds the last sixteen words of the schedule, each at its     *)
(* round modulo sixteen.                                                   *)
QueueHolds ==
    /\ schedule \in Seq(S!Words) /\ Len(schedule) <= 80
    /\ fips.W = [s \in 0 .. 15 |-> fips.W[s]]
    /\ Len(schedule) <= 16 => fips.W = MessageWords(len, fips.block)
    /\ \A i \in 1 .. Len(schedule) :
          Len(schedule) - i < 16 => fips.W[(i - 1) % 16] = schedule[i]

InBlock ==
    /\ fips.h = held /\ fips.v = work /\ fips.t = Len(schedule)
    /\ Five(held) /\ Five(work)
    /\ TodoAhead /\ QueueHolds

UuidInv ==
    /\ HashInv /\ FipsShape
    /\ phase \in {"idle", "rounds", "store"}
    /\ handed \in Nat /\ handed <= Len(fed)
    /\ phase = "idle" => AtBlock(chain)
    /\ phase = "rounds" => InBlock
    /\ phase = "store" => AtBlock(held)
    /\ out # NoUuid =>
          out = Octets /\ at = "idle" /\ phase = "idle" /\ handed = Padded(len)

LEMMA Constants == Five(S!H0) /\ \A t \in Nat : FipsConst(t) \in S!Words
  <1>1. ASSUME NEW high, NEW low PROVE S!Const(high, low) \in S!Words
    BY DEF S!Const, S!BitsOf, S!Words, S!Bits
  <1>2. Five(S!H0)
    <2>1. ASSUME NEW i \in 1 .. 5 PROVE S!H0[i] \in S!Words
      <3>1. i = 1 \/ i = 2 \/ i = 3 \/ i = 4 \/ i = 5
        OBVIOUS
      <3> QED BY <1>1, <3>1 DEF S!H0
    <2> QED BY <2>1 DEF Five
  <1> QED BY <1>1, <1>2 DEF FipsConst, S!K0, S!K1, S!K2, S!K3

LEMMA StartShape ==
    ASSUME NEW n \in Nat
    PROVE  /\ FipsStart(n) = [h |-> S!H0, block |-> 1, t |-> 0, W |-> MessageWords(n, 1), v |-> S!H0]
           /\ FipsStart(n).h = S!H0 /\ FipsStart(n).block = 1 /\ FipsStart(n).t = 0
           /\ FipsStart(n).W = MessageWords(n, 1) /\ FipsStart(n).v = S!H0
  BY DEF FipsStart

LEMMA InitUuid == UuidInit => UuidInv
  <1> SUFFICES ASSUME UuidInit PROVE UuidInv
    OBVIOUS
  <1>1. HashInv /\ len = 0 /\ fed = <<>> /\ out = NoUuid
    BY InitHash DEF UuidInit, Init
  <1>2. phase = "idle" /\ chain = S!H0 /\ handed = 0 /\ fips = FipsStart(0)
    BY DEF UuidInit, S!Init
  <1>3. FipsShape /\ AtBlock(chain)
    BY <1>1, <1>2, StartShape, Constants DEF FipsShape, AtBlock
  <1> QED BY <1>1, <1>2, <1>3, NoBlocks DEF UuidInv

LEMMA StartUuid ==
    ASSUME UuidInv, Start
    PROVE  UuidInv'
  <1>1. HashInv' /\ len' \in Nat /\ fed' = <<>> /\ out' = NoUuid
    BY BeginHash DEF UuidInv, Start, Begin, HashInv
  <1>2. phase' = "idle" /\ chain' = S!H0 /\ handed' = 0 /\ fips' = FipsStart(len')
    BY DEF Start, Waiting, UuidInv
  <1>3. /\ fips' = [h |-> S!H0, block |-> 1, t |-> 0, W |-> MessageWords(len', 1), v |-> S!H0]
        /\ fips'.h = S!H0 /\ fips'.block = 1 /\ fips'.t = 0
        /\ fips'.W = MessageWords(len', 1) /\ fips'.v = S!H0
    BY <1>1, <1>2, StartShape
  <1>4. FipsShape' /\ AtBlock(chain)'
    BY <1>2, <1>3, Constants DEF FipsShape, AtBlock, Five
  <1> QED BY <1>1, <1>2, <1>4, NoBlocks DEF UuidInv

LEMMA ContinueUuid ==
    ASSUME UuidInv, Continue
    PROVE  UuidInv'
  <1>1. HashInv'
    BY StepHash DEF UuidInv, Continue, Next
  <1>2. len' = len /\ at # "idle" /\ out = NoUuid
    BY DEF UuidInv, Continue, CopyHead, CompressBlocks, Mark, LastBlock, WriteUuid, Goes
  <1>3. UNCHANGED <<phase, chain, held, todo, schedule, work, handed, fips>>
    BY DEF Continue, shaVars
  <1>4. phase = "idle" /\ handed = Len(fed) /\ handed \in Nat
    BY DEF Continue, Waiting, UuidInv
  <1>5. Len(fed') \in Nat /\ Len(fed) <= Len(fed')
    <2>1. fed' = PaddedBlocks(len', Len(fed')) /\ fed = PaddedBlocks(len, Len(fed)) /\ Len(fed') \in Nat
      BY <1>1 DEF HashInv, FedPrefix, UuidInv
    <2>2. CASE UNCHANGED fed
      BY <1>4, <2>2
    <2>3. CASE CompressBlocks
      <3>1. fed = <<>>
        BY <2>3 DEF CompressBlocks, Goes, UuidInv, HashInv, FirstReady
      <3> QED BY <2>1, <3>1, <1>4, NoBlocks
    <2>4. CASE \E b : fed' = Append(fed, b)
      <3>1. PICK b : fed' = Append(fed, b)
        BY <2>4
      <3>2. Len(fed') = Len(fed) + 1
        <4>1. PaddedBlocks(len, Len(fed)) \in Seq({ PaddedBlock(len, j) : j \in Nat })
          BY <1>4, BlocksSeq
        <4>2. fed \in Seq({ PaddedBlock(len, j) : j \in Nat } \cup {b})
          BY <2>1, <4>1
        <4> QED BY <3>1, <4>2
      <3> QED BY <1>4, <3>2
    <2> QED BY <2>2, <2>3, <2>4
            DEF Continue, CopyHead, Mark, LastBlock, WriteUuid
  <1>6. FipsShape' /\ AtBlock(chain)'
    BY <1>2, <1>3, <1>4 DEF UuidInv, FipsShape, AtBlock
  <1>7. out' # NoUuid => out' = Octets /\ at' = "idle" /\ handed = Padded(len)
    <2>1. CASE WriteUuid
      BY <1>4, <2>1 DEF WriteUuid, Goes, UuidInv, HashInv
    <2>2. CASE UNCHANGED out
      BY <1>2, <2>2
    <2> QED BY <2>1, <2>2 DEF Continue, CopyHead, CompressBlocks, Mark, LastBlock
  <1> QED BY <1>1, <1>2, <1>3, <1>4, <1>5, <1>6, <1>7 DEF UuidInv

LEMMA WordsAre == ASSUME NEW b PROVE WordsOf(b) \in Blocks
  BY DEF WordsOf, Blocks, S!Words

LEMMA HandOverUuid ==
    ASSUME UuidInv, HandOver
    PROVE  UuidInv'
  <1>1. HashInv' /\ UNCHANGED <<len, fed, out, at, fips, chain>>
    BY StepHash DEF UuidInv, HandOver, vars, S!Call
  <1>2. handed \in Nat /\ Len(fed) \in Nat /\ handed < Len(fed) /\ fed = PaddedBlocks(len, Len(fed))
    BY DEF HandOver, UuidInv, HashInv, FedPrefix
  <1>3. PICK k \in Nat \ {0} : k = IF handed = 0 THEN 1 ELSE Len(fed) - handed
    BY <1>2
  <1>4. /\ handed' = handed + k /\ handed' \in Nat /\ handed' <= Len(fed)
        /\ S!Call([j \in 1 .. k |-> WordsOf(fed[handed + j])])
    BY <1>2, <1>3 DEF HandOver
  <1>5. /\ phase = "idle" /\ phase' = "rounds" /\ held' = chain /\ work' = chain
        /\ todo' = [j \in 1 .. k |-> WordsOf(fed[handed + j])] /\ schedule' = <<>>
    BY <1>4 DEF S!Call, S!NoWords
  <1>6. AtBlock(chain) /\ FipsShape
    BY <1>5 DEF UuidInv
  <1>7. todo' \in Seq(Blocks) /\ Len(todo') = k /\ todo' # <<>>
    <2>1. todo' \in [1 .. k -> Blocks]
      BY <1>5, WordsAre
    <2> QED BY <2>1
  <1>8. ASSUME NEW j \in 1 .. k
        PROVE  todo'[j] = WordsOf(PaddedBlock(len, fips.block + j - 1))
    <2>1. handed + j \in 1 .. Len(fed) /\ fips.block + j - 1 = handed + j
      BY <1>2, <1>4, <1>6 DEF AtBlock
    <2>2. fed[handed + j] = PaddedBlock(len, handed + j)
      BY <1>2, <2>1 DEF PaddedBlocks
    <2> QED BY <1>5, <2>1, <2>2
  <1>9. TodoAhead'
    BY <1>1, <1>2, <1>4, <1>6, <1>7, <1>8 DEF TodoAhead, AtBlock
  <1>10. fips.W = MessageWords(len, fips.block)
    <2>1. fips.block <= Padded(len)
      <3>1. Len(fed) <= Padded(len) /\ len \in Nat
        BY DEF UuidInv, HashInv, FedPrefix
      <3> QED BY <1>2, <1>6, <3>1, PaddedRoom DEF AtBlock
    <2> QED BY <1>6, <2>1 DEF AtBlock
  <1>11. QueueHolds'
    <2>1. schedule' \in Seq(S!Words) /\ Len(schedule') = 0
      BY <1>5
    <2>2. fips.W = [s \in 0 .. 15 |-> fips.W[s]]
      BY <1>10 DEF MessageWords
    <2> QED BY <1>1, <1>10, <2>1, <2>2 DEF QueueHolds
  <1>12. InBlock'
    BY <1>1, <1>5, <1>6, <1>9, <1>11 DEF InBlock, AtBlock, Five
  <1>13. out = NoUuid
    BY <1>2 DEF UuidInv, HashInv, FedPrefix
  <1> QED BY <1>1, <1>4, <1>5, <1>6, <1>12, <1>13 DEF UuidInv, FipsShape

LEMMA InQueue ==
    ASSUME UuidInv, phase = "rounds"
    PROVE  /\ InBlock /\ schedule \in Seq(S!Words) /\ Len(schedule) \in 0 .. 80
           /\ fips.t = Len(schedule)
           /\ fips.W = [s \in 0 .. 15 |-> fips.W[s]]
           /\ Len(schedule) <= 16 => fips.W = MessageWords(len, fips.block)
           /\ \A i \in 1 .. Len(schedule) :
                 Len(schedule) - i < 16 => fips.W[(i - 1) % 16] = schedule[i]
  <1>1. InBlock /\ QueueHolds /\ fips.t = Len(schedule)
    BY DEF UuidInv, InBlock
  <1>2. schedule \in Seq(S!Words) /\ Len(schedule) <= 80
    BY <1>1 DEF QueueHolds
  <1>3. Len(schedule) \in 0 .. 80
    <2>1. PICK n \in Nat : n = Len(schedule)
      BY <1>2
    <2>2. n <= 80
      BY <1>2, <2>1
    <2>3. n \in 0 .. 80
      BY <2>2
    <2> QED BY <2>1, <2>3
  <1> QED BY <1>1, <1>2, <1>3, Zenon DEF QueueHolds

(* The queue gives the schedule's next word.                               *)
LEMMA QueueNext ==
    ASSUME UuidInv, phase = "rounds", Len(schedule) < 80
    PROVE  /\ FipsQueue(fips) = [s \in 0 .. 15 |-> FipsQueue(fips)[s]]
           /\ FipsQueue(fips)[Len(schedule) % 16] = S!NextWord
           /\ \A s \in 0 .. 15 : s # Len(schedule) % 16 => FipsQueue(fips)[s] = fips.W[s]
           /\ Len(schedule) < 16 => FipsQueue(fips) = fips.W
           /\ S!NextWord \in S!Words
  <1>1. InBlock /\ len \in Nat /\ fips.block \in Nat \ {0}
    BY DEF UuidInv, HashInv, FipsShape
  <1>2. PICK t \in 0 .. 79 : t = Len(schedule) /\ t = fips.t
    <2>1. schedule \in Seq(S!Words) /\ fips.t = Len(schedule)
      BY InQueue, Zenon
    <2>2. PICK n \in Nat : n = Len(schedule)
      BY <2>1
    <2>3. n < 80
      BY <2>2
    <2>4. n \in 0 .. 79
      BY <2>3
    <2> QED BY <2>1, <2>2, <2>4, Zenon
  <1>3. /\ fips.W = [s \in 0 .. 15 |-> fips.W[s]]
        /\ \A i \in 1 .. t : t - i < 16 => fips.W[(i - 1) % 16] = schedule[i]
        /\ t < 16 => fips.W = MessageWords(len, fips.block)
    <2>1. /\ fips.W = [s \in 0 .. 15 |-> fips.W[s]]
          /\ Len(schedule) <= 16 => fips.W = MessageWords(len, fips.block)
          /\ \A i \in 1 .. Len(schedule) :
                Len(schedule) - i < 16 => fips.W[(i - 1) % 16] = schedule[i]
      BY InQueue, Zenon
    <2>2. /\ t <= 16 => fips.W = MessageWords(len, fips.block)
          /\ \A i \in 1 .. t : t - i < 16 => fips.W[(i - 1) % 16] = schedule[i]
      BY <1>2, <2>1, Zenon
    <2>3. t < 16 => t <= 16
      OBVIOUS
    <2> QED BY <2>1, <2>2, <2>3, Zenon
  <1>4. CASE t < 16
    <2>1. FipsQueue(fips) = fips.W
      BY <1>2, <1>4 DEF FipsQueue
    <2>2. t % 16 = t /\ t \in 0 .. 15
      BY <1>4
    <2>3. S!NextWord = S!SwapBytes(Head(todo)[t + 1])
      BY <1>2, <1>4 DEF S!NextWord
    <2>4. Head(todo) = WordsOf(PaddedBlock(len, fips.block))
      <3>1. Len(todo) >= 1 /\ todo[1] = WordsOf(PaddedBlock(len, fips.block + 1 - 1)) /\ todo \in Seq(Blocks)
        BY <1>1 DEF InBlock, TodoAhead
      <3>2. fips.block + 1 - 1 = fips.block
        BY <1>1
      <3> QED BY <3>1, <3>2
    <2>5. S!NextWord = MessageWords(len, fips.block)[t]
      BY <1>1, <2>2, <2>3, <2>4, WordsSwapped
    <2>6. MessageWords(len, fips.block)[t] \in S!Words
      BY <2>2 DEF MessageWords, S!Words
    <2> QED BY <1>2, <1>3, <1>4, <2>1, <2>2, <2>5, <2>6
  <1>5. CASE t >= 16
    <2>1. PICK s \in 0 .. 15 : s = t % 16
      BY <1>2
    <2> DEFINE w == S!RotateLeft(S!Xor(S!Xor(fips.W[(s + 13) % 16], fips.W[(s + 8) % 16]),
                                       S!Xor(fips.W[(s + 2) % 16], fips.W[s])), 1)
    <2>2. FipsQueue(fips) = [fips.W EXCEPT ![s] = w]
      BY <1>2, <1>5, <2>1 DEF FipsQueue
    <2>3. /\ fips.W[(s + 13) % 16] = schedule[t + 1 - 3]
          /\ fips.W[(s + 8) % 16] = schedule[t + 1 - 8]
          /\ fips.W[(s + 2) % 16] = schedule[t + 1 - 14]
          /\ fips.W[s] = schedule[t + 1 - 16]
      <3>1. /\ t + 1 - 3 \in 1 .. t /\ t - (t + 1 - 3) < 16 /\ ((t + 1 - 3) - 1) % 16 = (s + 13) % 16
            /\ t + 1 - 8 \in 1 .. t /\ t - (t + 1 - 8) < 16 /\ ((t + 1 - 8) - 1) % 16 = (s + 8) % 16
            /\ t + 1 - 14 \in 1 .. t /\ t - (t + 1 - 14) < 16 /\ ((t + 1 - 14) - 1) % 16 = (s + 2) % 16
            /\ t + 1 - 16 \in 1 .. t /\ t - (t + 1 - 16) < 16 /\ ((t + 1 - 16) - 1) % 16 = s
        BY <1>5, <2>1
      <3> QED BY <1>3, <3>1
    <2>4. S!NextWord = S!RotateLeft(S!Xor(S!Xor(schedule[t + 1 - 3], schedule[t + 1 - 8]),
                                          S!Xor(schedule[t + 1 - 14], schedule[t + 1 - 16])), 1)
      BY <1>2, <1>5 DEF S!NextWord
    <2>5. S!NextWord = w
      BY <2>3, <2>4
    <2>6. w \in S!Words
      BY DEF S!RotateLeft, S!Words
    <2> HIDE DEF w
    <2>7. FipsQueue(fips) = [i \in 0 .. 15 |-> IF i = s THEN w ELSE fips.W[i]]
      BY <1>3, <2>2
    <2>8. s = Len(schedule) % 16 /\ ~(Len(schedule) < 16)
      BY <1>2, <1>5, <2>1
    <2> QED BY <2>5, <2>6, <2>7, <2>8
  <1> QED BY <1>2, <1>4, <1>5

LEMMA RoundUuid ==
    ASSUME UuidInv, NEW f \in S!Words, NEW k \in S!Words, S!Round(f, k),
           Len(schedule) < 80, fips' = FipsRound(fips), UNCHANGED <<vars, handed>>,
           f = FipsMix(Len(schedule), work[2], work[3], work[4]), k = FipsConst(Len(schedule))
    PROVE  UuidInv'
  <1>1. /\ phase = "rounds" /\ phase' = "rounds" /\ schedule' = Append(schedule, S!NextWord)
        /\ work' = << S!Add(S!Add(S!Add(work[5], f), S!Add(S!RotateLeft(work[1], 5), S!NextWord)), k),
                      work[1], S!RotateLeft(work[2], 30), work[3], work[4] >>
        /\ UNCHANGED <<chain, held, todo, len, fed, out, at, handed>>
    BY DEF S!Round, vars
  <1>2. InBlock /\ FipsShape /\ Five(work)
    BY <1>1 DEF UuidInv, InBlock
  <1>3. PICK t \in 0 .. 79 : t = Len(schedule) /\ t = fips.t
    <2>1. schedule \in Seq(S!Words) /\ fips.t = Len(schedule)
      BY <1>1, InQueue, Zenon
    <2>2. PICK n \in Nat : n = Len(schedule)
      BY <2>1
    <2>3. n < 80
      BY <2>2
    <2>4. n \in 0 .. 79
      BY <2>3
    <2> QED BY <2>1, <2>2, <2>4, Zenon
  <1> DEFINE W == FipsQueue(fips)
             w == S!NextWord
             T == S!Add(S!Add(S!Add(S!Add(S!RotateLeft(work[1], 5), f), work[5]), k), w)
  <1>4. /\ W = [s \in 0 .. 15 |-> W[s]] /\ W[t % 16] = w /\ w \in S!Words
        /\ \A s \in 0 .. 15 : s # t % 16 => W[s] = fips.W[s]
        /\ t < 16 => W = fips.W
    BY <1>1, <1>3, QueueNext
  <1>5. /\ work[1] \in S!Words /\ work[2] \in S!Words /\ work[3] \in S!Words
        /\ work[4] \in S!Words /\ work[5] \in S!Words
    BY <1>2 DEF Five
  <1>6. fips' = [fips EXCEPT !.t = t + 1, !.W = W,
                             !.v = <<T, work[1], S!RotateLeft(work[2], 30), work[3], work[4]>>]
    BY <1>2, <1>3, <1>4 DEF FipsRound, InBlock
  <1>7. work' = <<T, work[1], S!RotateLeft(work[2], 30), work[3], work[4]>> /\ Five(work')
    <2>1. S!RotateLeft(work[1], 5) \in S!Words /\ S!RotateLeft(work[2], 30) \in S!Words
      BY <1>5, WordOperators
    <2>2. T = S!Add(S!Add(S!Add(work[5], f), S!Add(S!RotateLeft(work[1], 5), w)), k)
      <3>1. PICK a \in S!Words, e \in S!Words, x \in S!Words :
                a = S!RotateLeft(work[1], 5) /\ e = work[5] /\ x = w
        BY <1>4, <1>5, <2>1, Zenon
      <3>2. S!Add(S!Add(S!Add(e, f), S!Add(a, x)), k) =
            S!Add(S!Add(S!Add(S!Add(a, f), e), k), x)
        BY AddOrder
      <3> QED BY <3>1, <3>2, Zenon
    <2>3. T \in S!Words
      BY <1>4, <1>5, <2>1, WordOperators
    <2> HIDE DEF T
    <2>4. work' = <<T, work[1], S!RotateLeft(work[2], 30), work[3], work[4]>>
      BY <1>1, <2>2
    <2>5. ASSUME NEW i \in 1 .. 5 PROVE work'[i] \in S!Words
      <3>1. i = 1 \/ i = 2 \/ i = 3 \/ i = 4 \/ i = 5
        OBVIOUS
      <3> QED BY <1>5, <2>1, <2>3, <2>4, <3>1
    <2> QED BY <2>4, <2>5 DEF Five
  <1> HIDE DEF W, w, T
  <1>8. /\ fips'.h = fips.h /\ fips'.block = fips.block /\ fips'.t = t + 1 /\ fips'.W = W
        /\ fips'.v = work'
        /\ fips' = [h |-> fips'.h, block |-> fips'.block, t |-> fips'.t, W |-> fips'.W, v |-> fips'.v]
    <2>1. fips = [h |-> fips.h, block |-> fips.block, t |-> fips.t, W |-> fips.W, v |-> fips.v]
      BY <1>2 DEF FipsShape
    <2>2. fips' = [h |-> fips.h, block |-> fips.block, t |-> t + 1, W |-> W, v |-> work']
      BY <1>6, <1>7, <2>1
    <2> QED BY <2>2
  <1>9. schedule' \in Seq(S!Words) /\ Len(schedule') = t + 1 /\ schedule'[t + 1] = w
        /\ \A i \in 1 .. t : schedule'[i] = schedule[i]
    <2>1. schedule \in Seq(S!Words)
      BY <1>1, InQueue, Zenon
    <2>2. schedule' = Append(schedule, w)
      BY <1>1 DEF w
    <2>3. w \in S!Words
      BY <1>4
    <2>4. PICK s \in Seq(S!Words) : s = schedule
      BY <2>1
    <2>5. Append(s, w) \in Seq(S!Words) /\ Len(Append(s, w)) = Len(s) + 1
          /\ Append(s, w)[Len(s) + 1] = w /\ \A i \in 1 .. Len(s) : Append(s, w)[i] = s[i]
      BY <2>3
    <2>6. Len(s) = t
      BY <1>3, <2>4
    <2> QED BY <2>2, <2>4, <2>5, <2>6
  <1>10. ASSUME NEW i \in 1 .. t + 1, (t + 1) - i < 16
         PROVE  W[(i - 1) % 16] = schedule'[i]
    <2>1. CASE i = t + 1
      <3>1. i - 1 = t
        BY <2>1
      <3> QED BY <1>4, <1>9, <2>1, <3>1
    <2>2. CASE i # t + 1
      <3>1. i \in 1 .. t /\ t - i < 16 /\ (i - 1) % 16 \in 0 .. 15 /\ (i - 1) % 16 # t % 16
        BY <1>10, <2>2
      <3>2. fips.W[(i - 1) % 16] = schedule[i]
        BY <1>1, <1>3, <3>1, InQueue
      <3> QED BY <1>4, <1>9, <3>1, <3>2
    <2> QED BY <2>1, <2>2
  <1>11. t + 1 <= 16 => W = MessageWords(len, fips.block)
    <2>1. Len(schedule) <= 16 => fips.W = MessageWords(len, fips.block)
      BY <1>1, InQueue, Zenon
    <2>2. t <= 16 => fips.W = MessageWords(len, fips.block)
      BY <1>3, <2>1
    <2>3. t + 1 <= 16 => t < 16 /\ t <= 16
      OBVIOUS
    <2> QED BY <1>4, <2>2, <2>3
  <1>12. QueueHolds'
    <2>1. W = [s \in 0 .. 15 |-> W[s]]
      BY <1>4, Zenon
    <2>2. schedule' \in Seq(S!Words) /\ Len(schedule') = t + 1 /\ t + 1 <= 80
      BY <1>9
    <2>3. fips'.W = W /\ len' = len /\ fips'.block = fips.block
      BY <1>1, <1>8, Zenon
    <2>4. \A i \in 1 .. t + 1 : (t + 1) - i < 16 => W[(i - 1) % 16] = schedule'[i]
      BY <1>10
    <2> QED BY <1>11, <2>1, <2>2, <2>3, <2>4 DEF QueueHolds
  <1>13. TodoAhead'
    BY <1>1, <1>2, <1>8 DEF InBlock, TodoAhead
  <1>14. InBlock'
    BY <1>1, <1>2, <1>7, <1>8, <1>9, <1>12, <1>13 DEF InBlock, Five
  <1>15. HashInv'
    BY StepHash DEF UuidInv
  <1>16. FipsShape'
    BY <1>2, <1>8 DEF FipsShape
  <1> QED BY <1>1, <1>14, <1>15, <1>16 DEF UuidInv

LEMMA FeedUuid ==
    ASSUME UuidInv, S!FeedForward, fips' = FipsBlockDone(len, fips), UNCHANGED <<vars, handed>>
    PROVE  UuidInv'
  <1>1. /\ phase = "rounds" /\ todo' = Tail(todo) /\ schedule' = <<>>
        /\ held' = [i \in 1 .. 5 |-> S!Add(held[i], work[i])] /\ work' = held'
        /\ phase' = IF Tail(todo) = <<>> THEN "store" ELSE "rounds"
        /\ UNCHANGED <<chain, len, fed, out, at, handed>>
    BY DEF S!FeedForward, S!NoWords, vars
  <1>2. InBlock /\ FipsShape /\ len \in Nat
    BY <1>1 DEF UuidInv, HashInv
  <1> DEFINE words == IF fips.block < Padded(len) THEN MessageWords(len, fips.block + 1) ELSE fips.W
  <1>3. fips' = [h |-> held', block |-> fips.block + 1, t |-> 0, v |-> held', W |-> words]
    BY <1>1, <1>2 DEF FipsBlockDone, InBlock
  <1>4. /\ fips'.h = held' /\ fips'.block = fips.block + 1 /\ fips'.t = 0 /\ fips'.v = held'
        /\ fips'.W = words
        /\ fips' = [h |-> fips'.h, block |-> fips'.block, t |-> fips'.t, W |-> fips'.W, v |-> fips'.v]
    <2> HIDE DEF words
    <2> QED BY <1>3
  <1>5. Five(held')
    <2>1. ASSUME NEW i \in 1 .. 5 PROVE held'[i] \in S!Words
      <3>1. held[i] \in S!Words /\ work[i] \in S!Words
        BY <1>2 DEF InBlock, Five
      <3>2. S!Add(held[i], work[i]) \in S!Words
        BY <3>1, WordOperators
      <3> QED BY <1>1, <3>2
    <2> QED BY <2>1 DEF Five
  <1>6. FipsShape'
    BY <1>2, <1>4 DEF FipsShape
  <1>7. HashInv'
    BY StepHash DEF UuidInv
  <1>8. /\ todo \in Seq(Blocks) /\ todo # <<>> /\ Len(todo) \in Nat \ {0}
        /\ fips.block + Len(todo) = handed + 1 /\ handed \in Nat /\ handed <= Len(fed)
        /\ fips.block \in Nat \ {0}
        /\ \A j \in 1 .. Len(todo) : todo[j] = WordsOf(PaddedBlock(len, fips.block + j - 1))
    BY <1>2 DEF InBlock, TodoAhead, FipsShape, UuidInv
  <1>9. /\ Tail(todo) \in Seq(Blocks) /\ Len(Tail(todo)) = Len(todo) - 1
        /\ \A j \in 1 .. Len(todo) - 1 : Tail(todo)[j] = todo[j + 1]
    BY <1>8
  <1>10. CASE Tail(todo) = <<>>
    <2>1. fips'.block = handed + 1
      BY <1>4, <1>8, <1>9, <1>10
    <2>2. fips'.block <= Padded(len) => fips'.W = MessageWords(len, fips'.block)
      BY <1>2, <1>4, <1>8, PaddedRoom
    <2>3. AtBlock(held)'
      BY <1>1, <1>4, <1>5, <2>1, <2>2 DEF AtBlock, Five
    <2> QED BY <1>1, <1>6, <1>7, <1>8, <1>10, <2>3 DEF UuidInv
  <1>11. CASE Tail(todo) # <<>>
    <2>1. Len(todo) > 1
      BY <1>8, <1>9, <1>11
    <2>2. Len(fed) <= Padded(len) /\ Padded(len) \in Nat /\ Len(fed) \in Nat
      BY <1>2, PaddedRoom DEF UuidInv, HashInv, FedPrefix
    <2>3. fips'.W = MessageWords(len, fips'.block)
      BY <1>4, <1>8, <2>1, <2>2
    <2>4. TodoAhead'
      <3>1. ASSUME NEW j \in 1 .. Len(todo')
            PROVE  todo'[j] = WordsOf(PaddedBlock(len', fips'.block + j - 1))
        <4>1. j + 1 \in 1 .. Len(todo) /\ fips.block + (j + 1) - 1 = fips'.block + j - 1
              /\ j \in 1 .. Len(todo) - 1
          <5>1. /\ Len(todo) \in Nat \ {0} /\ fips.block \in Nat \ {0}
                /\ Len(todo') = Len(todo) - 1 /\ fips'.block = fips.block + 1
            BY <1>1, <1>4, <1>8, <1>9, Zenon
          <5> QED BY <5>1
        <4> QED BY <1>1, <1>8, <1>9, <4>1
      <3>2. fips'.block + Len(todo') = handed' + 1
        BY <1>1, <1>4, <1>8, <1>9
      <3> QED BY <1>1, <1>9, <1>11, <3>1, <3>2 DEF TodoAhead
    <2>5. QueueHolds'
      <3>1. schedule' \in Seq(S!Words) /\ Len(schedule') = 0
        BY <1>1
      <3>2. fips'.W = [s \in 0 .. 15 |-> fips'.W[s]]
        BY <2>3 DEF MessageWords
      <3>3. fips'.W = MessageWords(len', fips'.block) /\ 0 <= 80 /\ \A i \in 1 .. 0 : FALSE
        BY <1>1, <2>3
      <3> QED BY <3>1, <3>2, <3>3 DEF QueueHolds
    <2>6. InBlock'
      BY <1>1, <1>4, <1>5, <2>4, <2>5 DEF InBlock, Five
    <2> QED BY <1>1, <1>6, <1>7, <1>8, <1>11, <2>6 DEF UuidInv
  <1> QED BY <1>10, <1>11

LEMMA StoreUuid ==
    ASSUME UuidInv, S!Store, UNCHANGED <<fips, vars, handed>>
    PROVE  UuidInv'
  <1>1. /\ phase = "store" /\ phase' = "idle" /\ chain' = held
        /\ UNCHANGED <<fips, len, fed, out, at, handed>>
    BY DEF S!Store, vars
  <1>2. HashInv'
    BY StepHash DEF UuidInv
  <1>3. AtBlock(chain)'
    BY <1>1 DEF UuidInv, AtBlock
  <1> QED BY <1>1, <1>2, <1>3 DEF UuidInv, FipsShape

LEMMA CompressUuid ==
    ASSUME UuidInv, Compress
    PROVE  UuidInv'
  <1>1. UNCHANGED <<vars, handed>> /\ S!Step
    BY DEF Compress
  <1>2. fips' = IF phase = "store" THEN fips
                ELSE IF fips.t < 80 THEN FipsRound(fips) ELSE FipsBlockDone(len, fips)
    BY DEF Compress
  <1>3. CASE S!Store
    BY <1>1, <1>2, <1>3, StoreUuid DEF S!Store
  <1>4. CASE S!FeedForward
    <2>1. fips.t = 80 /\ phase = "rounds"
      BY <1>4 DEF S!FeedForward, UuidInv, InBlock
    <2> QED BY <1>1, <1>2, <1>4, <2>1, FeedUuid
  <1>5. ASSUME S!Choose \/ S!Parity \/ S!Majority \/ S!ParityAgain PROVE UuidInv'
    <2>1. phase = "rounds"
      BY <1>5 DEF S!Choose, S!Parity, S!Majority, S!ParityAgain, S!Round
    <2>2. InBlock
      BY <2>1 DEF UuidInv
    <2>3. PICK t \in Nat : t = Len(schedule) /\ t = fips.t
      BY <2>2 DEF InBlock, QueueHolds
    <2>4. work[2] \in S!Words /\ work[3] \in S!Words /\ work[4] \in S!Words
      BY <2>2 DEF InBlock, Five
    <2>5. t < 80
      BY <1>5, <2>3 DEF S!Choose, S!Parity, S!Majority, S!ParityAgain
    <2>6. fips' = FipsRound(fips)
      BY <1>2, <2>1, <2>3, <2>5
    <2> DEFINE c == S!Xor(S!And(S!Xor(work[3], work[4]), work[2]), work[4])
               p == S!Xor(S!Xor(work[2], work[3]), work[4])
               m == S!Xor(S!And(S!Xor(work[3], work[4]), work[2]), S!And(work[3], work[4]))
    <2>7. c \in S!Words /\ p \in S!Words /\ m \in S!Words
      BY <2>4, WordOperators
    <2>8. PICK f \in S!Words, k \in S!Words :
              /\ S!Round(f, k) /\ k = FipsConst(t)
              /\ f = FipsMix(t, work[2], work[3], work[4])
      <3>1. CASE S!Choose
        <4>1. t < 20 /\ S!Round(c, S!K0)
          BY <2>3, <3>1 DEF S!Choose
        <4>2. S!K0 = FipsConst(t) /\ c = FipsMix(t, work[2], work[3], work[4])
          BY <2>4, <4>1, ChooseIs DEF FipsConst, FipsMix
        <4> HIDE DEF c
        <4> QED BY <2>7, <4>1, <4>2, Constants
      <3>2. CASE S!Parity
        <4>1. t \in 20 .. 39 /\ S!Round(p, S!K1)
          BY <2>3, <3>2 DEF S!Parity
        <4>2. S!K1 = FipsConst(t) /\ p = FipsMix(t, work[2], work[3], work[4])
          BY <4>1 DEF FipsConst, FipsMix, Par
        <4> HIDE DEF p
        <4> QED BY <2>7, <4>1, <4>2, Constants
      <3>3. CASE S!Majority
        <4>1. t \in 40 .. 59 /\ S!Round(m, S!K2)
          BY <2>3, <3>3 DEF S!Majority
        <4>2. S!K2 = FipsConst(t) /\ m = FipsMix(t, work[2], work[3], work[4])
          BY <2>4, <4>1, MajorityIs DEF FipsConst, FipsMix
        <4> HIDE DEF m
        <4> QED BY <2>7, <4>1, <4>2, Constants
      <3>4. CASE S!ParityAgain
        <4>1. t \in 60 .. 79 /\ S!Round(p, S!K3)
          BY <2>3, <3>4 DEF S!ParityAgain
        <4>2. S!K3 = FipsConst(t) /\ p = FipsMix(t, work[2], work[3], work[4])
          BY <4>1 DEF FipsConst, FipsMix, Par
        <4> HIDE DEF p
        <4> QED BY <2>7, <4>1, <4>2, Constants
      <3> QED BY <1>5, <3>1, <3>2, <3>3, <3>4
    <2> HIDE DEF c, p, m
    <2> QED BY <1>1, <2>3, <2>5, <2>6, <2>8, RoundUuid
  <1> QED BY <1>1, <1>3, <1>4, <1>5 DEF S!Step

LEMMA StepUuid == UuidInv /\ [UuidNext]_uuidVars => UuidInv'
  <1> SUFFICES ASSUME UuidInv, [UuidNext]_uuidVars PROVE UuidInv'
    OBVIOUS
  <1>1. CASE UuidNext
    BY <1>1, StartUuid, ContinueUuid, HandOverUuid, CompressUuid, Zenon DEF UuidNext
  <1>2. CASE UNCHANGED uuidVars
    <2>1. HashInv'
      BY <1>2, StepHash DEF UuidInv, uuidVars
    <2> QED BY <1>2, <2>1 DEF uuidVars, shaVars, vars, UuidInv, FipsShape, AtBlock, InBlock,
                              TodoAhead, QueueHolds, Five
  <1> QED BY <1>1, <1>2

LEMMA UuidInvRfc == UuidInv => UuidAsRfc
  <1> SUFFICES ASSUME UuidInv, out # NoUuid PROVE UuidAsRfc
    BY DEF UuidAsRfc
  <1>1. out = Octets /\ AtBlock(chain) /\ handed = Padded(len)
    BY DEF UuidInv
  <1>2. fips.block = Padded(len) + 1 /\ chain = fips.h
    BY <1>1 DEF AtBlock
  <1>3. ASSUME NEW o \in 0 .. 15, NEW b \in 0 .. 7
        PROVE  OctetBit(o, b) <=>
                 CASE o = 6 /\ b \in 4 .. 7 -> b \in {4, 6}
                   [] o = 8 /\ b \in 6 .. 7 -> b = 7
                   [] OTHER -> (8 * (3 - (o % 4))) + b \in fips.h[(o \div 4) + 1]
    <2> DEFINE w == o \div 4
               y == (8 * (3 - (o % 4))) + b
    <2>1. out[o][b] = CASE o = 6 /\ b \in {4, 6}   -> {One}
                        [] o = 6 /\ b \in {5, 7}   -> {}
                        [] o = 8 /\ b = 7          -> {One}
                        [] o = 8 /\ b = 6          -> {}
                        [] OTHER -> {<<w, y>>}
      BY <1>1, OctetBits, Zenon
    <2>2. w \in 0 .. 3 /\ <<w, y>> # One /\ <<w, y>>[1] = w /\ <<w, y>>[2] = y
      BY DEF One
    <2> HIDE DEF w, y
    <2>3. CASE o = 6 /\ b \in 4 .. 7
      <3>1. b = 4 \/ b = 5 \/ b = 6 \/ b = 7
        BY <2>3
      <3> QED BY <2>1, <2>3, <3>1 DEF OctetBit
    <2>4. CASE o = 8 /\ b \in 6 .. 7
      <3>1. b = 6 \/ b = 7
        BY <2>4
      <3> QED BY <2>1, <2>4, <3>1 DEF OctetBit
    <2>5. CASE ~(o = 6 /\ b \in 4 .. 7) /\ ~(o = 8 /\ b \in 6 .. 7)
      <3>1. out[o][b] = {<<w, y>>}
        BY <2>1, <2>5
      <3>2. OctetBit(o, b) <=> y \in chain[w + 1]
        BY <2>2, <3>1 DEF OctetBit
      <3> QED BY <1>2, <2>5, <3>2 DEF w, y
    <2> QED BY <2>3, <2>4, <2>5
  <1> QED BY <1>2, <1>3 DEF UuidAsRfc

(* For every namespace and every name, the UUID Xuuid_new_v5 writes is the *)
(* first sixteen octets of SHA-1, as FIPS 180-4 states it, of the two, with*)
(* version and variant set.                                                *)
THEOREM UuidRfc == UuidSpec => []UuidAsRfc
  <1>1. UuidSpec => []UuidInv
    BY InitUuid, StepUuid, PTL DEF UuidSpec
  <1> QED BY <1>1, UuidInvRfc, PTL
=============================================================================
