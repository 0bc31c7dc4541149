-------------------------- MODULE AesSourceProofs ---------------------------
(***************************************************************************)
(* Proofs about AesSource, for every size of the buffer, the budget and    *)
(* the lifetime, any lengths of draws and any number of keys.              *)
(*                                                                         *)
(* What the buffer still holds is the tail of what was generated (Back),   *)
(* and nothing of it has been handed out (Usable): the rest follows,       *)
(* because what is generated next is past all of that.                     *)
(***************************************************************************)
EXTENDS AesSource, FiniteSetTheorems, FunctionTheorems, TLAPS

-----------------------------------------------------------------------------
(* The inductive invariant. *)

(* The keystream generated so far.                                         *)
Generated ==
    { b \in (1 .. keys) \X (0 .. KeyBudget - 1) : b[1] = key => b[2] < generated }

(* Of it, what may still be written: of a key not given up, not handed out.*)
Usable == { b \in Generated : b[1] > retired /\ b \notin handed }

(* The byte generated j bytes before the last.                             *)
Back(j) ==
    IF j < generated THEN <<key, generated - 1 - j>>
    ELSE <<key - 1, KeyBudget - 1 - (j - generated)>>

Shape ==
    /\ now \in 0 .. MaxTime /\ keyedAt \in Nat /\ entered \in Nat
    /\ keys \in Nat /\ keys <= MaxKeys
    /\ born \in Seq(Nat) /\ Len(born) = keys
    /\ generated \in 0 .. KeyBudget
    /\ off \in 0 .. BufSize
    /\ Len(buf) = BufSize
    /\ Len(dst) \in Nat /\ got \in 0 .. Len(dst)
    /\ at \in {"idle", "entry", "serve", "generate"}
    /\ code \in {0, WasiEIO}
    /\ retired \in 0 .. keys
    /\ handed \subseteq Generated

(* A key that serves is the last one read; without one nothing is left.    *)
Keyed ==
    /\ key = NoKey => off = BufSize /\ generated = 0 /\ at \in {"idle", "entry"}
    /\ key # NoKey => key = keys /\ retired < key /\ keyedAt = born[key]

(* The unserved buffer.                                                    *)
Unserved ==
    at # "generate" =>
        \A i \in off + 1 .. BufSize :
            buf[i] = {Back(BufSize - i)} /\ Back(BufSize - i) \in Usable

(* A draw that has only begun, and the age that was checked.               *)
Begun ==
    /\ at \in {"entry", "serve"} => got = 0 /\ Len(dst) > 0
    /\ at = "serve" => entered - keyedAt < KeyLifetime

(* A generation: up to next the cells are keystream, from there cleared.   *)
Generating ==
    at = "generate" =>
        /\ off = BufSize /\ end \in Nat /\ next \in 1 .. end + 1
        /\ target \in {"dst", "buf"}
        /\ target = "dst" =>
              /\ next = got + 1 /\ end = Len(dst)
              /\ \A i \in next .. end : dst[i] = {}
        /\ target = "buf" =>
              /\ end = BufSize /\ Len(dst) - got \in 1 .. BufSize - 1
              /\ \A i \in next .. end : buf[i] = {}
              /\ \A i \in 1 .. next - 1 :
                    /\ buf[i] = {Back(next - 1 - i)} /\ Back(next - 1 - i) \in Usable
                    /\ \A j \in 1 .. got : dst[j] # buf[i]

(* What the draw has written: one byte to a cell, none of them twice.      *)
Written ==
    /\ \A i \in 1 .. got : \E b \in Generated : dst[i] = {b} /\ (at # "idle" => b \notin handed)
    /\ at # "idle" => \A i, j \in 1 .. got : dst[i] = dst[j] => i = j

SourceInv == Shape /\ Keyed /\ Unserved /\ Begun /\ Generating /\ Written /\ SuccessIsWhole

-----------------------------------------------------------------------------
(* Lemmas. *)

LEMMA Sizes ==
    /\ BufSize \in Nat /\ BufSize >= 1 /\ KeyBudget \in Nat /\ BufSize <= KeyBudget
    /\ KeyLifetime \in Nat /\ KeyLifetime >= 1 /\ Draws \subseteq Nat
  BY SourceAssumption

(* As many bytes as cells, when no two cells hold the same.                *)
LEMMA CountsCells ==
    ASSUME NEW n \in Nat, NEW f, \A i \in 1 .. n : \E b : f[i] = {b},
           \A i, j \in 1 .. n : f[i] = f[j] => i = j
    PROVE  Cardinality(BytesIn(f, n)) = n
  <1> DEFINE bytes == BytesIn(f, n)
             h == [i \in 1 .. n |-> CHOOSE b \in bytes : f[i] = {b}]
  <1>1. \A i \in 1 .. n : h[i] \in bytes /\ f[i] = {h[i]}
    BY DEF BytesIn
  <1>2. h \in Bijection(1 .. n, bytes)
    <2>1. h \in [1 .. n -> bytes]
      BY <1>1
    <2>2. ASSUME NEW i \in 1 .. n, NEW j \in 1 .. n, h[i] = h[j] PROVE i = j
      <3>1. f[i] = f[j]
        BY <1>1, <2>2
      <3> QED BY <3>1
    <2>3. \A b \in bytes : \E i \in 1 .. n : h[i] = b
      BY <1>1 DEF BytesIn
    <2> HIDE DEF h, bytes
    <2> QED BY <2>1, <2>2, <2>3, Fun_IsBij
  <1> QED BY <1>2, FS_CountingElements, Fun_ExistsBij

(* What was generated stays so, and what was usable too, while nothing is  *)
(* handed out and no key is given up.                                      *)
LEMMA RekeyGenerated ==
    ASSUME Shape, Keyed, keys' = keys + 1, key' = keys + 1
    PROVE  Generated \subseteq Generated'
  BY DEF Shape, Generated

LEMMA KeylessGenerated ==
    ASSUME Shape, keys' = keys, key' = NoKey
    PROVE  Generated \subseteq Generated'
  BY DEF Shape, Generated, NoKey

(* A step that touches neither the source nor the draw.                    *)
LEMMA Idles ==
    ASSUME SourceInv, now' \in 0 .. MaxTime,
           UNCHANGED <<source, at, dst, got, target, next, end, code, keys, born, entered,
                       retired, handed>>
    PROVE  SourceInv'
  <1>1. Generated' = Generated /\ Usable' = Usable /\ \A j : Back(j)' = Back(j)
    BY DEF source, Generated, Usable, Back
  <1>2. Shape' /\ Keyed'
    BY <1>1 DEF SourceInv, Shape, Keyed, source
  <1>3. Unserved' /\ Begun' /\ Written' /\ SuccessIsWhole'
    BY <1>1 DEF SourceInv, Unserved, Begun, Written, SuccessIsWhole, source
  <1>4. Generating'
    BY <1>1 DEF SourceInv, Generating, source, Back
  <1> QED BY <1>2, <1>3, <1>4 DEF SourceInv

-----------------------------------------------------------------------------
(* One lemma per action. *)

LEMMA TickKeeps == ASSUME SourceInv, Tick PROVE SourceInv'
  <1>1. now' \in 0 .. MaxTime
    BY SourceAssumption DEF Tick, SourceInv, Shape
  <1> QED BY <1>1, Idles DEF Tick

LEMMA FillKeeps == ASSUME SourceInv, Fill PROVE SourceInv'
  <1>1. PICK n \in Draws \ {0} : dst' = Dirty(n)
    BY DEF Fill
  <1>2. n \in Nat /\ n > 0 /\ Len(dst') = n /\ got' = 0
    BY <1>1, Sizes DEF Dirty, Fill
  <1>3. UNCHANGED <<now, source, target, next, end, keys, born, entered, retired, handed>>
        /\ at = "idle" /\ at' = "entry" /\ code' = 0
    BY DEF Fill
  <1>4. Generated' = Generated /\ Usable' = Usable /\ \A j : Back(j)' = Back(j)
    BY <1>3 DEF source, Generated, Usable, Back
  <1>5. Shape' /\ Keyed'
    BY <1>2, <1>3, <1>4 DEF SourceInv, Shape, Keyed, source
  <1>6. Unserved'
    BY <1>3, <1>4 DEF SourceInv, Unserved, source
  <1>7. Begun' /\ Generating' /\ Written' /\ SuccessIsWhole'
    BY <1>2, <1>3 DEF Begun, Generating, Written, SuccessIsWhole
  <1> QED BY <1>5, <1>6, <1>7 DEF SourceInv

LEMMA EntryFreshKeeps == ASSUME SourceInv, EntryFresh PROVE SourceInv'
  <1>1. UNCHANGED <<Generated, Usable>> /\ \A j : Back(j)' = Back(j)
    BY DEF EntryFresh, source, Generated, Usable, Back
  <1>2. Shape' /\ Keyed'
    BY <1>1 DEF SourceInv, Shape, Keyed, EntryFresh, source, Expired
  <1>3. Unserved'
    BY <1>1 DEF SourceInv, Unserved, EntryFresh, source
  <1>4. Begun' /\ Generating' /\ Written' /\ SuccessIsWhole'
    BY <1>1, Sizes DEF SourceInv, Shape, Begun, Generating, Written, SuccessIsWhole, EntryFresh,
                       source, Expired
  <1> QED BY <1>2, <1>3, <1>4 DEF SourceInv

(* A new key, and an empty buffer.                                         *)
LEMMA EntryRekeyKeeps == ASSUME SourceInv, EntryRekey PROVE SourceInv'
  <1>1. Generated \subseteq Generated'
    BY RekeyGenerated DEF SourceInv, EntryRekey, Rekey
  <1>2. born' \in Seq(Nat) /\ Len(born') = keys + 1 /\ born'[keys + 1] = now
    BY DEF SourceInv, Shape, EntryRekey, Rekey
  <1>3. Shape' /\ Keyed'
    BY <1>1, <1>2, Sizes, SourceAssumption DEF SourceInv, Shape, Keyed, EntryRekey, Rekey, NoKey
  <1>4. Unserved' /\ Generating'
    BY Sizes DEF SourceInv, Shape, Unserved, Generating, EntryRekey, Rekey
  <1>5. Begun' /\ Written' /\ SuccessIsWhole'
    BY <1>1, Sizes DEF SourceInv, Shape, Begun, Written, SuccessIsWhole, EntryRekey, Rekey
  <1> QED BY <1>3, <1>4, <1>5 DEF SourceInv

(* A draw that returns hands out what it wrote.                            *)
LEMMA HandsOut ==
    ASSUME \A i \in 1 .. got' : \E b \in Generated' : dst'[i] = {b},
           handed \subseteq Generated', handed' = handed \cup BytesIn(dst', got')
    PROVE  handed' \subseteq Generated'
  BY DEF BytesIn

LEMMA EntryFailsKeeps == ASSUME SourceInv, EntryFails PROVE SourceInv'
  <1>1. Generated \subseteq Generated'
    BY KeylessGenerated DEF SourceInv, EntryFails, RekeyFails
  <1>2. got' = 0
    BY DEF SourceInv, Begun, EntryFails
  <1>3. handed' \subseteq Generated'
    BY <1>1, <1>2, HandsOut DEF SourceInv, Shape, EntryFails, Returns
  <1>4. Shape' /\ Keyed'
    BY <1>3, Sizes DEF SourceInv, Shape, Keyed, EntryFails, RekeyFails, Returns, NoKey
  <1>5. Unserved' /\ Generating' /\ Begun'
    BY Sizes DEF Unserved, Generating, Begun, EntryFails, RekeyFails, Returns
  <1>6. Written' /\ SuccessIsWhole'
    BY <1>2 DEF Written, SuccessIsWhole, EntryFails, Returns, WasiEIO
  <1> QED BY <1>4, <1>5, <1>6 DEF SourceInv

(* What the buffer serves is its unserved head, in order.                  *)
LEMMA ServeKeeps == ASSUME SourceInv, Serve PROVE SourceInv'
  <1> DEFINE n == Drained
             left == Len(dst) - n
  <1>1. /\ n \in 0 .. Len(dst) /\ n <= BufSize - off /\ left \in Nat /\ Len(dst) > 0
        /\ left > 0 => n = BufSize - off
        /\ off' = off + n /\ got' = n
    BY Sizes DEF SourceInv, Shape, Begun, Serve, Served, Drained, Lesser
  <1>2. /\ dst' = [i \in 1 .. Len(dst) |->
                      IF i <= n THEN buf[off + i] ELSE IF left >= BufSize THEN {} ELSE dst[i]]
        /\ buf' = IF left > 0 /\ left < BufSize THEN RefillOver ELSE buf
        /\ UNCHANGED <<now, key, keyedAt, generated, keys, born, entered, retired>>
        /\ at = "serve"
    BY DEF Serve
  <1>3. Len(dst') = Len(dst) /\ \A i \in 1 .. n : dst'[i] = buf[off + i]
    BY <1>1, <1>2 DEF SourceInv, Shape
  <1>4. Generated' = Generated /\ \A j : Back(j)' = Back(j)
    BY <1>2 DEF Generated, Back
  <1>5. \A i \in 1 .. n : /\ dst'[i] = {Back(BufSize - (off + i))}
                          /\ Back(BufSize - (off + i)) \in Usable
    BY <1>1, <1>2, <1>3, Sizes DEF SourceInv, Shape, Unserved
  <1>6. Len(buf') = BufSize
    BY <1>2, Sizes DEF SourceInv, Shape, RefillOver, Empty
  <1>7. key # NoKey /\ off \in 0 .. BufSize /\ generated \in 0 .. KeyBudget /\ key \in Nat
    BY <1>2 DEF SourceInv, Shape, Keyed
  <1>8. \A i, j \in 1 .. n : dst'[i] = dst'[j] => i = j
    <2> SUFFICES ASSUME NEW i \in 1 .. n, NEW j \in 1 .. n,
                        Back(BufSize - (off + i)) = Back(BufSize - (off + j))
                 PROVE  i = j
      BY <1>5
    <2> QED BY <1>1, <1>7, Sizes DEF Back
  <1>9. \A i \in 1 .. n : \E b \in Generated' : dst'[i] = {b} /\ b \notin handed
    BY <1>4, <1>5 DEF Usable
  <1>10. CASE left = 0
    <2>1. Returns(0)
      BY <1>10 DEF Serve
    <2>2. at' = "idle" /\ code' = 0 /\ handed' = handed \cup BytesIn(dst', got') /\ buf' = buf
      BY <1>2, <1>10, <2>1 DEF Returns
    <2>3. handed' \subseteq Generated'
      BY <1>1, <1>4, <1>9, <2>2, HandsOut DEF SourceInv, Shape
    <2>4. Shape' /\ Keyed'
      <3>1. off' \in 0 .. BufSize /\ Len(dst') \in Nat /\ got' \in 0 .. Len(dst')
        BY <1>1, <1>3, <1>7, Sizes DEF SourceInv, Shape
      <3>2. Shape'
        BY <1>2, <1>6, <2>2, <2>3, <3>1 DEF SourceInv, Shape
      <3>3. Keyed'
        BY <1>2, <1>7, <2>2 DEF SourceInv, Keyed
      <3> QED BY <3>2, <3>3
    <2>5. Unserved'
      <3> SUFFICES ASSUME NEW i \in off' + 1 .. BufSize
                   PROVE  buf[i] = {Back(BufSize - i)} /\ Back(BufSize - i) \in Usable'
        BY <1>4, <2>2 DEF Unserved
      <3>1. i \in off + 1 .. BufSize /\ i \in Nat
        BY <1>1, <1>7, Sizes
      <3>2. buf[i] = {Back(BufSize - i)} /\ Back(BufSize - i) \in Usable
        BY <1>2, <3>1 DEF SourceInv, Unserved
      <3>3. \A k \in 1 .. n : Back(BufSize - (off + k)) # Back(BufSize - i)
        BY <1>1, <1>7, <3>1, Sizes DEF Back
      <3>4. Back(BufSize - i) \notin BytesIn(dst', got')
        BY <1>1, <1>5, <3>3 DEF BytesIn
      <3> QED BY <1>2, <1>4, <2>2, <3>2, <3>4 DEF Usable
    <2>6. Begun' /\ Generating' /\ Written' /\ SuccessIsWhole'
      BY <1>1, <1>3, <1>9, <1>10, <2>2 DEF Begun, Generating, Written, SuccessIsWhole
    <2> QED BY <2>4, <2>5, <2>6 DEF SourceInv
  <1>11. CASE left > 0
    <2>1. /\ at' = "generate" /\ code' = code /\ handed' = handed
          /\ target' = IF left >= BufSize THEN "dst" ELSE "buf"
          /\ next' = IF left >= BufSize THEN n + 1 ELSE 1
          /\ end' = IF left >= BufSize THEN Len(dst) ELSE BufSize
      BY <1>11 DEF Serve
    <2>2. off' = BufSize /\ n \in Nat /\ Len(dst) \in Nat
      BY <1>1, <1>7, <1>11, Sizes
    <2>3. Shape' /\ Keyed'
      BY <1>1, <1>2, <1>3, <1>4, <1>6, <1>7, <2>1, Sizes DEF SourceInv, Shape, Keyed
    <2>4. Unserved' /\ Begun' /\ SuccessIsWhole'
      BY <2>1 DEF Unserved, Begun, SuccessIsWhole
    <2>5. Written'
      BY <1>1, <1>8, <1>9, <2>1 DEF Written
    <2>6. Generating'
      <3>1. CASE left >= BufSize
        BY <1>1, <1>2, <1>3, <2>1, <2>2, <3>1, Sizes DEF Generating
      <3>2. CASE left < BufSize
        <4>1. \A i \in 1 .. BufSize : buf'[i] = {}
          BY <1>2, <1>11, <3>2 DEF RefillOver, Empty
        <4>2. target' = "buf" /\ next' = 1 /\ end' = BufSize /\ got' = n
          BY <1>1, <2>1, <3>2, Sizes
        <4>3. next' \in 1 .. end' + 1 /\ Len(dst') - got' \in 1 .. BufSize - 1
          BY <1>1, <1>3, <1>11, <2>2, <3>2, <4>2, Sizes
        <4>4. \A i \in 1 .. next' - 1 : FALSE
          BY <4>2
        <4> QED BY <2>2, <4>1, <4>2, <4>3, <4>4, Sizes DEF Generating
      <3> QED BY <1>1, <3>1, <3>2, Sizes
    <2> QED BY <2>3, <2>4, <2>5, <2>6 DEF SourceInv
  <1> QED BY <1>1, <1>10, <1>11

(* What is generated is past all that was generated before.                *)
LEMMA GenerateKeeps == ASSUME SourceInv, Generate PROVE SourceInv'
  <1> DEFINE n == Chunk
  <1>1. /\ n \in Nat /\ n >= 1 /\ n <= end - next + 1 /\ n <= KeyBudget - generated
        /\ generated \in Nat /\ next \in Nat /\ next >= 1 /\ end \in Nat /\ next <= end
        /\ off = BufSize
    <2>1. /\ generated \in 0 .. KeyBudget /\ next \in 1 .. end + 1 /\ end \in Nat
          /\ off = BufSize /\ next <= end /\ generated < KeyBudget
      BY DEF SourceInv, Shape, Generating, Generate
    <2> QED BY <2>1, Sizes DEF Chunk, Lesser
  <1>2. /\ generated' = generated + n /\ next' = next + n
        /\ UNCHANGED <<now, key, keyedAt, off, at, target, end, code, keys, born, entered,
                       retired, handed>>
        /\ at = "generate"
    BY DEF Generate
  <1>3. key = keys /\ key \in Nat /\ key >= 1 /\ retired < key /\ retired \in Nat
    BY <1>2 DEF SourceInv, Shape, Keyed, NoKey
  <1>4. Generated \subseteq Generated' /\ Usable \subseteq Usable'
    BY <1>1, <1>2 DEF Generated, Usable
  <1>5. \A p \in generated .. generated + n - 1 :
            <<key, p>> \in Usable' /\ <<key, p>> \notin Generated
    BY <1>1, <1>2, <1>3, Sizes DEF SourceInv, Shape, Generated, Usable
  <1>6. CASE target = "dst"
    <2>1. /\ next = got + 1 /\ end = Len(dst) /\ got' = got + n /\ buf' = buf
          /\ dst' = Xored(dst, n)
          /\ \A i \in next .. end : dst[i] = {}
          /\ got \in Nat /\ Len(dst) \in Nat
      BY <1>2, <1>6 DEF SourceInv, Shape, Generating, Generate
    <2>2. Len(dst') = Len(dst)
      BY <2>1 DEF Xored
    <2>3. \A i \in 1 .. got : dst'[i] = dst[i]
      BY <1>1, <2>1 DEF Xored
    <2>4. \A i \in got + 1 .. got + n : dst'[i] = {<<key, generated + (i - next)>>}
      BY <1>1, <2>1 DEF Xored
    <2>5. ASSUME NEW i \in next' .. end PROVE dst'[i] = {}
      <3>1. i \in 1 .. Len(dst) /\ i \in next .. end /\ ~(i < next + n)
        BY <1>1, <1>2, <2>1
      <3> QED BY <2>1, <3>1 DEF Xored
    <2>6. Shape'
      BY <1>1, <1>2, <1>4, <2>1, <2>2, Sizes DEF SourceInv, Shape
    <2>7. Keyed' /\ Unserved' /\ Begun' /\ SuccessIsWhole'
      BY <1>2, <1>3 DEF SourceInv, Keyed, Unserved, Begun, SuccessIsWhole, NoKey
    <2>8. Generating'
      BY <1>1, <1>2, <1>6, <2>1, <2>2, <2>5 DEF Generating
    <2>9. \A i \in got + 1 .. got + n :
              /\ generated + (i - next) \in generated .. generated + n - 1
              /\ <<key, generated + (i - next)>> \in Generated' \ Generated
              /\ <<key, generated + (i - next)>> \notin handed
      <3> SUFFICES ASSUME NEW i \in got + 1 .. got + n
                   PROVE  /\ generated + (i - next) \in generated .. generated + n - 1
                          /\ <<key, generated + (i - next)>> \in Generated' \ Generated
                          /\ <<key, generated + (i - next)>> \notin handed
        OBVIOUS
      <3>1. generated + (i - next) \in generated .. generated + n - 1
        BY <1>1, <2>1
      <3> QED BY <1>2, <1>5, <3>1 DEF Usable
    <2>10. \A i \in 1 .. got' : \E b \in Generated' : dst'[i] = {b} /\ b \notin handed
      <3>1. ASSUME NEW i \in 1 .. got
            PROVE  \E b \in Generated' : dst'[i] = {b} /\ b \notin handed
        BY <1>2, <1>4, <2>3 DEF SourceInv, Written
      <3>2. ASSUME NEW i \in got + 1 .. got + n
            PROVE  \E b \in Generated' : dst'[i] = {b} /\ b \notin handed
        <4>1. PICK b : b = <<key, generated + (i - next)>>
          OBVIOUS
        <4>2. dst'[i] = {b} /\ b \in Generated' /\ b \notin handed
          BY <2>4, <2>9, <3>2, <4>1
        <4> QED BY <4>2
      <3> TAKE i \in 1 .. got'
      <3>3. i \in 1 .. got \/ i \in got + 1 .. got + n
        BY <1>1, <2>1
      <3> QED BY <3>1, <3>2, <3>3
    <2>11. \A i, j \in 1 .. got' : dst'[i] = dst'[j] => i = j
      <3> SUFFICES ASSUME NEW i \in 1 .. got', NEW j \in 1 .. got', dst'[i] = dst'[j] PROVE i = j
        OBVIOUS
      <3>1. CASE i <= got /\ j <= got
        BY <1>2, <2>1, <2>3, <3>1 DEF SourceInv, Written
      <3>2. CASE i > got /\ j > got
        <4>1. i \in got + 1 .. got + n /\ j \in got + 1 .. got + n
          BY <1>1, <2>1, <3>2
        <4>2. PICK x, y : x = generated + (i - next) /\ y = generated + (j - next)
          OBVIOUS
        <4>3. {<<key, x>>} = {<<key, y>>}
          BY <2>4, <4>1, <4>2
        <4>4. <<key, x>> = <<key, y>>
          BY <4>3, Zenon
        <4>5. x = y
          BY <4>4
        <4> QED BY <1>1, <2>1, <4>1, <4>2, <4>5
      <3>3. ASSUME NEW x \in 1 .. got, NEW y \in got + 1 .. got + n PROVE dst'[x] # dst'[y]
        BY <2>3, <2>4, <2>9, <3>3 DEF SourceInv, Written
      <3> QED BY <2>1, <3>1, <3>2, <3>3
    <2> QED BY <1>2, <2>6, <2>7, <2>8, <2>10, <2>11 DEF SourceInv, Written
  <1>7. CASE target = "buf"
    <2>1. /\ end = BufSize /\ Len(dst) - got \in 1 .. BufSize - 1
          /\ buf' = Xored(buf, n) /\ UNCHANGED <<dst, got>>
          /\ \A i \in next .. end : buf[i] = {}
          /\ \A i \in 1 .. next - 1 :
                /\ buf[i] = {Back(next - 1 - i)} /\ Back(next - 1 - i) \in Usable
                /\ \A j \in 1 .. got : dst[j] # buf[i]
      BY <1>2, <1>7 DEF SourceInv, Generating, Generate
    <2>2. Len(buf') = Len(buf) /\ Len(buf) = BufSize
      BY <2>1, Sizes DEF SourceInv, Shape, Xored
    <2>3. \A i \in 1 .. next - 1 : buf'[i] = buf[i]
      BY <1>1, <2>1, <2>2 DEF Xored
    <2>4. \A i \in next .. next + n - 1 : buf'[i] = {<<key, generated + (i - next)>>}
      BY <1>1, <2>1, <2>2 DEF Xored
    <2>5. \A i \in next' .. end : buf'[i] = {}
      BY <1>1, <1>2, <2>1, <2>2 DEF Xored
    <2>6. Shape'
      BY <1>1, <1>2, <1>4, <2>1, <2>2, Sizes DEF SourceInv, Shape
    <2>7. Keyed' /\ Unserved' /\ Begun' /\ SuccessIsWhole'
      BY <1>2, <1>3 DEF SourceInv, Keyed, Unserved, Begun, SuccessIsWhole, NoKey
    <2>8. Written'
      BY <1>2, <1>4, <2>1 DEF SourceInv, Written
    <2>9. ASSUME NEW i \in 1 .. next' - 1
          PROVE  /\ buf'[i] = {Back(next - 1 - i)'} /\ Back(next - 1 - i)' \in Usable'
                 /\ \A j \in 1 .. got : dst[j] # buf'[i]
      <3>1. CASE i < next
        <4>1. i \in 1 .. next - 1
          BY <1>1, <3>1
        <4>2. Back(next - 1 - i)' = Back(next - 1 - i)
          BY <1>1, <1>2, <1>3, <4>1, Sizes DEF Back
        <4> QED BY <1>4, <2>1, <2>3, <4>1, <4>2
      <3>2. CASE i >= next
        <4>1. i \in next .. next + n - 1 /\ i \in Nat
          BY <1>1, <1>2, <3>2
        <4>2. generated + (i - next) \in generated .. generated + n - 1
          BY <1>1, <4>1
        <4>3. Back(next - 1 - i)' = <<key, generated + (i - next)>>
          BY <1>1, <1>2, <1>3, <4>1, Sizes DEF Back
        <4>4. \A j \in 1 .. got : \E b \in Generated : dst[j] = {b}
          BY DEF SourceInv, Written
        <4> QED BY <1>5, <2>4, <4>1, <4>2, <4>3, <4>4
      <3> QED BY <1>1, <1>2, <3>1, <3>2
    <2>10. Generating'
      BY <1>1, <1>2, <1>7, <2>1, <2>5, <2>9, Sizes DEF Generating
    <2> QED BY <2>6, <2>7, <2>8, <2>10 DEF SourceInv
  <1> QED BY <1>2, <1>6, <1>7 DEF SourceInv, Generating

(* The spent key becomes the one before; a buffer is not longer than the   *)
(* budget, so it never goes back further.                                  *)
LEMMA BudgetRekeyKeeps == ASSUME SourceInv, BudgetRekey PROVE SourceInv'
  <1>1. /\ keys' = keys + 1 /\ key' = keys + 1 /\ keyedAt' = now /\ born' = Append(born, now)
        /\ generated' = 0 /\ off' = BufSize /\ generated = KeyBudget /\ at = "generate"
        /\ keys < MaxKeys
        /\ UNCHANGED <<now, buf, at, dst, got, target, next, end, code, entered, retired,
                       handed>>
    BY Sizes DEF SourceInv, Shape, BudgetRekey, Rekey
  <1>2. Generated \subseteq Generated'
    BY <1>1, RekeyGenerated DEF SourceInv
  <1>3. born' \in Seq(Nat) /\ Len(born') = keys + 1 /\ born'[keys + 1] = now
    BY <1>1 DEF SourceInv, Shape
  <1>4. key = keys /\ key \in Nat /\ key >= 1
    BY <1>1 DEF SourceInv, Shape, Keyed, NoKey
  <1>5. Shape'
    BY <1>1, <1>2, <1>3, <1>4, Sizes, SourceAssumption DEF SourceInv, Shape
  <1>6. Keyed'
    BY <1>1, <1>3, <1>4 DEF SourceInv, Shape, Keyed, NoKey
  <1>7. Usable \subseteq Usable'
    BY <1>1, <1>2 DEF Usable
  <1>8. \A j \in 0 .. BufSize - 1 : Back(j)' = Back(j)
    BY <1>1, <1>4, Sizes DEF Back
  <1>9. Generating'
    <2>1. CASE target = "dst"
      BY <1>1, <2>1, Sizes DEF SourceInv, Generating
    <2>2. CASE target = "buf"
      <3>1. end = BufSize /\ next \in 1 .. BufSize + 1
        BY <1>1, <2>2 DEF SourceInv, Generating
      <3>2. ASSUME NEW i \in 1 .. next - 1
            PROVE  /\ buf[i] = {Back(next - 1 - i)'} /\ Back(next - 1 - i)' \in Usable'
                   /\ \A j \in 1 .. got : dst[j] # buf[i]
        <4>1. PICK j \in 0 .. BufSize - 1 : j = next - 1 - i
          BY <3>1, Sizes
        <4>2. Back(next - 1 - i)' = Back(next - 1 - i)
          BY <1>1, <1>8, <4>1 DEF Back
        <4> QED BY <1>1, <1>7, <2>2, <4>2 DEF SourceInv, Generating
      <3> QED BY <1>1, <2>2, <3>2, Sizes DEF SourceInv, Generating
    <2> QED BY <1>1, <2>1, <2>2 DEF SourceInv, Generating
  <1>10. Unserved' /\ Begun' /\ Written' /\ SuccessIsWhole'
    BY <1>1, <1>2 DEF SourceInv, Unserved, Begun, Written, SuccessIsWhole
  <1> QED BY <1>5, <1>6, <1>9, <1>10 DEF SourceInv

LEMMA BudgetFailsKeeps == ASSUME SourceInv, BudgetFails PROVE SourceInv'
  <1>1. Generated \subseteq Generated'
    BY KeylessGenerated DEF SourceInv, BudgetFails, RekeyFails
  <1>2. \A i \in 1 .. got' : \E b \in Generated' : dst'[i] = {b}
    BY <1>1 DEF SourceInv, Written, BudgetFails
  <1>3. handed' \subseteq Generated'
    BY <1>1, <1>2, HandsOut DEF SourceInv, Shape, BudgetFails, Returns
  <1>4. Shape' /\ Keyed'
    BY <1>3, Sizes DEF SourceInv, Shape, Keyed, BudgetFails, RekeyFails, Returns, NoKey
  <1>5. Unserved' /\ Generating' /\ Begun'
    BY Sizes DEF Unserved, Generating, Begun, BudgetFails, RekeyFails, Returns
  <1>6. Written' /\ SuccessIsWhole'
    BY <1>2 DEF Written, SuccessIsWhole, BudgetFails, Returns, WasiEIO
  <1> QED BY <1>4, <1>5, <1>6 DEF SourceInv

LEMMA DirectDoneKeeps == ASSUME SourceInv, DirectDone PROVE SourceInv'
  <1>1. Generated' = Generated
    BY DEF DirectDone, source, Generated
  <1>2. \A i \in 1 .. got' : \E b \in Generated' : dst'[i] = {b}
    BY <1>1 DEF SourceInv, Written, DirectDone
  <1>3. handed' \subseteq Generated'
    BY <1>1, <1>2, HandsOut DEF SourceInv, Shape, DirectDone, Returns
  <1>4. off = BufSize /\ got = Len(dst)
    BY Sizes DEF SourceInv, Shape, Generating, DirectDone
  <1>5. Shape' /\ Keyed'
    BY <1>3, <1>4 DEF SourceInv, Shape, Keyed, DirectDone, Returns, source
  <1>6. Unserved' /\ Generating' /\ Begun' /\ Written' /\ SuccessIsWhole'
    BY <1>2, <1>4, Sizes DEF Unserved, Generating, Begun, Written, SuccessIsWhole, DirectDone,
                             Returns, source
  <1> QED BY <1>5, <1>6 DEF SourceInv

(* The rest of the draw is the head of the buffer; its tail stays unserved. *)
LEMMA RefillDoneKeeps == ASSUME SourceInv, RefillDone PROVE SourceInv'
  <1> DEFINE m == Len(dst) - got
  <1>1. /\ at = "generate" /\ target = "buf" /\ end = BufSize /\ next = BufSize + 1
        /\ m \in 1 .. BufSize - 1 /\ got \in Nat /\ Len(dst) \in Nat
        /\ off' = m /\ got' = Len(dst)
        /\ dst' = [i \in 1 .. Len(dst) |-> IF i <= got THEN dst[i] ELSE buf[i - got]]
        /\ at' = "idle" /\ code' = 0 /\ handed' = handed \cup BytesIn(dst', got')
        /\ UNCHANGED <<target, next, end, now, key, keyedAt, generated, buf, keys, born, entered,
                       retired>>
    <2>1. /\ end = BufSize /\ next \in 1 .. end + 1 /\ m \in 1 .. BufSize - 1
          /\ got \in 0 .. Len(dst) /\ Len(dst) \in Nat /\ next > end
      BY DEF SourceInv, Shape, Generating, RefillDone
    <2>2. next = BufSize + 1 /\ got \in Nat
      BY <2>1, Sizes
    <2> QED BY <2>1, <2>2 DEF RefillDone, Returns
  <1>2. Len(dst') = Len(dst) /\ \A i \in 1 .. got : dst'[i] = dst[i]
    BY <1>1
  <1>3. \A i \in got + 1 .. Len(dst) : dst'[i] = buf[i - got] /\ i - got \in 1 .. m
    BY <1>1
  <1>4. \A i \in 1 .. BufSize :
            /\ buf[i] = {Back(BufSize - i)} /\ Back(BufSize - i) \in Usable
            /\ \A j \in 1 .. got : dst[j] # buf[i]
    BY <1>1, Sizes DEF SourceInv, Generating
  <1>5. Generated' = Generated /\ \A j : Back(j)' = Back(j)
    BY <1>1 DEF Generated, Back
  <1>6. generated \in 0 .. KeyBudget /\ key \in Nat
    BY <1>1 DEF SourceInv, Shape, Keyed, NoKey
  <1>7. \A i, j \in 1 .. BufSize : Back(BufSize - i) = Back(BufSize - j) => i = j
    BY <1>6, Sizes DEF Back
  <1>8. \A i \in 1 .. got' : \E b \in Generated' : dst'[i] = {b}
    <2>1. ASSUME NEW i \in 1 .. got PROVE \E b \in Generated' : dst'[i] = {b}
      BY <1>2, <1>5 DEF SourceInv, Written
    <2>2. ASSUME NEW i \in got + 1 .. Len(dst) PROVE \E b \in Generated' : dst'[i] = {b}
      <3>1. PICK k \in 1 .. BufSize : k = i - got /\ dst'[i] = buf[k]
        BY <1>1, <1>3, Sizes
      <3>2. dst'[i] = {Back(BufSize - k)} /\ Back(BufSize - k) \in Generated
        BY <1>4, <3>1 DEF Usable
      <3> QED BY <1>5, <3>2
    <2> TAKE i \in 1 .. got'
    <2>3. i \in 1 .. got \/ i \in got + 1 .. Len(dst)
      BY <1>1
    <2> QED BY <2>1, <2>2, <2>3
  <1>9. handed' \subseteq Generated'
    BY <1>1, <1>5, <1>8, HandsOut DEF SourceInv, Shape
  <1>10. Shape'
    BY <1>1, <1>2, <1>5, <1>9, Sizes DEF SourceInv, Shape
  <1>11. Keyed'
    BY <1>1 DEF SourceInv, Keyed
  <1>12. ASSUME NEW i \in m + 1 .. BufSize
         PROVE  buf[i] = {Back(BufSize - i)} /\ Back(BufSize - i) \in Usable'
    <2>1. i \in 1 .. BufSize
      BY <1>1
    <2>2. Back(BufSize - i) \notin BytesIn(dst', got')
      <3> SUFFICES ASSUME NEW k \in 1 .. got', Back(BufSize - i) \in dst'[k] PROVE FALSE
        BY DEF BytesIn
      <3>1. CASE k <= got
        <4>1. k \in 1 .. got /\ dst'[k] = dst[k] /\ dst[k] # buf[i]
          BY <1>1, <1>2, <1>4, <2>1, <3>1
        <4>2. \E b \in Generated : dst[k] = {b}
          BY <4>1 DEF SourceInv, Written
        <4> QED BY <1>4, <2>1, <4>1, <4>2
      <3>2. CASE k > got
        <4>1. k \in got + 1 .. Len(dst)
          BY <1>1, <3>2
        <4>2. PICK j \in 1 .. BufSize : j = k - got /\ dst'[k] = buf[j] /\ j # i
          BY <1>1, <1>3, <4>1, Sizes
        <4> QED BY <1>4, <1>7, <2>1, <4>2
      <3> QED BY <1>1, <3>1, <3>2
    <2> QED BY <1>1, <1>4, <1>5, <2>1, <2>2 DEF Usable
  <1>13. Unserved' /\ Begun' /\ Generating' /\ Written' /\ SuccessIsWhole'
    BY <1>1, <1>2, <1>5, <1>8, <1>12 DEF Unserved, Begun, Generating, Written, SuccessIsWhole
  <1> QED BY <1>10, <1>11, <1>13 DEF SourceInv

-----------------------------------------------------------------------------
LEMMA InitKeeps == Init => SourceInv
  <1> SUFFICES ASSUME Init PROVE SourceInv
    OBVIOUS
  <1>1. Len(buf) = BufSize /\ Len(dst) = 0 /\ Len(born) = 0 /\ born \in Seq(Nat)
    BY Sizes DEF Init, Empty
  <1> QED BY <1>1, Sizes, SourceAssumption
          DEF Init, SourceInv, Shape, Keyed, Unserved, Begun, Generating, Written,
              SuccessIsWhole, NoKey

LEMMA NextKeeps == SourceInv /\ [Next]_vars => SourceInv'
  <1>1. SourceInv /\ UNCHANGED vars => SourceInv'
    BY Idles DEF vars, source, SourceInv, Shape
  <1> QED BY <1>1, TickKeeps, FillKeeps, EntryFreshKeeps, EntryRekeyKeeps, EntryFailsKeeps,
             ServeKeeps, GenerateKeeps, BudgetRekeyKeeps, BudgetFailsKeeps, DirectDoneKeeps,
             RefillDoneKeeps
          DEF Next

(* The inductive invariant: the buffer is the tail of what was generated,  *)
(* unused, and the destination holds one unused byte to a cell.            *)
THEOREM SourceInvariant == Spec => []SourceInv
  BY InitKeeps, NextKeeps, PTL DEF Spec

-----------------------------------------------------------------------------
(* The properties. *)

(* No keystream byte is written twice, in one draw or in two.              *)
THEOREM NothingTwice == Spec => []NoByteTwice
  <1>1. ASSUME SourceInv PROVE NoByteTwice
    <2> SUFFICES ASSUME at # "idle"
                 PROVE  /\ BytesIn(dst, got) \cap handed = {}
                        /\ Cardinality(BytesIn(dst, got)) = got
      BY DEF NoByteTwice
    <2>1. \A i \in 1 .. got : \E b \in Generated : dst[i] = {b} /\ b \notin handed
      BY <1>1 DEF SourceInv, Written
    <2>2. \A i, j \in 1 .. got : dst[i] = dst[j] => i = j
      BY <1>1 DEF SourceInv, Written
    <2>3. got \in Nat
      BY <1>1 DEF SourceInv, Shape
    <2>4. \A i \in 1 .. got : \E b : dst[i] = {b}
      BY <2>1
    <2>5. Cardinality(BytesIn(dst, got)) = got
      BY <2>2, <2>3, <2>4, CountsCells
    <2> QED BY <2>1, <2>5 DEF BytesIn
  <1> QED BY <1>1, SourceInvariant, PTL

(* Every written cell is one byte of keystream.                            *)
THEOREM KeystreamPure == Spec => []PureKeystream
  <1>1. SourceInv => PureKeystream
    BY DEF SourceInv, Written, Generated, PureKeystream
  <1> QED BY <1>1, SourceInvariant, PTL

(* A draw that reports success is whole.                                   *)
THEOREM SuccessWhole == Spec => []SuccessIsWhole
  <1>1. SourceInv => SuccessIsWhole
    BY DEF SourceInv
  <1> QED BY <1>1, SourceInvariant, PTL

(* Between draws the buffer is the tail of what was generated.             *)
THEOREM BufferTail == Spec => []BufferIsTail
  <1>1. SourceInv => BufferIsTail
    BY DEF SourceInv, Keyed, Unserved, Back, BufferIsTail
  <1> QED BY <1>1, SourceInvariant, PTL

(* The counters keep their ranges.                                         *)
THEOREM SourceTyped == Spec => []TypeOK
  <1>1. SourceInv => TypeOK
    BY DEF SourceInv, Shape, Keyed, TypeOK, NoKey
  <1> QED BY <1>1, SourceInvariant, PTL

(* Bytes that a step writes from the buffer or from the key it generates   *)
(* from.                                                                   *)
NewlyWritten(i) == \A b \in dst'[i] : b[1] > retired /\ b[1] \in {key, key - 1}

LEMMA UsableKeys ==
    ASSUME SourceInv, NEW j \in 0 .. BufSize - 1, Back(j) \in Usable
    PROVE  Back(j)[1] > retired /\ Back(j)[1] \in {key, key - 1}
  BY DEF Back, Usable

LEMMA ServeWrites ==
    ASSUME SourceInv, Serve, NEW i \in 1 .. got'
    PROVE  NewlyWritten(i)
  <1>1. /\ off \in 0 .. BufSize /\ Len(dst) \in Nat /\ got' = Drained /\ at = "serve"
        /\ i \in 1 .. Drained
    BY DEF SourceInv, Shape, Serve
  <1>2. Drained <= Len(dst) /\ Drained <= BufSize - off /\ Drained \in Nat
    BY <1>1, Sizes DEF Drained, Lesser
  <1>3. /\ i \in 1 .. Len(dst) /\ off + i \in off + 1 .. BufSize
        /\ BufSize - (off + i) \in 0 .. BufSize - 1
    BY <1>1, <1>2, Sizes
  <1>4. dst'[i] = buf[off + i]
    BY <1>1, <1>3 DEF Serve
  <1>5. buf[off + i] = {Back(BufSize - (off + i))} /\ Back(BufSize - (off + i)) \in Usable
    BY <1>1, <1>3 DEF SourceInv, Unserved
  <1> QED BY <1>3, <1>4, <1>5, UsableKeys DEF NewlyWritten

LEMMA GenerateWrites ==
    ASSUME SourceInv, Generate, NEW i \in 1 .. got', i > got
    PROVE  NewlyWritten(i)
  <1>1. target = "dst" /\ next = got + 1 /\ end = Len(dst) /\ got \in Nat /\ Len(dst) \in Nat
    BY DEF SourceInv, Shape, Generating, Generate
  <1>2. /\ generated \in 0 .. KeyBudget /\ next <= end /\ generated < KeyBudget /\ end \in Nat
        /\ got' = got + Chunk /\ dst' = Xored(dst, Chunk) /\ at = "generate"
    BY <1>1 DEF SourceInv, Shape, Generate
  <1>3. Chunk \in Nat /\ Chunk <= end - next + 1
    BY <1>1, <1>2, Sizes DEF Chunk, Lesser
  <1>4. i \in 1 .. Len(dst) /\ i \in next .. end /\ i < next + Chunk
    BY <1>1, <1>2, <1>3
  <1>5. dst'[i] = dst[i] \cup {<<key, generated + (i - next)>>} /\ dst[i] = {}
    BY <1>1, <1>2, <1>4 DEF Xored, SourceInv, Generating
  <1>6. key > retired
    BY <1>2 DEF SourceInv, Keyed
  <1> QED BY <1>5, <1>6 DEF NewlyWritten

LEMMA RefillWrites ==
    ASSUME SourceInv, RefillDone, NEW i \in 1 .. got', i > got
    PROVE  NewlyWritten(i)
  <1>1. /\ end = BufSize /\ next \in 1 .. end + 1 /\ next > end
        /\ Len(dst) - got \in 1 .. BufSize - 1 /\ got \in 0 .. Len(dst) /\ Len(dst) \in Nat
        /\ got' = Len(dst) /\ at = "generate" /\ target = "buf"
    BY DEF SourceInv, Shape, Generating, RefillDone
  <1>2. PICK k \in 1 .. next - 1 : k = i - got /\ next - 1 - k \in 0 .. BufSize - 1
    BY <1>1, Sizes
  <1>3. dst'[i] = buf[k]
    BY <1>1, <1>2 DEF RefillDone
  <1>4. buf[k] = {Back(next - 1 - k)} /\ Back(next - 1 - k) \in Usable
    BY <1>1, <1>2 DEF SourceInv, Generating
  <1> QED BY <1>2, <1>3, <1>4, UsableKeys DEF NewlyWritten

LEMMA WritesUsable ==
    ASSUME SourceInv, [Next]_vars, NEW i \in 1 .. got', i > got \/ got' < got
    PROVE  NewlyWritten(i) /\ retired' = retired
  <1>1. got \in Nat
    BY DEF SourceInv, Shape
  <1>2. CASE Tick \/ EntryFresh \/ EntryRekey \/ EntryFails \/ BudgetRekey \/ BudgetFails
             \/ DirectDone \/ UNCHANGED vars
    <2>1. got' = got
      BY <1>2 DEF Tick, EntryFresh, EntryRekey, EntryFails, BudgetRekey, BudgetFails, DirectDone,
                  vars
    <2> QED BY <1>1, <2>1
  <1>3. CASE Fill
    BY <1>3 DEF Fill
  <1>4. CASE Serve
    BY <1>4, ServeWrites DEF Serve
  <1>5. CASE Generate
    <2>1. ~(got' < got)
      <3>1. CASE target = "dst"
        <4>1. end - next + 1 \in Nat /\ KeyBudget - generated \in Nat /\ got' = got + Chunk
          BY <1>5, <3>1, Sizes DEF SourceInv, Shape, Generating, Generate
        <4> QED BY <1>1, <4>1 DEF Chunk, Lesser
      <3> QED BY <1>1, <1>5, <3>1 DEF Generate
    <2> QED BY <1>5, <2>1, GenerateWrites DEF Generate
  <1>6. CASE RefillDone
    <2>1. got' = Len(dst) /\ got \in 0 .. Len(dst) /\ Len(dst) \in Nat
      BY <1>6 DEF SourceInv, Shape, RefillDone
    <2>2. ~(got' < got)
      BY <2>1
    <2> QED BY <1>6, <2>2, RefillWrites DEF RefillDone
  <1> QED BY <1>2, <1>3, <1>4, <1>5, <1>6 DEF Next

(* Nothing of a key that was given up is ever written again.               *)
THEOREM RetiredUnserved == Spec => RetiredNeverServed
  <1> DEFINE Fresh == \A i \in 1 .. got' : i > got \/ got' < got =>
                          \A b \in dst'[i] : b[1] > retired'
  <1>1. ASSUME SourceInv, [Next]_vars PROVE Fresh
    BY <1>1, WritesUsable DEF NewlyWritten
  <1>2. SourceInv /\ [Next]_vars => [Fresh]_vars
    BY <1>1
  <1> QED BY <1>2, SourceInvariant, PTL DEF Spec, RetiredNeverServed

(* The buffer's bytes are served within the lifetime of the key they are   *)
(* of, or of the next.                                                     *)
THEOREM SuccessorBound == Spec => BufferedWithinSuccessor
  <1> DEFINE Young == at = "serve" => \A i \in 1 .. got' : \A b \in dst'[i] :
                          entered - born[Lesser(b[1] + 1, keys)] < KeyLifetime
  <1>1. ASSUME SourceInv, [Next]_vars PROVE Young
    <2> SUFFICES ASSUME at = "serve", NEW i \in 1 .. got', NEW b \in dst'[i]
                 PROVE  entered - born[Lesser(b[1] + 1, keys)] < KeyLifetime
      OBVIOUS
    <2>1. key = keys /\ entered - born[keys] < KeyLifetime /\ key \in Nat /\ got = 0
      BY <1>1 DEF SourceInv, Shape, Keyed, Begun
    <2>2. b[1] \in {key, key - 1}
      BY <1>1, <2>1, WritesUsable DEF NewlyWritten
    <2>3. Lesser(b[1] + 1, keys) = keys
      BY <2>1, <2>2 DEF Lesser
    <2> QED BY <2>1, <2>3
  <1>2. SourceInv /\ [Next]_vars => [Young]_vars
    BY <1>1
  <1> QED BY <1>2, SourceInvariant, PTL DEF Spec, BufferedWithinSuccessor
=============================================================================
