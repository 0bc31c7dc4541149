--------------------------- MODULE LayoutsProofs ----------------------------
(***************************************************************************)
(* Proofs about Layouts, for every value of 122 free bits, and about what  *)
(* comes to be such a value: Mint, which lays a UUID out in octets, and    *)
(* the version 7 stream, whose order its UUIDs have as octets.             *)
(*                                                                         *)
(* Where a conversion or SQL Server's comparison takes a bit from is first *)
(* said field by field (SqlSources, RfcSources, RankedSources); the rest   *)
(* is by cases over the fields.  Mint is an invariant (MintInv) that       *)
(* follows the octets from the draw to the caller.  The stream's order     *)
(* becomes the octets' by reading its numbers bit by bit (BinaryOrder).    *)
(***************************************************************************)
EXTENDS Layouts, Mint, WellFoundedInduction, TLAPS

(* What the two checks look at, bit by bit.                                *)
LEMMA V7Bits ==
    ASSUME NEW v \in Value
    PROVE  ReadsAsV7(v) <=>
              /\ v[48] = 0 /\ v[49] = 1 /\ v[50] = 1 /\ v[51] = 1
              /\ v[64] = 1 /\ v[65] = 0
<1>1. Is(v, 48, <<0, 1, 1, 1>>) <=> v[48] = 0 /\ v[49] = 1 /\ v[50] = 1 /\ v[51] = 1
      BY DEF Is
<1>2. Is(v, 64, <<1, 0>>) <=> v[64] = 1 /\ v[65] = 0
      BY DEF Is
<1> QED BY <1>1, <1>2 DEF ReadsAsV7, RfcVariant

LEMMA SqlBits ==
    ASSUME NEW v \in Value
    PROVE  SqlMarked(v) <=>
              /\ v[56] = 1 /\ v[57] = 0 /\ v[58] = 0 /\ v[59] = 0
              /\ v[64] = 1 /\ v[65] = 0
<1>1. Is(v, 56, <<1, 0, 0, 0>>) <=> v[56] = 1 /\ v[57] = 0 /\ v[58] = 0 /\ v[59] = 0
      BY DEF Is
<1>2. Is(v, 64, <<1, 0>>) <=> v[64] = 1 /\ v[65] = 0
      BY DEF Is
<1> QED BY <1>1, <1>2 DEF SqlMarked, RfcVariant

(* A conversion moves every free bit and makes a value.                    *)
LEMMA ToSqlValue == ASSUME NEW v \in Value PROVE ToSql(v) \in Value
BY DEF ToSql, Value, Bits, SqlRandom, SqlCounter, SqlVariant

LEMMA ToRfcValue == ASSUME NEW v \in Value PROVE ToRfc(v) \in Value
BY DEF ToRfc, Value, Bits, RfcRandom, RfcCounter

(* Where each free bit comes from.                                         *)
LEMMA SqlSources ==
    ASSUME NEW v, NEW p \in Bits
    PROVE  /\ p \in 0 .. 31   => ToSql(v)[p] = v[p + 96]
           /\ p \in 32 .. 47  => ToSql(v)[p] = v[p + 48]
           /\ p \in 48 .. 55  => ToSql(v)[p] = v[p + 20]
           /\ p \in 60 .. 63  => ToSql(v)[p] = v[p + 16]
           /\ p \in 66 .. 77  => ToSql(v)[p] = v[p - 14]
           /\ p \in 78 .. 79  => ToSql(v)[p] = v[p - 12]
           /\ p \in 80 .. 127 => ToSql(v)[p] = v[p - 80]
<1>1. p \in 0 .. 47 => ToSql(v)[p] = SqlRandom(v, p)
      BY DEF ToSql, Bits
<1>2. p \in 48 .. 55 \cup 60 .. 63 \cup 66 .. 79 => ToSql(v)[p] = SqlCounter(v, p)
      BY DEF ToSql, Bits
<1>3. p \in 80 .. 127 => ToSql(v)[p] = v[p - 80]
      BY DEF ToSql, Bits
<1> QED BY <1>1, <1>2, <1>3 DEF SqlRandom, SqlCounter, Bits

LEMMA RfcSources ==
    ASSUME NEW v, NEW p \in Bits
    PROVE  /\ p \in 0 .. 47   => ToRfc(v)[p] = v[p + 80]
           /\ p \in 52 .. 63  => ToRfc(v)[p] = v[p + 14]
           /\ p \in 66 .. 67  => ToRfc(v)[p] = v[p + 12]
           /\ p \in 68 .. 75  => ToRfc(v)[p] = v[p - 20]
           /\ p \in 76 .. 79  => ToRfc(v)[p] = v[p - 16]
           /\ p \in 80 .. 95  => ToRfc(v)[p] = v[p - 48]
           /\ p \in 96 .. 127 => ToRfc(v)[p] = v[p - 96]
<1>1. p \in 0 .. 47 => ToRfc(v)[p] = v[p + 80]
      BY DEF ToRfc, Bits
<1>2. p \in 52 .. 63 \cup 66 .. 79 => ToRfc(v)[p] = RfcCounter(v, p)
      BY DEF ToRfc, Bits
<1>3. p \in 80 .. 127 => ToRfc(v)[p] = RfcRandom(v, p)
      BY DEF ToRfc, Bits
<1> QED BY <1>1, <1>2, <1>3 DEF RfcRandom, RfcCounter, Bits

(* Converted to SQL order and back, a version 7 is itself.                 *)
LEMMA SqlUndone ==
    ASSUME NEW v \in Value, ReadsAsV7(v)
    PROVE  SqlMarked(ToSql(v)) /\ ToRfc(ToSql(v)) = v
<1> DEFINE s == ToSql(v)
<1>1. s \in Value
      BY ToSqlValue
<1>2. SqlMarked(s)
      BY <1>1, SqlBits DEF ToSql, Bits, SqlVariant
<1>3. ASSUME NEW p \in Bits PROVE ToRfc(s)[p] = v[p]
      <2>1. CASE p \in 0 .. 47
            <3>1. p + 80 \in Bits
                  BY <2>1 DEF Bits
            <3> QED BY <1>3, <2>1, <3>1, RfcSources, SqlSources
      <2>2. CASE p \in 52 .. 63
            <3>1. p + 14 \in Bits
                  BY <2>2 DEF Bits
            <3> QED BY <1>3, <2>2, <3>1, RfcSources, SqlSources
      <2>3. CASE p \in 66 .. 67
            <3>1. p + 12 \in Bits
                  BY <2>3 DEF Bits
            <3> QED BY <1>3, <2>3, <3>1, RfcSources, SqlSources
      <2>4. CASE p \in 68 .. 75
            <3>1. p - 20 \in Bits
                  BY <2>4 DEF Bits
            <3> QED BY <1>3, <2>4, <3>1, RfcSources, SqlSources
      <2>5. CASE p \in 76 .. 79
            <3>1. p - 16 \in Bits
                  BY <2>5 DEF Bits
            <3> QED BY <1>3, <2>5, <3>1, RfcSources, SqlSources
      <2>6. CASE p \in 80 .. 95
            <3>1. p - 48 \in Bits
                  BY <2>6 DEF Bits
            <3> QED BY <1>3, <2>6, <3>1, RfcSources, SqlSources
      <2>7. CASE p \in 96 .. 127
            <3>1. p - 96 \in Bits
                  BY <2>7 DEF Bits
            <3> QED BY <1>3, <2>7, <3>1, RfcSources, SqlSources
      <2>8. CASE p \in {48, 49, 50, 51, 64, 65}
            BY <2>8, V7Bits DEF ToRfc, Bits
      <2> QED BY <1>3, <2>1, <2>2, <2>3, <2>4, <2>5, <2>6, <2>7, <2>8 DEF Bits
<1>4. ToRfc(s) \in Value
      BY <1>1, ToRfcValue
<1> QED BY <1>2, <1>3, <1>4 DEF Value

(* And the other way round.                                                *)
LEMMA RfcUndone ==
    ASSUME NEW v \in Value, SqlMarked(v)
    PROVE  ReadsAsV7(ToRfc(v)) /\ ToSql(ToRfc(v)) = v
<1> DEFINE r == ToRfc(v)
<1>1. r \in Value
      BY ToRfcValue
<1>2. ReadsAsV7(r)
      BY <1>1, V7Bits DEF ToRfc, Bits
<1>3. ASSUME NEW p \in Bits PROVE ToSql(r)[p] = v[p]
      <2>1. CASE p \in 0 .. 31
            <3>1. p + 96 \in Bits
                  BY <2>1 DEF Bits
            <3> QED BY <1>3, <2>1, <3>1, SqlSources, RfcSources
      <2>2. CASE p \in 32 .. 47
            <3>1. p + 48 \in Bits
                  BY <2>2 DEF Bits
            <3> QED BY <1>3, <2>2, <3>1, SqlSources, RfcSources
      <2>3. CASE p \in 48 .. 55
            <3>1. p + 20 \in Bits
                  BY <2>3 DEF Bits
            <3> QED BY <1>3, <2>3, <3>1, SqlSources, RfcSources
      <2>4. CASE p \in 60 .. 63
            <3>1. p + 16 \in Bits
                  BY <2>4 DEF Bits
            <3> QED BY <1>3, <2>4, <3>1, SqlSources, RfcSources
      <2>5. CASE p \in 66 .. 77
            <3>1. p - 14 \in Bits
                  BY <2>5 DEF Bits
            <3> QED BY <1>3, <2>5, <3>1, SqlSources, RfcSources
      <2>6. CASE p \in 78 .. 79
            <3>1. p - 12 \in Bits
                  BY <2>6 DEF Bits
            <3> QED BY <1>3, <2>6, <3>1, SqlSources, RfcSources
      <2>7. CASE p \in 80 .. 127
            <3>1. p - 80 \in Bits
                  BY <2>7 DEF Bits
            <3> QED BY <1>3, <2>7, <3>1, SqlSources, RfcSources
      <2>8. CASE p \in {56, 57, 58, 59, 64, 65}
            BY <2>8, SqlBits DEF ToSql, Bits, SqlVariant
      <2> QED BY <1>3, <2>1, <2>2, <2>3, <2>4, <2>5, <2>6, <2>7, <2>8 DEF Bits
<1>4. ToSql(r) \in Value
      BY <1>1, ToSqlValue
<1> QED BY <1>2, <1>3, <1>4 DEF Value

-----------------------------------------------------------------------------
(* What the last conversion left, and the values it and those before it    *)
(* were made from.                                                         *)
LayoutsInv ==
    /\ TypeOK /\ Reversible
    /\ trail # <<>> =>
          IF Newest.op = "to" THEN ReadsAsV7(Newest.from) /\ value = ToSql(Newest.from)
          ELSE SqlMarked(Newest.from) /\ value = ToRfc(Newest.from)

LEMMA ConvertsInv ==
    ASSUME LayoutsInv, NEW op \in {"to", "from"}, NEW result \in Value,
           Converts(op, result),
           op = "to" => ReadsAsV7(value) /\ result = ToSql(value),
           op = "from" => SqlMarked(value) /\ result = ToRfc(value)
    PROVE  LayoutsInv'
<1> DEFINE entry == [op |-> op, from |-> value]
<1>1. /\ trail \in Seq([op : {"to", "from"}, from : Value]) /\ value \in Value
      /\ entry \in [op : {"to", "from"}, from : Value]
      /\ Len(trail) < MaxTrail /\ MaxTrail \in Nat
      BY ValuesAssumption DEF LayoutsInv, TypeOK, Converts
<1>2. trail' = Append(trail, entry) /\ value' = result /\ rc' = Ok
      BY DEF Converts
<1> HIDE DEF entry
<1>3. /\ trail' \in Seq([op : {"to", "from"}, from : Value])
      /\ Len(trail') = Len(trail) + 1 /\ trail' # <<>>
      /\ trail'[Len(trail')] = entry
      BY <1>1, <1>2
<1>4. Newest' = entry /\ entry.op = op /\ entry.from = value
      BY <1>3 DEF Newest, entry
<1>5. TypeOK'
      BY <1>1, <1>2, <1>3 DEF TypeOK
<1>6. CASE op = "to"
      <2>1. SqlMarked(result) /\ ToRfc(result) = value
            BY <1>1, <1>6, SqlUndone
      <2> QED BY <1>2, <1>3, <1>4, <1>5, <1>6, <2>1 DEF LayoutsInv, Reversible
<1>7. CASE op = "from"
      <2>1. ReadsAsV7(result) /\ ToSql(result) = value
            BY <1>1, <1>7, RfcUndone
      <2> QED BY <1>2, <1>3, <1>4, <1>5, <1>7, <2>1 DEF LayoutsInv, Reversible
<1> QED BY <1>6, <1>7

(* LayoutsInv holds of every behaviour.                                    *)
THEOREM LayoutsInvariant == Spec => []LayoutsInv
<1>1. Init => LayoutsInv
      <2> SUFFICES ASSUME Init PROVE LayoutsInv
          OBVIOUS
      <2>1. value \in Value /\ trail = <<>> /\ rc = Ok /\ MaxTrail \in Nat
            BY ValuesAssumption DEF Init
      <2> QED BY <2>1 DEF LayoutsInv, TypeOK, Reversible
<1>2. LayoutsInv /\ [Next]_vars => LayoutsInv'
      <2> SUFFICES ASSUME LayoutsInv, [Next]_vars PROVE LayoutsInv'
          OBVIOUS
      <2>1. value \in Value
            BY DEF LayoutsInv, TypeOK
      <2>2. CASE ConvertToSql
            <3>1. ToSql(value) \in Value
                  BY <2>1, ToSqlValue
            <3> QED BY <2>2, <3>1, ConvertsInv DEF ConvertToSql
      <2>3. CASE ConvertToRfc
            <3>1. ToRfc(value) \in Value
                  BY <2>1, ToRfcValue
            <3> QED BY <2>3, <3>1, ConvertsInv DEF ConvertToRfc
      <2>4. CASE RefuseToSql \/ RefuseToRfc \/ UNCHANGED vars
            BY <2>4 DEF RefuseToSql, RefuseToRfc, Refuses, vars, LayoutsInv, TypeOK,
                        Reversible, Newest
      <2> QED BY <2>2, <2>3, <2>4 DEF Next
<1> QED BY <1>1, <1>2, PTL DEF Spec

(* Whatever a value's 122 free bits and however often it was converted,    *)
(* the inverse of its last conversion accepts it and gives back the exact  *)
(* original.                                                               *)
THEOREM ConversionsReversible == Spec => []Reversible
<1>1. LayoutsInv => Reversible
      BY DEF LayoutsInv
<1> QED BY LayoutsInvariant, <1>1, PTL

-----------------------------------------------------------------------------
(* The two orders of a version 7 carry the same timestamp.                 *)
LEMMA SqlMillis == ASSUME NEW v PROVE UnixMillis(ToSql(v), Sql) = UnixMillis(v, Rfc)
<1>1. ASSUME NEW k \in MsBits PROVE ToSql(v)[80 + k] = v[0 + k]
      <2>1. 80 + k \in Bits /\ 80 + k \in 80 .. 127 /\ (80 + k) - 80 = 0 + k
            BY DEF MsBits, Bits
      <2> QED BY <2>1, SqlSources
<1> QED BY <1>1 DEF UnixMillis, MsAt, Rfc, Sql

LEMMA RfcMillis == ASSUME NEW v PROVE UnixMillis(ToRfc(v), Rfc) = UnixMillis(v, Sql)
<1>1. ASSUME NEW k \in MsBits PROVE ToRfc(v)[0 + k] = v[80 + k]
      <2>1. 0 + k \in Bits /\ 0 + k \in 0 .. 47 /\ (0 + k) + 80 = 80 + k
            BY DEF MsBits, Bits
      <2> QED BY <2>1, RfcSources
<1> QED BY <1>1 DEF UnixMillis, MsAt, Rfc, Sql

(* A value read as version 7 in RFC order, and one marked as converted.    *)
LEMMA RfcVersions ==
    ASSUME NEW v \in Value, ReadsAsV7(v)
    PROVE  /\ Version(v, Rfc) = 7
           /\ TimeVersion(v, Rfc) = IF PastCap(UnixMillis(v, Rfc)) THEN 0 ELSE 7
<1>1. Version(v, Rfc) = 7
      BY V7Bits DEF Version, VersionField, Rfc
<1>2. RfcVariant(v) /\ Is(v, 48, <<0, 1, 1, 1>>)
      BY DEF ReadsAsV7
<1> QED BY <1>1, <1>2 DEF TimeVersion, Rfc

LEMMA SqlVersions ==
    ASSUME NEW v \in Value, SqlMarked(v)
    PROVE  /\ Version(v, Sql) = 7
           /\ TimeVersion(v, Sql) = IF PastCap(UnixMillis(v, Sql)) THEN 0 ELSE 7
BY DEF Version, TimeVersion, SqlMarked, Rfc, Sql

(* What the newest conversion was made from is a value.                    *)
LEMMA NewestFrom ==
    ASSUME TypeOK, trail # <<>>
    PROVE  Newest.from \in Value /\ Newest.op \in {"to", "from"}
<1> DEFINE E == [op : {"to", "from"}, from : Value]
<1>1. trail \in Seq(E)
      BY DEF TypeOK
<1> HIDE DEF E
<1>2. Len(trail) \in 1 .. Len(trail)
      BY <1>1
<1>3. Newest \in E
      BY <1>1, <1>2 DEF Newest
<1> QED BY <1>3 DEF E

(* A converted value answers every inspection in its layout as the         *)
(* original did in its own.                                                *)
THEOREM ConvertedInspectsAlike == Spec => []InspectsAlike
<1>1. LayoutsInv => InspectsAlike
      <2> SUFFICES ASSUME LayoutsInv, trail # <<>> PROVE InspectsAlike
          BY DEF InspectsAlike
      <2>1. value \in Value
            BY DEF LayoutsInv, TypeOK
      <2>2. Newest.from \in Value /\ Newest.op \in {"to", "from"}
            BY NewestFrom DEF LayoutsInv
      <2>3. CASE Newest.op = "to"
            <3>1. /\ ReadsAsV7(Newest.from) /\ SqlMarked(value)
                  /\ value = ToSql(Newest.from)
                  BY <2>3 DEF LayoutsInv, Reversible
            <3>2. UnixMillis(value, Sql) = UnixMillis(Newest.from, Rfc)
                  BY <3>1, SqlMillis
            <3> QED BY <2>1, <2>2, <2>3, <3>1, <3>2, RfcVersions, SqlVersions DEF InspectsAlike
      <2>4. CASE Newest.op = "from"
            <3>1. /\ SqlMarked(Newest.from) /\ ReadsAsV7(value)
                  /\ value = ToRfc(Newest.from)
                  BY <2>4 DEF LayoutsInv, Reversible
            <3>2. UnixMillis(value, Rfc) = UnixMillis(Newest.from, Sql)
                  BY <3>1, RfcMillis
            <3> QED BY <2>1, <2>2, <2>4, <3>1, <3>2, RfcVersions, SqlVersions DEF InspectsAlike
      <2> QED BY <2>2, <2>3, <2>4
<1> QED BY LayoutsInvariant, <1>1, PTL
-----------------------------------------------------------------------------
(* The three functions that look at a value's version and variant.         *)

LEMMA VersionRange == ASSUME NEW v \in Value PROVE VersionField(v) \in 0 .. 15
<1>1. v[48] \in {0, 1} /\ v[49] \in {0, 1} /\ v[50] \in {0, 1} /\ v[51] \in {0, 1}
      BY DEF Value, Bits
<1> QED BY <1>1 DEF VersionField

LEMMA VariantBits == ASSUME NEW v \in Value PROVE RfcVariant(v) <=> Variant(v) = 2
<1>1. v[64] \in {0, 1} /\ v[65] \in {0, 1} /\ v[66] \in {0, 1}
      BY DEF Value, Bits
<1>2. RfcVariant(v) <=> v[64] = 1 /\ v[65] = 0
      BY DEF Is, RfcVariant
<1> QED BY <1>1, <1>2 DEF Variant

LEMMA RfcGuard ==
    ASSUME NEW v \in Value, NEW n \in -1 .. 17
    PROVE  IsRfc(v, n, Rfc) <=> Version(v, Rfc) = n /\ Variant(v) = 2
<1>1. VersionField(v) = Narrowed(n) <=> VersionField(v) = n
      BY VersionRange DEF Narrowed
<1> QED BY <1>1, VariantBits DEF IsRfc, Version, Rfc

LEMMA SqlGuard ==
    ASSUME NEW v \in Value, NEW n \in -1 .. 17
    PROVE  IsRfc(v, n, Sql) <=> Version(v, Sql) = n /\ n = 7
<1>1. Narrowed(n) = 7 <=> n = 7
      BY DEF Narrowed
<1> QED BY <1>1 DEF IsRfc, Version, SqlMarked, Rfc, Sql

(* A timestamp is read exactly off what passes the guard, up to the cap.   *)
LEMMA TimeGuard ==
    ASSUME NEW v \in Value, NEW layout \in Layout
    PROVE  TimeVersion(v, layout) = 7 <=>
              IsRfc(v, 7, layout) /\ ~PastCap(UnixMillis(v, layout))
<1>1. Is(v, 48, <<0, 1, 1, 1>>) <=> VersionField(v) = 7
      <2>1. v[48] \in {0, 1} /\ v[49] \in {0, 1} /\ v[50] \in {0, 1} /\ v[51] \in {0, 1}
            BY DEF Value, Bits
      <2>2. Is(v, 48, <<0, 1, 1, 1>>) <=> v[48] = 0 /\ v[49] = 1 /\ v[50] = 1 /\ v[51] = 1
            BY DEF Is
      <2> QED BY <2>1, <2>2 DEF VersionField
<1>2. Narrowed(7) = 7
      BY DEF Narrowed
<1>3. CASE layout = Rfc
      BY <1>1, <1>2, <1>3 DEF TimeVersion, IsRfc
<1>4. CASE layout = Sql
      BY <1>2, <1>4 DEF TimeVersion, IsRfc, Rfc, Sql
<1> QED BY <1>3, <1>4 DEF Layout

(* IsRfcIn is the guard the docs make it, of any value in either layout.   *)
THEOREM GuardsConsistent == Spec => []GuardsAgree
<1>1. LayoutsInv => GuardsAgree
      <2> SUFFICES ASSUME LayoutsInv, NEW layout \in Layout
                   PROVE  /\ \A n \in -1 .. 17 :
                                IsRfc(value, n, layout) <=>
                                    /\ Version(value, layout) = n
                                    /\ layout = Rfc => Variant(value) = 2
                                    /\ layout = Sql => n = 7
                          /\ TimeVersion(value, layout) = 7 => IsRfc(value, 7, layout)
          BY DEF GuardsAgree
      <2>1. value \in Value
            BY DEF LayoutsInv, TypeOK
      <2>2. TimeVersion(value, layout) = 7 => IsRfc(value, 7, layout)
            BY <2>1, TimeGuard
      <2>3. CASE layout = Rfc
            BY <2>1, <2>2, <2>3, RfcGuard DEF Rfc, Sql
      <2>4. CASE layout = Sql
            BY <2>1, <2>2, <2>4, SqlGuard DEF Rfc, Sql
      <2> QED BY <2>3, <2>4 DEF Layout
<1> QED BY LayoutsInvariant, <1>1, PTL

-----------------------------------------------------------------------------
(* The order of bit strings. *)

LEMMA MinIsLeast ==
    ASSUME NEW S, S \subseteq Nat, S # {}
    PROVE  Min(S) \in S /\ \A y \in S : Min(S) <= y
<1>1. PICK m \in S : \A k \in S : <<k, m>> \notin OpToRel(<, Nat)
      BY NatLessThanWellFounded, WFMin
<1>2. ASSUME NEW a \in Nat, NEW b \in Nat, a < b PROVE <<a, b>> \in OpToRel(<, Nat)
      BY <1>2 DEF OpToRel
<1>3. \A k \in S : m <= k
      <2> SUFFICES ASSUME NEW k \in S, k < m PROVE FALSE
          OBVIOUS
      <2> QED BY <1>1, <1>2
<1> QED BY <1>3 DEF Min

(* v has the lower bit where the two first differ.                         *)
LowerFirst(D, v, w) == \E k \in D : v[k] < w[k] /\ \A j \in D : j < k => v[j] = w[j]

LEMMA FirstDifference ==
    ASSUME NEW D, NEW v, NEW w,
           D \subseteq Nat, v \in [D -> {0, 1}], w \in [D -> {0, 1}]
    PROVE  SortsBefore(v, w) <=> LowerFirst(D, v, w)
<1> DEFINE apart == { k \in D : v[k] # w[k] }
<1>1. SortsBefore(v, w) <=> apart # {} /\ v[Min(apart)] < w[Min(apart)]
      BY DEF SortsBefore
<1>2. apart \subseteq Nat
      OBVIOUS
<1>3. ASSUME apart # {}, v[Min(apart)] < w[Min(apart)]
      PROVE  \E k \in D : v[k] < w[k] /\ \A j \in D : j < k => v[j] = w[j]
      <2>1. Min(apart) \in apart /\ \A y \in apart : Min(apart) <= y
            BY <1>2, <1>3, MinIsLeast
      <2> DEFINE m == Min(apart)
      <2>2. m \in D /\ v[m] < w[m] /\ \A y \in apart : m <= y
            BY <1>3, <2>1
      <2> HIDE DEF m
      <2>3. ASSUME NEW j \in D, j < m PROVE v[j] = w[j]
            BY <2>2, <2>3
      <2> QED BY <2>2, <2>3
<1>4. ASSUME NEW k \in D, v[k] < w[k], \A j \in D : j < k => v[j] = w[j]
      PROVE  apart # {} /\ v[Min(apart)] < w[Min(apart)]
      <2>1. k \in apart
            BY <1>4
      <2>2. Min(apart) \in apart /\ \A y \in apart : Min(apart) <= y
            BY <1>2, <2>1, MinIsLeast
      <2>3. Min(apart) = k
            <3> DEFINE m == Min(apart)
            <3>1. m \in D /\ v[m] # w[m] /\ m <= k
                  BY <2>1, <2>2
            <3> HIDE DEF m
            <3>2. m = k
                  BY <1>4, <3>1
            <3> QED BY <3>2 DEF m
      <2> QED BY <1>4, <2>1, <2>3
<1> QED BY <1>1, <1>3, <1>4 DEF LowerFirst

(* A cap that ends in a full octet is passed before that octet, or not.    *)
LEMMA CapCut ==
    ASSUME NEW ms \in [MsBits -> {0, 1}]
    PROVE  PastCap(ms) <=> SortsBefore(CapBits, ms)
<1>1. /\ CapBits \in [MsBits -> {0, 1}] /\ \A k \in 40 .. 47 : CapBits[k] = 1
      /\ MsBits \subseteq Nat /\ ms \in [MsBits -> {0, 1}]
      BY CapAssumption DEF MsBits
<1>2. SortsBefore(CapBits, ms) <=> LowerFirst(MsBits, CapBits, ms)
      BY <1>1, FirstDifference
<1>3. ASSUME NEW k \in MsBits, CapBits[k] < ms[k] PROVE k \in 0 .. 39
      BY <1>1, <1>3 DEF MsBits
<1>4. PastCap(ms) => SortsBefore(CapBits, ms)
      <2> SUFFICES ASSUME NEW k \in 0 .. 39, ms[k] > CapBits[k],
                          \A j \in 0 .. k - 1 : ms[j] = CapBits[j]
                   PROVE  SortsBefore(CapBits, ms)
          BY DEF PastCap
      <2>1. k \in MsBits /\ CapBits[k] < ms[k] /\ \A j \in MsBits : j < k => CapBits[j] = ms[j]
            BY <1>1 DEF MsBits
      <2> QED BY <1>2, <2>1 DEF LowerFirst
<1>5. SortsBefore(CapBits, ms) => PastCap(ms)
      <2> SUFFICES ASSUME NEW k \in MsBits, CapBits[k] < ms[k],
                          \A j \in MsBits : j < k => CapBits[j] = ms[j]
                   PROVE  PastCap(ms)
          BY <1>2 DEF LowerFirst
      <2>1. k \in 0 .. 39
            BY <1>3
      <2>2. ms[k] > CapBits[k] /\ \A j \in 0 .. k - 1 : ms[j] = CapBits[j]
            BY <1>1, <2>1 DEF MsBits
      <2> QED BY <2>1, <2>2 DEF PastCap
<1> QED BY <1>4, <1>5

(* All 48 bits of the timestamp decide, though the code looks at 40.       *)
THEOREM CapComplete == Spec => []CapExact
<1>1. LayoutsInv => CapExact
      <2> SUFFICES ASSUME LayoutsInv, NEW layout \in Layout, IsRfc(value, 7, layout)
                   PROVE  TimeVersion(value, layout) = 7 <=>
                             ~SortsBefore(CapBits, UnixMillis(value, layout))
          BY DEF CapExact
      <2>1. value \in Value
            BY DEF LayoutsInv, TypeOK
      <2>2. UnixMillis(value, layout) \in [MsBits -> {0, 1}]
            <3>1. \A k \in MsBits : MsAt(layout) + k \in Bits
                  BY DEF MsAt, MsBits, Bits, Layout, Rfc, Sql
            <3> QED BY <2>1, <3>1 DEF UnixMillis, Value
      <2> QED BY <2>1, <2>2, TimeGuard, CapCut
<1> QED BY LayoutsInvariant, <1>1, PTL

-----------------------------------------------------------------------------
(* SQL Server's order. *)

LEMMA SignificanceIs ==
    /\ Significance[1] = 10 /\ Significance[2] = 11 /\ Significance[3] = 12
    /\ Significance[4] = 13 /\ Significance[5] = 14 /\ Significance[6] = 15
    /\ Significance[7] = 8 /\ Significance[8] = 9
    /\ Significance[9] = 6 /\ Significance[10] = 7
    /\ Significance[11] = 4 /\ Significance[12] = 5
    /\ Significance[13] = 0 /\ Significance[14] = 1
    /\ Significance[15] = 2 /\ Significance[16] = 3
BY DEF Significance

(* Which bit of a value SQL Server looks at q-th.                          *)
LEMMA RankedBits ==
    ASSUME NEW v, NEW q \in Bits
    PROVE  /\ q \in 0 .. 47   => SqlRank(v)[q] = v[q + 80]
           /\ q \in 48 .. 63  => SqlRank(v)[q] = v[q + 16]
           /\ q \in 64 .. 79  => SqlRank(v)[q] = v[q - 16]
           /\ q \in 80 .. 95  => SqlRank(v)[q] = v[q - 48]
           /\ q \in 96 .. 127 => SqlRank(v)[q] = v[q - 96]
<1> DEFINE octet == q \div 8
           bit == q % 8
<1>1. SqlRank(v)[q] = v[8 * Significance[octet + 1] + bit]
      BY DEF SqlRank
<1>2. q = 8 * octet + bit /\ octet \in Int /\ bit \in 0 .. 7 /\ q \in 0 .. 127
      BY DEF Bits
<1> HIDE DEF octet, bit
<1>3. ASSUME q \in 0 .. 47 PROVE 8 * Significance[octet + 1] + bit = q + 80
      <2>1. octet \in {0, 1, 2, 3, 4, 5}
            BY <1>2, <1>3
      <2>2. Significance[octet + 1] = octet + 10
            BY <2>1, SignificanceIs
      <2> QED BY <1>2, <2>1, <2>2
<1>4. ASSUME q \in 48 .. 63 PROVE 8 * Significance[octet + 1] + bit = q + 16
      <2>1. octet \in {6, 7}
            BY <1>2, <1>4
      <2>2. Significance[octet + 1] = octet + 2
            BY <2>1, SignificanceIs
      <2> QED BY <1>2, <2>1, <2>2
<1>5. ASSUME q \in 64 .. 79 PROVE 8 * Significance[octet + 1] + bit = q - 16
      <2>1. octet \in {8, 9}
            BY <1>2, <1>5
      <2>2. Significance[octet + 1] = octet - 2
            BY <2>1, SignificanceIs
      <2> QED BY <1>2, <2>1, <2>2
<1>6. ASSUME q \in 80 .. 95 PROVE 8 * Significance[octet + 1] + bit = q - 48
      <2>1. octet \in {10, 11}
            BY <1>2, <1>6
      <2>2. Significance[octet + 1] = octet - 6
            BY <2>1, SignificanceIs
      <2> QED BY <1>2, <2>1, <2>2
<1>7. ASSUME q \in 96 .. 127 PROVE 8 * Significance[octet + 1] + bit = q - 96
      <2>1. octet \in {12, 13, 14, 15}
            BY <1>2, <1>7
      <2>2. Significance[octet + 1] = octet - 12
            BY <2>1, SignificanceIs
      <2> QED BY <1>2, <2>1, <2>2
<1> QED BY <1>1, <1>3, <1>4, <1>5, <1>6, <1>7

(* What it looks at q-th of a converted value: the original's bits in      *)
(* their order, and the marks in between.                                  *)
Ranked(v, q) == SqlRank(ToSql(v))[q]

LEMMA RankedSources ==
    ASSUME NEW v \in Value, NEW q \in Bits
    PROVE  /\ q \in 0 .. 47   => Ranked(v, q) = v[q]
           /\ q \in 50 .. 61  => Ranked(v, q) = v[q + 2]
           /\ q \in 62 .. 71  => Ranked(v, q) = v[q + 4]
           /\ q \in 76 .. 127 => Ranked(v, q) = v[q]
           /\ q = 48 \/ q = 72 => Ranked(v, q) = 1
           /\ q = 49 \/ q \in 73 .. 75 => Ranked(v, q) = 0
<1>1. CASE q \in 0 .. 47
      <2>1. q + 80 \in Bits /\ q + 80 \in 80 .. 127 /\ (q + 80) - 80 = q
            BY <1>1 DEF Bits
      <2> QED BY <1>1, <2>1, RankedBits, SqlSources DEF Ranked
<1>2. CASE q \in 50 .. 61
      <2>1. q + 16 \in Bits /\ q + 16 \in 66 .. 77 /\ (q + 16) - 14 = q + 2 /\ q \in 48 .. 63
            BY <1>2 DEF Bits
      <2> QED BY <1>2, <2>1, RankedBits, SqlSources DEF Ranked
<1>3. CASE q \in 62 .. 63
      <2>1. q + 16 \in Bits /\ q + 16 \in 78 .. 79 /\ (q + 16) - 12 = q + 4 /\ q \in 48 .. 63
            BY <1>3 DEF Bits
      <2> QED BY <1>3, <2>1, RankedBits, SqlSources DEF Ranked
<1>4. CASE q \in 64 .. 71
      <2>1. q - 16 \in Bits /\ q - 16 \in 48 .. 55 /\ (q - 16) + 20 = q + 4 /\ q \in 64 .. 79
            BY <1>4 DEF Bits
      <2> QED BY <1>4, <2>1, RankedBits, SqlSources DEF Ranked
<1>5. CASE q \in 76 .. 79
      <2>1. q - 16 \in Bits /\ q - 16 \in 60 .. 63 /\ (q - 16) + 16 = q /\ q \in 64 .. 79
            BY <1>5 DEF Bits
      <2> QED BY <1>5, <2>1, RankedBits, SqlSources DEF Ranked
<1>6. CASE q \in 80 .. 95
      <2>1. q - 48 \in Bits /\ q - 48 \in 32 .. 47 /\ (q - 48) + 48 = q
            BY <1>6 DEF Bits
      <2> QED BY <1>6, <2>1, RankedBits, SqlSources DEF Ranked
<1>7. CASE q \in 96 .. 127
      <2>1. q - 96 \in Bits /\ q - 96 \in 0 .. 31 /\ (q - 96) + 96 = q
            BY <1>7 DEF Bits
      <2> QED BY <1>7, <2>1, RankedBits, SqlSources DEF Ranked
<1>8. CASE q \in {48, 49}
      <2>1. Ranked(v, q) = ToSql(v)[q + 16]
            BY <1>8, RankedBits DEF Ranked
      <2>2. ToSql(v)[64] = 1 /\ ToSql(v)[65] = 0
            BY DEF ToSql, Bits, SqlVariant
      <2> QED BY <1>8, <2>1, <2>2
<1>9. CASE q \in 72 .. 75
      <2>1. Ranked(v, q) = ToSql(v)[q - 16]
            BY <1>9, RankedBits DEF Ranked
      <2>2. ToSql(v)[56] = 1 /\ ToSql(v)[57] = 0 /\ ToSql(v)[58] = 0 /\ ToSql(v)[59] = 0
            BY DEF ToSql, Bits
      <2> QED BY <1>9, <2>1, <2>2
<1> QED BY <1>1, <1>2, <1>3, <1>4, <1>5, <1>6, <1>7, <1>8, <1>9 DEF Bits

(* Where a free bit of an RFC-ordered value is looked at.                  *)
Marks == 48 .. 51 \cup 64 .. 65
Place(k) == IF k \in 52 .. 63 THEN k - 2 ELSE IF k \in 66 .. 75 THEN k - 4 ELSE k

LEMMA PlaceMonotone ==
    ASSUME NEW k \in Bits \ Marks
    PROVE  /\ Place(k) \in Bits \ ({48, 49} \cup 72 .. 75)
           /\ \A j \in Bits \ Marks : j < k <=> Place(j) < Place(k)
BY DEF Place, Bits, Marks

LEMMA PlaceOnto ==
    ASSUME NEW q \in Bits, q \notin {48, 49} \cup 72 .. 75
    PROVE  \E k \in Bits \ Marks : Place(k) = q
<1>1. CASE q \in 50 .. 61
      <2>1. q + 2 \in Bits \ Marks /\ Place(q + 2) = q
            BY <1>1 DEF Place, Bits, Marks
      <2> QED BY <2>1
<1>2. CASE q \in 62 .. 71
      <2>1. q + 4 \in Bits \ Marks /\ Place(q + 4) = q
            BY <1>2 DEF Place, Bits, Marks
      <2> QED BY <2>1
<1>3. CASE q \in 0 .. 47 \cup 76 .. 127
      <2>1. q \in Bits \ Marks /\ Place(q) = q
            BY <1>3 DEF Place, Bits, Marks
      <2> QED BY <2>1
<1> QED BY <1>1, <1>2, <1>3 DEF Bits

LEMMA PlaceHolds ==
    ASSUME NEW v \in Value, NEW k \in Bits \ Marks
    PROVE  Ranked(v, Place(k)) = v[k]
<1>1. Place(k) \in Bits
      BY PlaceMonotone
<1>2. CASE k \in 52 .. 63
      <2>1. Place(k) = k - 2 /\ k - 2 \in 50 .. 61 /\ (k - 2) + 2 = k
            BY <1>2 DEF Place
      <2> QED BY <1>1, <2>1, RankedSources
<1>3. CASE k \in 66 .. 75
      <2>1. Place(k) = k - 4 /\ k - 4 \in 62 .. 71 /\ (k - 4) + 4 = k
            BY <1>3 DEF Place
      <2> QED BY <1>1, <2>1, RankedSources
<1>4. CASE k \in 0 .. 47 \cup 76 .. 127
      <2>1. Place(k) = k
            BY <1>4 DEF Place
      <2> QED BY <1>1, <1>4, <2>1, RankedSources
<1> QED BY <1>2, <1>3, <1>4 DEF Bits, Marks

(* The marks of two version 7 values do not tell them apart, and the free  *)
(* bits are looked at in their order.                                      *)
LEMMA OrderKept ==
    ASSUME NEW v \in Value, NEW w \in Value, ReadsAsV7(v), ReadsAsV7(w)
    PROVE  SortsBefore(SqlRank(ToSql(v)), SqlRank(ToSql(w))) <=> SortsBefore(v, w)
<1>1. ASSUME NEW k \in Marks PROVE v[k] = w[k]
      BY <1>1, V7Bits DEF Marks
<1>2. ASSUME NEW q \in {48, 49} \cup 72 .. 75 PROVE Ranked(v, q) = Ranked(w, q)
      <2>1. q \in Bits /\ (q = 48 \/ q = 72 \/ q = 49 \/ q \in 73 .. 75)
            BY <1>2 DEF Bits
      <2> QED BY <2>1, RankedSources
<1>3. ASSUME NEW x \in Value PROVE SqlRank(ToSql(x)) \in [Bits -> {0, 1}]
      <2>1. \A q \in Bits : Ranked(x, q) \in {0, 1}
            <3> SUFFICES ASSUME NEW q \in Bits PROVE Ranked(x, q) \in {0, 1}
                OBVIOUS
            <3>1. CASE q \in {48, 49} \cup 72 .. 75
                  <4>1. q = 48 \/ q = 72 \/ q = 49 \/ q \in 73 .. 75
                        BY <3>1
                  <4> QED BY <4>1, RankedSources
            <3>2. CASE q \notin {48, 49} \cup 72 .. 75
                  <4>1. PICK k \in Bits \ Marks : Place(k) = q
                        BY <3>2, PlaceOnto
                  <4>2. x[k] \in {0, 1}
                        BY DEF Value
                  <4> QED BY <4>1, <4>2, PlaceHolds
            <3> QED BY <3>1, <3>2
      <2>2. SqlRank(ToSql(x)) = [q \in Bits |-> Ranked(x, q)]
            BY DEF SqlRank, Ranked
      <2> QED BY <2>1, <2>2
<1>4. Bits \subseteq Nat /\ v \in [Bits -> {0, 1}] /\ w \in [Bits -> {0, 1}]
      BY DEF Bits, Value
<1>5. SortsBefore(v, w) <=> LowerFirst(Bits, v, w)
      BY <1>4, FirstDifference
<1>6. SortsBefore(SqlRank(ToSql(v)), SqlRank(ToSql(w))) <=>
          LowerFirst(Bits, SqlRank(ToSql(v)), SqlRank(ToSql(w)))
      BY <1>3, <1>4, FirstDifference
<1>7. ASSUME NEW k \in Bits, v[k] < w[k], \A j \in Bits : j < k => v[j] = w[j]
      PROVE  LowerFirst(Bits, SqlRank(ToSql(v)), SqlRank(ToSql(w)))
      <2>1. k \in Bits \ Marks
            <3>1. v[k] \in {0, 1} /\ w[k] \in {0, 1}
                  BY DEF Value
            <3> QED BY <1>1, <1>7, <3>1
      <2>2. Place(k) \in Bits /\ Ranked(v, Place(k)) < Ranked(w, Place(k))
            BY <1>7, <2>1, PlaceHolds, PlaceMonotone
      <2>3. ASSUME NEW p \in Bits, p < Place(k), p \notin {48, 49} \cup 72 .. 75
            PROVE  Ranked(v, p) = Ranked(w, p)
            <3>1. PICK j \in Bits \ Marks : Place(j) = p
                  BY <2>3, PlaceOnto
            <3>2. j < k
                  BY <2>1, <2>3, <3>1, PlaceMonotone
            <3> QED BY <1>7, <3>1, <3>2, PlaceHolds
      <2> QED BY <1>2, <2>2, <2>3 DEF LowerFirst, Ranked
<1>8. ASSUME NEW q \in Bits, Ranked(v, q) < Ranked(w, q),
             \A p \in Bits : p < q => Ranked(v, p) = Ranked(w, p)
      PROVE  \E k \in Bits : v[k] < w[k] /\ \A j \in Bits : j < k => v[j] = w[j]
      <2>1. q \notin {48, 49} \cup 72 .. 75
            <3> SUFFICES ASSUME q \in {48, 49} \cup 72 .. 75 PROVE FALSE
                OBVIOUS
            <3>1. q = 48 \/ q = 72 \/ q = 49 \/ q \in 73 .. 75
                  OBVIOUS
            <3> QED BY <1>8, <3>1, RankedSources
      <2>2. PICK k \in Bits \ Marks : Place(k) = q
            BY <2>1, PlaceOnto
      <2>3. v[k] < w[k]
            BY <1>8, <2>2, PlaceHolds
      <2>4. ASSUME NEW j \in Bits, j < k, j \notin Marks PROVE v[j] = w[j]
            <3>1. Place(j) < q /\ Place(j) \in Bits
                  BY <2>2, <2>4, PlaceMonotone
            <3> QED BY <1>8, <2>4, <3>1, PlaceHolds
      <2> QED BY <1>1, <2>2, <2>3, <2>4
<1> QED BY <1>5, <1>6, <1>7, <1>8 DEF LowerFirst, Ranked

(* SQL Server's order of converted values is the order of the originals.   *)
THEOREM CreationOrder == Spec => []SortsByCreation
<1>1. LayoutsInv => SortsByCreation
      <2> SUFFICES ASSUME LayoutsInv, trail # <<>>, Newest.op = "to",
                          NEW w \in Values, ReadsAsV7(w)
                   PROVE  SortsBefore(SqlRank(value), SqlRank(ToSql(w)))
                              <=> SortsBefore(Newest.from, w)
          BY DEF SortsByCreation
      <2>1. ReadsAsV7(Newest.from) /\ value = ToSql(Newest.from)
            BY DEF LayoutsInv
      <2>2. w \in Value
            BY ValuesAssumption
      <2>3. Newest.from \in Value
            BY NewestFrom DEF LayoutsInv
      <2> QED BY <2>1, <2>2, <2>3, OrderKept
<1> QED BY LayoutsInvariant, <1>1, PTL

-----------------------------------------------------------------------------
(* How a UUID is laid out in octets (Mint). *)

(* The caller's octets as they were.                                       *)
Untouched == \A q \in 0 .. 15, b \in OctetBits : out[q][b] = Bit("caller", calls, (8 * q) + b)

(* What the draw leaves behind in the frame, where the stamping takes it.  *)
DrawnInto ==
    /\ frame = [q \in 0 .. 31 |-> frame[q]]
    /\ \A q \in DrawFrom .. 31 : frame[q] = Octet("drawn", calls, q)

(* Between the draw and the stamp a call has only drawn: its result is     *)
(* still good and the caller's octets are the caller's.                    *)
MintInv ==
    /\ at \in {"idle", "draw", "stamp"} /\ kind \in {"v4", "fresh", "next", "split"}
    /\ calls \in Nat
    /\ at # "idle" => code = 0 /\ Untouched
    /\ at = "stamp" => DrawnInto
    /\ LaidOut

LEMMA InitMint == MintInit => MintInv
BY DEF MintInit, MintInv, LaidOut

LEMMA BeginMint ==
    ASSUME MintInv, Begin
    PROVE  MintInv'
<1>1. at' = "draw" /\ kind' \in {"v4", "fresh", "next", "split"} /\ calls' \in Nat /\ code' = 0
  BY DEF MintInv, Begin
<1>2. Untouched'
  BY DEF Begin, Untouched, Octet, OctetBits
<1> QED BY <1>1, <1>2 DEF MintInv, LaidOut

LEMMA DrawMint ==
    ASSUME MintInv, Draw
    PROVE  MintInv'
<1>1. /\ at = "draw" /\ at' = "stamp" /\ UNCHANGED <<kind, out, code, calls>>
      /\ frame' = [q \in 0 .. 31 |-> IF q >= DrawFrom THEN Octet("drawn", calls, q) ELSE frame[q]]
  BY DEF Draw
<1>2. DrawnInto'
  <2>1. DrawFrom \in {16, 21} /\ DrawFrom' = DrawFrom
    BY <1>1 DEF DrawFrom
  <2> QED BY <1>1, <2>1 DEF DrawnInto
<1> QED BY <1>1, <1>2 DEF MintInv, LaidOut, Untouched

LEMMA DrawFailsMint ==
    ASSUME MintInv, DrawFails
    PROVE  MintInv'
BY DEF MintInv, DrawFails, LaidOut, Untouched

LEMMA ExhaustMint ==
    ASSUME MintInv, Exhaust
    PROVE  MintInv'
BY DEF MintInv, Exhaust, LaidOut, Untouched

(* A version 4 leaves the stack in two overlapping pieces.                 *)
LEMMA StampV4Mint ==
    ASSUME MintInv, StampV4
    PROVE  MintInv'
<1> DEFINE tail == [Moved(4, 25, 7) EXCEPT ![14] = frame[18], ![12] = frame[16], ![13] = frame[17]]
<1>1. /\ at = "stamp" /\ kind = "v4" /\ at' = "idle" /\ UNCHANGED <<kind, code, calls>>
      /\ out' = [q \in 0 .. 15 |->
                    CASE q = 6 -> Marked(frame[22], 4, <<Zero, One, Zero, Zero>>)
                      [] q = 8 -> Marked(frame[24], 6, <<One, Zero>>)
                      [] q \in 9 .. 12  -> tail[q - 5]
                      [] q \in 13 .. 15 -> tail[q - 5]
                      [] OTHER -> frame[16 + q]]
  BY DEF StampV4
<1>2. DrawnInto /\ code = 0 /\ calls \in Nat /\ DrawFrom = 16
  BY <1>1 DEF MintInv, DrawFrom
<1>3. ASSUME NEW q \in 16 .. 31 PROVE frame[q] = [b \in OctetBits |-> Bit("drawn", calls, (8 * q) + b)]
  BY <1>2 DEF DrawnInto, Octet
<1>4. ASSUME NEW q \in 9 .. 15 PROVE tail[q - 5] = frame[16 + q]
  <2>1. q - 5 \in 4 .. 10 /\ q - 5 \in 0 .. 31 /\ 25 + (q - 5) - 4 = 16 + q
    OBVIOUS
  <2>2. Moved(4, 25, 7)[q - 5] = frame[16 + q]
    BY <2>1 DEF Moved
  <2>3. tail[q - 5] = Moved(4, 25, 7)[q - 5]
    BY <2>1 DEF Moved
  <2> QED BY <2>2, <2>3
<1> HIDE DEF tail
<1>5. ASSUME NEW q \in 0 .. 15, NEW b \in OctetBits PROVE out'[q][b] = V4Bit(q, b)
  <2>1. b \in 0 .. 7
    BY DEF OctetBits
  <2>2. CASE q = 6
    <3>1. out'[q][b] = IF b < 4 THEN frame[22][b] ELSE <<Zero, One, Zero, Zero>>[8 - b]
      BY <1>1, <2>2 DEF Marked
    <3>2. 8 * 22 = 8 * (16 + 6) /\ frame[22][b] = Bit("drawn", calls, (8 * 22) + b)
      BY <1>3
    <3>3. b \in {0, 1, 2, 3} \/ b = 4 \/ b = 5 \/ b = 6 \/ b = 7
      BY <2>1
    <3> QED BY <2>2, <3>1, <3>2, <3>3 DEF V4Bit, Drawn
  <2>3. CASE q = 8
    <3>1. out'[q][b] = IF b < 6 THEN frame[24][b] ELSE <<One, Zero>>[8 - b]
      BY <1>1, <2>3 DEF Marked
    <3>2. frame[24][b] = Bit("drawn", calls, (8 * 24) + b)
      BY <1>3
    <3>3. b \in 0 .. 5 \/ b = 6 \/ b = 7
      BY <2>1
    <3> QED BY <2>3, <3>1, <3>2, <3>3 DEF V4Bit, Drawn
  <2>4. CASE q \notin {6, 8}
    <3>1. out'[q] = frame[16 + q]
      <4>1. CASE q \in 9 .. 15
        BY <1>1, <1>4, <4>1
      <4>2. CASE q \in {0, 1, 2, 3, 4, 5, 7}
        BY <1>1, <4>2
      <4> QED BY <2>4, <4>1, <4>2
    <3>2. 16 + q \in 16 .. 31
      OBVIOUS
    <3>3. out'[q][b] = Bit("drawn", calls, (8 * (16 + q)) + b)
      BY <1>3, <3>1, <3>2
    <3> QED BY <2>4, <3>3 DEF V4Bit, Drawn
  <2> QED BY <2>2, <2>3, <2>4
<1>6. LaidOut'
  <2>1. kind' = "v4" /\ code' = 0 /\ calls' = calls
    BY <1>1, <1>2
  <2>2. ASSUME NEW q \in 0 .. 15, NEW b \in OctetBits PROVE out'[q][b] = V4Bit(q, b)'
    BY <1>5, <2>1 DEF V4Bit, Drawn, Bit, One, Zero
  <2> QED BY <2>1, <2>2 DEF LaidOut
<1> QED BY <1>1, <1>2, <1>6 DEF MintInv

(* V7Fixed by cases.                                                       *)
LEMMA FixedIs ==
    ASSUME NEW q \in 0 .. 15, NEW b \in 0 .. 7
    PROVE  /\ q < 6 => V7Fixed(q, b) =
                 Bit(IF kind = "split" THEN "ms + 1" ELSE "ms", calls, (8 * (5 - q)) + b)
           /\ q = 6 => V7Fixed(q, b) = IF b = 7 THEN Zero ELSE One
           /\ q = 8 => V7Fixed(q, b) = IF b = 7 THEN One ELSE Zero
           /\ q \in 10 .. 15 => V7Fixed(q, b) = Drawn((8 * (16 + q)) + b)
<1>1. /\ q < 6 => q # 6 /\ q # 8
      /\ q = 6 => ~(q < 6) /\ q # 8
      /\ q = 8 => ~(q < 6) /\ q # 6
      /\ q \in 10 .. 15 => ~(q < 6) /\ q # 6 /\ q # 8
  OBVIOUS
<1>2. ASSUME q < 6
      PROVE  V7Fixed(q, b) =
               Bit(IF kind = "split" THEN "ms + 1" ELSE "ms", calls, (8 * (5 - q)) + b)
  BY <1>1, <1>2, Zenon DEF V7Fixed
<1>3. ASSUME q = 6 PROVE V7Fixed(q, b) = IF b = 7 THEN Zero ELSE One
  BY <1>1, <1>3, Zenon DEF V7Fixed
<1>4. ASSUME q = 8 PROVE V7Fixed(q, b) = IF b = 7 THEN One ELSE Zero
  BY <1>1, <1>4, Zenon DEF V7Fixed
<1>5. ASSUME q \in 10 .. 15 PROVE V7Fixed(q, b) = Drawn((8 * (16 + q)) + b)
  BY <1>1, <1>5, Zenon DEF V7Fixed
<1> QED BY <1>2, <1>3, <1>4, <1>5, Zenon

(* A version 7 is stamped over its own draw: the seed is read from octets  *)
(* 22 to 24 before the stamps replace them, the last six bits of the       *)
(* counter from octet 25.                                                  *)
LEMMA StampV7Mint ==
    ASSUME MintInv, StampV7
    PROVE  MintInv'
<1> DEFINE version == Marked([b \in OctetBits |-> IF b < 4 THEN CounterBit(22 + b) ELSE Zero],
                               4, <<Zero, One, One, One>>)
           variant == Marked([b \in OctetBits |-> IF b < 6 THEN CounterBit(8 + b) ELSE Zero],
                               6, <<One, Zero>>)
           stamped == [frame EXCEPT
              ![16] = MsOctet(5), ![17] = MsOctet(4), ![18] = MsOctet(3),
              ![19] = MsOctet(2), ![20] = MsOctet(1), ![21] = MsOctet(0),
              ![22] = version, ![23] = CounterOctet(14),
              ![24] = variant, ![25] = CounterOctet(0)]
           tail == [stamped EXCEPT ![14] = MsOctet(3), ![12] = stamped[16], ![13] = stamped[17]]
<1>1. /\ at = "stamp" /\ kind # "v4" /\ at' = "idle" /\ UNCHANGED <<kind, code, calls>>
      /\ out' = [q \in 0 .. 15 |-> IF q = 2 THEN tail[14] ELSE tail[16 + q]]
  BY DEF StampV7
<1>2. /\ DrawnInto /\ code = 0 /\ calls \in Nat /\ DrawFrom = 21
      /\ kind \in {"fresh", "next", "split"}
  BY <1>1 DEF MintInv, DrawFrom
<1>3. frame = [q \in 0 .. 31 |-> frame[q]]
  BY <1>2 DEF DrawnInto
<1>4. ASSUME NEW q \in 21 .. 31, NEW b \in OctetBits
      PROVE  frame[q][b] = Drawn((8 * q) + b)
  BY <1>2 DEF DrawnInto, Octet, Drawn
<1> HIDE DEF version, variant
<1>5. /\ stamped[16] = MsOctet(5) /\ stamped[17] = MsOctet(4) /\ stamped[18] = MsOctet(3)
      /\ stamped[19] = MsOctet(2) /\ stamped[20] = MsOctet(1) /\ stamped[21] = MsOctet(0)
      /\ stamped[22] = version /\ stamped[23] = CounterOctet(14)
      /\ stamped[24] = variant /\ stamped[25] = CounterOctet(0)
      /\ \A q \in 26 .. 31 : stamped[q] = frame[q]
      /\ stamped = [q \in 0 .. 31 |-> stamped[q]]
  <2>1. DOMAIN stamped = 0 .. 31 /\ stamped = [q \in 0 .. 31 |-> stamped[q]]
    BY <1>3
  <2>2. stamped[16] = MsOctet(5) /\ stamped[17] = MsOctet(4) /\ stamped[18] = MsOctet(3)
    BY <1>3
  <2>3. stamped[19] = MsOctet(2) /\ stamped[20] = MsOctet(1) /\ stamped[21] = MsOctet(0)
    BY <1>3
  <2>4. stamped[22] = version /\ stamped[23] = CounterOctet(14)
    BY <1>3
  <2>5. stamped[24] = variant /\ stamped[25] = CounterOctet(0)
    <3>1. DOMAIN frame = 0 .. 31 /\ 24 \in 0 .. 31 /\ 25 \in 0 .. 31 /\ 24 # 25
      BY <1>3
    <3> QED BY <3>1, Zenon
  <2>6. ASSUME NEW q \in 26 .. 31 PROVE stamped[q] = frame[q]
    <3>1. DOMAIN frame = 0 .. 31 /\ q \in 0 .. 31
      BY <1>3
    <3>2. /\ q # 16 /\ q # 17 /\ q # 18 /\ q # 19 /\ q # 20
          /\ q # 21 /\ q # 22 /\ q # 23 /\ q # 24 /\ q # 25
      OBVIOUS
    <3> QED BY <3>1, <3>2, Zenon
  <2> HIDE DEF stamped
  <2> QED BY <2>1, <2>2, <2>3, <2>4, <2>5, <2>6
<1> HIDE DEF stamped
<1>6. tail[14] = MsOctet(3) /\ \A q \in 16 .. 31 : tail[q] = stamped[q]
  BY <1>5
<1> HIDE DEF tail
<1>7. /\ \A q \in 0 .. 5 : out'[q] = MsOctet(5 - q)
      /\ out'[6] = version /\ out'[7] = CounterOctet(14)
      /\ out'[8] = variant /\ out'[9] = CounterOctet(0)
      /\ \A q \in 10 .. 15 : out'[q] = frame[16 + q]
  <2>1. ASSUME NEW q \in 0 .. 15 PROVE out'[q] = IF q = 2 THEN MsOctet(3) ELSE stamped[16 + q]
    BY <1>1, <1>6
  <2>2. ASSUME NEW q \in 0 .. 5 PROVE out'[q] = MsOctet(5 - q)
    <3>1. q = 0 \/ q = 1 \/ q = 2 \/ q = 3 \/ q = 4 \/ q = 5
      OBVIOUS
    <3> QED BY <1>5, <2>1, <3>1
  <2>3. ASSUME NEW q \in 10 .. 15 PROVE out'[q] = frame[16 + q]
    BY <1>5, <2>1
  <2> QED BY <1>5, <2>1, <2>2, <2>3
<1> DEFINE ofCounter(q, b) == \/ q \in {7, 9} \/ (q = 6 /\ b < 4) \/ (q = 8 /\ b < 6)
<1>8. ASSUME NEW q \in 6 .. 9, NEW b \in OctetBits, ofCounter(q, b)
      PROVE  out'[q][b] = CounterBit(CounterPlace(q, b)) /\ CounterPlace(q, b) \in 0 .. 25
  <2>1. b \in 0 .. 7
    BY DEF OctetBits
  <2>2. CASE q = 6
    BY <1>7, <1>8, <2>1, <2>2 DEF version, Marked, CounterPlace
  <2>3. CASE q = 7
    BY <1>7, <2>1, <2>3 DEF CounterOctet, CounterPlace
  <2>4. CASE q = 8
    BY <1>7, <1>8, <2>1, <2>4 DEF variant, Marked, CounterPlace
  <2>5. CASE q = 9
    BY <1>7, <2>1, <2>5 DEF CounterOctet, CounterPlace
  <2> QED BY <2>2, <2>3, <2>4, <2>5
<1>9. ASSUME NEW q \in 0 .. 15, NEW b \in OctetBits, ~ofCounter(q, b)
      PROVE  out'[q][b] = V7Fixed(q, b)
  <2>1. b \in 0 .. 7
    BY DEF OctetBits
  <2>2. CASE q < 6
    <3>1. PICK m : m = IF kind = "split" THEN "ms + 1" ELSE "ms"
      OBVIOUS
    <3>2. MsOctet(5 - q) = Octet(m, calls, 5 - q)
      BY <3>1, Zenon DEF MsOctet
    <3>3. out'[q] = MsOctet(5 - q)
      BY <1>7, <2>2
    <3>4. out'[q][b] = Bit(m, calls, (8 * (5 - q)) + b)
      BY <3>2, <3>3 DEF Octet
    <3> QED BY <2>1, <2>2, <3>1, <3>4, FixedIs, Zenon
  <2>3. CASE q = 6
    <3>1. out'[6][b] = <<Zero, One, One, One>>[8 - b] /\ (b = 4 \/ b = 5 \/ b = 6 \/ b = 7)
      BY <1>7, <1>9, <2>1, <2>3 DEF version, Marked
    <3>2. out'[q][b] = IF b = 7 THEN Zero ELSE One
      BY <2>3, <3>1
    <3> QED BY <2>1, <2>3, <3>2, FixedIs, Zenon
  <2>4. CASE q = 8
    <3>1. out'[8][b] = <<One, Zero>>[8 - b] /\ (b = 6 \/ b = 7)
      BY <1>7, <1>9, <2>1, <2>4 DEF variant, Marked
    <3>2. out'[q][b] = IF b = 7 THEN One ELSE Zero
      BY <2>4, <3>1
    <3> QED BY <2>1, <2>4, <3>2, FixedIs, Zenon
  <2>5. CASE q \in 10 .. 15
    <3>1. out'[q][b] = Drawn((8 * (16 + q)) + b)
      BY <1>4, <1>7, <2>5
    <3> QED BY <2>1, <2>5, <3>1, FixedIs, Zenon
  <2> QED BY <1>9, <2>2, <2>3, <2>4, <2>5
<1>10. ASSUME NEW i \in 0 .. 25
       PROVE  /\ i < 6 => CounterBit(i) = Drawn((8 * 25) + i)
              /\ i >= 6 /\ kind = "fresh" =>
                    CounterBit(i) = IF i < 25 THEN Drawn((8 * 22) + 5 + (i - 6)) ELSE Zero
              /\ i >= 6 /\ kind = "next" => CounterBit(i) = Bit("step", calls, i - 6)
              /\ i >= 6 /\ kind = "split" => CounterBit(i) = Zero
  <2>1. ASSUME i < 6 PROVE CounterBit(i) = Drawn((8 * 25) + i)
    <3>1. i \in OctetBits
      BY <2>1 DEF OctetBits
    <3> QED BY <1>4, <2>1, <3>1 DEF CounterBit
  <2>2. ASSUME i >= 6 PROVE CounterBit(i) = StepBit(i - 6)
    BY <2>2 DEF CounterBit
  <2>3. ASSUME i >= 6, i < 25 PROVE SeedBit(i - 6) = Drawn((8 * 22) + 5 + (i - 6))
    <3>1. PICK k \in 5 .. 23 : k = (i - 6) + 5
      BY <2>3
    <3>2. PICK o \in 0 .. 2, c \in 0 .. 7 : k \div 8 = o /\ k % 8 = c /\ k = (8 * o) + c
      BY <3>1
    <3>3. SeedBit(i - 6) = frame[22 + o][c]
      BY <3>1, <3>2 DEF SeedBit
    <3>4. frame[22 + o][c] = Drawn((8 * (22 + o)) + c)
      BY <1>4 DEF OctetBits
    <3>5. (8 * (22 + o)) + c = (8 * 22) + 5 + (i - 6)
      BY <3>1, <3>2
    <3> QED BY <3>3, <3>4, <3>5
  <2>4. /\ kind = "fresh" => StepBit(i - 6) = IF i - 6 < 19 THEN SeedBit(i - 6) ELSE Zero
        /\ kind = "next" => StepBit(i - 6) = Bit("step", calls, i - 6)
        /\ kind = "split" => StepBit(i - 6) = Zero
    BY Zenon DEF StepBit
  <2>5. i - 6 < 19 <=> i < 25
    OBVIOUS
  <2> QED BY <2>1, <2>2, <2>3, <2>4, <2>5
<1>11. LaidOut'
  <2>1. kind' = kind /\ code' = 0 /\ calls' = calls /\ kind # "v4"
    BY <1>1, <1>2
  <2>2. ASSUME NEW q \in 0 .. 15, NEW b \in OctetBits, ~ofCounter(q, b)
        PROVE  out'[q][b] = V7Fixed(q, b)'
    <3>1. V7Fixed(q, b)' = V7Fixed(q, b)
      BY <2>1, Zenon DEF V7Fixed, Drawn
    <3> QED BY <1>9, <2>2, <3>1, Zenon
  <2>3. ASSUME NEW q \in 0 .. 15, NEW b \in OctetBits, ofCounter(q, b)
        PROVE  LET i == CounterPlace(q, b)
               IN  out'[q][b] =
                      IF i < 6 THEN Drawn((8 * 25) + i)'
                      ELSE CASE kind' = "fresh" ->
                                    IF i < 25 THEN Drawn((8 * 22) + 5 + (i - 6))' ELSE Zero
                             [] kind' = "next"  -> Bit("step", calls', i - 6)
                             [] kind' = "split" -> Zero
    <3>1. q \in 6 .. 9
      BY <2>3
    <3>2. PICK i \in 0 .. 25 : i = CounterPlace(q, b) /\ out'[q][b] = CounterBit(i)
      BY <1>8, <2>3, <3>1
    <3>3. Drawn((8 * 25) + i)' = Drawn((8 * 25) + i)
          /\ Drawn((8 * 22) + 5 + (i - 6))' = Drawn((8 * 22) + 5 + (i - 6))
      BY <2>1 DEF Drawn
    <3>4. i >= 6 <=> ~(i < 6)
      OBVIOUS
    <3>5. CASE kind = "fresh"
      BY <1>10, <2>1, <3>2, <3>3, <3>4, <3>5
    <3>6. CASE kind = "next"
      BY <1>10, <2>1, <3>2, <3>3, <3>4, <3>6
    <3>7. CASE kind = "split"
      BY <1>10, <2>1, <3>2, <3>3, <3>4, <3>7
    <3> QED BY <1>2, <3>5, <3>6, <3>7
  <2> QED BY <2>1, <2>2, <2>3, Zenon DEF LaidOut
<1> QED BY <1>1, <1>2, <1>11 DEF MintInv

LEMMA StepMint == MintInv /\ [MintNext]_mintVars => MintInv'
<1> SUFFICES ASSUME MintInv, [MintNext]_mintVars PROVE MintInv'
  OBVIOUS
<1>1. CASE MintNext
  BY <1>1, BeginMint, DrawMint, DrawFailsMint, StampV4Mint, StampV7Mint, ExhaustMint, Zenon DEF MintNext
<1>2. CASE UNCHANGED mintVars
  <2>1. UNCHANGED <<at, kind, frame, out, code, calls>>
    BY <1>2 DEF mintVars
  <2>2. LaidOut'
    <3>1. \A i : Drawn(i)' = Drawn(i)
      BY <2>1 DEF Drawn
    <3>2. \A q, b : V4Bit(q, b)' = V4Bit(q, b) /\ V7Fixed(q, b)' = V7Fixed(q, b)
      BY <2>1, <3>1, Zenon DEF V4Bit, V7Fixed
    <3> QED BY <2>1, <3>1, <3>2, Zenon DEF MintInv, LaidOut
  <2> QED BY <2>1, <2>2 DEF MintInv, Untouched, DrawnInto, DrawFrom
<1> QED BY <1>1, <1>2

(* Every UUID the core puts together has the layout of its version, made   *)
(* of what its own call drew, read and counted, and a call that fails has  *)
(* written nothing to the caller.                                          *)
THEOREM MintLaidOut == MintSpec => []LaidOut
<1>1. MintInv => LaidOut
  BY DEF MintInv
<1> QED BY <1>1, InitMint, StepMint, PTL DEF MintSpec

-----------------------------------------------------------------------------
(* Numbers and the order of their bits. *)

(* The width bits in b, most significant first, are n.                     *)
Binary(b, width, n) ==
    \E h \in [0 .. width -> Nat] :
        /\ h[0] = 0 /\ h[width] = n
        /\ \A k \in 0 .. width - 1 : h[k + 1] = 2 * h[k] + b[k]

(* A set of numbers has a least one.                                       *)
LEMMA LeastNat ==
    ASSUME NEW D, D \subseteq Nat, D # {}
    PROVE  \E m \in D : \A y \in D : m <= y
BY MinIsLeast

(* No last bit makes up for a smaller half.                                *)
LEMMA HalvesDecide ==
    ASSUME NEW x \in Nat, NEW y \in Nat, NEW r \in {0, 1}, NEW t \in {0, 1}, x < y
    PROVE  2 * x + r < 2 * y + t
OBVIOUS

(* Behind at one bit, behind ever after.                                   *)
LEMMA StaysBehind ==
    ASSUME NEW width \in Nat, NEW h \in [0 .. width -> Nat], NEW g \in [0 .. width -> Nat],
           NEW b \in [0 .. width - 1 -> {0, 1}], NEW c \in [0 .. width - 1 -> {0, 1}],
           \A k \in 0 .. width - 1 : h[k + 1] = 2 * h[k] + b[k],
           \A k \in 0 .. width - 1 : g[k + 1] = 2 * g[k] + c[k],
           NEW i \in 0 .. width, h[i] < g[i]
    PROVE  h[width] < g[width]
<1> DEFINE caught == { j \in i .. width : ~(h[j] < g[j]) }
<1>1. SUFFICES ASSUME caught # {} PROVE FALSE
      <2>1. width \in i .. width
            OBVIOUS
      <2> QED BY <2>1
<1>2. PICK m \in caught : \A y \in caught : m <= y
      <2>1. caught \subseteq Nat
            OBVIOUS
      <2> HIDE DEF caught
      <2> QED BY <1>1, <2>1, LeastNat, Zenon
<1>3. m \in i .. width /\ ~(h[m] < g[m]) /\ m # i
      BY <1>2
<1>4. PICK k \in i .. width - 1 : m = k + 1
      BY <1>3
<1>5. k \in 0 .. width - 1 /\ k \in 0 .. width /\ k \in i .. width /\ ~(m <= k)
      BY <1>4
<1>6. h[k] < g[k]
      BY <1>2, <1>5
<1>7. h[m] = 2 * h[k] + b[k] /\ g[m] = 2 * g[k] + c[k]
      BY <1>4, <1>5
<1>8. h[k] \in Nat /\ g[k] \in Nat /\ b[k] \in {0, 1} /\ c[k] \in {0, 1}
      BY <1>5
<1>9. 2 * h[k] + b[k] < 2 * g[k] + c[k]
      BY <1>6, <1>8, HalvesDecide, Zenon
<1> QED BY <1>3, <1>7, <1>9, Zenon

(* Of two numbers of one width the smaller has the first 0 where they      *)
(* differ, and equal ones have equal bits.                                 *)
LEMMA BinaryOrder ==
    ASSUME NEW width \in Nat, NEW m, NEW n,
           NEW b \in [0 .. width - 1 -> {0, 1}], NEW c \in [0 .. width - 1 -> {0, 1}],
           Binary(b, width, m), Binary(c, width, n)
    PROVE  /\ m \in Nat /\ n \in Nat
           /\ m < n => LowerFirst(0 .. width - 1, b, c)
           /\ m = n => \A k \in 0 .. width - 1 : b[k] = c[k]
<1>1. PICK h \in [0 .. width -> Nat] :
          /\ h[0] = 0 /\ h[width] = m
          /\ \A k \in 0 .. width - 1 : h[k + 1] = 2 * h[k] + b[k]
      BY DEF Binary
<1>2. PICK g \in [0 .. width -> Nat] :
          /\ g[0] = 0 /\ g[width] = n
          /\ \A k \in 0 .. width - 1 : g[k + 1] = 2 * g[k] + c[k]
      BY DEF Binary
<1>3. m \in Nat /\ n \in Nat
      BY <1>1, <1>2
<1>4. ASSUME NEW i \in 0 .. width
      PROVE  (h[i] < g[i] => m < n) /\ (g[i] < h[i] => n < m)
      <2>1. ASSUME h[i] < g[i] PROVE h[width] < g[width]
            BY <1>1, <1>2, <2>1, StaysBehind
      <2>2. ASSUME g[i] < h[i] PROVE g[width] < h[width]
            BY <1>1, <1>2, <2>2, StaysBehind
      <2> QED BY <1>1, <1>2, <2>1, <2>2
<1>5. ASSUME NEW k \in 0 .. width - 1, h[k] = g[k], h[k + 1] = g[k + 1] PROVE b[k] = c[k]
      <2>1. h[k] \in Nat /\ b[k] \in {0, 1} /\ c[k] \in {0, 1}
            OBVIOUS
      <2> QED BY <1>1, <1>2, <1>5, <2>1
<1>6. ASSUME m = n PROVE \A k \in 0 .. width - 1 : b[k] = c[k]
      <2>1. ASSUME NEW i \in 0 .. width PROVE h[i] = g[i]
            <3>1. h[i] \in Nat /\ g[i] \in Nat
                  OBVIOUS
            <3> QED BY <1>3, <1>4, <1>6, <3>1
      <2>2. ASSUME NEW k \in 0 .. width - 1 PROVE b[k] = c[k]
            <3>1. k \in 0 .. width /\ k + 1 \in 0 .. width
                  OBVIOUS
            <3> QED BY <1>5, <2>1, <3>1
      <2> QED BY <2>2
<1>7. ASSUME m < n PROVE LowerFirst(0 .. width - 1, b, c)
      <2> DEFINE apart == { i \in 0 .. width : h[i] # g[i] }
      <2>1. width \in apart
            BY <1>1, <1>2, <1>3, <1>7
      <2>2. PICK i \in apart : \A y \in apart : i <= y
            <3>1. apart \subseteq Nat /\ apart # {}
                  BY <2>1
            <3> HIDE DEF apart
            <3> QED BY <3>1, LeastNat, Zenon
      <2>3. i \in 0 .. width /\ h[i] # g[i] /\ i # 0
            BY <1>1, <1>2, <2>2
      <2>4. PICK k \in 0 .. width - 1 : i = k + 1
            BY <2>3
      <2>5. \A j \in 0 .. k : h[j] = g[j]
            BY <2>2, <2>4
      <2>6. h[i] < g[i]
            <3>1. h[i] \in Nat /\ g[i] \in Nat
                  BY <2>3
            <3> QED BY <1>3, <1>4, <1>7, <2>3, <3>1
      <2>7. b[k] < c[k]
            <3>1. h[k] \in Nat /\ h[k] = g[k] /\ b[k] \in {0, 1} /\ c[k] \in {0, 1}
                  BY <2>5
            <3> QED BY <1>1, <1>2, <2>4, <2>6, <3>1
      <2>8. ASSUME NEW j \in 0 .. width - 1, j < k PROVE b[j] = c[j]
            <3>1. j \in 0 .. k /\ j + 1 \in 0 .. k
                  BY <2>8
            <3> QED BY <1>5, <2>5, <3>1
      <2> QED BY <2>7, <2>8 DEF LowerFirst
<1> QED BY <1>3, <1>6, <1>7

-----------------------------------------------------------------------------
(* The octets of the stream's UUIDs. *)

(* The counter's bits around the marks, most significant first.            *)
CounterAt(k) == IF k < 12 THEN k + 52 ELSE k + 54
Stamp(v)   == [k \in 0 .. 47 |-> v[k]]
Counter(v) == [k \in 0 .. 25 |-> v[CounterAt(k)]]

(* v is a version 7 value with the timestamp and the counter id.           *)
Carries(v, id) ==
    /\ v \in Value /\ ReadsAsV7(v)
    /\ Binary(Stamp(v), 48, id[1]) /\ Binary(Counter(v), 26, id[2])

(* An earlier timestamp, or the same and an earlier counter, is an earlier *)
(* value, as octets and in SQL Server's order.                             *)
LEMMA EarlierFirst ==
    ASSUME NEW p, NEW q, NEW v, NEW w, Carries(v, p), Carries(w, q),
           p[1] < q[1] \/ (p[1] = q[1] /\ p[2] < q[2])
    PROVE  SortsBefore(v, w) /\ SortsBefore(SqlRank(ToSql(v)), SqlRank(ToSql(w)))
<1>1. v \in Value /\ w \in Value /\ ReadsAsV7(v) /\ ReadsAsV7(w)
      BY DEF Carries
<1>2. /\ Stamp(v) \in [0 .. 47 -> {0, 1}] /\ Stamp(w) \in [0 .. 47 -> {0, 1}]
      /\ Counter(v) \in [0 .. 25 -> {0, 1}] /\ Counter(w) \in [0 .. 25 -> {0, 1}]
      BY <1>1 DEF Stamp, Counter, CounterAt, Value, Bits
<1>3. /\ p[1] < q[1] => LowerFirst(0 .. 47, Stamp(v), Stamp(w))
      /\ p[1] = q[1] => \A k \in 0 .. 47 : Stamp(v)[k] = Stamp(w)[k]
      <2>1. PICK n \in Nat : n = 48 /\ n - 1 = 47
            OBVIOUS
      <2>2. Binary(Stamp(v), n, p[1]) /\ Binary(Stamp(w), n, q[1])
            BY <2>1 DEF Carries
      <2>3. Stamp(v) \in [0 .. n - 1 -> {0, 1}] /\ Stamp(w) \in [0 .. n - 1 -> {0, 1}]
            BY <1>2, <2>1
      <2>4. /\ p[1] < q[1] => LowerFirst(0 .. n - 1, Stamp(v), Stamp(w))
            /\ p[1] = q[1] => \A k \in 0 .. n - 1 : Stamp(v)[k] = Stamp(w)[k]
            BY <2>2, <2>3, BinaryOrder, Zenon
      <2> QED BY <2>1, <2>4, Zenon
<1>4. p[2] < q[2] => LowerFirst(0 .. 25, Counter(v), Counter(w))
      <2>1. PICK n \in Nat : n = 26 /\ n - 1 = 25
            OBVIOUS
      <2>2. Binary(Counter(v), n, p[2]) /\ Binary(Counter(w), n, q[2])
            BY <2>1 DEF Carries
      <2>3. Counter(v) \in [0 .. n - 1 -> {0, 1}] /\ Counter(w) \in [0 .. n - 1 -> {0, 1}]
            BY <1>2, <2>1
      <2>4. p[2] < q[2] => LowerFirst(0 .. n - 1, Counter(v), Counter(w))
            BY <2>2, <2>3, BinaryOrder, Zenon
      <2> QED BY <2>1, <2>4, Zenon
<1>5. LowerFirst(Bits, v, w)
      <2>1. CASE p[1] < q[1]
            <3>1. PICK k \in 0 .. 47 : Stamp(v)[k] < Stamp(w)[k]
                                       /\ \A j \in 0 .. 47 : j < k => Stamp(v)[j] = Stamp(w)[j]
                  BY <1>3, <2>1 DEF LowerFirst
            <3>2. k \in Bits /\ v[k] < w[k] /\ \A j \in Bits : j < k => v[j] = w[j]
                  BY <3>1 DEF Stamp, Bits
            <3> QED BY <3>2 DEF LowerFirst
      <2>2. CASE p[1] = q[1] /\ p[2] < q[2]
            <3>1. \A k \in 0 .. 47 : v[k] = w[k]
                  BY <1>3, <2>2 DEF Stamp
            <3>2. PICK k \in 0 .. 25 : Counter(v)[k] < Counter(w)[k]
                                       /\ \A j \in 0 .. 25 : j < k => Counter(v)[j] = Counter(w)[j]
                  BY <1>4, <2>2 DEF LowerFirst
            <3>3. \A j \in 0 .. 25 : Counter(v)[j] = v[CounterAt(j)] /\ Counter(w)[j] = w[CounterAt(j)]
                  BY DEF Counter
            <3>4. CounterAt(k) \in Bits /\ v[CounterAt(k)] < w[CounterAt(k)]
                  BY <3>2, <3>3 DEF CounterAt, Bits
            <3>5. ASSUME NEW j \in Bits, j < CounterAt(k) PROVE v[j] = w[j]
                  <4>1. CASE j \in 0 .. 47
                        BY <3>1, <4>1
                  <4>2. CASE j \in (48 .. 51) \cup (64 .. 65)
                        BY <1>1, <4>2, V7Bits
                  <4>3. CASE j \in (52 .. 63) \cup (66 .. 79)
                        <5>1. PICK i \in 0 .. 25 : CounterAt(i) = j /\ i < k
                              <6>1. CASE j \in 52 .. 63
                                    <7>1. j - 52 \in 0 .. 25 /\ CounterAt(j - 52) = j /\ j - 52 < k
                                          BY <3>5, <6>1 DEF CounterAt
                                    <7> QED BY <7>1
                              <6>2. CASE j \in 66 .. 79
                                    <7>1. j - 54 \in 0 .. 25 /\ CounterAt(j - 54) = j /\ j - 54 < k
                                          BY <3>5, <6>2 DEF CounterAt
                                    <7> QED BY <7>1
                              <6> QED BY <4>3, <6>1, <6>2
                        <5> QED BY <3>2, <3>3, <5>1
                  <4>4. CounterAt(k) <= 79 /\ CounterAt(k) \in Nat
                        BY DEF CounterAt
                  <4>5. j \in 0 .. 79
                        BY <3>5, <4>4 DEF Bits
                  <4>6. \/ j \in 0 .. 47 \/ j \in (48 .. 51) \cup (64 .. 65)
                        \/ j \in (52 .. 63) \cup (66 .. 79)
                        BY <4>5
                  <4> QED BY <4>1, <4>2, <4>3, <4>6
            <3> QED BY <3>4, <3>5 DEF LowerFirst
      <2> QED BY <2>1, <2>2
<1>6. SortsBefore(v, w)
      <2>1. Bits \subseteq Nat /\ v \in [Bits -> {0, 1}] /\ w \in [Bits -> {0, 1}]
            BY <1>1 DEF Bits, Value
      <2> QED BY <1>5, <2>1, FirstDifference
<1> QED BY <1>1, <1>6, OrderKept

-----------------------------------------------------------------------------
(* Every timestamp and counter has octets that carry it.                   *)

(* The numbers of k bits are those below top[k].                           *)
Doubling(top, width) ==
    /\ top \in [0 .. width -> Nat] /\ top[0] = 1
    /\ \A k \in 0 .. width - 1 : top[k + 1] = 2 * top[k]

(* Every number has a binary form: the halves and the odd bits.            *)
LEMMA Spelled ==
    ASSUME NEW width \in Nat, NEW top, Doubling(top, width), NEW n \in Nat, n < top[width]
    PROVE  \E b \in [0 .. width - 1 -> {0, 1}] : Binary(b, width, n)
<1> DEFINE spells(w, x) == \E d \in [0 .. w - 1 -> {0, 1}] : Binary(d, w, x)
           missing == { w \in 0 .. width : \E x \in Nat : x < top[w] /\ ~spells(w, x) }
<1>1. SUFFICES ASSUME missing # {} PROVE FALSE
      <2>1. width \in 0 .. width
            OBVIOUS
      <2> QED BY <2>1
<1>2. PICK w \in missing : \A y \in missing : w <= y
      <2>1. missing \subseteq Nat
            OBVIOUS
      <2> HIDE DEF missing
      <2> QED BY <1>1, <2>1, LeastNat, Zenon
<1>3. PICK x \in Nat : x < top[w] /\ ~spells(w, x)
      BY <1>2
<1>4. CASE w = 0
      <2>1. x = 0
            BY <1>3, <1>4 DEF Doubling
      <2>2. [k \in 0 .. w - 1 |-> 0] \in [0 .. w - 1 -> {0, 1}]
            OBVIOUS
      <2>3. Binary([k \in 0 .. w - 1 |-> 0], w, x)
            <3>1. [k \in 0 .. w |-> 0] \in [0 .. w -> Nat]
                  OBVIOUS
            <3>2. [k \in 0 .. w |-> 0][0] = 0 /\ [k \in 0 .. w |-> 0][w] = x
                  BY <1>4, <2>1
            <3>3. \A k \in 0 .. w - 1 : FALSE
                  BY <1>4
            <3> QED BY <3>1, <3>2, <3>3 DEF Binary
      <2> QED BY <1>3, <2>2, <2>3
<1>5. CASE w # 0
      <2>1. PICK u \in 0 .. width - 1 : w = u + 1 /\ u \in 0 .. width
            BY <1>2, <1>5
      <2>2. PICK m \in Nat, r \in {0, 1} : x = 2 * m + r
            <3>1. x \div 2 \in Nat /\ x % 2 \in {0, 1} /\ x = 2 * (x \div 2) + (x % 2)
                  BY <1>3
            <3> QED BY <3>1
      <2>3. m < top[u]
            <3>1. top[w] = 2 * top[u] /\ top[u] \in Nat
                  BY <2>1 DEF Doubling
            <3> QED BY <1>3, <2>2, <3>1
      <2>4. spells(u, m)
            <3>1. u \notin missing
                  BY <1>2, <2>1
            <3> QED BY <2>1, <2>3, <3>1
      <2>5. PICK c \in [0 .. u - 1 -> {0, 1}] : Binary(c, u, m)
            BY <2>4
      <2>6. PICK g \in [0 .. u -> Nat] :
               /\ g[0] = 0 /\ g[u] = m
               /\ \A k \in 0 .. u - 1 : g[k + 1] = 2 * g[k] + c[k]
            BY <2>5 DEF Binary
      <2> DEFINE b == [k \in 0 .. w - 1 |-> IF k < u THEN c[k] ELSE r]
                 h == [k \in 0 .. w |-> IF k <= u THEN g[k] ELSE x]
      <2>7. b \in [0 .. w - 1 -> {0, 1}] /\ h \in [0 .. w -> Nat]
            BY <2>1, <1>3
      <2>8. h[0] = 0 /\ h[w] = x
            BY <2>1, <2>6
      <2>9. ASSUME NEW k \in 0 .. w - 1 PROVE h[k + 1] = 2 * h[k] + b[k]
            <3>1. CASE k < u
                  <4>1. k \in 0 .. u - 1 /\ k \in 0 .. w /\ k + 1 \in 0 .. w /\ k + 1 <= u /\ k <= u
                        BY <2>1, <3>1
                  <4>2. h[k + 1] = g[k + 1] /\ h[k] = g[k] /\ b[k] = c[k]
                        BY <3>1, <4>1
                  <4> QED BY <2>6, <4>1, <4>2
            <3>2. CASE k = u
                  <4>1. k \in 0 .. w /\ k + 1 \in 0 .. w /\ ~(k + 1 <= u) /\ k <= u /\ ~(k < u)
                        BY <2>1, <3>2
                  <4>2. h[k + 1] = x /\ h[k] = g[u] /\ b[k] = r
                        BY <3>2, <4>1
                  <4> QED BY <2>2, <2>6, <4>2
            <3> QED BY <2>1, <3>1, <3>2
      <2> HIDE DEF b, h
      <2>10. Binary(b, w, x)
            BY <2>7, <2>8, <2>9 DEF Binary
      <2> QED BY <1>3, <2>7, <2>10
<1> QED BY <1>4, <1>5

(* Whatever a stream's timestamp and counter are, if they fit their 48 and *)
(* 26 bits, some version 7 value carries them: what is said below of every *)
(* value that does is never said of none.                                  *)
LEMMA IdsHaveOctets ==
    ASSUME NEW top, Doubling(top, 48), NEW ms \in Nat, NEW count \in Nat,
           ms < top[48], count < top[26]
    PROVE  \E v : Carries(v, <<ms, count>>)
<1>1. PICK b \in [0 .. 47 -> {0, 1}] : Binary(b, 48, ms)
      <2>1. PICK n \in Nat : n = 48 /\ n - 1 = 47
            OBVIOUS
      <2>2. \E d \in [0 .. n - 1 -> {0, 1}] : Binary(d, n, ms)
            BY <2>1, Spelled, Zenon
      <2> QED BY <2>1, <2>2, Zenon
<1>2. PICK c \in [0 .. 25 -> {0, 1}] : Binary(c, 26, count)
      <2>1. PICK n \in Nat : n = 26 /\ n - 1 = 25
            OBVIOUS
      <2> DEFINE t == [k \in 0 .. 26 |-> top[k]]
      <2>2. Doubling(t, n) /\ count < t[n]
            BY <2>1 DEF Doubling
      <2> HIDE DEF t
      <2>3. \E d \in [0 .. n - 1 -> {0, 1}] : Binary(d, n, count)
            BY <2>1, <2>2, Spelled, Zenon
      <2> QED BY <2>1, <2>3, Zenon
<1> DEFINE v == [k \in Bits |->
                    CASE k \in 0 .. 47  -> b[k]
                      [] k \in 52 .. 63 -> c[k - 52]
                      [] k \in 66 .. 79 -> c[k - 54]
                      [] OTHER -> IF k \in {49, 50, 51, 64} THEN 1 ELSE 0]
<1>3. v \in Value
      <2>1. ASSUME NEW k \in Bits PROVE v[k] \in {0, 1}
            <3>1. CASE k \in 0 .. 47
                  BY <3>1
            <3>2. CASE k \in 52 .. 63
                  BY <3>2
            <3>3. CASE k \in 66 .. 79
                  BY <3>3
            <3>4. CASE k \notin (0 .. 47) \cup (52 .. 63) \cup (66 .. 79)
                  BY <3>4
            <3> QED BY <3>1, <3>2, <3>3, <3>4
      <2> QED BY <2>1 DEF Value
<1>4. /\ v[48] = 0 /\ v[49] = 1 /\ v[50] = 1 /\ v[51] = 1
      /\ v[64] = 1 /\ v[65] = 0
      BY DEF Bits
<1>5. \A k \in 0 .. 47 : v[k] = b[k]
      BY DEF Bits
<1>6. \A k \in 0 .. 25 : v[CounterAt(k)] = c[k]
      <2>1. ASSUME NEW k \in 0 .. 25, k < 12 PROVE v[CounterAt(k)] = c[k]
            <3>1. CounterAt(k) = k + 52 /\ k + 52 \in 52 .. 63 /\ (k + 52) - 52 = k /\ k + 52 \in Bits
                  BY <2>1 DEF CounterAt, Bits
            <3> QED BY <3>1
      <2>2. ASSUME NEW k \in 0 .. 25, ~(k < 12) PROVE v[CounterAt(k)] = c[k]
            <3>1. CounterAt(k) = k + 54 /\ k + 54 \in 66 .. 79 /\ (k + 54) - 54 = k /\ k + 54 \in Bits
                  BY <2>2 DEF CounterAt, Bits
            <3> QED BY <3>1
      <2> QED BY <2>1, <2>2
<1> HIDE DEF v
<1>7. Stamp(v) = b /\ Counter(v) = c
      BY <1>5, <1>6 DEF Stamp, Counter
<1>8. ReadsAsV7(v)
      BY <1>3, <1>4, V7Bits
<1> QED BY <1>1, <1>2, <1>3, <1>7, <1>8 DEF Carries

-----------------------------------------------------------------------------
(* What the other functions say of a UUID the core put together.           *)

(* The caller's octets as a value, when the bits in ones are 1.            *)
AsBit(bit, ones) == IF bit \in ones THEN 1 ELSE 0
Minted(ones) == [p \in Bits |-> AsBit(out[p \div 8][7 - (p % 8)], ones)]

(* The timestamp of the call, the stream's or the one after it.            *)
Milliseconds(ones) ==
    [k \in MsBits |-> AsBit(Bit(IF kind = "split" THEN "ms + 1" ELSE "ms", calls, 47 - k), ones)]

(* Bit i of the counter, from the least significant: six drawn ones, and a *)
(* step before them that is seeded from the draw, the stream's next, or    *)
(* zero where a millisecond was split.                                     *)
CounterSource(i) ==
    IF i < 6 THEN Drawn((8 * 25) + i)
    ELSE CASE kind = "fresh" -> IF i < 25 THEN Drawn((8 * 22) + 5 + (i - 6)) ELSE Zero
           [] kind = "next"  -> Bit("step", calls, i - 6)
           [] kind = "split" -> Zero

(* Whatever was drawn and whatever the clock said, a version 4 is read as  *)
(* a version 4 and never as a version 7; a version 7 is read as one, with  *)
(* the millisecond it was stamped with and the counter it was given, and   *)
(* in SQL order it still is one of that millisecond.                       *)
MintedReads ==
    at = "idle" /\ calls > 0 /\ code = 0 =>
        \A ones : One \in ones /\ Zero \notin ones =>
            LET v == Minted(ones)
            IN  /\ v \in Value
                /\ kind = "v4" => IsRfc(v, 4, Rfc) /\ ~ReadsAsV7(v)
                /\ kind # "v4" =>
                       /\ ReadsAsV7(v) /\ IsRfc(v, 7, Rfc)
                       /\ UnixMillis(v, Rfc) = Milliseconds(ones)
                       /\ IsRfc(ToSql(v), 7, Sql)
                       /\ UnixMillis(ToSql(v), Sql) = Milliseconds(ones)
                       /\ \A k \in 0 .. 25 : Counter(v)[k] = AsBit(CounterSource(25 - k), ones)

(* A value's bit is the octet's bit of the same weight.                    *)
LEMMA MintedBits ==
    ASSUME NEW ones, NEW q \in 0 .. 15, NEW b \in 0 .. 7
    PROVE  /\ (8 * q) + 7 - b \in Bits
           /\ Minted(ones)[(8 * q) + 7 - b] = AsBit(out[q][b], ones)
<1>1. PICK p \in Bits : p = (8 * q) + 7 - b
      BY DEF Bits
<1>2. p \div 8 = q /\ 7 - (p % 8) = b
      <2>1. p \in 0 .. 127 /\ p = 8 * q + (7 - b) /\ 7 - b \in 0 .. 7
            BY <1>1 DEF Bits
      <2>2. p \div 8 = q
            BY <2>1
      <2>3. p % 8 = 7 - b
            BY <2>1
      <2> QED BY <2>2, <2>3
<1>3. Minted(ones)[p] = AsBit(out[q][b], ones)
      BY <1>2 DEF Minted
<1> QED BY <1>1, <1>3

LEMMA MintedRead == LaidOut => MintedReads
<1> SUFFICES ASSUME LaidOut, at = "idle", calls > 0, code = 0,
                    NEW ones, One \in ones, Zero \notin ones
             PROVE  LET v == Minted(ones)
                    IN  /\ v \in Value
                        /\ kind = "v4" => IsRfc(v, 4, Rfc) /\ ~ReadsAsV7(v)
                        /\ kind # "v4" =>
                               /\ ReadsAsV7(v) /\ IsRfc(v, 7, Rfc)
                               /\ UnixMillis(v, Rfc) = Milliseconds(ones)
                               /\ IsRfc(ToSql(v), 7, Sql)
                               /\ UnixMillis(ToSql(v), Sql) = Milliseconds(ones)
                               /\ \A k \in 0 .. 25 :
                                     Counter(v)[k] = AsBit(CounterSource(25 - k), ones)
    BY Zenon DEF MintedReads
<1> DEFINE v == Minted(ones)
<1>1. v \in Value
      BY DEF Minted, AsBit, Value
<1>2. AsBit(One, ones) = 1 /\ AsBit(Zero, ones) = 0
      BY DEF AsBit
<1>3. /\ v[48] = AsBit(out[6][7], ones) /\ v[49] = AsBit(out[6][6], ones)
      /\ v[50] = AsBit(out[6][5], ones) /\ v[51] = AsBit(out[6][4], ones)
      /\ v[64] = AsBit(out[8][7], ones) /\ v[65] = AsBit(out[8][6], ones)
      <2>1. ASSUME NEW p \in Bits, NEW q, NEW b, p \div 8 = q, 7 - (p % 8) = b
            PROVE  v[p] = AsBit(out[q][b], ones)
            BY <2>1 DEF Minted
      <2> HIDE DEF v
      <2>2. v[48] = AsBit(out[6][7], ones) /\ v[49] = AsBit(out[6][6], ones)
            BY <2>1 DEF Bits
      <2>3. v[50] = AsBit(out[6][5], ones) /\ v[51] = AsBit(out[6][4], ones)
            BY <2>1 DEF Bits
      <2>4. v[64] = AsBit(out[8][7], ones) /\ v[65] = AsBit(out[8][6], ones)
            BY <2>1 DEF Bits
      <2> QED BY <2>2, <2>3, <2>4
<1>4. ASSUME kind = "v4" PROVE IsRfc(v, 4, Rfc) /\ ~ReadsAsV7(v)
      <2>1. \A q \in 0 .. 15, b \in 0 .. 7 : out[q][b] = V4Bit(q, b)
            BY <1>4 DEF LaidOut, OctetBits
      <2>2. /\ out[6][7] = Zero /\ out[6][6] = One /\ out[6][5] = Zero /\ out[6][4] = Zero
            /\ out[8][7] = One /\ out[8][6] = Zero
            BY <2>1 DEF V4Bit
      <2>3. v[48] = 0 /\ v[49] = 1 /\ v[50] = 0 /\ v[51] = 0 /\ v[64] = 1 /\ v[65] = 0
            BY <1>2, <1>3, <2>2
      <2> HIDE DEF v
      <2>4. VersionField(v) = 4 /\ Narrowed(4) = 4
            BY <2>3 DEF VersionField, Narrowed
      <2>5. RfcVariant(v)
            BY <2>3 DEF RfcVariant, Is
      <2> QED BY <1>1, <2>3, <2>4, <2>5, V7Bits DEF IsRfc
<1>5. ASSUME kind # "v4"
      PROVE  /\ ReadsAsV7(v) /\ IsRfc(v, 7, Rfc) /\ IsRfc(ToSql(v), 7, Sql)
             /\ UnixMillis(v, Rfc) = Milliseconds(ones)
             /\ UnixMillis(ToSql(v), Sql) = Milliseconds(ones)
      <2>1. ASSUME NEW q \in 0 .. 15, NEW b \in 0 .. 7,
                   ~(q \in {7, 9} \/ (q = 6 /\ b < 4) \/ (q = 8 /\ b < 6))
            PROVE  out[q][b] = V7Fixed(q, b)
            BY <1>5, <2>1, Zenon DEF LaidOut, OctetBits
      <2>2. /\ out[6][7] = Zero /\ out[6][6] = One /\ out[6][5] = One /\ out[6][4] = One
            /\ out[8][7] = One /\ out[8][6] = Zero
            <3>1. ASSUME NEW b \in 4 .. 7 PROVE out[6][b] = IF b = 7 THEN Zero ELSE One
                  <4>1. PICK q \in 0 .. 15 : q = 6
                        OBVIOUS
                  <4>2. b \in 0 .. 7 /\ ~(q \in {7, 9} \/ (q = 6 /\ b < 4) \/ (q = 8 /\ b < 6))
                        BY <4>1
                  <4>3. out[q][b] = V7Fixed(q, b)
                        BY <2>1, <4>2
                  <4> QED BY <4>1, <4>2, <4>3, FixedIs, Zenon
            <3>2. ASSUME NEW b \in 6 .. 7 PROVE out[8][b] = IF b = 7 THEN One ELSE Zero
                  <4>1. PICK q \in 0 .. 15 : q = 8
                        OBVIOUS
                  <4>2. b \in 0 .. 7 /\ ~(q \in {7, 9} \/ (q = 6 /\ b < 4) \/ (q = 8 /\ b < 6))
                        BY <4>1
                  <4>3. out[q][b] = V7Fixed(q, b)
                        BY <2>1, <4>2
                  <4> QED BY <4>1, <4>2, <4>3, FixedIs, Zenon
            <3> QED BY <3>1, <3>2
      <2>3. v[48] = 0 /\ v[49] = 1 /\ v[50] = 1 /\ v[51] = 1 /\ v[64] = 1 /\ v[65] = 0
            BY <1>2, <1>3, <2>2
      <2>4. ASSUME NEW k \in MsBits PROVE v[k] = Milliseconds(ones)[k]
            <3>1. PICK q \in 0 .. 5, b \in 0 .. 7 : k = (8 * q) + 7 - b
                  <4>1. k \div 8 \in 0 .. 5 /\ 7 - (k % 8) \in 0 .. 7
                        /\ k = (8 * (k \div 8)) + 7 - (7 - (k % 8))
                        BY DEF MsBits
                  <4> QED BY <4>1
            <3>2. v[k] = AsBit(out[q][b], ones)
                  BY <3>1, MintedBits
            <3>3. out[q][b] = Bit(IF kind = "split" THEN "ms + 1" ELSE "ms", calls, (8 * (5 - q)) + b)
                  <4>1. /\ q \in 0 .. 15 /\ q < 6
                        /\ ~(q \in {7, 9} \/ (q = 6 /\ b < 4) \/ (q = 8 /\ b < 6))
                        /\ b \in 0 .. 7
                        OBVIOUS
                  <4>2. out[q][b] = V7Fixed(q, b)
                        BY <2>1, <4>1
                  <4> QED BY <4>1, <4>2, FixedIs, Zenon
            <3>4. (8 * (5 - q)) + b = 47 - k
                  BY <3>1
            <3> QED BY <3>2, <3>3, <3>4 DEF Milliseconds
      <2> HIDE DEF v
      <2>5. UnixMillis(v, Rfc) = Milliseconds(ones)
            <3>1. UnixMillis(v, Rfc) = [k \in MsBits |-> v[k]]
                  BY DEF UnixMillis, MsAt, MsBits
            <3> QED BY <2>4, <3>1 DEF Milliseconds
      <2>6. UnixMillis(ToSql(v), Sql) = Milliseconds(ones)
            BY <2>5, SqlMillis
      <2>7. ReadsAsV7(v)
            BY <1>1, <2>3, V7Bits
      <2>8. VersionField(v) = 7 /\ Narrowed(7) = 7 /\ RfcVariant(v)
            BY <2>3 DEF VersionField, Narrowed, RfcVariant, Is
      <2>9. SqlMarked(ToSql(v))
            BY <1>1, <2>7, SqlUndone
      <2> QED BY <2>5, <2>6, <2>7, <2>8, <2>9 DEF IsRfc, SqlMarked, Rfc, Sql
<1>6. ASSUME kind # "v4", NEW k \in 0 .. 25
      PROVE  Counter(v)[k] = AsBit(CounterSource(25 - k), ones)
      <2>1. PICK q \in 6 .. 9, b \in 0 .. 7 :
               /\ CounterAt(k) = (8 * q) + 7 - b
               /\ q \in {7, 9} \/ (q = 6 /\ b < 4) \/ (q = 8 /\ b < 6)
               /\ CounterPlace(q, b) = 25 - k
            <3>1. CASE k < 4
                  <4>1. CounterAt(k) = (8 * 6) + 7 - (3 - k) /\ 3 - k \in 0 .. 7 /\ 3 - k < 4
                        /\ CounterPlace(6, 3 - k) = 25 - k
                        BY <3>1 DEF CounterAt, CounterPlace
                  <4> QED BY <4>1
            <3>2. CASE k \in 4 .. 11
                  <4>1. CounterAt(k) = (8 * 7) + 7 - (11 - k) /\ 11 - k \in 0 .. 7
                        /\ CounterPlace(7, 11 - k) = 25 - k
                        BY <3>2 DEF CounterAt, CounterPlace
                  <4> QED BY <4>1
            <3>3. CASE k \in 12 .. 17
                  <4>1. CounterAt(k) = (8 * 8) + 7 - (17 - k) /\ 17 - k \in 0 .. 7 /\ 17 - k < 6
                        /\ CounterPlace(8, 17 - k) = 25 - k
                        BY <3>3 DEF CounterAt, CounterPlace
                  <4> QED BY <4>1
            <3>4. CASE k \in 18 .. 25
                  <4>1. CounterAt(k) = (8 * 9) + 7 - (25 - k) /\ 25 - k \in 0 .. 7
                        /\ CounterPlace(9, 25 - k) = 25 - k
                        BY <3>4 DEF CounterAt, CounterPlace
                  <4> QED BY <4>1
            <3> QED BY <3>1, <3>2, <3>3, <3>4
      <2>2. out[q][b] = CounterSource(CounterPlace(q, b))
            <3>1. q \in 0 .. 15 /\ b \in OctetBits
                  BY DEF OctetBits
            <3>2. out[q][b] = LET i == CounterPlace(q, b)
                              IN  IF i < 6 THEN Drawn((8 * 25) + i)
                                  ELSE CASE kind = "fresh" ->
                                                IF i < 25 THEN Drawn((8 * 22) + 5 + (i - 6)) ELSE Zero
                                         [] kind = "next"  -> Bit("step", calls, i - 6)
                                         [] kind = "split" -> Zero
                  BY <1>6, <2>1, <3>1 DEF LaidOut
            <3> QED BY <3>2, Zenon DEF CounterSource
      <2>3. Counter(v)[k] = v[CounterAt(k)]
            BY DEF Counter
      <2>4. v[CounterAt(k)] = AsBit(out[q][b], ones)
            BY <2>1, MintedBits
      <2> QED BY <2>1, <2>2, <2>3, <2>4, Zenon
<1> HIDE DEF v
<1> QED BY <1>1, <1>4, <1>5, <1>6, Zenon DEF v

(* What the core puts together, the functions that inspect a UUID and the  *)
(* conversion to SQL order read back.                                      *)
THEOREM MintedReadsBack == MintSpec => []MintedReads
BY MintLaidOut, MintedRead, PTL

(* A version 7 carries the timestamp and the counter that its sources      *)
(* spell.                                                                  *)
MintedCarry ==
    at = "idle" /\ calls > 0 /\ code = 0 /\ kind # "v4" =>
        \A ones, ms, count :
            /\ One \in ones /\ Zero \notin ones
            /\ Binary(Milliseconds(ones), 48, ms)
            /\ Binary([k \in 0 .. 25 |-> AsBit(CounterSource(25 - k), ones)], 26, count)
            => Carries(Minted(ones), <<ms, count>>)

(* So the octets the core puts together are among those whose order        *)
(* OctetsInOrder and OctetsOfCalls are about.                              *)
THEOREM MintedCarriesId == MintSpec => []MintedCarry
<1>1. MintedReads => MintedCarry
      <2> SUFFICES ASSUME MintedReads, at = "idle", calls > 0, code = 0, kind # "v4",
                          NEW ones, NEW ms, NEW count, One \in ones, Zero \notin ones,
                          Binary(Milliseconds(ones), 48, ms),
                          Binary([k \in 0 .. 25 |-> AsBit(CounterSource(25 - k), ones)], 26, count)
                   PROVE  Carries(Minted(ones), <<ms, count>>)
          BY Zenon DEF MintedCarry
      <2>1. /\ Minted(ones) \in Value /\ ReadsAsV7(Minted(ones))
            /\ UnixMillis(Minted(ones), Rfc) = Milliseconds(ones)
            /\ \A k \in 0 .. 25 : Counter(Minted(ones))[k] = AsBit(CounterSource(25 - k), ones)
            BY Zenon DEF MintedReads
      <2>2. Stamp(Minted(ones)) = Milliseconds(ones)
            <3>1. \A x : Stamp(x) = UnixMillis(x, Rfc)
                  BY DEF UnixMillis, Stamp, MsAt, MsBits
            <3> QED BY <2>1, <3>1
      <2>3. Counter(Minted(ones)) = [k \in 0 .. 25 |-> AsBit(CounterSource(25 - k), ones)]
            <3>1. \A x : Counter(x) = [k \in 0 .. 25 |-> Counter(x)[k]]
                  BY DEF Counter
            <3> QED BY <2>1, <3>1, Zenon
      <2> QED BY <2>1, <2>2, <2>3 DEF Carries
<1> QED BY MintedReadsBack, <1>1, PTL

-----------------------------------------------------------------------------
(* The order of the stream, in octets. *)

CONSTANTS Steps, SeedSpan, StepSize, ClampWindow, DriftWindow, StreamLast, Cap, MaxBatch,
          Supplied, Counts
VARIABLES hi, low, newest, log, last

W == INSTANCE V7StreamProofs

(* What the stream's assumptions are.                                      *)
StreamAssumption == W!SizesAssumption /\ W!TimesAssumption /\ W!CallersAssumption

(* Whatever octets carry the timestamp and the counter of two UUIDs of the *)
(* stream, those of the later sort later.                                  *)
OctetsIncrease ==
    \A j \in 1 .. Len(log) : \A i \in 1 .. j : \A a \in 0 .. log[i].n - 1, b \in 0 .. log[j].n - 1 :
        i < j \/ a < b =>
            \A v, w : Carries(v, W!Id(log[i], a)) /\ Carries(w, W!Id(log[j], b)) =>
                SortsBefore(v, w) /\ SortsBefore(SqlRank(ToSql(v)), SqlRank(ToSql(w)))

LEMMA OrderedOctets == W!StrictlyIncreasing => OctetsIncrease
<1>1. ASSUME W!StrictlyIncreasing PROVE OctetsIncrease
      <2> SUFFICES ASSUME NEW j \in 1 .. Len(log), NEW i \in 1 .. j,
                          NEW a \in 0 .. log[i].n - 1, NEW b \in 0 .. log[j].n - 1, i < j \/ a < b,
                          NEW v, NEW w, Carries(v, W!Id(log[i], a)), Carries(w, W!Id(log[j], b))
                   PROVE  SortsBefore(v, w) /\ SortsBefore(SqlRank(ToSql(v)), SqlRank(ToSql(w)))
          BY DEF OctetsIncrease
      <2>1. W!Before(W!Id(log[i], a), W!Id(log[j], b))
            <3>1. CASE i < j
                  <4>1. i \in 1 .. j - 1
                        BY <3>1
                  <4> QED BY <1>1, <4>1 DEF W!StrictlyIncreasing
            <3>2. CASE i = j /\ a < b
                  BY <1>1, <3>2 DEF W!StrictlyIncreasing
            <3> QED BY <3>1, <3>2
      <2> QED BY <2>1, EarlierFirst DEF W!Before
<1> QED BY <1>1

(* Octets that carry the stream's numbers sort, in either byte order, as   *)
(* the stream gave them out (README: "sorts by creation").                 *)
THEOREM OctetsInOrder == StreamAssumption => (W!Spec => []OctetsIncrease)
<1>1. StreamAssumption => W!SizesAssumption /\ W!TimesAssumption /\ W!CallersAssumption
      BY DEF StreamAssumption
<1>2. ASSUME StreamAssumption PROVE W!Spec => []W!StrictlyIncreasing
      <2>1. W!SizesAssumption /\ W!TimesAssumption /\ W!CallersAssumption
            BY <1>1, <1>2
      <2> QED BY <2>1, W!StreamOrdered, PTL
<1>3. ASSUME StreamAssumption PROVE W!Spec => []OctetsIncrease
      BY <1>2, <1>3, OrderedOctets, PTL
<1> QED BY <1>3

CONSTANTS Procs, Primary, Spares, NoProc, PageItems, HostPages, Builds, Kinds, Counted, MaxMade
VARIABLES build, holder, pool, scratch, pages, point, call, made

C == INSTANCE V7CallsProofs WITH at <- point, frame <- call, calls <- made, MaxCalls <- MaxMade

(* What a goroutine's call returned, as octets, sorts after the octets of  *)
(* every UUID reserved before the call began.                              *)
OctetsInRealTime ==
    \A g \in Procs :
        LET f == call[g]
        IN  ( /\ point[g] = "idle" /\ f.call \in C!Calls /\ f.rc = C!Ok
              /\ f.call.ts <= StreamLast
              /\ f.call.ts + (ClampWindow - DriftWindow) >= newest )
            => \A i \in 1 .. f.since : \A a \in 0 .. log[i].n - 1, b \in 0 .. f.result.n - 1 :
                  \A v, w : Carries(v, C!Id(log[i], a)) /\ Carries(w, C!Id(f.result, b)) =>
                      SortsBefore(v, w) /\ SortsBefore(SqlRank(ToSql(v)), SqlRank(ToSql(w)))

LEMMA RealTimeOctets == C!UuidsInRealTime => OctetsInRealTime
<1> SUFFICES ASSUME C!UuidsInRealTime, NEW g \in Procs,
                    point[g] = "idle", call[g].call \in C!Calls, call[g].rc = C!Ok,
                    call[g].call.ts <= StreamLast,
                    call[g].call.ts + (ClampWindow - DriftWindow) >= newest,
                    NEW i \in 1 .. call[g].since,
                    NEW a \in 0 .. log[i].n - 1, NEW b \in 0 .. call[g].result.n - 1,
                    NEW v, NEW w, Carries(v, C!Id(log[i], a)), Carries(w, C!Id(call[g].result, b))
             PROVE  SortsBefore(v, w) /\ SortsBefore(SqlRank(ToSql(v)), SqlRank(ToSql(w)))
    BY DEF OctetsInRealTime
<1>1. C!Before(C!Id(log[i], a), C!Id(call[g].result, b))
      BY DEF C!UuidsInRealTime
<1> QED BY <1>1, EarlierFirst DEF C!Before

(* What the calls' assumptions are.                                        *)
CallersAssumptions ==
    C!SizesAssumption /\ C!TimesAssumption /\ C!CallersAssumption /\ C!CallsAssumption

(* An application's UUIDs sort, in either byte order, as its calls were    *)
(* made, on whatever goroutines.  (README: an id minted on a client lands  *)
(* in a clustered index in creation order.)                                *)
THEOREM OctetsOfCalls == CallersAssumptions => (C!Spec => []OctetsInRealTime)
<1>1. ASSUME CallersAssumptions PROVE C!Spec => []C!UuidsInRealTime
      <2>1. C!SizesAssumption /\ C!TimesAssumption /\ C!CallersAssumption /\ C!CallsAssumption
            BY <1>1 DEF CallersAssumptions
      <2> QED BY <2>1, C!UuidsOrdered, PTL
<1>2. ASSUME CallersAssumptions PROVE C!Spec => []OctetsInRealTime
      BY <1>1, <1>2, RealTimeOctets, PTL
<1> QED BY <1>2
=============================================================================
