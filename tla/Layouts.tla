------------------------------ MODULE Layouts -------------------------------
(***************************************************************************)
(* The two byte orders a version 7 UUID is held in, RFC 9562's and the     *)
(* version 8 layout SQL Server sorts by creation order; the conversions    *)
(* between them; and the functions that ask a value what it is             *)
(* (go/internal/core/core.go, go/inspect.go, go/uuidgen.go).               *)
(*                                                                         *)
(* A value is its 128 bits, most significant of octet 0 first.  It carries *)
(* no mark of the order it is in: any value may be handed to any function, *)
(* so a caller here converts what it holds either way, as often as it      *)
(* likes, and asks anything of it in between.                              *)
(*                                                                         *)
(*             RFC order                     SQL order                     *)
(*   0 .. 47   timestamp            0 .. 31  last 32 random bits           *)
(*  48 .. 51   version, 0111       32 .. 47  first 16 random bits          *)
(*  52 .. 63   counter, 12 bits    48 .. 55  counter bits 14 .. 21         *)
(*  64 .. 65   variant, 10         56 .. 59  version, 1000                 *)
(*  66 .. 79   counter, 14 bits    60 .. 63  counter bits 22 .. 25         *)
(*  80 .. 127  random              64 .. 65  variant, 10                   *)
(*                                 66 .. 79  counter bits 0 .. 13          *)
(*                                 80 .. 127 timestamp                     *)
(***************************************************************************)
EXTENDS Integers, Sequences, FiniteSetsExt

CONSTANTS
    CapBits,    \* the last millisecond with a time, 48 bits  (253402300799999)
    Values,     \* the values callers start from
    MaxTrail    \* conversions of one value

Bits == 0 .. 127
Value == [Bits -> {0, 1}]
MsBits == 0 .. 47

(* The code compares the timestamp to the cap before it has read the       *)
(* timestamp's last octet: right only because the cap ends in a full one.  *)
ASSUME CapAssumption ==
    CapBits \in [MsBits -> {0, 1}] /\ \A k \in 40 .. 47 : CapBits[k] = 1

ASSUME ValuesAssumption == Values \subseteq Value /\ MaxTrail \in Nat

Rfc == 1
Sql == 2
Layout == {Rfc, Sql}

VARIABLES
    value,  \* the sixteen bytes a caller holds
    trail,  \* the conversions that made it, newest last, each with the value before
    rc      \* the last conversion's code

vars == <<value, trail, rc>>

Ok == 0
WrongVersion == 5

-----------------------------------------------------------------------------
(* What the functions read. *)

Is(v, from, pattern) == \A k \in 1 .. Len(pattern) : v[from + k - 1] = pattern[k]

RfcVariant(v) == Is(v, 64, <<1, 0>>)

VersionField(v) == 8 * v[48] + 4 * v[49] + 2 * v[50] + v[51]

(* Mutant: the variant of a SQL-ordered value is not looked at. *)
SqlMarkedVersionOnly(v) == Is(v, 56, <<1, 0, 0, 0>>)
(* A SQL-ordered value carries its 8 and the variant in octets 7 and 8.    *)
SqlMarked(v) == Is(v, 56, <<1, 0, 0, 0>>) /\ RfcVariant(v)

(* Xuuid_version.                                                          *)
Version(v, layout) ==
    IF layout = Rfc THEN VersionField(v) ELSE IF SqlMarked(v) THEN 7 ELSE 0

(* Xuuid_variant: NCS 1, RFC 9562 2, Microsoft 3, future 4.                *)
Variant(v) ==
    CASE v[64] = 0 -> 1
      [] v[64] = 1 /\ v[65] = 0 -> 2
      [] v[64] = 1 /\ v[65] = 1 /\ v[66] = 0 -> 3
      [] OTHER -> 4

(* rfcVersion: a version outside the nibble matches nothing.               *)
Narrowed(version) == IF version \in 0 .. 15 THEN version ELSE 16

(* Xuuid_is_rfc: the version and the variant in one call.                  *)
IsRfc(v, version, layout) ==
    LET n == Narrowed(version)
    IN  IF layout = Rfc THEN RfcVariant(v) /\ VersionField(v) = n
        ELSE n = 7 /\ Is(v, 56, <<1, 0, 0, 0>>) /\ RfcVariant(v)

(* Mutant: the SQL-ordered timestamp is read an octet early. *)
MsAtOctetNine(layout) == IF layout = Rfc THEN 0 ELSE 72
MsAt(layout) == IF layout = Rfc THEN 0 ELSE 80

(* Xuuid_v7_unix_millis and its layout form: no check of any kind.         *)
UnixMillis(v, layout) == [k \in MsBits |-> v[MsAt(layout) + k]]

(* Mutant: the comparison stops an octet early. *)
PastCapShort(ms) ==
    \E k \in 0 .. 31 : ms[k] > CapBits[k] /\ \A j \in 0 .. k - 1 : ms[j] = CapBits[j]
(* The timestamp without its last octet is past the cap.                   *)
PastCap(ms) ==
    \E k \in 0 .. 39 : ms[k] > CapBits[k] /\ \A j \in 0 .. k - 1 : ms[j] = CapBits[j]

(* Xuuid_get_timestamp: 7 and the time, or 0.                              *)
TimeVersion(v, layout) ==
    IF /\ IF layout = Rfc THEN RfcVariant(v) /\ Is(v, 48, <<0, 1, 1, 1>>)
          ELSE Is(v, 56, <<1, 0, 0, 0>>) /\ RfcVariant(v)
       /\ ~PastCap(UnixMillis(v, layout))
    THEN 7 ELSE 0

-----------------------------------------------------------------------------
(* The conversions. *)

(* Each gives bit p of the converted value, in one of its fields.          *)

(* Mutant: the random bits are copied straight. *)
SqlRandomStraight(v, p) == v[p + 80]
SqlRandom(v, p) == v[IF p < 32 THEN p + 96 ELSE p + 48]

SqlCounter(v, p) ==
    CASE p \in 48 .. 55 -> v[p + 20]
      [] p \in 60 .. 63 -> v[p + 16]
      [] p \in 66 .. 77 -> v[p - 14]
      [] p \in 78 .. 79 -> v[p - 12]

SqlVariant(v, p) == IF p = 64 THEN 1 ELSE 0

(* Xuuid_v7_to_sql_order.                                                  *)
ToSql(v) ==
    [p \in Bits |->
        CASE p \in 0 .. 47   -> SqlRandom(v, p)
          [] p \in 56 .. 59  -> IF p = 56 THEN 1 ELSE 0
          [] p \in 64 .. 65  -> SqlVariant(v, p)
          [] p \in 80 .. 127 -> v[p - 80]
          [] OTHER           -> SqlCounter(v, p)]

(* Mutant: the counter's last nibble is taken from beside the version. *)
RfcCounterMiscut(v, p) ==
    CASE p \in 52 .. 63 -> v[p + 14]
      [] p \in 66 .. 67 -> v[p + 12]
      [] p \in 68 .. 79 -> v[p - 20]
RfcCounter(v, p) ==
    CASE p \in 52 .. 63 -> v[p + 14]
      [] p \in 66 .. 67 -> v[p + 12]
      [] p \in 68 .. 75 -> v[p - 20]
      [] p \in 76 .. 79 -> v[p - 16]

RfcRandom(v, p) == v[IF p < 96 THEN p - 48 ELSE p - 96]

(* Xuuid_v7_to_rfc_order.                                                  *)
ToRfc(v) ==
    [p \in Bits |->
        CASE p \in 0 .. 47   -> v[p + 80]
          [] p \in 48 .. 51  -> IF p = 48 THEN 0 ELSE 1
          [] p \in 64 .. 65  -> IF p = 64 THEN 1 ELSE 0
          [] p \in 80 .. 127 -> RfcRandom(v, p)
          [] OTHER           -> RfcCounter(v, p)]

ReadsAsV7(v) == RfcVariant(v) /\ Is(v, 48, <<0, 1, 1, 1>>)

-----------------------------------------------------------------------------
Init == value \in Values /\ trail = <<>> /\ rc = Ok

Converts(op, result) ==
    /\ Len(trail) < MaxTrail
    /\ value' = result /\ rc' = Ok
    /\ trail' = Append(trail, [op |-> op, from |-> value])

(* A refusal leaves the caller's value, and its buffer, as it was.         *)
Refuses == rc' = WrongVersion /\ UNCHANGED <<value, trail>>

(* V7ToSqlOrder, V7ToSqlOrderBytes.                                        *)
ConvertToSql == ReadsAsV7(value) /\ Converts("to", ToSql(value))
RefuseToSql  == ~ReadsAsV7(value) /\ Refuses

(* V7FromSqlOrder, V7FromSqlOrderBytes.                                    *)
ConvertToRfc == SqlMarked(value) /\ Converts("from", ToRfc(value))
RefuseToRfc  == ~SqlMarked(value) /\ Refuses

Next == ConvertToSql \/ RefuseToSql \/ ConvertToRfc \/ RefuseToRfc

Spec == Init /\ [][Next]_vars

-----------------------------------------------------------------------------
(***************************************************************************)
(* Properties.                                                             *)
(***************************************************************************)

(* Type invariant.                                                         *)
TypeOK ==
    /\ value \in Value
    /\ trail \in Seq([op : {"to", "from"}, from : Value]) /\ Len(trail) <= MaxTrail
    /\ rc \in {Ok, WrongVersion}

Newest == trail[Len(trail)]

(* Every conversion can be undone: the value it made is one the inverse    *)
(* accepts, and the inverse gives back the exact original, whatever the    *)
(* 122 free bits.  (uuidgen.go: "V7FromSqlOrder gives back the exact       *)
(* original".)                                                             *)
Reversible ==
    trail # <<>> =>
        IF Newest.op = "to" THEN SqlMarked(value) /\ ToRfc(value) = Newest.from
        ELSE ReadsAsV7(value) /\ ToSql(value) = Newest.from

(* A converted value answers the same in its layout as the original did in *)
(* its own: version, timestamp, and whether it has a time at all.          *)
InspectsAlike ==
    trail # <<>> =>
        LET was == IF Newest.op = "to" THEN Rfc ELSE Sql
            is  == IF Newest.op = "to" THEN Sql ELSE Rfc
        IN  /\ Version(value, is) = 7 /\ Version(Newest.from, was) = 7
            /\ UnixMillis(value, is) = UnixMillis(Newest.from, was)
            /\ TimeVersion(value, is) = TimeVersion(Newest.from, was)

(* Octets by significance, as SQL Server compares a uniqueidentifier.      *)
Significance == <<10, 11, 12, 13, 14, 15, 8, 9, 6, 7, 4, 5, 0, 1, 2, 3>>
SqlRank(v) == [k \in Bits |-> v[8 * Significance[(k \div 8) + 1] + (k % 8)]]

(* v sorts before w, most significant bit first.                           *)
SortsBefore(v, w) ==
    LET apart == { k \in DOMAIN v : v[k] # w[k] }
    IN  apart # {} /\ v[Min(apart)] < w[Min(apart)]

(* SQL Server's order of two converted values is the byte order of the     *)
(* originals, and so creation order: by timestamp, then by counter.        *)
SortsByCreation ==
    (trail # <<>> /\ Newest.op = "to") =>
        \A w \in Values :
            ReadsAsV7(w) =>
                (SortsBefore(SqlRank(value), SqlRank(ToSql(w))) <=> SortsBefore(Newest.from, w))

(* What the three functions that look at version and variant say of one    *)
(* value agrees, in either layout: IsRfcIn is the guard the docs make it.  *)
GuardsAgree ==
    \A layout \in Layout :
        /\ \A n \in -1 .. 17 :
              IsRfc(value, n, layout) <=>
                  /\ Version(value, layout) = n
                  /\ layout = Rfc => Variant(value) = 2
                  /\ layout = Sql => n = 7
        /\ TimeVersion(value, layout) = 7 => IsRfc(value, 7, layout)

(* A version 7 value has a time exactly when its timestamp, all 48 bits of *)
(* it, is not past the cap.                                                *)
CapExact ==
    \A layout \in Layout :
        IsRfc(value, 7, layout) =>
            (TimeVersion(value, layout) = 7 <=> ~SortsBefore(CapBits, UnixMillis(value, layout)))
=============================================================================
