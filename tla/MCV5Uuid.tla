------------------------------ MODULE MCV5Uuid -------------------------------
(***************************************************************************)
(* V5Uuid with the code's own sizes, the DNS namespace and names made of   *)
(* "www.example.com": of every length up to a block and a little more, so  *)
(* that the tail ends at every place of a block, and one with whole blocks *)
(* of its own and a tail.                                                  *)
(***************************************************************************)
EXTENDS V5Uuid

MCLengths == (0 .. 70) \cup {250}

Dns == <<107, 167, 184, 16, 157, 173, 17, 209, 128, 180, 0, 192, 79, 212, 48, 200>>
Www == <<119, 119, 119, 46, 101, 120, 97, 109, 112, 108, 101, 46, 99, 111, 109>>

(* The standard's computation is checked against the UUID the test suite   *)
(* expects of the DNS namespace and "www.example.com",                     *)
(* 2ed6657d-e927-568b-95e1-2665a8aea6a2.  (uuidgen_test.go.)               *)
KnownUuid == <<46, 214, 101, 125, 233, 39, 86, 139, 149, 225, 38, 101, 168, 174, 166, 162>>

Fips[t \in 0 .. 80] == IF t = 0 THEN FipsStart(Len(Text)) ELSE FipsRound(Fips[t - 1])

ASSUME KnownAnswer ==
    LET h == FipsBlockDone(Len(Text), Fips[80]).h
    IN  /\ Padded(Len(Text)) = 1
        /\ \A o \in 0 .. 15, b \in 0 .. 7 :
              \/ o = 6 /\ b \in 4 .. 7
              \/ o = 8 /\ b \in 6 .. 7
              \/ BitOf(KnownUuid[o + 1], b) <=>
                      (8 * (3 - (o % 4))) + b \in h[(o \div 4) + 1]
=============================================================================
