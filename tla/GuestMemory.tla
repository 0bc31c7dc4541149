---------------------------- MODULE GuestMemory -----------------------------
(***************************************************************************)
(* The linear memory behind each instance of the Go binding (go/core.go)   *)
(* and memory_grow of the translated core: two pages of the core's own,    *)
(* then a scratch that batches grow in place and long version 5 names get  *)
(* on an instance made for them.  Sizes are in bytes and scaled down; the  *)
(* host's int may be as wide as the guest's addresses or half of that.     *)
(*                                                                         *)
(* A Go slice outside the memory panics, and so does a draw whose end does *)
(* not fit the int32 it is computed in.                                    *)
(***************************************************************************)
EXTENDS Integers

CONSTANTS
    PageSize,    \* bytes to a page                               (2^16)
    WasmPages,   \* pages WebAssembly can address                 (2^16)
    MaxInt,      \* the host's math.MaxInt                        (2^63 - 1 or 2^31 - 1)
    MaxInt32,    \* and the guest's slice limit                   (2^31 - 1)
    NameOffset,  \* where the name is put in the scratch          (32)
    UuidSize,    \*                                               (16)
    MaxBatch,    \* UUIDs to a batch                              (2^26)
    Primary,     \* the instance batches run on
    Spares,      \* pooled instances
    Names,       \* lengths of the names callers pass
    Counts       \* batch sizes callers pass

Own  == 2        \* pages of a fresh module
Base == 1        \* basePages

Least(x, y) == IF x < y THEN x ELSE y

HostMaxPages == Least(WasmPages, MaxInt \div PageSize)

ASSUME MemoryAssumption ==
    /\ PageSize \in Nat \ {0} /\ WasmPages \in Nat /\ MaxInt \in Nat /\ MaxInt32 \in Nat
    /\ NameOffset \in Nat /\ NameOffset <= PageSize /\ UuidSize \in Nat \ {0}
    /\ HostMaxPages >= Own + Base
    /\ Primary \notin Spares /\ Names \subseteq Nat /\ Counts \subseteq Nat

(* A full batch fits the smallest host, below the guest's sign bit.        *)
ASSUME BatchAssumption ==
    /\ MaxBatch \in Nat
    /\ (MaxBatch * UuidSize) + (Own * PageSize) <= Least(MaxInt32, HostMaxPages * PageSize)

Instances == {Primary} \cup Spares

(* Mutant: the bytes before the name are forgotten. *)
MaxV5NameBare == Least(MaxInt32, (HostMaxPages * PageSize) - (Own * PageSize))
MaxV5Name == Least(MaxInt32, (HostMaxPages * PageSize) - (Own * PageSize) - NameOffset)

VARIABLES
    live,      \* instances made and kept
    size,      \* bytes of each instance's memory
    pages,     \* pages each thinks its scratch holds
    largest,   \* history: bytes of the largest batch minted
    last       \* what the last call did

vars == <<live, size, pages, largest, last>>

Call(op, n, what) == [op |-> op, n |-> n, what |-> what]

-----------------------------------------------------------------------------
PagesFor(bytes) == (bytes \div PageSize) + IF bytes % PageSize # 0 THEN 1 ELSE 0

(* scratchPagesFor: the scratch fits beside the module's own pages.        *)
Fits(bytes) == PagesFor(bytes) + Own <= HostMaxPages

(* memory_grow of a memory of s bytes refuses more than the host's pages.  *)
GrowRefused(s, delta) == delta # 0 /\ (s \div PageSize) + delta > HostMaxPages
Grown(s, delta) == s + (delta * PageSize)

Fresh == Own * PageSize
Scratch == Own * PageSize

(* What uuid_new_v5 does of a name of n bytes, in a memory of s bytes.     *)
HashIn(s, n) == IF Scratch + NameOffset + n <= s THEN "uuid" ELSE "panic"

(* Drawing and stamping a batch of n in a memory of s bytes.               *)
BatchIn(s, n) ==
    IF Scratch + (n * UuidSize) <= Least(s, MaxInt32) THEN "uuids" ELSE "panic"

Init ==
    /\ live = {}
    /\ size = [i \in Instances |-> Fresh] /\ pages = [i \in Instances |-> 0]
    /\ largest = 0
    /\ last = Call("none", 0, "none")

(* newInstance(basePages): the primary on first use, another for the pool. *)
Make(i) ==
    /\ i \notin live
    /\ IF GrowRefused(Fresh, Base)
       THEN last' = Call("make", 0, "panic") /\ UNCHANGED <<live, size, pages>>
       ELSE /\ live' = live \cup {i}
            /\ size' = [size EXCEPT ![i] = Grown(Fresh, Base)]
            /\ pages' = [pages EXCEPT ![i] = Base]
            /\ last' = Call("make", 0, "made")
    /\ UNCHANGED largest

(* The pool forgets an instance.                                           *)
Collect(i) ==
    /\ i \in live \cap Spares
    /\ live' = live \ {i}
    /\ last' = Call("collect", 0, "none")
    /\ UNCHANGED <<size, pages, largest>>

(* NewV5 checks the length before anything else.                           *)
RefuseName(n) ==
    /\ n > MaxV5Name
    /\ last' = Call("v5", n, "too long")
    /\ UNCHANGED <<live, size, pages, largest>>

Short(n) == n + NameOffset <= Base * PageSize

(* A short name is hashed on the primary or a pooled instance ...          *)
HashShort(i, n) ==
    /\ n <= MaxV5Name /\ Short(n) /\ i \in live
    /\ last' = Call("v5", n, HashIn(size[i], n))
    /\ UNCHANGED <<live, size, pages, largest>>

(* Mutant: a long name is hashed on the primary, grown to hold it. *)
HashLongKept(n) ==
    LET need == PagesFor(n + NameOffset)
    IN  /\ n <= MaxV5Name /\ ~Short(n) /\ Primary \in live
        /\ pages' = [pages EXCEPT ![Primary] = IF need <= @ THEN @ ELSE need]
        /\ size' = [size EXCEPT ![Primary] = (Own + pages'[Primary]) * PageSize]
        /\ last' = Call("v5", n, HashIn(size'[Primary], n))
        /\ UNCHANGED <<live, largest>>
(* ... a longer one on an instance sized for it, dropped after the call.   *)
(* When the pages do not fit, newV5 returns the zero UUID with whatever    *)
(* checkV5Name says: here nothing, the name having passed it.              *)
HashLong(n) ==
    LET bytes == n + NameOffset
    IN  /\ n <= MaxV5Name /\ ~Short(n)
        /\ last' = Call("v5", n,
                        IF ~Fits(bytes) THEN "zero"
                        ELSE IF GrowRefused(Fresh, PagesFor(bytes)) THEN "too long"
                        ELSE HashIn(Grown(Fresh, PagesFor(bytes)), n))
        /\ UNCHANGED <<live, size, pages, largest>>

(* Mutant: grown by the pages wanted, not by the pages missing. *)
MissingAll(need, held) == need
Missing(need, held) == need - held

(* newV7Batch: the primary's scratch grows to hold the batch and stays.    *)
Batch(n) ==
    LET bytes == n * UuidSize
        need  == PagesFor(bytes)
        delta == IF need <= pages[Primary] THEN 0 ELSE Missing(need, pages[Primary])
    IN  /\ Primary \in live /\ n > 0 /\ n <= MaxBatch
        /\ IF ~Fits(bytes) \/ GrowRefused(size[Primary], delta)
           THEN /\ last' = Call("batch", n, "unaddressable")
                /\ UNCHANGED <<size, pages, largest>>
           ELSE /\ size' = [size EXCEPT ![Primary] = Grown(@, delta)]
                /\ pages' = [pages EXCEPT ![Primary] = IF need <= @ THEN @ ELSE need]
                /\ largest' = IF bytes > largest THEN bytes ELSE largest
                /\ last' = Call("batch", n, BatchIn(Grown(size[Primary], delta), n))
        /\ UNCHANGED live

Next ==
    \/ \E i \in Instances : Make(i) \/ Collect(i) \/ \E n \in Names : HashShort(i, n)
    \/ \E n \in Names : RefuseName(n) \/ HashLong(n)
    \/ \E n \in Counts : Batch(n)

Spec == Init /\ [][Next]_vars

-----------------------------------------------------------------------------
(***************************************************************************)
(* Properties.                                                             *)
(***************************************************************************)

(* Type invariant; an instance knows how long its memory is, which it      *)
(* never asks the module again.                                            *)
TypeOK ==
    /\ live \subseteq Instances
    /\ size \in [Instances -> Nat] /\ pages \in [Instances -> Nat]
    /\ \A i \in live : size[i] = (Own + pages[i]) * PageSize /\ pages[i] >= Base
    /\ \A i \in live : Own + pages[i] <= HostMaxPages
    /\ largest \in 0 .. MaxBatch * UuidSize

(* MaxV5Name is exact on every host: a name up to it gets a UUID, a longer *)
(* one the error, and none of them a panic or a zero UUID without an       *)
(* error.                                                                  *)
NameLimitExact ==
    last.op = "v5" => last.what = IF last.n <= MaxV5Name THEN "uuid" ELSE "too long"

(* Every batch up to MaxV7Batch fits, whatever batches came before it: the *)
(* growth is not refused, the draw stays below the guest's sign bit and    *)
(* nothing is outside the memory.  (errors.go, ErrBatchUnaddressable: no   *)
(* batch reaches it.)                                                      *)
BatchFits == last.op = "batch" => last.what = "uuids"

(* Long names leave no pages behind, and batches no more than the largest  *)
(* of them needed.                                                         *)
NothingRetained ==
    \A i \in live :
        \/ pages[i] = Base
        \/ i = Primary /\ (pages[i] - 1) * PageSize < largest
=============================================================================
