# HyperUuid's Go binding in TLA+

A model of the Go binding of HyperUuid (`go/`): the version 7 stream of the translated core,
the binding's locking, scratch and memory, the batch stamping, version 4, version 5 down to
the rounds of SHA-1, the AES random source, the SQL Server byte order and the public version 7
functions. TLC checks small instances of every module; TLAPS proves every safety property those runs
check for every value of the constants, and what follows from them across modules.

Paths below are relative to the repository. "Core" is `go/internal/core/core.go`, the
WebAssembly core translated to Go.

## The system

| Part | State | Operations | Talks to |
|---|---|---|---|
| Version 7 stream (core, `Xuuid_new_v7`, `Xuuid_new_v7_batch`) | one 64-bit word at address 65560 of the instance's memory: 44 bits of millisecond + 1, 20 bits of last step | reserve one step, reserve a batch's steps | the random source, through `random_get` |
| Batch stamping (core, same function) | the region of the scratch it was given | draw, seed, stamp in place | random source; read by `newV7Batch` |
| Instances and pool (`go/core.go`, `go/core_pool.go`) | `mu`, the module's memory, `scratch`, `pages`; the process's one primary; a `sync.Pool` | `acquire`, `release`, `ensureScratch`, `newInstanceWith`, `newV7`, `newV7Batch`, `newV5`, stateless calls | goroutines call them; they call the core |
| AES source (`go/random_aes.go`) | key, `keyedAt`, `generated`, `buf`, `off` | `fill`, `generate`, `rekey` | called by the core; reads keys from `entropy`, and the clock |
| OS source and selection (`go/random.go`, `go/fips*.go`, `go/random_noaes.go`) | none | `osSource.fill`, `newSource` | `crypto/rand` |
| SQL order conversions, inspection (core, `go/inspect.go`) | none: sixteen bytes the caller holds | to and from SQL order; version, variant, is-RFC, timestamp | the scratch |
| Version 5 (core, `Xuuid_new_v5`, `fn6`) | a block buffer and the chained words, on the guest's stack for the call | cut, pad, compress, stamp | the scratch |
| Version 4 (core, `Xuuid_new_v4`) | none | draw, stamp | the random source |
| Public functions (`go/uuidgen.go`, `go/inspect.go`, `go/errors.go`) | none | argument checks, return codes to errors | the layer above |
| TinyGo variant (`go/core_tinygo.go`) | the primary only | `acquire` that locks | – |

How a version 7 call runs: the caller's goroutine reads the clock, waits for the primary's
mutex, grows the scratch if it is a batch, calls the core (which checks, draws, reserves steps
of the word and stamps UUIDs over the scratch), copies the scratch out and unlocks. A
stateless call takes the primary if `TryLock` succeeds and a pooled instance otherwise.

### What is hard here

* **Atomicity by convention.** Rust's atomic compare-and-swap is a plain load, compare and
  store after translation. Only the primary's mutex makes it atomic.
* **A shared scratch that nobody clears.** Arguments, randomness and results of all calls on an
  instance pass through it; `newV7` copies it out even when the core failed.
* **Stale timestamps.** The clock is read before the lock is waited for, so timestamps arrive
  out of order. The ordering contract (10 s, 11 s, 1000 ms) is about exactly that.
* **Boundaries.** A millisecond's last step, a batch that crosses it, the last millisecond the
  word holds, the cap, the batch that fills a millisecond, a seed with room for its block.
* **In-place stamping.** Sixteen-byte UUIDs written over the six-byte tails they are made of.
* **A keystream buffer with two expiry rules**, one of which can strike inside a draw, with an
  entropy source that may fail at any rekey.
* **A bit permutation of 122 bits** around fixed fields, with six separate version and variant
  tests of it.
* **A stack that is never cleared.** Versions 4, 5 and 7 put their values together in frames
  that still hold what earlier calls left there.
* **Unrolled code.** Eighty SHA-1 rounds written out with registers renamed from one to the
  next; padding that takes one block more for eight lengths in 64.
* **Three widths.** What a caller means as a time or a count passes through `time.Time`, int64,
  uint64 and uint32, and memory limits through `int`, uint64 and int32.

`PROJECT.json` lists these as hazards, each at its line, with the properties that cover it.

### What makes each part correct

* Stream: no timestamp and counter twice; order of reservations; bounded distance to the
  caller's and the newest timestamp; no step lost; exhaustion only when exhausted.
* Call layer: one holder per instance; each call gets its own result; a call is atomic to the
  stream, and sorts after the calls that returned before it began; every call returns.
* Memory: a name or a batch is taken exactly when it fits, whatever came before; nothing is kept
  that was not needed.
* Version 5: the UUID is SHA-1 of namespace and name, of nothing else, for every length.
* Version 4 and single version 7: each bit is the one the layout says, from this call's draw.
* Public functions: the error is that of what the caller meant; all is written, or nothing.
* Batch stamping: the destination is exactly what was reserved and drawn, or untouched.
* AES source: no keystream byte served twice, none XORed with something else, none of a
  retired key, none beyond its budget; a draw that reports success is whole.
* SQL order: exact inverse, sort order is creation order, guards agree with one another.

## Modules

| Module | Models | Checked by | Proved in |
|---|---|---|---|
| `V7Word` | the word's arithmetic, pure operators and the constants | (through its users) | lemmas in `V7StreamProofs` |
| `V7Stream` | a version 7 call as one atomic step, with history | `MCV7Stream`, `V7Stream.cfg` | `V7StreamProofs` |
| `V7Calls` | goroutines, locks, pool, scratch; implements `V7Stream` | `MCV7Calls`, `V7Calls.cfg`, `V7CallsLive.cfg` | `V7CallsProofs` |
| `GuestMemory` | the pages of each instance, growth, name and batch limits | `MCGuestMemory`, `GuestMemory.cfg` | `GuestMemoryProofs` |
| `Doors` | the public version 7 functions over `V7Stream` | `MCDoors`, `Doors.cfg` | `DoorsProofs` |
| `BatchStamp` | bytes of a batch: draw, seed, stamp, copy | `MCBatchStamp`, `BatchStamp.cfg` | `BatchStampProofs` |
| `AesSource` | the AES source | `MCAesSource`, `AesSource.cfg`, `AesSourceLifetime.cfg` | `AesSourceProofs` |
| `Layouts` | the two byte orders and the functions that read them | `MCLayouts`, `Layouts.cfg` | `LayoutsProofs` |
| `Mint` | a version 4 and a single version 7, bit by bit on the stack | `MCMint`, `Mint.cfg` | `LayoutsProofs` |
| `V5Hash` | version 5: blocks, padding, digest to UUID | `MCV5Hash`, `V5Hash.cfg` | `V5UuidProofs` |
| `Sha1` | the compression function, round by round | (through `V5Uuid`) | `V5UuidProofs` |
| `V5Uuid` | a whole version 5 call: `V5Hash` and `Sha1` composed | `MCV5Uuid`, `V5Uuid.cfg` | `V5UuidProofs` |

`V7Word` is extended by `V7Stream`, `V7Calls` and `BatchStamp`, and `V7Stream` by `Doors`, so
none of them can disagree about what a reservation is. `V7Stream` is the abstract specification of the call layer:
`V7Calls` instantiates it and `ImplementsStream` is `V7Stream`'s whole specification as a
property. `BatchStamp` is what `V7Calls` does in its steps `Draw`, `Stamp` and `CopyOut`, byte
by byte, and `Mint` what it does there for a single, bit by bit. `AesSource` is the inside of one
successful or failing draw. `GuestMemory` has the pages of which `V7Calls` only counts the
primary's; it proves that a full batch always fits, which `Doors` relies on. `V5Uuid` extends
`V5Hash` and instantiates `Sha1`: a block `V5Hash` sends off is a call of `Sha1`, and the UUID's
bits are read from the digest `Sha1` leaves.

### `V7Word` and `V7Stream`

The word is the pair `<<hi, low>>`: `hi = 0` for a stream never used, else its millisecond
plus one; `low` the last step reserved. `Advances`, `FarBehind`, `Fits` and `MaySplit` are the
tests of the core's loop in their order, `AdvanceTo`, `ExtendTo` and `SplitTo` the three ways
the new word is put together, and `Place` the carry of a step past the millisecond's last one.
A single is a batch of one step whose low counter bits are random (`bits`). The core's two
functions make the same tests in the same order, once for one step and once for k steps
(`v8 != 0xfffff` is `Fits(low, 1)`): one set of operators stands for both, and the mapped lines
are those of the one or the other.

Each action of `V7Stream` is one whole call with one outcome: `RefuseTime` (past the cap),
`EmptyBatch`, `RefuseCount`, `DrawFails`, `MintOutside` (more than the window behind, or past
the word's last millisecond: the word is left alone), `Advance`, `Extend`, `Split`, `Exhaust`.
`log`, `newest` and `last` are history: nothing in a guard reads them.

### `V7Calls`

A goroutine's `at` is its place in a call; `frame` its locals, with the length of the log when
the call began (`since`), which only `RealTimeOrder` looks at. `Lock` .. `Unlock` is the body
of `newV7`/`newV7Batch`; `Load`, `Decide`, `CasLoad`, `CasStore` are the core's loop with its
memory accesses apart, retry branch included (`CasStore`'s ELSE; `WordStable` says it is
never taken). `AcquirePrimary`, `AcquirePooled`, `AcquireNew`, `Release` are
`go/core_pool.go`; a `Spares` value is an instance that may be pooled, held or not existing.
The mutex and the pool are external: `TryLockFails` allows the failure only when the mutex is
held or a goroutine waits for it, and `Collect` lets a garbage collection drop pooled
instances. `Run` stands for any stateless core function: it turns the argument in the scratch
into its answer, or, for a version 4, draws one there; `RunFails` is a failed draw or a refused
conversion, after which `Take` copies out whatever the scratch held and `Release` drops it
(`Delivered`). `build` is chosen at the start and kept: with `"tinygo"` the module is the TinyGo
build, where `AcquireWaiting` is `go/core_tinygo.go`'s `acquire`. `Kinds` and `Counted` say which calls are made and which of them `MaxCalls`
bounds.

### `GuestMemory`

Bytes and pages of every instance: `Make` is `newInstanceWith`, `Batch` is `ensureScratch` with
the draw and the stamping after it, `HashShort` and `HashLong` the two ways of `newV5`,
`RefuseName` `checkV5Name`. A Go slice past the memory and an int32 that would wrap are the
outcome `"panic"`, `newV5`'s zero UUID the outcome `"zero"`: the properties say neither comes.
`MaxInt` is the host's `int`, so that the module is both a 64-bit and a 32-bit host.

### `Doors`

Each action is one call of a public form with what its caller *meant* in `asked`, and the
conversions of the code (`U64`, `U32`, `I64`, `UnixMilli`) between that and the call of
`V7Stream`'s `Serve`. The order of the checks is each function's own: `FillV7BytesAt` looks at
the count before the remainder, `NewV7BatchAt` at the sign before the limit. `NewV7Batch`,
`FillV7` and `FillV7Bytes` are `ClockForms`: the same functions given a clock reading.

### `BatchStamp`

Memory cells say where their content came from, so "the right byte" is equality. Sizes
(16, 6, 4, 8) are the code's own. What was in the scratch before is `Junk`: nothing clears it.
A failed chunk may have been written in part.

### `AesSource`

A keystream byte is its key and position; a cell is the set of bytes XORed into it. `Fill` is
the call, `EntryFresh`/`EntryRekey`/`EntryFails` the age check, `Serve` the copy from the
buffer and the choice between in-place generation and refill, `Generate` one pass of the
loop in `generate`, `BudgetRekey`/`BudgetFails` its rekey, `DirectDone`/`RefillDone` the
return. `Tick` may come between any two of them.

### `Mint`

The 32 bytes of guest stack both functions use, and the caller's sixteen. A bit is where it came
from: this call's draw, the step, the millisecond, or an earlier call's leavings. `kind` says how
a version 7 got its step (`V7Stream` says which it gets). The stores are those of the code in
their order, octets moved below the draw and stored from there included.

### `V5Hash`, `Sha1`, `V5Uuid`

`V5Hash`: `CopyHead`, `CompressBlocks`, `Mark`, `LastBlock` and `WriteUuid` are the stretches of
`Xuuid_new_v5` between two branches. A byte is where it came from (namespace, name, a number, or
junk left by an earlier call). `Octets` does the swap and the masks on words whose bits are sets
of digest bits XORed together. `Sha1`: one action per round, `Choose`, `Parity`, `Majority`,
`ParityAgain` being the four stretches of the unrolled loop; a word is the set of its bits that
are one, because TLC's integers have 32 bits and a word of the code has no sign, and a sum is
the exclusive or of its terms and of what is carried (`Carried`). The code adds the terms of a
round in several orders; the module has one, which changes nothing (`AddComm`, `AddAssoc` in
`V5UuidProofs`). The code computes a schedule word where it first needs it and reuses
registers; the module keeps the schedule as a sequence. `V5Uuid` gives the symbolic
bytes values and runs the standard's computation beside the code's (`fips`): from the *padded
message*, not from the blocks the code made, and by FIPS 180-4's alternate method with its
circular queue. That this is SHA-1, and not only the same mistake twice, is `KnownAnswer` of
`MCV5Uuid`, which TLC evaluates: its digest of the test suite's name is the test suite's UUID.

### `Layouts`

A value is 128 bits. `ToSql` and `ToRfc` say where each bit of the result comes from; the
actions convert the value a caller holds, either way, again and again, or refuse it. The
inspection functions are operators: they change nothing. `CapAssumption` states the one fact
about the constant that the code's shortened comparison with the cap relies on.

## Runs

| Run | Instance | Shows |
|---|---|---|
| `V7Stream` | 4 steps to a millisecond, 2 UUIDs to a step, window 3, drift 1, word up to millisecond 4, cap 5, timestamps 0..6, batches of 0, 3, 6, 8 and 9; 3 reservations | all stream properties |
| `V7Calls` | both builds; 2 goroutines, 3 calls of any kind, 2 spare instances, 5 steps of one UUID, window 1, drift 1, word up to 2, cap 3; batches of 3 (grows the scratch), 5 (does not fit the host) and 6 (refused at the door) | exclusion, own results, atomicity, real-time order, refinement of `V7Stream` |
| `V7CallsLive` | both builds; 2 goroutines, 2 version 7 calls beside any number of version 4 and stateless calls, timestamps 1 and 3 with cap 2 (minted, refused), batches of 3 that do not fit the host; no symmetry | every call returns |
| `AesSource` | buffer 3, budget 6, lifetime 2 ticks of 3, draws of 0, 2, 4, 8, up to 3 keys | all source properties, and that every draw returns |
| `AesSourceLifetime` | the same buffer, budget and lifetime, draws of 1 and 4, 2 keys | a counterexample to the comment on `keyLifetime` (see Findings) |
| `BatchStamp` | batches of 1, 2, 3, 5, chunks of 9 bytes, 4 steps of 2 UUIDs | the destination is exact, the tails survive, the loop never traps |
| `Layouts` | 389 values: five base values and every single-bit change of three of them; 2 conversions | inverse, inspection, sort order, guards, cap |
| `V5Hash` | bytes of 4 values, blocks of 8, namespaces of 2, lengths of 5; names of 0 to 127 bytes (2^31 - 1 in the scale), any number of calls on one stack | the padding is FIPS 180-4's with the whole bit length, the digest's bits go where RFC 9562 says |
| `V5Uuid` | the code's sizes and words, names of 0 to 70 and 250 bytes | the UUID is SHA-1's, and the test suite's for its name |
| `Mint` | 3 calls of any kind, each able to fail | every bit of a UUID |
| `GuestMemory` | pages of 16 bytes, 16-page guests, slice limit 127 and an `int` no wider, so 7 pages; 1 spare instance, names of 0 to 160 bytes, batches of 0 to 33 | limits exact, nothing retained |
| `Doors` | uint32 of 4 values, uint64 of 16, instants of half a millisecond from -70 to 70, all clocks, counts from -5 to 9, lengths to 12; 3 reservations | errors exact, all or nothing |

Why the bounds are enough:

* Three reservations hold an advance, an extension and a split in any order, with a batch that
  fills a millisecond, and an exhausted call after them. Windows of 3 and 1 leave every
  comparison a value on each side. The theorems remove these bounds.
* Two goroutines are all that a mutex and a scratch tell apart; three calls let one goroutine
  find what another left behind and a third have changed the stream in between. `HostPages` is
  small so that a batch can be refused for memory. With the code's own constants the largest
  batch is 1 GiB and always fits (`go/errors.go`, `ErrBatchUnaddressable`), so `CannotGrow`
  is the code's guard and not a case its users meet.
* The ratio of buffer, budget and draws puts the budget inside a refill, at its end and inside
  an in-place generation, with an odd remainder in the buffer. In the code the budget is a
  multiple of the buffer; in-place draws of other lengths bring it out of step with refills
  as the draw of 8 does here.
* A permutation of bits is determined by what it does to single bits. `Layouts` also runs over
  the cap and the first millisecond past it; the theorems cover all 2^128 values.
* A name's length matters through its remainder by the block, the number of whole blocks (none,
  one, more) and the bytes of its bit count. `V5Hash` has every length of its scale, in which a
  byte has two bits, so that the count needs its fifth byte as 2^31 - 1 bytes need it in the code.
  `V5Uuid` has the code's sizes: names of 0 to 70 bytes have every remainder, the lengths at which
  the padding takes a block of its own among them. Their content is one text: the compression has
  no branch on it, so its rounds are either right or wrong for all but exceptional words. The
  theorems remove the lengths and the content.
* A short name, one that needs an instance of its own, the last that fits and the first that does
  not lie within the names of `GuestMemory`; the theorems remove the scale, and hold for hosts whose
  `int` is wider as well.
* In `Doors` a count of 5 is 1 as a uint32 of four values and an instant of 32 half-milliseconds
  is 0 as a uint64 of 16, so a check left out lets a wrong value through; the theorems remove
  these bounds too.
* `MaxLog`, `MaxCalls`, `MaxKeys`, `MaxTime` and `MaxTrail` bound histories only. `MaxCalls`
  counts the calls of the kinds in `Counted`: all of them in `V7Calls`, only version 7 calls in
  `V7CallsLive`, where a waiter for the lock meets unlimited other calls. `V7Calls`, `Mint` and
  `Layouts` stop when their calls or conversions are used up, so deadlock is not checked there;
  it is checked everywhere else, `V7CallsLive` included. `Doors` is constrained to behaviours
  whose calls so far reserved steps: one that reserved none leaves the stream as it was. In
  `AesSource`, once `MaxKeys` keys are used only failing key reads remain, which the code allows
  at any time.

### Fairness

Liveness is checked of two modules.

* `V7Calls!Fairness`: a goroutine inside a call is scheduled (`WF` of its steps), and the
  random source answers or fails. `Lock` has strong fairness because Go's `sync.Mutex` goes
  into starvation mode when a waiter has waited for a millisecond: the next unlock hands it the
  lock. It is needed: with weak fairness of `Lock`, `V7CallsLive` finds stateless calls taking
  the free primary again and again, each time before the waiter does. The same holds of
  `AcquireWaiting`, the wait for the same mutex in the TinyGo build; that TinyGo's mutex starves
  no waiter either is an assumption, its `sync` is not in this repository. Beginning a call is not fair, nobody has to call.
* `AesSource!FairSpec`: the code of a draw runs on (`WF` of its steps). The clock and the
  callers are not fair. A key read either succeeds or fails; it is never assumed to succeed.

## Properties

Stream: `StreamNearNewest`, `OrderedWithinTenSeconds`, `StrictlyIncreasing`,
`EmbeddedNearSupplied`, `StepsAccounted`, `CapacityBeforeExhaustion` are the clauses of
"v7 ordering, precisely" in the root README and of `NewV7At`'s comment.
Calls: `Exclusive`, `WordStable`, `OwnResult`, `RealTimeOrder`, `ImplementsStream`, `EveryCallReturns`. Memory: `NameLimitExact`, `BatchFits`, `NothingRetained`.
Public functions: `ErrorsExact`, `AllOrNothing`. Single UUIDs: `LaidOut`. Version 5:
`FedAsPadded`, `UuidFromDigest`, `UuidAsRfc`. Batch: `TailsIntact`, `DestinationExact`, `SeedApart`, `NeverTraps`.
Source: `NoByteTwice`, `PureKeystream`, `SuccessIsWhole`, `BufferIsTail`,
`RetiredNeverServed`, `BufferedWithinSuccessor`, `DrawReturns`. Layouts: `Reversible`,
`InspectsAlike`, `SortsByCreation`, `GuardsAgree`, `CapExact`. `TypeOK` of `V7Stream`, `V7Calls`
and `AesSource` bounds fields that could really leave their range (the packed word, the pages,
the buffer's offset). Each is stated in words above its
definition, and each is shown not to be vacuous by a mutant: a definition next to the one it
replaces (its comment begins "Mutant:") that makes TLC find the property violated in the same
configuration.

## Findings

**Keystream left in the buffer can outlive its key's second** (`go/random_aes.go:105`). The
comment on `keyLifetime` (line 25) and the README's section on randomness say it never does,
because the age is checked on entry and a rekey discards the buffer. But a refill that crosses
the byte budget rekeys inside `generate`, after part of the buffer has been generated under
the old key, and `fill` then puts the whole buffer in service. The age check looks only at the
new key. `AesSourceLifetime` has the behaviour; `BufferedWithinSuccessor` states what does
hold: such bytes are served within the *next* key's second. They are still served only once
(`NoByteTwice`).

A remark without a run: the comment at `go/errors.go:10` explains `ErrTimestampOutOfRange` by the
48-bit field, while the core (`go/internal/core/core.go:872`) and `NewV7AtTime` refuse everything
past the year 9999, a little under nine tenths of what the field holds. `Doors` models the code,
as `NewV7AtTime`'s own comment has it.

## Proofs

All theorems are of the form `Spec => []P` (or `Spec => P` for an action property) and hold for
every value of the constants allowed by the named assumptions: `SizesAssumption`,
`TimesAssumption`, `CallersAssumption` (`V7Word`), `CallsAssumption` (`V7Calls`), `ChunkAssumption` (`BatchStamp`),
`SourceAssumption` (`AesSource`), `LengthsAssumption` (`V5Hash`, with a `SizesAssumption` of its own),
`BlockAssumption` (`V5Uuid`: the block is SHA-1's 64 octets),
`CapAssumption`, `ValuesAssumption` (`Layouts`), `MemoryAssumption`, `BatchAssumption`
(`GuestMemory`), `DoorsAssumption` (`Doors`). The code's own constants satisfy them.
Two theorems are implications from the assumptions of another component, `StreamAssumption` and
`CallersAssumptions`: `LayoutsProofs` instantiates the proofs of the stream and of the call
layer, and what these assume becomes a hypothesis there.

* **`V7StreamProofs`.** `StreamInv` is inductive. `StrictlyIncreasing` alone is not: it speaks of
  the log, and the next reservation is computed from the word. So the invariant ties the two:
  the word is the last step of the last reservation (`LogMeetsWord`), nothing in the log is past
  it (`LogBehindWord`), reservations are disjoint and ordered as step intervals (`LogOrdered`),
  and each is well-formed and near its caller (`LogSound`). The three reserving actions are
  first shown to have the same effect (`Reserved`, from `AdvanceReserves`, `ExtendReserves`,
  `SplitReserves`), so that each conjunct is proved once. From it: `TypeCorrect`,
  `NeverFarAhead`, `NoStepLost`, `OrderingWindow`; then, with the arithmetic of steps and
  counters (`ItemStep`, `CounterMono`, `IdsWithin`, `IdsAcross`), `StreamOrdered`; and with an
  invariant about the last outcome, `EmbeddedBound`. `CapacityFirst` needs one more: the stream's
  millisecond has no gap between its first step, a seed or 0 after a split, and the word
  (`Filled`).
* **`V7CallsProofs`**, for any number of goroutines, instances and calls and both builds.
  `CallsInv` says of each goroutine what it holds (`Held`), which call it is in the middle of and
  what was checked of it (`Asked`), that what it read of the word is still there (`Stable`), and
  whose bytes its scratch and its result are (`Own`). `Exclusive`, `WordStable` and `OwnResult`
  are parts of it and not inductive alone: the word is stable because the mutex is held, and a
  result is the caller's own because the scratch was, since the step that filled it. The
  interleaving is dealt with once: a step concerns one instance, which the goroutine holds or
  which is free (`Touches`), so nothing another goroutine relies on changes (`Quiet`), and each
  action is looked at only from the goroutine that takes it. With `CallsInv` every step is one
  call served by `V7Stream` or does not show there (`StepServes`), which is `StreamImplemented`;
  the proofs of the stream are then instantiated (`SP`), and give `CallsTyped` and, with the
  place in the log of what a call minted (`Located`), `CallsOrdered`; and `UuidsOrdered`, which
  says it of each UUID the call returns and each one reserved before it began.
* **`BatchStampProofs`.** `StampInv` says that the cells above the stamped suffix's start are
  final and the unread tails are as drawn. The key step is that UUID i's store begins at 16 i,
  at or above the end 6 i of the tails still to be read. `TailsIntact` needs the cursor's part
  (`DrawnSoFar`) to start, and `DestinationExact` needs `StampedSoFar` until the copy.
* **`AesSourceProofs`**, for every buffer, budget and lifetime, any draws and number of keys.
  `NoByteTwice` alone is not inductive: it speaks of the current draw, and what the next draw is
  served lies in the buffer. `SourceInv` says what lies there: `Unserved`, cell by cell, is the
  tail of what was generated (`Back`) and not yet handed out (`Usable`), while what is generated
  next is past all that was (`Generated`). A buffer is no longer than a budget, so the tail
  reaches back one key at most. While a pass runs (`Generating`) the cells before it are
  keystream and those from it cleared. The two action properties come from one lemma, that a step
  writes only bytes of the current key or of the one before, and of none given up
  (`WritesUsable`).
* **`LayoutsProofs`.** `SqlUndone` and `RfcUndone` show that each conversion is the other's
  inverse on the values its guard accepts, field by field, from lemmas that say where each bit
  comes from (`SqlSources`, `RfcSources`). `CreationOrder` is that the bits SQL Server looks at
  one after the other are the original's in their order, with constant marks in between
  (`RankedSources`, `PlaceMonotone`), and that the first difference decides
  (`FirstDifference`).
  The same module proves `Mint` and joins the layouts to the other components. `LaidOut` alone
  is not inductive: it speaks of a finished call, and the octets are put together over two steps
  from what lies on the stack. `MintInv` adds that after the draw the sixteen octets from
  `DrawFrom` are this call's (`DrawnInto`) and the caller's are untouched; the rest follows the
  stores one after the other. Then `MintedReadsBack`: whatever values the drawn, counted and
  clock bits have, the functions of `Layouts` that inspect a UUID find the version, the variant
  and the millisecond in what `Mint` put together, and its SQL form too.
  `Binary` says that bits are a number's binary digits, and `BinaryOrder` that two numbers
  compare as their first different digit (`HalvesDecide`). With it the counters of `V7Stream`
  become octets: `Carries` is a version 7 value whose fields spell a stream's millisecond and
  counter, `MintedCarriesId` that what the core puts together is one, and `EarlierFirst` that
  values of ids in order are in order in both byte orders. `IdsHaveOctets` shows that none of
  this is vacuous: every id of 48 and 26 bits has such a value. So `StreamOrdered` gives
  `OctetsInOrder`, and `UuidsOrdered` gives `OctetsOfCalls`: what an application's goroutines
  get sorts, as RFC octets and in SQL Server, as the calls were made.
* **`GuestMemoryProofs`.** The four properties are inductive together. `BatchFits` alone is not:
  a growth by the missing pages is enough only because an instance's count of its pages is right
  (`TypeOK`), which holds because growths are never refused, which is `BatchAssumption`. The rest is
  that `PagesFor` is the least number of pages that holds the bytes (`PagesHold`, `FitsByBytes`).
* **`DoorsProofs`.** A call settles its own error, so the invariant carries little: the word's
  millisecond is a natural number. The argument is in the conversions: a clock or an instant in
  range comes through unchanged, any other ends past the cap or is stopped at the door
  (`Unsigned`, `EraMilli`); and a core call's outcome is among those expected of its timestamp
  (`CoreAnswers`), exhaustion only when the stream is at the instant or later. From there each
  form is one call of the stream or none (`EveryDoor`), which makes the public functions an
  implementation of `V7Stream` (`DoorsImplementStream`): `DoorsOrdered` is the stream's order
  of UUIDs for any mix of forms, and `DoorsMintMeant` that a call given a `time.Time`, a
  negative clock or a count of any width writes UUIDs of the millisecond its caller meant, or
  at most 11 s later (`MintsWhatIsMeant`, through `MeantInv`).
* **`V5UuidProofs`.** First `V5Hash`, for any names and any sizes of a block, a namespace, the length and a byte.
  `FedAsPadded` alone is not inductive: it speaks of blocks already compressed, and the next one
  is put together over four steps. `HashInv` says of each stage what of the padded message the
  buffer holds at the place where the next block goes (`FirstReady`, `TailReady`, `LengthReady`).
  Two pieces of arithmetic carry it: how many blocks remain once the tail is known, which is the
  code's test for room (`PadCount`), and that the length bytes the code takes by shifts out of 32
  bits are those of the whole bit length (`Digits`), for which the recursive function of the
  padding is shown to have one solution (`ShiftsUnique`). `UuidDigest` follows the digest's bits
  through the byte swap (`SwapReverses`) and the masks (`OctetBits`).
  Then the whole call, for any namespace, name and length (`UuidRfc`). `UuidAsRfc` alone is not
  inductive: the two computations must be compared round by round. `UuidInv` says that they are
  in the same block (`AtBlock`) with the same words, that the blocks still to compress are the
  padded message's next ones (`TodoAhead`), and that the standard's queue of sixteen holds the
  last of the code's schedule of eighty (`QueueHolds`, `QueueNext`). The steps rest on the words:
  the code's forms of the mixing functions are the standard's (`ChooseIs`, `MajorityIs`), its
  order of additions is immaterial (`CarryStep`, `AddComm`, `AddAssoc`, `AddOrder`), and a block
  loaded and swapped is the message's (`LoadedSwapped`, `WordsSwapped`).

Only model-checked: the liveness properties, `EveryCallReturns` and `DrawReturns`, which are out
of the prover's reach; and `KnownAnswer`, one value that TLC computes.

## Not modelled

* Which random source is selected: decided once from CPU features and FIPS mode, no state. What
  the OS source can answer is a draw that succeeds or fails, wherever there is a draw.
* The inspection functions' own argument checks (sixteen bytes, a defined layout) and the
  `String` forms: one comparison each, and wording.
* The plain loads, stores and `memory_init` of the wasm runtime; the translation tool and the
  TinyGo smoke test's `main`, which are not part of the library.
* The core for targets without 64-bit atomics (one counter that is never reset): documented, but
  not in this repository's translated core.
* Real time: a timestamp is whatever the caller passes; `AesSource` counts ticks.
* Names of 2^31 bytes in the code's own sizes: `V5Hash` has them in scale.

## Plan

1. The octets of a batch: from `DestinationExact` that each UUID of a batch `Carries` its id, as
   `MintedCarriesId` has it of a single.
2. An abstract random source (each draw all fresh, or failed) that `AesSource` implements and
   that `Mint` and `BatchStamp` draw from.
