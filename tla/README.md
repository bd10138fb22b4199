# TLA+ specifications of proxykit-go

proxykit-go reads large proxy lists: `proxypool` walks the lines of a file in file order or in a
reproducible pseudo-random order without loading the file, `proxyparser` turns a line into a
`proxykit.Proxy`, and the root package validates one. These modules specify the pool (the
arithmetic that cuts and permutes the file, the walk over its blocks, the reading of blocks and
lines, the index of lines, the calls of several goroutines, the memory that is retained, and a file
that changes or fails underneath) and the parser (the formats, its strict and lenient modes, its
fast path down to the bits of a word, and what a valid proxy is).

Paths below are relative to the repository (`src/`).

## The system

| Component | State | Operations | Talks to |
|---|---|---|---|
| Pool layout and permutations (`proxypool/proxypool.go`) | none; fields `Open` derives | `addModulo`, `multiplyModulo`, `greatestCommonDivisor`, `permutationParams`, `shardItemCount`, `ceilingQuotient`, `mix64`, `validateOptions`, `regionLayout` | called by the walk and by line indexing |
| Pool block walk (`proxypool/proxypool.go`) | `cycle`, `regionCursor`, `nextRegion`, `regionAdvance`, `regionBlock*`, `regionRotation`, `continuation*` | `loadNextBlockLocked`, `startCycleLocked` | decides which block the pool reads |
| Pool iteration (`proxypool/proxypool.go`) | `buffer`, `offsets`, `cr`, `lineCursor`, `nextLine`, `lineStep`, `carried*`, `cursor`, `terminal`, `closed`, mutex | `Next`, `NextBytes`, `Reset`, `Close`, `Stats`; `loadBlockLocked`, `indexBlockLocked`, `extendLineLocked`, `terminateLocked`, `validateSourceLocked` | reads and stats the file; calls the line index |
| Batch (`proxypool/batch.go`) | a block's `buffer` and `offsets`, position | `Pool.NextBatch`, `Batch.Next`, `Batch.Lines`, `Batch.Len` | swaps storage with the pool; calls the loop body back |
| Read-ahead (`proxypool/ahead.go`, `internal/blockread/ahead_*.go`) | slots: block, storage, state | `readAheadLocked`, `adoptLocked`; `Start`, `Wait`, `Settle`, `Close` | the kernel writes to slot storage while reads are in flight |
| Retained memory (`proxypool/proxypool.go`) | buffer capacities | `resized`, `growOffsets`, `bufferLimit`, `Stats` | |
| Readers and hints (`internal/blockread`), file opening (`internal/fileopen`) | a file handle | `ReadAt`, `fadvise`, `fcntl`, open flags | the operating system |
| Line index (`internal/lineindex`) | none | `Ends`, `MaxGap`; scalar words, AVX2, AVX-512, NEON | called by `indexBlockLocked` |
| Structural index (`internal/structuralindex`) | one `Index` per parse | `Build`, `Next`, `IsHostName`, `IsPrintable`; words and vector kernels | called by the parser's fast path |
| Parser (`proxyparser/proxyparser.go`) and fast path (`fastpath.go`) | a compiled format | `New`, `Parse`, `ParseBytes`, `ParseInto` | fills and validates a `Proxy` |
| Proxy model and validation (`proxy.go`) | a `Proxy` | `Validate`, `IsValidHost`, `SplitHostnamePort`, `IsValidCredentialsFor`, `FromURL`, `ExportURL` | |

How they interact. A caller's `Next` or `NextBatch` takes the pool's mutex and keeps it during
file I/O. When the block read last has no line left, `loadNextBlockLocked` walks to the next
block, region or cycle. `loadBlockLocked` reads the block, one byte in front of it and a little
behind it; a block owns the lines that start in it, so a line that runs over its end is read to
its end (`extendLineLocked`), and the blocks it runs through are skipped when the walk reaches
them (the continuation). The byte in front of the block tells whether its first byte starts a
line, and is kept from the block before (`carried`) if that was its neighbour.

### What is hard here

* *Lines and blocks do not align.* With rotated and permuted blocks a line may run through blocks
  that were read before the block in which it starts. Every line must still be owned once.
* *State carried between blocks*: the byte in front of the next block, the continuation, the
  position in the block's lines, across cycles, `Reset`, errors, and batches that take the block away.
* *Order*: seeds, cycles, shards, rotation and line order are arithmetic on 64-bit words that wraps,
  maintained step by step. A wrong stride still looks like a walk.
* *The file moves underneath*: between a read and the next stat it may be truncated, extended or
  rewritten; short reads, read errors and stat errors meet in several orders, and whatever was
  half read must leave no trace after `Reset`.
* *Calls of several goroutines* queue for the mutex in any order, `Close` among them.
* *Loops that hold the mutex* (`loadNextBlockLocked`, `extendLineLocked`) must end.
* *Read-ahead and batches* pass storage between the pool, its slots, batches and the kernel; every
  buffer grows by its own rules, and `Stats` promises a bound for all of it.
* *An index that stops for room* and is resumed where it stopped, on backends that stop at
  different bytes and write past what they count.
* *Unrolled and word-parallel code* (`Batch.Lines`, the indexes, the fast path) must agree with the
  plain code it replaces.

`PROJECT.json` lists each such hazard at its line, with the properties that cover it.

### What makes each component correct

* Layout: modular operations are exact for every modulus a word holds; a permutation visits every
  index once; shards of one seed partition the blocks.
* Walk: in a cycle, every block of the shard is passed exactly once and no other is; the position
  is a function of seed, cycle, shard and counters.
* Iteration: every line of the shard is returned once per cycle with its bytes, in file order in
  sequential mode; EOF and the next cycle come only after the last line; `Reset` reproduces the
  order; errors and `Close` are final; the limit is exact; every call returns.
* Batch: `Next`, `Lines` and their mixtures return what `Pool.Next` would have, in that order;
  a batch's storage is its own.
* Read-ahead: what it predicts is what the walk takes; an adopted read holds the bytes of its
  block; no storage is used twice at the same time.
* Opening: what `Open` accepts leaves room for every size formed later.
* Memory: every length asked for fits the buffer it is cut from, and retained bytes stay below
  `Stats.MaxRetainedBytes`.
* Line index: the offsets are the line ends whatever the backend and the room; nothing is written
  past the room; the loop ends.
* Indexes: vector, word and byte-wise code agree.
* Parser: the fast path accepts what the byte-wise parser accepts, with the same fields; strict
  and lenient parsing agree on well-formed input; what is accepted is valid.

## Modules

| Module | Models | Extends |
|---|---|---|
| `PoolLayout` | arithmetic, permutations, the layout of an opened pool; pure operators | |
| `ModularArithmetic` | calls of that arithmetic with every operand of a word | `PoolLayout` |
| `BlockCursor` | the walk over blocks: `loadNextBlockLocked`, `startCycleLocked` without the bytes | `PoolLayout` |
| `PoolStorage` | `resized`, `growOffsets`, `BufferBytes`, the conditions of direct reads; pure operators over capacities | `BlockLines` |
| `PoolOpening` | `Open`: its defaults, its checks in order, the pool it returns | `PoolStorage` |
| `RetainedMemory` | the capacities of all buffers from `Open` to `Close`: the pool's, its slots', the batches' | `PoolOpening` |
| `LineIndex` | `indexBlockLocked` and `lineindex.Ends`: portable scanner, vector kernels, room, resumption, `MaxGap` | `PoolStorage` |
| `BlockLines` | block ranges, line ends, limits and terminators; pure operators over bytes | `PoolLayout` |
| `ProxyPool` | the whole pool: callers, mutex, walk, reads, lines, batches, `Reset`, `Close`, changes of the file, failing system calls | `BlockCursor`, `BlockLines` |
| `BatchLines` | a batch in its goroutine: `Batch.Next`, loops over `Batch.Lines` with early stops, panics and refills from the body | `PoolLayout` |
| `LineStream` | the promise to callers: each line once per cycle, EOF when none is left, failures until `Reset`, nothing after `Close` | |
| `ReadAhead` | reads ahead of the walk: prediction, slots, the kernel, adoption, and the memory that circulates among pool, slots and batches | `BlockCursor`, `PoolStorage` |
| `ByteWords` | tests on eight bytes at a time, with 64-bit words as sets of bits: names, printable text, line feeds, IPv4, credentials, ports | |
| `ProxySyntax` | `proxy.go`: schemes, hosts, ports, credentials, `Validate`, `FromURL`, `ExportURL`; pure operators | |
| `ParserFastPath` | `fastpath.go` and the index and name tests it calls; pure operators | `ProxySyntax` |
| `ProxyParser` | `New` and `ParseInto`: formats compiled to plans, strict and lenient parsing; the lines of a list, damaged or not | `ParserFastPath` |
| `MCArithmetic`, `MCBlockCursor`, `MCProxyPool`, `MCBatchLines`, `MCReadAhead`, `MCLineIndex`, `MCRetainedMemory`, `MCProxyParser` | small instances for TLC; `MCArithmetic` also has the definitions byte by byte | |
| `PoolLayoutProofs`, `BlockCursorProofs`, `ProxyPoolProofs`, `LinesProofs`, `ReadAheadProofs`, `RetainedMemoryProofs`, `ParserProofs`, `ParserPlanProofs` | theorems | |

`ProxyPool` implements both `LineStream` (`ImplementsStream`, with the lines of the shard and the
lines returned in this cycle substituted) and the walk of `BlockCursor` (`WalkIsBlockCursor`: the
fields it shares with that module only change as the walk says, whatever is read, fails, is reset
or closed). The second is also proved (`PoolImplementsCursor`), so what is proved of the walk holds
of the pool for every value of the constants; so is the first, as long as no bytes of the file
are rewritten (`PoolImplementsStream`).

### How the models correspond to the code

*Words.* `WordSize` stands for 2^64; sums and products that the code forms in `uint64` are taken
modulo `WordSize`. `mix64(a ^ b)` is any function `Mix(a, b)` from words to words: nothing may
depend on the hash. The configurations use a small polynomial for it.

*Values of constants.* Block and region sizes are the model's own. The code's constants (4 KiB
tail reads, 64 KiB line reads, lookahead of an eighth, regions of 1 GiB) are CONSTANTS, since only
their relation to block and line sizes matters; the runs pick them so that lines end within the
lookahead, within one further read, and after several.

*Open.* `ValidOptions` is what the other modules assume of the pool `Open` returned, and
`PoolLayout` computes the derived fields. `PoolOpening` has the checks of `Open` as predicates on
what it is called with (`FileRefused`, `ShardsRefused`, `SizesRefused`, `RegionRefused`, tested in
that order where a later one needs an earlier one to hold), with int and the offsets as wide as a
*platform* makes them; `OpenedIsValid` connects the two. A random seed is any nonzero word.

*Capacities.* A buffer in `RetainedMemory` is its capacity, and the length in use is `length`. The
lengths are those of the code: the block's read, each piece of a long line, one or two bytes of a
terminator, the whole pages of a direct read. Which block comes next, what a read returns and
whether lines are left are free choices there, since no capacity depends on them. `Fitting` is
what `NextBatch` leaves of the storage a batch brings; `FillElsewhere` is another pool that filled
it. `AsInt` is the wrapping of int, so that a size that overflowed would show.

*The line index.* A block is indexed by calls of `Ends` (`CallEnds`, then a backend's steps, then
`TakeEnds`). `scalar` alternates between masks of 64 bytes and a search for one line feed at a
time; the kernels take whole blocks, as many as fit the room tested before them (`Run`: AVX2 and
AVX-512 test for a run of blocks, NEON for each), and the rest goes through a block of its own.
`touched` is the highest element written, ends stored and not counted included. `KernelBytes`
stands for 64. The result is what `BlockLines` gives `ProxyPool` (`LineEnds`, `ReturnHints`).

*Bytes.* A byte is `LF`, `CR` or `Text`; nothing else is told apart by the pool. A line is its
start in the file and its bytes. `NextBytes` copies what `Next` returns and is the same action.

*One step per system call.* `pc` of the mutex holder says what it does next: `walk`
(`loadNextBlockLocked`'s loop), `read` (the block read), `short` and `failed` (the metadata
check that follows a short or failed read), `extend` (the loop of `extendLineLocked`), `serve`
(a line is there). Work on memory between two system calls is one step, with all that it changes.
`ReadWholeLines`, `ReadLastLine`, `ReadOpenLine`, `ReadNoLine` and `ReadTooLong` are the outcomes
of one full block read. Each metadata check is in the step whose branch it decides.

*The file.* `disk` has the bytes at this moment, the number of changes, how many of them show in
the modification time, and whether the bytes of the opened file are intact (as a prefix, or
cut short). A read returns what is on disk at its offset.

*Batches.* `ServeBatch` in `ProxyPool` hands the rest of a block over and puts its lines in the
history in the order of `Pool.Next`, trimmed as a batch trims them. `BatchLines` takes up there: it
starts from any block and any lines taken before, and its `order` is that order. A line there is
its index in the block. The body of a loop runs between two steps; `pc` says which of the four
yields of `Lines` it runs for. `Panic` is a panic of the body or of `checkCalls`.

*Reads ahead.* `ReadAhead` composes the walk of `BlockCursor` with `blockread.Ahead`. A memory is a
number; `memory` says which bytes of the file it holds, and `Junk` stands for what nobody will
look at, so that a property that looks at `Junk` fails. `pc` follows a call of `NextBatch`: `settle`
and `issue` (`readAheadLocked`), `walk`, `load` (`adoptLocked`, or the pool's own read), `lines` (the
block is there), `serve`. `KernelReads` ends a read at any moment in between, whole, one byte
short or failed; `Wait` blocks until it has. Memory that is too small keeps its number when
`resized` replaces it: the pool drops the old one. Which lines a block has is a free choice
(`LinesStart`, `NoLineStarts`, `LineContinues` with any end); the bytes themselves are
`ProxyPool`'s subject. Callers are one at a time here, as they are under the mutex: no step of
another call can come between two steps of one, but steps of the kernel can.

*Hints.* `lineindex.Ends` may report a carriage return it cannot attribute to a line end, depending
on the backend; `ReturnHints` allows every answer a backend may give.

*Parsing.* A `Parse` has no state but its format, so a call is an operator, `ParseInto`, and the loop
of `parseInto` is a recursive function over the plan that applies `Step` to a record of the loop's
locals. An input is a sequence of symbols: a byte each, except that a scheme's name is one
symbol, since no rule looks inside it but the folding of case; lengths count its letters. `Symbols`
may be any set that has the names of the schemes, the digits, `:`, `/` and `%`; that of the run has
what the rules tell apart: digits, letters that are hexadecimal and letters that are not,
unprintable bytes, and the punctuation. Limits on lengths are those of the code. The state machine around it is the caller:
a line, at most one symbol of it inserted, dropped or replaced, is given to the strict and the
lenient parser of a format (`ParseLine`), and a proxy is written out in the format and read back
(`Write`, `ParseWritten`), all into one destination. A *tier* is what the
build and the processor offer: `vector` has an index for inputs of up to 64 bytes, `word` has none,
and `scalar` is `parseInto` without the fast path, which the package's tests compare with.
Tests on words of eight bytes are modelled by which bytes each word holds (`NameWords`,
`Scanned`, the two ends in `isIPv4`), where an overlap can be missed; what happens within the
words is `ByteWords`'. A host remembers where it was cut from the input (`hostAt`), because `isValidFast` finds that
out from its address. `ParseAddrIs6` stands for `netip.ParseAddr` and is external.

A URL (`ExportURL`, `FromURL`) is the fields of a `url.URL`; its text and percent-encoding belong
to the standard library.

*Words of bytes.* A 64-bit word in `ByteWords` is the set of its bits that are 1: `&` and `|` are
intersection and union, a sum carries. The width is the code's, since carries between bytes are
what could go wrong. `MCArithmetic` has each test byte by byte and compares.

*History.* `taken`, `skipped`, `history` and `record` are not in the code. They remember blocks
passed, lines returned since open or `Reset`, and the longest such history.

### Not modelled

* Advice to the kernel where there are no overlapped reads (`prefetchNextLocked`, `Hints`): it
  changes nothing that is returned, and a rejected one only switches itself off. The block it
  names is the first that `Upcoming` foretells.
* The readers and the opening of files (`reader_windows.go`, `source_*.go`, `fileopen`): one system
  call each, whose outcomes are the free choices of the read actions. With them the opening of the
  overlapped handle, and the cleanup that closes it for a pool dropped without `Close`.
* The vector kernels as instructions: `LineIndex` has their control (runs, room, stores past the
  count), `ParserFastPath` the classes they compute as sets of offsets.
* `Stats` beyond `Cursor` and the two memory figures, the getters and setters of a proxy, nil
  receivers, and the wording of errors.

## Runs

Each is a configuration under a time of a few minutes. "Mutants" in `PROJECT.json` are plausible
mistakes in the code, one per property, that make TLC report the property violated in the same
run; in the modules they stand before the definition they would replace.

| Run | Configuration | Question | Bounds |
|---|---|---|---|
| `arithmetic` | `MCArithmetic` | Are `multiplyModulo`, Euclid's algorithm and the permutations exact near the top of the word? Do the tests on eight bytes agree with tests byte by byte? | words of 5 bits: every modulus below 32 and every pair of operands, so sums and products beyond the word occur; words of 64 bits for the rest: pairs of bytes on both sides of every range in every place of names of 1 to 16 bytes, addresses of 7 to 15 bytes, ports around 65535, credentials |
| `cursor` | `MCBlockCursor` | Does the walk pass every block of the shard once, on schedule, for every line end, and do the shards partition the file? | files of up to 6 blocks, regions of 1 to 4 blocks with a short last one, up to 3 shards (more shards than regions included), 4 seeds, 2 cycles, `Reset` anywhere |
| `files` | `PoolFiles` | One pass over every small file: exactly its lines, intact, in order, limits exact | every file of up to 5 bytes over LF, CR, Text; blocks of 2 and 4 bytes; limits 1 and 3; 1 and 2 shards; both modes; `Next` and `NextBatch` mixed |
| `faults` | `PoolFaults` | The file changes once and a system call fails once, at any moment: is what was returned right, and does the walk inside the pool stay the one of `BlockCursor`? | every file of up to 3 bytes in blocks of 1; both modes, reused and not; every truncation, one byte appended, one byte rewritten, with and without a new modification time; `Next` and `Reset` (`NextBatch` makes the same system calls); no new line asked for after the third |
| `stream` | `PoolStream` | Two goroutines race all four methods: does the pool implement `LineStream`, failures included, does `Reset` reproduce the order whenever it comes, and is `Close` final? | every file of up to 3 bytes over LF and Text; blocks of 2 bytes, one to a region; both modes, reused and not; one failing call; no new line asked for after the fourth; the goroutines are symmetric |
| `batch` | `MCBatchLines` | Do `Batch.Next` and `Batch.Lines` take the lines in the pool's order, whatever ends a loop? | blocks of up to 5 lines in every permuted order (two pairs and a single line), any lines taken before, two calls of `NextBatch` |
| `ahead_buffered` | `AheadBuffered` | Do reads through the cache stay out of everybody's memory, and are they adopted only when right? | a shuffled and a sequential pool over 3 blocks, 2 slots, 6 memories, a batch, cycles, `Next`, `NextBatch`, `Reset`, `Close`, one failing or short system call |
| `ahead_direct` | `AheadDirect` | The same for reads that bypass the cache, with alignment | 5 blocks (a direct read needs a file of 4) and 2 slots, so that reads are settled and refilled; a batch refilled by another pool; one failure |
| `parser` | `MCProxyParser` | Do all tiers give one answer, does strict accept its format only, does lenient read all that strict reads, and is a proxy that is written out read back? | six formats, strict and lenient; 19 lines, most with every one-symbol damage, and the URLs of what is parsed: names and octets at the ends of words, 62 to 64 letters to a label, inputs of 64 and 65 bytes, ports around their limit, IPv6 with zones, `@` in usernames, missing passwords |
| `index` | `LineIndex` | Do all backends find the line ends, stay within their room, and does the loop end? | every block of up to 8 bytes over LF, CR and Text; masks of 4 bytes; long lines from 3 bytes; storage of 0, 5 and 8 offsets, below and at what the block may need (9) |
| `memory` | `RetainedMemory` | Does `Open` refuse every size that would overflow, do buffers hold what is cut from them, and is the memory bounded? | an int narrower than the offset and one wider; sizes on both sides of each check; a page of 3 and aligned buffers from 6 bytes; files shorter than a block, of one and of several blocks; direct and cached reads ahead; one batch that returns with too small and too large storage |
| `liveness` | `PoolLiveness` | Does every call return? | two goroutines, `Next` and `Reset`, blocks of 1 byte so that a line runs through several |

Why these bounds are enough to be interesting: what the pool distinguishes is whether a byte starts
a line, whether a line ends within its block, the lookahead, a further read or the file, and where
the blocks it runs through lie in the walk. With blocks of one and two bytes and files of three to
five bytes a line runs through no, one or several blocks, before and after its own block in the
walk, and ends in each of those ways. Two regions and two shards are enough for a line to cross
from one region or shard into another. In `files` the terminators meet every boundary: LF, CR LF
and CR at the end of a block, of the lookahead and of the file. One change of the file, placed
between any two system calls, is what the metadata checks can detect at all; `ChangesShow` names
the one change that escapes size and modification time, and `EofMeansComplete` and
`CyclesComplete` do not claim anything for it. `MaxCycle` in the pool's configurations is above
what `MaxCursor` lets happen.

Two slots are fewer than the blocks ahead, so slots run out, are settled and are used again, and
a read may be two blocks early; `memory` has the three slots of the code. `Storages` has more
memories than can be owned at a time (`AheadAssumption`), so that memory is never short where the
code would allocate. Reads settled by `Reset` or by a continuation, and reads adopted after `Next`
moved the walk, need no larger file. In `memory` the lengths asked for lie just below, at and above
each capacity a buffer can have and each limit `Open` compares with. In `index` a word has four
bytes and a block eight, so a block is two masks, with every placement of the terminators in it;
the offsets' capacities make the scanner stop, and resume, before, within and after a mask.

`MaxCursor` stops callers from asking for more lines, `MaxChanges` and `MaxFaults` bound the
environment, `MaxCycle` bounds cycles of the bare walk. All are guards of the actions they bound.
For the parser the lines meet each rule of `proxy.go` on both of its sides, or come within one symbol
of it; the six formats have a field before and behind each kind of delimiter, credentials before
and behind the host, a delimiter that addresses contain, text behind the last field, and no scheme.
The destination is in use from the start, so that fields left over would show in `TiersAgree`. Lines longer
than `MaxDamagedLength` are there for their lengths and are not damaged.

`CHECK_DEADLOCK FALSE` is set only in `MCArithmetic`, whose states enumerate operands and texts, in
`MCProxyParser` and `LineIndex`, where the calls on a line and the indexing of a block come to an end,
and in `RetainedMemory`, where `Open` may refuse and `Close` ends everything; in the other runs a caller can always make another call, and deadlock is checked.

### Fairness

`FairSpec` asks for two things. The goroutine that holds the mutex never blocks on anything but
system calls that return, so its steps are weakly fair. A goroutine waiting in `Lock` gets the
mutex although others keep taking it: `sync.Mutex` switches to starvation mode, in which it hands
the lock to the longest waiter, after a waiter has waited a millisecond; this is strong fairness
of `Enter`. Nothing is assumed of callers: they may stop calling. `EveryCallReturns` thus shows
that neither loop under the mutex spins. `LineIndex` is one goroutine's loop over memory, with no
call that could block; its `IndexSpec` has weak fairness of that loop, and `IndexingEnds` shows that it
never calls `Ends` again without progress.

## Proofs

Checked with the TLA+ proof system. Every theorem is about every value of the constants that meets
the named assumptions of the modules (`WordAssumption`, `MixAssumption`, `RegionAssumption`,
`OpenedAssumption`, `PoolAssumption`, `AheadAssumption`, `StorageAssumption`, `OpeningAssumption`,
`MemoryAssumption`, `PlatformAssumption`, `IndexAssumption`, `BlocksAssumption`, `BatchAssumption`,
`ReadAssumption`, `TextsAssumption`, `ProxiesAssumption`): any word size, hash, seed, shard, layout,
files, blocks, callers, formats, lines and damage.

* `PoolLayoutProofs`. `AddModuloExact`: no sum wraps for any modulus a word holds.
  `WalkIsInjective`: stepping by a number coprime to the count meets no index twice; the argument
  is that a difference `d` of two positions makes `count` divide `d * step`, and then `count`
  divides `d`, which is below it. `PermutationStepIsCoprime` and `PermutationIsInjective`: the step
  `permutationParams` draws always exists (1 is tried within `count - 1` draws) and is coprime.
  `ShardRegionsDiffer`: the regions of a shard differ, because round-robin positions do.
  Then lemmas on the bytes of `BlockLines`, for files and blocks of every size: line ends cut a
  buffer into lines; the text of a line is what is left of it without its terminator, wherever the
  buffer or the file ends; a limit on the text is a limit on the line plus one or two bytes; and
  what is read at an offset is the file's bytes from there (`HoldsFile`, `LineInFile`).
  `ModularArithmeticExact`, in `BlockCursorProofs` as `ArithmeticIsExact`: `multiplyModulo` and Euclid's
  algorithm are exact for all operands of any word (`MultiplyModuloExact`, `EuclidIsExact`,
  `EuclidTellsCoprime`).
* `BlockCursorProofs`. `WalkStaysOnSchedule` is the inductive invariant: the position that the code
  advances by additions equals the position computed from the definition of a round-robin deal of
  the permutation, and what was passed is exactly what lies before it. Nothing weaker is
  inductive: that a block is new follows only from where the walk is, not from which blocks it
  has seen. From it and the injectivity of the permutations follow `NoBlockTwice` (the next block
  has not been passed and lies in the file) and `ExhaustedIsComplete` (at the end all blocks of
  the shard, and no others, have been passed).
  `ShardsPartition`: each block of the file is in the regions of exactly one shard.
  Every region is met by the permutation, as an injective map of a finite set into itself is onto
  it (`PermutationIsSurjective`); its position `p` is dealt to the shard `p % shardCount` and no
  other; and each block lies in one region.
* `ProxyPoolProofs`. First the walk. `PoolKeepsItsType`: `TypeOK`. `PoolImplementsCursor`: the pool refines
  `BlockCursor`. `PoolReadsNoBlockTwice`: so what is proved of the walk holds in the pool, among
  reads, failures, resets and any number of callers. The invariant adds to the types what a step
  relies on of the steps before (`StageKept`): a block was taken before it is read; the buffer of a
  line being extended holds the whole block, so that the line can only end behind it
  (`NextLineIsBehind`), which is why the blocks skipped as its continuation come after the block;
  and `nextLine` and `lineStep` lie among the lines at hand, which keeps `Following` among them.
  `ErrorsAreTerminal` and `ClosedIsForGood`: after an error, or `Close`, nothing
  is returned and nothing read until `Reset`, respectively ever. The invariant `OverIsIdle`
  strengthens them: when the pool is over, nobody is inside a walk, read or serve step, since
  each of these ends the call in the step that ends the pool.
  Then what callers get, for every file, geometry, seed, number of callers and
  interleaving. The argument has four layers, each an inductive invariant over the one before:
  1. `LinesInvariant`: the bytes in the buffer are the file's at the block's offset, unless they were
     rewritten; the offsets cut them into lines that begin in the block; a line that is extended
     is open at the buffer's end. `CarriedOverStaysTrue` is the part of it that goes from one
     block to the next: whether a block begins inside a line is decided from a byte that was
     read with another block, and blocks are skipped because of bytes read for the line before.
  2. `HistoryInvariant`: each line returned in this cycle begins in a block that was passed
     (`TakenKept`), and in the block at hand at a place of the permutation already taken (`OrderKept`).
     That no line comes twice (`LinesInOrderOnce`) follows only with both: lines of
     different blocks differ as the walk passes no block twice, lines of one block as the
     permutation is injective. `ReturnedLinesAreIntact` is `OwnLines`, by the first layer.
  3. `LimitKept`: `ErrLineTooLong` is returned for a line that the shard owes (`LimitIsEnforced`). A
     line's length is known only in pieces, so each test of `exceedsLineLimit` is related to the
     line in the file, whose end may not have been read.
  4. `CompleteKept`: a block that was passed had each of its lines returned, unless it was skipped,
     and then no line begins in it (`SkippedAreLineless`). With `ExhaustedIsComplete` of the
     walk follow `EofIsComplete` and `CycleIsComplete`.
  `PoolImplementsStream` puts them together: the pool refines `LineStream`, step by step, in every
  behaviour in which no bytes of the file are rewritten (it may be cut and extended; the run that
  checks this property does not change the file). What it adds is that what the pool owes never
  changes: only a pool that is reused leaves its first cycle (`CycleKept`), such a pool has one
  shard, and one shard has every block (`ReusedOwesAll`).
  `PassesAreAlike` is `Reproducible`. It compares two passes of which one is over, so neither can be
  related to the other while it runs; the invariant (`PassesInvariant`) relates each of them to an
  order that depends on the file, the seed and the shard alone. `BlockBefore` orders the blocks of a
  cycle by where the walk comes to them, `LineBefore` the lines by their block and their place in
  its permutation (`BlocksAreOrdered`, `LinesAreOrdered`: both are strict total orders of what the
  shard owes). `InCycleOrder` says of a sequence that the lines of a cycle in front of each line are
  exactly those that come before it. It needs that nothing was left out, so it rests on
  `CompleteKept`, and that the blocks passed in front of the one at hand are those that come before
  it (`Placed`). A cycle before the one at hand owes as many lines (`CycleKept`, `CycleOwesLength`).
  Two sequences in this order agree as far as both go, by the least index at which they would not
  (`OneOrder`).
* `LinesProofs`, of `BatchLines`. `LinesComeInPoolOrder` and `PositionIsKept` for blocks of any number of lines.
  The invariant has three parts: in the order of a block each line is one `Wrap` behind the line
  before (`OrderIsWalk`, from the permutation when the batch is filled); the position stored in
  the batch stands behind the lines taken before the running loop; and, unless the body refilled
  the batch, the loop's own variables stand behind the lines taken so far (`LoopStands`). The
  double step that `Lines` precomputes is two single ones (`TwoOnIsTwoSteps`), and the straight
  loop ends within the block since it asks for no more lines than lie behind its first.

* `ReadAheadProofs`. `MemoryHasOneOwner`: whatever is read, fails, is settled, refused, adopted,
  batched, reset or closed, no two of the slots, the batches and the pool own the same memory, and
  every read in flight has the memory of its slot. The invariant `Ownership` adds what a filling
  batch gave up: its memory is spare until the call ends, and it has none itself meanwhile; without
  this, giving the spare memory back (`Fails`) could double it. That an allocation returns memory
  nobody owns (`NewIsUnused`) is a count of owners.
  `SlotIsFound`: `readAheadLocked` never lacks a slot. The invariant `ReadsAhead` says that reads in
  flight are of different blocks and, after the settling, of upcoming ones; at most `AheadDepth`
  blocks are upcoming, so if one of them has no read, a slot is idle. What upcoming blocks are does
  not change while reads are started, as `Upcoming` depends on the walk alone: the places that the
  code computes by stepping through regions are those of the schedule (`UpcomingIsScheduled`).
  `WalkTakesForetold`: so the block loaded is the first one foretold. The walk's own place is the
  least of those left, a block that is skipped has none there, and entering a region only renames
  where the walk is (`CurrentIsForetold`, `SkippingKeepsLeft`, `EnteringKeepsLeft`).
  `ReadsStayInMemory`: reads fit their memory and are aligned when they have to be; rounding up to
  pages cannot exceed the buffer, since block and lookahead are whole pages then (`TargetFits`).
  `CallersHoldWholeBlocks`: the memory that lines are taken from, and that of every batch, holds the
  block. Its invariant relates each read that ended to the bytes its slot's memory has (`ReadsFit`),
  so that what `adoptLocked` accepts is the whole block, and with `Ownership` nobody writes it
  while it is held (`WritesSpareBatches`).

* `LinesProofs`, of `LineIndex`. `LineEndsAreFound`: for a block of any size and content, any backend and any
  storage at the start, the loop of `indexBlockLocked` ends with the start of the first line and the
  end of every line, in order; `cr` is what `BlockLines` promises the pool, and `MaxGap` misses no
  gap. `RoomIsEnough`: nothing is written past the storage of the offsets, nor grows it beyond its
  bound. `IndexInvariantHolds` is the inductive invariant of both: up to `position` the offsets are
  the line ends, and within a call of `Ends` those it has stored are the ends of what it has consumed
  (`EndsJoin`: the ends of two adjoining pieces are those of the whole); a vector kernel's run has
  room for a line feed at each byte it may still take. The hint of a call misses only a line feed
  at the first byte of its source, and the byte in front, which `indexBlockLocked` looks at, tells of
  that one (`HintsJoin`); for the kernels it takes more, that they miss no CR at all, as a CR may end
  one block and its LF begin the next. The offset behind an unfinished last line has room because
  there is no line feed at the last byte then (`OpenLineFits`).

* `RetainedMemoryProofs`. `LengthsFit`: no buffer is sliced beyond its capacity. `MemoryIsBounded`:
  the retained memory stays within `Stats.MaxRetainedBytes`. Both rest on `OpenChecksEnough`, that
  what passes the checks of `Open` leaves no sum or product of the capacities outside the platform's
  `int`. The inductive invariant `Kept` bounds each buffer by itself, at each step of the call that
  grows it: the bound on the sum is not inductive, since a buffer grows from its own capacity.

* `ParserProofs`. `TiersParseAlike`: no short cut shows. The one of the two strict formats takes only
  what the scalar parser makes of the same input, or refuses with its error (`StrictFastAgrees`), and
  `isValidFast` accepts nothing that `Validate` refuses (`FastProxyIsValid`, `HostPortIsValid`), so that
  asking it first changes no answer. Behind these are the tests on words: a pair of neighbours lies
  in one word (`NeighboursShareWord`), the words that `scanCredentials` loads cover the credentials
  (`ScanCovers`), and four octets found from both ends of an address are its only ones
  (`FastAddressIsHost`). `isValidFast` reads the host where it was cut from the input, with the
  input's index, so the invariant of the plan's loop (`Cursors`) says that every offset it keeps
  lies in the input, and that a host with an offset is what lies there. Nothing else in the loop
  depends on the tier, and it starts from a reset proxy (`DestinationIsReset`).
  `AcceptedComeBack`: every proxy accepted is valid, by whichever of the three parsers
  (`AcceptedIsValid`); a valid host is a name or an address, in brackets or not, a colon and a port
  (`ValidHostParts`); cut down to its first part it is not split again (`HostsAreNotSplit`), with a
  default port it is valid (`WithPortIsValid`), and a `:` at its end is the one to trim
  (`ColonIsTrimmed`). Both hold for every format, of whatever length and however odd. Recursive functions
  (`Number`, `Bytes`, the loops of `New` and `parseInto`) are shown to have their values by the
  least argument at which they would not.

* `ParserPlanProofs`. `LenientReadsAlike`: what a strict parser accepts its lenient one reads as the
  same proxy. A strict run that ends without an error has given each operation its turn, each round on the offset the
  last one ended at; the lenient run is shown to take the same turns (`LenientReads`), since
  a delimiter that is where it is expected is the first one a search finds, and the two formats that
  have a strict parser of their own cut what that turn-by-turn run cuts. It holds for every
  format with an `%h` (`HasHost`): a plan with the host and the port in one `%d` has a strict parser
  that accepts and a lenient one that answers `ErrHostNotParsed`, as the code has it.
  `StrictReadsExactly`: what a strict parser accepts is its format written out. The input is cut into
  one piece per operation, between the offsets its rounds ended at (`Stop`, `PiecesLie`), the last
  piece ends with the input (`StopsAtEnd`), and each piece matches, up to the case of a scheme, what
  is written for its operation (`TextIsKept`, `HostPortIsExact`, `PiecesMatch`); the host and the port
  are joined by the one `:` at which they are split again, as a host with a `:` in it is bracketed.
  It holds for every format with a host and a port behind it and no verb twice (`IsComplete`), as of
  two `%u` only the second is in the proxy, and of a `%d` in front of the `%h` nothing is. Both need,
  besides `ParserInv`, that the line stays as it is between two calls (`LineInv`), so that the results
  kept of each are what the parsers make of the same line.
  `WrittenComesBack`: a proxy written out in one of the two formats with a strict parser of their own
  is read back by it, whole, be it one of `Proxies` that the format has fields for or what the lenient
  parser of the format made of a damaged line. The text is the fields and their delimiters joined
  (`FlatFive`, `FlatNine`), and each cut ends where its field ended when it was written
  (`HostPortComesBack`, `CredentialsComeBack`): a scheme has no `:`, and a valid host with a `:` in it
  is bracketed. That a username has no `:` and a password no `@` is nothing that `Validate` checks:
  of `Proxies` it is assumed (`ProxiesAssumption`), and of what the lenient parser returns it is
  proved (`LenientApart`), as each round ends a field at its first delimiter (`StepApart`); so it is
  part of the inductive invariant (`SaidInv`, `Apart`).

`Coprime` and `ProductModulo` stand in the modules for what `greatestCommonDivisor(...) == 1` and
`multiplyModulo` return; `ArithmeticIsExact` is what justifies it. Each loop is a recursive function
of its variables. No induction is needed to know it: what it should return satisfies the equation of
the loop (`RoundKeepsDue`, `EuclidRound`), so there is a function that does, and the least number of
rounds at which another one would differ is a contradiction.

Only model-checked:

* the words of bytes (`WordTestsExact`), whose definitions fold over bits;
* that what is written is read back (`WrittenIsRead`) in the formats without a strict parser of their
  own. It is not true of each of them: in `%t://%h.%d` a host name with a dot in it is cut at that
  dot, in the code as in the model. It depends on which delimiters can occur in the field in front
  of them, so the run checks it for formats where they can be told apart;
* the liveness properties, as liveness under fairness is out of the provers' reach.

## Plan

Left, in this order:

1. The life of the handles that `Open` and `OpenAhead` open, and close again when a later step fails.
