# mylldb in TLA+

`mylldb` is a LevelDB in the making: a memtable over a skip list and an arena,
sorted blocks and tables in files, and the helpers under them. There is no
database yet that ties the parts together, and no code creates a thread. This
directory holds TLA+ models of the parts, the TLC configurations that check them
on small instances, and theorems that the TLA+ proof system checks for every
instance.

## The system

| component | state | operations | what makes it hard |
|---|---|---|---|
| skip list (`db/skiplist.h`) | nodes and their `next_` slots, `max_height_`, iterators | `Insert`, `Contains`, `Next`, `Prev`, `Seek`, `SeekToFirst`, `SeekToLast` | the list is changed slot by slot while a search is under way; equal keys; slots that were never stored |
| arena (`util/arena.*`) | `blocks_`, `alloc_ptr_`, `alloc_bytes_remaining_`, `memory_usage_` | `Allocate`, `AllocateAligned`, `MemoryUsage` | boundaries: what just fits, with slop, big requests between small ones |
| memtable (`db/memtable.*`, `db/dbformat.*`) | the entries, iterators | `Add`, `Get`, `NewIterator` and its iterator | many versions of a key, deletions, snapshots, scans during Adds |
| block builder and block (`table/block_builder.*`, `table/block.*`) | the buffer, restart points, the position of the iterator twice over | `Add`, `Finish`, `Reset`; the iterator's operations | prefix compression against a restart interval that changes; damaged blocks |
| table builder (`table/table_builder.*`) | the block being filled, the index, the filter, offset, status | `Add`, `Flush`, `ChangeOptions`, `Finish`, `Abandon` | index entries written one step late; writes that fail half way |
| format (`table/format.*`) | none | handles and footer, `ReadBlock` | damaged or unfinished files; what becomes of the read buffer |
| table reader (`table/table.*`) | `Rep`: options, index block, filter and its data | `Open`, `ReadMeta`, `ReadFilter`, the destructor | early returns with buffers in hand; errors that `Open` does not report |
| iterators (`table/iterator.cpp`) | the list of cleanup functions | `RegisterCleanup`, the destructor | every function runs once; no link is read after its node is freed |
| coding (`util/coding.*`) | none | varints, length-prefixed slices, fixed words | lengths at the boundaries, input that ends too early |
| checksums (`util/crc32c.*`) | five tables | `Extend`, `Value`, `Mask`, `Unmask` | alignment, strides and remainders that must come to one value |
| comparators (`util/comparator.cpp`, `db/dbformat.cpp`) | the one `BytewiseComparator()` | `Compare`, `FindShortestSeparator`, `FindShortSuccessor` | shortening a key and staying between its neighbours |
| random, status, port | small or none | | |
| cache, env, filter policy, db | interfaces only, no implementation in the repository | | |

The parts call each other downwards: a memtable puts encoded entries into a skip
list whose nodes and entries come from one arena; a table builder fills a block
builder, writes its result to a `WritableFile`, and keeps a second block builder
for the index; a table reads blocks back through `ReadBlock` and iterates over
them. Shared state exists in two places: the list, between `Insert` and the
readers, and `Options`, which the table builder's block builders read through a
pointer while the caller may change them.

What is correct for each part: the list behaves as an ordered multiset that
every call reads or changes at one instant; allocations are disjoint and
aligned; a `Get` sees the newest version at its snapshot; a block yields the
entries that were added or reports damage; the index of a table leads to every
entry and nothing is written after an error; what is encoded decodes to itself,
and what is not whole or not as it was written is refused; every buffer of a
table has one owner; a shortened key separates its two blocks.

## Modules

| module | models | abstract specification | proofs |
|---|---|---|---|
| `SkipList` | `db/skiplist.h`, one load or store of a pointer per action | `ConcurrentBag`, over `OrderedBag` | `SkipListProofs` |
| `Arena` | `util/arena.*` | | `ArenaProofs` |
| `MemTable` | `db/memtable.cpp`, tags and order of `db/dbformat.*`; its table is `OrderedBag` | `VersionedMap` | `MemTableProofs` |
| `Block` (`MCBlock`) | `table/block_builder.cpp`, `table/block.cpp` | `SortedCursor` | `BlockProofs` |
| `TableBuilder` (`MCTableBuilder`) | `table/table_builder.cpp`, and what a reader makes of its file | | `TableBuilderProofs` |
| `Table` | `table/table.cpp`, the buffer of `ReadBlock` | | `TableProofs` |
| `Iterator` | `table/iterator.cpp` | | `IteratorProofs` |
| `Coding` | `util/coding.*`, the entry layout of `MemTable::Add` | | `UtilProofs` |
| `Checksum`, `Crc32c` | `util/crc32c.cpp`: its definition, and `Extend` | `Checksum` is that of `Crc32c` | `UtilProofs` |
| `Masking` | `Mask` and `Unmask` of `util/crc32c.h` | | `UtilProofs` |
| `Format` (`MCCoding`) | `table/format.cpp`, `WriteRawBlock`, in bytes; extends the three above | | `UtilProofs` |
| `Comparator` | `util/comparator.cpp`, `InternalKeyComparator` | | `UtilProofs` |

The stack composes by refinement: `SkipList` implements `ConcurrentBag`, in
which each call takes effect as one operation of `OrderedBag`; `MemTable` uses
`OrderedBag` as its table and implements `VersionedMap`. `Format` composes
`Coding`, `Crc32c` and `Masking` into what stands in a file. The file of a table is
seen at three levels, each with what the others leave out: its bytes (`Format`), its
blocks and the index over them (`TableBuilder`), the memory it is read into (`Table`).

### SkipList

Nodes are numbered in the order of their allocation, `head_` is 0. Every
iteration of a search loop (`FindGreaterOrEqual`, `FindLessThan`, `FindLast`) is
one action, `MoveRight` or `MoveDown`, and the return another. `Insert` is its
search, `InsertGrow` (height, `max_height_`, the new node) and, per level,
`InsertSet` and `InsertLink`. Heights are whatever `RandomHeight` may return. A
`next_` slot that was never stored holds `Wild`.

Calls of one writer and any number of readers overlap. Nothing in the
repository does this yet; but `max_height_` is a `port::AtomicPointer`, nothing
locks, and this is what a list of this design is for. A program that makes one
call at a time is the special case without overlap, so everything shown here
holds of it. Two assumptions go with it: loads and stores of a pointer are
indivisible, and they happen in program order. The code has no barrier
that forces the order on a weaker machine, and `NewNode` uses the unaligned
`Allocate`, so neither is guaranteed everywhere; both are outside the model.

`LevelsOrdered` says that each level is the complete, ordered list of its members
at every instant, `LevelsNested` that levels are nested and `max_height_` covers
them, `NoWildLoad` that no search can load a slot that was never stored.
`ImplementsConcurrentBag` maps a call to pending until its effect: the store that
links level 0 for `Insert`, the last load for a reader.

### Arena

An address is a block and an offset; `operator new[]` is assumed to return
blocks whose base is aligned, as "AllocateFallback always returned aligned
memory" (`arena.cpp:49`) does. `allocs` is the history of what callers hold.
`WasteBounded` is the promise of the comment at `arena.cpp:21`.

### MemTable

`Rank` numbers internal keys in the order of `InternalKeyComparator::Compare`
(theorem `RankIsCompare`). A `Get` is two steps, the `Seek` of its local iterator and the
reading of the entry; Adds come in between. The tag has one bit of type instead
of eight. Sequence numbers are arbitrary: nothing in `MemTable` makes them grow.
`ImplementsVersionedMap` fixes the question and the answer of a `Get` at its
`Seek`; `SnapshotStable` says that an Add above `s` changes no answer at `s`;
`ScanComplete` that a forward scan misses nothing that was there at its
beginning. `SnapshotStable` compares answers given at one instant, so what comes between the
two steps of a `Get` is the matter of `ImplementsVersionedMap` alone.

### Block

Entries are at least three bytes long, so an offset is written as the number of
entries before it. `Add` compresses against the last key by `counter_` and an
interval that `ChangeOptions` may change at any time. Each turn of a loop of `Seek`, `Prev` and `SeekToLast`
is an action. `Damage` makes `DecodeEntry` fail at an entry, between `Finish` and
`NewIterator`. `ImplementsCursor` compares with a cursor over a sorted set: with
damage a call may lose its place, but then shows nothing and its status is
`Corruption`.

`Next` does not ask for `Valid()` (`block.cpp:115`), and neither does `IterNext`. After `Prev`
has gone off the front, `value_` still leads into the block, and a `Next` there
revives the iterator with `restart_index_ = num_restarts_` (`Revived`), at which a
further `Prev` fails the assertion at `block.cpp:86` (`PrevAborts`). The `value_` of a
new iterator, and that left by `CorruptionError`, is an empty `Slice` outside the block, whose
distance to `data_` may be any number (`AfterNext`); one that falls within an entry
is taken to be found bad. The history variable `strayed` remembers a `Next` while not
`Valid()` until `Seek`, `SeekToFirst` or `SeekToLast` is called, and the properties
state the restriction by it: `PositionsAgree`, that without it the index and the
offset the iterator keeps of itself agree, and that `Prev` fails its assertion exactly with it;
`ImplementsCursor`, that only then a step may show an entry other than the
next (`Stray`); `CallsReturn`, that without it every call returns. The build modelled
has assertions. In one without (`NDEBUG`, the Release configuration of
`mylldb.vcxproj`) that `Prev` reads the number of restarts as a restart
point, which is not modelled.

### TableBuilder

A file is a sequence of cells: an entry, a restart array, a filter, a trailer.
`AfterWrite` and `Written` are `WriteRawBlock` as builder and file see it; an
`Append` may fail after any prefix has reached the file, and `file->Flush()` may
fail on its own. `Finish` is one action per block it writes. `EntriesReachable` looks an added key up as a reader
would: by the index, in the file once it is there and in the builder before, then
in the block read with `ReadBlock`.

The file does not compile as it stands. `Finish` calls `FindShortestSeparator` with one
argument (line 230), where the model takes any key that is not before the last
one, as `FindShortSuccessor` promises; it lacks its `return`; and
`FilterBlockBuilder`, `GetVarint64` and `BlockHandle()` are declared without a
definition. `FilterBlockBuilder` is modelled from the calls the builder makes.

### Table

What a read of the file yields is one of `Outcomes`, anew at every `ReadBlock`: an
error, too few bytes, altered bytes, any type byte, in the buffer of the caller or in
memory of the file. Buffers are numbered as `ReadBlock` makes them; `heap` holds those
that have not been deleted. `Open` is a step to its footer, one to its index block, and
those of `ReadMeta` and `ReadFilter`, which end early without a word: `Open` then
returns OK with a table that has no filter. `intact` follows contents that are what was
once written; it is data, the code cannot see it without checksums.

`BuffersOwned` names the owner of every buffer: the index block, `filter_data`, or the
metaindex block, no two of them the same one. One kind is left over, `compressed`: for
`kSnappyCompression` `ReadBlock` neither deletes its buffer nor hands it out
(`format.cpp:112`), and it is never freed. `DataAlive` says that the filter survives the metaindex
block it was found through. `ParanoidTrust` says that `paranoid_checks` keeps altered
bytes out of index and filter; it does not say that `Open` reports them: the comment
at `options.h:76`, "will stop early if it detects any errors", is not what happens
behind the index block.

### Iterator

The list of `Iterator::cleanup_`, one step of the destructor's loop per action, so that
the call, the reading of `next` and the `delete` are apart. The functions run in the order of `InOrder`: the
first one first, then from the last back to the second.

### Coding, Checksums and Format

`Coding` puts words and slices into a buffer and reads them from a copy that may be cut.
`Format` puts blocks and footers into the same buffer: `WriteRawBlock` with its trailer,
`Footer::EncodeTo`; and reads them with `ReadBlock` and the front of `Table::Open`. The
copy may also have one bit altered. Widths are parameters: the group of a varint (`B` is what a byte
of it can hold), its longest length, the size of a word (`WordSize`, past which a shift loses bits),
the byte, the rotation of a masked checksum. A shift by groups is `Power`, a recursive function.
`CodingInv` says where every item of the buffer lies and which of them the input begins with;
`FormatInv` adds what is true of a file with an altered bit.

`Crc32c` has the shape of `Extend`: bytes up to an aligned address, four strides that take turns
word by word, their combination, and the bytes that remain. A word is the set of
the positions of its one bits, so exclusive or is the symmetric difference. The five tables of
the code are given by what they hold, the register after 8 and after 16 * 8 zero bits; `Checksum` is
the definition, a bit at a time. `MCCoding` evaluates it with the widths and the polynomial of the
code on the string of `crc32c.cpp:269` and compares it with the value expected there.
`Extend` is modelled from line 282 on: the lines before it decide, by a call of an
overload that is not declared, whether to hand the work to another one.

`ChecksumExact` compares the trailer that is written with the definition, for data at
every alignment; `AlterationCaught` says that a file with an altered bit is not read to its end, and that in a
file that is not altered only a block that was cut off is refused, wherever it lies when it is read; it does
not say which block of an altered file is refused. `FooterFound`: the footer is found
from the end of a whole file, and nothing else is taken for one.

### Comparator

Functions; the machine around them shortens a key repeatedly against a limit. The greatest byte
and the length of a tag are parameters.

## Runs

| run | question | bounds, and why they are enough |
|---|---|---|
| `skiplist` | safety, refinement and return of every call under overlap | 3 nodes, 2 keys, 3 levels, one reader: equal keys, two growths of `max_height_`, a search overtaken on each level |
| `arena` | disjoint, aligned, bounded waste, exact usage | 16-byte blocks, 6 requests of 5 sizes: shared, own and oversized blocks, every slop |
| `memtable` | `Get` against the versioned map, scans during Adds | 3 entries, 2 keys, 2 sequence numbers, a value and deletions: two versions to choose between, and a third entry that comes during the call |
| `block` | reading back in every order of calls, agreement of the two positions, damage, termination | 4 entries of 4 keys whose byte order is not that of the comparator, intervals 1 and 3, any damage |
| `table_builder` | index, filter, offset and errors | 4 entries of 5 keys in blocks of 1 or 2, every failure of every write: blocks that are full, cut by `Flush`, and left to `Finish`, and index entries with a key to choose |
| `table` | who owns a buffer, and what may be used | 7 reads: two tables in full with a failed `Open` between them |
| `iterator` | every cleanup runs once, nothing is left | 5 registrations: no node, one, several |
| `coding` | decode is the inverse of encode; damage is caught | two items: all 128 words, 4 slices, blocks of 2, 16, 22 and 38 bytes (none, one, and two turns of the strides, with remainders) at 4 alignments, 2 handles, cut anywhere or any bit altered |
| `comparator` | a shortened key separates | all keys of up to 3 bytes of 3 values, with and without tags |
| `table_footer`, `table_snappy`, `comparator_internal` | see findings | |

Bounds in guards: `MaxNodes`, `MaxBlocks`, `MaxAllocs`, `MaxEntries`, `MaxPuts`, `MaxReads`, `MaxCleanups`,
and `MaxLength` of keys. `CHECK_DEADLOCK FALSE` stands where the system really
stops: at the bound of the arena and the memtable, at a closed table, at an iterator that is gone, at the end
of an input, at a key that cannot be shortened.

Fairness: `FairSpec` of `SkipList` and of `Block` makes the steps of a call in progress
weakly fair, per caller: a thread inside a function that never blocks keeps
running, and a call that fails an assertion has no further step. Nobody has to make a call. Under it `CallsReturn` holds: an Insert
cannot hold a search up for ever, because the list is finite and every turn
moves right or down.

### Findings

* `table_footer`: `Finish` writes no footer, so a table it finished without an error
  cannot be opened.
* `table_snappy`: with the default `kSnappyCompression` the builder stores raw
  contents under the compressed type, and `ReadBlock` returns empty contents with
  status OK.
* `comparator_internal`: `InternalKeyComparator::FindShortSuccessor` shortens the
  whole internal key, so that its tag is lost.

## Proofs

For every value of the constants that satisfies the named assumptions, TLAPS
checks:

* `SkipListProofs`: `Invariance` proves `Inv` inductive. `LevelsOrdered` alone is
  not: that a link keeps a level complete needs `PrevOK`, that `prev[l]` still is
  the place of the new key in level `l`; that follows from how the search of
  `Insert` stands (`SearchOK`), which in turn needs that a node in a level is in
  all lower ones, and that slots are stored bottom up (`MemoryOK`). `TypeCorrect`, `Ordered`, `Nested` and
  `LoadsDefined` follow. `Refinement`, from `Inv`: `InsertLink` at
  level 0 is the abstract insert, the return of a search its read, every other step a
  stutter or the making of a call.
* `ArenaProofs`: from `CurrentOK`, which says where `alloc_ptr_` stands
  relative to what was given out: `AllocationsSeparate`, `AllocationsAligned`,
  `LeftoverBounded`, `TypeCorrect`. `UsageCounted` needs what `SumFunction` adds up: that the
  recursion behind it defines a function on the subsets of a finite domain, that the sum is the same whichever
  element is taken first, and so that an appended element adds itself.
* `MemTableProofs`: `RankIsCompare`, `TypeCorrect`, and `Refinement` to
  `VersionedMap`: the first entry at or behind the lookup key is the newest
  visible version. `ScansCover`: what a scan has not seen lies ahead of its iterator, which an Add keeps,
  as it moves no entry, and a Next keeps, as it stops at the first entry behind.
  `SnapshotsStable`: a search has one stop; an entry with a newer number than the
  snapshot either lies before the lookup key, where the search does not come, or has a
  greater user key, which answers as an absent one does.
* `TableBuilderProofs`: the invariant ties `pending_index_entry` to an empty data
  block and a set handle, a last key to the block or the index entry that will need it, and the offset
  to the length of the file while the status is OK. `TypeCorrect`, `Asserted`, `FileSizeExact`, `ErrorsStay`.
  Without compression (`Uncompressed`), `EveryEntryReachable` and `FilterKnowsKeys`. Behind them is `Stored`: a
  block that was written whole stands in the file where its handle says, what is
  written behind it leaves it there, and reading it gives back its entries. `Good` says that
  the first index entry not before a key leads to the block of that key, which needs
  the index entries to lie before everything that is still to come (`IndexOK`), the reason why
  a separator has to be smaller than the next key. `FilterReach` says that each block
  of the index is known to the filter under its offset, and `LastGood` that the last
  filter block is that of the data block being filled; it is lost in `Finish`, which needs it no more.
* `TableProofs`: `BuffersOwned` needs to know that a block with data of its own owns it
  (`BlockOK`) and that a table in the making has no filter before `ReadFilter` (`TableOK`), or an
  older one would be lost there. `Owned`, `Alive`, `Trusted`, `TypeCorrect`.
* `IteratorProofs`: the invariant gives the list in closed form, node `n` leading
  to node `n - 1`, and what has run as a function of where `c` stands. `TypeCorrect`,
  `CleanupsInOrder`, `CleanupsComplete`.
* `BlockProofs`: `Invariance`. `TypeOK` is not inductive: that a scan or a binary search stays
  in the block needs the restart points to ascend and the entries at them to share nothing
  (`RestartsOK`), and each entry to complete a prefix of the key before it
  (`EntriesOK`), or `key_` would not be the key of the entry it is said to be. `IterOK` says where
  the iterator stands in each call: off the block, on an entry whose restart point is
  the one at or before it, at a restart point before the first `ParseNextKey`, or, if it has
  strayed, on an entry behind the last restart point (`Revived`). As a stray `Next` goes on from what the
  iterator showed last, the invariant also keeps `key_` the key of the entry at which `value_` ends when nothing is shown. While `Seek`
  goes on, what lies left of `left`, or has been scanned, is before the target; while `Prev` goes on,
  the restart point after the current one is not before `original`. `TypeCorrect`, `PositionsKept`.
  `Refinement` maps what the iterator shows to the key with the bytes in `key_`, which is unique as no two keys have
  the same bytes, and a call in progress to the cursor's operation; the call takes effect in its last step.
  A `Next` while nothing is shown is `Stray`, and a `Prev` that aborts stays pending.
* `UtilProofs`: `SeparatorOK` puts a separator in `[start, limit)`, from `BeforeIs`: any prefix that decides
  is as good as the longest. With `Irreflexive` and `Transitive` for the order, every further separator stays between
  the first key and the limit: `StaysBeforeLimit` and `NeverBeforeFirst`, for both comparators. The second has the hypothesis that
  `FindShortSuccessor` is not called on internal keys; without it the property is false (finding `comparator_internal`).
  `MaskInverts`, from the uniqueness of division with remainder.
  For `Coding`, `CodingInvariance` proves `CodingInv` inductive, and `CodingReadsBack`, `CodingFailsOnlyCut` and
  `CodingRoomExact` follow, for every sequence of words and slices. `ReadsBack` alone is not inductive: the next item is
  read as it was put only if the input begins with it, so the invariant has a layout, in which the n-th item takes the
  bytes from `at[n - 1]` to `at[n]` and what is left to read begins at `at[Len(got)]`. The algorithms meet in one closed
  form, the groups of a number with the flag in all but the last: the branches of `EncodeVarint32`, the loop of
  `EncodeVarint64` and the count of `VarintLength` agree with it (`BranchesOK`, `LoopOK`, `LengthOK`), and `ResultOK` puts the groups together
  again, where a word needs the last shift not to lose a bit (`WordSize <= Power[MaxGroups]`).

  For `Crc32c`, `ValueIsChecksum`: `Value` computes `Checksum` for all data at every address, and
  `ExtendConcatenates`: `Extend` takes the checksum of one string and a second string to that of both
  together, as `crc32c.h:14` promises. The argument is that shifting the register is linear in exclusive or
  (`ShiftRightLinear`, `ZerosLinear`), so that the register after bytes is the register before, with zeros behind it,
  and the bytes, each moved by the zeros that follow it (`AfterByteOK`). An entry of a table is the image of a
  byte (`ByteTable`, `StrideTable`), `STEP1` a byte, `STEP4` a word 16 bytes later (`Step4OK`) and `STEP4W` a word of
  zeros (`Step4WOK`); four strides put together are the register (`CombinedOK`, `FourOK`), wherever the cut
  at an aligned address falls (`ExtendOK`). `ChecksumTells`: data that differ in one byte have different checksums,
  because zeros never make two registers one (`ZerosInjective`), for which the polynomial needs its highest coefficient.

  For `Format`, `FormatInvariance` proves `FormatInv`. As long as no bit is altered it is `CodingInv`, with blocks and
  footers among the items; an altered file has lost `InputOK`, and what stays true of it is that one
  octet, not yet read, differs from what was written (`AlteredInv`). `ReadBlock` then keeps the invariant because the block
  in which that octet lies is refused (`ReadAlteredStep`): in contents or type it shows in the checksum (`ChecksumTells`),
  in the checksum itself in the number that is decoded (`DecodeTells`, `UnmaskInjective`), and `NumberInjective` keeps two checksums apart
  as numbers. Blocks that are whole are accepted wherever they lie (`Accepts`). `FormatChecksumExact`,
  `FormatAlterationCaught`, `FormatFailsOnlyCut` and `FormatRoomExact` follow, for both compression types.
  What comes out of `ReadBlock` for a block of `kSnappyCompression` has no contents (`ReadAs`, finding `table_snappy`), and
  the invariant says so (`ReadsAs`); `FormatReadsBack` therefore has the hypothesis that every block is written with
  `kNoCompression`, and without it is false. `FormatFooterWhole`: from the end of a whole file `Table::Open` reads
  the two handles that were written, for all handles of 64 bits (`FooterDecoded`), and nothing is put after that
  (`FooterInv`).

Where an argument is by induction, over the subsets of a set, the bytes of a key or the steps of a
search, it takes the least counterexample: `LeastOfNaturals`, from the well-foundedness of `<`, speaks of a
set of numbers, where the induction rules of the library speak of a predicate, which the provers cannot instantiate.

The assumptions on constants are of three kinds: that numbers are numbers, positive where the code
asserts or divides; that model values such as `NULL`, `Deleted` or `Mapped` differ from each other
and from the values they stand beside; and that keys which are numbered in the order of their comparator
(`Block`) have different bytes. For a file in bytes (`FormatAssumption`): an octet has one bit more than a group of a varint, both halves of
a masked checksum are a word, and `Types` are the two values of
`CompressionType`; contents are raw under both, as `TableBuilder` writes them.

Only model-checked:

* `CallsReturn` of the skip list and of the block: liveness under fairness, which needs `ENABLED`.
* The second half of `FooterFound`, that no file is taken for a whole one: not a theorem for every value of the
  constants. What a file that was cut ends with could be the magic number if that number is unlucky; that it
  is not is a matter of the number the code has chosen.

## Not modelled

* The interfaces without an implementation (`Cache`, `Env`, `DB`, `FilterPolicy`), the
  tests and `main.cpp` (they only print), `EmptyIterator`, which has no state of its own.
* A failing `operator new`, and the memory model of the processor.
* `Random`: `RandomHeight` may return any height, so no property rests on it.
* `InitOnce`, which on Windows runs its initializer at every call (`port_win.cpp:14`), and
  the rest of the portability layer, calls of the operating system.
* The message of a `Status`; a member of a small set stands for it.
* A handle that is itself damaged, the "bad block handle" of `BlockHandle::DecodeFrom` (`format.cpp:25`): the
  magic number is compared first, and a footer that ends with it is one that was written.
* A damaged restart array, the widths of the sum in `DecodeEntry`, and a sequence number
  above `kMaxSequenceNumber`, which `MemTable::Add` packs without the assertion of
  `PackSequenceAndType`.
* `ChangeOptions` with another filter policy, which the code accepts, is left out of the option sets of
  the runs: `options.h` does not call that field dynamic.
* A footer appended to a string that is not empty (`format.cpp:33` would cut it): nothing calls `EncodeTo`.

## What could come next

When the repository defines them: `Table::NewIterator` over `Iterator` and a cache, the
filter blocks, and the database that ties memtable and tables together.
