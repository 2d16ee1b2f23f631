------------------------------- MODULE Arena -------------------------------
(***************************************************************************)
(* util/arena.h and util/arena.cpp: the bump allocator under a memtable.   *)
(*                                                                         *)
(* An address is a block and an offset in it; operator new[] returns       *)
(* blocks whose base is a multiple of Align, so that the alignment of an   *)
(* address is that of its offset.  allocs is a history variable: what the  *)
(* callers were given.  Nothing is given back before ~Arena.               *)
(***************************************************************************)
EXTENDS Integers, Sequences, Functions

CONSTANTS
  BlockSize,     \* kBlockSize
  Align,         \* align, in AllocateAligned
  PointerSize,   \* sizeof(char*)
  Sizes,         \* the requests, in bytes
  MaxBlocks,     \* bound: blocks the model allocates
  MaxAllocs      \* bound: requests the model serves

ASSUME ConstantsAssumption ==
  /\ BlockSize \in Nat \ {0} /\ Align \in Nat \ {0} /\ PointerSize \in Nat
  /\ Sizes \subseteq Nat \ {0}     \* assert(bytes > 0)
  /\ MaxBlocks \in Nat /\ MaxAllocs \in Nat

VARIABLES
  blocks,        \* blocks_: the sizes of the blocks
  current,       \* the block alloc_ptr_ points into, 0 for NULL
  offset,        \* where alloc_ptr_ points in it
  remaining,     \* alloc_bytes_remaining_
  memoryUsage,   \* memory_usage_
  allocs         \* allocs[n]: what the n-th request returned

vars == <<blocks, current, offset, remaining, memoryUsage, allocs>>

Init == /\ blocks = << >> /\ memoryUsage = 0
        /\ current = 0 /\ offset = 0 /\ remaining = 0
        /\ allocs = << >>

-----------------------------------------------------------------------------
Give(block, from, bytes, aligned) ==
  allocs' = Append(allocs, [block |-> block, from |-> from,
                            size |-> bytes, aligned |-> aligned])

\* Defect: forgets the slot of the block in blocks_.
AllocateNewBlockUncounted(size) ==
  /\ Len(blocks) < MaxBlocks
  /\ blocks' = Append(blocks, size)
  /\ memoryUsage' = memoryUsage + size

AllocateNewBlock(size) ==
  /\ Len(blocks) < MaxBlocks
  /\ blocks' = Append(blocks, size)
  /\ memoryUsage' = memoryUsage + size + PointerSize

\* Defect: the bytes are taken off alloc_bytes_remaining_, the slop is not.
BumpUnderrun(bytes, slop, aligned) ==
  /\ Give(current, offset + slop, bytes, aligned)
  /\ offset' = offset + slop + bytes
  /\ remaining' = remaining - bytes
  /\ UNCHANGED <<blocks, current, memoryUsage>>

\* The first bytes of alloc_ptr_ + slop go to the caller.
Bump(bytes, slop, aligned) ==
  /\ Give(current, offset + slop, bytes, aligned)
  /\ offset' = offset + slop + bytes
  /\ remaining' = remaining - (slop + bytes)
  /\ UNCHANGED <<blocks, current, memoryUsage>>

\* Defect: the limit is half a block.
BigRequestHalf(bytes) == bytes > BlockSize \div 2

BigRequest(bytes) == bytes > BlockSize \div 4

\* A big request gets a block of its own and leaves alloc_ptr_ where it is; a
\* small one wastes the rest of the current block.
AllocateFallback(bytes, aligned) ==
  /\ Give(Len(blocks) + 1, 0, bytes, aligned)
  /\ IF BigRequest(bytes)
       THEN /\ AllocateNewBlock(bytes)
            /\ UNCHANGED <<current, offset, remaining>>
       ELSE /\ AllocateNewBlock(BlockSize)
            /\ current' = Len(blocks) + 1
            /\ offset' = bytes
            /\ remaining' = BlockSize - bytes

Allocate(bytes) ==
  /\ Len(allocs) < MaxAllocs
  /\ IF bytes <= remaining THEN Bump(bytes, 0, FALSE)
                           ELSE AllocateFallback(bytes, FALSE)

\* Defect: the slop is the distance to the boundary before alloc_ptr_.
SlopBefore == offset % Align

Slop == IF offset % Align = 0 THEN 0 ELSE Align - (offset % Align)

\* Defect: the slop is not part of what has to fit.
AllocateAlignedTight(bytes) ==
  /\ Len(allocs) < MaxAllocs
  /\ IF bytes <= remaining THEN Bump(bytes, Slop, TRUE)
                           ELSE AllocateFallback(bytes, TRUE)

AllocateAligned(bytes) ==
  /\ Len(allocs) < MaxAllocs
  /\ IF bytes + Slop <= remaining THEN Bump(bytes, Slop, TRUE)
                                  ELSE AllocateFallback(bytes, TRUE)

Next == \E bytes \in Sizes : Allocate(bytes) \/ AllocateAligned(bytes)

Spec == Init /\ [][Next]_vars

-----------------------------------------------------------------------------
End(n) == allocs[n].from + allocs[n].size

Allocation == [block : Nat \ {0}, from : Nat, size : Nat \ {0}, aligned : BOOLEAN]

\* Types.
TypeOK ==
  /\ blocks \in Seq(Nat \ {0})
  /\ current \in 0..Len(blocks) /\ offset \in Nat /\ remaining \in Nat
  /\ memoryUsage \in Nat
  /\ allocs \in Seq(Allocation)

\* What the callers hold never overlaps and lies inside the blocks, whatever
\* mixture of plain, aligned and big requests came before.
Separate ==
  \A n \in 1..Len(allocs) :
    /\ allocs[n].block \in 1..Len(blocks)
    /\ End(n) <= blocks[allocs[n].block]
    /\ \A m \in 1..Len(allocs) :
          m < n /\ allocs[m].block = allocs[n].block =>
             End(m) <= allocs[n].from \/ End(n) <= allocs[m].from

\* AllocateAligned returns aligned memory on its fast path and on the other
\* (the assertion at its end).
AlignedResults ==
  \A n \in 1..Len(allocs) : allocs[n].aligned => allocs[n].from % Align = 0

\* "To avoid wasting too much space in leftover bytes": a block that was given
\* up has less than a quarter and the slop of one request left at its end.
WasteBounded ==
  \A b \in 1..Len(blocks) : b # current =>
    \E n \in 1..Len(allocs) : /\ allocs[n].block = b
                              /\ blocks[b] - End(n) < BlockSize \div 4 + Align - 1
                                 \/ blocks[b] = End(n)

\* MemoryUsage() counts every block and its slot in blocks_, and so is no less
\* than what the callers hold.
UsageExact ==
  memoryUsage = SumFunction(blocks) + PointerSize * Len(blocks)

-----------------------------------------------------------------------------
(* The inductive invariant.                                                *)

CurrentOK ==
  IF current = 0
    THEN offset = 0 /\ remaining = 0
    ELSE /\ blocks[current] = BlockSize /\ offset + remaining = BlockSize
         /\ \E n \in 1..Len(allocs) : allocs[n].block = current /\ End(n) = offset
         /\ \A n \in 1..Len(allocs) : allocs[n].block = current => End(n) <= offset

Inv == TypeOK /\ CurrentOK /\ Separate /\ AlignedResults /\ WasteBounded
=============================================================================
