# lzmalloc in TLA+

TLA+ models of lzmalloc, the TLC runs that check small instances of them, and
TLAPS proofs about the virtual memory manager, the thread-local heaps with their
slabs, the radix tree with the calls around it, and the life of the heaps. Paths are relative to the
repository's `src/` directory.

## The system

| part | source | module | state of the model |
|---|---|---|---|
| Virtual memory manager (VMM) | `engines/vmm.c` | `Vmm`, `ChunkPool` | modelled, proved |
| NUMA pools and topology | `internal/topology.c` | `Vmm` | modelled |
| Thread-local heap (TLH) | `tlh/tlh.c` | `Tlh`, `BlockHeap`, `Span`, `Telemetry` | modelled; `Tlh` proved |
| Slab engine | `engines/slab.c` | `Slabs`, `Tlh`, `Sizes`, `Registry` | modelled, proved but for the sizes |
| Size classes | `internal/sizes.h` | `Sizes` | modelled |
| Span engine | `engines/span.c` | `Span` | modelled, without its telemetry counts |
| Chunk header | `core/chunk.h` | `Vmm`, `Slabs`, `Tlh`, `Registry` | the fields the code acts on |
| Radix tree index | `core/rtree.c`, `core/rtree.h` | `Rtree`, `Registry`, `ChunkIndex` | modelled, proved |
| Pointer obfuscation | `core/security.{h,c}` | `Slabs`, `Tlh` | the encoding; entropy collection is I/O |
| Public API | `hooks/lzmalloc.c` | `Api`, `Hooks`, `Registry` | modelled |
| Thread lifecycle | `hooks/lzmalloc.c` | `Lifecycle` | modelled, proved but for the counters |
| POSIX hooks, bootstrap heap | `hooks/posix_hooks.c` | `Hooks` | modelled |
| Telemetry | `internal/telemetry.c` | `Telemetry`, `Lifecycle` | the counter that is written; the shared file is I/O |

A libc entry point goes to a static bootstrap heap until the allocator is
ready, and to `lz_malloc` and its relatives from then on. By size a request is
served by the slab engine (blocks of one size class), the span engine (runs of
pages) or a mapping of its own. Slabs and spans are 2 MB chunks from the VMM;
they, and each 2 MB block of a large object, are registered in the radix tree,
through which `lz_free` finds the owner of a pointer. Heaps are private to
their threads; a block freed by another thread is batched there and pushed, with
compare-and-swap, on the owner's mailbox, which the owner empties with an
exchange. When a thread ends its heap goes on the zombie list, from which a new
thread takes it over; `lzmalloc_gc` reaps the mailboxes of the zombies.

## Modules

**`Sizes`** has the size-class arithmetic and the slab geometry as operators,
shifts and masks written as divisions and remainders; sums wrap at `SIZE_WIDTH`
bits.

**`Api`** is the routing of `hooks/lzmalloc.c` as functions from a request to
the block it gets: where the pointer may lie, the room behind it, what
`lz_malloc_usable_size` reports and how much is known to be zero.

**`Hooks`** has one action per entry point of `hooks/posix_hooks.c`. A request
before the constructor has run is a call of `lz_base_malloc_aligned` in several
steps (load, failed swap, successful swap), so that two threads interleave in
its loop; afterwards it is one step with the block of `Api`. `held` is what the
program owns and what it asked for. `free` and `realloc` take blocks of either
origin. The two heaps share no state, so `lzmalloc.c` is asked for one block at a time.

**`Vmm`** has one action per step of `lz_vmm_alloc_chunk`, `lz_vmm_free_chunk`,
`lz_vmm_purge_all_caches` and `sys_alloc_extent`. Taking a lock is a step; a pop
is two (read the top; unlink it and unlock), so a lock that failed to exclude
would show. Lists run through `next`, as in the chunk headers. `node`, `chunk`,
`chunk_next`, `base` and `i` are the locals of the running call. `place` is
auxiliary: it records where each chunk is and no guard reads it. `getcpu` may
name any node at each call. The neutralisation's writes to owner, canary and
checksum are left out (no VMM code reads them), and so is `madvise`.
`ChunkPool` is what callers rely on: a chunk is given to one caller at a time.

**`Tlh`** models all heaps together. A step is what a thread does between two
accesses to shared mailboxes, and one node of a reap. `slab` joins the chunk
header and `lz_slab_t`; `bump_ptr` is the number of the next block, 0 for NULL.
A link is a pointer with its encoding (clear or obfuscated); reading it in the
other encoding, or after the program wrote over it, gives `WILD`. **`Slabs`**,
which `Tlh` extends, has no variables: the functions on slabs and their lists
(`lz_tlh_rescue_from_full`, `lz_tlh_recycle_empty_slab`, `lz_slab_create`,
`lz_slab_destroy`) are operators on a view of a heap, as the code calls them
inside one operation. The VMM is taken to be `ChunkPool`: any chunk nobody
holds, or NULL. `place` is auxiliary; the one guard that reads it, `Freeable`,
states the program's obligation to free only what it holds. `given`, auxiliary
too, counts how often each block was handed out and not freed; no guard reads it.
`BlockHeap` is the promise of malloc and free. Its state is the blocks that are
out, each with its class and that count, and the count is only ever one: a step
that handed out a block the program still holds would show there as a two.

**`Span`** models one heap's spans; a call is one step, because only the owner
runs the engine. `free_bitmap` is the set of 1 bits, in words of `WordBits` pages
of which the scan skips those without a free page. Other threads' frees put
runs into `mail` (the order of the mailbox is `Tlh`'s subject), and the owner
gives them back one by one.

**`Rtree`** has one action per shared access of `lz_rtree_set`, `lz_rtree_clear`
and `lz_rtree_get`; addresses are numbers of 2 MB blocks. **`Registry`** composes
it with the calls that use it: formatting a chunk, the loop that registers a
large object, the lookup in `lz_free`, the clear, and the return of the
memory, all concurrent. The free of a chunk stands for the free of its last
block. `missed` is auxiliary and records blocks whose registration was dropped
because `mmap` refused a leaf. **`ChunkIndex`** is what users rely on: an array
of cells that change one at a time and never from one chunk to another.

**`Telemetry`** has the counter of allocated bytes, the private batches and the
slots, for slab blocks of one size. **`Lifecycle`** drives it: thread start, resurrection, adoption,
allocation, local and remote free, gc, thread exit, each split at its shared
accesses. Inside, heaps are counts of blocks; `inside` says which thread is
working on a heap's private state. When two threads are inside one heap, the
behaviour of the program is undefined and the model stops there (`Undefined`).
`mmap` failing for a heap traps in the code and has no action.

**`Lists`** says what it is for links to run through exactly the elements of a
set, once each: the links stay inside and reach the end, no two elements have the
same successor, none leads back to the top, and no smaller set is closed under
the links. The last part replaces a walk by recursion, so that it can be reasoned
about without induction. `DoublyListOf` adds the links back. `Numbered(S, n)` says
that `S` has `n` elements, as a bijection with `1..n`.

`MC*` modules give model values, symmetry sets and small functions.

### Memory model

Steps are sequentially consistent. In `Vmm` every shared access is under a
lock taken with acquire and released with release. A mailbox push is a release
compare-and-swap and a reap an acquire exchange, so the links a reap follows
are visible to it. A leaf is published with release and read with acquire; a
cell is read relaxed, but only for a pointer the program got from an allocation
that had registered it. The zombie list is guarded by its lock except for the
walk of `lzmalloc_gc`. A spurious failure of the weak compare-and-swap is left out:
it only writes the tail's link, which nobody else sees before a swap succeeds and
which the next attempt writes again.

## Runs

| run | instance | checks |
|---|---|---|
| `hooks` | 28-bit `size_t`, the code's own limits; `malloc` of every size 0..32768, `memalign` of every size promoted at 32 and 64, everything else at both sides of each limit; 2 threads on a bootstrap heap of 160 bytes | `TypeOK`, `ClassIsSmallestFit`, `BumpCutsMaxObjects`, `HoldsWhatWasAsked`, `AlignedAsAsked`, `BaseBlocksApart`, `ReallocCarriesOver`, `CallocIsZero` |
| `hooks_sizes` | same | `AtLeastSize`: violated |
| `vmm` | 2 threads, 2 nodes, one extent of 3 chunks, cache of 1 | `TypeOK`, `CachesExact`, `NoChunkLost`, `HandedOutStamped`, `ImplementsChunkPool`, `CallsReturn` |
| `vmm_null` | 2 threads, 1 node, 2 extents of 2 chunks | `NullOnlyOnOOM`: violated |
| `tlh` | 2 heaps, 2 chunks of 2 blocks, 2 classes, batch of 1 | `TypeOK`, `BlockListsExact`, `UsedObjectsExact`, `SlabListsExact`, `ImplementsBlockHeap` |
| `tlh_contention` | 3 heaps, 2 chunks of 2 blocks, 1 class, batch of 2 | `BlockListsExact`, `BlocksBacked` |
| `tlh_lists` | 1 heap, 4 chunks of 2 blocks | `SlabListsExact` |
| `tlh_liveness` | 3 heaps, 1 chunk of 2 blocks, batch of 1 | `CallsReturn`, `RemoteFreesReturn` |
| `span` | 3 chunks of 6 pages in words of 2, requests of 0, 1, 2, 3, 5, 6 pages, 3 runs out, 2 of them in the mailbox | `PagesExact`, `FirstFit`, `ActiveSpansExact`, `EmptySpansReturned`, `FailsafeOnlyForNothing` |
| `lifecycle` | 2 threads, 2 heaps, 1 shared slot, 3 adoptions, 2 blocks, batches of 2 | `TypeOK`, `HeapInOnePlace`, `LockExact`, `LeavesNothingBehind`, `SlabBooksBalance` |
| `lifecycle_gc` | same | `GcReapsZombies`: violated |
| `registry` | 2 threads, 2 root cells of 2 blocks, 3 leaf pages, objects of up to 2 blocks | `TypeOK`, `NoLeafLost`, `AllocatedFound`, `NothingStale`, `ImplementsChunkIndex` |

**Bounds.** A `size_t` of 28 bits keeps the code's limits (32 KB, 1 MB, 2 MB)
and TLC's integers. The full sweep of the slab sizes is `malloc`'s. `memalign` takes
`32 * m` and `32 * m + 1` for every `m` up to the slab border: its block depends
only on the size rounded up to the alignment, so these reach every class that
serves an alignment of 32 or 64. The other entry points, `realloc` included, take
the limits of the engines on both sides; `calloc` with counts of 0, 1 and 3, so
that the product meets the clearing threshold exactly. The bootstrap heap starts 80 bytes below a page boundary and
has room for two or three blocks, so that it is both used and exhausted. A VMM
cache of one chunk reaches both the pool and the global path of a free; an
extent of three leaves chunks for both. Three spans, or four slabs of which one
is current, give a list a head, a middle and a tail to remove from. Two pushers
and one reaper, with batches of two, make swaps fail and batches chain; two
owners and one pusher make a batch change its target. Two classes and two chunks
let a chunk change class and owner. Five free pages in three words split into runs
within a word, across words and on both sides of a word that is skipped; a request
of five is the largest let through, one of six is refused. Two
threads race for a leaf while a third page may still be mapped, and an object
of two blocks may span two leaves. Three adoptions let a heap pass
through the zombie list and back while the other thread collects. `MaxRuns`, `MaxMail`,
`MaxUnfreed`, `MaxThreadId`, `MaxHeld` and `MaxBlocks` cap what grows.

**Fairness.** `FairSpec` is weak fairness of each thread's steps inside a call:
a running thread is scheduled. Nothing makes a thread start a call. Spinlocks
are not fair and compare-and-swap may lose, so no single call is claimed to
return while others keep calling; `CallsReturn` says that all calls return once
new ones stop. `RemoteFreesReturn` assumes that the owner keeps collecting
(an allocation that misses, or a gc); the code does not guarantee that, since
allocations served by a free list never look at the mailbox.

**Deadlock** is checked in every run.

## Disagreements between code and documentation

* `vmm_null`: `lz_vmm_alloc_chunk` returns NULL when other threads empty the
  global list between its refill and its second look; `engines/vmm.h` says
  "NULL on OS OOM".
* `hooks_sizes`: `lz_malloc` adds the header and rounds up without an overflow
  check, so the last sizes get a block shorter than asked (or a total of 0, and
  a fault when the header is written); `include/lzmalloc.h` promises "at least
  'size' bytes", "or NULL on OOM".
* `lifecycle_gc`: `lzmalloc_gc` walks the zombie list without the lock and may
  reap a heap that a running thread has taken over; `include/lzmalloc.h` says
  it "iterates over Zombie threads".

Edges met while modelling, which the properties name or exclude:

* `lz_memalign(64, 0)` promotes the size to 0 and gets a block aligned to 16;
  `AlignedAsAsked` is about requests of at least one byte.
* Alignments above 2 MB are not honoured: large objects start on a 2 MB
  boundary.
* `lz_memalign` of 0 bytes at 2 MB or more returns a pointer to the end of its
  mapping; its usable size reads 0, so `lz_realloc` of it always returns NULL.
* A zero-byte page-aligned request takes a chunk and then trips the "Failsafe
  check to assert algorithm logic" of `engines/span.c`, leaving the empty span in
  the list; `FailsafeOnlyForNothing` says that nothing else does.
* The `pvalloc` hook is `valloc` and does not round the size; `lz_pvalloc` does.
* Before the allocator is ready the aligned hooks do not validate the alignment.
* Span frees are subtracted from `bytes_allocated`, span allocations are never
  added; and with telemetry on, a slab's `block_size` is read after the slab may
  have been destroyed (`tlh.c:121`, `tlh.c:314`), when its chunk may hold a slab of
  another class or a span. Both make the counter wrong, and touch only the
  counter; `SlabBooksBalance` is about slab blocks of one size and leaves them out.
* What is counted for a heap after its thread's destructor has run (a gc, or a
  later destructor) is dropped when the heap is resurrected. `SlabBooksBalance`
  allows this and bounds it: less than one batch of each kind each time.
* A gc whose walk has reached a heap that is then resurrected finds its link
  reset and ends there.

## Proofs

**The VMM.** `VmmProofs` proves, for any threads, finite set of chunks,
number of nodes, cache capacity and extent size (`VmmAssumption`):

* `TypeCorrect`: `TypeOK` is invariant; no count wraps below zero.
* `CachesAreExact`: each free list is a list of exactly the chunks cached on that
  node, and the counter is their number.
* `NothingLost`: every mapped chunk is on a list, handed out or in the hands of
  one call.
* `Stamped`: every chunk handed out has the magic, the caller's node and a
  cleared link.
* `Refinement`: `Vmm` implements `ChunkPool`.

None of these is inductive. The invariant `IInv` adds: the locks
exclude (`Exclusion`); each list is a `ListOf` the chunks placed there
(`Intact`); counts number those chunks (`Numbered`, a bijection with `1..n`, which
adding and removing one chunk preserve without counting anything); and for each
thread what its locals mean at the step it is at (`Local`): what was read under a
lock is still true while the lock is held, the chunks it carries are placed with
it. `Moved` says that a step takes one chunk from one place to another, and
`MoveKeeps` carries the frame of such a step, so that each action only has to
argue about the lists it touches. There is one lemma for all steps that move no
chunk and one for each that does. `ListProofs` has the lemmas on lists that this
and the other proofs use: empty list, push, pop, removal from the middle,
concatenation, frame, for singly and doubly linked lists.

**The heaps.** `TlhTheorems` proves, for any threads, chunks, size classes,
capacities of at least two blocks and size of the outgoing batch
(`SlabsAssumption`, `TlhAssumption`):

* `HeapTyped`: type correctness; no list head is ever `WILD`, so no link is read
  in the wrong encoding or after the program has written over it.
* `BlockListsAreExact`: free lists, mailboxes, batches and lists being reaped hold
  exactly the blocks that belong there.
* `UsedObjectsAreExact`: `used_objects` is the number of blocks that are out.
* `SlabListsAreExact`: every slab is current or on the list its count says.
* `BlocksAreBacked`: blocks that are out lie in slabs that exist and travel to
  the heaps that own them.
* `HeapsImplementBlockHeap`: `Tlh` implements `BlockHeap`: every hand-out is of a
  block that was out zero times, every free of one that was out once.

A capacity of one is excluded: no class has it (a slab of the largest, 32 KB, has
more than sixty blocks), and with two or more a free either rescues a slab or
empties it, never both. The invariant `TInv` (`TlhProofs`) has two
parts, because a heap is private but for its mailbox. `HeapOK` is about slabs:
each slab's free list holds its free blocks, `used_objects` numbers the blocks
that are out and what is left numbers those that are free or not cut yet
(`SlabOK`), and each bin has its slabs where their counts say (`BinOK`). Both
numbers are needed: that a slab without free block and cursor is full, which is
why it goes to the full list, follows only from the second. `Roads` is about
blocks between heaps: the mailbox and the list being reaped are lists of the
blocks on that road, the batch is a list that ends at its tail with its count,
and every block on a road lies in a slab of the heap it goes to. While a flush is
under way the tail's link is the mailbox head last read, which may be stale; the
invariant says only that it is not in the batch, and the successful swap is what
makes it the head. `SlabProofs` has the operators of `Slabs`: what each does to
links and heads of lists, then to one slab, then to all heaps; it has no
variables. `TlhProofs` has the steps at the slabs, `TlhTheorems` those at the
mailboxes, the effect of each step on `BlockHeap`, and the theorems. The refinement
needs one more fact, `Ledger`: a block is counted once in `given` while it is in the
program's hands, and not at all otherwise.

**The radix tree.** `RegistryProofs` proves, for any threads, leaf pages, widths
of the two levels and sizes of objects (`RtreeAssumption`,
`RegistryAssumption`):

* `LeavesKept`: the race for a leaf leaks no page and unmaps none in use.
* `AlwaysFound`: what is allocated is found, unless no leaf could be mapped.
* `NeverStale`: memory that is not in use resolves to nothing.
* `TreeImplementsIndex`: `Registry` implements `ChunkIndex`.
* `RegistryTyped`: type correctness, with the sizes of objects and calls.

The invariant has two layers. `TreeInv` (`RegistrySteps`) is about the tree alone:
no two root cells share a leaf, a leaf about to be installed is still empty, and
a thread that has read a leaf from the root finds the same one there later,
because root cells are never reset. From it follows that only the store of
`lz_rtree_set` is visible to lookups, and in one cell. `RegInv`
adds what the callers contribute: objects and calls in
progress own disjoint extents in use (`Ownership`), where each call stands
(`Control`), and what lookups show of its extent: a registration has filled
it up to the current block, a clear has emptied it up to there (`Contents`).
Without `Ownership` the store of one thread could land in another's extent;
without `Contents` nothing says that an extent is empty when its memory is
given back. A lemma for calls that go on with their extent and one for those
that hand it over carry the frame argument, and one lemma per step the rest.

**The life of heaps.** `LifecycleProofs` proves, for any threads, heaps, slots
and batch sizes (`TelemetryAssumption`, `LifecycleAssumption`):

* `ZombieLockExact`: the lock is held exactly by the thread between its
  test-and-set and its clear.
* `HeapsInPlace`: `HeapInOnePlace`.
* `NothingLeftBehind`: `LeavesNothingBehind`.
* `LifecycleTyped`: type correctness, with the bounds of the counter batches.

`LockExact`, with the types of `pc` and the lock, is inductive. For the rest
`LifeInv` adds what a thread holds at each place (`Control`): the heap in
`tls_tlh_ptr`, the one it is inside, that the head it read is still the head when
it unlinks it, and that a heap whose destructor waits for the lock is already
settled. That survives the steps of others because nobody is inside a heap another
thread owns. The proofs are about the behaviours of the model: once two threads
share a heap it stops (`Undefined`), so nothing is claimed of what follows the
race of `lzmalloc_gc`. Only pop, adoption and push change who has a heap; the
other steps share one frame lemma.

**Only model-checked:** liveness (`CallsReturn`, `RemoteFreesReturn`), which the
prover does not do; `SlabBooksBalance`, whose sums are folds over functions; the
arithmetic of `Sizes` and what `Hooks` and `Api` promise on top of it
(`ClassIsSmallestFit` and the properties of a request's block), which divide by
powers of two that are not constant, beyond the provers' arithmetic; and `Span`,
where everything depends on what the scan of the bitmap and the search of the list
find: both are recursive, so that needs induction over data.

## Not modelled

* Opening, naming, truncating and unlinking the telemetry file, and the
  collection of entropy: I/O. Their outcome is a choice in `Init`, or
  irrelevant.
* `madvise`, log messages, padding, and the canary, which no code reads.
* The telemetry of spans, and blocks of different sizes in the counters. The
  stale read of `block_size` needs a slab destroyed in the middle of a free,
  which is one step of `Tlh`.
* Weak memory: see the memory model above.
* One module of everything. The components meet through their promises
  instead: `Tlh` and `Span` use the VMM as `ChunkPool`, which `Vmm` is proved
  to implement, and a registered chunk as a set member, which `ChunkIndex`
  justifies. `Tlh` with three chunks and two heaps is already at the limit of
  what TLC does in minutes.
