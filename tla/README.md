# A verification of stabby's shared state

stabby gives Rust types a stable ABI, so that a program and the libraries it loads may be built
by different compilers. Two sorts of code carry that promise. One runs in the compiler: traits
and type-level numbers that compute layouts, niches and reports. The other runs in the program:
its own `Arc`, `Vec`, `Box` and B-tree, a global registry of v-tables, and imports that are
checked on first use. The second sort is written with raw pointers and atomics, is shared by
threads that never saw each other's source, and is where interleavings decide whether memory is
safe. This directory starts there.

Everything below refers to files of the repository by their path without the leading `src/`.

## 1. Inventory

### 1.1 Parts that share state between threads

**Arc and Weak** (`stabby-abi/src/alloc/sync.rs`). State: two atomic counters in the prefix of
the allocation, `strong` and `weak`, the value behind them, and the allocation itself. All `Arc`s
together own one of the weak counts. Operations: `clone`, `drop`, `downgrade`, `Weak::clone`,
`Weak::drop`, `Weak::upgrade` (which marks `strong` with the top bit of a `usize` while it runs),
`is_unique` and its callers `get_mut`, `make_mut`, `try_into_inner`. Hard: every operation is
several accesses to counters that others change in between. Correct when no `Arc` ever points to a
destroyed value, memory goes last and once, and exclusive access is exclusive.

**ArcSlice, WeakSlice, ArcStr** (same file and `alloc/string.rs`) repeat that protocol for slices.

**AtomicArc** (`sync.rs`). State: one atomic pointer that owns an `Arc`. Operations: `load`, `is`,
`store`, `compare_exchange`, `drop`. `load` reads the pointer and then counts itself in what it
points to; the two are separate accesses. Correct when what is loaded is alive, and no count is
lost.

**V-table registry** (`stabby-abi/src/vtable/mod.rs`). Keeps one copy of each v-table for the life
of the program. `VtVec` is an `AtomicArc` of an immutable list; `VtBtree` an atomic copy-on-write
tree. `insert` searches, allocates a boxed slice, copies the collection with one entry more, tries
to swap it in, and starts over if it lost the race. Correct when all inserts of equal contents get
one pointer, that pointer stays valid, no slice has two owners, and every insert returns.

**Atomic copy-on-write set** (`alloc/collections/arc_btree.rs`, `AtomicArcBTreeSet`). `edit` loads
the root, gives a function a clone of the tree, and exchanges the root for what it returns; `get`
does the read half.

**Copy-on-write B-tree** (same file, `ArcBTreeSet`, `ArcBTreeMap`). Nodes in `Arc`s, shared by the
clones of a tree. `insert` makes the nodes on its way its own with `Arc::make_mut` and carries
splits back up. Correct when an insert shows in one tree only, keys stay sorted at equal depth, and
every node is counted once for each owner.

**Imports between libraries** (`stabby-abi/src/checked_import.rs`). `CheckedImport` holds a state
word and a result that the first use writes; `CanariedImport` calls a canary before first use.

**Allocators** (`alloc/mod.rs`, `alloc/allocators/`) hand out the memory of all of the above and
keep a prefix (allocator, capacity, counters) in front of what callers see.

### 1.2 Parts that one thread owns at a time

| part | files | what makes it correct |
|---|---|---|
| Vec, Drain, SingleOrVec | `alloc/vec.rs`, `alloc/single_or_vec.rs` | elements are dropped once, also when an allocation fails half-way |
| Box, BoxedSlice, String | `alloc/boxed.rs`, `alloc/string.rs` | a buffer keeps its capacity when it changes its container |
| Fat pointers and v-tables | `fatptr.rs`, `as_mut.rs` | what a `Dyn` owned is freed once, through the right v-table |
| Futures and wakers | `future.rs` | a waker frees what it cloned; a future resolves once |
| Loaded libraries | `stabby/src/libloading.rs` | a symbol is used only if its report matches |
| Durations | `stabby/src/time.rs` | packing and unpacking agree |
| Opaque handles and interfaces | `opaque.rs`, `stabby-macros/src/interfaces.rs` | what is called is what the caller declared, also after a query or an erasure |
| Restricted integers | `num.rs` | what is stored is never the niche, and is read back |
| Slices, strings, closures, iterators | `slice.rs`, `str.rs`, `closure.rs`, `iter.rs` | views of what others own; no state of their own |

### 1.3 Parts that run in the compiler

Layouts (`istable.rs`, `stable_impls/`, `typenum2/`), the choice of where a sum type stores its
determinant (`enums/`, `result.rs`, `option.rs`), type reports (`report.rs`), and the macros
(`stabby-macros/`), which lay out structs, pick an integer or a tree of `Result`s for an enum, and
generate v-tables. They are pure algorithms: correct when a value can be told from every other
after it was stored.

### 1.4 How the parts meet

`VtVec` calls `AtomicArc`, which owns an `Arc`, which owns an allocation. `VtBtree` calls the atomic
set, which clones and inserts into the copy-on-write tree, whose nodes are `Arc`s that `make_mut`
copies. A `Dyn` frees an `Arc`, `Weak` or `Box` through `IPtrOwned::drop`. Imports compare type
reports, and what is called through them returns trait objects, handles and futures, whose wakers are
kept in `Arc`s. The buffers of containers are in blocks of an allocator. Nothing takes a lock: the only shared words
are counters, one pointer per registry and the state word of an import.

## 2. Plan

The order follows what goes wrong worst: first memory safety under interleaving, then the
sequential containers, then the algorithms of the compiler.

1. `SharedOwnership`, `ArcWeak`, proofs of both. **done**
2. `ArcCell`, `AtomicArc`, proofs. **done**
3. `Interner`, `VTableRegistry`, `VtVec`, `VtBtree`. **done**
4. `OwnMaps`, `ArcBTree`, proofs of its counts, of who owns what, of the shape of the trees and of
   the refinement. **done**
5. `CheckedImport`. **done**
6. `VtVecProofs`: every step of `VtVec` is one of `AtomicArc`'s program, which carries the memory
   safety proved in `ArcCellProofs` over to the registry; `VtBtreeProofs`: what `edit` does keeps
   the same invariant. Both registries implement `Interner`. **done**
7. `OwnedSequence`, `StabbyVec`, `SingleOrVec`: vectors, their drains and iterators, boxed slices
   and the vector that keeps one item in place, with allocations that fail; proofs. **done**
8. `Layouts`, `StableTypes`, `Determinants`, `SumTypes`: the choice of a determinant over small
   layouts, against the decoding it has to allow; the tree of `Result`s that `repr_stabby` enums
   become; `MaybeResolved`; `TypeNum`, the numbers all this is computed with. **done**
9. `Ints`, `Durations`, their tests and proofs. **done**
10. `Reports`, `Interfaces`, `TraitObjects`, `Wakers`, and `Linking`, which puts them behind an
    import; proofs of the import and of what is called through it. **done**
11. `Allocators`, and `Buffers`, which puts the containers into what they grant; proofs. **done**
12. The conversions between vectors and `ArcSlice`; tuples; the dynamic allocator.

Theorems in the same order: type correctness and safety of each protocol, the refinements, and for
the pure algorithms the lemmas that need no induction.

## 3. Modules

| module | models | extends or instantiates |
|---|---|---|
| `SharedOwnership` | abstract: owners, watchers, exclusive access, a value that goes when the last owner does | |
| `ArcWeak` | counters of `Arc`, `Weak` | `SharedOwnership` as `Promise` |
| `ArcCell` | the atomic pointer and the counts behind it, one action per access | |
| `AtomicArc` | any program on one `AtomicArc` | `ArcCell` |
| `Interner` | abstract: each content interned once, for ever | |
| `VTableRegistry` | what both registries share: slices, calls, returns | `ArcCell` |
| `VtVec` | `VtVec::insert` | `VTableRegistry`; `Interner`, `AtomicArc` |
| `VtBtree` | `VtBtree::insert`, `AtomicArcBTreeSet::edit` and `get` | `VTableRegistry`; `Interner` |
| `OwnMaps` | abstract: a map of its own for each owner | |
| `ArcBTree` | clone, drop, get, insert of the copy-on-write tree | `OwnMaps` |
| `CheckedImport` | `CheckedImport::as_ref` and `drop` | |
| `OwnedSequence` | abstract: a sequence that owns its elements, and what a drain takes of it | |
| `StabbyVec` | `Vec`, its drains and `IntoIter`, `BoxedSlice`: the operations | |
| `SingleOrVec` | a program on those containers, and `SingleOrVec` | `StabbyVec`; `OwnedSequence` as `Promise` |
| `Allocators` | `Layout`, `AllocPrefix`, `AllocPtr`, `LibcAlloc`, `RustAlloc` | |
| `Buffers` | the containers, in blocks of those allocators | `SingleOrVec`, `Allocators` |
| `Layouts` | size, alignment, forbidden values and unused bits, and how structs and unions combine them | |
| `StableTypes` | the types with their layouts, `core`'s sum types among them | `Layouts` |
| `Determinants` | where a pair of types keeps its determinant, and how it is read and written; the type `Result` and its values, and what the choice relies on | `StableTypes` |
| `SumTypes` | guards, assignments, clones, `repr_stabby` enums, `MaybeResolved` | `Determinants` |
| `TypeNum`, `TypeNumTests` | binary numbers of the type checker; their comparison with ordinary ones | |
| `Ints`, `Durations`, `EncodingTests` | restricted integers, durations packed in one word; what is read back | |
| `Reports` | type reports, `is_compatible`, `gen_id` | |
| `Interfaces` | opaque handles and the interfaces that macros generate for them | `Reports` |
| `TraitObjects` | `Dyn`, `DynRef`: casts, borrows, clones, drops | |
| `Wakers` | `StableWaker`, `SharedStableWaker` | |
| `Linking` | exports, imports and symbol lookup; all that is called through an import | `CheckedImport`, `Interfaces`, `TraitObjects`, `Wakers` |
| `ArcWeakProofs`, `ArcCellProofs`, `VtVecProofs`, `VtBtreeProofs`, `ArcBTreeProofs`, `LinkingProofs`, `StabbyVecProofs`, `EncodingProofs` | theorems | the module they name (`LinkingProofs` also covers what `Linking` is composed of; `StabbyVecProofs`: `SingleOrVec`, `Buffers`; `EncodingProofs`: `Ints`, `Durations`, `Determinants`, `SumTypes`) |
| `MCArcWeak`, `MCAtomicArc`, `MCVtVec`, `MCVtBtree`, `MCArcBTree`, `MCBuffers`, `MCSumTypes`, `MCLinking` | instances for TLC | the module they name |

Definitions whose comment begins with `mutant:` are deliberate errors next to the definition they
distort. No specification uses them. Each was put in place of the right definition and made the
property it is meant for fail, which is how a property is known to depend on the code.

### State and actions against the code

`ArcWeak`. A *handle* is one `Arc` or `Weak` value; `st[h]` says what it is and how far the call on
it has come. `strong` and `weak` are the counters of `AllocPrefix`, `TOP` is `USIZE_TOP_BIT`, and
arithmetic wraps at `2 * TOP`. One action is one atomic access together with the computation that
leads to the next: `UpgradeOr` is the `fetch_or`, `UpgradeAdd` the `fetch_add`, `UpgradeAnd` the
`fetch_and`, `UpgradeFail` the `store(0)`. Rust's borrow rules are guards: what takes `&mut self`
has the handle for itself, and a `Weak` that is being upgraded is not dropped meanwhile
(`from[h]`). `DropDynWeak` is `IPtrOwned::drop` of `Weak`, which decrements the count and then
drops a `Weak` that decrements it again.

`ArcCell`. `cell` is `AtomicArc.ptr`, `arc[<<t, s>>]` the `Option<Arc>` in a variable of a thread,
`seen[t]` a pointer that was read and not yet counted. A fresh `Arc` takes any free address, so
addresses come back. The drop of a last `Arc` is one step here; `ArcWeak` shows what it consists of.
`Store` overwrites the pointer and leaves the count of what was there as it is. `Overlap` says whether a
thread may be interrupted between reading the pointer and counting itself.

`VtVec` and `VtBtree`. `pc` walks through `insert`. The cell is changed only by the operators of
`ArcCell`. A list or a tree lives in the allocation of its `Arc` (`entries`), v-tables are contents
to compare, and boxed slices have addresses (`Ref`) and contents of their own. A tree is a set of
entries here, because what `VtBtree` needs of the tree is what `ArcBTree` refines.

`ArcBTree`. A node is an address with `entries`, `kids` and a `strong` count. An insert descends one
node at a time (`make_mut`: check, copy if shared, put the copy in place), then inserts, then
carries splits up. `dropping[t]` is what the drop glue of thread `t` has left to do, the next `Arc`
first: each step takes one `Arc`, and the last owner of a node puts those below in front
(`DropLast`). One step is coarser than the code: the clone of a shared node counts all its kids at
once. Whoever clones it holds an `Arc` of it, so nobody has it or what is below it exclusively
meanwhile; finer steps would only add moments at which another thread copies a node it need not have
copied. The weak count of a node is always 1, as nobody downgrades one.

`StabbyVec` and `SingleOrVec`. `memory` is the buffer, a sequence of slots as long as the allocation;
`prefix`, `len`, `capacity` and `range` are the fields the code keeps about it, and `kind` is the type
of the value that owns it now. A move out of a slot is a `ptr::read`: the bits stay behind, so a wrong
`len` or index shows as an item with two owners or none. `held`, `dropped` and `leaked` count, for
each item, how often the program has it, a destructor ran, and a forgotten drain lost it. A failing
allocation is one that exceeds `MaxCapacity`: `push` and `extend` then panic and take their arguments
with them (`PushPanics`), `try_push` gives its argument back (`PushFails`), with all that
`SingleOrVec::try_push` read out of itself forgotten rather than dropped. The program owns one
container at a time; what each does depends on its own fields only. A `BoxedSlice` has no capacity of
its own: `BoxedPush` compares the length with the one it reads in front of the start pointer
(`PrefixReads`). A slice made from a vector that never allocated has a dangling start pointer and
nothing in front of it; to read there is undefined, so any number may come out, and what is written then
lies in no slot. `PushDangling` says whether the program makes such a push, and `BoxEmpty` whether it boxes an
empty vector that has a buffer. `FromBoxed` keeps the start pointer, and with it the buffer, also where it
gives the vector a capacity of 0. Left out are
`DoubleEndedDrain::next_back`, `try_drain`, `clone`, `try_reserve` and `truncate` of a single item
(section 6), items without a size, and destructors that panic.

`CheckedImport`. `checked` is the state word, `result` what it guards. `sees` is the set of threads
to which the write of the result has become visible: a machine that keeps loads in order puts a
thread there when it reads `VALIDATED`; the others may or may not (`inOrder` is chosen at the
start). `FailToLock` includes the spurious failure of `compare_exchange_weak`.

`Allocators` and `Buffers`. `block` is one allocation: where the system's block starts, what was asked
of the system, where an `AllocPtr` points and where its first element really is after a move. A
buffer of `SingleOrVec` that appears, grows or goes is allocated, reallocated or freed in the same
step. `realloc` is given the address of the prefix and computes the layout anew, `free` is given the
origin that the prefix remembers: `asGranted` tells whether either ever differed from the grant.

`SumTypes`. A value is the bytes of its type with the variant it was built from. `Enter` is
`match_mut`, which moves a determinant out of the way; `Assign` writes the bytes through the guard,
`Exit` is the guard's drop, which puts the determinant back; maps, clones and moves rebuild a value.
A layout is a sequence of forbidden values and of masks of unused bits, one per byte, combined as the
`IStable` impls combine them. `MaybeResolved` is one more type, with `poll`.

`TypeNum` computes on lists of bits with the type-level operations, none of which may use a number;
`TypeNumTests` compares them with numbers. `Ints` and `Durations` are functions; their width is a
parameter, so that the tests can cover a whole width and the proofs need none.

`Reports`. A report is a tree, written as what it says at each place: `<< >>` is the type itself, and
`<<2, 1>>` the first field in the type of its second. `is_compatible` walks both lists of fields to the
end of the shorter, so `IsCompatible` compares the places that both have. An ID is the sequence of what is
hashed, so equal IDs are equal inputs of the hash.

`Interfaces`. A handle remembers the table it has and the interface its holder takes it for.
`Bind`, `Query`, `AssumeVtable`, `Erase` and the reborrows are the generated functions.

`TraitObjects`. There is one value; a handle records its pointer type, the v-table it carries, the
traits it is seen as, where it points and from which handle it was borrowed. Borrow rules are guards.
A v-table is a nest of `VTable<Head, Tail>`s; a table here is the type it is of and the trait at each
level, the tail's before the head's. A cast to a supertrait keeps the table and shortens the list of
traits that the handle is seen as, as the code reinterprets the pointer; a call looks its function up at
the level of its trait in the table that is there.

`Wakers`. `polls` are the `StableWaker`s on the stack, each over the waker it was made from; `strong`
and `over` the count of each `SharedStableWaker` and what it is over. A clone of a waker of a poll clones
what that poll is over, which may be of either kind, and then puts an `Arc` around it; the drop of the last
owner of an `Arc` drops what that was over. Both walk a step at a time, from two threads: `cloning` is
where the clone has got to, `hand` the waker that the clone and the drop have between two steps.

`Linking`. The import goes first. What is called through it starts when every thread has the
reference: it needs nothing else of the import, and none gives it up meanwhile. One of the three
follows at a time.

## 4. Runs

| run | instance | checks |
|---|---|---|
| `arc_serial` | 5 handles, upgrades that do not overlap, `get_mut`, `make_mut`, `Dyn<Weak>` | no dangling `Arc`, memory goes last, the value goes once and does go, upgrades end |
| `arc_exclusive` | 5 handles, no upgrades, all callers of `is_unique` | exclusive access, no leak, refinement of `SharedOwnership` |
| `arc_concurrent_upgrades` | 3 handles, 2 upgrades at a time | **violated**: an `Arc` to a destroyed value |
| `arc_unique_race` | 3 handles, 1 upgrade, `get_mut` | **violated**: `&mut T` while another `Arc` exists |
| `atomic_arc_load_race` | 2 threads, loads that overlap | **violated**: a load of freed memory |
| `vt_vec` | 2 threads, 2 contents | interning, one owner per slice, bounded leak, termination, both refinements |
| `vt_btree` | 2 threads, 2 contents, addresses under comparison are not reused | interning, one owner per slice, no lost root, no panic, termination, refinement |
| `vt_btree_reuse` | 2 threads, 3 contents, addresses reused at once | **violated**: the "should've been inserted" panic |
| `arc_btree` | 2 owners, 6 keys then 2 more, 2 values, nodes of at most 3 entries | isolation, B-tree shape, counts, refinement of `OwnMaps` |
| `checked_import` | 3 threads; 3 handles of trait objects over 2 types and 2 lists of traits; 8 versions of an interface; polls of depth 2 with 2 kept wakers | one writer, borrowed after written, uses return; what is called is what was declared; values are destroyed and wakers counted once; assumptions about reports, canaries and casts |
| `containers` | 4 items, arrays of at most 6, first capacity 2, spill to 3; 2 allocators, elements of 1 and 16 bytes, 2 addresses | live slots hold items, one owner per item, no lost buffer, slots inside of granted blocks, refinement of `OwnedSequence` |
| `sum_types` | some 380 types of up to a few bytes | the value that was written is read, niches stay free, everything inside of the type, a future yields once; assumptions about numbers, layouts and encodings |

### The four disagreements

*Overlapping upgrades.* All upgrades of an allocation share the top bit. Weak W1 and W2 begin to
upgrade; W1 adds itself and clears the bit; the `Arc`s known so far are dropped, the last of them
sees 1 and destroys the value; W2 adds itself and returns an `Arc` to it. The `Send`/`Sync` of
`Weak` is justified with the constraints of `std`, whose `upgrade` never does this.

*is_unique* loads `strong`, then `weak`. Between the loads the only other `Weak` is upgraded and
dropped: one `Arc` more, one `Weak` less, and both loads say 1.

*AtomicArc::load* is interrupted after it read the pointer; the pointer is exchanged and its `Arc`
dropped; the load then increments a count in freed memory. `is` and a failing `compare_exchange`
have the same window.

*edit* compares the root with an address it holds no `Arc` of. A root that was freed and whose
address went to a newer root makes the exchange succeed on a tree that `edit` never saw; what was
inserted in between is lost and the `get` of that insert panics.

### Two uses that `containers` leaves out

Both are safe Rust, the code goes wrong in both, and `Containers.cfg` shows it when the constant is set to `TRUE`.

*`PushDangling`*, for `LiveSlotsAreItems`. `BoxedSlice::try_push` reads the capacity in the prefix, which
"must be initialized for this type to exist" (`boxed.rs:319`). But a vector that never allocated becomes a slice without a prefix, as the type
itself says (`boxed.rs:285`). Where the undefined read gives more than 0, the item is written behind the
dangling pointer and is an element from then on.

*`BoxEmpty`*, for `NoBlockIsLost`. A boxed slice carries its capacity in the prefix so that a `Vec` made
from it keeps track of it (`boxed.rs:281`), but `into_raw_components` returns 0 for an empty one
(`boxed.rs:339`). The vector takes the next push for its first and allocates; the buffer it came with is
never freed. An empty slice that is dropped loses its buffer likewise.

### Bounds, and why they are enough

* *Handles* (5 or 3). Each violation needs 3. With 5 there are all pairs of a Weak, an upgrade
  from it, and three more Arcs or drops; the theorems hold for every number.
* *`TOP` = 8* is more than `Handle + 2`, so counts do not reach the top bit, as they cannot in a
  64-bit address space; the assumption `HandleAssumption` says so.
* *`MaxUpgrades`* limits upgrades in progress. It is a use, not a size: 0 and 1 are programs that
  serialise their upgrades, 2 is the least that does not.
* *`Overlap = FALSE`* keeps a load whole, as a scheduler happens to do nearly always. The runs of the
  registries have it, because `atomic_arc_load_race` shows what a swap inside of a load does to them. It
  excludes that race rather than bounding it: `LoadedArcsAreLive` in `vt_vec` checks the counts, not the
  gap. The theorems on live memory (section 5) have no such restriction and exclude the swap alone.
  `MCAtomicArc` has that use as `SparingSpec`: in place of the specification in `AtomicArcLoadRace.cfg`, with
  3 threads and 3 addresses, it passes, and with a `Store` that drops what it overwrites (`StoreDrops`) it
  does not. *`Reuse = FALSE`* keeps the allocator from recycling an address that an `edit`
  is about to compare; `vt_btree_reuse` shows why.
* *`MaxStrong` = 4* cuts the counts that `store` and `compare_exchange` drive up by forgetting
  `Arc`s; owners are at most 4 in variables and one in the cell.
* *Addresses*. `FirstFit` hands out the lowest free one, which recycles as fast as possible and
  makes states equal up to names. The counts are chosen so that an allocation never fails: the runs
  with deadlock checked would stop otherwise.
* *Threads and contents* (2 each). A lost race needs two inserts; equal and different contents
  both occur. `vt_btree_reuse` needs three: a root replaced, freed and reused. Only there
  can `insert` panic, so the runs of `VtBtree` need both.
* *`SPLIT_LIMIT` = 3* (the code's default is 5; both odd): six keys make a root on the edge of its
  split, and the second key after them splits a leaf and then the root, into a third level. `Ordered`
  builds one tree in ascending order and varies what comes afterwards; the *view* `Shape` identifies states
  that differ only by the names of nodes.

* *Items and capacities.* With 4 items, a first capacity of 2 and room for 6, a vector allocates for
  the first time, grows by one, grows by half, and fails to grow; a single item spills into 3 slots,
  the second of which is taken and the third free. Removals, drains and truncations happen at the
  start, the middle and the end of 4 items. The items are alike, so their names are symmetric.
  `SpillCapacity` is 8 and `FirstCapacity` 1 to 8 in the code; the theorems hold for all of these.
* *`BoxEmpty = FALSE`* and *`PushDangling = FALSE`* are uses: the program boxes no empty vector that has a
  buffer, and pushes to no boxed slice that has none. What happens otherwise is said above. `BoxEmpty` costs
  buffers and nothing else, so of the theorems only those on blocks assume it.

* *Types.* The leaves of `sum_types` are chosen by layout: without and with forbidden values, with
  unused bits at the end and in the middle, of size 0, aligned by 1 and 2. All `Result`s of
  two of them occur, and nested ones: every branch of the choice of a determinant is taken. The types are a parameter
  (`Types`), with all they are made of (`Depth`, which counts nested `Result`s); `TypesAssumption` says
  of these that a `Result` is `ResultOf` its variants, padded to the alignment, and all else `Honest`.
* *Interfaces and reports.* Versions of one interface have methods in other orders, more of them, or
  another marker. The universe of reports holds a struct that grew at either end, or was reversed, and
  two names that run together.
* *Wakers.* A nested poll over a kept clone, two clones of one `Arc` and chains of two need 2 slots,
  2 polls and 4 `Arc`s.
* *Elements and bases.* 1 and 16 are the least and largest alignment that `malloc` grants unasked;
  the bases are aligned by 16 and by more. `MCBuffers` shows what goes wrong with 32.

CHECK_DEADLOCK is off where a program may stop: when all handles are gone, when the counts are at
their bound, or after a panic.

### Fairness

`ArcWeak` assumes that a thread which entered an operation finishes it (weak fairness of `Finish`):
no step of one waits for another. Calls are not fair: a program need not drop anything.

The registries assume strong fairness of the steps of each insert. Weak fairness would do in the
code, where a thread never waits; the model makes threads wait while another is inside a load
(`Quiet`), and each such pause ends. Starvation is not assumed away by it: the retry after a lost
race is limited by the number of contents, which is why `InsertReturns` holds.

`CheckedImport` assumes weak fairness of each step, and strong fairness of `Lock`: an exchange that
may fail for no reason does not do so for ever. Without it `as_ref` may loop, on paper.

`Linking` has the fairness of `CheckedImport` and no more: nothing that is called needs to end.

The B-tree has no liveness property: an insert is a sequence of steps that wait for nobody.

### What is abstract in the memory model

Accesses interleave one at a time. The orderings the code passes (`Relaxed` decrements, `Relaxed`
first loads) are weaker; a weaker machine has more behaviours. The one place where this is modelled
is `CheckedImport`, whose `Relaxed` load of the state word lets a thread read `VALIDATED` before the
result: `ReadsTheResult` holds where loads stay in order and says nothing where they do not.

## 5. Proofs

`tlapm` checks every theorem for all values of the constants that satisfy the named assumptions.

*ArcWeak.* `IInv` is inductive under `SerialUse`: upgrades do not overlap, nor race with
`try_into_inner`. None of the safety properties is inductive: that no `Arc` dangles follows only
with `StrongCounts` (the counter without its top bit is the number of complete and half-made
`Arc`s), `TopBitMarksUpgrade` (the bit is set exactly during the one upgrade, which keeps its
`Weak`), `WeakCounts` (with the `Weak` that all `Arc`s share, and the wrapped value that the drop
of a `Dyn<Weak>` can leave), `ValueLives`, `FreedLast` and `ExclusiveUse`. The proof has a lemma per
action, all resting on how the cardinality of a set of handles changes when one handle changes
state (`CountStep`). From it: `ArcsStayValid`, `MemoryStaysValid`, `ValueIsDestroyedOnce`; without
upgrades `ExclusiveAccess`; without `Dyn<Weak>` `NoLeak`. `TypeCorrect` needs no discipline at all.

*Refinement.* `ArcWeakProofs` also shows that `ArcWeak` implements `SharedOwnership` when upgrades
do not mix with operations on unique values: initial states map to initial states, and each action
to an abstract one or to a stutter.

*ArcCell.* `CellInv` says that what is owned is live and that the count of a live allocation is at least
the number of its owners (greater once an `Arc` was forgotten). Each step keeps it as long as
`LoadedArcsAreLive`, that is as long as no thread is about to count itself in freed memory:
`OwnedArcsAreLiveTheorem`, of every interleaving. That no thread ever is, is false in general
(`atomic_arc_load_race`). `LoadedArcsAreLiveTheorem` says what it takes: that no `compare_exchange` succeeds
between the two halves of somebody's load (`SwapsSpareLoads`). Everything else may happen there. The
invariant (`LoadInv`) adds that a pointer that was read is in the cell or has a count above the number of its owners
(`Kept`): a `store` takes it from the cell but forgets its count, and no drop or failing exchange takes away more
counts than owners. With whole loads nothing can come in between, and `CellInv` holds without conditions
(`CellTheorem`). All three hold for every number of threads, variables and addresses.

*VtVec.* `BetweenCalls` (an insert has read a pointer only while it is about to count it, and its
variable `updated` is free whenever a call may fill it) makes each step of an insert a step of the
program in `AtomicArc`. `ArcCellProofs` is instantiated at that program, which gives `ListsAreLive`
in every interleaving: lists that are held are live as long as each load counts itself in a live one, and
each does if no swap replaces the list inside of a load (`PointerRests`; an insert calls no `store`). What
follows is about the entries, and of whole loads (`~Overlap`).

`RegistryInv` is about the entries. That a content gets one entry is not inductive: it needs that the
list an insert holds is a prefix of the list in the registry (`Begins`), that no entry it searched
has its content (`Unlike`), that its slice is its own until the swap, and that its `vec` is the list
it holds and that slice. A swap then succeeds only if the list behind the pointer is the one searched,
because a list that is held is not freed and so its address is no other list's. From it follow
`ReturnedPointersStayValid`, `SlicesHaveOneOwner`, and that `VtVec` implements `Interner`: the call of
an insert maps to the abstract call, the search that finds or the swap that succeeds to the
instant at which the content is interned, the return to the abstract return, all else to stutters.

`LeaksAreLostRaces` bounds the lists whose last `Arc` was forgotten by a failing swap. All other counts
are exact (`ArcCellProofs` compares the cardinalities). The invariant counts the inserts that are bound
to fail with the lists that leaked already (`Pending`): a swap that succeeds adds an entry and
makes at most all the other threads pending, and a pending insert becomes at most one leaked list.

*VtBtree.* `edit` compares the cell with a root that it no longer owns, so it is no step of a program
in `AtomicArc`, and with addresses reused at once it may replace a root it never saw. Still each of
its steps keeps `CellInv`, by the lemmas of `ArcCellProofs`: the theorem `RootsAreLive` holds whether
addresses are reused or not, so that race costs the insert its entry and never the safety of memory. It holds
of loads that are interrupted, too, under the conditions of `ListsAreLive`: `LoadedArcsAreLive` for the roots that are
owned, and for that in turn `PointerRests`, as the gap between reading the pointer and cloning the root
(`arc_btree.rs:68`) is that of `AtomicArc::load`. The other theorems have `~Overlap`.
`RootsAreOwnedTheorem` adds, with the cardinalities of `ArcCellProofs`, that counts are exact: no root
leaks either.

`RegistryInv` needs `~Reuse`. What an insert edited is the tree behind the pointer that it compares
with *or that tree was freed* (`Kept`, `Trees`); under `~Reuse` a freed address stays free while
an insert compares with it, so a swap that succeeds meets the tree that was searched. Then entries
differ and only grow, `get` finds the slice that was swapped in (`NeverPanics`), and `VtBtree`
implements `Interner` too. `vt_btree_reuse` shows that none of this holds without the assumption.

*ArcBTree.* `CountsOwners` is a sum over five places where an `Arc` of a node can be: nodes above,
trees, the copy of a `make_mut`, the right half of a split, and what is about to be dropped. The proof
counts occurrences in sequences (`CountConcat`, `CountInsertAt`, `CountSplit`, `CountExcept`) and in
functions of sequences (`OccurrencesStep`), and then each step only has to say what changes for one
thread and one or two nodes (`CountsStay`). That is not enough by itself: a step must not
take away what another insert holds. `TreeInv` therefore adds that paths lead down from their roots
(`PathLeads`), that what an insert has made its own has count 1 (`OwnIsUnique`) and that nodes have a
kid on either side of each entry (`NodesFit`). With exact counts, a node of count 1 has one
pointer to it, that pointer is in a node of the same path, and so no other thread reaches it
(`OwnedByOne`, `OwnIsApart`): `is_unique`, read before the change, is still true at the change. Hence
`CountsOwnersTheorem` and `ChangesItsOwnTheorem`, for every number of threads, addresses and keys and
every odd split limit.

`IsBTree` is recursive over nodes and speaks of trees between inserts. What is inductive is `OrderInv`,
which speaks of one node at a time, in every state. It says that there are three functions of nodes: a
height (`deep`), the keys that belong under the pointers to a node (`span`) and those that belong in and
below it (`part`). The entries of a node are in order and divide its `part` among its kids; all kids
have the same height; `part` is `span` but for the left half of a split, whose rest is what the insert is about to
carry up. The lemmas `InsertOrder` and `SplitOrder` say how a node's keys are divided after an entry came in
and on either side of the middle one. A step then renews the three functions at the nodes it changes (`NewGhost`), which
by `TreeInv` are the insert's own or new, so that no other node or insert notices (`OrderStays`). Since
trees share nodes, this needs that a node's keys are the same in all of them: a clone starts with the same
root, a copied node takes over the keys of its original (`CloneNodeOrder`), and only what no other tree
reaches is renewed. From the heights follows that the recursive definition of `Depth` has a solution at all (`FixpointExists`,
`DepthExists`: what it is at a node depends on nodes of lesser height), and that any solution is the height
at the root (`DepthIsHeight`); both take the least counterexample (`LeastOf`), as the provers cannot use the
induction theorems. Hence `IsBTreeTheorem`.

`OwnMaps` gives each owner a function of keys that an insert changes at one key, all at once; the tree
changes in steps, during which a search may go wrong at a node that was split. `MapInv` holds all the
same, in every state: for each key some `get` says what value there is under each pointer. A node's is
what a search finds in it (`LookIn`: its entry, or the `get` of the kid between the entries), a copy's
is that of the node it is to replace, a split node's is put together of the left half, the entry and
the right half that the insert carries up, and what a set is about to insert is not there (or the
insert would replace an entry that `get` said is missing). The lemmas say how a search through the
entries of one node ends (`SearchInEnds`, `LookFinds`) and what it finds after an entry came in, was
replaced or parted the node in two; each action then has a `get` of its own (`Becomes`), which
agrees with the last one at all roots, except when the entry itself arrives, which is the step of
`OwnMaps`. As for the height, the value that the recursive `ValueOf` and `Get` compute is any such `get` at the
root: they have a solution, by the heights of `OrderInv`, and only one, by the least counterexample.
Hence `ImplementsOwnMapsTheorem`.

*StabbyVec.* All theorems on containers assume `~PushDangling`: after a push to a slice that has no allocation an
item is in no slot. `SlotInv` says of each container what its fields mean: that the prefix is the length of the
allocation, and that a vector says so as well or knows of no capacity (`HasBuffer`); for a drain, that
everything up to the original length is still an item and that the range lies behind the length it hid.
`SlotsAreItems` follows, whatever is boxed. `BlockInv` ties the allocations to the fields that decide whether
a drop frees (`capacity` for a vector, `len` for a boxed slice) and adds that vectors know their
capacity (`CapacityIsTrue`); hence `BuffersAreFreed`, under `~BoxEmpty`.
`OwnerInv` says that an item is in one live slot and in no account, or in no live slot and in one
account; cardinalities appear only at its ends. Each step then says which live slots leave and where
the others move (`OwnerStep`), or which slots come alive (`ArriveOwners`); removal, swap and the
closing of a drain's gap each name their move as a function of slots. `ItemsAreOwnedOnce` follows.

`ContainersImplementSequence` is the refinement of `OwnedSequence`, for every set of items and every
capacity. The abstract elements are the live slots in order, which each operation cuts and
joins: `Cut`, `Joined` and the lemmas about them say which pieces of the memory are the abstract sequence
before and after, and one lemma per action (`...Refines`) maps it to an abstract step or a stutter.
What departs (a drain's range, an iterator's rest) and what was lost map likewise. `RangeInv` adds
that there is no range but a drain's or an iterator's.

*Buffers.* A step of `Buffers` is a step of `SingleOrVec` (`BuffersImplementContainers`), so all that is
proved of the containers holds in their blocks. `SlotsAreGrantedTheorem` adds that every slot of a
buffer lies in what the allocator granted, and that `realloc` and `free` name the grant as it was made.
`GrantInv` says what the block is: that of an array as long as the memory, whichever allocations and
reallocations it went through. The theorem is for `NarrowElements` (alignments that divide 32, that of the
prefix, so that nothing is padded), `~PushDangling`, and `~BoxEmpty`, as a lost buffer leaves a block behind. For
wider elements it is false: `MCBuffers` shows how slots then spill (`WideElementsSpill`) and move (`WideElementsMove`).
`ElementAssumption` says that sizes are numbers and alignments positive ones.

*Encodings.* `EncodingProofs` shows for every width that a `NonMax` and a `NonX` are read back and
stored as something else than the niche, that two `NonX` compare as their numbers do, that durations within range are read back from their word, and that sums carry.

*Sum types.* `Honest` is what the choice of a determinant relies on: no value shows one that its type
forbids, none has a meaning in a bit that is declared unused, each choice is read from the value's own bits,
and two values that choose differently do so for a determinant they share. `ResultIsHonest` passes it on from
both variants to a `Result`, in each of the ways in which a determinant is chosen. `TypesAssumption` asks it
of what is not a `Result`, and that the larger variant is padded to the alignment of both; each run evaluates it on its types.
`PartsAreHonest` then has it for `Result`s of `Result`s, by the least depth of one that would not be.

Two invariants hold in every build. `LeadInv`: each guard leads into a variant of what the one before it led
to, whose unused bits contain those of all around it, and no tag is in a place behind it (`Within`,
`Outside`). `BitsInv`: nothing is outside of the type, and nothing stored in bits it leaves unused.
Hence `StaysInsideTheorem` and `NichesStayFreeTheorem`.

`MemoryInv` says what is in memory: where the guards lead there is a value of the type of that place, in
each of its bits and choices (`Shows`); that and the open choices are all that is stored (`StoredAs`), and the
tags around it, which no drop sets again, are read as they were matched (`TagsRead`). Matching a value finds that
of the variant in it (`ShowsVariant`). Dropping a guard makes the whole of whatever was assigned (`ShowsWhole`):
a forbidden value that means the other variant is not there, as the variant never has it (`DiffersIsRead`), and
anything else is set again, in bits that the value does not read (`ChoicesApart`). A clone has
the same choices, since it would have been told apart (`CloneMeans`). A poll that was ready leaves `Empty`;
`IsEmpty` says through which guards it can be met until a value is assigned. All this is for
`Clear`: the build masks its tags, or no value of the type has a determinant in the byte of one. Otherwise a
match may enter the wrong variant (`TagIsOverlaid`), and what is there is no value of it. Hence
`ReadsBackTheorem` and `YieldsOnceTheorem`, for `Result`s of any types, however deep.

*Imports.* `ImportInv` adds to the three properties of `CheckedImport` who is between `Lock` and
`Publish` (one thread, exactly while the word is `LOCKED`) and what each step already knows; it holds for
any set of threads. `LinkInv` joins it with the invariants of what is called through the import, and
`DestroyedOnce` follows.

*Trait objects.* That the value is destroyed once (`GoesOnce`) needs to know who reaches it. Each handle
records which one it borrows from, and the invariant has to say that these borrows lead back to a handle
that stands for itself. As chains of borrows have any length, `BorrowsLead` says it of sets: every set of
handles that reach the value has one that stands for itself or borrows from outside of the set. A drop
that the borrow rules allow then takes away a handle nobody else leads to (`EndsAlone`). `UniqueArcs` and
`MutLeads` say whom a mutable borrow excludes, `OwnersKeep` what kind of owner the value was put into, and
`LivesOn` that it was not destroyed while it is reached. For calls (`TraitCalls`), `TablesLead` says that a
handle's table has each of its traits at the level where a call looks; `SupersBegin` shows that each cast
leaves a list whose levels begin those of the longer one, because the levels are counted from the tail.

*Interfaces.* A report holds a list of methods in a tree, and `TablesAreTold` recovers it: tables with
the same report have methods of the same names and types in the same order (`PathOf`, `FieldsAreTold`,
`SaidOfField`; a place is a sequence of numbers, so none of it needs an induction over types). `SameShapeSame` says that
`is_compatible` on reports with the same places is equality. `InterfacesInv` keeps: the table of a handle
is a provider's, of the same report as the declaration of whoever holds the handle.

*Wakers.* `ClonesAreCounted` counts with the clone and the drop half done: what is in a `hand` has an
owner too. To keep it, a clone must not take its waker from an `Arc` that is being destroyed meanwhile:
`ClonesBorrow` and `PollsLead` say that what is cloned is borrowed from a slot or from the poll around.
`Grounded`, again of sets, says that no `Arc`s are only over one another; with the least number of a poll
(`LeastOf`) it leads every waker to the executor (`WakersLead`), however deep polls and `Arc`s nest.

`CallsMatchTheorem` joins the three. It has two hypotheses. `JustArcs`: `try_as_mut` is called on `Arc`s
only; on other pointers it goes wrong (section 6). `IdsTellLengths`: between the tables that meet, compatible
reports of one ID have the same places. It is about what a program declares, since an ID does not
tell nesting in general (`NestingIsNotTold`); the run evaluates it on its instance (`LengthsAreTold`).
`ProviderAssumption` is one more use: the methods of an interface are in the order of its impl block, without
which they trade places (`ImplOrderTrades`).

Left to TLC: `ReadsBack` and `YieldsOnce` in builds that do not mask a tag with another determinant in its byte;
that the layouts which are not `Result`s are honest (`TypesAssumption`); the recursive definitions of `TypeNum`;
and liveness, which is out of the prover's reach.

## 6. Not modelled, and what was seen on the way

`PROJECT.json` lists every component with its status, and every hazard at its line. Reading the code
brought up the following. Names in parentheses are assumptions that TLC evaluates, or definitions:

* `Dyn<Weak>`: `IPtrOwned::drop` (`sync.rs:813`) decrements twice when it is the last handle. In
  `ArcWeak` (`DropDynWeak`) the memory then stays allocated, which is why `NothingLeaks` is claimed
  only without it.
* `AtomicArc::store` (`sync.rs:911`) overwrites the pointer without dropping what it owned; a
  failing `compare_exchange` (`948`) forgets the new `Arc`. `LeaksAreLostRaces` measures the latter. Loads
  rely on the former: were `store` to drop what it replaces, it would race with them as swaps do
  (`StoreDrops`).
* `ArcSlice::from` an empty `Vec` (`sync.rs:546`) writes through the prefix of a dangling pointer.
* `SingleOrVec::try_reserve` (`single_or_vec.rs:219`) drops what its comment says it leaks, so
  neither it nor `truncate` of a single item has a sound model among the others.
* `Vec::try_drain` (`vec.rs:375`) has its guard inverted; `DoubleEndedDrain::next_back`
  (`vec.rs:770`) reads one past the end.
* `BoxedSlice::try_push` on a slice that never allocated (`boxed.rs:320`) reads a prefix in front of a
  dangling pointer, and may write there (`BoxedPush` when `PushDangling` is `TRUE`).
* An empty `BoxedSlice` with capacity (`boxed.rs:339`) loses its buffer: `FromBoxed` and `DropBoxed`
  do so when `BoxEmpty` is `TRUE`.


On layouts and sum types:

* `Result` adds the size of its determinant without rounding up (`result.rs:51`, `StorageIsShort`);
  `BitDeterminant` may be overlaid by a value (`TagIsOverlaid`); data enums with `repr(u8)` offer their
  padding to others (`PaddingIsUsed`); `MaybeUninit` and `UnsafeCell` export niches of what they
  hold (`UninitUsesNiches`). The run takes types for which these do not matter.
* `MaybeResolved` overwrites the empty state when it is polled again (`future.rs:367`); it stays pending.
* Integers of fewer bits keep the bits of a difference that wraps, and compare and hash with them
  (`WrappedDifference`); the signed ones shift their `MAX` by the wrong amount (`num.rs:399`,
  `SignedMaximum`);
  `AtomicDuration` packs seconds in fewer bits than a `Duration` has (`LongDurationsWrap`);
  `AtomicInstant::update` (`time.rs:335`) measures before it swaps, so two of them may store in
  either order. `TruncateAtRightmostOne` keeps the one it is named after (`KeepsRightmostOne`).

On calls:

* `is_compatible` zips fields, which are listed from the last: a field declared first goes unnoticed
  (`report.rs:74`, `FirstFieldIsMissed`). An ID omits versions (`IdIsNotEnough`) and where names
  end (`NamesRunTogether`), and whether a type is inside of another or behind it: `T { x: A { y: u8 } }` and
  `T { y: u8, x: A {} }` have one ID and are compatible (`NestingIsNotTold`). `Result<T, Infallible>`
  reports as `T`.
* `Library::get_canaried` looks for five of the six canaries (`LoadingForgetsTheHost`).
* The `VTable::new` of an interface takes functions in the order of the impl block: two of one type
  trade places unnoticed (`interfaces.rs:1003`, `ImplOrderTrades`).
* `HasSendVt` of a table over `VtSync` asks for `Sync` (`vtable/mod.rs:344`, `SendOverSync`); a shared
  reference is `Send` if the value is (`SharedIfSend`).
* `IPtrTryAsMut` for owned pointers makes a reference to the pointer and not to the value
  (`fatptr.rs:110`); the run calls `try_as_mut` on `Arc`s only. A `downcast` succeeds on the very same
  table only. Handles of `opaque.rs` (232, 295) reborrow without a lifetime; the guards supply one.
* A waker made by `with_waker` clones with the default allocator, whatever the allocator of its
  `StableWaker` (`future.rs:133`).

On allocators:

* `alloc_array` overwrites the alignment of its layout (`alloc/mod.rs:385`): elements with more than the
  system grants unasked are moved up past the end of the block (`WideElementsSpill`), and `realloc`
  then passes an address that was not granted (`WideElementsMove`).
* `RustAlloc` shifts by the alignment but adds its prefix only (`AlignmentSpills`), and writes its prefix
  before a null check (`rust_alloc.rs:28`). The Windows shim of `LibcAlloc` passes size and alignment in the
  order of `posix_memalign`'s arguments, swapped, and reallocates aligned memory with `realloc`.

Left out for good: formatting, serialisation, the C and C++ examples, `CanariedImport` (one swap in
front of a call that only makes the linker look symbols up), `WeakSlice::force_upgrade` (unsafe, advised
against), slices, strings, closures and iterators, the parsing in the macros, and the operating system's
part of symbol lookup.
