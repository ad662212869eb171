# Formal models of the pyaot compiler and runtime

pyaot compiles Python ahead of time: a frontend lowers Python to HIR, a type
checker and MIR passes refine it, Cranelift generates native code, and the code
runs against a Rust runtime (`src/crates/runtime`) with a tracing collector,
exceptions, generators and containers. This directory holds TLA+ modules of the
parts whose correctness depends on long histories of calls, TLC configurations
that check them on small instances, and TLAPS proofs for every instance.

`PROJECT.json` lists the components, runs, mutants, findings, hazards and
theorems, and maps every definition to the source lines it stands for.

## Inventory

| Component | State | Operations | What makes it hard | Correct when |
|---|---|---|---|---|
| Slab allocator (`runtime/src/slab.rs`) | pages, bump cursor, in-band free list, header sizes and marks | alloc, three-phase sweep | finalizers may allocate during the sweep; the free-list link overwrites the header | the free list is exactly the free slots, a sweep frees exactly the unmarked |
| Collector (`gc.rs`, `globals.rs`, `cell.rs`) | shadow stack, static slots, marks, worklist, byte counts | push, pop, unwind, alloc, mark, sweep | a collection at any allocation; cycles; callers must root | reachable implies allocated, garbage is freed, counts match |
| String pool (`string/interning.rs`) | weak map from text to string | intern, prune | a collection between lookup and insertion | only live strings, one per text |
| Exceptions (`exceptions/`, `lower/exceptions.rs`, `lower/builder.rs`) | exception in flight, handling stack, armed cause, native frames, shadow frames | raise, raise from, bare raise, catch, cleanup pads, unwinding | every exit of every block; state is thread-local, blocks are lexical | Python's block and exception rules |
| Generators (`generator.rs`, `lower/generators.rs`) | state number, exhausted, closing, sent value, armed throw | next, send, close, throw, resume, yield, return | re-entrancy between generators; exceptions skip the code after the resume; a cleanup run by close() that goes back to the body | a finished body never runs again; what is sent or thrown reaches its generator |
| Dict (`dict/`, `dict_view.rs`, `hash_table_utils.rs`) | index table, entries, lengths, iterators | set, delete, popitem, clear, resize, iterate | tombstones, compaction, reuse of entry numbers, live iterators | Python's ordered map; iteration in order, once |
| Set, frozenset (`set/`) | open-addressing table, tombstone count | add, discard, pop, update, iterate | rehash at equal capacity, live iterators | Python's set |
| Deque (`deque.rs`) | ring buffer, maxlen | append and pop at both ends, rotate, insert, delete, remove, index, count | wrap-around, growth, eviction, moves towards the nearer end | a bounded sequence |
| Class table (`semantics/src/lib.rs`, `hir/src/lib.rs`) | classes, bases, MRO, field layouts | C3, layout building | declaration order is not id order; diamonds; fields inherited twice | Python's linearisation; a field has one slot in a class and its bases |
| Dispatch (`lowering/src/dispatch.rs`, `lowering/src/lib.rs`, `runtime/src/vtable.rs`, `codegen-cranelift/src/lib.rs`) | dispatch plans, registered parents and ancestors | direct, virtual and super calls, isinstance | planned once from the static class | the body that runs is the one the receiver's MRO names |
| Interval analysis (`typeck/src/intervals.rs`) | environments per block, entry intervals, contributions, cache, pins | worklist, widening, narrowing, rounds, flags | recursion, handlers, caller caches, termination | what is untagged is in range, and the flags were computed from final seeds |
| Liveness and root slots (`mir/src/liveness.rs`, `codegen-cranelift/src/lib.rs`) | live sets, scan position, needed locals | dataflow, scan of each block | a handler may be entered between any two instructions | nothing live is freed, nothing else is rooted |
| List (`list/`, `slice_utils.rs`) | buffer, length | append, insert, pop, delete, slices, extend, repeat, search | overlapping shifts, growth, bounds, the list as its own operand | Python's list |
| Timsort (`list/timsort.rs`) | buffer, stack of runs, merge buffers | find and force runs, collapse, merge | a comparison may run user code; stability | a stable permutation in order |
| Iterators (`iterator/`) | position, exhausted flag, inner iterators | next on lists, ranges, generators, enumerate, zip, chain, islice | shared sources, two ways to tell the end, lists that grow | Python's items |
| Strings, bytes, numbers | values | the Python operations | boundaries | sequential definitions |
| Runtime library (`json.rs`, `re.rs`, `os.rs`, ...) | handles | calls into crates and the system | external code | - |
| Types, typeck | lattice, constraints | join, meet, inference | termination, lattice laws | definitions on bounded data |
| MIR and optimizer (`mir/`, `optimizer/`) | functions as graphs, line markers | constant folding, peephole, dead code, inlining, devirtualisation | handlers, loops, recursion, tracebacks through inlined frames | the program behaves as before, and passes the verifier |
| Lowering, codegen | functions | legalisation, instruction selection | translation | the program behaves as its source |
| Frontend, HIR, stdlib-defs, core-defs, diagnostics, linker, cli | syntax and tables | translation | size | - |

Interactions. Compiled code calls the runtime; every `gc_alloc` may collect, and
the collector reads the shadow stack that prologues and epilogues keep, the
static slots, and the exception state. A raise abandons native frames, and
`unwind_below` repairs the shadow stack for the collector. The collector sweeps
the slab classes and prunes the string pool. A generator's resume function is
compiled code that the runtime calls back, so an exception passes through runtime
frames. Dict keys are interned through the pool. The compiler decides ahead of
time what the runtime relies on: the root slots (`Roots`) are what `Gc` calls the
shadow stack, the class table and its registrations (`Classes`) are what a virtual
call and an `except` clause look up, the interval flags (`RawInts`) say which
slots hold an untagged integer that nothing else will check, and the optimizer
rewrites what they all run. The program runs on one thread:
the interleavings that matter are callbacks (finalizers, resume functions), calls
in any order, and exceptions that cut a call short.

## Modules

| Module | Models | Code |
|---|---|---|
| `SlabAbs` | the abstract allocator: allocate, condemn, release each condemned slot once | - |
| `Slab` | one size class, one action per source of a slot and per step of a sweep | `slab.rs`, `gc_alloc` |
| `Gc` | mutator, mark, prune, two sweeps, accounting | `gc.rs`, `interning.rs` |
| `Roots` | the liveness dataflow, the root-slot scan, and the function running under collections | `mir/src/liveness.rs`, `codegen-cranelift` |
| `Classes` | class statements, C3, layouts, dispatch, `super`, registration, `isinstance` | `semantics`, `hir`, `lowering`, `vtable.rs` |
| `PyExc` | Python's rules for blocks and exceptions, without thread-local state | - |
| `Exceptions` | the runtime's exception state and the calls compiled code makes | `exceptions/`, `lower/` |
| `Generator` | generator objects and the resume protocol | `generator.rs`, `lower/generators.rs` |
| `PyDict`, `PyDeque`, `PyList`, `PyIterators` | Python's insertion-ordered map, bounded sequence, list and iterators | - |
| `Probing` | powers of 2, and the probe sequence both tables follow | `hash_table_utils.rs` |
| `Dict` | index table, entries, live iterator | `dict/`, `dict_view.rs` |
| `HashSet` | open-addressing table, tombstone count, live iterator | `set/`, `iterator/next.rs` |
| `Deque` | ring buffer with an optional maxlen | `deque.rs` |
| `Buffers` | the loops that copy or swap slots of a buffer | `deque.rs`, `list/mutation.rs` |
| `List` | a list's buffer, call by call | `list/`, `slice_utils.rs` |
| `Timsort` | sorting, one action per comparison of a merge | `list/timsort.rs`, `list/mutation.rs` |
| `Iterators` | a program's iterators over lists, ranges, generators and one another | `iterator/`, `generator.rs` |
| `Intervals` | the interval domain and its operators | `typeck/src/intervals.rs` |
| `Flow` | programs, transfer functions, branch refinement, and Python's values | `typeck/src/intervals.rs` |
| `RawInts` | the whole-program analysis step by step, then the program running | `typeck/src/intervals.rs` |
| `Mir` | MIR programs and the machine that runs them: values, handlers, calls, source lines and tracebacks | `mir/`, `codegen-cranelift` |
| `Optimizer` | the passes of `PassManager::phase9`, one action per pass and per inlined call | `optimizer/` |
| `SeqLemmas` | lemmas on sequences, sets, remainders and buffer loops the proofs share | - |
| `RawIntsProofs`, `ExceptionsProofs`, `DequeProofs`, `ListProofs` | theorems about a component | - |
| `MemoryProofs`, `LanguageProofs`, `ContainersProofs` | theorems about the side-by-side modules, with those of `Slab`, `Roots`, `Generator`, `Gc`, `Dict` and `HashSet` | - |
| `MCMemory` | `Slab`, `Gc` and `Roots` side by side | - |
| `MCLanguage` | `Classes`, `Exceptions`, `Generator`, `Deque`, `List` and `Timsort` side by side | - |
| `MCContainers` | `Gc`, `Dict` and `HashSet` side by side | - |
| `MCCompiler` | `RawInts`, `Optimizer` and `Iterators` side by side | - |
| `MCRawInts`, `MCClasses`, `MCExceptions`, `MCGenerator`, `MCDict`, `MCSort`, `MCIterators` | instances of one component | - |
| `MCPrograms` | the programs of iterators that are run | - |

The four side-by-side modules put components in one run that share no state: the
variable `using` picks the one that moves and the others keep an initial state, or
are `Null`. The properties of each are then read in the states that use it. Where one component
relies on another (`Gc` on `Slab`, the collector on the root slots), the interface
is a property of one and an assumption of the other, named below.

**Slab.** A slot is a pair of page and index. The in-band lists `free_head` and
`pre_existing_free_head` are sequences, so a slot linked twice is a repeated
element. `pc` is the phase of `sweep_class`; `ScanSlot`, `ScanNextPage` and
`ScanEnd` are phase 1 one slot at a time, `Finalize` is one finalizer call, and
`RelinkFree`/`RelinkFinalized` are one iteration each of phase 3's loops. The
constant `Reentrant` lets a finalizer allocate: the comment at `slab.rs:170`
promises the sweep survives that although no present finalizer does it; both the
run and the proofs cover it. `kept` is a history variable, what the collector had
marked when the sweep began.

**Gc.** An object is an address with a set of references; the program may store
any pointer it can reach, or has just been given (`reg`), into a root, a static
slot or an object. `Request` is the entry of `gc_alloc`: it empties `reg`, because
what the caller did not root is lost. The collection then runs to its end
(`MarkRoot`, `Trace`, `MarkEnd`, `Prune`, `SweepSlab`, `SweepLarge`) before
`Allocate`. `ReachFrom` is defined without recursion as the intersection of the
closed sets, which the proofs use directly. `Slab` is abstracted here to what
its refinement theorem provides: a sweep frees the unmarked and unmarks the rest.

**Roots.** What `Gc` assumes of compiled code (the frame holds what the function
still needs) is what this module checks. `Pop` is one iteration of the backward
dataflow; the scan then walks each block from its end, carrying the live set,
for each local the epoch since which it has been live, and the locals found
live across a point that may collect. In a protected block what the handler
needs is live throughout (`HandlerRule`), because the exception can come from any
instruction. The function then runs: `Execute` is an instruction, which may collect every object
that no rooted local holds, and `Unwind` leaves a protected block for its handler.

**Classes.** A class is its position in the source; the members, calling
conventions, fields and builtin exceptions are the fewest that tell every decision
apart, and a program uses one theme of them. `Linearize` is C3 with its merge,
`Build` the building of one layout, `Planned` and the choices around it say what a call
site compiled for a static class does with a receiver of a subclass, and `Ancestors`
and the parent chain are the tables `rt_isinstance` walks. The properties quantify
over every static class, receiver and member of a ready program.

**Exceptions.** `ctl` is the native stack: functions with and without shadow
roots, constructors called by a raise, protected bodies, and handler bodies
(which the compiler protects by a cleanup pad). `Dispatch` is the frame-pointer
walk, the shadow-stack unwinding and the jump. `Arm` and the raise builders are
separate steps because a constructor runs between them. An exception record
carries two history fields, its Python identity and the statement that raised
it. `boundary` records that a raise ran inside an armed constructor, the case
`lower/exceptions.rs:409` documents as out of scope; `CauseOwnedToBoundary` is
the property up to it.

**Generator.** A body is arbitrary: it may yield at any of its points in any
order, catch or not, return, raise, and call any generator that is not already
running. `calls` is the stack of active calls and how far each resume function
is. The close path of a yield is the `finally` blocks around it, lowered again under
the handlers and loops outside each (`generators.rs:279`, `builder.rs:484`); so a raise in
one that an `except` of the body catches, or a `break` in one, leads back to the body
(`LeaveCleanup`). A body that then yields makes `close()` raise `RuntimeError` before
it takes `closing` back (`IgnoreClose`), and from then on each resume of that
generator runs a cleanup. `finished`, `lost` and `ignored` are history variables.

**Dict.** Positions count from 0 as in the code. `Set` is the whole of
`rt_dict_set`, load-factor check and defensive path included; `PopLast` is
`rt_dict_popitem` with its own probe and its shrinking of the entries. `fixed`,
`seen` and `rebuilt` are history variables of the one iterator. The iterator is
the one over `values()` or `items()`, which walks the entries.

**HashSet.** `Added` is the whole of `rt_set_add`, the rebuild included; `Buried`
is what every removal does to a slot and to the two counters. The in-place
algebra is one action each, with the other operand as the elements it holds (and
their table order where the code's result could depend on it: `SymmetricDifference`).
Adding an element that is already there can rebuild the table, so `IterationExact`
is stated, like the dict's, for iterations during which it did not.

**Deque.** The buffer keeps what was in a slot after the element left it, as the
code does. `Copies` moves ring slots one after the other, so an overlapping shift
in the wrong order shows. `extend`, `extendleft` and `deque(iterable)` are loops of
append and appendleft that run user code in between, and are covered as
interleavings. Each call is an operator from the ring to the ring after it and its
answer (`Result`), so that `DequeIsPython` can ask, in every reachable ring, what
every call would leave and answer. `Contents`, the mapping to `PyDeque`, is what
`rt_list_from_deque` copies when a deque is iterated.

**List.** Built like `Deque`: a buffer, a call as an operator, `PyList` as the
reference. A slot beyond the length keeps what it had, is cleared, or, after
`rt_list_extend` reallocated, holds `Junk`. The tail moves slot by slot (`Copies`), a reversal
swaps (`Swaps`). An operation that makes a new list goes
on with that list. `Unchecked` names the calls whose arguments the code does not
check and `Returning` leaves out those that never return (see the observations).

**Timsort.** An element is a key and its first position. Everything up to a merge is
one action per run; a merge is one action per comparison (`Compare`), because that is
where user code can run. `MIN_RUN` is a constant, 32 in the code. The sort by keys,
`rt_list_sort_by_keys`, is the same algorithm on pairs. The minimal run of a list is computed
by the loop of `compute_min_run`, one shift after another, and the insertion sort sinks one
element after another: both are recursive functions.

**Iterators.** A program is a sequence of iterators, each over earlier ones, some held
in variables and the others temporary; next may be called on any that is held, and
lists grow and shrink between two calls. `NextIn` is `rt_iter_next_internal` and
changes every iterator the call reaches; `Answer` is what the caller sees, who reads
the flag. `PyIterators` runs in lockstep: `py` is the same program in Python, where
the lazy iterators are the generators the library reference gives as their equivalents.

**Intervals, Flow, RawInts.** `Intervals` and `Flow` have no state, so the proofs
about the domain stand on their own. `RawInts` is the analysis with one action per
worklist pop (`PopBlock`), narrowing round (`NarrowRound`), interprocedural round
(`Round`) and function whose flags are set (`Apply`). `cache` is what `analyze_cached` keeps,
`moves` the counters that decide when an entry is widened and `pinned` the
entries given up. When the flags are set the program runs with Python's values,
one statement a step: the properties compare each store with the intervals and the
flags. The code has 16 for `WidenLimit`; `StepCap` is the budget of the worklist,
beyond which a function counts as unknown. `IsProgram` says what programs look like:
no jump and no handler leads to the entry block, which keeps its seed (the frontend
gives each loop a header block of its own, `lower/statements.rs:1174,1264,1381`), and
main takes no parameter.

**Mir, Optimizer.** `Mir` is both the language and its meaning. A program is a
sequence of functions, a function its locals' representations and its blocks, a
block its instructions, a terminator and a handler. `Advance` is one step of the
compiled program: raw arithmetic in an untagged register, exact (boxed) arithmetic in
a tagged one, an exception thrown to the innermost activation whose block has a
handler, and the location of each instruction, which is the last line marker in the
order the blocks are emitted; an inlined marker carries the frames it stands for. `Behaviour` is what a user
can tell: what is printed, how the program ends and the traceback. In
`Optimizer` each pass is one action that rewrites every function (`ConstFold`,
`Peephole`, `Dce`, `Devirt`), and the inliner is a scan (`StartInline`,
`NextCaller`, `EndInline`) with one action per inlined call, `Splice`, so that the program is
compared after every call and not only at the end. `Spliced` is the whole of
`inline_call`: renumbered locals and blocks, copied handlers, re-zeroed locals, moved arguments,
markers with their frames, the return that moves or defaults.

## Runs

| Run | Bounds | States | What it shows |
|---|---|---|---|
| `memory` | slab: 3 slots per page, 2 pages, allocating finalizers; collector: 2 objects, 2 texts, 2 frames of 1 slot, 1 static slot, a collection at every allocation; roots: 1500 functions of 2 locals and 4 blocks, 3 objects | 301 thousand | the free list, the refinement of `SlabAbs`, reclamation, termination of marking, exact and sufficient root slots |
| `language` | 4 classes (5 without bodies), 3 raise statements, 2 instances, depth 3; 3 generators, 1 yield, 2 values; deques up to 4 elements, buffer from 2, maxlen none, 0, 2, 3, indices -3 to 3; lists up to 3 elements, slice bounds -4 to 3 or absent, steps -2 to 2; sorts of up to 6 elements of 3 keys and of 9 of 2 keys, runs from 2 and 4 | 2.0 million | classes and dispatch, exceptions and the refinement of `PyExc`, generators, deques and lists against `PyDeque` and `PyList`, stable sorting |
| `containers` | 3 heap objects, 1 text, 1 slot, 1 frame, 1 static slot, sizes 1 and 3; 3 dict keys, 2 of them colliding everywhere, 2 values, capacity 4, 4 entries; 4 set elements, capacities 4 and 8 | 864 thousand | safety and exactness of every collection; lookups, calls, iterations, counters and the refinement of `PyDict` |
| `compiler` | intervals: 1728 programs of 3 functions, `Bound` 4, `WidenLimit` 2, `StepCap` 9, magnitudes up to 6; optimizer: about 260 programs of 6 functions, fixnums up to 15, `MaxInsts` 6, `Fuel` 400; 768 programs of 4 iterators over a list of up to 3 | 279 thousand | the flags are sound, the cache is current, the analysis ends; every pass and every inlined call keeps the behaviour and the tracebacks; iterators against `PyIterators` |
| `exceptions_context` | as in `language` | violation | an exception that is its own context |
| `generator_raise` | 2 generators, 2 yields | violation | a finished body runs again |
| `generator_send` | the same | violation | `next()` repeats a sent value |
| `dict_iterate` | as in `containers`, 5 entries | violation | an overwrite during iteration loses keys |
| `classes_dispatch` | 4 classes | violation | a direct call runs a base's method although the receiver inherits another |
| `raw_ints_bools` | the interval half of `compiler` | violation | a bool loses its tag |
| `iterators_exhaust` | the iterators of `compiler` | violation | an iterator over a finished generator goes on |
| `sort_rooted` | the sorts of `language` | violation | a comparison runs while elements are out of the list |

Why the bounds are enough. Two pages give the slab a last page and one that is
not, a page added by a finalizer during a sweep, and a full heap. Three objects
make chains, cycles and garbage that points at live objects; sizes 1 and 3 fall
on both sides of `SLAB_MAX_SIZE`, and a threshold of 2 makes collections
frequent but not universal; `memory` has the other extreme, `Stress`. Two locals
and a loop that may be protected, with every choice of what its instructions
allocate, move and read, give the liveness pass each of its cases (a local live
round the loop only, at the handler only, moved and then dead). Four classes make the
diamond, four and five without bodies the inconsistent hierarchies C3 rejects, and a
mixin ahead of a base. Exceptions need three levels for a raise inside a
handler inside a handler. Three generators let a call chain pass through an
unrelated one. The dict's `MinCap` is 4 in the runs and 8 in the code: with three
colliding keys a table of 4 fills with tombstones, reaches the defensive path
and is rebuilt smaller and larger within four entries; the iteration that skips keys
needs a fifth. The same `MinCap` makes a
set of four elements rebuild at its own capacity, with reused tombstones, and at
twice its capacity. A deque buffer of 2 grows and wraps with four elements.
A list of three has a first, a middle and a last position to shift towards and away
from, and its buffer grows by one step and by several. Nine elements in runs of two are the
fewest for which three runs wait and the outer two are merged first. Four iterators
are two sources, one built over both, and one built over that and a source again. The
programs of the intervals in `compiler` are a main, a loop and a leaf that may call itself: calls
from inside and outside the loop, a handler, a bool argument, growing, shrinking
and bounded updates; a bound of 4 makes the results leave the range, the widening
limit of 2 is reached by recursion and the step budget of 9 by some loops. The programs of
the optimizer are a main that calls a function for 2, 1 and 0, by name or through a
closure made once, in the loop, by another function or again after the call, with the right or a wrong number of
arguments, inside a `try` or not. The function is one of
seventeen: arithmetic that overflows the fixnums or divides by zero, a fall off the
end, a local that may be unbound, recursion (alone or mutual), a call under a handler of its own or in
a short-circuit block without a line, a raw loop, a coercion round trip, a
condition known at compile time. Each pass changes some of them, and `MaxInsts` of
6 leaves some callees too large to inline; the code has 64, and its growth limit of eight times that is in
the model but not reached. `Fuel` is more than twice the steps of the longest program. Names
of bounds: `MaxPages`, `MaxDepth`, `MaxExc`, `MaxInst`, `MaxEntries`, `MaxCap`,
`MaxClasses`, `MaxBare`, `MaxLen`, `Indices`, `Bounds`, `Steps`, `Counts`, `MaxCount`,
`SortInputs`, `MinRuns`, `Programs`, `Requests`, `Yields`, `MaxValue`, `FixnumMax`, `MaxInsts`, `Fuel`.

Deadlock. The check is off where the system really stops: `gc_alloc`
panics when memory is exhausted (here, when all addresses are live), an
uncaught exception ends the process, a class hierarchy ends at its last class, and the
analysed function or program of `Roots` and `RawInts` returns, the pipeline of
`Optimizer` is over, a list is sorted. It is on for the
generator and dict runs, whose systems never stop.

Fairness. `MemorySpec` assumes weak fairness of the sweep step and of the
collection; in `compiler` the conjunct of `CompilerSpec` for the intervals, which is
`RawInts!FairSpec`, says that the analysis keeps taking steps until it reaches the
stage where the program runs (a disjunction with `[]<>`, since nothing else moves
before). They are loops without waiting on the compiler's or mutator's
own thread, so once entered they run; no fairness is assumed of the mutator, of a
finalizer's allocations or of the program. (A finalizer that allocates for ever
exhausts the pages.)

## Properties

- Slab: `FreeListSound` (no slot twice, none lost, none occupied),
  `KeptSurvive`, `ImplementsAbs`, `GarbageReclaimed`.
- Gc: `NoDangling`, `PoolSound`, `HeapAccounted`, `CollectsExactly`,
  `CollectionEnds`.
- Roots: `UsesLive` (no read of a freed object, wherever the collection and the
  exception fall), `RootsExact` (a slot exactly where a path definition of
  liveness asks for one).
- Classes: `MroLinear` (C3 against its axioms), `FieldSlotsStable`, `DispatchExact`
  (a virtual call and a planned call run the receiver's method), `VirtualCallAbi`
  (caller and callee agree on the convention), `SuperVisitsAll`, `InheritsSound`
  (`isinstance` invents no ancestor).
- Exceptions: `HandlingMatches` (the run-time stack of handled exceptions is the
  lexical nesting), `ShadowMatches` (the shadow stack is the active frames),
  `CauseOwnedToBoundary`, `ImplementsPython`.
- Generator: `GeneratorFlagsSound` (no finished generator is resumed, and no resume
  takes the close path but for a `close()` under way or one the body yielded to, unless
  the body raised), `ThrowDelivered`.
- Dict and set: `ContainersLookupExact`, `ContainersIterationSound`,
  `ContainersCallsExact` (a call changes the keys it names only, even when it
  rebuilds the table), `FillExact` (the set's counters are exact and an empty slot
  is always left), `DictIsPython`.
- Deque and list: `SequencesArePython`, in every reachable ring or buffer each call leaves the items and gives the answer of `PyDeque` or `PyList`.
- Sort: `SortIsStable` (with, in the type invariant, the runs on the stack adjacent and
  in order).
- Iterators: `IteratorsArePython`, in the programs whose sources the code can tell the
  end of (`Faithful`).
- Intervals: `CacheCurrent` (the flags use no analysis made under an older seed),
  `EnvSound` (every value lies in the interval of its local, at handlers too),
  `RawInBound` (what is stored, computed or returned untagged is within the bound),
  `IntervalsEnd`.
- Optimizer: `BehaviourKept` (after every pass and every inlined call the program
  prints, ends and traces back as it was written).

Each state-carrying run has one type invariant besides: those of the side-by-side
modules are the conjunction of their components'. The types are chosen to say something (the
free list within carved slots, the ring window within its capacity and maxlen, a
builtin exception base that is the class's own or that of the first of all its ancestors that has
one). For the optimizer it is the verifier: every instruction reads and writes the
representations it is for, calls and closures match their callee, coercions are legal,
and control stays in the function (`Verified`, after `mir/src/verify.rs`), before, between
and after the passes; so the programs checked are ones the compiler would accept.

## Findings

1. **An exception can be its own context** (`NotOwnContext`). `new_context`
   (`exceptions/state.rs:78`) recognises the handled exception by its instance,
   which does not exist until a handler binds it; a bare `raise` copies the
   exception before that, and the copy then gets an instance of its own.
2. **A generator whose body raised is resumed again** (`FinishedNeverResumed`).
   Only `throw()` marks it finished before the exception leaves
   (`generator.rs:29-36`).
3. **`next()` after `send(v)` sends `v` again** (`NextSendsNone`). `sent_value` is
   never reset (`generator.rs:325`).
4. **Overwriting a value during iteration can skip keys** (`IterationComplete`).
   `rt_dict_set` checks the load factor before it looks the key up
   (`dict/ops.rs:66-73`), and a rebuild compacts the entries under the iterator.
   The checked property `ContainersIterationSound` is what does hold: order and no
   repetition always, completeness when no rebuild happened.
5. **A devirtualised call can run the wrong method** (`DispatchFollowsReceiver`).
   A call is direct when no subclass of the static class overrides the method
   (`lowering/src/lib.rs:4247`), but a subclass that only inherits may have another
   definition earlier in its MRO: `class D(Mixin, Base): pass`.
6. **A bool can lose its tag** (`BoolsKept`). After `if x == 1` the analysis
   believes `x` to be a small integer (`intervals.rs:899`) although it may be
   `True`, and what is assigned from it is stored untagged.
7. **`enumerate`, `zip` and `islice` do not see a generator end** (`StopsWithSource`).
   They compare what the source gives with `EXHAUSTED_SENTINEL` (`iterator/next.rs:492`),
   but a generator that ends gives None and then null (`next.rs:36-46`) and tells by its
   flag, which only `chain`, `map` and `filter` read. `for i, x in enumerate(g)` goes on
   for ever.
8. **A merge compares with elements out of the list** (`ElementsRooted`). From 32
   elements on, `list.sort()` merges through two buffers that are no roots
   (`list/timsort.rs:387`). The comment at `list/mutation.rs:425-429` says that no
   allocation happens meanwhile, but a comparison of instances runs their `__lt__`: a
   collection in it frees elements the slots no longer hold, and an exception leaves the
   list with elements lost and others twice.

Observations, which contradict Python but no statement in the repository:

- `xs[9] = v` beyond the end is ignored (`list/core.rs:52-75`), and `pop` of an empty list
  or a bad index gives a null pointer (`list/mutation.rs:28`): `Unchecked` leaves them out.
- A negative `maxlen` other than -1 is taken for none, where Python raises `ValueError`;
  `object.rs:269` documents -1 only, and `MaxLens` has no other.
- A slice assignment or deletion with step 0 collects its first position for ever, or
  nothing (`slice_utils.rs:236-252`), where Python raises `ValueError`: `Returning`.
- An `islice` that stops leaves its source where its last item was, where Python draws up
  to the stop: `Faithful` asks that nobody else uses that source.
- `reversed(xs)` does not look at the end it starts from (`iterator/next.rs:247`), so after
  the list shrank it reads slots past the length: `PopFrom` is left out of programs with
  a reversed iterator.
- A class that reaches a second builtin exception through a user base is not an instance
  of it: the registration gives a class one parent, its user ancestors and its own
  builtin base (`codegen-cranelift/src/lib.rs:1026-1039`, though `vtable.rs:256-258` says the
  ancestors' chains contribute). `InheritsSound` is the half that holds.
- A function annotated `int` that falls off its end with an untagged return gives the bits
  of None as an integer, or 0 where the call was inlined; the programs of `compiler` have none.

## Proofs

The theorems are stated of the specifications the runs check, `MemorySpec`,
`LanguageSpec`, `ContainersSpec` and `RawInts`' `Spec`: `MemoryProofs`, `LanguageProofs` and
`ContainersProofs` extend a side-by-side module. The arguments about one component are
in a module that extends the component alone where they are long (`RawIntsProofs`,
`ExceptionsProofs`, `DequeProofs`, `ListProofs`), and otherwise beside the theorems. The bridge is that the
run's `Init` and `Next` are those of the component while the component moves, and leave
its variables alone otherwise.

**`Slab`** (`MemoryProofs`), for every number of pages and slots and whether or not
finalizers allocate: `TypeCorrect`, `FreeListCorrect`, `KeptCorrect` and
`Refinement` (`Spec` implements `SlabAbs`). The assumption is `SlabAssumption`.
`FreeListSound` alone is not inductive: during a sweep the free slots are spread
over the two in-band lists, `to_finalize`, the slots not scanned yet and those
handed to finalizers. The invariant `Inv` says, for each phase, that these parts
are disjoint, that each list is injective, and which slots are accounted for
where; preservation has one step per action.

**`Gc`** (`ContainersProofs`), for every finite set of objects and every set of root slots
and static slots: `NothingDangles`, `PoolCorrect`, `Exact` and `AccountIsExact`
from `GcAssumption`. The inductive invariant has the tri-colour part (marked and
off the worklist implies its fields are marked; everything marked is reachable;
every root is pending or marked) and a phase part (after marking, marked equals
reachable; after the slab sweep, only large objects may be dead). Reachability as
an intersection of closed sets needs no induction: to show that the marked set
contains everything reachable it is enough that it is closed and contains the
roots. `HeapAccounted` needs `Accounted` as well (a request is for a size the program
uses, and the threshold is not exceeded when an allocation proceeds): `SumSizes` is the
number of bytes of a set of objects, so that the library's theorems about finite sets
give that disjoint sets add up, which an induction on a sum would have to.

**`Dict`** (`ContainersProofs`), for every set of keys, every hash
function and every least capacity (`DictAssumption`; `NextPower` finds a power of 2
between `n` and `2n` for every `n`): `LookupIsExact`, `CallsAreExact`,
`IterationIsSound` and `DictImplementsPython`, with `HashSet`'s half of the first three.
`LookupExact` is not inductive: it says where a lookup ends, not why it will still end there
after the next insertion. The invariant (`DictInv`) adds why:

- every index slot is empty, deleted or the number of one entry, and every live entry
  is on the probe sequence of its key, with no empty slot before it (a removal must
  therefore leave a `DUMMY`, and `popitem`, which shrinks the entries, must not leave its number behind);
- no two live entries have the same key, `len` counts them, and the entries fit the table;
- the iterator's index is within the entries, and what it has yielded while no key came or
  went is the keys of the live entries up to it, all of them in order unless the table
  was rebuilt.

That an insertion finds a slot rests on number theory: hash + i(i+1)/2 visits every
slot of a table whose size is a power of 2 (`ProbesVisitAll`). Two probes that meet give
(j - i)(i + j + 1) = 2 cap k; one of the factors is odd, so the other is a multiple of 2 cap
(`OddFactor`), which neither is; distinct probes are therefore as many as
the slots. Powers of 2 are defined by their divisors, since the prover has no
exponentials, and the least one at or above `n` exists because doubling keeps the
property. A full table of the dict, which has no empty slot left, is covered. The live entries
of an array are what `Living` computes; a position's rank among them (`Rank`) says where an
entry is in the list of items, so that deletion, overwriting and compaction become facts
about ranks and the refinement of `PyDict` follows call by call.

**`HashSet`** (`ContainersProofs`), from `HashSetAssumption`: the same for its one table, and
`FillIsExact`: `len` and `tombstones` are the numbers of live and deleted slots, and their sum
stays below the capacity, so an empty slot always ends a probe. A rebuild at equal
capacity relies on it: less than half the table is live, so every element finds
a slot again (`SetResizeLemma`). In-place symmetric difference decides membership by the set before
the call while it inserts into the set after; that the two decisions agree is
`AfterAll`.

**`Deque`** (`DequeProofs`, and `LanguageProofs` for the run), for every set of values, every
capacity, maxlen, index and rotation (`DequeAssumption`): `DequeTyped` and
`DequeAsPython`. The inductive invariant is small (`RingOK`: every slot of the window holds a
stored value, and the window fits the capacity and maxlen); the work is in what one call
does. Each call is shown to leave a window that `Shows` a sequence slot by slot, and
that sequence to be the one `PyDeque` computes. Four facts carry the calls:

- a loop of copies that never reads a slot it has already written moves every item
  (`CopiesMove`), which is what the direction of each loop in `insert` and `del` is for; the loop of
  swaps in `reverse` likewise (`SwapsExchange`);
- slots of the window are distinct as long as it is no longer than the capacity
  (`RingDistinct`), so that an item's turn decides its slot;
- a full ring may be rotated by its head because every slot is in the window, and any
  other by permuting the window (`RotatedIs`), to the same sequence;
- growing leaves the items where they were in the order (`Grown`), and an eviction
  at either end drops one item of the sequence (`DropFirst`, `DropLast`).

**`List`** (`ListProofs`, and `LanguageProofs` for the run), for every set of values, index,
slice, repetition and operand (`ListAssumption`): `ListTyped` and `ListAsPython`; with
`DequeAsPython` this is `SequencesAsPython`, the property the run checks. Again the inductive
invariant is small (`BufferOK`: the live slots hold stored values and fit the buffer), and
that `Zero` or `Junk` never shows follows from what each call does with the slots it
uncovers. Insertion, removal and reversal use the facts on copies and swaps above;
beyond them:

- a position set has one enumeration in the direction of a step (`OneEnumeration`), so it is
  enough that the code's loop visits the positions `slice.indices()` selects, in its own
  direction (`TurnsEnumerate`, `SelectionIs`), although their number is a rounded quotient in the code and a
  remainder decides them in Python;
- the code clamps the stop of a slice that goes backwards at `len`, Python at `len - 1`: the two
  differ and then both select nothing (`BoundsAre`);
- one pass keeps the positions that were not selected, in ascending order (`KeptIs`), and
  writes to distinct positions leave each the value that was meant for it (`AssignedAre`);
- assignment to a contiguous slice moves what follows it by the difference of the lengths,
  either way, also when the buffer is reallocated and only its live slots come along
  (`SliceAssignedIs`).

`Unchecked` calls, where the code returns although Python raises, are outside the claim about
answers but within that about the buffer: they leave it whole as well.

**`Roots`** (`MemoryProofs`), for every family of functions whose blocks are well formed
(`RootsAssumption`) and every set of objects: `RootsSuffice`, no instruction, block
end or handler reads an object that a collection freed. The invariant has four parts
besides the type: `Settling`, every block not on the worklist already satisfies
its dataflow equation; `ScanSound`, relating the scan's live set and epochs at a
position to the locals live before that position (`LiveBefore`), so that every
allocation passed so far is covered; `Decided`, the same for all blocks when the scan
ended; and `RunSound`, no live local of the running function holds a freed object.
`AnalysisInvariant` is that invariant.
`RootsAreExact` is the other direction too: a slot is given exactly to a root-typed local
that an allocation point reaches live, where the points at which a local is live are the
least set that contains the readers and goes backwards along the paths that do not write
it. That the dataflow reports no more than this set needs `LiveOnly` (every live set
found so far is below it) and `NeededOnly` (every slot asked for has an allocation
that justifies it); that it reports no less follows because what the settled
equations compute is closed and therefore contains the least set.

**`Exceptions`** (`ExceptionsProofs`, and `LanguageProofs` for the run), for every number
of raise statements, instances and nested blocks (`ExceptionsAssumption`):
`HandlingIsNested`, `ShadowIsActive`, `CauseIsOwn` and `BehavesAsPython`, that the runtime
implements `PyExc`. None of the four is inductive alone. The invariant adds
what the numbers of exceptions promise (`IdsFresh`: the exception a constructor
is about to make is known to no variable, block or handling entry, so giving it
out cannot disturb an older one), who owns what is armed (`PendingOwned`: as long as no
constructor raised inside another's arming, the armed cause is that of the armed statement or of the
one innermost constructor, and nothing is armed otherwise), and that every exception in flight or
handled has its own cause (`CausesOwned`). `HandlingMatches` says that a list of positions,
decreasing towards the bottom of the stack, pairs the handlers of `ctl` with
`handling`; unwinding several blocks at once then cuts both lists at the same place. The
refinement maps `ctl` to Python's blocks one by one; an unwinding step of the run-time,
which abandons many frames, is one step of `PyExc`.

**`Generator`** (`LanguageProofs`), for any number of generators, yields and values
(`GeneratorAssumption`): `ThrowIsDelivered` and `FlagsAreSound`. The
invariant, `GeneratorsInvariant`, says for each call on the stack, by the point it is at, which flags of
its generator it relies on (`CallGood`), that active calls are of distinct
generators, that all but the innermost wait in a body or a cleanup, and that a `closing` flag
outlives its `close()` only where the body yielded to one or raised; so a call that pushes another changes nothing
the calls below rely on, which is the reason a `throw` survives the calls its body makes.

**`Intervals`, `Flow`** (`RawIntsProofs`): the operators of the domain lose no value, for every
`Bound` and every representation of infinity beyond the products of two bounded
numbers (`IntervalsAssumption`): `StatementSound` for the transfer function of a
statement, `BranchSound` for the refinement on the side of a branch that is taken.
Multiplication and floor division need lemmas on monotonicity, since the provers do
no non-linear arithmetic unaided.

**`RawInts`** (`RawIntsProofs`), for every family of programs: the whole analysis is
sound. `EnvIsSound` (`EnvSound`: whenever a run enters a block, every local lies in the
interval recorded there) and `RawIsBounded` (`RawInBound`: what is stored, computed or
returned untagged stays within the bound, and an untagged division never meets zero).
The argument has three layers.

- One function. `Reach(f, seed)` is the set of points (block, position, store) of all
  runs of `f` from arguments within `seed`, defined as the least set closed under
  `Steps` and `Leaves`; `SoundFor` says that the environments of an analysis cover it.
  While the worklist is not empty, every reached block that is not on it is settled:
  its successors hold all it sends (`FactsInv`). So when the worklist is empty the
  environments cover a closed set, hence `Reach` (`SettledSound`), wherever widening was
  applied. Narrowing keeps `SoundFor` without any monotonicity: a reachable store is
  within the old environment and, as its predecessor is covered, within the recomputed
  one, and narrowing keeps what both allow (`NarrowedSound`).
- The rounds. `CacheInv`: a function whose cached seed is not today's is dirty;
  `MovesInv`: `moves` is bounded and what is pinned is everything. They prove
  `CacheCorrect` (when the flags are computed each cached analysis has the final
  seed), `RoundsBounded` (an entry moves at most `WidenLimit` times before it is pinned)
  and `PinnedForever`. When the rounds end, each entry is everything or the join of
  all contributions, and each caller's contribution is that of its cached analysis
  (`EntriesInv`, `CachesInv`).
- The run. The running activation is at a point of `Reach` for its function's seed
  (`RunInv`): a call's argument lies in the callee's seed because the caller
  contributed it (`ArgumentSound`), and a write to an untagged slot is small because
  all its writers are eligible (`WrittenSmall`).

Assumed of the constants (`RawIntsAssumption`): the programs are programs
(`IsProgram`), and runs compute no integer beyond what the analysis can name
(`MaxValue`), the i128 range in the code. The other fixed point the provers cannot
reach, the loop heads, is not needed: the proof holds for any set of heads.

`SeqLemmas` holds the facts on `Head`, `Tail`, `Append`, `Cons`, suffixes and injectivity
that the proofs share, what a loop of copies or swaps leaves in a buffer, and least
elements of sets of naturals, which stand in for induction where a proof needs it.

**`Timsort`** (`ListProofs`, then `LanguageProofs` for the run's instance), for every
family of integer keys, every minimal run of at least 2, and both directions
(`TimsortAssumption`): `SortCorrect` and `SortsStably` (`SortIsStable`). An element has a key and its first
position, so "sorted and stable" is one strict total order (`SortsBefore`), and the argument is that a slice
of the buffer is `Good`: strictly in that order, and holding exactly the elements that were in those slots
at first. The invariant, `SortInv`, says that each run on the stack is `Good` and the runs tile the slots up to
`start` (`Chain`), that what lies beyond is untouched, and, during a merge, that the slots written
are in order and hold what was taken from either side, all of it before what is left (`Placed`). A
merge of two adjacent `Good` runs leaves a `Good` run: equal keys stay in order because every element of the
left run was first at a lower position, which is why the code takes from the right only when it is strictly less.
A descending run is strictly descending, so its reversal swaps no equal elements (`CountRunIs`). When the stack
is down to one run it is the list. Which pairs are merged, and when, plays no part.

Loops the code runs a number of times that depends on its data (the shifts of the minimal run,
the elements an insertion sort sinks, a rebuild, the filter of
the live entries, symmetric difference, the moves of a deque or a list, repetition, deletion of and assignment to a slice) are recursive functions, and what they
compute is proved by the least counterexample (`SeqLemmas`), where an induction
theorem of the library would take an operator.

Model-checked only: the three liveness properties (fairness is beyond the prover); all of
`Classes`, `Iterators`, `Mir` and `Optimizer`, whose operators are
folds over an operator or `RECURSIVE`, which the prover cannot expand; and with them the
type invariants of `MCLanguage` and `MCCompiler`.

## Not modelled

Type inference and the syntax-directed translations (frontend, HIR and MIR
lowering) are large and have no state to interleave: a model of them would be a
transliteration. Instruction selection, diagnostics, tables and text formatting
likewise. The standard library wraps Rust crates and system calls. Strings and
numbers are sequential code over unbounded data that reference tests cover directly.

Within the modelled components: user-defined `__eq__` and `__hash__` inside dict and
set probes; a generator that calls itself while running; exception messages,
tracebacks and groups; class attributes and properties; type annotations and float
arithmetic in the interval analysis, and its clamp on the number of rounds
(`intervals.rs:342-344`), which widening and pinning keep out of reach; iterators over user classes and over data that
cannot change; in the optimizer, float and bitwise folding, generators in the inliner, thunks
with varargs or keywords, and blocks that lowering synthesises without a line marker
(`lowering/src/lib.rs:399-403`), where a raise is reported at the line of the block emitted
before. A tuple is built by one instruction of `Mir`, and the re-zeroing of inlined locals
(`ReadFirst`) finds nothing to do in lowered programs, whose locals are already
initialised where they might be unbound. `PROJECT.json` gives the reason for each
component.

## Plan

1. The type lattice's laws; iterators over user classes and `__iter__`.
2. Proofs: C3 (`MroLinear`), once its folds are recursive functions, as the moves of
   `Deque` and `List` and the insertion sort are.
3. User callbacks inside probes and searches, and re-entrant generators.
