# Verification of ztour

ztour is a C++ library of detour hooks for x86-64: it overwrites the head of a
target function with a jump, leads calls to a detour function, lets the detour
call the original function through a relocated copy of its head, and removes
hooks while other threads may be running them. This directory models the parts
of it that carry state, checks them with TLC and proves some of the results
with TLAPS. The modelled build is Linux on x86-64.

Paths are relative to the repository. `PROJECT.json` maps every definition to
the lines it stands for.

## The system

| part | state | operations | how it interacts |
|---|---|---|---|
| Call gate, `src/atomic_call_gate.h` | `num_active_calls` (atomic), `cond_mutex`, `cond_var` | `on_enter_call`, `on_exit_call`, `wait`, `num_active` | entered and left by every call of a detour, waited for by `uninstall` |
| Hook instance, `src/hook_inst_inner.*`, `src/hook_inst.cpp` | `_is_installed`, `access_mutex`, target, detour, saved bytes, code page, `call_gate`; the head of the target | `install`, `uninstall`, `change_target_func`, `ScopeGuard`, `is_being_called` | writes the head of the target, which calls read without any lock; `ScopeGuard` and the controllers go through `_inner` |
| Generated detour, `ZT_DEFINE_HOOK` in `include/ztour/hook_inst.h` | `_original_ptr`, `_hook_inst` | guard, user code, `ctx.call_original` | runs between the entry jump and the return to the caller |
| Registry and API, `src/ztour.cpp`, `src/hook_inst.cpp`, `src/mutex_holder.h` | list of hooks and its mutex | `_create`, `install_all_hooks`, `uninstall_all_hooks`, `find_hook_inst`, `all_hook_insts` | sweeps hold the registry mutex while they install and uninstall |
| Code page, `src/mem_page.*`, constructor of `Inner` | page, write offset, protection | `write_bytes`, `make_writable`, `make_executable` | holds trampoline and relocated head |
| Memory, `src/memory.*` | the mappings of the process | `alloc_page_near`, `overwrite_executable_mem`, `resolve_func_ptr`, `get_module_bin_regions`, pattern parsing and scan | page search races with other threads' mappings; patches are written under running calls |
| Relocation, encoder, decoder | none | `relocate_code`, `encode_*`, `decode_*` | used by the constructor and by `install` |

What makes the parts correct: the gate counts exactly, loses no wakeup and lets
nobody through early; a hook's flag agrees with the bytes of its target, an
uninstall waits for the calls it can know of and ends; names are unique, sweeps
visit every hook, and no operation blocks another for ever; a code page is found
within reach of the entry jump; the copy of a function's head does what the head
did; hooks of one function undo each other's patches completely; a scan reports
every occurrence and nothing else. What is hard is that calls never take a lock:
they race with patching, with the gate's notification and with the destruction
of an `Inner`; that exceptions leave operations half done; and that detours may
call the library.

## Modules

| module | models |
|---|---|
| `DrainBarrier` | what a gate promises: calls enter and leave; a wait ends only when none is inside |
| `HookLife` | what one hook promises: one thread at a time turns it over, calls get in only while the head is not the original, an uninstall drains; no bytes, mutex or gate |
| `CallGate` | `AtomicCallGate`, one action per atomic operation, lock, predicate, sleep and notification; a named instance of `DrainBarrier` with its refinement mapping |
| `HookInst` | extends `CallGate`: one hook, `install`/`uninstall` by several threads, and calls on their way through head, trampoline, guard, original and return; implements `HookLife` |
| `HookRegistry` | the hook list, creation, sweeps, find, single operations, and detours that call the library; every hook of it implements `HookLife` |
| `HookRetarget` | one hook whose target changes: construction, replacement and destruction of `Inner`, and the calls that go through it |
| `SharedTarget` | several hooks of one function: patches written byte by byte, writes that break off, and a call that executes the patched heads instruction by instruction |
| `InnerBuild` | the constructor of `Inner` as a computation: jump table, measuring, relocation, the layout of the code page, and how it ends: built, without a page, or with an instruction that cannot be decoded or moved |
| `PageAlloc` | `alloc_page_near` beside threads that map and unmap pages; the range check of `encode_rel_jmp` |
| `PatternScan` | `get_module_bin_regions`, `parse_pattern_str` and the scan, one action per line, word and round of the loop |
| `CallGate_proofs`, `HookInst_proofs`, `HookRegistry_proofs`, `HookRetarget_proofs`, `SharedTarget_proofs`, `InnerBuild_proofs`, `PageAlloc_proofs`, `PatternScan_proofs` | theorems |
| `MC*` | TLC instances |

**CallGate.** A call is one activation of a detour, so a recursive call is
another member of `Calls`. `callPc` is a call's place in `on_enter_call` /
`on_exit_call`, `waitPc` a thread's place in `wait()`. The sleepers of the
condition variable are the threads with `waitPc = "asleep"`; a sleeper may wake
without notification, as the standard allows. Atomic operations are sequentially
consistent: on x86 `fetch_add` and `fetch_sub` are locked instructions.

**HookInst.** `at` follows a call: `hop` (took the jump, not counted yet),
`detour`, `original`, `returned`, `exit`. `ctl` follows a controller through
`install` and `uninstall`; a call that throws "already installed" or "not
installed" changes nothing and has no action. A write succeeds in one step or
throws, with nothing written or after a part of the bytes (memory.cpp:91 to
107); then the head is `torn` under the flag that was found, until a write
succeeds. A call that executes a torn head gets into the target, into the hook,
or astray for good (`lost`). Which bytes are torn, writes byte by byte and
threads inside the overwritten instructions are in `SharedTarget`. `counted`
and `hoppers` are history variables.

**HookRegistry.** A thread's `th` record is the operation it runs. Exceptions
release what the scopes hold. The registry's critical sections are held over
the steps in which the code holds them: during a whole sweep, during the name
check and `push_back`. Flags are read by a sweep without `access_mutex`, as in
the code. With `DetoursCallApi` a thread inside a detour may start any
operation, on its own hook too. Entering a detour and being counted are one
step here, since `HookInst` has what lies between. Draining is `EndWait` of
`DrainBarrier`. `head` tells of each hook whether its bytes are the original,
the jump or torn, as in `HookInst`. `reached` is a history variable: the hooks that a sweep's owner
could have seen in the state the sweep wants.

**HookLife.** `HookInst` has one hook with a gate and every step of a call;
`HookRegistry` has many hooks without them. That both implement this one
specification, `HookRegistry` once for each hook (`Life(h)`), is what makes the
coarser module trustworthy about the hooks in it. `PhaseOf` maps the place of
the lock's owner to a phase; an uninstall is `done` from the moment at which it
saw the gate's counter at zero. Calls that the gate does not count are `coming`
before the guard, and gone behind it: `HookLife` keeps as much of README.md:55
as the code does (see `retarget_late` for the rest). An operation whose write
fails leaves the head as it was or torn, and calls may come through a torn head.

**HookRetarget.** `inner` holds every `Inner` built so far, `current` is
`_inner`, `originalPtr` tells into whose page `_original_ptr` points, `head`
whose trampoline a patched head leads to. Construction may throw when no page
is found (nothing is left behind) or once the page exists (the page is
released); `_original_ptr` is written last. `~MemPage` passes memory from
`mmap` to `std::free`: undefined, so the model chooses between a fault and a
page that is gone. A `fault` is undefined behaviour or the end of the process,
and the model stops there. One thread controls the hook, which leaves out the
unlocked read of the flag in `change_target_func`; patches are written
successfully (`HookInst` and `SharedTarget` have the writes that fail). A call
reads `_inner` when it
enters and again when it leaves. A drain ends when the gate of the current
`Inner` counts nobody; calls between the jump and the guard, and between
`fetch_sub` and the end of the notification, do not delay it. `late` and
`exposed` are history variables: the calls that the last `uninstall` did not
wait for and that are not through yet, and whether `change_target_func` has
begun in spite of one. `NoStaleUse` and `CallsOwnOriginal` speak of all
histories without that case: a late call is harmless while the hook keeps its
target, uninstalled or installed again, and for calls that were counted in time
nothing is lost by reading `_inner` twice. In the case itself the code promises
more than it keeps, and `retarget_late` shows how: a late call runs the
original of another function. That a late call may also run in a page that is
gone and count at a gate that is destroyed is in the model, but comes behind
the `std::free` of mmap'ed memory, which is the end already.

**SharedTarget.** What a hook patches is found when it is built, and stays: the
function, or the trampoline of the hook whose jump was in the function's head
then. `code` holds, for every such site, where each byte under the patch comes
from: the original, a jump's opcode, the operand that leads to a hook, or a
`nop`. The kernel copies the patch in an order nobody promises; the write may
end at a page border with an exception. A call executes the bytes as they are
at that moment; executing a mixture of original and patch ends in `crashed`.
`lastWriter`, `cut`, `quiet` and `exposed` are history variables.

**InnerBuild.** Memory is a function from addresses to decoded instructions
(length, kind, bits and displacement: what the code asks Zydis for), the copy a
sequence of instructions with the addresses they were made from and put at. The
bytes of the encodings are left out; displacements, bounds, refusals, offsets
in the page and the order of the writes are not. An address where nothing
decodes makes the constructor throw, and so does `alloc_page_near` when its
search fails, for any head. Assertions on the arguments and `bad_alloc` are
left out.

**PageAlloc.** Addresses are bytes, distances wrap modulo `AddrLimit`. Page 0
is never free, as Linux does not map it for processes. `stayed` is a history
variable. The code searches "as close as possible" only in steps: past the first
`StepEvery` pages it passes over free pages, and `NearPagesNotSkipped` speaks of
those before.

**PatternScan.** Memory is a function from addresses, where `Unmapped` cannot be
read. A line of `/proc/self/maps` has a range, a readable flag and a module
name, in the order of addresses; a word of a pattern is a wildcard or has the
number that `std::stoul` reads at its start. `memchr` is the first candidate at
or after `pos`; the comparison stops at the first difference and crashes if
that is at an unreadable address. The properties speak of the words of the
pattern and the lines of the map, not of what the code made of them. The
caller's offset, which is only added, is left out.

## Runs

| run | instance | shows |
|---|---|---|
| `hook` | 3 calls, 2 controllers | the gate counts exactly, loses no wakeup and implements `DrainBarrier` with its fairness; flag and bytes agree unless a write broke off, uninstall drains and ends, only calls between jump and gate are left behind; the hook implements `HookLife` |
| `registry` | 2 threads with 2 operations each, detours call the library; 3 hooks: one exists, two more of one name may be created, one of them without a target | unique names; what a sweep has done when it ends; every hook implements `HookLife`; no circle of waiting threads, each step of an operation leaves it fewer, and so every operation ends, unless a detour is busy that an uninstall waits for |
| `page` | 10 pages, targets at both ends and in the middle, every set of free pages | jump always encodes, near pages not skipped, the search ends |
| `retarget` | 2 functions, 2 calls, 3 `Inner` objects | a patched head leads to the `Inner` the hook has; the original pointer fits the target; unless a target is changed under a late call, no call meets what was destroyed or calls another function's original |
| `shared` | 3 hooks, 1 call, a jump of 3 bytes over two instructions of 2, a page border between them | whose patch a head holds, who loses its patch to whom, who can execute half a patch, in which order detours run |
| `build` | every head of up to 3 instructions of 8 sorts, given directly or through one or two jump table entries, pages below, above and out of reach | the copy means what the head means and goes on behind the patch; the page suffices; with a page found, the constructor throws exactly for cause |
| `scan` | 6 addresses, bytes of 1 bit, patterns of up to 3 words; a module with one mapping, two that touch, two around an unreadable one, none | every occurrence reported, results correct, a single answer is the only one, every round leaves less to search |
| `registry_find_in_detour` | as `registry` | **violation**, see below |
| `retarget_late` | 1 call, 2 `Inner` objects | **violation** |
| `retarget_free` | 2 `Inner` objects | **violation** |
| `scan_outside` | patterns of at most 2 | **violation** |
| `build_branch` | as `build` | **violation** |

Violations, each of a statement of the documentation that the code does not keep:

- `retarget_late`: README.md:55 promises that removal waits for the hook to be
  unused; a call that took the jump but has not run the `ScopeGuard`
  constructor is not counted, so `uninstall` returns with it in the hook's code.
  When the hook then gets another target, as README.md:41 offers, the call reads
  the original pointer of the new target and runs that function instead of its
  own. It does so before the old `Inner` is destroyed, so that nothing undefined
  has happened until then.
- `registry_find_in_detour`: README.md:40 allows looking up hooks at any time; a
  detour that does so while `uninstall_all_hooks` waits for it deadlocks with it.
- `retarget_free`: README.md:41 offers to change a hook's target; for a hook
  that has one, the old code page, mapped by `mmap`, goes to `std::free`
  (mem_page.cpp:13), with which glibc aborts. The test changes only the target
  of a hook that has none. A constructor that throws after its page was mapped
  does the same.
- `scan_outside`: ztour.h:22 speaks of scanning a specific module; `memchr` is
  given all that remains, so that a first byte found where the pattern no longer
  fits is compared with the bytes behind the region, and may be reported.
- `build_branch`: README.md:57 announces automatic relocation of RIP-relative
  instructions; the switch over the size of a relative immediate has no
  `break`s (relocation.cpp:59), so that a relative branch or call of any size
  ends in an exception, and no function with one in its head can be hooked.

What else the models show of the code, as it is and without a claim against it:

- `install_all_hooks` stops at the first hook without a target, and
  `uninstall_all_hooks` at a hook that another thread uninstalls between the
  check of its flag and its lock; `SweepSeesTo` says what has been done then.
- Of two hooks built on one function before either is installed, only the last
  one written is in effect, and uninstalling either restores the original under
  the other, which stays "installed". A hook built while another is installed
  patches that one's trampoline and runs before it; one more built while both
  are installed is refused, because only one jump is followed.
- A write that breaks off during `install` leaves half a patch under a flag
  that says "not installed": `uninstall` refuses to restore the head. One that
  breaks off during `uninstall` leaves it under "installed", and the next
  `uninstall` restores the head.
- A jump table entry that leads to another entry is refused too.
- In a pattern, a word such as `4?` is read as the byte 04. A module whose path
  has a blank is not found under its name.
- `decode_bytes` advances nothing in its loop; it has no caller.

### Bounds

Sets of calls, threads and hooks are the only bounds of `CallGate` and
`HookInst`; both have finitely many states for each. Writes may fail and tear
the head any number of times. Three calls and two
controllers contain a call that notifies late, one inside and one
arriving, while a controller waits and another wants the lock; `access_mutex`
admits one `uninstall` to the gate at a time, the proofs allow any number of
waiters. `SizeMax` is small so that a wrap of the counter would be seen;
`GateAssumption` says only that the activations can be counted. `HookRegistry`
bounds the operations of a thread by `MaxOps`; two per thread contain a sweep
against every other operation with the preparation it needs, one of them begun
inside a detour. `PageAlloc` scales the constants of the search down (steps
double every 2 iterations instead of 100, up to factor 3 instead of 100) so that
each branch is taken in an address space of 10 pages. Three `Inner` objects are
the one replaced, its replacement and a failed or second attempt; two calls are
one inside and one on its way. Three hooks of one function are two of one site
and one on the trampoline of another, or three of one site; calls only read the
code and the gates, so one shows what each does. In `InnerBuild`, displacements
have 9 bits instead of 32 (`Reach`), and the page has 47 bytes, the least that
`BuildAssumption` allows; as a jump has 5 bytes, heads of up to three
instructions contain those that end before, at and behind it and those that stop
decoding, and more, shorter instructions repeat them. Patterns of three words
have leading, inner and trailing wildcards and overlap themselves. The proofs
need none of these bounds.

### Fairness

Library code that has started keeps running (weak fairness of its steps), and
detours and originals end; nobody is obliged to call a target, to install or to
uninstall, and calls may arrive for ever. Mutexes get weak fairness only: a
thread that wants a mutex gets it if it stays free. `EveryOperationEnds` needs
no more because `MaxOps` makes the competition finite. Its first disjunct is the
one way in which the code can hang: an uninstall waits for a detour that is
itself inside an operation of the library, such as a detour that uninstalls its
own hook. A condition variable may wake spuriously but need not. `PageAlloc`
has fairness for the search, none for the other threads. `HookRetarget`,
`SharedTarget`, `InnerBuild` and `PatternScan` have no liveness property and
state no fairness.

## Proofs

`CallGate_proofs`: for any number of calls and waiters. `GateInv` is
`GateTypeOK`, `CountIsExact`, `NoLostWakeup` and `CondMutexOK` (a thread inside
a critical section of `cond_mutex` owns it). The last is what makes
`NoLostWakeup` inductive: without it a notification could fall between a
waiter's check and its sleep. The exact count rests on the library's theorems
about cardinality; it also shows that the counter never wraps. The refinement of
`DrainBarrier` follows step by step: the only step that ends a wait is
`CheckPredicate` with a zero counter, and the exact count makes that an empty
gate. Assumption: `GateAssumption`.

`HookInst_proofs`: every step of a hook is a step of its gate or leaves it alone
(`StepOfGate`), so `GateInv` carries over and `HookUsesGate` holds. `HookInv`
adds where a call may be given its place at the gate (`RouteOK`), that
`access_mutex` is held exactly inside the functions (`AccessOK`), that only an
uninstalling thread waits and leaves with nothing counted (`WaitOK`), and what
the owner of the lock knows of flag and bytes (`HeadOK`), whatever writes fail
or break off. `RemainOK` says of a call in the code of an unpatched hook that it
was there when the head was restored, counted or not, and that the counted ones
are gone once the wait is over; `RemainingCallsKnown` follows from it.
`HookImplementsLife` follows from `HookInv` step by step: the thread at work is
the one that holds the lock (`OwnersPhase`), and the step in which it sees the
counter at zero is one in which nobody is inside (`CountedOut`), which is where
the exact count of the gate enters.

`HookRegistry_proofs`: for any threads, hooks, names and detours. `RegInv` says
who owns the registry mutex and each `access_mutex` (exactly the threads inside
the sections), that an operation's state fits its kind, and what `CheckName` has
established for as long as the mutex is held, which gives unique names.
`SweepInv` adds what a sweep knows of the hooks behind it and of the one it is
at: the list does not change under the mutex, and a flag that was read may have
changed, but then the hook has been in the state the sweep wants. `SweepSeesTo`
follows as an action property. `NoDeadlock` proves `NoCircularWait` from the
order of the locks (`AwaitsFurtherOn`): who is waited for by a thread that wants
the registry does not want it too, who is waited for by one that wants a hook's
lock is inside that hook's operation, and who is waited for by one that drains
is in a detour and in no operation; so no group of threads waits only for
itself. Its exception, a drain that waits for a detour inside an operation,
cannot occur where detours do not call the library (`PlainDetoursNeverBusy`).
`OperationsFinite` bounds the steps an operation has before it (`StepsLeft`, at
most five for each hook). `HooksImplementLife` follows from `LifeInv`, what the
owner of a hook's lock knows of its flag and head. Assumption:
`RegistryAssumption`.

`HookRetarget_proofs`: for any number of functions, calls and replacements.
`LifeInv` says which `Inner` is being built, replaced or destroyed and that it
is not the current one, that patched heads lead to the current one, and whose
original the pointer holds; it needs nothing about calls. `FlightInv` adds
what is so as long as no target was changed under a late call (`Unexposed`):
calls inside the hook's code go through the current `Inner`, are counted at its
gate unless they are before or behind the count, and while the hook is
uninstalled they are `late`; `NoStaleUse` and `CallsOwnOriginal` follow. Assumption:
`RetargetAssumption`.

`SharedTarget_proofs`: for any number of hooks, layout of the head, sizes and
order of written bytes. `StoreInv` is about bytes: outside of a write, each site
holds the original or the whole patch of an installed hook of that site; during
one, what has been written is what the operation writes; a hook whose patch is
gone lost it to a sibling (`LostOK`); operands lead only to hooks that were
built. `CallsOK` says that a call which is not exposed has before it a head that
nobody writes, and is behind its first instruction only if that head is
unpatched. `RouteInv` adds that a whole patch is that of the last hook that
wrote (`LastOK`), and what the place of a call that is not overtaken by any
operation tells: which patches there are, from the function's head over the
trampoline of one hook to the next, and that its detours are those of these
hooks, in reverse (`Route`, `OnTheWay`). `DetoursInOrder` follows. Assumption:
`SharedAssumption`.

`InnerBuild_proofs`: for any code, pointers, pages and displacement width.
`BuildInv` says that the measured instructions lie one behind the other up to
`patchLength` (`MeasuredOK`), that the results are the instructions measured so
far, contiguous in the head and in the copy (`ResultsOK`), and what has been
written where (`PageOK`). That the page never runs out follows from
`BuildAssumption`, whose last conjunct the code provides: `page_size()` refuses
pages below 256 bytes. `CauseOK` says that each measured offset is one of
`Starts`, the least set that has the first instruction of the head and with each
one the next, and that a constructor that threw had no page or stands at the
instruction it threw for. `ThrowsOnlyForCause` follows: the measured offsets are in every set
that follows on, and at the end they are such a set themselves.

`PageAlloc_proofs`: `PageInv` says that a found page is at most the searched
distance away; with `MAX_SEARCH_DIST` + page size + 5 below 2^31
(`JumpAssumption`) the entry jump always encodes. `NearInv` adds that a page
near the target that stays free is still ahead of the search: as long as the
steps are one page (`Shifted[0] = 1` in `SearchAssumption`, the first
`StepEvery` of them), each distance is one page more than the one before. The
table of step sizes is otherwise any table of positive numbers. That they are
positive is why each step leaves less of the search before it
(`SearchBoundedSteps`).

`PatternScan_proofs`: for any memory, mappings and text of the pattern.
`ScanInv` adds to the types that the regions are the readable mappings of the
module read so far, in order, that the pattern stands for the words, what the
loop knows of the leading wildcards (`LeadOK`), that every occurrence the search
has passed is reported (`NothingMissed`) and that all results lie behind it
(`ResultsBehind`, which gives their order). The heart is
`OccurrenceIsCandidate`: an occurrence in the region has its first byte where
`memchr` looks, so that none lies before the hit, and one at the hit matches.
The leading wildcards and the hit of `memchr` are assigned by their defining
properties; `SearchDefined` shows, by the well-ordering of the naturals, that
there are such numbers. `ScanEnds`: each round leaves fewer regions, or less of
the region at hand. Assumption: `ScanAssumption` (mappings are ordered and
disjoint).

Only model-checked: `UninstallTerminates`, `EveryOperationEnds` and
`SearchEnds`, and that the gate implements `DrainBarrier` with its fairness:
liveness and `ENABLED` are out of the prover's reach. What carries the last two
of the three is proved as safety: nobody waits in a circle (`NoDeadlock`), and
what is left to do is a natural number that each step lowers
(`OperationsFinite`, `SearchBoundedSteps`, and `ScanEnds` for the scan). What is
left to TLC there is that fairness lets the steps happen. `UninstallTerminates`
has no such number, as calls come and go while an uninstall waits;
`NoLostWakeup` and `RemainingCallsKnown` are its proved part. All invariants and
action properties of the passing runs are proved.

## Not modelled

`src/zydis/Zydis.h` is nine tenths of the lines of the repository: the
declarations of a vendored decoder whose source is not in it. They hold no
behaviour; `InnerBuild` takes from them what an instruction is. Of the
library's own lines the models cover about half, and the rest are platform
selection, logging, byte formatting, includes, declarations, the bytes of
encodings, the Windows branches (the modelled build is Linux), and
`encode_inc_dec_atomic_counter`, `decode_bytes`, `memory::alloc` and
`executable_mem_from_bytes`, which nothing calls.

Cases left out, each for a reason:

- `change_target_func` against a second controller: it reads the flag without
  the lock and destroys the `Inner` that holds the lock, so that any
  concurrent operation on that hook may use a destroyed mutex. The models of
  `install` and `uninstall` by several threads (`HookInst`) keep the target.
- Constructors that read a head while another hook writes it, or that is torn:
  what a mixture of bytes decodes to is anything.
- A hook on the trampoline of another one whose target is changed: the page
  that is patched has then gone through `std::free`, which `retarget_free`
  already shows to be the end.
- Operands relative to EIP, functions shorter than the patch, branches from a
  function's body into its own head: the library does not look at them, and
  what they do depends on the function.
- `mprotect` failing: its result is ignored, and what it refuses is the
  system's policy.
