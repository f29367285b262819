# vignette, specified

vignette is a sampling profiler for the threads of its own process.  A
`Session` asks for a thread by its kernel id; the `Sampler` stops that thread,
hands its registers to a callback and lets it go on; the callback walks the
stack with libunwind.  Afterwards the `Outputter` turns instruction pointers
into modules and offsets, and two programs, `resolve` and `speedscope`, add
names and change the format.

The directory holds TLA+ modules for those parts, configurations that check
them with TLC, and proofs checked with TLAPS.  Paths below are relative to
`src/`.

## Inventory

| Part | State | Operations | What is hard |
|---|---|---|---|
| Linux sampler, `vignette/src/lib_linux.rs` 28-235 | the static `SHARED_STATE` (three semaphores, a context) | `suspend_and_resume_thread`, `sigprof_handler` | two threads and a signal handler share a static without a lock; EINTR; the target may be dead; the callback may panic |
| Sampler lifetime, `lib_linux.rs` 128-208 | the process's SIGPROF disposition, the one each Sampler remembers | `new`, `drop` | several Samplers, in any order |
| Unwinder, `lib_linux.rs` 243-306, `lib_mac.rs` 79-147 | a cursor, a vector of fixed capacity | `new`, `unwind` | runs with the target stopped: must not allocate, must end on any stack |
| macOS sampler, `lib_mac.rs` 25-73 | the kernel's suspend counts | `suspend_and_resume_thread` | failures between suspend and resume, a caller that suspends itself |
| Session, `vignette/src/lib.rs` 26-93 | samples by thread | `sample_thread`, `finish` | the suspended thread may hold the allocator's lock |
| Module cache, `module_cache/linux.rs`, `mac.rs` | address ranges with a name and build ID | `get_or_insert` | upper bounds are guessed and extended, in whatever order addresses come; libraries come and go, files are replaced |
| Outputter, `output.rs` | module cache, table of modules, table of frames | `output` | indices into lists that grow across profiles |
| Resolver, `bin/resolve.rs` | symbols loaded so far | `get_or_create_cache`, `resolve_frame` | symbol files written meanwhile; frames must keep their index |
| Symbol generation, `bin/generate_symbols.rs` | the symbol files | `main` | truncates and writes in place; the result of the write is dropped |
| Speedscope export, `speedscope.rs`, `bin/speedscope.rs` | none | a conversion | order of frames, keys of samples |
| `threadinfo`, and the loop of `examples/sample_once.rs` | the iterator | enumerating threads, `tgkill`, `thread_suspend` | threads start and terminate meanwhile, ids are used again |
| `build.rs`, `relative_addr.py`, the rest of the examples | none | no state of the system | |

How they interact: `Session` calls the sampler with the unwinder's `unwind` as
callback; the sampler and the signal handler talk through `SHARED_STATE`;
`Outputter` calls the module cache for every frame; the programs read what the
ones before them wrote.  `PROJECT.json` lists, under `hazards`, every place
where this can go wrong and which property would notice.

## Modules

| Module | Models | Used by |
|---|---|---|
| `Suspension` | what any sampler promises: ask, freeze, look, thaw, return | refined by `SuspendResume` and `MachSampler`, instantiated by `Session` |
| `SuspendResume` | the Linux call, the handler, semaphores, EINTR, dying threads, panics | |
| `SignalHandler` | `Sampler::new` and `Drop` | |
| `MachSampler` | the macOS call | extended by `MachWalk` |
| `Unwinder` | the walks, one per sample | extended by `MachWalk` |
| `MachWalk` | a whole sample on macOS: the call, with the walk in its callback, on a stack that belongs to its thread | |
| `Session` | `sample_thread`, the allocator's lock, failing walks | extended by `Passes` |
| `Passes` | the loop over all threads, `thread_iterator`, threads that start and terminate | |
| `ModuleCache` | `get_or_insert` on both platforms, the dynamic loader, the files | instantiated by `Recording` |
| `VecHashMap`, `Outputter` | the tables, and the loop of `output` | `Outputter` extends `VecHashMap`; extended by `Recording` |
| `Speedscope` | what `resolve` and `speedscope` make of a profile, as operators | |
| `Recording` | `Outputter`, `ModuleCache` and `Speedscope` together: a sample from recorded addresses to the exported file | |
| `Resolver` | the symbol cache and the loop of `main`, whatever it reads | refined by `Symbolize` |
| `Symbolize` | `generate_symbols`, the symbol files, and the resolver reading them | |
| `MC*` | the instances TLC checks | |
| `*Proofs` | the theorems | |

State and actions follow the code.  In `SuspendResume`, `pc[s]` is where thread
`s` is in `suspend_and_resume_thread`, `handler[t]` where thread `t` is in
`sigprof_handler`, and `msg2`, `msg3`, `msg4`, `context` are the fields of
`SHARED_STATE`; each statement that touches the static or may block is an
action, so every interleaving of caller, handler, signals and other threads is
a behaviour.  `as_ref().unwrap()` on `None` leads to the point `"unwrap"`,
which nothing leaves.  `CallbackPanics` skips the rest of the call, as
unwinding does, and leaves the static as it is.  `wait_through_intr` is a wait
that `Interrupted` may break off and `Retry` takes up again.  A debug and a
release build differ in `DebugAssertions`.

In `MachSampler` the kernel keeps a suspend count per thread.  Each of the three
Mach calls has an action for its failure, which panics: because the thread is
gone, or because it is one of `Failing`, the threads that cannot be unwound or
whose Mach calls fail for a reason that is not modelled.  A thread may
terminate on its own or be terminated while it is suspended.  `left` counts the
suspensions that a panic has left behind.  `DebugAssertions` decides, as on
Linux, whether a thread may be its own target.

In `Unwinder` the stack is any function from code to caller, so stacks with
cycles are included, and another one for every walk.  `MachWalk` puts the walk
into the callback of `MachSampler`, step by step: the stack is that of the
thread asked for, and changes whenever that thread executes (`RunOnStack`), so
what the walk collects depends on the thread being held.  A walk that ends with
`Err` is the callback's panic.

In `ModuleCache` each branch of `get_or_insert` is an action, and so is what
the dynamic loader and the file system do between lookups: `Load`, `Unload`,
and `Replace`, after which the file at an image's path is another.  A file is
its notes (ELF) or its images (Mach-O), each of which may be one that does not
parse; which of them gives the build ID is computed as the code does it, and
`os` says which of the two files is compiled.  `once` is the history of all
that was ever loaded, for properties only.

In `Outputter` the loop of `output` advances by one thread, sample or frame per
step, and what the module cache answers is any module with an offset, or none.
`Recording` lets `ModuleCache` answer, for recorded addresses (`ips`), and
follows the profile through `Speedscope`.  What was returned is forgotten when
the next profile is begun; the tables and the cache are not.

In `Session` the call is taken from `Suspension`, and one
lock stands for the allocator arena that holds the vector of frames.  `Passes`
adds the loop of `sample_once`: `pending` is what the iterator is still to
give, `alive` the ids in use, and `lost` says that a signal went to a thread
that was gone.  `/proc/self/task` is read as the loop goes on, so a thread that
starts meanwhile may or may not be given, and so may one that terminates;
macOS takes a snapshot, which is one of these cases.  Nothing bounds how many
threads start in a pass: the samples of a thread are kept as the set of those
that differ, and `taken`, how often the thread that has an id now was sampled in
this pass, begins anew with every pass and every thread, so the model is finite
without a limit on what happens.

`Symbolize` has any number of `generate_symbols`, each of which truncates its
file, writes it in blocks and may be stopped at any point; a resolver reads
block by block until a read returns nothing.  Opening with truncation and a
write exclude other writes to the file, as the kernel's inode lock does; a read
may see any part of a write.  Its resolver steps are those of `Resolver`.

External parts are modelled from how the code uses them: signal delivery
(standard signals merge, SIGPROF is blocked in its handler since there is no
`SA_NODEFER`), the scheduler, POSIX semaphores (sequentially consistent, kept
in a static, so that a thread left waiting by an earlier call waits on the same
memory as the semaphore that replaces it), Mach suspend counts, `dladdr`,
libunwind's return values, the allocator's lock.  `Vec::with_capacity(n)` is
taken to give exactly `n`, which it does for elements that are not zero-sized.

## Runs

| Run | Checks | Bounds |
|---|---|---|
| `suspend_resume_calls` | with callbacks that return: no `unwrap` meets `None`, the static is clear between calls, the target is past its wait before the call returns; the whole implements `Suspension`; every call returns and every stopped thread goes on, whatever interrupts the waits | 3 threads, each caller and target; 2 places |
| `suspend_resume_faults` | with panics, dying threads and no debug assertions: what a callback sees is still the held target's context; caller and target never wait for each other (`NobodyStuck`); the inductive invariant | the same, 2 mortal |
| `signal_handler_nested` | every sample's signal meets the handler, the application gets its disposition back | 4 Samplers |
| `module_cache_lookup` | ranges stay in an image that was there; an address that was in no other image is answered as the loader would; a stale answer was right once; panics only over unreadable files; ranges only grow | 3 placements over time (`MaxPlacements`), 3 addresses, 6 ELF and 5 Mach-O files: two builds of one library, a second library, notes that are not build IDs, a broken note, no notes, universal binaries |
| `recording_profiles` | tables agree, each profile decodes to its input, indices never change; named and exported, it shows the places of the recorded addresses, outermost frame first | 2 profiles, 2 threads, 3 addresses, 2 images loaded before or between the profiles, of 5 files; up to 2 samples per thread, 2 frames per profile |
| `passes_threads` | samples recorded are snapshots of their thread; but for a failing walk the session never waits for a lock its suspended thread holds; whoever lives through a pass is sampled once in it; passes end, unless the sampled thread terminates, cannot be unwound, or threads are started and given for ever | 2 targets, any of them alive at first, 2 places |
| `mach_walk` | threads that sample each other and terminate, also while they are held, one of which cannot be unwound and has failing Mach calls: the kernel's counts balance and a callback sees a held thread; no push beyond capacity, one stretch of callers of a stack that holds still, `Ok` is complete or full, every step leaves fewer to come; every walk and every call ends, and every thread but the failing one runs again | 3 threads, 2 places, at most 2 suspensions left behind per thread (`MaxSuspensions`), any stack of 3 addresses, `max_frames` 3, a debug build |
| `symbol_files` | resolved frames keep their index and have their module's symbols, from one reading; a file finished by a lone generator is whole; only unfinished ones panic the resolver or hide a function | 2 generators, 2 modules, versions of 1 and 2 blocks, profiles of up to 2 frames |
| `dead_target`, `callback_panic`, `unwind_first_frame`, `session_unwind_error` | end in a counterexample, see below | 2 threads, 1 target, 2 addresses, or 2 targets |

Why the bounds are enough to meet the interesting cases: with three threads
there is a caller, its target and a third that is left over from a call that
panicked, or that calls next; two places tell a thread that moved from one that
did not.  Three placements are the least that allow two copies of a library and
another image where one of them was.  Versions of one and two blocks are the
least of which one can be a beginning, or leave a tail, of the other.  Two
targets let one be started, terminate or hold the allocator's lock while the
other is sampled.  Stacks of three addresses are the least with a cycle that
the walk enters from outside, and three frames let it go round.
Two profiles from one Outputter make the
second start with filled tables.  Two suspensions left behind by panics are the
least that show a count which does not come back to zero and is still
balanced.  What holds for every number of threads, images or frames is proved
(below).  `CHECK_DEADLOCK FALSE` stands only where the program really may stop:
a panic (`module_cache_lookup`, `symbol_files`; `suspend_resume_faults`, where
a panic in a handler ends the process), every thread dead or suspended
(`mach_walk`, `passes_threads`), the last profile written
(`recording_profiles`, `symbol_files`), and in some of the runs that end in a
counterexample.  Symmetry is used only
where no liveness is checked: in `recording_profiles` and `symbol_files`.

Every property of a run has a mutant of one definition (`New_ForgetsOld`,
`PostMsg2_NoWaitForMsg3`, ...), written next to it, under which the run finds
the property violated.

### Disagreements between code and documentation

Four runs end in a counterexample.

* `dead_target`: the result of `tgkill` is dropped and the wait for `msg2` has
  no timeout, so a call about a thread that has terminated never returns.
* `callback_panic`: when a walk fails, `expect("sample succeeded")` panics in
  the callback and goes past the steps that resume the thread: the post of
  `msg3` on Linux (`lib_linux.rs` 177), `thread.resume()` on macOS (`lib_mac.rs`
  70).  It stays suspended, against the sentence both files open the function
  with (145 and 33).  The run is of `Passes`, which stands on `Suspension`, so it
  is about either.  In `suspend_resume_calls` callbacks return, and in
  `mach_walk` `ThreadsResume` is about the threads that can be unwound.
* `unwind_first_frame`: the function a thread was executing is never recorded.
  The cursor steps (`lib_linux.rs` 286) before the first register is read,
  against the comment at 251-252 (`lib_mac.rs` 95-96).  `CallersInOrder` holds
  with either frame first; `BeginsAtBottom` says which is meant.
* `session_unwind_error`: `unwind`, documented as safe in the callback, frees
  its vector there when it fails, and the session then waits for a lock that
  the suspended thread may hold.

Others were met while modelling; no run is kept for them.

* `lib.rs` 58 promises a panic if a thread is asked to sample itself, but
  `lib_linux.rs` 158 and `lib_mac.rs` 47 are `debug_assert`s.  In a release build
  the caller stops itself and never returns: with `DebugAssertions = FALSE`, TLC
  finds `CallReturns` violated in `SuspendResume` and in `MachWalk`.
* Samplers dropped in the order of their creation leave the handler installed
  with no Sampler alive, against `lib_linux.rs` 127: with `NestedScopes =
  FALSE`, `AllDroppedRestores` is violated.
* A missing symbol file is tried for every frame (`bin/resolve.rs` 43), though
  the comment at 19-20 says it is not; `OneReadingPerModule` is about the frames
  that were found.
* On a file without a note segment `iter_note_headers` gives `None` and the
  `unwrap` at module_cache/linux.rs 86 panics, where 102-105 would return
  `None`; `PanicsOnlyOnUnreadable` counts such a file as unreadable.
* The TODO at `lib.rs` 28-30 is right: build IDs are read when a profile is
  written, so a file replaced since then gives addresses of the old library
  the new one's build ID.  `AnswersAgree` is about addresses whose image is
  still the one they were always in.

### Fairness

`SuspendResume`: weak fairness of each thread's steps in a call, in the
handler, and of waiting again after EINTR: the scheduler runs every thread that
can run, and the kernel delivers a pending signal to a live thread.  Nobody is
made to call or to exit.  `MachWalk`: the same of the caller, where it is not
suspended: the walk runs in a thread nothing suspends.  `Passes`: a
thread in the allocator that is not suspended leaves it; suspension makes
progress, as `ThreadsResume` and `CallReturns` of `SuspendResume` show; the
walk ends, as `UnwindReturns` shows, with either outcome (weak fairness of
`Unwind`); the loop goes on with what the iterator gives; and strong fairness
of the two steps that wait for the allocator's lock with the target running
(`Ask`, `Push`), since a waiter of a lock that is released again and again gets
it in the end.  `PassEnds` needs none of `Panic`, which may wait for
ever, of a signal to a thread that is gone, or of beginning a pass;
`callback_panic` adds that a walk that failed goes on to its panic if it can
(`FairPanicSpec`), so that what it shows is not a program that merely stops.  Nothing makes the program
stop starting threads, and the iterator is lazy, so `PassEnds` excepts threads
that are started and given for ever (`Given`); without that exception TLC finds
the pass that goes on with them.

## Proofs

All of these hold for every value of the constants that satisfies the named
assumptions: the marker values differ from the data, the bounds are naturals,
and `Recording` names modules and addresses as `ModuleCache` does, whose own
assumptions it takes over.

* `SuspendResumeProofs`.  `TypeCorrect`; then `HandshakeCorrect`, that
  `HandshakeInv` is invariant.  None of the safety properties is inductive:
  that the callback's context is the target's needs that no other thread is
  about to write the static.  `HandshakeInv` says that a call passes a baton,
  the signal and then a token in `msg2`, `msg3`, `msg4`, which one party holds
  at each point, and where every other thread can be (outside its handler, at
  its wait for `msg3`, or past its post of `msg4`).  A panic drops the baton,
  and the invariant allows for the thread left waiting.  `NoLeftover`, with
  callbacks that return, adds that only the target is in its handler.  `Moving`
  says why nobody is stuck: a caller is not in its own handler, a signal sent to
  a thread that is there stays pending until it is delivered, and while the
  token is in `msg3` some thread is at its wait for it.  That thread need not
  be the target: one left over from a panic may take the token, and then passes
  it on.  Hence `NobodyStuckCorrect`: at every point of a call some thread has
  a step of the handshake to take.  It is stated with the guards written out
  (`Ready`), since ENABLED is beyond the prover, and it leaves out the three
  cases in which the code does hang: a target that is gone before it answers, a
  thread that is its own target, and a target that an earlier panic left in its
  handler.  From the invariant follow also `FrozenContextCorrect`, `UnwrapsSucceed`,
  `QuiescenceCorrect`, `NeverSuspendsItselfCorrect`,
  `ResumedBeforeReturnCorrect`, and `SuspensionImplemented`: every step is a
  step of `Suspension` or a stutter, so the refinement holds for any number of
  threads.
* `SignalHandlerProofs`: with nested use, the remembered dispositions form a
  chain that ends in the application's own (`ChainCorrect`); hence
  `SignalsHandledCorrect` and `RestoredCorrect`.
* `UnwinderProofs`: the cursor stands on the last frame pushed, or one past it
  between step and push (`CursorInv`), in every walk; hence no push beyond capacity, one stretch
  of callers in order, and `Ok` only when complete or full (`WalkCorrect`).  `WalkBounded`
  adds a measure, what the vector has room for, that every step decreases: a
  walk has at most `2 * max_frames + 2` steps on any stack, so that the walk
  ends as soon as its thread runs.
* `ModuleCacheProofs`: every range is not empty, begins with an image that was
  loaded once, lies in it, and has the name of that image and the build ID its
  file gave (`LookupInv`, invariant by `LookupCorrect`).  That it must be an
  image of the history, not one that is there, is what loads, unloads and
  replaced files take from the simpler invariant; an address that was only ever
  in one image can then lie in no range but that image's, which gives
  `AnswersCorrect`.  The invariant is exact: it does not only bound what an
  answer may be, it says what a lookup without a cache would have told, which
  is what `OutputterProofs` needs of it.  Also `AnswersWereCorrect`,
  `PanicsCorrect`, `RangesCorrect` and, as an action property, `RangesGrow`.
* `OutputterProofs`: one insertion keeps list and map in agreement and no
  index changes (`InsertCorrect`), hence `TablesCorrect`, `IndicesCorrect`.
  `ProfilesCorrect` is that every profile decodes to what went into it.  The
  invariant (`ProfileInv`) says of the part built so far that each index means,
  in the tables as they are now, the module and offset that went in (`Match`,
  `Meaning`).  It is inductive because a table only grows at its end and a
  meaning, once given, stays (`MeaningGrows`, `MeaningAppend`); a profile
  that was returned has its own copy of the lists and is not touched again.
  `Recognized`, which leaves out the frames of no module, is a recursive
  function on the length of a sample.  Its equations, and that appending to a
  sample appends to the result (`RecognizedAppend`), are proved by induction
  over the naturals in the form of sets (`SetInduction`, from the
  well-foundedness of `<`), which takes no operator as a parameter.
  `ExportCorrect` goes from addresses to the exported file.  `RecordingInv` ties
  the recording to the cache: nothing is unloaded, so the images that are there
  are all that ever were, they are disjoint, and every address recorded is
  looked up among the images of its own profile.  The exact invariant of
  `ModuleCacheProofs` (taken over by INSTANCE, for the cache as `Recording`
  holds it) then gives that an answer is the place the address is in
  (`AnswerIsPlace`); `ProfilesCorrect` carries it through the tables and the
  lemmas on `Speedscope` through the export.
  Both are proved under `ModulesFit`: no more modules than `module_pos as u32`
  (output.rs 140) can tell apart.  It is a condition on the state, inside the
  box, not an assumption: a process with more than 2^32 modules would be given
  wrong ones, by the code and in the model, and nothing smaller is excluded.
  `RecordingImplements` and `RecordingUsesCache`: `Recording` is a behaviour of
  `Outputter` and of `ModuleCache`, so the theorems of both hold in it.
* `SessionProofs`: `SessionInv` ties where the session is to how far its call
  of `Suspension` is, and says that only the thread of that call is suspended.
  Neither of the two results is inductive without it: that the recorded sample
  is the suspended thread's needs that the call cannot have moved on, and that
  recording meets no held lock needs that a call that is out holds nobody.
  The proof separates what says nothing of the recording (`Progress`) from the
  recorded samples (`Recording`), which only `Record` changes.  From it
  `SnapshotsCorrect` and `WaitsCorrect`, and `SessionSuspends`: what the session
  does with its sampler is a behaviour of `Suspension`.  For `Passes`, `PassInv`
  adds that a thread that lived through the pass so far is to come, being
  sampled, or sampled once (`Taken`).  Every step is one of `Session` or none
  (`PassesImplement`), and with nothing to come the count is what
  `EachThreadOnce` says (`EachThreadCorrect`).
* `MachSamplerProofs`: `MachInv` says that there is one call, that a thread
  held by it has one suspension more than panics have left behind, and every
  other thread exactly those, whoever terminates and in either build.  Hence `MachContextCorrect`, and, counting the
  holders of a thread, `BalanceCorrect`.  Where callbacks return and threads
  stay, nothing is left behind (`NothingLeft`), a count is positive exactly
  while the call holds the thread, and every step is one of `Suspension` or
  none: `MachSuspensionImplemented`.  Both samplers therefore implement the
  specification that `Session` is proved (`SessionSuspends`) to be built on.
  `MachWalk` is a behaviour of `MachSampler`, and of `Unwinder` as well
  (`SampleImplementsParts`).  The second needs `MachInv`: a walk's stack does
  not change because its thread has a positive count, so it does not run
  (`StackStays`).  What is proved of the two parts is therefore true of samples
  (`SampleCorrect`).
* `ResolverProofs`: every step of `Symbolize` is one of `Resolver` or none
  (`SymbolizeImplements`).  The invariant says of the resolver that a resolved
  frame's symbols are the ones in the cache for its module, which are never
  changed (`FramesCorrect`, `ReadingsCorrect`); of a file that is not spoilt,
  that it holds as much of one version as its only writer has written, or all
  of one; and of a reading that nothing disturbed, that it is a beginning of
  that (`FilesCorrect`, `CleanReadsCorrect`).

Only model-checked: the liveness properties `CallReturns` and `ThreadsResume`
(of `SuspendResume` and of `MachSampler`), `UnwindReturns` and `PassEnds`, since
fairness and ENABLED are beyond the prover.  `NobodyStuckCorrect` and
`WalkBounded` are the part of the first and of the third that is about single
steps.  Every other property of a passing run is a theorem.  The refinements of
`MachSampler` and `MachWalk`, `NeverSuspendsItself` of `SuspendResume`, the types of `Unwinder`,
and the refinements of `Suspension` by `Session`, of `Session`, `Resolver`,
`Outputter` and `ModuleCache` above are proved and are not part of a run.  `MCRecording` lets TLC compare `Recognized` with the library's
`SelectSeq` on all samples of up to three frames (`RecognizedFilters`).

## Not modelled

* Overlapping calls on Linux, and SIGPROF from anyone but the Sampler:
  excluded by the contract in `lib_linux.rs` 99 and 148-150.
* `errno` of the interrupted thread, which an interrupted wait in the handler
  overwrites: nothing the repository states depends on it.
* Keeping apart two threads that have had the same id: samples are keyed by id,
  in the code and in `Passes`.
* Unloading while profiles are written: `Recording` follows `output.rs` 121-122
  there; `ModuleCache` by itself has it.
* Parsing ELF, Mach-O and symbol files, JSON, `dump_syms` and its header lines:
  external, reduced to their outcomes or left out.  CPU subtypes of the images
  in a universal binary are not told apart, as in `mac.rs` 87.
* In the export: names of profiles, units, and `endValue`, which the code sets
  to the number of threads and for which nothing states what it should be.

## Plan

1. (done) `Suspension`, `SuspendResume`, with proofs.
2. (done) `SignalHandler`, `Unwinder`, `ModuleCache`, `Outputter`, `Session`,
   `MachSampler` with `MachWalk`, `Resolver`, with proofs.
3. (done) What surrounds them: `Passes` (threads), `ModuleCache` with unloading
   and replaced files on both platforms, `Symbolize` (writers of symbol files),
   `Recording` (from addresses to the exported file).
4. Left: the names of functions in `Recording`, by composing it with
   `Resolver`; a measure for the handshake of `SuspendResume`, as the walk has
   one; `SuspendResume` with the `errno` of the interrupted thread, if the
   handler comes to save it.
