# A verification development for the cosc360 labs

The repository holds the solutions of a systems programming course: some ten
small C programs, each in a directory of its own.  This directory models them
in TLA+, checks the models with TLC and proves what matters most about them
with TLAPS.  The programs do not call each other, so the project is a family of
specifications, one group of modules per program; within a group modules are
composed and refined.

## 1. Inventory

| Component | State | Operations | What is hard |
|---|---|---|---|
| `Lab-A-Bonding/bonding.c` | a mutex, the lists of waiting hydrogens and oxygens, one `Molecule` with a condition variable per thread | `initialize_v`, `hydrogen`, `oxygen` | threads write the ids of a molecule into each other's memory and sleep on condition variables in no loop |
| `Lab-A-Bonding/bonding-driver.c` | two red-black trees of `thread_info`, the list `bonds`, counters, a mutex and two condition variables | `creator_thread`, `joiner_thread`, `Bond`, `main` | creator, joiner and any number of atom threads; memory freed by the joiner while atoms use it; lost signals; a balance kept over several batches |
| `Lab-7-Malloc/mymalloc.c` | the free list, laid out in the memory it manages | `my_malloc`, `my_free`, `free_list_begin`, `free_list_next`, `coalesce_free_list` | links and sizes overlap at boundaries; a wrong link is only followed much later |
| `Lab-8-Jshell/src/jshell.c` | the command, the pipe, the tree of pids; the open files of every process | `main`, `execute`, `free_cmd` | processes run concurrently; a file descriptor left open blocks a reader for ever; `wait` returns other children |
| `Lab-4-Fakemake/fakemake.c` | the lists of files, the modification times | the parser, the dependency checks, the compiler calls | files that change between runs and during them, times in whole seconds, compilers that fail halfway |
| `Lab-5-Tarc/src/tarc.c` | the inodes met, the open directory, the directories still to visit | `print`, `traverse`, `main` | files that change or disappear between `readdir`, `lstat`, `fopen` and `fread` |
| `Lab-6-Tarx/src/tarx.c` | `Data` by inode, in the order read; the place in the archive | the loop over the archive, the restoring of modes and times | hard links, an archive that ends anywhere, modes and times that later writes undo |
| `Lab-2-Famtree/src/famtree.c` | people, their parents, children and marks | the kinds of lines, `cycle_check`, `print` | each link is stored in both directions |
| `Lab-1-Chain-Heal/chain_heal.c` | the graph of players, the best path | `DFS` from each player in range | marks, links and heals in the nodes are shared by all paths |
| `Lab-3-Huffman/huff_dec.c` | the tree of codes, the place in it | `insert_code`, the walk of `main` | codewords that begin others, incomplete codes, an input that ends in the middle of a codeword |
| `cosc356/Lab2/cache_sim.c` | the blocks of a cache | access, replacement, prefetch | dates that are equal, a line in two blocks |

The hundred tests of the allocator (`Lab-7-Malloc/Gradescript-Examples/*.c`) are part
of the project: see `MyMallocTests`.  The `strays` and `sleep` helpers, `limit-shell`, the
bonding examples, the programs fakemake is tried on, the generators (`trace_gen.py`,
`random_hero_gen.cpp`) and the external library libfdr (red-black trees, lists, the line
reader) are not modelled: libfdr is what its data types are, sets, sequences and functions.

What each modelled component has to get right:

* **bonding.c** - the three atoms of a molecule agree on it, an atom is in one
  molecule, nobody calls `Bond()` without ids or with the mutex locked, two
  hydrogens and an oxygen are never asleep together, a bonded atom returns.
* **bonding-driver.c** - none of its checks fails for atoms that behave;
  outstanding threads stay within the limit; hydrogens and oxygens stay two to
  one; a `thread_info` is not freed while a thread uses it; creator and joiner
  do not sleep for ever; the run ends with every thread joined.
* **mymalloc.c** - free chunks and blocks tile what was got from `sbrk`, headers
  and data are nobody else's, the list is sorted and linked both ways,
  coalescing leaves no neighbours.
* **jshell.c** - each process has its three files and no other, the processes are
  plumbed in order, the shell waits for exactly its own, and gets back to the
  prompt.
* **fakemake.c** - what a run that returns 0 leaves is made from the files as they
  are, also after runs that failed, and a second run makes nothing.
* **tarc.c, tarx.c** - what tarx has made when it returns 0 is right in contents, mode, time
  and links, and complete if nothing has happened on the way; one field of the archive is
  never taken for another, unless a file changes in size while it is copied.
* **famtree.c** - both directions of the links agree; there is a cycle, or everybody is
  printed once and after their parents.
* **cache_sim.c** - the line replaced is the one used longest ago; no line has two blocks.
* **chain_heal.c** - the path printed is the best of all simple paths, with what it heals.
* **huff_dec.c** - the bits are cut into codewords the only way it can be done, and bits for which there
  is none are flagged, at the end of the input too (which they are not, see `huffman_incomplete`).

## 2. Modules

| Module | What it is |
|---|---|
| `Water` | abstract: atoms arrive, two hydrogens and an oxygen form a molecule, its members leave |
| `Bonding` | `bonding.c`; implements `Water` |
| `BondingProofs` | the inductive invariant of `Bonding`, its consequences, and the refinement of `Water` |
| `BondingDriver` | `bonding-driver.c` over atoms that behave as `Water` says |
| `DriverProofs` | its inductive invariant for any number of molecules, what creator and joiner keep true from one batch to the next, and what follows |
| `BondingSystem` | the driver composed with the threads of `bonding.c`; implements `BondingDriver` |
| `SystemProofs` | both invariants hold of the whole program, which implements driver and `Bonding` |
| `Fakemake` | runs of `fakemake.c`, the user's edits and gcc |
| `FakemakeProofs` | its inductive invariant: products are current, nothing is made twice |
| `MCBonding`, `MCBondingDriver`, `MCBondingSystem`, `MCFakemake` | the values and the constraints the runs use |
| `Heap` | abstract: chunks are carved, new ones are got, blocks are freed, two neighbours are merged |
| `HeapProofs` | in `Heap` no byte is lost or handed out twice |
| `MyMalloc` | `mymalloc.c` over the words of its memory, a turn of a loop at a time; implements `Heap` |
| `MyMallocProofs` | its inductive invariant, and the refinement of `Heap` |
| `TestCalls` | notation for the tests of the allocator |
| `OnePageTests`, `ManyPagesTests` | the calls that `main()` of each of the hundred tests makes |
| `MyMallocTests` | replays them on `MyMalloc` |
| `Tar`, `MCTar` | `tarc.c`, what may happen to files and archive, and `tarx.c`; four directory trees |
| `CacheSim`, `Famtree`, `ChainHeal`, `Huffman` | the four programs that only compute |
| `Programs` | these four, and what is checked and proved of them |
| `MCPrograms` | all four and `Tar`, one at a time, on small inputs |
| `MCHuffman` | one small code, for the counterexample of `huffman_incomplete` |
| `ProgramProofs` | the inductive invariants of `CacheSim`, `Famtree`, `ChainHeal`, `Huffman` and `Tar` |
| `Jshell` | `execute()` of `jshell.c`, its children, the kernel's files and pipes, and programs |
| `JshellProofs` | its inductive invariant: who has which files open, and whom the shell has waited for |

### Bonding

`pc` says where a thread is in `hydrogen()` or `oxygen()`; `lock`, `hydrogens`
and `oxygens` are the fields of `struct global`; `mol[t]` is the `Molecule` on
the heap of thread `t`; `rv` is what `Bond()` returned.  The code between taking
the mutex and giving it up is one action (`HydrogenBonds`, `HydrogenWaits`,
`OxygenBonds`, `OxygenWaits`): nobody else can see what it does in between,
since all of it is read and written with the mutex locked.  The exceptions are
written by others and read without the mutex, after it is released: the actions
`Reacquire`, `Unlock` and the call of `Bond()` are therefore steps of their own.
A signal to a thread that is not asleep is lost, as `pthread_cond_signal` is.
`SpuriousWakeup` is left out of `Spec` and is in `SpuriousSpec`.

### Bonding driver

`creator_thread`, `joiner_thread` and `Bond()` are cut into steps where the mutex is
released or a condition variable waited for; `rand()` is a choice.  `print_state`
and verbosity are left out.  Atoms behave as `Water` says; `molecules` and `left`
are those of `Water`.  `BondingSystem` replaces them by those of `bonding.c`, joins
the two at `pthread_create`, `Bond()` and the return of the thread, and its
`ImplementsDriver` shows that nothing more can happen to the driver than in
`BondingDriver`, so that what holds there holds of the program.

### MyMalloc

Memory is a function from the addresses that are multiples of 8 to numbers.  A
chunk at `a` has its size in word `a`, its links in `a + 8` and `a + 16`, whether
or not these are inside the chunk.  A step is a turn of one of the three loops that
walk the free list, at the node `tmp`: in `my_malloc()`, `pc` is "fit" (`TooSmall`, `Carve`, `Remove`, and
`Sbrk` past the last node), in `my_free()` "place" (`Below`, `Insert`), in `coalesce_free_list()` "merge"
(`Merge`, `NotAdjacent`, `AllMerged`).  `Malloc`, `Free` and `Coalesce` are the calls, which begin
a loop.  A chunk got by `Sbrk` is put on the list by `my_free()`, with `caller` = "my_malloc", and the
recursive call of `my_malloc()` is `Insert` beginning the loop "fit" again.  `Give` returns the block to
the caller, who fills it; others may call `sbrk` between calls, and fill what they get.  `nodes`,
`pieces` and `live` are history: what is on the list, what came from `sbrk`, what callers hold.
Addresses are far below 2^31, where a 4-byte and an 8-byte store
of a size leave the same number in the word.

### Jshell

`fd[p]` is the table of open files of process `p`, with the lowest free descriptor
given by `open` and `pipe`.  The shell's steps are the system calls of `execute()`
that others can notice: `MakePipe`, `Fork`, `GoOn` (the closing of ends after
the fork), `Reap`.  A child copies the table and the locals of the shell, and has
three steps: its input, its output, its `execvp`.  The programs that are executed
read items from their standard input, write them to their standard output and
exit; a pipe holds `Capacity` items, a write into a pipe nobody reads is a
`SIGPIPE`.  `Failures` names the system calls that may fail.  `main()` is modelled
by its result: a command with any number of processes, `NOWAIT` or not, with
redirections or not.

### Fakemake

`src`, `obj` and `exe` are the files, each with its time in seconds and, unseen by the
program, what it was made from.  Each `stat()` is a step (`StatHeader`,
`StatSource`, `StatObject`, `StatObjectAgain`, `StatExe`) and so are the reading and
the writing of gcc, so that the user (`Edit`, `Remove...`) may come in between
any two of them.  The locals `max_h`, `o_max`, `c_time` and `buf` keep their roles;
`buf` is left as it was by a `stat()` that finds no file.  A compiler may fail, which ends the
run, or be killed, which does not, as `WEXITSTATUS` is then 0.  The description file is parsed
in `Start`, and each run may have another one.  Edits give a file the current
time: files copied with an older time are not modelled.

### MyMallocTests

`OnePageTests` and `ManyPagesTests` are the tests as data: for each, the sequence of the
calls of `my_malloc`, `my_free`, `coalesce_free_list` and `double_check_memory` in its
`main()`, with the constants it has there.  `MyMallocTests` makes the calls with the actions of
`MyMalloc`, whose loops (`M!Loops`) run to their end before the next one, for pages of 8192 bytes.
`FreeList` is the walk with `free_list_begin()` and `free_list_next()`.  `DoubleCheck` is what
`double_check_memory()` asserts (in the tests that
need no more than a page the total is not a parameter, but 8192).  The model passes all the tests, which
ties it to what the authors of the lab expect of the program, at full size; the run
`mymalloc_heap` then looks at all sequences of calls, on a small heap.

### Tar

A path is the sequence of the names below the directory tarc is given; a disk maps paths to inodes and
inodes to files, so that hard links are two paths with one inode.  The archive is a
sequence of fields, each byte of a file a field of its own.  `readdir()` returns the
entries in any order; `lstat()`, opening and copying of a file are separate steps,
between which other programs append to it, truncate it (`Resize`, `Grow`), or remove entries
(`RemoveEntry`).  The recursion of `traverse()` is `stack`, the directories whose
traversal is still to come.  `Transfer` hands tarx the archive, whole or cut at any
field or in the middle of one.  When tarx meets a field where it expects another, what it
reads is the middle of something and anything may follow: the state "misreading" is where the model ends, and
`MisreadOnlyIfResized` says when that can be.  `Restore` is a turn of the loop that restores modes and times,
the last inode of the archive first: `RestoreOne` changes nothing if the name can no longer be reached.
The state "bad" is the end of tarx after "Bad tarfile".  Mostly that is `exit(1)`; but when the length of a name is torn
(`tarx.c:59-62`), `clean()` frees `fn` before it was set, or after it was freed at line 132, and tarx may be killed there
instead.  The model does not tell these ends apart, as nothing is made or restored after either.
An archive that ends between two entries looks whole: tarx then returns 0 with part of the tree, all of it right
(`MadeIsRight`), and that it is a part goes unnoticed.  `RoundTrip` only speaks of archives that are not cut.

### The programs that only compute

A step of `CacheSim` is a line of the trace; of `Famtree` a line of the input, or a step of a
call of `cycle_check()` or `print()`, the calls that have not returned being the sequence `calls`; of `ChainHeal` a player the search
starts from, or a turn of the loop or the return of a call of `DFS()`, the calls that have not returned being the
sequence `dfs`, with the globals and node fields they share; of `Huffman` a definition or a
bit.  Each is compared with a definition that knows nothing of its data structures:
stack distances in the trace, sets without a parentless person, all simple paths, all sets of places at which a
sequence of bits may be cut.  `DecodesLeafCodes` is about what `huff_dec` has read, printed and kept, and about
"Unrecognized bits".  It does not say that a program may return with an incomplete sequence at the end of the
input: the lab wants that flagged after as much as possible has been decoded (`Lab-3-Huffman/index.html:156-157`),
`main()` returns 0 (`EndOfInput`), and the run `huffman_incomplete` is about that.

## 3. Runs

| Run | Shows |
|---|---|
| `bonding_threads` | five fair threads: agreement, locking, bookkeeping, no missed bond; `bonding.c` implements `Water`, its fairness included, and bonded atoms return |
| `driver_batches` | three molecules in two batches, with finitely many spurious wakeups of creator and joiner: no check of the driver fails, the limit, the balance, the order in which `thread_info`s are freed, nobody asleep without a signal to come, termination |
| `system` | the whole program, six atoms at once: no check fails, and its driver is that of `BondingDriver` |
| `mymalloc_heap` | the allocator implements `Heap`; headers, data and links are right |
| `mymalloc_tests` | the model passes the hundred tests of the repository |
| `jshell_pipelines` | pipelines of up to three programs under every failure: the open files of shell and children, the plumbing, whom the shell waits for, and that it gets back to its prompt |
| `fakemake_builds` | any number of runs of fakemake, edits and failures in between: objects and executable are current, nothing is made twice |
| `programs` | the programs that do not interact, one at a time: the four that only compute, on all small inputs, and four trees through `tarc` and `tarx`, with files that change meanwhile and an archive cut anywhere |
| `system_spurious_atom` | **violation**: an atom woken without a signal calls `Bond(-1,-1,-1)` |
| `fakemake_not_remade` | **violation**: an executable linked in the second in which an object is then recompiled is "up to date" |
| `mymalloc_small_request` | **violation**: the links of a 16-byte chunk overwrite the size of the next |
| `huffman_incomplete` | **violation**: an input that ends in the middle of a codeword is decoded without an error |

The four violations are in `findings` of `PROJECT.json` with the text they
contradict.

That the composed program terminates is not a run: `bonding_threads` shows that
the threads of `bonding.c` behave as fair `Water`, `driver_batches` that the driver terminates over
atoms that do, and `system` that nothing else happens when the two are put together.

### Bounds, and why they are enough

The safety properties of the runs `bonding_threads`, `driver_batches`, `system`, `mymalloc_heap`,
`jshell_pipelines`, `fakemake_builds` and `programs` are theorems too, for all values of the constants (section 4);
there, the bounds only matter to liveness.

* `bonding_threads`: five threads of either kind in any number, so a molecule can be
  formed with two atoms left over that arrive before, between or after the others.
  `system` has six of them.
* `driver_batches` takes three molecules and a `max_outstanding` of 7, the
  smallest for which the creator sleeps between batches, a batch starts
  with atoms left over from the one before, and the rounding of one and two
  thirds matters.  `LowestAtomsFirst` lets only the lowest waiting atoms of a kind
  bond, as atoms of a kind differ by their number only;
  `system` goes without it.  `OneRandomSequence` fixes the choices of `rand()` there,
  where the run is about the interleaving of threads.
* `fakemake_builds`: three seconds are enough for a source, an object and an executable
  of three different ages, and two changes for an edit during a run and another
  one or a removal after it; two sources and a header give an object that is
  recompiled and one that is not.  The number of runs is not bounded.
* `mymalloc_heap`: a page of 72 bytes in place of 8192 and requests of 13, 36 and 88 bytes, whose chunks
  are 24, 48 and 96 bytes: one too large for a page, one that is just as large as a
  free list node has to be.  Two pages and a gap of 8 bytes fit in the heap, enough for three
  neighbours to be combined, for nodes at both ends and in the middle of the list,
  and for pages that are not contiguous.  All sizes are multiples of 24, so that no chunk is
  shorter (`RoomIsLeft` of section 4): what happens with shorter ones is the subject of
  `mymalloc_small_request`.
* `jshell_pipelines`: three forks make a first, a middle and a last process, or a `NOWAIT`
  command whose processes are still running, or are zombies, when those of another are waited
  for; a descriptor left open by one command is inherited by the next; programs write
  two items into pipes of one, so that pipes fill.
* `programs`, of tarc: two or three levels of directories, two links to a file in two directories, a directory
  its owner may not read, empty files and files of two bytes, one change of size during a copy.
  A regular file given to tarc is there too: it is written to the archive, then `opendir` fails.
* `programs`, of the others: traces of six accesses over six addresses in caches of one or two sets of up to
  three blocks, so that sets overflow and the line after the last of a set is in another;
  six lines about three people, enough for a cycle of three and for each link from both sides;
  four players in three layouts; three definitions and five bits, so that codewords
  of one to three bits begin each other, are defined twice, and are followed by more.

### Fairness

Liveness is checked under weak fairness of each thread or process (`FairSpec`). The
kernel schedules runnable threads and processes for ever, and each of
the actions stays enabled until it is taken, so that weak fairness is what
that gives; a mutex is contended only finitely often in these programs, each
thread taking it a fixed number of times, so a starving lock would need an
infinite run there is not.  `FairSpuriousSpec` of the driver lets waits end without a
signal any finite number of times: with infinitely many the
creator might look at its counters for ever, and nobody claims that waits do that.  In `Jshell` no fairness is assumed of the
user, who may never type a command, nor of `Quit`, the early exit of a
program; a program does go on reading and writing when it can.

## 4. Proofs

Every safety property and action property that the runs check is proved, with the refinements, but for
those listed at the end of this section: 53 theorems that `PROJECT.json` lists, for all values of the constants.
Each rests on an inductive invariant per specification (`IInv`, `BInv`, `SInv`, `CacheInv`, `FamInv`,
`HealInv`, `HuffInv`, `TarInv`), with one lemma per action that says that it is preserved; TLC finds each of them true on the instances of the runs.

**`BondingProofs`**, for every set of atoms, from `AtomsAssumption` (the value -1 is no atom) alone:

* `Invariant`: the checked invariants are not inductive. To know that
  the thread at the head of a list can be bonded one has to know that it is asleep,
  unsignalled and without a molecule, that it is in the list once, and that the
  ids written into two other threads are not overwritten by a third: `IInv` says
  that the lists are exactly the sleepers without a partner, that whoever
  holds ids holds those of a molecule, and that its members hold the same.
* `TypeCorrect`, `LockIsDisciplined`, `AtomsAgree`, `BondIsCalledWithIds`,
  `NoBondIsMissed`, `ListsHoldTheSleepers` follow from it; `PermanentBonds` is an
  action property that does.
* `BondingImplementsWater`: `Spec => W!Spec`.  Every step is a step of `Water` or a
  stutter; `HydrogenBonds` and `OxygenBonds` form a molecule, spawning is arriving,
  returning is leaving.

**`DriverProofs`**, for every number of molecules, every limit `main()` lets through and any number of
spurious wakeups (`SpuriousSpec`), from `ArgsAssumption`: what `main()` checks, 3 * `NumMolecules` being an `int`.

* `DriverInvariant`: no check of the driver fails because its trees are exactly the outstanding threads
  (`TreesOk`): a thread is in `tid_to_info` until it calls `Bond()`, in `number_to_info` until the oxygen of
  its molecule has been joined.  That needs which threads have a `bond_id`, that all three of a molecule have
  the same (`NamesOk`), that those are the queue of the joiner and what it has joined (`HandedOverOnce`,
  `JoinedHaveLeft`), who has the mutex, and the numbers.
* `NoCheckFails`, `LimitKept`, `HandedOverExactlyOnce` and `TypeCorrect` are parts of it; `FreesAreSafe` is the action property
  that `thread_info`s are freed three at a time, when their threads have returned.

Two more need `NoOverflow` as well, 2 * `NumAtoms` <= `IntMax`.  `creator_thread` computes `total * 2` in an
`int`, and `main()` allows for 3 times the number of molecules only: from 357 913 942 molecules on, `total * 2` may
wrap round, and a batch then has a negative number of hydrogens.  The balance is really lost there, so that the
hypothesis cannot be dropped.

* `BatchInvariant`: a batch is planned so that all threads created so far are in balance at its end
  (`PlanOk`), which makes the balance of `KeptInBalance` inductive, although there is none while a batch is created.
* `NobodySleepsForEver`: the creator only sleeps when more than half the limit is outstanding.  If nobody else
  can run then, all of these wait for partners, and there are more than three, in balance, hence three that form a
  molecule; the joiner's wait is decided under the same mutex as the signal.

**`SystemProofs`**, for the composed program, from `ArgsAssumption`: the invariants of `Bonding` and of the driver hold
together (`SystemInvariant`), since each half is a step of its own specification as long as both hold.  So the program prints
no error (`SystemHasNoError`), it implements the driver over atoms that behave as `Water` says
(`SystemImplementsDriver`) and `Bonding` (`SystemImplementsBonding`).  Whatever is proved of
either is thereby proved of the program.

**`HeapProofs`**, without assumptions: chunks tile
what is owned (`NoByteLost`) and blocks share no byte
(`BlocksAreApart`), by the invariant "the chunks tile the owned bytes, which end
before the heap does": carving replaces a chunk by two parts of it (lemma
`Replace`), growing adds one behind all others, merging makes two neighbours one that
covers the same bytes (lemma `JoinTwo`).

**`MyMallocProofs`**, for every page, request and foreign `sbrk` call that `MallocAssumption` allows (addresses are
multiples of 8), while every chunk on the free list has the 24 bytes its size and its links need
(`RoomForLinks`).  That hypothesis is not an invariant of the program: `mymalloc_small_request` is
the shortest run that breaks it, and what follows from it.  `RoomIsLeft` gives it
back wherever sizes stay clear of it: when the page and the chunks of all requests are in a set of sizes
from 24 up that is closed under sums and differences, such as the multiples of 32 for the page of 8192, every
behaviour satisfies `[]RoomForLinks`.

* `MallocInvariant`: a link can only be followed if it is right, links are only right if nobody else writes
  there, and that nobody does depends on the chunks being apart, which depends on sizes that
  are words of the same memory.  So the invariant has it all at once: chunks tile what came from `sbrk` (`HP!IInv`),
  no chunk is two things at once (`Once`), the list (`ListLinked`), the blocks (`BlocksIntact`), and what each loop has
  found so far (`AtNode`): nothing big enough, or the two nodes the chunk goes between.
* `TypeCorrect`, `BlocksStayIntact` and `ListStaysLinked` are parts of it.
* `MallocImplementsHeap`: under the same hypothesis, `Spec => H!Spec`.  `Carve` and `Remove` carve, `Sbrk` grows, which needs that the loop has
  passed all nodes, `Free` frees, `Merge` merges; all others stutter.

**`JshellProofs`**, for any number of commands and of processes, any capacity and any failing system calls, from
`JshellAssumption` (the constants are of their types):

* `JshellInvariant` says what is open in shell and child at each of their steps: the standard files, the read end of the
  pipe before and the two ends of the pipe behind, under descriptors that differ (`FilesOf`, `Apart`), whichever numbers `pipe()` gave.
  It also says that pids are given in order, and that each process of the command is in the tree or has been waited for.
* `OnlyThreeFiles`, `PipesAreRight`, `WaitsForAll` and `TypeCorrect` follow.

**`FakemakeProofs`**, for any files, any number of runs and changes and any description files, from
`FakemakeAssumption` and `DescriptionsAssumption`: the names in C lines are source files, those in H lines headers.
The latter says of `FlattenSeq` what only induction could prove.

* `FakemakeInvariant`: an object made in a second may be older than what it was made from, or as old, so that the
  invariant keeps, for every object and for the compiler that runs, that a source which is not what it
  was made from has changed since it began (`CompiledFrom`, `LinkedFrom`); that the times `max_h`, `c_time` and
  `o_max` bound those of the files seen that nobody has changed (`TimesSeen`, `ObjectsCounted`); what the run has already made up to date
  (`ObjectsFresh`); and that a directory with nothing to do stays so (`NothingToDo`).
* `ProductsStayCurrent`, `NothingTwice` and `TypeCorrect` follow.

**`ProgramProofs`**, for the programs that do not interact with others of this repository, from what the constants
are (`ProgramsAssumption`, `TarAssumption`):

* `CacheInvariant`, for every geometry and trace: a line has one block (`CacheOk`; `EachLineOnce`).  To compare hits
  with stack distances (`ReplacementIsLRU`) it says what the date of a block is, the place of the last access
  to its line (`LastUsed`), and of a line that was accessed and is not there any more that since then its
  set has seen as many other lines as it has blocks (`Evicted`).
* `FamtreeInvariant`, for any number of people and lines: the links agree until there is an error
  (`LinksStayInAgreement`).  The calls that have not returned are about different people, each a child, or a
  parent, of the one before, whose list it has been through up to there (`Chain`); who is visited is in no cycle and
  no parent of somebody who is not (`Checking`); who is printed is printed after both parents (`Printing`).  When a person
  is met whom `cycle_check()` is at, the calls from there on are a cycle; when nobody is left to visit, there is
  none, as the people of a cycle would all be among those visited (`ParentsArePrintedFirst`).
* `HealInvariant`, for any players and arguments.  The marked nodes are those of the calls, which are a path, and
  their links, heals, totals and powers are what that path says, although those of all other nodes are what earlier
  paths have left there (`OnPath`); and every path from a node `main()` has been through heals no more than what is
  recorded, or leaves one of the calls to a neighbour that call has still to try (`ToCome`).  A path that could only go on
  through a marked node, or is too long, is not there.  So when no call is left every path has been tried; and the way
  back along the links is the only one there is (`BackwardsIs`), which makes what is copied a path there is
  (`IsRecorded`).  `BestIsFound` follows.  That what heals each node of a path is defined at all, a recursion along the path,
  is proved by looking at the shortest beginning for which it would not be (`HopsExist`).
* `HuffmanInvariant`, for any codes and bits.  A way to cut bits into codewords is the set of the places where these end
  (`Cuts`), which is not a recursive definition.  What cuts some bits and one more cuts those bits, so that
  with the next bit the only cut either stays, when what is left goes on (`Begins`), or gets the place after that
  bit, when a codeword ends there, which cannot both be as no codeword begins another; or there is none any more
  (`CutLater`).  The tree tells these apart because an inner node begins a code, hence, a longest one, a
  codeword that begins no other (`Dictionary`, `LeafBeyond`).  `CodewordsAreDecoded` follows; it is
  about the bits read, and leaves a return with an incomplete sequence to `huffman_incomplete`.
* `TarInvariant`, for every tree, every accident and every place the archive may be cut at.  Until a file changes
  in size while it is copied, the archive is a sequence of entries (`Archive`), whatever `tarc` has written
  goes with what is on the disk and not in the archive: an entry of the open directory, or below a
  directory that is pending (`Reached`); tarx is between two fields of an entry (`AtName`, `AtMetadata`, `AtBytes`),
  with the rest of the archive before it (`Left`); and what it has made is right but for the bytes
  of one file and for the modes and times of inodes to restore, none of which comes before the
  directories above it (`Made`).
* `NothingIsMisread` and `WhatIsMadeIsRight` follow.  `TreeIsMadeAgain` looks at a shortest path that is missing: the
  directory it is in is in the archive and no longer pending, so that it is in the archive too.

Model-checked only:

* liveness and the fairness part of the refinement of `Water`, which use ENABLED or fairness: `BondedAtomsReturn`,
  `Termination`, `ReadyAgain`, and that `ImplementsWater` includes its fairness;
* the replay of the hundred tests (`TestsAreCorrect`), which is about data: one finite behaviour per test, which TLC
  goes through to its end.

## 5. Where the code departs from its documents

Four departures are runs that TLC finds violated: `system_spurious_atom`, `fakemake_not_remade`,
`mymalloc_small_request` and `huffman_incomplete`.  Others were met while modelling; the models do what the code does,
and no property is about them:

* `Lab-7-Malloc/index.html:53` and `:144` forbid `sbrk()` of less than 8192 bytes.  For a chunk of exactly 8184 bytes,
  `mymalloc.c:68-74` calls `sbrk(8184)` (`SbrkSize`).
* The comment at `tarc.c:134` says that a file that does not exist is skipped; `tarc.c:138` ends the program (`ScanRemoved`
  has both outcomes, the first for a `readdir()` that does not return it any more).
* `Lab-3-Huffman/index.html:152` wants a code file in the wrong format flagged; `huff_dec.c:78` only flags files
  that cannot be opened, and the model has well-formed code files only.

## 6. Not modelled

* The text that programs print, the words of a command line and their memory in the shell,
  path buffers in tarc.
* In the allocator, sizes of 2^31 bytes and a failing `sbrk`.
* In tarc and tarx, trees over several devices, where inodes do not tell files apart, a fifo
  that is linked twice, and a root that is a symbolic link.
* In the decoder, a negative number of bits: -14 to -1 pass the check of the
  sizes and are never reached by the count.
* In famtree, a line about a person before the first PERSON line (the code dereferences
  NULL); in cache_sim, missing arguments (the code reads uninitialised variables), and the semicolon
  missing at line 124, without which it does not compile.
* `bonding-example-1.c` and `bonding-example-2.c`, which are wrong on purpose, and the small
  programs listed in the inventory, which keep no state.
