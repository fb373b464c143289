--------------------------- MODULE BondingDriver ---------------------------
(***************************************************************************)
(* src/Lab-A-Bonding/bonding-driver.c: the creator thread, the joiner       *)
(* thread and Bond(), over atom threads that behave as Water.tla says.      *)
(* BondingSystem.tla puts the threads of bonding.c in their place.          *)
(*                                                                         *)
(* G->lock protects everything declared here; a thread that takes it and    *)
(* releases it without blocking in between is one action.  fprintf(stderr)  *)
(* followed by exit(1) is a value of the variable error and the end of the  *)
(* behaviour.  rand()%3 is a free choice.  malloc() and pthread_create()    *)
(* succeed.                                                                 *)
(***************************************************************************)
EXTENDS Integers, Sequences, FiniteSets

CONSTANTS
    NumMolecules,   \* num_molecules, the second argument
    MaxOutstanding, \* max_outstanding, the third argument
    IntMax          \* INT_MAX

\* What main() lets through; 715827880 * 3 just fits an int.
ASSUME ArgsAssumption ==
    /\ NumMolecules \in Nat \ {0}
    /\ IntMax \in Nat /\ 3 * NumMolecules <= IntMax
    /\ MaxOutstanding \in Nat
    /\ IF NumMolecules = 1 THEN MaxOutstanding = 3
                           ELSE MaxOutstanding \in 6..1000

NumAtoms == 3 * NumMolecules
Atoms == 0..(NumAtoms - 1)

\* The owners of G->lock other than atoms.
Free == -1
Creator == -2
Joiner == -3

VARIABLES
    kind, molecules, left,  \* the atom threads: see Water.tla
    rv,                 \* rv[t]: what thread t returned
    glock,              \* the owner of G->lock
    creator,            \* where creator_thread is
    toCreate,           \* threads_to_create - i
    hToCreate,          \* h_to_create
    oToCreate,          \* o_to_create
    threadsForked, threadsJoined, hSpawned, oSpawned, moleculesCreated,
    tids,               \* the threads in G->tid_to_info
    numbers,            \* the threads in G->number_to_info: their thread_info is allocated
    bondId,             \* bondId[t]: bond_id in the thread_info of t
    bonds,              \* G->bonds
    returning,          \* the threads between the last unlock and the return of Bond()
    joiner,             \* where joiner_thread is
    joining,            \* n in joiner_thread
    error               \* the message printed before exit(1), or "none"

atomVars == <<kind, molecules, left, rv>>
creatorVars == <<creator, toCreate, hToCreate, oToCreate, hSpawned, oSpawned>>
joinerVars  == <<joiner, joining>>
treeVars    == <<tids, numbers>>
vars == <<atomVars, glock, creatorVars, threadsForked, threadsJoined,
          moleculesCreated, treeVars, bondId, bonds, returning, joinerVars, error>>

W == INSTANCE Water

\* A bond string "(h1,h2,o)" is the record of its three numbers; NoBond is NULL.
Bond   == [h1 : Atoms, h2 : Atoms, o : Atoms]
NoBond == [h1 |-> Free, h2 |-> Free, o |-> Free]

Members(m) == {m.h1, m.h2, m.o}

\* Mutant: the signal is never sent.
NotSignalled(p) == p

\* pthread_cond_signal moves a thread that is asleep and is lost on any other.
Signalled(p) == IF p = "waiting" THEN "woken" ELSE p

Init ==
    /\ W!Init
    /\ rv = [t \in Atoms |-> NoBond]
    /\ glock = Free
    /\ creator = "locking" /\ joiner = "start"
    /\ toCreate = 0 /\ hToCreate = 0 /\ oToCreate = 0
    /\ threadsForked = 0 /\ threadsJoined = 0
    /\ hSpawned = 0 /\ oSpawned = 0 /\ moleculesCreated = 0
    /\ tids = {} /\ numbers = {}
    /\ bondId = [t \in Atoms |-> NoBond]
    /\ bonds = <<>>
    /\ returning = {}
    /\ joining = Free
    /\ error = "none"

-----------------------------------------------------------------------------
(* creator_thread *)

Outstanding == threadsForked - threadsJoined

AllForked == threadsForked = NumAtoms

\* Two's complement addition and multiplication, for results below twice the
\* range; and C's division, which rounds towards zero.
Wrap(n) == IF n > IntMax THEN n - IntMax - IntMax - 2 ELSE n

DivC(n, d) == IF n >= 0 THEN n \div d ELSE -((-n) \div d)

Smaller(a, b) == IF a < b THEN a ELSE b

\* Mutant: max_outstanding is ignored.
BatchSizeUncapped == NumAtoms - threadsForked

\* threads_to_create.
BatchSize == Smaller(MaxOutstanding - Outstanding, NumAtoms - threadsForked)

\* Mutant: the oxygens of earlier batches are forgotten.
PlanForgetful(n) ==
    LET total == n + hSpawned + oSpawned
        h == DivC(Wrap(total * 2), 3) - hSpawned
        o == total \div 3
        h1 == IF h + o < n THEN h + 1 ELSE h
    IN  [h |-> h1, o |-> IF h1 + o < n THEN o + 1 ELSE o]

\* How many hydrogens and oxygens the next n threads are.
Plan(n) ==
    LET total == n + hSpawned + oSpawned
        h == DivC(Wrap(total * 2), 3) - hSpawned
        o == total \div 3 - oSpawned
        h1 == IF h + o < n THEN h + 1 ELSE h
    IN  [h |-> h1, o |-> IF h1 + o < n THEN o + 1 ELSE o]

\* Take G->lock and sleep if too many threads are outstanding.
CreatorSleep ==
    /\ creator = "locking" /\ glock = Free
    /\ Outstanding > MaxOutstanding \div 2
    /\ creator' = "waiting"
    /\ UNCHANGED <<atomVars, glock, toCreate, hToCreate, oToCreate, hSpawned, oSpawned,
                   threadsForked, threadsJoined, moleculesCreated, treeVars,
                   bondId, bonds, returning, joinerVars, error>>

\* Take G->lock and plan a batch.
CreatorPlan ==
    /\ creator = "locking" /\ glock = Free
    /\ Outstanding <= MaxOutstanding \div 2
    /\ glock' = Creator
    /\ creator' = "forking"
    /\ toCreate' = BatchSize
    /\ hToCreate' = Plan(BatchSize).h
    /\ oToCreate' = Plan(BatchSize).o
    /\ UNCHANGED <<atomVars, hSpawned, oSpawned, threadsForked, threadsJoined,
                   moleculesCreated, treeVars, bondId, bonds, returning, joinerVars, error>>

\* One pthread_create.  The new thread runs at once; its thread_info is not
\* in the trees yet.
CreatorForks(k) ==
    /\ creator = "forking" /\ toCreate > 0
    /\ W!Arrive(threadsForked, k)
    /\ creator' = "registering"
    /\ UNCHANGED <<rv, glock, toCreate, threadsForked, threadsJoined, moleculesCreated,
                   treeVars, bondId, bonds, returning, joinerVars, error>>

\* Mutant: h_to_create is not looked at.
CreatorForksAnyHydrogen ==
    /\ CreatorForks("h")
    /\ hToCreate' = hToCreate - 1 /\ hSpawned' = hSpawned + 1
    /\ UNCHANGED <<oToCreate, oSpawned>>

\* if (o_to_create > 0 && (rand()%3 == 0 || h_to_create == 0))
CreatorForksOxygen ==
    /\ oToCreate > 0
    /\ CreatorForks("o")
    /\ oToCreate' = oToCreate - 1 /\ oSpawned' = oSpawned + 1
    /\ UNCHANGED <<hToCreate, hSpawned>>

CreatorForksHydrogen ==
    /\ oToCreate <= 0 \/ hToCreate # 0
    /\ CreatorForks("h")
    /\ hToCreate' = hToCreate - 1 /\ hSpawned' = hSpawned + 1
    /\ UNCHANGED <<oToCreate, oSpawned>>

\* Mutant: the thread is not entered in number_to_info.
CreatorRegistersTid ==
    /\ creator = "registering"
    /\ threadsForked' = threadsForked + 1
    /\ tids' = tids \cup {threadsForked}
    /\ toCreate' = toCreate - 1
    /\ creator' = "forking"
    /\ UNCHANGED <<atomVars, glock, hToCreate, oToCreate, hSpawned, oSpawned,
                   threadsJoined, moleculesCreated, numbers, bondId, bonds, returning,
                   joinerVars, error>>

\* threads_forked++ and the insertions in the two trees.
CreatorRegisters ==
    /\ creator = "registering"
    /\ threadsForked' = threadsForked + 1
    /\ tids' = tids \cup {threadsForked}
    /\ numbers' = numbers \cup {threadsForked}
    /\ toCreate' = toCreate - 1
    /\ creator' = "forking"
    /\ UNCHANGED <<atomVars, glock, hToCreate, oToCreate, hSpawned, oSpawned,
                   threadsJoined, moleculesCreated, bondId, bonds, returning,
                   joinerVars, error>>

\* The end of the loop's body: exit or go round again, G->lock released.
CreatorEndsRound ==
    /\ \/ creator = "forking" /\ toCreate = 0
       \/ creator = "woken" /\ glock = Free
    /\ glock' = Free
    /\ creator' = IF AllForked THEN "done" ELSE "locking"
    /\ UNCHANGED <<atomVars, toCreate, hToCreate, oToCreate, hSpawned, oSpawned,
                   threadsForked, threadsJoined, moleculesCreated, treeVars,
                   bondId, bonds, returning, joinerVars, error>>

CreatorStep ==
    \/ CreatorSleep
    \/ CreatorPlan
    \/ CreatorForksOxygen
    \/ CreatorForksHydrogen
    \/ CreatorRegisters
    \/ CreatorEndsRound

-----------------------------------------------------------------------------
(* Bond() *)

\* A check of those Bond(m.h1, m.h2, m.o) makes of its caller t that fails.
BondError(t, m) ==
    CASE t \notin tids -> "pthread_t not in the database"
      [] t \notin Members(m) -> "the id has to be one of the atoms"
      [] Cardinality(Members(m)) < 3 -> "duplicate atoms"
      [] (t = m.o) # (kind[t] = "o") -> "wrong type for this bond"
      [] bondId[t] \notin {NoBond, m} -> "another thread had that atom in a bond"
      [] bondId[t] = NoBond /\ ~(Members(m) \subseteq numbers) -> "thread not in the database"
      [] bondId[t] = NoBond /\ \E a \in Members(m) : bondId[a] # NoBond -> "already has a bond"
      [] OTHER -> "none"

\* Mutant: the oxygen is appended first.
OxygenFirst(m) == <<m.o, m.h1, m.h2>>

\* The atoms of a molecule in the order they are appended to bonds.
HandOver(m) == <<m.h1, m.h2, m.o>>

\* Bond(m.h1, m.h2, m.o) from its lock to its unlock.  The first of the three callers names
\* the bond in all three thread_infos and hands the atoms to the joiner,
\* oxygen last.
BondEnter(t, m) ==
    LET first == bondId[t] = NoBond
        problem == BondError(t, m)
    IN  /\ glock = Free
        /\ error' = problem
        /\ tids' = tids \ {t}
        /\ IF first /\ problem = "none"
           THEN /\ moleculesCreated' = moleculesCreated + 1
                /\ bondId' = [a \in Atoms |-> IF a \in Members(m) THEN m ELSE bondId[a]]
                /\ bonds' = bonds \o HandOver(m)
                /\ joiner' = Signalled(joiner)
           ELSE UNCHANGED <<moleculesCreated, bondId, bonds, joiner>>
        /\ returning' = returning \cup {t}
        /\ UNCHANGED <<atomVars, glock, creatorVars, threadsForked, threadsJoined,
                       numbers, joining>>

\* return ti->bond_id, read after G->lock was released; the caller returns it.
BondReturn(t) ==
    /\ t \in returning
    /\ rv' = [rv EXCEPT ![t] = bondId[t]]
    /\ W!Leave(t)
    /\ returning' = returning \ {t}
    /\ UNCHANGED <<glock, creatorVars, threadsForked, threadsJoined, moleculesCreated,
                   treeVars, bondId, bonds, joinerVars, error>>

\* An atom calls Bond() when it is in a molecule, with that molecule.
AtomCallsBond(t) ==
    /\ t \notin returning \cup left
    /\ \E m \in molecules : t \in Members(m) /\ BondEnter(t, m)

\* bonding.c at work.
AtomsForm ==
    /\ W!Form
    /\ UNCHANGED <<rv, glock, creatorVars, threadsForked, threadsJoined, moleculesCreated,
                   treeVars, bondId, bonds, returning, joinerVars, error>>

-----------------------------------------------------------------------------
(* joiner_thread *)

\* Get G->lock: at the start, or when pthread_cond_wait returns.
JoinerLocks ==
    /\ joiner \in {"start", "woken"}
    /\ glock = Free
    /\ glock' = Joiner
    /\ joiner' = "top"
    /\ UNCHANGED <<atomVars, creatorVars, threadsForked, threadsJoined, moleculesCreated,
                   treeVars, bondId, bonds, returning, joining, error>>

\* Take an atom off bonds, find its thread_info and release G->lock.
JoinerTakes ==
    /\ joiner = "top" /\ bonds # <<>>
    /\ joining' = Head(bonds)
    /\ bonds' = Tail(bonds)
    /\ error' = IF Head(bonds) \in numbers THEN "none" ELSE "thread number is not in number_to_info"
    /\ joiner' = "joining"
    /\ glock' = Free
    /\ UNCHANGED <<atomVars, creatorVars, threadsForked, threadsJoined, moleculesCreated,
                   treeVars, bondId, returning>>

\* pthread_join returns once the thread has exited; check what it returned.
JoinerJoins ==
    /\ joiner = "joining"
    /\ joining \in left
    /\ error' = CASE rv[joining] = NoBond -> "rv is NULL"
                  [] rv[joining] # bondId[joining] -> "rv is not the bond"
                  [] OTHER -> "none"
    /\ joiner' = "joined"
    /\ UNCHANGED <<atomVars, glock, creatorVars, threadsForked, threadsJoined,
                   moleculesCreated, treeVars, bondId, bonds, returning, joining>>

\* Mutant: the hydrogen that is joined first triggers the frees.
FreesAtHydrogen(n) == kind[n] = "h"

\* The thread whose join triggers the frees of its molecule: the oxygen.
FreesMolecule(n) == kind[n] = "o"

\* Mutant: the second hydrogen is leaked.
FreedButOne(n) == {n, bondId[n].h1}

\* The thread_infos freed with thread n, read off the text of its bond_id.
Freed(n) == {n, bondId[n].h1, bondId[n].h2}

\* Mutant: the creator is signalled once per molecule.
SignalPerMolecule(n) == creator' = IF FreesMolecule(n) THEN Signalled(creator) ELSE creator

\* pthread_cond_signal(G->create_cond), after every join.
SignalCreator(n) == creator' = Signalled(creator)

\* Take G->lock, count the thread, free the molecule's three thread_infos if
\* it is the oxygen, and signal the creator.
JoinerAccounts ==
    LET m == bondId[joining]
        others == numbers \ {joining}
    IN  /\ joiner = "joined"
        /\ glock = Free
        /\ glock' = Joiner
        /\ threadsJoined' = threadsJoined + 1
        /\ IF FreesMolecule(joining)
           THEN /\ numbers' = numbers \ Freed(joining)
                /\ error' = CASE m.h1 \notin others -> "H1-NO-NUMBER"
                              [] m.h2 \notin others \ {m.h1} -> "H2-NO-NUMBER"
                              [] OTHER -> "none"
           ELSE UNCHANGED <<numbers, error>>
        /\ SignalCreator(joining)
        /\ joiner' = "top"
        /\ UNCHANGED <<atomVars, toCreate, hToCreate, oToCreate, hSpawned, oSpawned,
                       threadsForked, moleculesCreated, tids, bondId, bonds, returning, joining>>

AllJoined == threadsJoined = NumAtoms

\* Mutant: a joiner with nothing to join exits.
JoinerExitsEarly ==
    /\ joiner = "top" /\ bonds = <<>>
    /\ error' = CASE tids # {} -> "Tid tree is not empty"
                  [] numbers # {} -> "Number tree is not empty"
                  [] OTHER -> "none"
    /\ joiner' = "done"
    /\ glock' = Free
    /\ UNCHANGED <<atomVars, creatorVars, threadsForked, threadsJoined, moleculesCreated,
                   treeVars, bondId, bonds, returning, joining>>

JoinerExits ==
    /\ joiner = "top" /\ bonds = <<>>
    /\ AllJoined
    /\ error' = CASE tids # {} -> "Tid tree is not empty"
                  [] numbers # {} -> "Number tree is not empty"
                  [] OTHER -> "none"
    /\ joiner' = "done"
    /\ glock' = Free
    /\ UNCHANGED <<atomVars, creatorVars, threadsForked, threadsJoined, moleculesCreated,
                   treeVars, bondId, bonds, returning, joining>>

JoinerSleeps ==
    /\ joiner = "top" /\ bonds = <<>>
    /\ ~AllJoined
    /\ joiner' = "waiting"
    /\ glock' = Free
    /\ UNCHANGED <<atomVars, creatorVars, threadsForked, threadsJoined, moleculesCreated,
                   treeVars, bondId, bonds, returning, joining, error>>

JoinerStep ==
    \/ JoinerLocks
    \/ JoinerTakes
    \/ JoinerJoins
    \/ JoinerAccounts
    \/ JoinerExits
    \/ JoinerSleeps

-----------------------------------------------------------------------------
Running == error = "none"

\* The process ends when every thread has, or in exit(1).
Finished == creator = "done" /\ joiner = "done" /\ left = Atoms

Terminated ==
    /\ Finished \/ ~Running
    /\ UNCHANGED vars

Next ==
    \/ Running /\ CreatorStep
    \/ Running /\ JoinerStep
    \/ Running /\ AtomsForm
    \/ Running /\ \E t \in Atoms : AtomCallsBond(t) \/ BondReturn(t)
    \/ Terminated

Spec == Init /\ [][Next]_vars

\* Every thread that can run is scheduled.
Fairness ==
    /\ WF_vars(Running /\ CreatorStep)
    /\ WF_vars(Running /\ JoinerStep)
    /\ WF_vars(Running /\ AtomsForm)
    /\ \A t \in Atoms : WF_vars(Running /\ (AtomCallsBond(t) \/ BondReturn(t)))

\* POSIX lets the waits of the two driver threads end without a signal too;
\* both sit in a loop.
SpuriousCreator ==
    /\ creator = "waiting" /\ creator' = "woken"
    /\ UNCHANGED <<atomVars, glock, toCreate, hToCreate, oToCreate, hSpawned, oSpawned,
                   threadsForked, threadsJoined, moleculesCreated, treeVars,
                   bondId, bonds, returning, joinerVars, error>>

SpuriousJoiner ==
    /\ joiner = "waiting" /\ joiner' = "woken"
    /\ UNCHANGED <<atomVars, glock, creatorVars, threadsForked, threadsJoined,
                   moleculesCreated, treeVars, bondId, bonds, returning, joining, error>>

SpuriousSpec == Init /\ [][Next \/ (Running /\ (SpuriousCreator \/ SpuriousJoiner))]_vars

\* There may be any number of such wakeups, but they come to an end.
FairSpuriousSpec ==
    /\ SpuriousSpec
    /\ Fairness
    /\ <>[][~SpuriousCreator /\ ~SpuriousJoiner]_vars

-----------------------------------------------------------------------------
\* What the driver prints before exit(1).
Messages ==
    { "pthread_t not in the database", "the id has to be one of the atoms",
      "duplicate atoms", "wrong type for this bond",
      "another thread had that atom in a bond", "thread not in the database",
      "already has a bond", "thread number is not in number_to_info",
      "rv is NULL", "rv is not the bond", "H1-NO-NUMBER", "H2-NO-NUMBER",
      "Tid tree is not empty", "Number tree is not empty" }

TypeOK ==
    /\ kind \in [Atoms -> {"none", "h", "o"}]
    /\ molecules \subseteq Bond
    /\ left \subseteq Atoms
    /\ rv \in [Atoms -> Bond \cup {NoBond}]
    /\ glock \in {Free, Creator, Joiner}
    /\ creator \in {"locking", "waiting", "woken", "forking", "registering", "done"}
    /\ toCreate \in 0..MaxOutstanding
    /\ hToCreate \in Int /\ oToCreate \in Int
    /\ threadsForked \in 0..NumAtoms /\ threadsJoined \in 0..NumAtoms
    /\ hSpawned \in 0..NumAtoms /\ oSpawned \in 0..NumAtoms
    /\ moleculesCreated \in 0..NumMolecules
    /\ tids \subseteq numbers /\ numbers \subseteq Atoms
    /\ bondId \in [Atoms -> Bond \cup {NoBond}]
    /\ bonds \in Seq(Atoms)
    /\ returning \subseteq Atoms
    /\ joiner \in {"start", "waiting", "woken", "top", "joining", "joined", "done"}
    /\ joining \in Atoms \cup {Free}
    /\ error \in Messages \cup {"none"}

\* None of the checks of Bond(), set_bond() and joiner_thread() ever fails:
\* no "Error ..." line, no exit(1).
NoError == error = "none"

\* At most max_outstanding threads exist that have not been joined, the one
\* being created included ("at most max_outstanding threads are outstanding").
OutstandingBound == hSpawned + oSpawned - threadsJoined <= MaxOutstanding

\* "It also keeps the number of h and o threads in balance": whenever the
\* creator is not in the middle of a batch, the threads created so far are two
\* hydrogens to one oxygen, but for the at most two hydrogens of a molecule
\* whose oxygen belongs to the next batch.
Balance ==
    creator \notin {"forking", "registering"} =>
        /\ hSpawned + oSpawned = threadsForked
        /\ oSpawned = threadsForked \div 3

\* The atoms on their way to be joined.
Pending == (IF joiner \in {"joining", "joined"} THEN <<joining>> ELSE <<>>) \o bonds

\* Every atom of every created molecule is handed to the joiner exactly once,
\* the hydrogens before the oxygen: when the oxygen is accounted for, nothing
\* of its molecule is left to join, so all three thread_infos can be freed.
HandedOverOnce ==
    /\ threadsJoined + Len(Pending) = 3 * moleculesCreated
    /\ \A i, j \in DOMAIN Pending : i # j => Pending[i] # Pending[j]
    /\ \A i \in DOMAIN Pending :
         LET m == bondId[Pending[i]]
         IN  /\ m # NoBond
             /\ \E j \in DOMAIN Pending : j >= i /\ Pending[j] = m.o

\* No wakeup is lost: the joiner sleeps only while there is nothing to join,
\* the creator only while too many threads are outstanding, and then a join is
\* owed to it: some outstanding atom is in a molecule, or enough atoms of each
\* kind are there for one.  (Its batches could otherwise leave it waiting for
\* atoms only it can make.)
SleepersAreOwedASignal ==
    /\ joiner = "waiting" => bonds = <<>> /\ ~AllJoined
    /\ creator = "waiting" =>
        /\ Outstanding > MaxOutstanding \div 2
        /\ \/ \E t \in W!Bonded : t \in numbers
           \/ Cardinality(W!Unbonded("h")) >= 2 /\ W!Unbonded("o") # {}

\* Thread_infos are freed three at a time, those of one molecule, and only
\* after its three threads have returned: Bond() reads ti->bond_id with no lock
\* held, and its thread_info is still there.
FreedByMolecule ==
    [][ LET freed == numbers \ numbers'
        IN  freed # {} => /\ freed \subseteq left
                          /\ \E m \in molecules : freed = Members(m) ]_vars

\* The program runs to completion, however many wakeups without a signal there
\* are: every thread is created, bonded and joined, creator and joiner exit, and
\* no check fails.
Termination == <>(Finished /\ AllJoined /\ NoError)
=============================================================================
