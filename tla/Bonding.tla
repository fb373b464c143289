------------------------------ MODULE Bonding ------------------------------
(***************************************************************************)
(* src/Lab-A-Bonding/bonding.c: the threads running hydrogen() and          *)
(* oxygen(), the mutex and the two lists they share, and the private        *)
(* condition variable each of them waits on.  pthread_create() is the       *)
(* action Spawn; Bond() is the pc value "bonding", left by Return.          *)
(* bonding-driver.c gives both their real meaning in BondingDriver.tla.     *)
(*                                                                         *)
(* Everything a critical section touches is protected by g->lock, so one    *)
(* action acquires the mutex and runs the section up to the point where     *)
(* the mutex is released, by pthread_cond_wait() or by a separate Unlock.   *)
(***************************************************************************)
EXTENDS Integers, SequencesExt

CONSTANT Atoms      \* thread ids

Unset == -1     \* an id field of a Molecule before bonding
Free  == -1     \* the owner of a mutex nobody holds

ASSUME AtomsAssumption == Unset \notin Atoms

\* The id fields of struct molecule; also what a bond string "(h1,h2,o)"
\* says.  NoMolecule stands for the three -1s, and for a NULL string.
Molecule   == [h1 : Atoms, h2 : Atoms, o : Atoms]
NoMolecule == [h1 |-> Unset, h2 |-> Unset, o |-> Unset]

Members(m) == {m.h1, m.h2, m.o}

VARIABLES
    kind,       \* kind[t]: which function thread t runs, "none" before it exists
    pc,         \* pc[t]: where thread t is
    lock,       \* the owner of g->lock
    hydrogens,  \* g->hydrogens, the ids of the waiting hydrogens
    oxygens,    \* g->oxygens
    mol,        \* mol[t]: the id fields of the Molecule of thread t
    rv          \* rv[t]: what thread t returned

vars == <<kind, pc, lock, hydrogens, oxygens, mol, rv>>

\* unborn     not created
\* start      created, has not taken g->lock
\* waiting    asleep in pthread_cond_wait
\* woken      signalled, has to take g->lock again before the wait returns
\* unlocking  holds g->lock and is about to release it
\* bonding    has called Bond()
\* exited     has freed its Molecule and returned
PCs == {"unborn", "start", "waiting", "woken", "unlocking", "bonding", "exited"}

Init ==
    /\ kind = [t \in Atoms |-> "none"]
    /\ pc = [t \in Atoms |-> "unborn"]
    /\ lock = Free
    /\ hydrogens = <<>>
    /\ oxygens = <<>>
    /\ mol = [t \in Atoms |-> NoMolecule]
    /\ rv = [t \in Atoms |-> NoMolecule]

-----------------------------------------------------------------------------
\* pthread_create(..., hydrogen or oxygen, ...): the thread and the private
\* Molecule it fills with -1s.
Spawn(t, k) ==
    /\ pc[t] = "unborn"
    /\ pc' = [pc EXCEPT ![t] = "start"]
    /\ kind' = [kind EXCEPT ![t] = k]
    /\ UNCHANGED <<lock, hydrogens, oxygens, mol, rv>>

Acquire(t) ==
    /\ lock = Free
    /\ lock' = t

\* Mutant: the signal is never sent.
NotSignalled(p) == p

\* pthread_cond_signal is remembered by nobody: it moves a thread that is
\* asleep and is lost on any other.
Signalled(p) == IF p = "waiting" THEN "woken" ELSE p

\* Mutants: the o fields are forgotten; the second hydrogen gets the hydrogens
\* in the other order; the second hydrogen is forgotten.
IdsWithoutO(a, m) == [m EXCEPT !.o = Unset]
IdsSwapped(a, m) == IF a = m.h2 THEN [m EXCEPT !.h1 = m.h2, !.h2 = m.h1] ELSE m
IdsForgotten(a, m) == IF a = m.h2 THEN NoMolecule ELSE m

\* What the Molecule of atom a says once m is formed.
Ids(a, m) == m

\* Thread t fills in the ids of the three Molecules, signals the other two
\* threads and is left holding the mutex.
MakeMolecule(t, h1, h2, o) ==
    LET m == [h1 |-> h1, h2 |-> h2, o |-> o]
    IN  /\ mol' = [a \in Atoms |-> IF a \in Members(m) THEN Ids(a, m) ELSE mol[a]]
        /\ pc' = [a \in Atoms |-> IF a = t THEN "unlocking"
                                  ELSE IF a \in Members(m) THEN Signalled(pc[a])
                                  ELSE pc[a]]

\* pthread_cond_wait: asleep, and the mutex just acquired is free again.
Wait(t) ==
    /\ lock = Free
    /\ lock' = Free
    /\ pc' = [pc EXCEPT ![t] = "waiting"]

HydrogenCanBond == oxygens # <<>> /\ hydrogens # <<>>

\* Mutant: the oxygen is left on its list.
HydrogenBondsAndKeeps(t) ==
    /\ pc[t] = "start" /\ kind[t] = "h"
    /\ Acquire(t)
    /\ HydrogenCanBond
    /\ MakeMolecule(t, t, Head(hydrogens), Head(oxygens))
    /\ hydrogens' = Tail(hydrogens)
    /\ UNCHANGED <<kind, oxygens, rv>>

HydrogenBonds(t) ==
    /\ pc[t] = "start" /\ kind[t] = "h"
    /\ Acquire(t)
    /\ HydrogenCanBond
    /\ MakeMolecule(t, t, Head(hydrogens), Head(oxygens))
    /\ hydrogens' = Tail(hydrogens)
    /\ oxygens' = Tail(oxygens)
    /\ UNCHANGED <<kind, rv>>

HydrogenWaits(t) ==
    /\ pc[t] = "start" /\ kind[t] = "h"
    /\ ~HydrogenCanBond
    /\ hydrogens' = Append(hydrogens, t)
    /\ Wait(t)
    /\ UNCHANGED <<kind, oxygens, mol, rv>>

\* Mutant: one hydrogen too many is waited for.
OxygenCanBondLate == Len(hydrogens) > 2

OxygenCanBond == Len(hydrogens) >= 2

\* Mutant: both hydrogens are the first of the list.
OxygenBondsOneTwice(t) ==
    /\ pc[t] = "start" /\ kind[t] = "o"
    /\ Acquire(t)
    /\ OxygenCanBond
    /\ MakeMolecule(t, hydrogens[1], hydrogens[1], t)
    /\ hydrogens' = Tail(Tail(hydrogens))
    /\ UNCHANGED <<kind, oxygens, rv>>

OxygenBonds(t) ==
    /\ pc[t] = "start" /\ kind[t] = "o"
    /\ Acquire(t)
    /\ OxygenCanBond
    /\ MakeMolecule(t, hydrogens[1], hydrogens[2], t)
    /\ hydrogens' = Tail(Tail(hydrogens))
    /\ UNCHANGED <<kind, oxygens, rv>>

OxygenWaits(t) ==
    /\ pc[t] = "start" /\ kind[t] = "o"
    /\ ~OxygenCanBond
    /\ oxygens' = Append(oxygens, t)
    /\ Wait(t)
    /\ UNCHANGED <<kind, hydrogens, mol, rv>>

\* Mutant: the wait returns without the mutex.
WakeUnlocked(t) ==
    /\ pc[t] = "woken"
    /\ pc' = [pc EXCEPT ![t] = "unlocking"]
    /\ UNCHANGED <<kind, lock, hydrogens, oxygens, mol, rv>>

\* The signalled thread gets g->lock back and pthread_cond_wait returns.
Reacquire(t) ==
    /\ pc[t] = "woken"
    /\ Acquire(t)
    /\ pc' = [pc EXCEPT ![t] = "unlocking"]
    /\ UNCHANGED <<kind, hydrogens, oxygens, mol, rv>>

\* Release g->lock, then call Bond() with the ids of the own Molecule.
Unlock(t) ==
    /\ pc[t] = "unlocking"
    /\ lock' = Free
    /\ pc' = [pc EXCEPT ![t] = "bonding"]
    /\ UNCHANGED <<kind, hydrogens, oxygens, mol, rv>>

\* Bond() returned the string r: destroy the condition variable, free the
\* Molecule and return r.
Return(t, r) ==
    /\ pc[t] = "bonding"
    /\ pc' = [pc EXCEPT ![t] = "exited"]
    /\ rv' = [rv EXCEPT ![t] = r]
    /\ UNCHANGED <<kind, lock, hydrogens, oxygens, mol>>

Step(t) ==
    \/ HydrogenBonds(t)
    \/ HydrogenWaits(t)
    \/ OxygenBonds(t)
    \/ OxygenWaits(t)
    \/ Reacquire(t)
    \/ Unlock(t)

Next ==
    \/ \E t \in Atoms, k \in {"h", "o"} : Spawn(t, k)
    \/ \E t \in Atoms : Step(t)
    \/ \E t \in Atoms : Return(t, mol[t])

Spec == Init /\ [][Next]_vars

\* Threads are scheduled preemptively and Bond() returns; nothing obliges the
\* driver to create another thread.
Fairness == \A t \in Atoms : WF_vars(Step(t) \/ Return(t, mol[t]))

FairSpec == Spec /\ Fairness

\* POSIX lets pthread_cond_wait return without a signal.
SpuriousWakeup(t) ==
    /\ pc[t] = "waiting"
    /\ pc' = [pc EXCEPT ![t] = "woken"]
    /\ UNCHANGED <<kind, lock, hydrogens, oxygens, mol, rv>>

SpuriousSpec == Init /\ [][Next \/ \E t \in Atoms : SpuriousWakeup(t)]_vars

-----------------------------------------------------------------------------
HasBond(t) == mol[t] # NoMolecule

TypeOK ==
    /\ kind \in [Atoms -> {"none", "h", "o"}]
    /\ pc \in [Atoms -> PCs]
    /\ lock \in Atoms \cup {Free}
    /\ hydrogens \in Seq(Atoms)
    /\ oxygens \in Seq(Atoms)
    /\ mol \in [Atoms -> Molecule \cup {NoMolecule}]
    /\ rv \in [Atoms -> Molecule \cup {NoMolecule}]

\* g->lock is held exactly by a thread about to release it.  So no thread is
\* asleep, or in Bond(), with the mutex locked ("When a thread calls Bond() it
\* is not allowed to hold any locked mutexes").
LockDiscipline == \A t \in Atoms : lock = t <=> pc[t] = "unlocking"

\* The three atoms of a molecule agree on it: whoever has been given ids finds
\* itself among them, two hydrogens and an oxygen, all different, and each of
\* the three has been given the same ids.  This is what the header asks of
\* the arguments of Bond() ("with the exact same arguments").
Agreement ==
    \A t \in Atoms : HasBond(t) =>
        LET m == mol[t]
        IN  /\ t \in Members(m)
            /\ m.h1 # m.h2
            /\ kind[m.h1] = "h" /\ kind[m.h2] = "h" /\ kind[m.o] = "o"
            /\ \A a \in Members(m) : mol[a] = m

\* A thread that no longer waits has the ids of a molecule: it never calls
\* Bond() with the -1s its Molecule starts with.
BondHasIds ==
    \A t \in Atoms : pc[t] \in {"woken", "unlocking", "bonding", "exited"} => HasBond(t)

\* No molecule is missed: the sleepers are never enough for one, and a sleeper
\* that is put in one is woken in the same critical section.
NoMissedBond ==
    /\ ~(Len(hydrogens) >= 2 /\ Len(oxygens) >= 1)
    /\ \A t \in Atoms : pc[t] = "waiting" => ~HasBond(t)

\* list holds the sleeping threads of kind k, once each.
HoldsSleepers(list, k) ==
    /\ \A t \in Atoms : (pc[t] = "waiting" /\ kind[t] = k) <=> Contains(list, t)
    /\ IsInjective(list)

\* What the next thread takes from a list is the Molecule of a live thread
\* that is asleep, never one that has been freed or is already in a molecule.
ListsAreTheSleepers ==
    /\ HoldsSleepers(hydrogens, "h")
    /\ HoldsSleepers(oxygens, "o")

\* Nobody is put in a second molecule: the ids a thread was given are the ids
\* it calls Bond() with, whatever the others do before it does.
BondsArePermanent ==
    [][\A t \in Atoms : HasBond(t) => mol'[t] = mol[t]]_vars

\* An atom that has been put in a molecule gets to return from Bond().
BondedAtomsReturn == \A t \in Atoms : HasBond(t) ~> pc[t] = "exited"

W == INSTANCE Water WITH
        molecules <- {mol[t] : t \in Atoms} \ {NoMolecule},
        left <- {t \in Atoms : pc[t] = "exited"}

\* The threads of bonding.c form molecules as Water says, and whenever two
\* hydrogens and an oxygen are there they do form one.
ImplementsWater == W!FairSpec
=============================================================================
