--------------------------- MODULE BondingProofs ---------------------------
(***************************************************************************)
(* The safety of Bonding.tla for any set of atoms: the inductive invariant  *)
(* of bonding.c and what follows from it.                                   *)
(***************************************************************************)
EXTENDS Bonding, SequenceTheorems, TLAPS

-----------------------------------------------------------------------------
(* Lists without repetitions *)

\* A sequence's first element is gone from its tail, and nothing else is.
LEMMA TailOfDistinct ==
    ASSUME NEW S, NEW s \in Seq(S), s # <<>>, IsInjective(s)
    PROVE  /\ Tail(s) \in Seq(S)
           /\ IsInjective(Tail(s))
           /\ Contains(s, Head(s))
           /\ \A e : Contains(Tail(s), e) <=> Contains(s, e) /\ e # Head(s)
<1>1. /\ Tail(s) \in Seq(S)
      /\ Len(s) \in Nat /\ Len(s) > 0
      /\ Len(Tail(s)) = Len(s) - 1
      /\ DOMAIN s = 1..Len(s)
      /\ DOMAIN Tail(s) = 1..Len(Tail(s))
      /\ Head(s) = s[1]
      /\ \A i \in 1..Len(Tail(s)) : Tail(s)[i] = s[i + 1]
  BY EmptySeq, LenProperties, HeadTailProperties
<1>2. IsInjective(Tail(s))
  BY <1>1 DEF IsInjective
<1>3. Contains(s, Head(s))
  BY <1>1 DEF Contains
<1>4. ASSUME NEW e, Contains(Tail(s), e)
      PROVE  Contains(s, e) /\ e # Head(s)
  BY <1>1, <1>4 DEF Contains, IsInjective
<1>5. ASSUME NEW e, Contains(s, e), e # Head(s)
      PROVE  Contains(Tail(s), e)
  <2>1. PICK i \in 1..Len(s) : s[i] = e
    BY <1>5 DEF Contains
  <2>2. /\ i - 1 \in 1..Len(Tail(s))
        /\ Tail(s)[i - 1] = e
    BY <1>1, <1>5, <2>1
  <2> QED
    BY <2>2 DEF Contains
<1> QED
  BY <1>1, <1>2, <1>3, <1>4, <1>5

\* Appending an element that is not there adds it and keeps the rest.
LEMMA AppendToDistinct ==
    ASSUME NEW S, NEW s \in Seq(S), NEW t \in S, IsInjective(s), ~Contains(s, t)
    PROVE  /\ Append(s, t) \in Seq(S)
           /\ IsInjective(Append(s, t))
           /\ \A e : Contains(Append(s, t), e) <=> Contains(s, e) \/ e = t
<1> DEFINE a == Append(s, t)
<1>1. /\ a \in Seq(S)
      /\ Len(s) \in Nat
      /\ Len(a) = Len(s) + 1
      /\ DOMAIN s = 1..Len(s)
      /\ DOMAIN a = 1..Len(a)
      /\ \A i \in 1..Len(s) : a[i] = s[i]
      /\ a[Len(s) + 1] = t
  BY LenProperties, AppendProperties
<1> HIDE DEF a
<1>2. IsInjective(a)
  BY <1>1 DEF Contains, IsInjective
<1>3. ASSUME NEW e
      PROVE  Contains(a, e) <=> Contains(s, e) \/ e = t
  <2>1. ASSUME Contains(a, e) PROVE Contains(s, e) \/ e = t
    BY <1>1, <2>1 DEF Contains
  <2>2. ASSUME Contains(s, e) PROVE Contains(a, e)
    BY <1>1, <2>2 DEF Contains
  <2>3. ASSUME e = t PROVE Contains(a, e)
    BY <1>1, <2>3 DEF Contains
  <2> QED
    BY <2>1, <2>2, <2>3
<1> QED
  BY <1>1, <1>2, <1>3 DEF a

-----------------------------------------------------------------------------
(* The inductive invariant *)

\* An atom has a kind once it exists.
KindsKnown == \A t \in Atoms : kind[t] = "none" <=> pc[t] = "unborn"

\* The threads whose Molecule has been filled in.
PastBond == {"woken", "unlocking", "bonding", "exited"}

IdsKnown == \A t \in Atoms : HasBond(t) <=> pc[t] \in PastBond

NotEnough == ~(Len(hydrogens) >= 2 /\ Len(oxygens) >= 1)

IInv ==
    /\ TypeOK
    /\ KindsKnown
    /\ IdsKnown
    /\ LockDiscipline
    /\ ListsAreTheSleepers
    /\ NotEnough
    /\ Agreement

\* A Molecule of real atoms is not the Molecule of -1s.
LEMMA MoleculeIsSet ==
    ASSUME NEW m \in Molecule
    PROVE  m # NoMolecule
  BY AtomsAssumption DEF Molecule, NoMolecule, Unset

\* The two critical sections that make a molecule, seen from outside: three
\* unbonded atoms, two hydrogens and an oxygen, have been given the same ids.
Makes(h1, h2, o) ==
    /\ h1 # h2
    /\ kind[h1] = "h" /\ kind[h2] = "h" /\ kind[o] = "o"
    /\ \A a \in {h1, h2, o} :
         /\ ~HasBond(a)
         /\ mol'[a] = [h1 |-> h1, h2 |-> h2, o |-> o]
         /\ pc[a] # "exited" /\ pc'[a] # "exited"
    /\ \A a \in Atoms \ {h1, h2, o} : mol'[a] = mol[a] /\ pc'[a] = pc[a]
    /\ UNCHANGED kind

\* What two of the four critical sections do to the Molecules and the
\* program counters: three atoms of the right kinds with no molecule yet, t one
\* of them and the others asleep, get the same one and nobody else changes.
LEMMA MakeMoleculeAgrees ==
    ASSUME TypeOK, KindsKnown, IdsKnown, Agreement,
           NEW t \in Atoms, NEW h1 \in Atoms, NEW h2 \in Atoms, NEW o \in Atoms,
           h1 # h2, kind[h1] = "h", kind[h2] = "h", kind[o] = "o",
           t \in {h1, h2, o}, pc[t] = "start",
           \A a \in {h1, h2, o} \ {t} : pc[a] = "waiting",
           MakeMolecule(t, h1, h2, o), UNCHANGED kind
    PROVE  /\ mol' \in [Atoms -> Molecule \cup {NoMolecule}]
           /\ pc' \in [Atoms -> PCs]
           /\ Agreement'
           /\ KindsKnown'
           /\ IdsKnown'
           /\ pc'[t] = "unlocking"
           /\ \A a \in {h1, h2, o} \ {t} : pc'[a] = "woken"
           /\ \A a \in Atoms \ {h1, h2, o} : pc'[a] = pc[a]
           /\ Makes(h1, h2, o)
<1> DEFINE m == [h1 |-> h1, h2 |-> h2, o |-> o]
<1>1. /\ m \in Molecule
      /\ m.h1 = h1 /\ m.h2 = h2 /\ m.o = o
      /\ Members(m) = {h1, h2, o}
  BY DEF Molecule, Members
<1>2. /\ mol' = [a \in Atoms |-> IF a \in Members(m) THEN m ELSE mol[a]]
      /\ pc' = [a \in Atoms |-> IF a = t THEN "unlocking"
                                ELSE IF a \in Members(m) THEN Signalled(pc[a])
                                ELSE pc[a]]
  BY DEF MakeMolecule, Ids
<1> HIDE DEF m
<1>3. /\ \A a \in {h1, h2, o} : mol'[a] = m
      /\ \A a \in Atoms \ {h1, h2, o} : mol'[a] = mol[a]
  BY <1>1, <1>2
<1>4. /\ pc'[t] = "unlocking"
      /\ \A a \in {h1, h2, o} \ {t} : pc'[a] = "woken"
      /\ \A a \in Atoms \ {h1, h2, o} : pc'[a] = pc[a]
  BY <1>1, <1>2 DEF Signalled
<1>5. mol' \in [Atoms -> Molecule \cup {NoMolecule}]
  BY <1>1, <1>2 DEF TypeOK
<1>6. pc' \in [Atoms -> PCs]
  BY <1>1, <1>2 DEF TypeOK, PCs, Signalled
<1>7. m # NoMolecule
  BY <1>1, MoleculeIsSet
<1>8. \A a \in {h1, h2, o} : ~HasBond(a)
  BY DEF IdsKnown, PastBond
<1>9. KindsKnown'
  <2> SUFFICES ASSUME NEW a \in Atoms
               PROVE  kind[a] = "none" <=> pc'[a] = "unborn"
    BY DEF KindsKnown
  <2>1. CASE a \in {h1, h2, o}
    BY <2>1, <1>4
  <2>2. CASE a \notin {h1, h2, o}
    BY <2>2, <1>4 DEF KindsKnown
  <2> QED
    BY <2>1, <2>2
<1>10. IdsKnown'
  <2> SUFFICES ASSUME NEW a \in Atoms
               PROVE  mol'[a] # NoMolecule <=> pc'[a] \in PastBond
    BY DEF IdsKnown, HasBond
  <2>1. CASE a \in {h1, h2, o}
    BY <2>1, <1>3, <1>4, <1>7 DEF PastBond
  <2>2. CASE a \notin {h1, h2, o}
    BY <2>2, <1>3, <1>4 DEF IdsKnown, HasBond
  <2> QED
    BY <2>1, <2>2
<1>11. Agreement'
  <2> SUFFICES ASSUME NEW a \in Atoms, mol'[a] # NoMolecule
               PROVE  LET n == mol'[a]
                      IN  /\ a \in Members(n)
                          /\ n.h1 # n.h2
                          /\ kind[n.h1] = "h" /\ kind[n.h2] = "h" /\ kind[n.o] = "o"
                          /\ \A b \in Members(n) : mol'[b] = n
    BY DEF Agreement, HasBond
  <2>1. CASE a \in {h1, h2, o}
    BY <2>1, <1>1, <1>3
  <2>2. CASE a \notin {h1, h2, o}
    <3>1. mol'[a] = mol[a] /\ HasBond(a)
      BY <2>2, <1>3 DEF HasBond
    <3>2. mol[a] \in Molecule
      BY <3>1 DEF HasBond, TypeOK
    <3>3. \A b \in Members(mol[a]) : b \in Atoms /\ mol[b] = mol[a]
      BY <3>1, <3>2 DEF Agreement, Members, Molecule
    <3>4. \A b \in Members(mol[a]) : b \notin {h1, h2, o}
      BY <3>1, <3>3, <1>8 DEF HasBond
    <3> QED
      BY <3>1, <3>3, <3>4, <1>3 DEF Agreement
  <2> QED
    BY <2>1, <2>2
<1>12. Makes(h1, h2, o)
  BY <1>3, <1>4, <1>8 DEF Makes, m
<1> QED
  BY <1>4, <1>5, <1>6, <1>9, <1>10, <1>11, <1>12

LEMMA InitEstablishes == Init => IInv
<1> SUFFICES ASSUME Init PROVE IInv
  OBVIOUS
<1>1. TypeOK
  BY EmptySeq DEF Init, TypeOK, PCs
<1>2. KindsKnown /\ IdsKnown /\ Agreement
  BY DEF Init, KindsKnown, IdsKnown, HasBond, PastBond, Agreement
<1>3. LockDiscipline
  BY AtomsAssumption DEF Init, LockDiscipline, Free, Unset
<1>4. ListsAreTheSleepers
  BY DEF Init, ListsAreTheSleepers, HoldsSleepers, Contains, IsInjective
<1>5. NotEnough
  BY DEF Init, NotEnough
<1> QED
  BY <1>1, <1>2, <1>3, <1>4, <1>5 DEF IInv

\* Going to sleep on a list disturbs nothing but the lists.
LEMMA WaitPreserves ==
    ASSUME IInv, NEW t \in Atoms, pc[t] = "start", Wait(t), UNCHANGED <<kind, mol, rv>>
    PROVE  /\ pc' = [pc EXCEPT ![t] = "waiting"]
           /\ pc' \in [Atoms -> PCs]
           /\ lock' \in Atoms \cup {Free}
           /\ KindsKnown' /\ IdsKnown' /\ LockDiscipline' /\ Agreement'
<1>1. /\ pc' = [pc EXCEPT ![t] = "waiting"]
      /\ lock = Free /\ lock' = Free
  BY DEF Wait
<1>2. pc' \in [Atoms -> PCs]
  BY <1>1 DEF IInv, TypeOK, PCs
<1>3. KindsKnown'
  BY <1>1 DEF IInv, TypeOK, KindsKnown
<1>4. IdsKnown'
  BY <1>1 DEF IInv, TypeOK, IdsKnown, HasBond, PastBond
<1>5. LockDiscipline'
  BY <1>1, AtomsAssumption DEF IInv, TypeOK, LockDiscipline, Free, Unset
<1>6. Agreement'
  BY DEF IInv, Agreement, HasBond
<1> QED
  BY <1>1, <1>2, <1>3, <1>4, <1>5, <1>6

LEMMA HydrogenWaitsPreserves ==
    ASSUME IInv, NEW t \in Atoms, HydrogenWaits(t)
    PROVE  IInv'
<1>1. /\ pc[t] = "start" /\ kind[t] = "h"
      /\ ~HydrogenCanBond
      /\ hydrogens' = Append(hydrogens, t)
      /\ Wait(t)
      /\ UNCHANGED <<kind, oxygens, mol, rv>>
  BY DEF HydrogenWaits
<1>2. /\ pc' = [pc EXCEPT ![t] = "waiting"]
      /\ pc' \in [Atoms -> PCs]
      /\ lock' \in Atoms \cup {Free}
      /\ KindsKnown' /\ IdsKnown' /\ LockDiscipline' /\ Agreement'
  BY <1>1, WaitPreserves
<1>3. /\ pc \in [Atoms -> PCs]
      /\ hydrogens \in Seq(Atoms) /\ oxygens \in Seq(Atoms)
  BY DEF IInv, TypeOK
<1>4. ~Contains(hydrogens, t) /\ IsInjective(hydrogens)
  BY <1>1 DEF IInv, ListsAreTheSleepers, HoldsSleepers
<1>5. /\ hydrogens' \in Seq(Atoms)
      /\ IsInjective(hydrogens')
      /\ \A e : Contains(hydrogens', e) <=> Contains(hydrogens, e) \/ e = t
  BY <1>1, <1>3, <1>4, AppendToDistinct
<1>6. TypeOK'
  BY <1>1, <1>2, <1>5 DEF IInv, TypeOK
<1>7. HoldsSleepers(hydrogens, "h")'
  BY <1>1, <1>2, <1>3, <1>5 DEF IInv, ListsAreTheSleepers, HoldsSleepers
<1>8. HoldsSleepers(oxygens, "o")'
  BY <1>1, <1>2, <1>3 DEF IInv, ListsAreTheSleepers, HoldsSleepers
<1>9. NotEnough'
  <2>1. CASE oxygens = <<>>
    BY <1>1, <2>1, EmptySeq DEF NotEnough
  <2>2. CASE hydrogens = <<>>
    BY <1>1, <1>3, <2>2, EmptySeq, AppendProperties, LenProperties DEF NotEnough
  <2> QED
    BY <1>1, <2>1, <2>2 DEF HydrogenCanBond
<1> QED
  BY <1>2, <1>6, <1>7, <1>8, <1>9 DEF IInv, ListsAreTheSleepers

LEMMA OxygenWaitsPreserves ==
    ASSUME IInv, NEW t \in Atoms, OxygenWaits(t)
    PROVE  IInv'
<1>1. /\ pc[t] = "start" /\ kind[t] = "o"
      /\ ~OxygenCanBond
      /\ oxygens' = Append(oxygens, t)
      /\ Wait(t)
      /\ UNCHANGED <<kind, hydrogens, mol, rv>>
  BY DEF OxygenWaits
<1>2. /\ pc' = [pc EXCEPT ![t] = "waiting"]
      /\ pc' \in [Atoms -> PCs]
      /\ lock' \in Atoms \cup {Free}
      /\ KindsKnown' /\ IdsKnown' /\ LockDiscipline' /\ Agreement'
  BY <1>1, WaitPreserves
<1>3. /\ pc \in [Atoms -> PCs]
      /\ hydrogens \in Seq(Atoms) /\ oxygens \in Seq(Atoms)
  BY DEF IInv, TypeOK
<1>4. ~Contains(oxygens, t) /\ IsInjective(oxygens)
  BY <1>1 DEF IInv, ListsAreTheSleepers, HoldsSleepers
<1>5. /\ oxygens' \in Seq(Atoms)
      /\ IsInjective(oxygens')
      /\ \A e : Contains(oxygens', e) <=> Contains(oxygens, e) \/ e = t
  BY <1>1, <1>3, <1>4, AppendToDistinct
<1>6. TypeOK'
  BY <1>1, <1>2, <1>5 DEF IInv, TypeOK
<1>7. HoldsSleepers(oxygens, "o")'
  BY <1>1, <1>2, <1>3, <1>5 DEF IInv, ListsAreTheSleepers, HoldsSleepers
<1>8. HoldsSleepers(hydrogens, "h")'
  BY <1>1, <1>2, <1>3 DEF IInv, ListsAreTheSleepers, HoldsSleepers
<1>9. NotEnough'
  BY <1>1, <1>3, LenProperties DEF NotEnough, OxygenCanBond
<1> QED
  BY <1>2, <1>6, <1>7, <1>8, <1>9 DEF IInv, ListsAreTheSleepers

\* The thread that makes a molecule is left with the mutex.
LEMMA AcquiredByBonder ==
    ASSUME IInv, NEW t \in Atoms, Acquire(t), pc'[t] = "unlocking",
           NEW others \in SUBSET Atoms, t \notin others,
           \A a \in others : pc'[a] = "woken",
           \A a \in Atoms \ (others \cup {t}) : pc'[a] = pc[a]
    PROVE  lock' \in Atoms \cup {Free} /\ LockDiscipline'
<1>1. \A a \in Atoms : pc[a] # "unlocking"
  BY AtomsAssumption DEF Acquire, IInv, LockDiscipline, Free, Unset
<1> QED
  BY <1>1 DEF Acquire, LockDiscipline

LEMMA HydrogenBondsPreserves ==
    ASSUME IInv, NEW t \in Atoms, HydrogenBonds(t)
    PROVE  IInv'
<1> DEFINE h2 == Head(hydrogens)
           o  == Head(oxygens)
<1>1. /\ pc[t] = "start" /\ kind[t] = "h"
      /\ Acquire(t)
      /\ hydrogens # <<>> /\ oxygens # <<>>
      /\ MakeMolecule(t, t, h2, o)
      /\ hydrogens' = Tail(hydrogens) /\ oxygens' = Tail(oxygens)
      /\ UNCHANGED <<kind, rv>>
  BY DEF HydrogenBonds, HydrogenCanBond
<1>2. /\ hydrogens \in Seq(Atoms) /\ IsInjective(hydrogens)
      /\ oxygens \in Seq(Atoms) /\ IsInjective(oxygens)
  BY DEF IInv, TypeOK, ListsAreTheSleepers, HoldsSleepers
<1>3. /\ hydrogens' \in Seq(Atoms)
      /\ IsInjective(hydrogens')
      /\ Contains(hydrogens, h2)
      /\ \A e : Contains(hydrogens', e) <=> Contains(hydrogens, e) /\ e # h2
  BY <1>1, <1>2, TailOfDistinct
<1>4. /\ oxygens' \in Seq(Atoms)
      /\ IsInjective(oxygens')
      /\ Contains(oxygens, o)
      /\ \A e : Contains(oxygens', e) <=> Contains(oxygens, e) /\ e # o
  BY <1>1, <1>2, TailOfDistinct
<1>5. /\ h2 \in Atoms /\ pc[h2] = "waiting" /\ kind[h2] = "h"
      /\ o \in Atoms /\ pc[o] = "waiting" /\ kind[o] = "o"
  BY <1>1, <1>2, <1>3, <1>4, HeadTailProperties
  DEF IInv, ListsAreTheSleepers, HoldsSleepers
<1> HIDE DEF h2, o
<1>6. /\ mol' \in [Atoms -> Molecule \cup {NoMolecule}]
      /\ pc' \in [Atoms -> PCs]
      /\ Agreement' /\ KindsKnown' /\ IdsKnown'
      /\ pc'[t] = "unlocking"
      /\ pc'[h2] = "woken" /\ pc'[o] = "woken"
      /\ \A a \in Atoms \ {t, h2, o} : pc'[a] = pc[a]
  <2>1. /\ t # h2 /\ t # o
        /\ \A a \in {t, h2, o} \ {t} : pc[a] = "waiting"
    BY <1>1, <1>5
  <2>2. TypeOK /\ KindsKnown /\ IdsKnown /\ Agreement
    BY DEF IInv
  <2> QED
    BY <1>1, <1>5, <2>1, <2>2, MakeMoleculeAgrees
<1>7. lock' \in Atoms \cup {Free} /\ LockDiscipline'
  <2>1. /\ {h2, o} \in SUBSET Atoms
        /\ t \notin {h2, o}
        /\ \A a \in {h2, o} : pc'[a] = "woken"
        /\ \A a \in Atoms \ ({h2, o} \cup {t}) : pc'[a] = pc[a]
    BY <1>1, <1>5, <1>6
  <2> QED
    BY <1>1, <1>6, <2>1, AcquiredByBonder
<1>8. TypeOK'
  BY <1>1, <1>3, <1>4, <1>6, <1>7 DEF IInv, TypeOK
<1>9. HoldsSleepers(hydrogens, "h")'
  BY <1>1, <1>3, <1>5, <1>6 DEF IInv, ListsAreTheSleepers, HoldsSleepers
<1>10. HoldsSleepers(oxygens, "o")'
  BY <1>1, <1>4, <1>5, <1>6 DEF IInv, ListsAreTheSleepers, HoldsSleepers
<1>11. NotEnough'
  BY <1>1, <1>2, HeadTailProperties, LenProperties DEF IInv, NotEnough
<1> QED
  BY <1>6, <1>7, <1>8, <1>9, <1>10, <1>11 DEF IInv, ListsAreTheSleepers

LEMMA OxygenBondsPreserves ==
    ASSUME IInv, NEW t \in Atoms, OxygenBonds(t)
    PROVE  IInv'
<1> DEFINE h1 == hydrogens[1]
           h2 == hydrogens[2]
           rest == Tail(hydrogens)
<1>1. /\ pc[t] = "start" /\ kind[t] = "o"
      /\ Acquire(t)
      /\ Len(hydrogens) >= 2
      /\ MakeMolecule(t, h1, h2, t)
      /\ hydrogens' = Tail(rest)
      /\ UNCHANGED <<kind, oxygens, rv>>
  BY DEF OxygenBonds, OxygenCanBond
<1>2. /\ hydrogens \in Seq(Atoms) /\ IsInjective(hydrogens) /\ hydrogens # <<>>
      /\ Len(hydrogens) \in Nat
      /\ h1 = Head(hydrogens)
  BY <1>1, EmptySeq, LenProperties DEF IInv, TypeOK, ListsAreTheSleepers, HoldsSleepers
<1>3. /\ rest \in Seq(Atoms) /\ IsInjective(rest) /\ rest # <<>>
      /\ Len(rest) = Len(hydrogens) - 1
      /\ h2 = Head(rest)
      /\ Contains(hydrogens, h1)
      /\ \A e : Contains(rest, e) <=> Contains(hydrogens, e) /\ e # h1
  <2>1. /\ rest \in Seq(Atoms)
        /\ Len(rest) = Len(hydrogens) - 1
        /\ \A i \in 1..Len(rest) : rest[i] = hydrogens[i + 1]
    BY <1>2, HeadTailProperties
  <2>2. rest # <<>> /\ h2 = Head(rest)
    <3>1. Len(rest) >= 1 /\ Len(rest) \in Nat
      BY <1>1, <1>2, <2>1
    <3>2. rest[1] = hydrogens[2]
      BY <2>1, <3>1
    <3> HIDE DEF rest
    <3>3. rest # <<>>
      BY <3>1, EmptySeq
    <3> QED
      BY <2>1, <3>2, <3>3
  <2> QED
    BY <1>2, <2>1, <2>2, TailOfDistinct
<1>4. /\ hydrogens' \in Seq(Atoms)
      /\ IsInjective(hydrogens')
      /\ Contains(rest, h2)
      /\ \A e : Contains(hydrogens', e) <=> Contains(rest, e) /\ e # h2
  BY <1>1, <1>3, TailOfDistinct
<1>5. /\ h1 \in Atoms /\ h2 \in Atoms /\ h1 # h2
      /\ pc[h1] = "waiting" /\ kind[h1] = "h"
      /\ pc[h2] = "waiting" /\ kind[h2] = "h"
  BY <1>1, <1>2, <1>3, <1>4, HeadTailProperties
  DEF IInv, ListsAreTheSleepers, HoldsSleepers
<1> HIDE DEF h1, h2, rest
<1>6. /\ mol' \in [Atoms -> Molecule \cup {NoMolecule}]
      /\ pc' \in [Atoms -> PCs]
      /\ Agreement' /\ KindsKnown' /\ IdsKnown'
      /\ pc'[t] = "unlocking"
      /\ pc'[h1] = "woken" /\ pc'[h2] = "woken"
      /\ \A a \in Atoms \ {h1, h2, t} : pc'[a] = pc[a]
  <2>1. /\ t # h1 /\ t # h2
        /\ \A a \in {h1, h2, t} \ {t} : pc[a] = "waiting"
    BY <1>1, <1>5
  <2>2. TypeOK /\ KindsKnown /\ IdsKnown /\ Agreement
    BY DEF IInv
  <2> QED
    BY <1>1, <1>5, <2>1, <2>2, MakeMoleculeAgrees
<1>7. lock' \in Atoms \cup {Free} /\ LockDiscipline'
  <2>1. /\ {h1, h2} \in SUBSET Atoms
        /\ t \notin {h1, h2}
        /\ \A a \in {h1, h2} : pc'[a] = "woken"
        /\ \A a \in Atoms \ ({h1, h2} \cup {t}) : pc'[a] = pc[a]
    BY <1>1, <1>5, <1>6
  <2> QED
    BY <1>1, <1>6, <2>1, AcquiredByBonder
<1>8. TypeOK'
  BY <1>1, <1>4, <1>6, <1>7 DEF IInv, TypeOK
<1>9. HoldsSleepers(hydrogens, "h")'
  BY <1>1, <1>3, <1>4, <1>5, <1>6 DEF IInv, ListsAreTheSleepers, HoldsSleepers
<1>10. HoldsSleepers(oxygens, "o")'
  BY <1>1, <1>5, <1>6 DEF IInv, ListsAreTheSleepers, HoldsSleepers
<1>11. NotEnough'
  BY <1>1, <1>2, <1>3, HeadTailProperties, LenProperties DEF IInv, NotEnough
<1> QED
  BY <1>6, <1>7, <1>8, <1>9, <1>10, <1>11 DEF IInv, ListsAreTheSleepers

LEMMA SpawnPreserves ==
    ASSUME IInv, NEW t \in Atoms, NEW k \in {"h", "o"}, Spawn(t, k)
    PROVE  IInv'
<1>1. /\ pc[t] = "unborn"
      /\ pc' = [pc EXCEPT ![t] = "start"]
      /\ kind' = [kind EXCEPT ![t] = k]
      /\ UNCHANGED <<lock, hydrogens, oxygens, mol, rv>>
  BY DEF Spawn
<1>2. TypeOK /\ kind[t] = "none" /\ ~HasBond(t)
  BY <1>1 DEF IInv, KindsKnown, IdsKnown, PastBond
<1>3. TypeOK'
  BY <1>1, <1>2 DEF TypeOK, PCs
<1>4. KindsKnown'
  BY <1>1, <1>2 DEF IInv, TypeOK, KindsKnown
<1>5. IdsKnown'
  BY <1>1, <1>2 DEF IInv, TypeOK, IdsKnown, HasBond, PastBond
<1>6. LockDiscipline'
  BY <1>1, <1>2 DEF IInv, TypeOK, LockDiscipline
<1>7. ListsAreTheSleepers'
  BY <1>1, <1>2 DEF IInv, TypeOK, ListsAreTheSleepers, HoldsSleepers
<1>8. NotEnough'
  BY <1>1 DEF IInv, NotEnough
<1>9. Agreement'
  <2> SUFFICES ASSUME NEW a \in Atoms, HasBond(a)
               PROVE  LET m == mol[a]
                      IN  /\ a \in Members(m)
                          /\ m.h1 # m.h2
                          /\ kind'[m.h1] = "h" /\ kind'[m.h2] = "h" /\ kind'[m.o] = "o"
                          /\ \A b \in Members(m) : mol[b] = m
    BY <1>1 DEF Agreement, HasBond
  <2>1. mol[a] \in Molecule
    BY <1>2 DEF HasBond, TypeOK
  <2>2. t \notin Members(mol[a])
    BY <1>2 DEF IInv, Agreement, HasBond
  <2>3. \A b \in Members(mol[a]) : kind'[b] = kind[b]
    BY <1>1, <1>2, <2>1, <2>2 DEF TypeOK, Members, Molecule
  <2> QED
    BY <2>3 DEF IInv, Agreement, Members
<1> QED
  BY <1>3, <1>4, <1>5, <1>6, <1>7, <1>8, <1>9 DEF IInv

LEMMA ReacquirePreserves ==
    ASSUME IInv, NEW t \in Atoms, Reacquire(t)
    PROVE  IInv'
<1>1. /\ pc[t] = "woken" /\ Acquire(t)
      /\ pc' = [pc EXCEPT ![t] = "unlocking"]
      /\ UNCHANGED <<kind, hydrogens, oxygens, mol, rv>>
  BY DEF Reacquire
<1>2. TypeOK'
  BY <1>1 DEF IInv, TypeOK, PCs, Acquire
<1>3. KindsKnown'
  BY <1>1 DEF IInv, TypeOK, KindsKnown
<1>4. IdsKnown'
  BY <1>1 DEF IInv, TypeOK, IdsKnown, HasBond, PastBond
<1>5. LockDiscipline'
  BY <1>1, AtomsAssumption DEF IInv, TypeOK, LockDiscipline, Acquire, Free, Unset
<1>6. ListsAreTheSleepers'
  BY <1>1 DEF IInv, TypeOK, ListsAreTheSleepers, HoldsSleepers
<1>7. NotEnough' /\ Agreement'
  BY <1>1 DEF IInv, NotEnough, Agreement, HasBond
<1> QED
  BY <1>2, <1>3, <1>4, <1>5, <1>6, <1>7 DEF IInv

LEMMA UnlockPreserves ==
    ASSUME IInv, NEW t \in Atoms, Unlock(t)
    PROVE  IInv'
<1>1. /\ pc[t] = "unlocking" /\ lock' = Free
      /\ pc' = [pc EXCEPT ![t] = "bonding"]
      /\ UNCHANGED <<kind, hydrogens, oxygens, mol, rv>>
  BY DEF Unlock
<1>2. TypeOK'
  BY <1>1 DEF IInv, TypeOK, PCs
<1>3. KindsKnown'
  BY <1>1 DEF IInv, TypeOK, KindsKnown
<1>4. IdsKnown'
  BY <1>1 DEF IInv, TypeOK, IdsKnown, HasBond, PastBond
<1>5. LockDiscipline'
  BY <1>1, AtomsAssumption DEF IInv, TypeOK, LockDiscipline, Free, Unset
<1>6. ListsAreTheSleepers'
  BY <1>1 DEF IInv, TypeOK, ListsAreTheSleepers, HoldsSleepers
<1>7. NotEnough' /\ Agreement'
  BY <1>1 DEF IInv, NotEnough, Agreement, HasBond
<1> QED
  BY <1>2, <1>3, <1>4, <1>5, <1>6, <1>7 DEF IInv

LEMMA ReturnPreserves ==
    ASSUME IInv, NEW t \in Atoms, Return(t, mol[t])
    PROVE  IInv'
<1>1. /\ pc[t] = "bonding"
      /\ pc' = [pc EXCEPT ![t] = "exited"]
      /\ rv' = [rv EXCEPT ![t] = mol[t]]
      /\ UNCHANGED <<kind, lock, hydrogens, oxygens, mol>>
  BY DEF Return
<1>2. TypeOK'
  BY <1>1 DEF IInv, TypeOK, PCs
<1>3. KindsKnown'
  BY <1>1 DEF IInv, TypeOK, KindsKnown
<1>4. IdsKnown'
  BY <1>1 DEF IInv, TypeOK, IdsKnown, HasBond, PastBond
<1>5. LockDiscipline'
  BY <1>1 DEF IInv, TypeOK, LockDiscipline
<1>6. ListsAreTheSleepers'
  BY <1>1 DEF IInv, TypeOK, ListsAreTheSleepers, HoldsSleepers
<1>7. NotEnough' /\ Agreement'
  BY <1>1 DEF IInv, NotEnough, Agreement, HasBond
<1> QED
  BY <1>2, <1>3, <1>4, <1>5, <1>6, <1>7 DEF IInv

LEMMA StepPreserves == IInv /\ [Next]_vars => IInv'
<1> SUFFICES ASSUME IInv, [Next]_vars PROVE IInv'
  OBVIOUS
<1>1. ASSUME NEW t \in Atoms, NEW k \in {"h", "o"}, Spawn(t, k) PROVE IInv'
  BY <1>1, SpawnPreserves
<1>2. ASSUME NEW t \in Atoms, Step(t) PROVE IInv'
  <2>1. CASE HydrogenBonds(t)
    BY <2>1, HydrogenBondsPreserves
  <2>2. CASE HydrogenWaits(t)
    BY <2>2, HydrogenWaitsPreserves
  <2>3. CASE OxygenBonds(t)
    BY <2>3, OxygenBondsPreserves
  <2>4. CASE OxygenWaits(t)
    BY <2>4, OxygenWaitsPreserves
  <2>5. CASE Reacquire(t)
    BY <2>5, ReacquirePreserves
  <2>6. CASE Unlock(t)
    BY <2>6, UnlockPreserves
  <2> QED
    BY <1>2, <2>1, <2>2, <2>3, <2>4, <2>5, <2>6 DEF Step
<1>3. ASSUME NEW t \in Atoms, Return(t, mol[t]) PROVE IInv'
  BY <1>3, ReturnPreserves
<1>4. CASE UNCHANGED vars
  BY <1>4 DEF vars, IInv, TypeOK, KindsKnown, IdsKnown, LockDiscipline, ListsAreTheSleepers,
              HoldsSleepers, NotEnough, Agreement, HasBond
<1> QED
  BY <1>1, <1>2, <1>3, <1>4 DEF Next

-----------------------------------------------------------------------------
(* What follows *)

\* The inductive invariant holds throughout.
THEOREM Invariant == Spec => []IInv
  BY InitEstablishes, StepPreserves, PTL DEF Spec

\* Type correctness of bonding.c's state, for any set of atoms.
THEOREM TypeCorrect == Spec => []TypeOK
<1>1. IInv => TypeOK
  BY DEF IInv
<1> QED
  BY <1>1, Invariant, PTL

\* The mutex is held exactly by a thread about to release it, never by one
\* that sleeps or is in Bond().
THEOREM LockIsDisciplined == Spec => []LockDiscipline
<1>1. IInv => LockDiscipline
  BY DEF IInv
<1> QED
  BY <1>1, Invariant, PTL

\* The atoms of a molecule have been given the same ids, two hydrogens and an
\* oxygen.
THEOREM AtomsAgree == Spec => []Agreement
<1>1. IInv => Agreement
  BY DEF IInv
<1> QED
  BY <1>1, Invariant, PTL

\* Bond() is never called with -1s.
THEOREM BondIsCalledWithIds == Spec => []BondHasIds
<1>1. IInv => BondHasIds
  BY DEF IInv, IdsKnown, PastBond, BondHasIds
<1> QED
  BY <1>1, Invariant, PTL

\* Two hydrogens and an oxygen are never asleep together, and no bonded atom
\* is left asleep.
THEOREM NoBondIsMissed == Spec => []NoMissedBond
<1>1. IInv => NoMissedBond
  BY DEF IInv, NotEnough, IdsKnown, PastBond, NoMissedBond
<1> QED
  BY <1>1, Invariant, PTL

\* The lists are the sleeping threads.
THEOREM ListsHoldTheSleepers == Spec => []ListsAreTheSleepers
<1>1. IInv => ListsAreTheSleepers
  BY DEF IInv
<1> QED
  BY <1>1, Invariant, PTL

-----------------------------------------------------------------------------
(* Bonding implements Water *)

LEMMA HydrogenMakes ==
    ASSUME IInv, NEW t \in Atoms, HydrogenBonds(t)
    PROVE  \E h1, h2, o \in Atoms : Makes(h1, h2, o)
<1> DEFINE h2 == Head(hydrogens)
           o  == Head(oxygens)
<1>1. /\ pc[t] = "start" /\ kind[t] = "h"
      /\ hydrogens # <<>> /\ oxygens # <<>>
      /\ MakeMolecule(t, t, h2, o)
      /\ UNCHANGED kind
  BY DEF HydrogenBonds, HydrogenCanBond
<1>2. /\ hydrogens \in Seq(Atoms) /\ IsInjective(hydrogens)
      /\ oxygens \in Seq(Atoms) /\ IsInjective(oxygens)
  BY DEF IInv, TypeOK, ListsAreTheSleepers, HoldsSleepers
<1>3. Contains(hydrogens, h2) /\ Contains(oxygens, o)
  BY <1>1, <1>2, TailOfDistinct
<1>4. /\ h2 \in Atoms /\ pc[h2] = "waiting" /\ kind[h2] = "h"
      /\ o \in Atoms /\ pc[o] = "waiting" /\ kind[o] = "o"
  BY <1>1, <1>2, <1>3, HeadTailProperties DEF IInv, ListsAreTheSleepers, HoldsSleepers
<1> HIDE DEF h2, o
<1>5. /\ t # h2 /\ t # o
      /\ \A a \in {t, h2, o} \ {t} : pc[a] = "waiting"
  BY <1>1, <1>4
<1>6. Makes(t, h2, o)
  BY <1>1, <1>4, <1>5, MakeMoleculeAgrees DEF IInv
<1> QED
  BY <1>4, <1>6

LEMMA OxygenMakes ==
    ASSUME IInv, NEW t \in Atoms, OxygenBonds(t)
    PROVE  \E h1, h2, o \in Atoms : Makes(h1, h2, o)
<1> DEFINE h1 == hydrogens[1]
           h2 == hydrogens[2]
<1>1. /\ pc[t] = "start" /\ kind[t] = "o"
      /\ Len(hydrogens) >= 2
      /\ MakeMolecule(t, h1, h2, t)
      /\ UNCHANGED kind
  BY DEF OxygenBonds, OxygenCanBond
<1>2. /\ hydrogens \in Seq(Atoms) /\ IsInjective(hydrogens)
      /\ Len(hydrogens) \in Nat /\ DOMAIN hydrogens = 1..Len(hydrogens)
  BY LenProperties DEF IInv, TypeOK, ListsAreTheSleepers, HoldsSleepers
<1>3. /\ h1 \in Atoms /\ h2 \in Atoms /\ h1 # h2
      /\ Contains(hydrogens, h1) /\ Contains(hydrogens, h2)
  BY <1>1, <1>2, ElementOfSeq DEF Contains, IsInjective
<1>4. /\ pc[h1] = "waiting" /\ kind[h1] = "h"
      /\ pc[h2] = "waiting" /\ kind[h2] = "h"
  BY <1>3 DEF IInv, ListsAreTheSleepers, HoldsSleepers
<1> HIDE DEF h1, h2
<1>5. /\ t # h1 /\ t # h2
      /\ \A a \in {h1, h2, t} \ {t} : pc[a] = "waiting"
  BY <1>1, <1>4
<1>6. Makes(h1, h2, t)
  BY <1>1, <1>3, <1>4, <1>5, MakeMoleculeAgrees DEF IInv
<1> QED
  BY <1>3, <1>6

\* The molecules of Water.
Molecules == {mol[t] : t \in Atoms} \ {NoMolecule}

Exited == {t \in Atoms : pc[t] = "exited"}

\* An atom is in a molecule of Water exactly when it has been given ids.
LEMMA BondedHaveIds ==
    ASSUME IInv, NEW t \in Atoms
    PROVE  t \in W!Bonded <=> HasBond(t)
<1>1. W!Bonded = UNION {Members(m) : m \in Molecules}
  BY DEF W!Bonded, W!Members, Members, Molecules
<1>2. ASSUME HasBond(t) PROVE t \in W!Bonded
  <2>1. mol[t] \in Molecules /\ t \in Members(mol[t])
    BY <1>2 DEF IInv, Agreement, HasBond, Molecules
  <2> QED
    BY <1>1, <2>1
<1>3. ASSUME t \in W!Bonded PROVE HasBond(t)
  <2>1. PICK a \in Atoms : HasBond(a) /\ t \in Members(mol[a])
    BY <1>1, <1>3 DEF Molecules, HasBond
  <2> QED
    BY <2>1 DEF IInv, Agreement, HasBond
<1> QED
  BY <1>2, <1>3

LEMMA MakesIsForm ==
    ASSUME IInv, NEW h1 \in Atoms, NEW h2 \in Atoms, NEW o \in Atoms, Makes(h1, h2, o)
    PROVE  W!Form
<1> DEFINE m == [h1 |-> h1, h2 |-> h2, o |-> o]
<1>1. h1 \in W!Unbonded("h") /\ h2 \in W!Unbonded("h") /\ o \in W!Unbonded("o")
  BY BondedHaveIds DEF Makes, W!Unbonded
<1>2. m # NoMolecule
  BY MoleculeIsSet DEF Molecule
<1>3. \A a \in {h1, h2, o} : mol[a] = NoMolecule /\ mol'[a] = m
  BY DEF Makes, HasBond
<1>4. \A a \in Atoms \ {h1, h2, o} : mol'[a] = mol[a]
  BY DEF Makes
<1> HIDE DEF m
<1>5. Molecules' = Molecules \cup {m}
  BY <1>2, <1>3, <1>4 DEF Molecules
<1>6. Exited' = Exited
  BY DEF Makes, Exited
<1>7. kind' = kind /\ h1 # h2
  BY DEF Makes
<1> QED
  BY <1>1, <1>5, <1>6, <1>7 DEF W!Form, Molecules, Exited, m

\* The two steps that make a molecule are Water's.
LEMMA BondsForm ==
    ASSUME IInv, NEW t \in Atoms, HydrogenBonds(t) \/ OxygenBonds(t)
    PROVE  W!Form
  BY HydrogenMakes, OxygenMakes, MakesIsForm

\* Of the others up to Bond(), Water sees nothing.
LEMMA OthersAreUnseen ==
    ASSUME IInv, NEW t \in Atoms,
           HydrogenWaits(t) \/ OxygenWaits(t) \/ Reacquire(t) \/ Unlock(t)
    PROVE  UNCHANGED W!vars
<1>1. /\ kind' = kind /\ mol' = mol
      /\ pc[t] # "exited"
      /\ \E p \in {"waiting", "unlocking", "bonding"} : pc' = [pc EXCEPT ![t] = p]
  BY DEF HydrogenWaits, OxygenWaits, Wait, Reacquire, Unlock
<1>2. Exited' = Exited
  BY <1>1 DEF Exited, IInv, TypeOK
<1> QED
  BY <1>1, <1>2 DEF W!vars, Exited

\* Every step of bonding.c is a step of Water or changes nothing Water sees.
LEMMA StepImplementsWater == IInv /\ [Next]_vars => [W!Next]_(W!vars)
<1> SUFFICES ASSUME IInv, [Next]_vars
             PROVE  W!Next \/ UNCHANGED W!vars
  OBVIOUS
<1>1. ASSUME NEW t \in Atoms, NEW k \in {"h", "o"}, Spawn(t, k)
      PROVE  W!Next
  <2>1. kind[t] = "none" /\ kind' = [kind EXCEPT ![t] = k] /\ mol' = mol
    BY <1>1 DEF Spawn, IInv, KindsKnown
  <2>2. Exited' = Exited
    BY <1>1 DEF Spawn, Exited, IInv, TypeOK
  <2>3. W!Arrive(t, k)
    BY <2>1, <2>2 DEF W!Arrive, Exited
  <2> QED
    BY <2>3 DEF W!Next
<1>2. ASSUME NEW t \in Atoms, HydrogenBonds(t) \/ OxygenBonds(t)
      PROVE  W!Next
  BY <1>2, BondsForm DEF W!Next
<1>3. ASSUME NEW t \in Atoms,
             HydrogenWaits(t) \/ OxygenWaits(t) \/ Reacquire(t) \/ Unlock(t)
      PROVE  UNCHANGED W!vars
  BY <1>3, OthersAreUnseen
<1>4. ASSUME NEW t \in Atoms, Return(t, mol[t])
      PROVE  W!Next
  <2>1. /\ pc[t] = "bonding" /\ pc' = [pc EXCEPT ![t] = "exited"]
        /\ kind' = kind /\ mol' = mol
    BY <1>4 DEF Return
  <2>2. t \in W!Bonded
    BY <2>1, BondedHaveIds DEF IInv, IdsKnown, PastBond
  <2>3. t \notin Exited /\ Exited' = Exited \cup {t}
    BY <2>1 DEF Exited, IInv, TypeOK
  <2>4. W!Leave(t)
    BY <2>1, <2>2, <2>3 DEF W!Leave, Exited
  <2> QED
    BY <2>4 DEF W!Next
<1>5. CASE UNCHANGED vars
  BY <1>5 DEF vars, W!vars
<1> QED
  BY <1>1, <1>2, <1>3, <1>4, <1>5 DEF Next, Step

LEMMA InitImplementsWater == Init => W!Init
<1> SUFFICES ASSUME Init PROVE W!Init
  OBVIOUS
<1>1. {mol[t] : t \in Atoms} \ {NoMolecule} = {}
  BY DEF Init
<1>2. {t \in Atoms : pc[t] = "exited"} = {}
  BY DEF Init
<1> QED
  BY <1>1, <1>2 DEF Init, W!Init

\* The threads of bonding.c implement the abstract specification: for any
\* set of atoms and any arrivals, what can be seen of them (who has arrived,
\* which molecules are formed, who has returned) is a behaviour of Water.
THEOREM BondingImplementsWater == Spec => W!Spec
  BY InitImplementsWater, StepImplementsWater, Invariant, PTL DEF Spec, W!Spec

\* Once given, ids never change.
THEOREM PermanentBonds == Spec => BondsArePermanent
<1>1. IInv /\ [Next]_vars => [\A t \in Atoms : HasBond(t) => mol'[t] = mol[t]]_vars
  <2> SUFFICES ASSUME IInv, Next, NEW a \in Atoms, HasBond(a)
               PROVE  mol'[a] = mol[a]
    OBVIOUS
  <2>1. ASSUME NEW t \in Atoms, HydrogenBonds(t) \/ OxygenBonds(t)
        PROVE  mol'[a] = mol[a]
    BY <2>1, HydrogenMakes, OxygenMakes DEF Makes
  <2>2. ASSUME mol' = mol PROVE mol'[a] = mol[a]
    BY <2>2
  <2> QED
    BY <2>1, <2>2 DEF Next, Step, Spawn, HydrogenWaits, OxygenWaits, Reacquire, Unlock, Return
<1> QED
  BY <1>1, Invariant, PTL DEF Spec, BondsArePermanent
=============================================================================
