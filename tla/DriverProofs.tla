---------------------------- MODULE DriverProofs ----------------------------
(***************************************************************************)
(* The safety of BondingDriver.tla for any number of molecules and any      *)
(* limit on the threads outstanding: the inductive invariant of             *)
(* bonding-driver.c and what follows from it.  Everything is proved of      *)
(* SpuriousSpec, whose waits may also end without a signal; every behaviour *)
(* of Spec is one of SpuriousSpec.                                          *)
(***************************************************************************)
EXTENDS BondingDriver, FiniteSetTheorems, SequenceTheorems, TLAPS

-----------------------------------------------------------------------------
(* The inductive invariant *)

\* The creator holds G->lock, inside the loop that forks a batch.
InBatch == creator \in {"forking", "registering"}

\* The thread_info of t names a molecule.
Named(t) == bondId[t] # NoBond

IsPending(t) == \E i \in DOMAIN Pending : Pending[i] = t

LockHeld ==
    /\ glock = Creator <=> InBatch
    /\ glock = Joiner <=> joiner = "top"

\* The threads are numbered in the order they are created; the one being
\* registered runs already.
NumberedInOrder ==
    /\ hSpawned + oSpawned = threadsForked + (IF creator = "registering" THEN 1 ELSE 0)
    /\ \A t \in Atoms : kind[t] # "none" <=> t < hSpawned + oSpawned

\* What is left of a batch is within both limits.
BatchFits ==
    /\ InBatch => /\ threadsForked + toCreate <= NumAtoms
                  /\ threadsForked + toCreate - threadsJoined <= MaxOutstanding
    /\ creator = "registering" => toCreate > 0

MoleculesOk ==
    /\ \A m \in molecules : /\ m.h1 # m.h2
                            /\ kind[m.h1] = "h" /\ kind[m.h2] = "h" /\ kind[m.o] = "o"
    /\ \A m, n \in molecules : m # n => Members(m) \cap Members(n) = {}

\* A bond_id is a molecule its thread is in, and all three members have it.
NamesOk ==
    \A t \in Atoms : Named(t) =>
        /\ t < threadsForked
        /\ bondId[t] \in molecules
        /\ t \in Members(bondId[t])
        /\ \A a \in Members(bondId[t]) : bondId[a] = bondId[t]

\* A thread that has been through Bond() has a bond_id, and returns it.
ReturnsOk ==
    /\ returning \cap left = {}
    /\ \A t \in returning \cup left : Named(t)
    /\ \A t \in Atoms : rv[t] = IF t \in left THEN bondId[t] ELSE NoBond

\* A thread is in tid_to_info until it calls Bond(), and in number_to_info
\* until the oxygen of its molecule is accounted for.
TreesOk ==
    /\ \A t \in Atoms : t \in tids <=> t < threadsForked /\ t \notin returning \cup left
    /\ \A t \in Atoms : t \in numbers <=>
                          t < threadsForked /\ (Named(t) => IsPending(bondId[t].o))

\* A thread with a bond_id that is not waiting to be joined has been.
JoinedHaveLeft ==
    /\ joiner \in {"joining", "joined"} => joining \in Atoms
    /\ joiner = "joined" => joining \in left
    /\ \A t \in Atoms : Named(t) /\ ~IsPending(t) => t \in left

\* molecules_created counts the oxygens, and half the hydrogens, with a bond_id.
NamedOf(k) == {t \in Atoms : Named(t) /\ kind[t] = k}

NamesCounted ==
    /\ Cardinality(NamedOf("o")) = moleculesCreated
    /\ Cardinality(NamedOf("h")) = 2 * moleculesCreated

IInv ==
    /\ TypeOK
    /\ NoError
    /\ OutstandingBound
    /\ HandedOverOnce
    /\ LockHeld
    /\ NumberedInOrder
    /\ BatchFits
    /\ MoleculesOk
    /\ NamesOk
    /\ ReturnsOk
    /\ TreesOk
    /\ JoinedHaveLeft
    /\ NamesCounted

-----------------------------------------------------------------------------
(* The constants *)

\* There are atoms, numbered from 0, and -1 is none of them.
LEMMA AtomsAreNumbers ==
    /\ NumAtoms \in Nat /\ NumAtoms > 0 /\ NumAtoms = 3 * NumMolecules
    /\ NumMolecules \in Nat
    /\ Atoms = 0..(NumAtoms - 1)
    /\ Free \notin Atoms
  BY ArgsAssumption DEF NumAtoms, Atoms, Free

LEMMA LimitIsANumber == MaxOutstanding \in Nat /\ MaxOutstanding >= 3
  BY ArgsAssumption

LEMMA OwnersDiffer == Free # Creator /\ Free # Joiner /\ Creator # Joiner
  BY DEF Free, Creator, Joiner

\* A bond of atoms is not NULL.
LEMMA BondIsSet ==
    ASSUME NEW m \in Bond
    PROVE  /\ m # NoBond
           /\ m.h1 \in Atoms /\ m.h2 \in Atoms /\ m.o \in Atoms
  BY AtomsAreNumbers DEF Bond, NoBond

\* Two disjoint sets of atoms below n have at most n elements, and n only
\* when every one of them is in one or the other.
LEMMA TwoKinds ==
    ASSUME NEW n \in Nat, NEW H, NEW O, H \cap O = {},
           H \subseteq 0..(n - 1), O \subseteq 0..(n - 1)
    PROVE  /\ IsFiniteSet(H) /\ IsFiniteSet(O)
           /\ Cardinality(H) \in Nat /\ Cardinality(O) \in Nat
           /\ Cardinality(H) + Cardinality(O) <= n
           /\ Cardinality(H) + Cardinality(O) = n => H \cup O = 0..(n - 1)
<1>1. IsFiniteSet(0..(n - 1)) /\ Cardinality(0..(n - 1)) = n
  BY FS_Interval
<1>2. /\ IsFiniteSet(H) /\ IsFiniteSet(O)
      /\ Cardinality(H) \in Nat /\ Cardinality(O) \in Nat
  BY <1>1, FS_Subset, FS_CardinalityType
<1>3. Cardinality(H \cup O) = Cardinality(H) + Cardinality(O)
  <2>1. Cardinality(H \cup O) = Cardinality(H) + Cardinality(O) - Cardinality(H \cap O)
    BY <1>2, FS_Union
  <2>2. Cardinality(H \cap O) = 0
    BY FS_EmptySet
  <2> QED
    BY <1>2, <2>1, <2>2
<1>4. /\ Cardinality(H \cup O) <= n
      /\ Cardinality(H \cup O) = n => H \cup O = 0..(n - 1)
  BY <1>1, FS_Subset
<1> QED
  BY <1>2, <1>3, <1>4

-----------------------------------------------------------------------------
(* The atoms on their way to be joined *)

LEMMA PendingIsASequence ==
    ASSUME TypeOK, joiner \in {"joining", "joined"} => joining \in Atoms
    PROVE  Pending \in Seq(Atoms)
<1>1. bonds \in Seq(Atoms)
  BY DEF TypeOK
<1>2. CASE joiner \in {"joining", "joined"}
  <2>1. <<joining>> \in Seq(Atoms)
    BY <1>2
  <2> QED
    BY <1>1, <1>2, <2>1, ConcatProperties DEF Pending
<1>3. CASE joiner \notin {"joining", "joined"}
  BY <1>1, <1>3, ConcatEmptySeq DEF Pending
<1> QED
  BY <1>2, <1>3

\* A sequence is its first element, then the others.
LEMMA HeadIsFirst ==
    ASSUME NEW S, NEW s \in Seq(S), s # <<>>
    PROVE  /\ 1 \in DOMAIN s /\ s[1] = Head(s)
           /\ <<Head(s)>> \o Tail(s) = s
<1>1. /\ Head(s) \in S /\ Tail(s) \in Seq(S)
      /\ Len(Tail(s)) = Len(s) - 1
      /\ \A i \in 1..Len(Tail(s)) : Tail(s)[i] = s[i + 1]
  BY HeadTailProperties
<1>2. Len(s) \in Nat /\ Len(s) > 0 /\ DOMAIN s = 1..Len(s)
  BY EmptySeq, LenProperties
<1>3. Head(s) = s[1]
  OBVIOUS
<1> DEFINE one == <<Head(s)>>
           t == Tail(s)
<1>4. one \in Seq(S) /\ Len(one) = 1 /\ one[1] = Head(s)
  BY <1>1
<1> HIDE DEF one, t
<1>5. /\ one \o t \in Seq(S)
      /\ Len(one \o t) = Len(one) + Len(t)
      /\ \A i \in 1..(Len(one) + Len(t)) :
           (one \o t)[i] = IF i <= Len(one) THEN one[i] ELSE t[i - Len(one)]
  BY <1>1, <1>4, ConcatProperties, Zenon DEF t
<1> DEFINE u == one \o t
<1>6. u \in Seq(S) /\ Len(u) = Len(s)
  BY <1>1, <1>2, <1>4, <1>5 DEF t
<1>7. ASSUME NEW i \in 1..Len(u)
      PROVE  u[i] = s[i]
  BY <1>1, <1>2, <1>3, <1>4, <1>5, <1>6, <1>7 DEF t
<1> HIDE DEF u
<1>8. u = s
  BY <1>6, <1>7, SeqEqual
<1> QED
  BY <1>2, <1>3, <1>8 DEF u, one, t

\* A joiner that has no atom in hand: what is pending is bonds.
LEMMA NothingInHand ==
    ASSUME TypeOK, joiner \notin {"joining", "joined"}
    PROVE  Pending = bonds
  BY ConcatEmptySeq DEF Pending, TypeOK

\* A joiner with an atom in hand: that one, then bonds.
LEMMA OneInHand ==
    ASSUME TypeOK, joiner \in {"joining", "joined"}, joining \in Atoms
    PROVE  /\ Len(bonds) \in Nat
           /\ Len(Pending) = Len(bonds) + 1
           /\ DOMAIN Pending = 1..(Len(bonds) + 1)
           /\ DOMAIN bonds = 1..Len(bonds)
           /\ Pending[1] = joining
           /\ \A i \in 1..Len(bonds) : Pending[i + 1] = bonds[i]
<1>1. bonds \in Seq(Atoms) /\ <<joining>> \in Seq(Atoms)
  BY DEF TypeOK
<1>2. Pending = <<joining>> \o bonds
  BY DEF Pending
<1>3. Len(<<joining>>) = 1 /\ <<joining>>[1] = joining
  OBVIOUS
<1>4. Len(bonds) \in Nat /\ DOMAIN bonds = 1..Len(bonds)
  BY <1>1, LenProperties
<1>5. /\ Pending \in Seq(Atoms)
      /\ Len(Pending) = 1 + Len(bonds)
      /\ \A i \in 1..(1 + Len(bonds)) :
           Pending[i] = IF i <= 1 THEN <<joining>>[i] ELSE bonds[i - 1]
  BY <1>1, <1>2, <1>3, ConcatProperties
<1> QED
  BY <1>3, <1>4, <1>5, LenProperties

\* long is s with the atoms of m at its end.
HandedOver(long, s, m) ==
    /\ Len(s) \in Nat
    /\ Len(long) = Len(s) + 3
    /\ DOMAIN s = 1..Len(s)
    /\ DOMAIN long = 1..(Len(s) + 3)
    /\ \A i \in 1..Len(s) : long[i] = s[i]
    /\ long[Len(s) + 1] = m.h1
    /\ long[Len(s) + 2] = m.h2
    /\ long[Len(s) + 3] = m.o

LEMMA HandOverAppends ==
    ASSUME NEW s \in Seq(Atoms), NEW m \in Bond,
           NEW long, long = s \o HandOver(m)
    PROVE  long \in Seq(Atoms) /\ HandedOver(long, s, m)
<1> DEFINE r == HandOver(m)
<1>1. r \in Seq(Atoms)
  BY BondIsSet DEF HandOver
<1>2. Len(r) = 3 /\ r[1] = m.h1 /\ r[2] = m.h2 /\ r[3] = m.o
  BY DEF HandOver
<1>3. long = s \o r
  OBVIOUS
<1> HIDE DEF r
<1>4. /\ long \in Seq(Atoms)
      /\ Len(long) = Len(s) + Len(r)
      /\ \A i \in 1..(Len(s) + Len(r)) :
           long[i] = IF i <= Len(s) THEN s[i] ELSE r[i - Len(s)]
  BY <1>1, <1>3, ConcatProperties, Zenon
<1>5. Len(s) \in Nat /\ DOMAIN s = 1..Len(s) /\ DOMAIN long = 1..Len(long)
  BY <1>4, LenProperties
<1>6. \A i \in 1..Len(s) : long[i] = s[i]
  BY <1>2, <1>4, <1>5
<1>7. long[Len(s) + 1] = r[1] /\ long[Len(s) + 2] = r[2] /\ long[Len(s) + 3] = r[3]
  BY <1>2, <1>4, <1>5
<1> QED
  BY <1>2, <1>4, <1>5, <1>6, <1>7 DEF HandedOver

\* What the molecule of a step of Bond() adds.
LEMMA PendingGrows ==
    ASSUME TypeOK, joiner \in {"joining", "joined"} => joining \in Atoms,
           NEW m \in Bond,
           bonds' = bonds \o HandOver(m), joining' = joining,
           joiner' \in {"joining", "joined"} <=> joiner \in {"joining", "joined"}
    PROVE  bonds' \in Seq(Atoms) /\ HandedOver(Pending', Pending, m)
<1> DEFINE p == IF joiner \in {"joining", "joined"} THEN <<joining>> ELSE <<>>
           r == HandOver(m)
<1>1. p \in Seq(Atoms) /\ bonds \in Seq(Atoms) /\ r \in Seq(Atoms)
  BY BondIsSet DEF TypeOK, HandOver
<1>2. Pending = p \o bonds /\ Pending' = p \o bonds' /\ bonds' = bonds \o r
  BY DEF Pending
<1>3. Pending \in Seq(Atoms)
  BY PendingIsASequence
<1> HIDE DEF p, r
<1>4. (p \o bonds) \o r = p \o (bonds \o r)
  BY <1>1, ConcatAssociative
<1>5. Pending' = Pending \o r
  BY <1>2, <1>4, Zenon
<1>6. bonds' \in Seq(Atoms)
  BY <1>1, <1>2, ConcatProperties, Zenon
<1>7. HandedOver(Pending', Pending, m)
  BY <1>3, <1>5, HandOverAppends, Zenon DEF r
<1> QED
  BY <1>6, <1>7
-----------------------------------------------------------------------------
(* What a step leaves alone *)

\* The parts of the invariant that are about the atoms, their thread_infos
\* and what is pending hold after a step that changes none of them.
LEMMA AtomsUntouched ==
    ASSUME IInv, Pending' = Pending,
           UNCHANGED <<kind, molecules, left, rv, bondId, returning, threadsForked,
                       threadsJoined, moleculesCreated, tids, numbers>>
    PROVE  /\ HandedOverOnce'
           /\ MoleculesOk' /\ NamesOk' /\ ReturnsOk' /\ TreesOk' /\ NamesCounted'
           /\ \A t \in Atoms : Named(t)' /\ ~IsPending(t)' => t \in left'
<1> USE DEF IInv
<1>1. HandedOverOnce'
  BY DEF HandedOverOnce
<1>2. MoleculesOk'
  BY DEF MoleculesOk
<1>3. NamesOk'
  BY DEF NamesOk, Named
<1>4. ReturnsOk'
  BY DEF ReturnsOk, Named
<1>5. TreesOk'
  BY DEF TreesOk, Named, IsPending
<1>6. NamesCounted'
  BY DEF NamesCounted, NamedOf, Named
<1>7. \A t \in Atoms : Named(t)' /\ ~IsPending(t)' => t \in left'
  BY DEF JoinedHaveLeft, Named, IsPending
<1> QED
  BY <1>1, <1>2, <1>3, <1>4, <1>5, <1>6, <1>7

\* The creator's counts and its batch after a step of anyone else.
LEMMA CreatorUntouched ==
    ASSUME IInv, UNCHANGED <<kind, toCreate, hSpawned, oSpawned, threadsForked>>,
           InBatch' <=> InBatch,
           creator' = "registering" <=> creator = "registering",
           NEW n \in Int, threadsJoined' = n, threadsJoined \in Int, threadsJoined <= n
    PROVE  OutstandingBound' /\ NumberedInOrder' /\ BatchFits'
<1>1. /\ threadsForked \in Int /\ toCreate \in Int /\ hSpawned \in Int /\ oSpawned \in Int
      /\ MaxOutstanding \in Int
  BY LimitIsANumber DEF IInv, TypeOK
<1>2. OutstandingBound'
  <2>1. hSpawned + oSpawned - threadsJoined <= MaxOutstanding
    BY DEF IInv, OutstandingBound
  <2>2. hSpawned + oSpawned - n <= MaxOutstanding
    BY <1>1, <2>1
  <2> QED
    BY <2>2 DEF OutstandingBound
<1>3. NumberedInOrder'
  BY DEF IInv, NumberedInOrder
<1>4. BatchFits'
  <2>1. InBatch => threadsForked + toCreate - n <= MaxOutstanding
    BY <1>1 DEF IInv, BatchFits
  <2> QED
    BY <2>1 DEF IInv, BatchFits
<1> QED
  BY <1>2, <1>3, <1>4

LEMMA InitEstablishes == Init => IInv
<1> SUFFICES ASSUME Init PROVE IInv
  OBVIOUS
<1> USE DEF Init, W!Init
<1>1. Pending = <<>> /\ DOMAIN Pending = {} /\ Len(Pending) = 0
  BY DEF Pending
<1>2. TypeOK
  BY AtomsAreNumbers, LimitIsANumber DEF TypeOK
<1>3. NoError /\ OutstandingBound
  BY LimitIsANumber DEF NoError, OutstandingBound
<1>4. HandedOverOnce
  BY <1>1 DEF HandedOverOnce
<1>5. LockHeld /\ BatchFits
  BY DEF LockHeld, BatchFits, InBatch, Free, Creator, Joiner
<1>6. NumberedInOrder
  BY AtomsAreNumbers DEF NumberedInOrder
<1>7. MoleculesOk /\ NamesOk /\ ReturnsOk
  BY DEF MoleculesOk, NamesOk, ReturnsOk, Named
<1>8. TreesOk
  BY AtomsAreNumbers DEF TreesOk
<1>9. JoinedHaveLeft
  BY DEF JoinedHaveLeft, Named
<1>10. NamesCounted
  <2>1. NamedOf("o") = {} /\ NamedOf("h") = {}
    BY DEF NamedOf, Named
  <2>2. Cardinality(NamedOf("o")) = 0 /\ Cardinality(NamedOf("h")) = 0
    BY <2>1, FS_EmptySet, Zenon
  <2>3. moleculesCreated = 0
    OBVIOUS
  <2> QED
    BY <2>2, <2>3 DEF NamesCounted
<1> QED
  BY <1>2, <1>3, <1>4, <1>5, <1>6, <1>7, <1>8, <1>9, <1>10 DEF IInv

-----------------------------------------------------------------------------
(* The creator *)

\* The atoms with a bond_id have been forked; no more are joined than that.
LEMMA JoinedWereForked ==
    ASSUME IInv
    PROVE  /\ moleculesCreated \in Nat
           /\ threadsJoined + Len(Pending) = 3 * moleculesCreated
           /\ Len(Pending) \in Nat
           /\ 3 * moleculesCreated <= threadsForked
           /\ threadsJoined <= threadsForked
           /\ 3 * moleculesCreated = NumAtoms => \A t \in Atoms : Named(t)
<1> DEFINE H == NamedOf("h")
           O == NamedOf("o")
<1>1. /\ threadsForked \in Nat /\ threadsForked <= NumAtoms
      /\ threadsJoined \in Nat /\ moleculesCreated \in Nat
  BY AtomsAreNumbers DEF IInv, TypeOK
<1>2. Pending \in Seq(Atoms)
  BY PendingIsASequence DEF IInv, JoinedHaveLeft
<1>3. Len(Pending) \in Nat
  BY <1>2, LenProperties
<1>4. threadsJoined + Len(Pending) = 3 * moleculesCreated
  BY DEF IInv, HandedOverOnce
<1>5. H \cap O = {}
  BY DEF NamedOf
<1>6. H \subseteq 0..(threadsForked - 1) /\ O \subseteq 0..(threadsForked - 1)
  BY <1>1, AtomsAreNumbers DEF IInv, NamesOk, NamedOf
<1>7. Cardinality(O) = moleculesCreated /\ Cardinality(H) = 2 * moleculesCreated
  BY DEF IInv, NamesCounted
<1> HIDE DEF H, O
<1>8. /\ Cardinality(H) + Cardinality(O) <= threadsForked
      /\ Cardinality(H) + Cardinality(O) = threadsForked => H \cup O = 0..(threadsForked - 1)
  BY <1>1, <1>5, <1>6, TwoKinds
<1>9. 3 * moleculesCreated <= threadsForked
  BY <1>1, <1>7, <1>8
<1>10. ASSUME 3 * moleculesCreated = NumAtoms
       PROVE  \A t \in Atoms : Named(t)
  <2>1. threadsForked = NumAtoms /\ Cardinality(H) + Cardinality(O) = threadsForked
    BY <1>1, <1>7, <1>9, <1>10, AtomsAreNumbers
  <2>2. H \cup O = Atoms
    BY <1>8, <2>1, AtomsAreNumbers
  <2> QED
    BY <2>2 DEF H, O, NamedOf
<1> QED
  BY <1>1, <1>3, <1>4, <1>9, <1>10

\* A step of the creator that moves it and nothing but its plan.
LEMMA CreatorMoves ==
    ASSUME IInv,
           UNCHANGED <<atomVars, hSpawned, oSpawned, threadsForked, threadsJoined,
                       moleculesCreated, treeVars, bondId, bonds, returning,
                       joinerVars, error>>,
           glock' = glock \/ (glock' \in {Free, Creator} /\ joiner # "top"),
           glock' = Creator <=> InBatch',
           creator # "registering", creator' # "registering",
           creator' \in {"locking", "waiting", "woken", "forking", "done"},
           toCreate' \in 0..MaxOutstanding, hToCreate' \in Int, oToCreate' \in Int,
           InBatch' => /\ threadsForked + toCreate' <= NumAtoms
                       /\ threadsForked + toCreate' - threadsJoined <= MaxOutstanding
    PROVE  IInv'
<1> USE DEF IInv, atomVars, treeVars, joinerVars
<1>1. Pending' = Pending
  BY DEF Pending
<1>2. /\ HandedOverOnce'
      /\ MoleculesOk' /\ NamesOk' /\ ReturnsOk' /\ TreesOk' /\ NamesCounted'
      /\ \A t \in Atoms : Named(t)' /\ ~IsPending(t)' => t \in left'
  BY <1>1, AtomsUntouched
<1>3. TypeOK'
  BY DEF TypeOK
<1>4. NoError' /\ OutstandingBound'
  BY DEF NoError, OutstandingBound
<1>5. LockHeld'
  BY DEF LockHeld, Free, Creator, Joiner
<1>6. NumberedInOrder'
  BY DEF NumberedInOrder
<1>7. BatchFits'
  BY DEF BatchFits
<1>8. JoinedHaveLeft'
  BY <1>2 DEF JoinedHaveLeft
<1> QED
  BY <1>2, <1>3, <1>4, <1>5, <1>6, <1>7, <1>8

LEMMA CreatorSleepPreserves ==
    ASSUME IInv, CreatorSleep
    PROVE  IInv'
  BY CreatorMoves
  DEF CreatorSleep, IInv, TypeOK, LockHeld, InBatch, Free, Creator, Joiner,
      creatorVars

LEMMA SpuriousCreatorPreserves ==
    ASSUME IInv, SpuriousCreator
    PROVE  IInv'
<1>1. /\ creator = "waiting" /\ creator' = "woken"
      /\ UNCHANGED <<atomVars, glock, toCreate, hToCreate, oToCreate, hSpawned, oSpawned,
                     threadsForked, threadsJoined, moleculesCreated, treeVars,
                     bondId, bonds, returning, joinerVars, error>>
  BY DEF SpuriousCreator
<1>2. glock' = glock /\ glock # Creator
  BY <1>1 DEF IInv, LockHeld, InBatch
<1> QED
  BY <1>1, <1>2, CreatorMoves DEF IInv, TypeOK, InBatch

LEMMA CreatorPlanPreserves ==
    ASSUME IInv, CreatorPlan
    PROVE  IInv'
<1>1. /\ threadsForked \in 0..NumAtoms /\ threadsJoined \in Nat
      /\ hSpawned \in Int /\ oSpawned \in Int
      /\ threadsJoined <= threadsForked
      /\ NumAtoms \in Nat /\ MaxOutstanding \in Nat
  BY JoinedWereForked, AtomsAreNumbers, LimitIsANumber DEF IInv, TypeOK
<1>2. threadsForked - threadsJoined <= MaxOutstanding
  BY <1>1 DEF CreatorPlan, Outstanding
<1>3. /\ BatchSize \in 0..MaxOutstanding
      /\ threadsForked + BatchSize <= NumAtoms
      /\ threadsForked + BatchSize - threadsJoined <= MaxOutstanding
  BY <1>1, <1>2 DEF BatchSize, Smaller, Outstanding
<1>4. Plan(BatchSize).h \in Int /\ Plan(BatchSize).o \in Int
  <2> DEFINE total == BatchSize + hSpawned + oSpawned
  <2>1. total \in Int /\ IntMax \in Int /\ BatchSize \in Int
    BY <1>1, <1>3, ArgsAssumption
  <2>2. Wrap(total * 2) \in Int
    BY <2>1 DEF Wrap
  <2>3. DivC(Wrap(total * 2), 3) \in Int
    BY <2>2 DEF DivC
  <2>4. total \div 3 \in Int
    BY <2>1
  <2> QED
    BY <1>1, <2>1, <2>3, <2>4 DEF Plan
<1>5. /\ creator = "locking" /\ glock = Free
      /\ creator' = "forking" /\ glock' = Creator
      /\ toCreate' = BatchSize
      /\ hToCreate' = Plan(BatchSize).h /\ oToCreate' = Plan(BatchSize).o
      /\ UNCHANGED <<atomVars, hSpawned, oSpawned, threadsForked, threadsJoined,
                     moleculesCreated, treeVars, bondId, bonds, returning, joinerVars, error>>
  BY DEF CreatorPlan
<1>6. joiner # "top"
  BY <1>5 DEF IInv, LockHeld, Free, Joiner
<1> QED
  BY <1>3, <1>4, <1>5, <1>6, CreatorMoves DEF InBatch, IInv, LockHeld, Free, Creator

LEMMA CreatorEndsRoundPreserves ==
    ASSUME IInv, CreatorEndsRound
    PROVE  IInv'
<1>1. /\ creator \in {"forking", "woken"}
      /\ glock' = Free
      /\ creator' \in {"done", "locking"}
      /\ UNCHANGED <<atomVars, toCreate, hToCreate, oToCreate, hSpawned, oSpawned,
                     threadsForked, threadsJoined, moleculesCreated, treeVars,
                     bondId, bonds, returning, joinerVars, error>>
  BY DEF CreatorEndsRound
<1>2. joiner # "top"
  BY DEF CreatorEndsRound, IInv, LockHeld, InBatch, Free, Creator, Joiner
<1> QED
  BY <1>1, <1>2, CreatorMoves DEF InBatch, IInv, TypeOK, Free, Creator

\* pthread_create: the thread with the next number exists.
LEMMA CreatorForksPreserves ==
    ASSUME IInv, NEW k \in {"h", "o"}, CreatorForks(k),
           \/ /\ k = "o" /\ oToCreate' = oToCreate - 1 /\ oSpawned' = oSpawned + 1
              /\ UNCHANGED <<hToCreate, hSpawned>>
           \/ /\ k = "h" /\ hToCreate' = hToCreate - 1 /\ hSpawned' = hSpawned + 1
              /\ UNCHANGED <<oToCreate, oSpawned>>
    PROVE  IInv'
<1> DEFINE f == threadsForked
<1>1. /\ creator = "forking" /\ toCreate > 0 /\ creator' = "registering"
      /\ kind[f] = "none" /\ kind' = [kind EXCEPT ![f] = k]
      /\ UNCHANGED <<molecules, left, rv, glock, toCreate, threadsForked, threadsJoined,
                     moleculesCreated, treeVars, bondId, bonds, returning, joinerVars,
                     error>>
  BY DEF CreatorForks, W!Arrive
<1>2. /\ f \in Nat /\ NumAtoms \in Nat /\ toCreate \in Int /\ threadsJoined \in Int
      /\ MaxOutstanding \in Int
      /\ hSpawned \in Nat /\ oSpawned \in Nat /\ hToCreate \in Int /\ oToCreate \in Int
      /\ hSpawned + oSpawned = f
      /\ f + toCreate <= NumAtoms
      /\ f + toCreate - threadsJoined <= MaxOutstanding
  BY <1>1, AtomsAreNumbers, LimitIsANumber
  DEF IInv, TypeOK, NumberedInOrder, BatchFits, InBatch
<1>3. f \in Atoms /\ Atoms \subseteq Nat
  BY <1>1, <1>2, AtomsAreNumbers
<1>4. kind \in [Atoms -> {"none", "h", "o"}]
  BY DEF IInv, TypeOK
<1>5. /\ kind'[f] = k
      /\ \A t \in Atoms : t # f => kind'[t] = kind[t]
      /\ \A t \in Atoms : kind[t] # "none" => kind'[t] = kind[t]
  BY <1>1, <1>3, <1>4
<1>6. /\ hSpawned' \in 0..NumAtoms /\ oSpawned' \in 0..NumAtoms
      /\ hSpawned' + oSpawned' = f + 1
      /\ hToCreate' \in Int /\ oToCreate' \in Int
  BY <1>1, <1>2
<1>7. TypeOK'
  BY <1>1, <1>4, <1>6 DEF IInv, TypeOK, treeVars, joinerVars
<1>8. Pending' = Pending
  BY <1>1 DEF Pending, joinerVars
<1>9. NoError' /\ HandedOverOnce'
  BY <1>1, <1>8 DEF IInv, NoError, HandedOverOnce
<1>10. OutstandingBound'
  <2>1. (f + 1) - threadsJoined <= MaxOutstanding
    BY <1>1, <1>2
  <2>2. \/ hSpawned' = hSpawned + 1 /\ oSpawned' = oSpawned
        \/ hSpawned' = hSpawned /\ oSpawned' = oSpawned + 1
    OBVIOUS
  <2>3. CASE hSpawned' = hSpawned + 1 /\ oSpawned' = oSpawned
    BY <1>1, <1>2, <2>1, <2>3 DEF OutstandingBound
  <2>4. CASE hSpawned' = hSpawned /\ oSpawned' = oSpawned + 1
    BY <1>1, <1>2, <2>1, <2>4 DEF OutstandingBound
  <2> QED
    BY <2>2, <2>3, <2>4
<1>11. LockHeld'
  BY <1>1 DEF IInv, LockHeld, InBatch, joinerVars
<1>12. NumberedInOrder'
  <2>1. hSpawned' + oSpawned' = threadsForked' + 1
    BY <1>1, <1>6
  <2>2. ASSUME NEW t \in Atoms
        PROVE  kind'[t] # "none" <=> t < hSpawned' + oSpawned'
    <3>1. t < f + 1 <=> t = f \/ t < hSpawned + oSpawned
      BY <1>2, <1>3
    <3>2. kind'[t] # "none" <=> t = f \/ kind[t] # "none"
      BY <1>5
    <3>3. kind'[t] # "none" <=> t < f + 1
      BY <3>1, <3>2 DEF IInv, NumberedInOrder
    <3> QED
      BY <1>6, <3>3
  <2> QED
    BY <1>1, <2>1, <2>2 DEF NumberedInOrder
<1>13. BatchFits'
  BY <1>1, <1>2 DEF BatchFits
<1>14. \A m \in molecules : m.h1 \in Atoms /\ m.h2 \in Atoms /\ m.o \in Atoms
  BY DEF IInv, TypeOK, Bond
<1>15. MoleculesOk'
  BY <1>1, <1>5, <1>14 DEF IInv, MoleculesOk
<1>16. NamesOk' /\ ReturnsOk'
  BY <1>1 DEF IInv, NamesOk, ReturnsOk, Named
<1>17. TreesOk'
  BY <1>1, <1>8 DEF IInv, TreesOk, Named, IsPending, treeVars
<1>18. JoinedHaveLeft'
  BY <1>1, <1>8 DEF IInv, JoinedHaveLeft, Named, IsPending, joinerVars
<1>19. NamesCounted'
  <2>1. ASSUME NEW t \in Atoms, Named(t)
        PROVE  kind'[t] = kind[t]
    BY <2>1, <1>2, <1>3, <1>5 DEF IInv, NamesOk
  <2>2. NamedOf("o")' = NamedOf("o") /\ NamedOf("h")' = NamedOf("h")
    BY <1>1, <2>1 DEF NamedOf, Named
  <2> QED
    BY <1>1, <2>2 DEF IInv, NamesCounted
<1> QED
  BY <1>7, <1>9, <1>10, <1>11, <1>12, <1>13, <1>15, <1>16, <1>17, <1>18, <1>19 DEF IInv

LEMMA CreatorRegistersPreserves ==
    ASSUME IInv, CreatorRegisters
    PROVE  IInv'
<1> DEFINE f == threadsForked
<1>1. /\ creator = "registering" /\ creator' = "forking"
      /\ threadsForked' = f + 1 /\ toCreate' = toCreate - 1
      /\ tids' = tids \cup {f} /\ numbers' = numbers \cup {f}
      /\ UNCHANGED <<atomVars, glock, hToCreate, oToCreate, hSpawned, oSpawned,
                     threadsJoined, moleculesCreated, bondId, bonds, returning,
                     joinerVars, error>>
  BY DEF CreatorRegisters
<1>2. /\ f \in Nat /\ NumAtoms \in Nat /\ toCreate \in 1..MaxOutstanding
      /\ threadsJoined \in Int /\ MaxOutstanding \in Int
      /\ hSpawned \in Nat /\ oSpawned \in Nat
      /\ hSpawned + oSpawned = f + 1
      /\ f + toCreate <= NumAtoms
      /\ f + toCreate - threadsJoined <= MaxOutstanding
  BY <1>1, AtomsAreNumbers, LimitIsANumber
  DEF IInv, TypeOK, NumberedInOrder, BatchFits, InBatch
<1>3. f \in Atoms /\ Atoms \subseteq Nat
  BY <1>2, AtomsAreNumbers
<1>4. Pending' = Pending
  BY <1>1 DEF Pending, joinerVars
<1>5. TypeOK'
  <2>1. threadsForked' \in 0..NumAtoms /\ toCreate' \in 0..MaxOutstanding
    BY <1>1, <1>2
  <2> QED
    BY <1>1, <1>3, <2>1 DEF IInv, TypeOK, atomVars, joinerVars
<1>6. NoError' /\ HandedOverOnce' /\ OutstandingBound'
  BY <1>1, <1>4 DEF IInv, NoError, HandedOverOnce, OutstandingBound
<1>7. LockHeld'
  BY <1>1 DEF IInv, LockHeld, InBatch, joinerVars
<1>8. NumberedInOrder'
  BY <1>1, <1>2 DEF IInv, NumberedInOrder, atomVars
<1>9. BatchFits'
  BY <1>1, <1>2 DEF BatchFits
<1>10. MoleculesOk' /\ ReturnsOk' /\ NamesCounted'
  BY <1>1 DEF IInv, MoleculesOk, ReturnsOk, NamesCounted, NamedOf, Named, atomVars
<1>11. NamesOk'
  BY <1>1, <1>2, <1>3 DEF IInv, NamesOk, Named, atomVars
<1>12. ~Named(f) /\ f \notin returning \cup left
  BY <1>2, <1>3 DEF IInv, NamesOk, ReturnsOk
<1>13. TreesOk'
  <2>1. \A t \in Atoms : t < f + 1 <=> t < f \/ t = f
    BY <1>2, <1>3
  <2>2. \A t \in Atoms : t \in tids' <=> t < threadsForked' /\ t \notin returning' \cup left'
    BY <1>1, <1>12, <2>1 DEF IInv, TreesOk, atomVars
  <2>3. \A t \in Atoms : t \in numbers' <=>
                           t < threadsForked' /\ (Named(t)' => IsPending(bondId[t].o)')
    BY <1>1, <1>4, <1>12, <2>1 DEF IInv, TreesOk, Named, IsPending
  <2> QED
    BY <2>2, <2>3 DEF TreesOk
<1>14. JoinedHaveLeft'
  BY <1>1, <1>4 DEF IInv, JoinedHaveLeft, Named, IsPending, joinerVars, atomVars
<1> QED
  BY <1>5, <1>6, <1>7, <1>8, <1>9, <1>10, <1>11, <1>13, <1>14 DEF IInv

LEMMA CreatorStepPreserves ==
    ASSUME IInv, CreatorStep
    PROVE  IInv'
<1>1. CASE CreatorSleep
  BY <1>1, CreatorSleepPreserves
<1>2. CASE CreatorPlan
  BY <1>2, CreatorPlanPreserves
<1>3. CASE CreatorForksOxygen
  BY <1>3, CreatorForksPreserves DEF CreatorForksOxygen
<1>4. CASE CreatorForksHydrogen
  BY <1>4, CreatorForksPreserves DEF CreatorForksHydrogen
<1>5. CASE CreatorRegisters
  BY <1>5, CreatorRegistersPreserves
<1>6. CASE CreatorEndsRound
  BY <1>6, CreatorEndsRoundPreserves
<1> QED
  BY <1>1, <1>2, <1>3, <1>4, <1>5, <1>6 DEF CreatorStep

-----------------------------------------------------------------------------
(* The joiner *)

\* A step of the joiner that moves it but frees and counts nothing.
LEMMA JoinerMoves ==
    ASSUME IInv,
           UNCHANGED <<atomVars, creatorVars, threadsForked, threadsJoined,
                       moleculesCreated, treeVars, bondId, returning>>,
           Pending' = Pending, bonds' \in Seq(Atoms), joining' \in Atoms \cup {Free},
           joiner' \in {"waiting", "woken", "top", "joining", "joined", "done"},
           error' = "none",
           glock' = glock \/ (glock # Creator /\ glock' \in {Free, Joiner}),
           glock' = Joiner <=> joiner' = "top",
           joiner' \in {"joining", "joined"} => joining' \in Atoms,
           joiner' = "joined" => joining' \in left
    PROVE  IInv'
<1> USE DEF IInv, atomVars, creatorVars, treeVars
<1>1. /\ HandedOverOnce'
      /\ MoleculesOk' /\ NamesOk' /\ ReturnsOk' /\ TreesOk' /\ NamesCounted'
      /\ \A t \in Atoms : Named(t)' /\ ~IsPending(t)' => t \in left'
  BY AtomsUntouched
<1>2. TypeOK'
  <2>1. error' \in Messages \cup {"none"}
    OBVIOUS
  <2>2. glock' \in {Free, Creator, Joiner}
    BY DEF TypeOK
  <2>3. UNCHANGED <<kind, molecules, left, rv>>
    OBVIOUS
  <2>4. UNCHANGED <<creator, toCreate, hToCreate, oToCreate, hSpawned, oSpawned>>
    OBVIOUS
  <2>5. UNCHANGED <<threadsForked, threadsJoined, moleculesCreated, tids, numbers>>
    OBVIOUS
  <2> QED
    BY <2>1, <2>2, <2>3, <2>4, <2>5 DEF TypeOK
<1>3. NoError' /\ OutstandingBound' /\ NumberedInOrder' /\ BatchFits'
  BY DEF NoError, OutstandingBound, NumberedInOrder, BatchFits, InBatch
<1>4. LockHeld'
  BY DEF LockHeld, InBatch, Free, Creator, Joiner
<1>5. JoinedHaveLeft'
  BY <1>1 DEF JoinedHaveLeft
<1> QED
  BY <1>1, <1>2, <1>3, <1>4, <1>5

LEMMA JoinerLocksPreserves ==
    ASSUME IInv, NoError, JoinerLocks
    PROVE  IInv'
<1>1. /\ joiner \in {"start", "woken"} /\ joiner' = "top"
      /\ glock = Free /\ glock' = Joiner
      /\ UNCHANGED <<atomVars, creatorVars, threadsForked, threadsJoined, moleculesCreated,
                     treeVars, bondId, bonds, returning, joining, error>>
  BY DEF JoinerLocks
<1>2. Pending' = Pending
  BY <1>1 DEF Pending
<1> QED
  BY <1>1, <1>2, JoinerMoves DEF IInv, NoError, TypeOK, Free, Creator

\* An atom that is pending has a thread_info still.
LEMMA PendingIsRegistered ==
    ASSUME IInv, NEW i \in DOMAIN Pending, Pending[i] \in Atoms
    PROVE  Pending[i] \in numbers
<1>1. /\ Named(Pending[i])
      /\ IsPending(bondId[Pending[i]].o)
  BY DEF IInv, HandedOverOnce, Named, IsPending
<1> QED
  BY <1>1 DEF IInv, NamesOk, TreesOk

LEMMA JoinerTakesPreserves ==
    ASSUME IInv, JoinerTakes
    PROVE  IInv'
<1>1. /\ joiner = "top" /\ bonds # <<>> /\ joiner' = "joining"
      /\ joining' = Head(bonds) /\ bonds' = Tail(bonds)
      /\ glock' = Free
      /\ error' = IF Head(bonds) \in numbers THEN "none"
                  ELSE "thread number is not in number_to_info"
      /\ UNCHANGED <<atomVars, creatorVars, threadsForked, threadsJoined, moleculesCreated,
                     treeVars, bondId, returning>>
  BY DEF JoinerTakes
<1>2. bonds \in Seq(Atoms) /\ Pending = bonds
  BY <1>1, NothingInHand DEF IInv, TypeOK
<1>3. Head(bonds) \in Atoms /\ bonds' \in Seq(Atoms)
  BY <1>1, <1>2, HeadTailProperties
<1>4. 1 \in DOMAIN Pending /\ Pending[1] = Head(bonds)
  BY <1>1, <1>2, HeadIsFirst
<1>5. Pending' = Pending
  <2>1. Pending' = <<Head(bonds)>> \o Tail(bonds)
    BY <1>1 DEF Pending
  <2>2. <<Head(bonds)>> \o Tail(bonds) = bonds
    BY <1>1, <1>2, HeadIsFirst
  <2> QED
    BY <1>2, <2>1, <2>2
<1>6. error' = "none"
  <2>1. Pending[1] \in numbers
    BY <1>3, <1>4, PendingIsRegistered
  <2> QED
    BY <1>1, <1>4, <2>1
<1>7. glock # Creator
  BY <1>1, OwnersDiffer DEF IInv, LockHeld
<1> QED
  BY <1>1, <1>3, <1>5, <1>6, <1>7, JoinerMoves DEF Free, Joiner

LEMMA JoinerJoinsPreserves ==
    ASSUME IInv, JoinerJoins
    PROVE  IInv'
<1>1. /\ joiner = "joining" /\ joining \in left /\ joiner' = "joined"
      /\ error' = CASE rv[joining] = NoBond -> "rv is NULL"
                    [] rv[joining] # bondId[joining] -> "rv is not the bond"
                    [] OTHER -> "none"
      /\ UNCHANGED <<atomVars, glock, creatorVars, threadsForked, threadsJoined,
                     moleculesCreated, treeVars, bondId, bonds, returning, joining>>
  BY DEF JoinerJoins
<1>2. joining \in Atoms /\ bonds \in Seq(Atoms)
  BY <1>1 DEF IInv, TypeOK
<1>3. rv[joining] = bondId[joining] /\ rv[joining] # NoBond
  BY <1>1, <1>2 DEF IInv, ReturnsOk, Named
<1>4. error' = "none"
  BY <1>1, <1>3
<1>5. Pending' = Pending
  BY <1>1 DEF Pending
<1>6. glock # Joiner
  BY <1>1 DEF IInv, LockHeld
<1> QED
  BY <1>1, <1>2, <1>4, <1>5, <1>6, JoinerMoves

LEMMA JoinerSleepsPreserves ==
    ASSUME IInv, JoinerSleeps
    PROVE  IInv'
<1>1. /\ joiner = "top" /\ joiner' = "waiting" /\ glock' = Free
      /\ UNCHANGED <<atomVars, creatorVars, threadsForked, threadsJoined, moleculesCreated,
                     treeVars, bondId, bonds, returning, joining, error>>
  BY DEF JoinerSleeps
<1>2. Pending' = Pending
  BY <1>1 DEF Pending
<1>3. glock # Creator
  BY <1>1, OwnersDiffer DEF IInv, LockHeld
<1> QED
  BY <1>1, <1>2, <1>3, JoinerMoves DEF IInv, NoError, TypeOK, Free, Joiner

LEMMA SpuriousJoinerPreserves ==
    ASSUME IInv, SpuriousJoiner
    PROVE  IInv'
<1>1. /\ joiner = "waiting" /\ joiner' = "woken"
      /\ UNCHANGED <<atomVars, glock, creatorVars, threadsForked, threadsJoined,
                     moleculesCreated, treeVars, bondId, bonds, returning, joining, error>>
  BY DEF SpuriousJoiner
<1>2. Pending' = Pending
  BY <1>1 DEF Pending
<1>3. glock # Joiner
  BY <1>1 DEF IInv, LockHeld
<1> QED
  BY <1>1, <1>2, <1>3, JoinerMoves DEF IInv, NoError, TypeOK

\* When the joiner exits, every thread has been joined and both trees are empty.
LEMMA JoinerExitsPreserves ==
    ASSUME IInv, JoinerExits
    PROVE  IInv'
<1>1. /\ joiner = "top" /\ bonds = <<>> /\ threadsJoined = NumAtoms
      /\ joiner' = "done" /\ glock' = Free
      /\ tids = {} /\ numbers = {} => error' = "none"
      /\ UNCHANGED <<atomVars, creatorVars, threadsForked, threadsJoined, moleculesCreated,
                     treeVars, bondId, bonds, returning, joining>>
  BY DEF JoinerExits, AllJoined
<1>2. Pending' = Pending
  BY <1>1 DEF Pending
<1>3. Pending = <<>>
  BY <1>1, NothingInHand DEF IInv
<1>4. \A t \in Atoms : Named(t) /\ ~IsPending(t)
  <2>1. Len(Pending) = 0
    BY <1>3
  <2>2. NumAtoms = 3 * moleculesCreated
    BY <1>1, <2>1, JoinedWereForked, AtomsAreNumbers
  <2> QED
    BY <1>3, <2>2, JoinedWereForked DEF IsPending
<1>5. tids = {} /\ numbers = {}
  <2>1. tids \subseteq Atoms /\ numbers \subseteq Atoms
    BY DEF IInv, TypeOK
  <2>2. \A t \in Atoms : t \in left
    BY <1>4 DEF IInv, JoinedHaveLeft
  <2>3. \A t \in Atoms : ~IsPending(bondId[t].o)
    BY <1>3 DEF IsPending
  <2> QED
    BY <1>4, <2>1, <2>2, <2>3 DEF IInv, TreesOk
<1>6. error' = "none"
  BY <1>1, <1>5
<1>7. glock # Creator
  BY <1>1, OwnersDiffer DEF IInv, LockHeld
<1> QED
  BY <1>1, <1>2, <1>6, <1>7, JoinerMoves DEF IInv, TypeOK, Free, Joiner

\* With an oxygen in hand, no hydrogen of its molecule is pending.
LEMMA OxygenIsLast ==
    ASSUME IInv, joiner = "joined", kind[joining] = "o"
    PROVE  /\ bondId[joining] \in molecules
           /\ bondId[joining].o = joining
           /\ Freed(joining) = Members(bondId[joining])
           /\ Freed(joining) \subseteq numbers \cap left
<1> DEFINE n == joining
           m == bondId[joining]
<1>1. n \in Atoms /\ n \in left /\ Named(n)
  BY DEF IInv, JoinedHaveLeft, ReturnsOk
<1>2. m \in molecules /\ m \in Bond /\ n \in Members(m)
  BY <1>1 DEF IInv, NamesOk, TypeOK
<1>3. /\ m.h1 \in Atoms /\ m.h2 \in Atoms /\ m.o \in Atoms
      /\ kind[m.h1] = "h" /\ kind[m.h2] = "h" /\ m.h1 # m.h2
  BY <1>2, BondIsSet DEF IInv, MoleculesOk
<1>4. n = m.o /\ Freed(n) = Members(m)
  BY <1>2, <1>3 DEF Members, Freed
<1>5. 1 \in DOMAIN Pending /\ Pending[1] = n
  BY <1>1, OneInHand DEF IInv
<1>6. ASSUME NEW a \in Members(m)
      PROVE  a \in numbers /\ a \in left
  <2>1. a \in Atoms
    BY <1>3, <1>4, <1>1 DEF Members
  <2>2. bondId[a] = m /\ Named(a) /\ a < threadsForked
    BY <1>1, <2>1 DEF IInv, NamesOk, Named
  <2>3. a \in numbers
    BY <1>4, <1>5, <2>1, <2>2 DEF IInv, TreesOk, IsPending
  <2>4. ASSUME NEW j \in DOMAIN Pending, Pending[j] = a
        PROVE  a = n
    <3>1. PICK k \in DOMAIN Pending : k >= j /\ Pending[k] = n
      BY <1>4, <2>2, <2>4 DEF IInv, HandedOverOnce
    <3>2. k = 1
      BY <1>5, <3>1 DEF IInv, HandedOverOnce
    <3>3. DOMAIN Pending = 1..(Len(bonds) + 1) /\ Len(bonds) \in Nat
      BY <1>1, OneInHand DEF IInv
    <3>4. j = 1
      BY <3>1, <3>2, <3>3
    <3> QED
      BY <1>5, <2>4, <3>4
  <2> QED
    BY <1>1, <2>1, <2>2, <2>3, <2>4 DEF IInv, JoinedHaveLeft, IsPending
<1> QED
  BY <1>2, <1>4, <1>6

LEMMA JoinerAccountsPreserves ==
    ASSUME IInv, JoinerAccounts
    PROVE  IInv'
<1> DEFINE n == joining
           m == bondId[joining]
<1>1. /\ joiner = "joined" /\ joiner' = "top" /\ glock = Free /\ glock' = Joiner
      /\ threadsJoined' = threadsJoined + 1
      /\ creator' = IF creator = "waiting" THEN "woken" ELSE creator
      /\ UNCHANGED <<kind, molecules, left, rv, toCreate, hToCreate, oToCreate,
                     hSpawned, oSpawned, threadsForked, moleculesCreated, tids, bondId,
                     bonds, returning, joining>>
  BY DEF JoinerAccounts, SignalCreator, Signalled, atomVars
<1>2. n \in Atoms /\ n \in left /\ Named(n)
  BY <1>1 DEF IInv, JoinedHaveLeft, ReturnsOk
<1>3. /\ Len(bonds) \in Nat
      /\ Len(Pending) = Len(bonds) + 1
      /\ DOMAIN Pending = 1..(Len(bonds) + 1)
      /\ DOMAIN bonds = 1..Len(bonds)
      /\ Pending[1] = n
      /\ \A i \in 1..Len(bonds) : Pending[i + 1] = bonds[i]
  BY <1>1, <1>2, OneInHand DEF IInv
<1>4. Pending' = bonds
  BY <1>1, ConcatEmptySeq DEF Pending, IInv, TypeOK
<1>5. /\ \A i \in DOMAIN bonds : bonds[i] # n
      /\ \A x : (\E i \in DOMAIN bonds : bonds[i] = x) <=> IsPending(x) /\ x # n
  <2>1. ASSUME NEW i \in DOMAIN bonds
        PROVE  bonds[i] # n /\ i + 1 \in DOMAIN Pending /\ Pending[i + 1] = bonds[i]
    <3>1. i + 1 \in DOMAIN Pending /\ 1 \in DOMAIN Pending /\ i + 1 # 1
      BY <1>3
    <3> QED
      BY <1>3, <3>1 DEF IInv, HandedOverOnce
  <2>2. ASSUME NEW x, x # n, NEW j \in DOMAIN Pending, Pending[j] = x
        PROVE  \E i \in DOMAIN bonds : bonds[i] = x
    <3>1. j # 1
      BY <1>3, <2>2
    <3>2. j - 1 \in 1..Len(bonds) /\ (j - 1) + 1 = j
      BY <1>3, <3>1
    <3>3. Pending[(j - 1) + 1] = bonds[j - 1]
      BY <1>3, <3>2
    <3> QED
      BY <1>3, <2>2, <3>2, <3>3
  <2> QED
    BY <2>1, <2>2 DEF IsPending
<1>6. \A x : IsPending(x)' <=> IsPending(x) /\ x # n
  BY <1>4, <1>5 DEF IsPending
<1>7. threadsJoined' \in 0..NumAtoms /\ threadsJoined \in Int /\ threadsJoined + 1 \in Int
  BY <1>1, <1>3, JoinedWereForked, AtomsAreNumbers DEF IInv, TypeOK
<1>8. /\ error' = "none"
      /\ numbers' = IF kind[n] = "o" THEN numbers \ Members(m) ELSE numbers
      /\ tids \subseteq numbers'
  <2>1. CASE kind[n] = "o"
    <3>1. /\ m \in molecules /\ m.o = n /\ Freed(n) = Members(m)
          /\ Members(m) \subseteq numbers \cap left
      BY <1>1, <2>1, OxygenIsLast
    <3>2. m.h1 # m.h2 /\ m.h1 # n /\ m.h2 # n /\ m.h1 \in numbers /\ m.h2 \in numbers
      BY <2>1, <3>1 DEF IInv, MoleculesOk, Members
    <3>3. error' = "none"
      BY <2>1, <3>2 DEF JoinerAccounts, FreesMolecule
    <3>4. numbers' = numbers \ Members(m)
      BY <2>1, <3>1 DEF JoinerAccounts, FreesMolecule
    <3>5. tids \subseteq numbers \ left
      BY DEF IInv, TypeOK, TreesOk
    <3> QED
      BY <2>1, <3>1, <3>3, <3>4, <3>5
  <2>2. CASE kind[n] # "o"
    BY <2>2 DEF JoinerAccounts, FreesMolecule, IInv, NoError, TypeOK
  <2> QED
    BY <2>1, <2>2
<1>9. InBatch' <=> InBatch
  BY <1>1 DEF InBatch
<1>10. TypeOK'
  <2>1. numbers' \subseteq Atoms
    BY <1>8 DEF IInv, TypeOK
  <2>2. creator' \in {"locking", "waiting", "woken", "forking", "registering", "done"}
    BY <1>1 DEF IInv, TypeOK
  <2> QED
    BY <1>1, <1>7, <1>8, <2>1, <2>2 DEF IInv, TypeOK
<1>11. NoError'
  BY <1>8 DEF NoError
<1>12. OutstandingBound' /\ NumberedInOrder' /\ BatchFits'
  BY <1>1, <1>7, <1>9, CreatorUntouched
<1>13. HandedOverOnce'
  <2>1. (threadsJoined + 1) + Len(bonds) = 3 * moleculesCreated
    BY <1>3, <1>7, JoinedWereForked
  <2>2. ASSUME NEW i \in DOMAIN bonds, NEW j \in DOMAIN bonds, i # j
        PROVE  bonds[i] # bonds[j]
    <3>1. i + 1 \in DOMAIN Pending /\ j + 1 \in DOMAIN Pending /\ i + 1 # j + 1
      BY <1>3, <2>2
    <3> QED
      BY <1>3, <3>1 DEF IInv, HandedOverOnce
  <2>3. ASSUME NEW i \in DOMAIN bonds
        PROVE  /\ bondId[bonds[i]] # NoBond
               /\ \E j \in DOMAIN bonds : j >= i /\ bonds[j] = bondId[bonds[i]].o
    <3>1. i \in Int /\ i >= 1 /\ i + 1 \in DOMAIN Pending /\ Pending[i + 1] = bonds[i]
      BY <1>3
    <3>2. /\ bondId[bonds[i]] # NoBond
          /\ \E j \in DOMAIN Pending : j >= i + 1 /\ Pending[j] = bondId[bonds[i]].o
      BY <3>1 DEF IInv, HandedOverOnce
    <3>3. PICK j \in DOMAIN Pending : j >= i + 1 /\ Pending[j] = bondId[bonds[i]].o
      BY <3>2
    <3>4. j - 1 \in 1..Len(bonds) /\ (j - 1) + 1 = j /\ j - 1 >= i
      BY <1>3, <3>1, <3>3
    <3>5. Pending[(j - 1) + 1] = bonds[j - 1]
      BY <1>3, <3>4
    <3> QED
      BY <1>3, <3>2, <3>3, <3>4, <3>5
  <2> QED
    BY <1>1, <1>4, <2>1, <2>2, <2>3 DEF HandedOverOnce
<1>14. LockHeld'
  BY <1>1, <1>9, OwnersDiffer DEF IInv, LockHeld
<1>15. MoleculesOk' /\ NamesOk' /\ ReturnsOk' /\ NamesCounted'
  BY <1>1 DEF IInv, MoleculesOk, NamesOk, ReturnsOk, NamesCounted, NamedOf, Named
<1>16. TreesOk'
  <2>1. ASSUME NEW t \in Atoms
        PROVE  t \in numbers' <=> t < threadsForked /\ (Named(t) => IsPending(bondId[t].o)')
    <3>1. Named(t) => bondId[t] \in molecules /\ t \in Members(bondId[t])
      BY DEF IInv, NamesOk
    <3>2. CASE kind[n] = "o"
      <4>1. m \in molecules /\ m.o = n
        BY <1>1, <3>2, OxygenIsLast
      <4>2. t \in Members(m) => bondId[t] = m
        BY <1>2 DEF IInv, NamesOk
      <4>3. Named(t) => (bondId[t].o = n <=> bondId[t] = m)
        BY <3>1, <4>1 DEF IInv, MoleculesOk, Members
      <4>4. Named(t) => (t \in Members(m) <=> bondId[t].o = n)
        BY <3>1, <4>2, <4>3
      <4>5. t \in Members(m) => Named(t)
        BY <1>2, <4>2 DEF Named
      <4> QED
        BY <1>1, <1>6, <1>8, <3>2, <4>4, <4>5 DEF IInv, TreesOk
    <3>3. CASE kind[n] # "o"
      <4>1. Named(t) => bondId[t].o # n
        BY <3>1, <3>3 DEF IInv, MoleculesOk
      <4> QED
        BY <1>1, <1>6, <1>8, <3>3, <4>1 DEF IInv, TreesOk
    <3> QED
      BY <3>2, <3>3
  <2> QED
    BY <1>1, <2>1 DEF IInv, TreesOk, Named
<1>17. JoinedHaveLeft'
  BY <1>1, <1>2, <1>6 DEF IInv, JoinedHaveLeft, Named
<1> QED
  BY <1>10, <1>11, <1>12, <1>13, <1>14, <1>15, <1>16, <1>17 DEF IInv

LEMMA JoinerStepPreserves ==
    ASSUME IInv, JoinerStep
    PROVE  IInv'
<1>1. CASE JoinerLocks
  BY <1>1, JoinerLocksPreserves DEF IInv
<1>2. CASE JoinerTakes
  BY <1>2, JoinerTakesPreserves
<1>3. CASE JoinerJoins
  BY <1>3, JoinerJoinsPreserves
<1>4. CASE JoinerAccounts
  BY <1>4, JoinerAccountsPreserves
<1>5. CASE JoinerExits
  BY <1>5, JoinerExitsPreserves
<1>6. CASE JoinerSleeps
  BY <1>6, JoinerSleepsPreserves
<1> QED
  BY <1>1, <1>2, <1>3, <1>4, <1>5, <1>6 DEF JoinerStep

-----------------------------------------------------------------------------
(* The atoms *)

LEMMA AtomsFormPreserves ==
    ASSUME IInv, AtomsForm
    PROVE  IInv'
<1>1. UNCHANGED <<kind, left, rv, glock, creatorVars, threadsForked, threadsJoined,
                  moleculesCreated, treeVars, bondId, bonds, returning, joinerVars, error>>
  BY DEF AtomsForm, W!Form
<1>2. PICK h1, h2 \in W!Unbonded("h"), o \in W!Unbonded("o") :
         /\ h1 # h2
         /\ molecules' = molecules \cup {[h1 |-> h1, h2 |-> h2, o |-> o]}
  BY DEF AtomsForm, W!Form
<1> DEFINE new == [h1 |-> h1, h2 |-> h2, o |-> o]
<1>3. /\ h1 \in Atoms /\ h2 \in Atoms /\ o \in Atoms
      /\ kind[h1] = "h" /\ kind[h2] = "h" /\ kind[o] = "o"
      /\ \A n \in molecules : Members(n) \cap {h1, h2, o} = {}
  BY DEF W!Unbonded, W!Bonded, W!Members, Members
<1>4. /\ new \in Bond /\ Members(new) = {h1, h2, o}
      /\ new.h1 = h1 /\ new.h2 = h2 /\ new.o = o
  BY <1>3 DEF Bond, Members
<1>5. molecules' = molecules \cup {new}
  BY <1>2
<1> HIDE DEF new
<1>6. Pending' = Pending
  BY <1>1 DEF Pending, joinerVars
<1>7. TypeOK'
  BY <1>1, <1>4, <1>5 DEF IInv, TypeOK, creatorVars, treeVars, joinerVars
<1>8. MoleculesOk'
  <2>1. \A m \in molecules' : /\ m.h1 # m.h2
                             /\ kind[m.h1] = "h" /\ kind[m.h2] = "h" /\ kind[m.o] = "o"
    BY <1>2, <1>3, <1>4, <1>5 DEF IInv, MoleculesOk
  <2>2. \A m, n \in molecules' : m # n => Members(m) \cap Members(n) = {}
    BY <1>3, <1>4, <1>5 DEF IInv, MoleculesOk
  <2> QED
    BY <1>1, <2>1, <2>2 DEF MoleculesOk
<1>9. NoError' /\ OutstandingBound' /\ HandedOverOnce'
  BY <1>1, <1>6 DEF IInv, NoError, OutstandingBound, HandedOverOnce, creatorVars
<1>10. LockHeld' /\ NumberedInOrder' /\ BatchFits'
  BY <1>1 DEF IInv, LockHeld, NumberedInOrder, BatchFits, InBatch, creatorVars, joinerVars
<1>11. NamesOk' /\ ReturnsOk' /\ NamesCounted'
  BY <1>1, <1>5 DEF IInv, NamesOk, ReturnsOk, NamesCounted, NamedOf, Named
<1>12. TreesOk' /\ JoinedHaveLeft'
  BY <1>1, <1>6 DEF IInv, TreesOk, JoinedHaveLeft, Named, IsPending, treeVars, joinerVars
<1> QED
  BY <1>7, <1>8, <1>9, <1>10, <1>11, <1>12 DEF IInv

\* Two hydrogens and an oxygen are three atoms.
LEMMA ThreeMembers ==
    ASSUME IInv, NEW m \in molecules
    PROVE  /\ m \in Bond /\ m # NoBond
           /\ m.h1 \in Atoms /\ m.h2 \in Atoms /\ m.o \in Atoms
           /\ Members(m) \subseteq Atoms
           /\ m.h1 # m.h2 /\ m.h1 # m.o /\ m.h2 # m.o
           /\ kind[m.h1] = "h" /\ kind[m.h2] = "h" /\ kind[m.o] = "o"
           /\ \A a \in Members(m) : a = m.o <=> kind[a] = "o"
           /\ Cardinality(Members(m)) = 3
<1>1. m \in Bond
  BY DEF IInv, TypeOK
<1>2. /\ m # NoBond
      /\ m.h1 \in Atoms /\ m.h2 \in Atoms /\ m.o \in Atoms
      /\ m.h1 # m.h2 /\ m.h1 # m.o /\ m.h2 # m.o
      /\ kind[m.h1] = "h" /\ kind[m.h2] = "h" /\ kind[m.o] = "o"
  BY <1>1, BondIsSet DEF IInv, MoleculesOk
<1>3. Cardinality({m.h1, m.h2, m.o}) = 3
  <2>1. IsFiniteSet({m.h1}) /\ Cardinality({m.h1}) = 1
    BY FS_Singleton
  <2>2. IsFiniteSet({m.h1, m.h2}) /\ Cardinality({m.h1, m.h2}) = 2
    <3>1. {m.h1, m.h2} = {m.h1} \cup {m.h2} /\ m.h2 \notin {m.h1}
      BY <1>2
    <3> QED
      BY <2>1, <3>1, FS_AddElement
  <2>3. {m.h1, m.h2, m.o} = {m.h1, m.h2} \cup {m.o} /\ m.o \notin {m.h1, m.h2}
    BY <1>2
  <2> QED
    BY <2>2, <2>3, FS_AddElement
<1> QED
  BY <1>1, <1>2, <1>3 DEF Members

\* No check of Bond() fails; the first caller finds all three atoms without a
\* bond_id, and the others find the bond.
LEMMA ChecksPass ==
    ASSUME IInv, glock = Free,
           NEW m \in molecules, NEW t \in Members(m), t \notin returning \cup left
    PROVE  /\ t \in Atoms
           /\ BondError(t, m) = "none"
           /\ bondId[t] # NoBond => bondId[t] = m
           /\ bondId[t] = NoBond =>
                \A a \in Members(m) : /\ a < threadsForked
                                      /\ a \in numbers
                                      /\ bondId[a] = NoBond
<1>1. ~InBatch /\ creator # "registering"
  BY OwnersDiffer DEF IInv, LockHeld, InBatch
<1>2. ASSUME NEW a \in Members(m)
      PROVE  /\ a \in Atoms /\ a < threadsForked
             /\ Named(a) => bondId[a] = m
             /\ ~Named(a) => a \in numbers
  <2>1. a \in Atoms /\ kind[a] # "none"
    BY ThreeMembers DEF Members
  <2>2. a < threadsForked
    <3>1. hSpawned + oSpawned = threadsForked + 0
      BY <1>1 DEF IInv, NumberedInOrder
    <3>2. threadsForked \in Int
      BY DEF IInv, TypeOK
    <3> QED
      BY <2>1, <3>1, <3>2 DEF IInv, NumberedInOrder
  <2>3. Named(a) => bondId[a] = m
    BY <2>1 DEF IInv, NamesOk, MoleculesOk
  <2> QED
    BY <2>1, <2>2, <2>3 DEF IInv, TreesOk
<1>3. Named(t) => \A a \in Members(m) : bondId[a] = m
  BY <1>2 DEF IInv, NamesOk
<1>4. \A a \in Members(m) : Named(a) => Named(t)
  BY <1>2, ThreeMembers DEF IInv, NamesOk, Named
<1>5. t \in tids
  BY <1>2 DEF IInv, TreesOk
<1>6. Cardinality(Members(m)) = 3 /\ (t = m.o <=> kind[t] = "o")
  BY ThreeMembers
<1>7. BondError(t, m) = "none"
  <2>1. ~(Cardinality(Members(m)) < 3)
    BY <1>6
  <2>2. ~((t = m.o) # (kind[t] = "o"))
    BY <1>6
  <2>3. ~(bondId[t] \notin {NoBond, m})
    BY <1>2 DEF Named
  <2>4. ~(bondId[t] = NoBond /\ ~(Members(m) \subseteq numbers))
    BY <1>2, <1>4 DEF Named
  <2>5. ~(bondId[t] = NoBond /\ \E a \in Members(m) : bondId[a] # NoBond)
    BY <1>4 DEF Named
  <2> QED
    BY <1>5, <2>1, <2>2, <2>3, <2>4, <2>5, Zenon DEF BondError
<1> QED
  BY <1>2, <1>4, <1>7 DEF Named

\* The first caller of Bond() for a molecule.
LEMMA FirstCallPreserves ==
    ASSUME IInv, NEW m \in molecules, NEW t \in Members(m), t \notin returning \cup left,
           BondEnter(t, m), bondId[t] = NoBond
    PROVE  IInv'
<1> DEFINE N(k) == NamedOf(k)
           mc == moleculesCreated
<1>1. /\ t \in Atoms /\ BondError(t, m) = "none" /\ glock = Free
      /\ \A a \in Members(m) : a < threadsForked /\ a \in numbers /\ bondId[a] = NoBond
  BY ChecksPass DEF BondEnter
<1>2. /\ error' = "none"
      /\ tids' = tids \ {t}
      /\ moleculesCreated' = mc + 1
      /\ bondId' = [a \in Atoms |-> IF a \in Members(m) THEN m ELSE bondId[a]]
      /\ bonds' = bonds \o HandOver(m)
      /\ joiner' = Signalled(joiner)
      /\ returning' = returning \cup {t}
      /\ UNCHANGED <<kind, molecules, left, rv, glock, creatorVars, threadsForked,
                     threadsJoined, numbers, joining>>
  BY <1>1 DEF BondEnter, atomVars
<1>3. /\ m \in Bond /\ m # NoBond
      /\ m.h1 \in Atoms /\ m.h2 \in Atoms /\ m.o \in Atoms
      /\ Members(m) \subseteq Atoms /\ Members(m) = {m.h1, m.h2, m.o}
      /\ m.h1 # m.h2 /\ m.h1 # m.o /\ m.h2 # m.o
      /\ kind[m.h1] = "h" /\ kind[m.h2] = "h" /\ kind[m.o] = "o"
  BY ThreeMembers DEF Members
<1>4. /\ \A a \in Atoms : a \in Members(m) => bondId'[a] = m
      /\ \A a \in Atoms : a \notin Members(m) => bondId'[a] = bondId[a]
      /\ \A a \in Atoms : Named(a) => a \notin Members(m) /\ bondId'[a] = bondId[a]
      /\ \A a \in Atoms : Named(a)' <=> Named(a) \/ a \in Members(m)
  BY <1>1, <1>2, <1>3 DEF Named
<1>5. /\ joiner' \in {"start", "woken", "top", "joining", "joined", "done"}
      /\ joiner' \in {"joining", "joined"} <=> joiner \in {"joining", "joined"}
      /\ joiner' = "joined" => joiner = "joined"
      /\ joiner' = "top" <=> joiner = "top"
  BY <1>2 DEF Signalled, IInv, TypeOK
<1>6. Pending \in Seq(Atoms) /\ bonds' \in Seq(Atoms) /\ HandedOver(Pending', Pending, m)
  BY <1>2, <1>3, <1>5, PendingGrows, PendingIsASequence DEF IInv, JoinedHaveLeft
<1> DEFINE len == Len(Pending)
<1>7. /\ len \in Nat /\ Len(Pending') = len + 3
      /\ DOMAIN Pending = 1..len /\ DOMAIN Pending' = 1..(len + 3)
      /\ \A i \in 1..len : Pending'[i] = Pending[i] /\ Pending[i] \in Atoms
      /\ Pending'[len + 1] = m.h1 /\ Pending'[len + 2] = m.h2 /\ Pending'[len + 3] = m.o
  BY <1>6 DEF HandedOver
<1>8. \A i \in 1..len : Named(Pending[i]) /\ Pending[i] \notin Members(m)
  BY <1>4, <1>7 DEF IInv, HandedOverOnce, Named
<1>9. \A x : IsPending(x)' <=> IsPending(x) \/ x \in Members(m)
  <2>1. \A i \in 1..(len + 3) : i \in 1..len \/ i = len + 1 \/ i = len + 2 \/ i = len + 3
    BY <1>7
  <2>2. 1..len \subseteq 1..(len + 3) /\ {len + 1, len + 2, len + 3} \subseteq 1..(len + 3)
    BY <1>7
  <2> QED
    BY <1>3, <1>7, <2>1, <2>2 DEF IsPending
<1>10. NamesCounted' /\ moleculesCreated' \in 0..NumMolecules
  <2>1. N("o")' = N("o") \cup {m.o} /\ m.o \notin N("o")
    BY <1>1, <1>2, <1>3, <1>4 DEF NamedOf, Named
  <2>2. /\ N("h")' = (N("h") \cup {m.h1}) \cup {m.h2}
        /\ m.h1 \notin N("h") /\ m.h2 \notin N("h") \cup {m.h1}
    BY <1>1, <1>2, <1>3, <1>4 DEF NamedOf, Named
  <2>3. /\ NumAtoms \in Nat /\ NumMolecules \in Nat /\ mc \in Nat
        /\ Cardinality(N("o")) = mc /\ Cardinality(N("h")) = 2 * mc
    BY AtomsAreNumbers DEF IInv, TypeOK, NamesCounted
  <2>4. IsFiniteSet(N("o")) /\ IsFiniteSet(N("h"))
    <3>1. IsFiniteSet(Atoms)
      BY <2>3, AtomsAreNumbers, FS_Interval
    <3>2. N("o") \subseteq Atoms /\ N("h") \subseteq Atoms
      BY DEF NamedOf
    <3> QED
      BY <3>1, <3>2, FS_Subset
  <2> HIDE DEF N
  <2>5. Cardinality(N("o") \cup {m.o}) = mc + 1
    BY <2>1, <2>3, <2>4, FS_AddElement
  <2>6. IsFiniteSet(N("h") \cup {m.h1}) /\ Cardinality(N("h") \cup {m.h1}) = 2 * mc + 1
    BY <2>2, <2>3, <2>4, FS_AddElement
  <2>7. Cardinality((N("h") \cup {m.h1}) \cup {m.h2}) = 2 * mc + 1 + 1
    BY <2>2, <2>3, <2>6, FS_AddElement
  <2>8. Cardinality(N("o")') = mc + 1 /\ Cardinality(N("h")') = 2 * (mc + 1)
    <3>1. 2 * mc + 1 + 1 = 2 * (mc + 1)
      BY <2>3
    <3> QED
      BY <2>1, <2>2, <2>5, <2>7, <3>1, Zenon
  <2>9. /\ N("o")' \cap N("h")' = {}
        /\ N("o")' \subseteq 0..(NumAtoms - 1) /\ N("h")' \subseteq 0..(NumAtoms - 1)
    BY AtomsAreNumbers DEF N, NamedOf
  <2>10. Cardinality(N("h")') + Cardinality(N("o")') <= NumAtoms
    BY <2>3, <2>9, TwoKinds
  <2>11. 3 * (mc + 1) <= 3 * NumMolecules
    BY <2>3, <2>8, <2>10, AtomsAreNumbers
  <2>12. mc + 1 \in 0..NumMolecules
    BY <2>3, <2>11
  <2> QED
    BY <1>2, <2>8, <2>12 DEF NamesCounted, N
<1>11. TypeOK'
  <2>1. bondId' \in [Atoms -> Bond \cup {NoBond}]
    BY <1>2, <1>3 DEF IInv, TypeOK
  <2>2. UNCHANGED <<creator, toCreate, hToCreate, oToCreate, hSpawned, oSpawned>>
    BY <1>2 DEF creatorVars
  <2> QED
    BY <1>1, <1>2, <1>5, <1>6, <1>10, <2>1, <2>2 DEF IInv, TypeOK
<1>12. NoError' /\ OutstandingBound' /\ NumberedInOrder' /\ BatchFits'
  BY <1>2 DEF IInv, NoError, OutstandingBound, NumberedInOrder, BatchFits, InBatch, creatorVars
<1>13. HandedOverOnce'
  <2>1. threadsJoined + Len(Pending') = 3 * (mc + 1)
    <3>1. threadsJoined + len = 3 * mc /\ threadsJoined \in Int /\ mc \in Int
      BY JoinedWereForked DEF IInv, TypeOK
    <3>2. threadsJoined + (len + 3) = 3 * (mc + 1)
      BY <1>7, <3>1
    <3> QED
      BY <1>7, <3>2
  <2>2. \A i \in 1..(len + 3) : i \in 1..len \/ i = len + 1 \/ i = len + 2 \/ i = len + 3
    BY <1>7
  <2>3. \A i \in 1..len : Pending'[i] \notin {m.h1, m.h2, m.o}
    BY <1>3, <1>7, <1>8
  <2>4. \A i, j \in 1..len : i # j => Pending'[i] # Pending'[j]
    BY <1>7 DEF IInv, HandedOverOnce
  <2>5. ASSUME NEW i \in 1..(len + 3), NEW j \in 1..(len + 3), i # j
        PROVE  Pending'[i] # Pending'[j]
    BY <1>3, <1>7, <2>2, <2>3, <2>4, <2>5
  <2>6. ASSUME NEW i \in 1..(len + 3)
        PROVE  /\ bondId'[Pending'[i]] # NoBond
               /\ \E j \in 1..(len + 3) : j >= i /\ Pending'[j] = bondId'[Pending'[i]].o
    <3>1. CASE i \in 1..len
      <4>1. Pending'[i] = Pending[i] /\ bondId'[Pending[i]] = bondId[Pending[i]]
        BY <1>4, <1>7, <1>8, <3>1
      <4>2. /\ bondId[Pending[i]] # NoBond
            /\ \E j \in 1..len : j >= i /\ Pending[j] = bondId[Pending[i]].o
        BY <1>7, <3>1 DEF IInv, HandedOverOnce
      <4>3. 1..len \subseteq 1..(len + 3)
        BY <1>7
      <4> QED
        BY <1>7, <4>1, <4>2, <4>3
    <3>2. CASE i \notin 1..len
      <4>1. bondId'[Pending'[i]] = m
        BY <1>3, <1>4, <1>7, <2>2, <3>2
      <4>2. len + 3 \in 1..(len + 3) /\ len + 3 >= i
        BY <1>7
      <4> QED
        BY <1>3, <1>7, <4>1, <4>2
    <3> QED
      BY <3>1, <3>2
  <2> QED
    BY <1>2, <1>7, <2>1, <2>5, <2>6 DEF HandedOverOnce
<1>14. LockHeld'
  BY <1>2, <1>5 DEF IInv, LockHeld, InBatch, creatorVars
<1>15. MoleculesOk'
  BY <1>2 DEF IInv, MoleculesOk
<1>16. NamesOk'
  <2>1. ASSUME NEW a \in Atoms, Named(a)'
        PROVE  /\ a < threadsForked
               /\ bondId'[a] \in molecules
               /\ a \in Members(bondId'[a])
               /\ \A b \in Members(bondId'[a]) : bondId'[b] = bondId'[a]
    <3>1. CASE a \in Members(m)
      BY <1>1, <1>3, <1>4, <3>1
    <3>2. CASE a \notin Members(m)
      <4>1. Named(a) /\ bondId'[a] = bondId[a]
        BY <1>4, <2>1, <3>2
      <4>2. /\ a < threadsForked /\ bondId[a] \in molecules /\ a \in Members(bondId[a])
            /\ \A b \in Members(bondId[a]) : bondId[b] = bondId[a]
        BY <4>1 DEF IInv, NamesOk
      <4>3. Members(bondId[a]) \subseteq Atoms
        BY <4>2, ThreeMembers
      <4>4. \A b \in Members(bondId[a]) : bondId'[b] = bondId[b]
        BY <1>4, <4>1, <4>2, <4>3 DEF Named
      <4> QED
        BY <4>1, <4>2, <4>4
    <3> QED
      BY <3>1, <3>2
  <2> QED
    BY <1>2, <2>1 DEF NamesOk
<1>17. ReturnsOk'
  BY <1>1, <1>2, <1>3, <1>4 DEF IInv, ReturnsOk, TypeOK
<1>18. TreesOk'
  <2>1. \A a \in Atoms : a \in tids' <=> a < threadsForked /\ a \notin returning' \cup left
    BY <1>1, <1>2 DEF IInv, TreesOk
  <2>2. ASSUME NEW a \in Atoms
        PROVE  a \in numbers <=> a < threadsForked /\ (Named(a)' => IsPending(bondId[a].o)')
    <3>1. CASE a \in Members(m)
      <4>1. bondId'[a].o = m.o /\ m.o \in Members(m)
        BY <1>3, <1>4, <3>1
      <4>2. IsPending(bondId[a].o)'
        BY <1>9, <4>1 DEF IsPending
      <4> QED
        BY <1>1, <3>1, <4>2
    <3>2. CASE a \notin Members(m)
      <4>1. Named(a)' <=> Named(a)
        BY <1>4, <3>2
      <4>2. ASSUME Named(a)
            PROVE  IsPending(bondId[a].o)' <=> IsPending(bondId[a].o)
        <5>1. bondId[a] \in molecules /\ bondId[bondId[a].o] # NoBond
          BY <4>2 DEF IInv, NamesOk, Members, Named
        <5>2. bondId[a].o \notin Members(m)
          BY <1>1, <5>1
        <5>3. bondId'[a] = bondId[a]
          BY <1>4, <4>2
        <5>4. \A x : IsPending(x)' <=> \E i \in DOMAIN Pending' : Pending'[i] = x
          BY DEF IsPending
        <5>5. IsPending(bondId[a].o)' <=> \E i \in DOMAIN Pending' : Pending'[i] = bondId[a].o
          BY <5>3 DEF IsPending
        <5> QED
          BY <1>9, <5>2, <5>4, <5>5
      <4> QED
        BY <4>1, <4>2 DEF IInv, TreesOk
    <3> QED
      BY <3>1, <3>2
  <2> QED
    BY <1>2, <2>1, <2>2 DEF TreesOk
<1>19. JoinedHaveLeft'
  BY <1>2, <1>4, <1>5, <1>9 DEF IInv, JoinedHaveLeft
<1> QED
  BY <1>10, <1>11, <1>12, <1>13, <1>14, <1>15, <1>16, <1>17, <1>18, <1>19 DEF IInv

\* The second and the third caller.
LEMMA LaterCallPreserves ==
    ASSUME IInv, NEW m \in molecules, NEW t \in Members(m), t \notin returning \cup left,
           BondEnter(t, m), bondId[t] # NoBond
    PROVE  IInv'
<1>1. t \in Atoms /\ BondError(t, m) = "none" /\ Named(t)
  BY ChecksPass DEF BondEnter, Named
<1>2. /\ error' = "none"
      /\ tids' = tids \ {t}
      /\ returning' = returning \cup {t}
      /\ UNCHANGED <<kind, molecules, left, rv, glock, creatorVars, threadsForked,
                     threadsJoined, moleculesCreated, numbers, bondId, bonds, joinerVars>>
  BY <1>1 DEF BondEnter, atomVars, joinerVars
<1>3. Pending' = Pending
  BY <1>2 DEF Pending, joinerVars
<1>4. TypeOK' /\ NoError'
  BY <1>1, <1>2 DEF IInv, TypeOK, NoError, creatorVars, joinerVars
<1>5. /\ OutstandingBound' /\ HandedOverOnce' /\ LockHeld' /\ NumberedInOrder' /\ BatchFits'
      /\ MoleculesOk' /\ NamesOk' /\ NamesCounted'
  BY <1>2, <1>3
  DEF IInv, OutstandingBound, HandedOverOnce, LockHeld, NumberedInOrder, BatchFits,
      InBatch, MoleculesOk, NamesOk, NamesCounted, NamedOf, Named, creatorVars, joinerVars
<1>6. ReturnsOk' /\ TreesOk' /\ JoinedHaveLeft'
  BY <1>1, <1>2, <1>3
  DEF IInv, ReturnsOk, TreesOk, JoinedHaveLeft, Named, IsPending, joinerVars
<1> QED
  BY <1>4, <1>5, <1>6 DEF IInv

LEMMA BondReturnPreserves ==
    ASSUME IInv, NEW t \in Atoms, BondReturn(t)
    PROVE  IInv'
<1>1. /\ t \in returning /\ t \notin left
      /\ rv' = [rv EXCEPT ![t] = bondId[t]]
      /\ left' = left \cup {t} /\ returning' = returning \ {t}
      /\ UNCHANGED <<kind, molecules, glock, creatorVars, threadsForked, threadsJoined,
                     moleculesCreated, treeVars, bondId, bonds, joinerVars, error>>
  BY DEF BondReturn, W!Leave
<1>2. Pending' = Pending
  BY <1>1 DEF Pending, joinerVars
<1>3. TypeOK' /\ NoError'
  BY <1>1 DEF IInv, TypeOK, NoError, creatorVars, treeVars, joinerVars
<1>4. /\ OutstandingBound' /\ HandedOverOnce' /\ LockHeld' /\ NumberedInOrder' /\ BatchFits'
      /\ MoleculesOk' /\ NamesOk' /\ NamesCounted'
  BY <1>1, <1>2
  DEF IInv, OutstandingBound, HandedOverOnce, LockHeld, NumberedInOrder, BatchFits,
      InBatch, MoleculesOk, NamesOk, NamesCounted, NamedOf, Named, creatorVars, joinerVars
<1>5. ReturnsOk'
  <2>1. /\ rv \in [Atoms -> Bond \cup {NoBond}]
        /\ Named(t)
    BY <1>1 DEF IInv, TypeOK, ReturnsOk
  <2>2. \A a \in Atoms : rv'[a] = IF a = t THEN bondId[t] ELSE rv[a]
    BY <1>1, <2>1
  <2> QED
    BY <1>1, <2>1, <2>2 DEF IInv, ReturnsOk, Named
<1>6. TreesOk' /\ JoinedHaveLeft'
  BY <1>1, <1>2 DEF IInv, TreesOk, JoinedHaveLeft, Named, IsPending, treeVars, joinerVars
<1> QED
  BY <1>3, <1>4, <1>5, <1>6 DEF IInv

-----------------------------------------------------------------------------
(* Every step *)

SpuriousNext == Next \/ (Running /\ (SpuriousCreator \/ SpuriousJoiner))

LEMMA NextPreserves ==
    ASSUME IInv, [SpuriousNext]_vars
    PROVE  IInv'
<1>1. CASE CreatorStep
  BY <1>1, CreatorStepPreserves
<1>2. CASE JoinerStep
  BY <1>2, JoinerStepPreserves
<1>3. CASE AtomsForm
  BY <1>3, AtomsFormPreserves
<1>4. ASSUME NEW t \in Atoms, AtomCallsBond(t)
      PROVE  IInv'
  <2>1. PICK m \in molecules : t \in Members(m) /\ BondEnter(t, m)
    BY <1>4 DEF AtomCallsBond
  <2>2. t \notin returning \cup left
    BY <1>4 DEF AtomCallsBond
  <2> QED
    BY <2>1, <2>2, FirstCallPreserves, LaterCallPreserves
<1>5. ASSUME NEW t \in Atoms, BondReturn(t)
      PROVE  IInv'
  BY <1>5, BondReturnPreserves
<1>6. CASE SpuriousCreator
  BY <1>6, SpuriousCreatorPreserves
<1>7. CASE SpuriousJoiner
  BY <1>7, SpuriousJoinerPreserves
<1>8. CASE UNCHANGED vars
  <2>1. /\ UNCHANGED <<kind, molecules, left, rv, glock, creator, toCreate, hToCreate,
                       oToCreate, threadsForked, threadsJoined, hSpawned, oSpawned,
                       moleculesCreated, tids, numbers>>
        /\ UNCHANGED <<bondId, bonds, returning, joiner, joining, error>>
    BY <1>8 DEF vars, atomVars, creatorVars, treeVars, joinerVars
  <2>2. Pending' = Pending
    BY <2>1 DEF Pending
  <2>3. TypeOK' /\ NoError' /\ OutstandingBound' /\ HandedOverOnce'
    BY <2>1, <2>2 DEF IInv, TypeOK, NoError, OutstandingBound, HandedOverOnce
  <2>4. LockHeld' /\ NumberedInOrder' /\ BatchFits' /\ MoleculesOk'
    BY <2>1 DEF IInv, LockHeld, NumberedInOrder, BatchFits, MoleculesOk, InBatch
  <2>5. NamesOk' /\ ReturnsOk' /\ TreesOk' /\ JoinedHaveLeft' /\ NamesCounted'
    BY <2>1, <2>2 DEF IInv, NamesOk, ReturnsOk, TreesOk, JoinedHaveLeft, NamesCounted,
                      NamedOf, Named, IsPending
  <2> QED
    BY <2>3, <2>4, <2>5 DEF IInv
<1> QED
  BY <1>1, <1>2, <1>3, <1>4, <1>5, <1>6, <1>7, <1>8 DEF SpuriousNext, Next, Terminated

\* The invariant of bonding-driver.c, whatever order its threads run in and
\* however many waits end without a signal.
THEOREM DriverInvariant == SpuriousSpec => []IInv
<1>1. Init => IInv
  BY InitEstablishes
<1>2. IInv /\ [Next \/ (Running /\ (SpuriousCreator \/ SpuriousJoiner))]_vars => IInv'
  BY NextPreserves DEF SpuriousNext
<1> QED
  BY <1>1, <1>2, PTL DEF SpuriousSpec

\* Every variable of the driver has its type: the counts never pass the number
\* of atoms, and no thread is in tid_to_info without being in number_to_info.
THEOREM TypeCorrect == SpuriousSpec => []TypeOK
  BY DriverInvariant, PTL DEF IInv

\* No check of Bond(), set_bond() and joiner_thread() fails, over atoms that do
\* as Water.tla says.
THEOREM NoCheckFails == SpuriousSpec => []NoError
  BY DriverInvariant, PTL DEF IInv

\* At most max_outstanding threads are outstanding.
THEOREM LimitKept == SpuriousSpec => []OutstandingBound
  BY DriverInvariant, PTL DEF IInv

\* Each atom that is bonded is handed to the joiner once, its oxygen last.
THEOREM HandedOverExactlyOnce == SpuriousSpec => []HandedOverOnce
  BY DriverInvariant, PTL DEF IInv

\* A step that frees thread_infos frees those of one molecule, all returned.
FreesOneMolecule ==
    LET freed == numbers \ numbers'
    IN  freed # {} => /\ freed \subseteq left
                      /\ \E m \in molecules : freed = Members(m)

LEMMA FreesOneMoleculeStep ==
    ASSUME IInv, [SpuriousNext]_vars
    PROVE  [FreesOneMolecule]_vars
<1>1. CASE JoinerAccounts /\ kind[joining] = "o"
  <2>1. /\ bondId[joining] \in molecules
        /\ Freed(joining) = Members(bondId[joining])
        /\ Freed(joining) \subseteq numbers \cap left
    BY <1>1, OxygenIsLast DEF JoinerAccounts
  <2>2. numbers' = numbers \ Freed(joining)
    BY <1>1 DEF JoinerAccounts, FreesMolecule
  <2>3. numbers \ numbers' = Members(bondId[joining])
    BY <2>1, <2>2
  <2> QED
    BY <2>1, <2>3 DEF FreesOneMolecule
<1>2. CASE numbers \subseteq numbers'
  BY <1>2 DEF FreesOneMolecule
<1>3. ASSUME CreatorStep
      PROVE  numbers \subseteq numbers'
  BY <1>3 DEF CreatorStep, CreatorSleep, CreatorPlan, CreatorForksOxygen, CreatorForksHydrogen,
      CreatorForks, CreatorRegisters, CreatorEndsRound, treeVars
<1>4. ASSUME JoinerStep, ~(JoinerAccounts /\ kind[joining] = "o")
      PROVE  numbers \subseteq numbers'
  BY <1>4 DEF JoinerStep, JoinerLocks, JoinerTakes, JoinerJoins, JoinerAccounts, JoinerExits,
      JoinerSleeps, FreesMolecule, treeVars
<1>5. ASSUME AtomsForm \/ SpuriousCreator \/ SpuriousJoiner
      PROVE  numbers \subseteq numbers'
  BY <1>5 DEF AtomsForm, SpuriousCreator, SpuriousJoiner, treeVars
<1>6. ASSUME NEW t \in Atoms, AtomCallsBond(t) \/ BondReturn(t)
      PROVE  numbers \subseteq numbers'
  BY <1>6 DEF AtomCallsBond, BondEnter, BondReturn, treeVars
<1> QED
  BY <1>1, <1>2, <1>3, <1>4, <1>5, <1>6 DEF SpuriousNext, Next, Terminated

\* Thread_infos are freed by the molecule, after its three threads returned.
THEOREM FreesAreSafe == SpuriousSpec => FreedByMolecule
<1>1. IInv /\ [Next \/ (Running /\ (SpuriousCreator \/ SpuriousJoiner))]_vars
        => [FreesOneMolecule]_vars
  BY FreesOneMoleculeStep DEF SpuriousNext
<1> QED
  BY <1>1, DriverInvariant, PTL DEF SpuriousSpec, FreedByMolecule, FreesOneMolecule
-----------------------------------------------------------------------------
(***************************************************************************)
(* What the batches of creator_thread keep true: the threads created stay   *)
(* in balance, and a creator that sleeps has a signal coming.               *)
(*                                                                         *)
(* total * 2 is computed in an int.  main() lets num_molecules through for  *)
(* which it wraps round, and then neither holds: what follows is about the  *)
(* arguments for which it does not.                                         *)
(***************************************************************************)

\* total * 2 of creator_thread fits an int, for as many atoms as there are.
NoOverflow == 2 * NumAtoms <= IntMax

-----------------------------------------------------------------------------
(* The inductive invariant of the batches *)

Forked(k) == {t \in Atoms : kind[t] = k}

KindsCounted ==
    /\ Cardinality(Forked("o")) = oSpawned
    /\ Cardinality(Forked("h")) = hSpawned

\* A batch ends at the balance of all the threads created so far.
PlanOk ==
    /\ InBatch =>
         /\ hToCreate >= 0 /\ oToCreate >= 0
         /\ hToCreate + oToCreate = toCreate - (IF creator = "registering" THEN 1 ELSE 0)
         /\ oSpawned + oToCreate = (threadsForked + toCreate) \div 3
    /\ ~InBatch => oSpawned = threadsForked \div 3

\* One molecule is made in one batch, before which the creator does not wait.
OneBatch ==
    NumMolecules = 1 =>
        /\ creator \notin {"waiting", "woken"}
        /\ creator = "locking" => threadsForked = 0
        /\ InBatch => threadsForked + toCreate = NumAtoms

\* Who sleeps has nothing to do.
SleepersHaveNoWork ==
    /\ joiner = "waiting" => bonds = <<>> /\ ~AllJoined
    /\ creator = "waiting" => Outstanding > MaxOutstanding \div 2

BInv ==
    /\ IInv
    /\ KindsCounted
    /\ PlanOk
    /\ OneBatch
    /\ SleepersHaveNoWork

-----------------------------------------------------------------------------
(* The plan of a batch *)

LEMMA BatchFitsLimits ==
    ASSUME IInv, Outstanding <= MaxOutstanding \div 2
    PROVE  /\ BatchSize \in 0..MaxOutstanding
           /\ threadsForked + BatchSize <= NumAtoms
           /\ NumMolecules = 1 /\ threadsForked = 0 => BatchSize = NumAtoms
<1>1. /\ threadsForked \in 0..NumAtoms /\ threadsJoined \in Nat
      /\ threadsJoined <= threadsForked
      /\ NumAtoms \in Nat /\ NumAtoms = 3 * NumMolecules /\ MaxOutstanding \in Nat
      /\ NumMolecules = 1 => MaxOutstanding = 3
  BY JoinedWereForked, AtomsAreNumbers, ArgsAssumption DEF IInv, TypeOK
<1> QED
  BY <1>1 DEF BatchSize, Smaller, Outstanding

\* The next n threads bring the oxygens to a third of all, the hydrogens to
\* the rest, and there are as many of each to create as that takes.
LEMMA PlanBalances ==
    ASSUME NEW n \in Nat, NEW f \in Nat, hSpawned \in Nat, oSpawned \in Nat,
           hSpawned + oSpawned = f, oSpawned = f \div 3,
           IntMax \in Nat, 2 * (f + n) <= IntMax
    PROVE  /\ Plan(n).h \in Nat /\ Plan(n).o \in Nat
           /\ Plan(n).h + Plan(n).o = n
           /\ oSpawned + Plan(n).o = (f + n) \div 3
<1> DEFINE total == n + hSpawned + oSpawned
           h == (total * 2) \div 3 - hSpawned
           o == total \div 3 - oSpawned
           h1 == IF h + o < n THEN h + 1 ELSE h
<1>1. total = f + n /\ total \in Nat
  OBVIOUS
<1>2. Wrap(total * 2) = total * 2
  BY <1>1 DEF Wrap
<1>3. DivC(total * 2, 3) = (total * 2) \div 3
  BY <1>1 DEF DivC
<1>4. Plan(n) = [h |-> h1, o |-> IF h1 + o < n THEN o + 1 ELSE o]
  BY <1>2, <1>3, Zenon DEF Plan
<1>5. PICK q \in Nat, r \in 0..2 : total = 3 * q + r
  <2>1. total = 3 * (total \div 3) + (total % 3)
    BY <1>1
  <2>2. total \div 3 \in Nat /\ total % 3 \in 0..2
    BY <1>1
  <2> QED
    BY <2>1, <2>2
<1>6. /\ total \div 3 = q
      /\ (total * 2) \div 3 = IF r = 2 THEN 2 * q + 1 ELSE 2 * q
  BY <1>5
<1>7. /\ h1 = 2 * q + r - hSpawned /\ o = q - oSpawned
      /\ h1 + o = n
  BY <1>1, <1>5, <1>6
<1>8. f \div 3 \in Nat /\ f \div 3 <= q /\ f - (f \div 3) <= 2 * q + r
  <2>1. PICK p \in Nat, s \in 0..2 : f = 3 * p + s
    <3>1. f = 3 * (f \div 3) + (f % 3) /\ f \div 3 \in Nat /\ f % 3 \in 0..2
      OBVIOUS
    <3> QED
      BY <3>1
  <2>2. f \div 3 = p
    BY <2>1
  <2> QED
    BY <1>1, <1>5, <2>1, <2>2
<1>9. h1 \in Nat /\ o \in Nat
  BY <1>5, <1>7, <1>8
<1> HIDE DEF h, o, h1, total
<1>10. Plan(n).h = h1 /\ Plan(n).o = o
  BY <1>4, <1>7, <1>9
<1> QED
  BY <1>1, <1>6, <1>7, <1>9, <1>10 DEF o

-----------------------------------------------------------------------------
(* Every step *)

LEMMA InitBatch == Init => BInv
<1> SUFFICES ASSUME Init PROVE BInv
  OBVIOUS
<1>1. IInv
  BY InitEstablishes
<1>2. KindsCounted
  <2>1. Forked("o") = {} /\ Forked("h") = {}
    BY DEF Forked, Init, W!Init
  <2>2. Cardinality(Forked("o")) = 0 /\ Cardinality(Forked("h")) = 0
    BY <2>1, FS_EmptySet, Zenon
  <2> QED
    BY <2>2 DEF KindsCounted, Init
<1>3. PlanOk /\ OneBatch
  BY DEF PlanOk, OneBatch, InBatch, Init
<1>4. SleepersHaveNoWork
  BY DEF SleepersHaveNoWork, Init
<1> QED
  BY <1>1, <1>2, <1>3, <1>4 DEF BInv

\* The threads created, and the batch, after a step that creates none and is
\* not the creator's.
LEMMA BatchUntouched ==
    ASSUME BInv, UNCHANGED <<kind, toCreate, hToCreate, oToCreate, hSpawned, oSpawned,
                             threadsForked>>,
           \/ creator' = creator
           \/ creator = "waiting" /\ creator' = "woken"
    PROVE  KindsCounted' /\ PlanOk' /\ OneBatch'
<1>1. InBatch' <=> InBatch
  BY DEF InBatch
<1>2. creator' = "registering" <=> creator = "registering"
  OBVIOUS
<1>3. KindsCounted'
  BY DEF BInv, KindsCounted, Forked
<1>4. PlanOk'
  BY <1>1, <1>2 DEF BInv, PlanOk
<1>5. OneBatch'
  BY <1>1 DEF BInv, OneBatch
<1> QED
  BY <1>3, <1>4, <1>5

LEMMA CreatorKeepsBatch ==
    ASSUME NoOverflow, BInv, CreatorStep
    PROVE  KindsCounted' /\ PlanOk' /\ OneBatch' /\ SleepersHaveNoWork'
<1>1. /\ threadsForked \in Nat /\ threadsForked <= NumAtoms /\ NumAtoms \in Nat
      /\ NumAtoms = 3 * NumMolecules /\ NumAtoms > 0
      /\ hSpawned \in Nat /\ oSpawned \in Nat /\ toCreate \in Nat
      /\ hToCreate \in Int /\ oToCreate \in Int /\ IntMax \in Nat
      /\ MaxOutstanding \in Nat
  BY AtomsAreNumbers, ArgsAssumption DEF BInv, IInv, TypeOK
<1>2. CASE CreatorSleep
  <2>1. /\ creator = "locking" /\ creator' = "waiting"
        /\ Outstanding > MaxOutstanding \div 2
        /\ UNCHANGED <<kind, toCreate, hToCreate, oToCreate, hSpawned, oSpawned,
                       threadsForked, threadsJoined, bonds, joiner>>
    BY <1>2 DEF CreatorSleep, atomVars, joinerVars
  <2>2. NumMolecules # 1
    <3>1. ASSUME NumMolecules = 1
          PROVE  FALSE
      <4>1. MaxOutstanding = 3 /\ threadsForked = 0
        BY <2>1, <3>1, ArgsAssumption DEF BInv, OneBatch
      <4>2. threadsJoined \in Nat
        BY DEF BInv, IInv, TypeOK
      <4> QED
        BY <2>1, <4>1, <4>2 DEF Outstanding
    <3> QED
      BY <3>1
  <2>3. KindsCounted' /\ PlanOk'
    BY <2>1 DEF BInv, KindsCounted, Forked, PlanOk, InBatch
  <2>4. OneBatch'
    BY <2>2 DEF OneBatch
  <2>5. SleepersHaveNoWork'
    BY <2>1 DEF BInv, SleepersHaveNoWork, Outstanding, AllJoined
  <2> QED
    BY <2>3, <2>4, <2>5
<1>3. CASE CreatorPlan
  <2>1. /\ creator = "locking" /\ creator' = "forking"
        /\ Outstanding <= MaxOutstanding \div 2
        /\ toCreate' = BatchSize
        /\ hToCreate' = Plan(BatchSize).h /\ oToCreate' = Plan(BatchSize).o
        /\ UNCHANGED <<kind, hSpawned, oSpawned, threadsForked, threadsJoined, bonds, joiner>>
    BY <1>3 DEF CreatorPlan, atomVars, joinerVars
  <2>2. /\ BatchSize \in Nat /\ threadsForked + BatchSize <= NumAtoms
        /\ NumMolecules = 1 /\ threadsForked = 0 => BatchSize = NumAtoms
    BY <2>1, BatchFitsLimits, LimitIsANumber DEF BInv
  <2>3. hSpawned + oSpawned = threadsForked /\ oSpawned = threadsForked \div 3
    BY <1>1, <2>1 DEF BInv, IInv, NumberedInOrder, PlanOk, InBatch
  <2>4. 2 * (threadsForked + BatchSize) <= IntMax
    BY <1>1, <2>2 DEF NoOverflow
  <2>5. /\ Plan(BatchSize).h \in Nat /\ Plan(BatchSize).o \in Nat
        /\ Plan(BatchSize).h + Plan(BatchSize).o = BatchSize
        /\ oSpawned + Plan(BatchSize).o = (threadsForked + BatchSize) \div 3
    BY <1>1, <2>2, <2>3, <2>4, PlanBalances
  <2>6. KindsCounted'
    BY <2>1 DEF BInv, KindsCounted, Forked
  <2>7. PlanOk'
    <3>1. InBatch' /\ creator' # "registering"
      BY <2>1 DEF InBatch
    <3>2. hToCreate' >= 0 /\ oToCreate' >= 0
      BY <2>1, <2>5
    <3>3. hToCreate' + oToCreate' = toCreate' - 0
      BY <2>1, <2>2, <2>5
    <3> QED
      BY <2>1, <2>5, <3>1, <3>2, <3>3 DEF PlanOk
  <2>8. OneBatch'
    <3>1. NumMolecules = 1 => threadsForked = 0 /\ BatchSize = NumAtoms
      BY <2>1, <2>2 DEF BInv, OneBatch
    <3>2. NumMolecules = 1 => threadsForked' + toCreate' = NumAtoms
      BY <1>1, <2>1, <3>1
    <3> QED
      BY <2>1, <3>2 DEF OneBatch
  <2>9. SleepersHaveNoWork'
    BY <2>1 DEF BInv, SleepersHaveNoWork, AllJoined
  <2> QED
    BY <2>6, <2>7, <2>8, <2>9
<1>4. ASSUME NEW k \in {"h", "o"}, CreatorForks(k),
             \/ /\ k = "o" /\ oToCreate > 0
                /\ oToCreate' = oToCreate - 1 /\ oSpawned' = oSpawned + 1
                /\ UNCHANGED <<hToCreate, hSpawned>>
             \/ /\ k = "h" /\ (oToCreate <= 0 \/ hToCreate # 0)
                /\ hToCreate' = hToCreate - 1 /\ hSpawned' = hSpawned + 1
                /\ UNCHANGED <<oToCreate, oSpawned>>
      PROVE  KindsCounted' /\ PlanOk' /\ OneBatch' /\ SleepersHaveNoWork'
  <2> DEFINE f == threadsForked
  <2>1. /\ creator = "forking" /\ creator' = "registering" /\ toCreate > 0
        /\ kind[f] = "none" /\ kind' = [kind EXCEPT ![f] = k]
        /\ UNCHANGED <<toCreate, threadsForked, threadsJoined, bonds, joiner>>
    BY <1>4 DEF CreatorForks, W!Arrive, joinerVars
  <2>2. f \in Atoms
    <3>1. f + toCreate <= NumAtoms
      BY <2>1 DEF BInv, IInv, BatchFits, InBatch
    <3> QED
      BY <1>1, <2>1, <3>1, AtomsAreNumbers
  <2>3. /\ hToCreate >= 0 /\ oToCreate >= 0 /\ hToCreate + oToCreate = toCreate
        /\ oSpawned + oToCreate = (f + toCreate) \div 3
    BY <1>1, <2>1 DEF BInv, PlanOk, InBatch
  <2>4. /\ Cardinality(Forked("o")) = oSpawned /\ Cardinality(Forked("h")) = hSpawned
        /\ IsFiniteSet(Forked("o")) /\ IsFiniteSet(Forked("h"))
    <3>1. IsFiniteSet(Atoms)
      BY <1>1, AtomsAreNumbers, FS_Interval
    <3>2. Forked("o") \subseteq Atoms /\ Forked("h") \subseteq Atoms
      BY DEF Forked
    <3> QED
      BY <3>1, <3>2, FS_Subset DEF BInv, KindsCounted
  <2>5. \A t \in Atoms : kind'[t] = IF t = f THEN k ELSE kind[t]
    BY <2>1, <2>2 DEF BInv, IInv, TypeOK
  <2>6. /\ \A c \in {"h", "o"} : c # k => Forked(c)' = Forked(c)
        /\ Forked(k)' = Forked(k) \cup {f} /\ f \notin Forked(k)
    BY <2>1, <2>2, <2>5 DEF Forked
  <2>7. InBatch /\ InBatch' /\ creator' # "locking"
    BY <2>1 DEF InBatch
  <2>8. OneBatch'
    BY <2>1, <2>7 DEF BInv, OneBatch
  <2>9. SleepersHaveNoWork'
    BY <2>1 DEF BInv, SleepersHaveNoWork, AllJoined
  <2>10. CASE /\ k = "o" /\ oToCreate > 0
              /\ oToCreate' = oToCreate - 1 /\ oSpawned' = oSpawned + 1
              /\ UNCHANGED <<hToCreate, hSpawned>>
    <3>1. Cardinality(Forked("o") \cup {f}) = oSpawned + 1
      BY <1>1, <2>4, <2>6, <2>10, FS_AddElement
    <3>2. Forked("o")' = Forked("o") \cup {f} /\ Forked("h")' = Forked("h")
      BY <2>6, <2>10
    <3>3. KindsCounted'
      BY <2>4, <2>10, <3>1, <3>2, Zenon DEF KindsCounted
    <3>4. PlanOk'
      <4>1. hToCreate' >= 0 /\ oToCreate' >= 0
        BY <1>1, <2>3, <2>10
      <4>2. hToCreate' + oToCreate' = toCreate' - 1
        BY <1>1, <2>1, <2>3, <2>10
      <4>3. oSpawned' + oToCreate' = (threadsForked' + toCreate') \div 3
        <5>1. (oSpawned + 1) + (oToCreate - 1) = oSpawned + oToCreate
          BY <1>1
        <5>2. oSpawned' + oToCreate' = oSpawned + oToCreate
          BY <2>10, <5>1
        <5> QED
          BY <2>1, <2>3, <5>2
      <4> QED
        BY <2>1, <2>7, <4>1, <4>2, <4>3 DEF PlanOk
    <3> QED
      BY <2>8, <2>9, <3>3, <3>4
  <2>11. CASE /\ k = "h" /\ (oToCreate <= 0 \/ hToCreate # 0)
              /\ hToCreate' = hToCreate - 1 /\ hSpawned' = hSpawned + 1
              /\ UNCHANGED <<oToCreate, oSpawned>>
    <3>1. Cardinality(Forked("h") \cup {f}) = hSpawned + 1
      BY <1>1, <2>4, <2>6, <2>11, FS_AddElement
    <3>2. Forked("h")' = Forked("h") \cup {f} /\ Forked("o")' = Forked("o")
      BY <2>6, <2>11
    <3>3. KindsCounted'
      BY <2>4, <2>11, <3>1, <3>2, Zenon DEF KindsCounted
    <3>4. PlanOk'
      <4>1. hToCreate > 0
        BY <1>1, <2>1, <2>3, <2>11
      <4>2. hToCreate' >= 0 /\ oToCreate' >= 0
        BY <1>1, <2>3, <2>11, <4>1
      <4>3. hToCreate' + oToCreate' = toCreate' - 1
        BY <1>1, <2>1, <2>3, <2>11
      <4>4. oSpawned' + oToCreate' = (threadsForked' + toCreate') \div 3
        BY <2>1, <2>3, <2>11
      <4> QED
        BY <2>1, <2>7, <4>2, <4>3, <4>4 DEF PlanOk
    <3> QED
      BY <2>8, <2>9, <3>3, <3>4
  <2> QED
    BY <1>4, <2>10, <2>11
<1>5. CASE CreatorForksOxygen
  BY <1>4, <1>5 DEF CreatorForksOxygen
<1>6. CASE CreatorForksHydrogen
  BY <1>4, <1>6 DEF CreatorForksHydrogen
<1>7. CASE CreatorRegisters
  <2> DEFINE f == threadsForked
  <2>1. /\ creator = "registering" /\ creator' = "forking"
        /\ threadsForked' = f + 1 /\ toCreate' = toCreate - 1
        /\ UNCHANGED <<kind, hToCreate, oToCreate, hSpawned, oSpawned,
                       threadsJoined, bonds, joiner>>
    BY <1>7 DEF CreatorRegisters, atomVars, joinerVars
  <2>2. KindsCounted' /\ SleepersHaveNoWork'
    BY <2>1 DEF BInv, KindsCounted, Forked, SleepersHaveNoWork, AllJoined
  <2>3. (f + 1) + (toCreate - 1) = f + toCreate
    BY <1>1
  <2>4. threadsForked' + toCreate' = f + toCreate
    BY <2>1, <2>3
  <2>5. PlanOk'
    <3>1. InBatch /\ InBatch' /\ creator' # "registering"
      BY <2>1 DEF InBatch
    <3>2. /\ hToCreate >= 0 /\ oToCreate >= 0
          /\ hToCreate + oToCreate = toCreate - 1
          /\ oSpawned + oToCreate = (f + toCreate) \div 3
      BY <2>1, <3>1 DEF BInv, PlanOk
    <3>3. hToCreate' + oToCreate' = toCreate' - 0
      BY <1>1, <2>1, <3>2
    <3> QED
      BY <2>1, <2>4, <3>1, <3>2, <3>3 DEF PlanOk
  <2>6. OneBatch'
    BY <2>1, <2>4 DEF BInv, OneBatch, InBatch
  <2> QED
    BY <2>2, <2>5, <2>6
<1>8. CASE CreatorEndsRound
  <2>1. /\ \/ creator = "forking" /\ toCreate = 0
           \/ creator = "woken"
        /\ creator' = IF AllForked THEN "done" ELSE "locking"
        /\ UNCHANGED <<kind, toCreate, hToCreate, oToCreate, hSpawned, oSpawned,
                       threadsForked, threadsJoined, bonds, joiner>>
    BY <1>8 DEF CreatorEndsRound, atomVars, joinerVars
  <2>2. KindsCounted' /\ SleepersHaveNoWork'
    BY <2>1 DEF BInv, KindsCounted, Forked, SleepersHaveNoWork, AllJoined
  <2>3. oSpawned = threadsForked \div 3
    <3>1. CASE creator = "forking" /\ toCreate = 0
      <4>1. /\ hToCreate >= 0 /\ oToCreate >= 0 /\ hToCreate + oToCreate = 0 - 0
            /\ oSpawned + oToCreate = (threadsForked + 0) \div 3
        BY <3>1 DEF BInv, PlanOk, InBatch
      <4>2. oToCreate = 0
        BY <1>1, <4>1
      <4> QED
        BY <1>1, <4>1, <4>2
    <3>2. CASE creator = "woken"
      BY <3>2 DEF BInv, PlanOk, InBatch
    <3> QED
      BY <2>1, <3>1, <3>2
  <2>4. ~InBatch'
    BY <2>1 DEF InBatch
  <2>5. PlanOk'
    BY <2>1, <2>3, <2>4 DEF PlanOk
  <2>6. NumMolecules = 1 => AllForked
    BY <1>1, <2>1 DEF BInv, OneBatch, InBatch, AllForked
  <2>7. OneBatch'
    BY <2>1, <2>4, <2>6 DEF OneBatch
  <2> QED
    BY <2>2, <2>5, <2>7
<1> QED
  BY <1>2, <1>3, <1>5, <1>6, <1>7, <1>8 DEF CreatorStep

LEMMA BatchStep ==
    ASSUME NoOverflow, BInv, [SpuriousNext]_vars
    PROVE  BInv'
<1>1. IInv'
  BY NextPreserves DEF BInv
<1>2. CASE CreatorStep
  BY <1>1, <1>2, CreatorKeepsBatch DEF BInv
<1>3. CASE ~CreatorStep
  <2>1. /\ UNCHANGED <<kind, toCreate, hToCreate, oToCreate, hSpawned, oSpawned, threadsForked>>
        /\ \/ creator' = creator
           \/ creator = "waiting" /\ creator' = "woken"
        /\ \/ threadsJoined' = threadsJoined
           \/ creator' # "waiting"
    <3>1. CASE JoinerStep
      BY <3>1 DEF JoinerStep, JoinerLocks, JoinerTakes, JoinerJoins, JoinerAccounts, JoinerExits,
          JoinerSleeps, SignalCreator, Signalled, atomVars, creatorVars
    <3>2. CASE AtomsForm \/ SpuriousCreator \/ SpuriousJoiner
      BY <3>2 DEF AtomsForm, W!Form, SpuriousCreator, SpuriousJoiner, atomVars, creatorVars
    <3>3. CASE \E t \in Atoms : AtomCallsBond(t) \/ BondReturn(t)
      BY <3>3 DEF AtomCallsBond, BondEnter, BondReturn, W!Leave, atomVars, creatorVars
    <3>4. CASE UNCHANGED vars
      BY <3>4 DEF vars, atomVars, creatorVars
    <3> QED
      BY <1>3, <3>1, <3>2, <3>3, <3>4 DEF SpuriousNext, Next, Terminated
  <2>2. KindsCounted' /\ PlanOk' /\ OneBatch'
    BY <2>1, BatchUntouched
  <2>3. creator' = "waiting" => Outstanding' > MaxOutstanding \div 2
    BY <2>1 DEF BInv, SleepersHaveNoWork, Outstanding
  <2>4. joiner' = "waiting" => bonds' = <<>> /\ ~AllJoined'
    <3>1. CASE JoinerStep
      BY <3>1 DEF JoinerStep, JoinerLocks, JoinerTakes, JoinerJoins, JoinerAccounts, JoinerExits,
          JoinerSleeps, AllJoined
    <3>2. CASE AtomsForm \/ SpuriousCreator \/ SpuriousJoiner
      BY <3>2 DEF AtomsForm, SpuriousCreator, SpuriousJoiner, joinerVars, AllJoined,
          BInv, SleepersHaveNoWork
    <3>3. CASE \E t \in Atoms : AtomCallsBond(t) \/ BondReturn(t)
      BY <3>3 DEF AtomCallsBond, BondEnter, BondReturn, Signalled, joinerVars, AllJoined,
          BInv, SleepersHaveNoWork
    <3>4. CASE UNCHANGED vars
      BY <3>4 DEF vars, joinerVars, AllJoined, BInv, SleepersHaveNoWork
    <3> QED
      BY <1>3, <3>1, <3>2, <3>3, <3>4 DEF SpuriousNext, Next, Terminated
  <2> QED
    BY <1>1, <2>2, <2>3, <2>4 DEF BInv, SleepersHaveNoWork
<1> QED
  BY <1>2, <1>3

-----------------------------------------------------------------------------
(* What follows *)

\* Every thread with a bond_id is bonded; if none is in number_to_info, every
\* bonded thread has a bond_id and all of them have been joined.
LEMMA NothingToJoin ==
    ASSUME IInv, creator = "waiting", \A t \in W!Bonded : t \notin numbers
    PROVE  /\ threadsJoined = 3 * moleculesCreated
           /\ W!Unbonded("o") = Forked("o") \ NamedOf("o")
           /\ W!Unbonded("h") = Forked("h") \ NamedOf("h")
<1>1. \A t \in W!Bonded : t \in Atoms /\ Named(t)
  <2>1. ASSUME NEW m \in molecules, NEW t \in Members(m)
        PROVE  t \in Atoms /\ (~Named(t) => t \in numbers)
    <3>1. t \in Atoms /\ kind[t] # "none"
      BY ThreeMembers DEF Members
    <3>2. hSpawned + oSpawned = threadsForked + 0 /\ threadsForked \in Int
      BY DEF IInv, NumberedInOrder, TypeOK
    <3>3. t < threadsForked
      BY <3>1, <3>2 DEF IInv, NumberedInOrder
    <3> QED
      BY <3>1, <3>3 DEF IInv, TreesOk
  <2> QED
    BY <2>1 DEF W!Bonded, W!Members, Members
<1>2. \A t \in Atoms : Named(t) => t \in W!Bonded
  BY DEF IInv, NamesOk, W!Bonded, W!Members, Members
<1>3. \A t \in Atoms : t \in W!Bonded <=> Named(t)
  BY <1>1, <1>2
<1>4. DOMAIN Pending = {}
  <2>1. ASSUME NEW i \in DOMAIN Pending
        PROVE  FALSE
    <3>1. Pending \in Seq(Atoms)
      BY PendingIsASequence DEF IInv, JoinedHaveLeft
    <3>2. Pending[i] \in Atoms
      BY <3>1
    <3>3. Pending[i] \in numbers
      BY <3>2, PendingIsRegistered
    <3>4. Named(Pending[i])
      BY DEF IInv, HandedOverOnce, Named
    <3> QED
      BY <1>3, <3>2, <3>3, <3>4
  <2> QED
    BY <2>1
<1>5. Len(Pending) = 0
  <2>1. Pending \in Seq(Atoms)
    BY PendingIsASequence DEF IInv, JoinedHaveLeft
  <2>2. Len(Pending) \in Nat /\ DOMAIN Pending = 1..Len(Pending)
    BY <2>1, LenProperties
  <2> QED
    BY <1>4, <2>2
<1>6. threadsJoined = 3 * moleculesCreated
  <2>1. threadsJoined \in Int
    BY DEF IInv, TypeOK
  <2> QED
    BY <1>5, <2>1, JoinedWereForked
<1>7. /\ W!Unbonded("o") = Forked("o") \ NamedOf("o")
      /\ W!Unbonded("h") = Forked("h") \ NamedOf("h")
  BY <1>3 DEF W!Unbonded, Forked, NamedOf
<1> QED
  BY <1>6, <1>7

\* A creator that sleeps while all the bonded threads have been joined has
\* made the atoms of a molecule, which are still to bond.
LEMMA MoleculeIsDue ==
    ASSUME BInv, creator = "waiting", \A t \in W!Bonded : t \notin numbers
    PROVE  Cardinality(W!Unbonded("h")) >= 2 /\ W!Unbonded("o") # {}
<1> DEFINE f == threadsForked
           mc == moleculesCreated
           N(k) == NamedOf(k)
           F(k) == Forked(k)
<1>1. /\ threadsJoined = 3 * mc
      /\ W!Unbonded("o") = F("o") \ N("o") /\ W!Unbonded("h") = F("h") \ N("h")
  BY NothingToJoin DEF BInv
<1>2. /\ f \in Nat /\ mc \in Nat /\ hSpawned \in Nat /\ oSpawned \in Nat
      /\ MaxOutstanding \in Nat /\ MaxOutstanding >= 6
  BY AtomsAreNumbers, ArgsAssumption, JoinedWereForked DEF BInv, IInv, TypeOK, OneBatch
<1>3. f - 3 * mc >= 4
  BY <1>1, <1>2 DEF BInv, SleepersHaveNoWork, Outstanding
<1>4. oSpawned = f \div 3 /\ hSpawned = f - (f \div 3)
  <2>1. oSpawned = f \div 3 /\ hSpawned + oSpawned = f + 0
    BY DEF BInv, IInv, NumberedInOrder, PlanOk, InBatch
  <2> QED
    BY <1>2, <2>1
<1>5. f \div 3 >= mc + 1 /\ f - (f \div 3) >= 2 * mc + 2
  BY <1>2, <1>3
<1>6. /\ Cardinality(F("o")) = oSpawned /\ Cardinality(F("h")) = hSpawned
      /\ Cardinality(N("o")) = mc /\ Cardinality(N("h")) = 2 * mc
  BY DEF BInv, IInv, KindsCounted, NamesCounted
<1>7. /\ IsFiniteSet(F("o")) /\ IsFiniteSet(F("h"))
      /\ N("o") \subseteq F("o") /\ N("h") \subseteq F("h")
  <2>1. IsFiniteSet(Atoms)
    BY AtomsAreNumbers, FS_Interval
  <2>2. F("o") \subseteq Atoms /\ F("h") \subseteq Atoms
    BY DEF Forked
  <2> QED
    BY <2>1, <2>2, FS_Subset DEF Forked, NamedOf
<1> HIDE DEF N, F
<1>8. Cardinality(F("h") \ N("h")) = hSpawned - 2 * mc
  <2>1. F("h") \cap N("h") = N("h")
    BY <1>7
  <2>2. Cardinality(F("h") \ N("h")) = Cardinality(F("h")) - Cardinality(F("h") \cap N("h"))
    BY <1>7, FS_Difference
  <2> QED
    BY <1>6, <2>1, <2>2
<1>9. F("o") # N("o")
  BY <1>2, <1>4, <1>5, <1>6
<1>10. F("o") \ N("o") # {}
  BY <1>7, <1>9
<1>11. hSpawned - 2 * mc >= 2
  BY <1>2, <1>4, <1>5
<1> QED
  BY <1>1, <1>8, <1>10, <1>11

LEMMA SleepersAreOwed ==
    ASSUME BInv
    PROVE  SleepersAreOwedASignal
<1>1. CASE creator = "waiting" /\ \A t \in W!Bonded : t \notin numbers
  BY <1>1, MoleculeIsDue DEF BInv, SleepersHaveNoWork, SleepersAreOwedASignal
<1>2. CASE ~(creator = "waiting" /\ \A t \in W!Bonded : t \notin numbers)
  BY <1>2 DEF BInv, SleepersHaveNoWork, SleepersAreOwedASignal
<1> QED
  BY <1>1, <1>2

LEMMA BatchesBalance ==
    ASSUME BInv
    PROVE  Balance
<1>1. CASE ~InBatch
  <2>1. hSpawned + oSpawned = threadsForked + 0 /\ threadsForked \in Int
    BY <1>1 DEF BInv, IInv, NumberedInOrder, InBatch, TypeOK
  <2> QED
    BY <1>1, <2>1 DEF BInv, PlanOk, Balance
<1>2. CASE InBatch
  BY <1>2 DEF Balance, InBatch
<1> QED
  BY <1>1, <1>2

\* The invariant of the batches, for arguments that total * 2 has room for.
THEOREM BatchInvariant ==
    ASSUME NoOverflow
    PROVE  SpuriousSpec => []BInv
<1>1. Init => BInv
  BY InitBatch
<1>2. BInv /\ [Next \/ (Running /\ (SpuriousCreator \/ SpuriousJoiner))]_vars => BInv'
  BY NoOverflow, BatchStep DEF SpuriousNext
<1> QED
  BY <1>1, <1>2, PTL DEF SpuriousSpec

\* Between two batches, the threads created are two hydrogens to an oxygen, but
\* for at most two hydrogens whose oxygen is to come.
THEOREM KeptInBalance ==
    ASSUME NoOverflow
    PROVE  SpuriousSpec => []Balance
<1>1. BInv => Balance
  BY BatchesBalance
<1> QED
  BY <1>1, BatchInvariant, PTL

\* No wakeup is lost, and no batch leaves the creator asleep with too few atoms
\* for the molecule whose joining would wake it.
THEOREM NobodySleepsForEver ==
    ASSUME NoOverflow
    PROVE  SpuriousSpec => []SleepersAreOwedASignal
<1>1. BInv => SleepersAreOwedASignal
  BY SleepersAreOwed
<1> QED
  BY <1>1, BatchInvariant, PTL
=============================================================================
