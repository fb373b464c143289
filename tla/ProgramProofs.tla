----------------------------- MODULE ProgramProofs ----------------------------
(* Theorems about cache_sim.c, famtree.c, chain_heal.c and huff_dec.c, for   *)
(* every geometry, address, trace, number of people, team, code and input,   *)
(* and about tarc.c and tarx.c, for every tree, everything that happens to   *)
(* it while tarc runs, and every place the archive may be cut: each by an    *)
(* inductive invariant of its own.  The programs do not interact: one module *)
(* proves about all.                                                         *)
EXTENDS Programs, Tar, FiniteSetTheorems, SequenceTheorems, TLAPS

-----------------------------------------------------------------------------
(* cache_sim.c *)

\* A quotient and its remainder.
LEMMA Division ==
    ASSUME NEW a \in Nat, NEW n \in Nat \ {0}
    PROVE  a \div n \in Nat /\ a % n \in 0 .. n - 1 /\ a = n * (a \div n) + (a % n)
OBVIOUS

\* There are no others.
LEMMA DivisionIsUnique ==
    ASSUME NEW n \in Nat \ {0}, NEW q \in Nat, NEW r \in 0 .. n - 1, NEW a \in Nat, a = n * q + r
    PROVE  a \div n = q /\ a % n = r
<1> DEFINE p == a \div n
<1>1. p \in Nat /\ a % n \in 0 .. n - 1 /\ a = n * p + (a % n)
  BY Division
<1>2. n * (p - q) = r - (a % n)
  BY <1>1
<1>3. ~(p - q >= 1) /\ ~(p - q <= -1)
  BY <1>1, <1>2
<1> QED
  BY <1>1, <1>2, <1>3

\* Dividing twice is dividing by the product.
LEMMA DivideTwice ==
    ASSUME NEW a \in Nat, NEW s \in Nat \ {0}, NEW t \in Nat \ {0}
    PROVE  a \div (s * t) = (a \div s) \div t
<1> DEFINE q == a \div s
           r == a % s
           p == q \div t
           u == q % t
<1>1. q \in Nat /\ r \in 0 .. s - 1 /\ a = s * q + r
  BY Division
<1>2. p \in Nat /\ u \in 0 .. t - 1 /\ q = t * p + u
  BY <1>1, Division
<1> HIDE DEF q, r, p, u
<1>3. s * q = s * (t * p) + s * u /\ s * (t * p) = (s * t) * p
  BY <1>1, <1>2
<1>4. s * u + r >= 0 /\ s * (u + 1) <= s * t /\ s * (u + 1) = s * u + s
  BY <1>1, <1>2
<1>5. s * u + r \in 0 .. s * t - 1
  BY <1>1, <1>2, <1>4
<1>6. a = (s * t) * p + (s * u + r)
  BY <1>1, <1>2, <1>3
<1>7. s * t \in Nat \ {0}
  BY <1>1
<1>8. a \div (s * t) = p
  BY <1>5, <1>6, <1>7, <1>2, DivisionIsUnique
<1> QED
  BY <1>8 DEF p, q

\* The arguments of a run.
GoodArgs == args \in [sets : Nat \ {0}, blocks : Nat \ {0}, size : Nat \ {0}, prefetch : BOOLEAN]

\* An address has a line, a set and a tag, and the line is what the set and the tag say.
LEMMA SetAndTag ==
    ASSUME GoodArgs, NEW a \in Nat
    PROVE  /\ C!LineOf(a) \in Nat /\ C!SetOf(a) \in 0 .. args.sets - 1 /\ C!TagOf(a) \in Nat
           /\ C!LineOf(a) = args.sets * C!TagOf(a) + C!SetOf(a)
<1> DEFINE l == C!LineOf(a)
<1>1. args.sets \in Nat \ {0} /\ args.size \in Nat \ {0}
  BY DEF GoodArgs
<1>2. l \in Nat /\ l = a \div args.size
  BY <1>1, Division DEF C!LineOf
<1>3. C!TagOf(a) = l \div args.sets
  BY <1>1, <1>2, DivideTwice DEF C!TagOf
<1>4. C!SetOf(a) = l % args.sets
  BY <1>2 DEF C!SetOf
<1> HIDE DEF l
<1>5. l \div args.sets \in Nat /\ l % args.sets \in 0 .. args.sets - 1
      /\ l = args.sets * (l \div args.sets) + (l % args.sets)
  BY <1>1, <1>2, Division
<1> QED
  BY <1>2, <1>3, <1>4, <1>5 DEF l

\* Two addresses are in one line if and only if they have the same set and tag.
LEMMA SameLine ==
    ASSUME GoodArgs, NEW a \in Nat, NEW b \in Nat
    PROVE  C!LineOf(a) = C!LineOf(b) <=> C!SetOf(a) = C!SetOf(b) /\ C!TagOf(a) = C!TagOf(b)
<1>1. args.sets \in Nat \ {0} /\ args.size \in Nat \ {0}
  BY DEF GoodArgs
<1>2. ASSUME C!LineOf(a) = C!LineOf(b)
      PROVE  C!SetOf(a) = C!SetOf(b) /\ C!TagOf(a) = C!TagOf(b)
  BY <1>1, <1>2, DivideTwice DEF C!SetOf, C!TagOf, C!LineOf
<1>3. ASSUME C!SetOf(a) = C!SetOf(b), C!TagOf(a) = C!TagOf(b)
      PROVE  C!LineOf(a) = C!LineOf(b)
  BY <1>3, SetAndTag
<1> QED
  BY <1>2, <1>3

\* The next line is in another set unless there is only one.
LEMMA NextLine ==
    ASSUME GoodArgs, NEW a \in Nat, args.sets > 1
    PROVE  C!SetOf(a + args.size) # C!SetOf(a)
<1> DEFINE s == args.size
           n == args.sets
           q == a \div s
           r == a % s
<1>1. n \in Nat \ {0} /\ s \in Nat \ {0}
  BY DEF GoodArgs
<1>2. q \in Nat /\ r \in 0 .. s - 1 /\ a = s * q + r
  BY <1>1, Division
<1> HIDE DEF s, n, q, r
<1>3. a + s = s * (q + 1) + r
  BY <1>1, <1>2
<1>4. (a + s) \div s = q + 1
  BY <1>1, <1>2, <1>3, DivisionIsUnique
<1>5. ASSUME (q + 1) % n = q % n
      PROVE  FALSE
  <2>1. q \div n \in Nat /\ q % n \in 0 .. n - 1 /\ q = n * (q \div n) + (q % n)
    BY <1>1, <1>2, Division
  <2>2. \A b \in Nat : b \div n \in Nat /\ b = n * (b \div n) + (b % n)
    BY <1>1, Division
  <2> DEFINE x == q \div n
             y == (q + 1) \div n
             m == q % n
  <2>3. x \in Nat /\ y \in Nat /\ m \in Nat /\ q = n * x + m /\ q + 1 = n * y + m
    BY <2>1, <2>2, <1>2, <1>5
  <2> HIDE DEF x, y, m
  <2>4. n * (y - x) = 1
    BY <2>3, <1>1, <1>2
  <2>5. n > 1
    BY DEF n
  <2>6. ASSUME y - x >= 1
        PROVE  FALSE
    <3>1. n * (y - x) >= n
      BY <2>3, <2>6, <1>1
    <3> QED
      BY <3>1, <2>4, <2>5, <1>1
  <2>7. ~(y - x <= 0)
    BY <2>3, <2>4, <1>1
  <2> QED
    BY <2>3, <2>6, <2>7
<1> QED
  BY <1>4, <1>5 DEF C!SetOf, s, n, q

\* The blocks of a set are in the cache, and those of different sets apart.
LEMMA BlocksOfSets ==
    ASSUME GoodArgs, NEW s \in 0 .. args.sets - 1
    PROVE  /\ C!BlocksOf(s) \subseteq 0 .. args.sets * args.blocks - 1
           /\ s * args.blocks \in C!BlocksOf(s)
           /\ \A t \in 0 .. args.sets - 1 : C!BlocksOf(s) \cap C!BlocksOf(t) # {} => s = t
           /\ IsFiniteSet(C!BlocksOf(s)) /\ Cardinality(C!BlocksOf(s)) = args.blocks
<1> DEFINE n == args.sets
           k == args.blocks
<1>1. n \in Nat \ {0} /\ k \in Nat \ {0}
  BY DEF GoodArgs
<1>2. s \in Nat /\ s <= n - 1
  BY <1>1
<1> HIDE DEF n, k
<1>3. C!BlocksOf(s) = s * k .. s * k + (k - 1)
  <2>1. \A i \in 0 .. k - 1 : s * k + i \in s * k .. s * k + (k - 1)
    BY <1>1, <1>2
  <2>2. \A b \in s * k .. s * k + (k - 1) : b - s * k \in 0 .. k - 1 /\ b = s * k + (b - s * k)
    BY <1>1, <1>2
  <2> QED
    BY <2>1, <2>2 DEF C!BlocksOf, k
<1>4. (s + 1) * k <= n * k /\ (s + 1) * k = s * k + k
  BY <1>1, <1>2
<1>5. s * k \in Nat /\ n * k \in Nat
  BY <1>1, <1>2
<1>6. C!BlocksOf(s) \subseteq 0 .. n * k - 1 /\ s * k \in C!BlocksOf(s)
  BY <1>1, <1>3, <1>4, <1>5
<1>7. ASSUME NEW t \in 0 .. n - 1, NEW b \in C!BlocksOf(s), b \in C!BlocksOf(t)
      PROVE  s = t
  <2>1. PICK i \in 0 .. k - 1 : b = s * k + i
    BY <1>7 DEF C!BlocksOf, k
  <2>2. PICK j \in 0 .. k - 1 : b = t * k + j
    BY <1>7 DEF C!BlocksOf, k
  <2>3. t \in Nat
    BY <1>1
  <2>4. (s - t) * k = j - i
    BY <2>1, <2>2, <2>3, <1>1, <1>2
  <2>5. ~(s - t >= 1) /\ ~(s - t <= -1)
    BY <2>1, <2>2, <2>3, <2>4, <1>1, <1>2
  <2> QED
    BY <2>5, <2>3, <1>2
<1>8. IsFiniteSet(C!BlocksOf(s)) /\ Cardinality(C!BlocksOf(s)) = k
  BY <1>1, <1>3, <1>5, FS_Interval
<1> QED
  BY <1>6, <1>7, <1>8 DEF n, k

\* A set of numbers that is not empty has a least member.
LEMMA LeastNumber ==
    ASSUME NEW S \in SUBSET Nat, S # {}
    PROVE  \E m \in S : \A k \in S : m <= k
<1>1. PICK m \in S : \A k \in S : ~(<<k, m>> \in OpToRel(<, Nat))
  <2> HIDE DEF OpToRel
  <2> QED
    BY NatLessThanWellFounded, WFMin
<1>2. \A k \in S : ~(k < m)
  BY <1>1 DEF OpToRel
<1> QED
  BY <1>2

\* One that has a bound has a greatest member.
LEMMA GreatestNumber ==
    ASSUME NEW S \in SUBSET Nat, S # {}, NEW n \in Nat, \A k \in S : k <= n
    PROVE  \E m \in S : \A k \in S : k <= m
<1> DEFINE T == {n - k : k \in S}
<1>1. \A k \in S : k \in Nat /\ n - k \in Nat
  OBVIOUS
<1> T \in SUBSET Nat /\ T # {}
  BY <1>1
<1>2. PICK t \in T : \A u \in T : t <= u
  BY LeastNumber
<1>3. PICK m \in S : t = n - m
  BY <1>2
<1>4. ASSUME NEW k \in S
      PROVE  k <= m
  <2>1. k \in Nat /\ m \in Nat /\ n - m <= n - k
    BY <1>2, <1>3
  <2> QED
    BY <2>1
<1> QED
  BY <1>4

\* Min() and Max() of such sets.
LEMMA MinAndMax ==
    ASSUME NEW S \in SUBSET Nat, S # {}
    PROVE  /\ C!Min(S) \in S /\ \A k \in S : C!Min(S) <= k
           /\ \A n \in Nat : (\A k \in S : k <= n) => C!Max(S) \in S /\ \A k \in S : k <= C!Max(S)
<1>1. C!Min(S) \in S /\ \A k \in S : C!Min(S) <= k
  <2>1. \E m \in S : \A k \in S : m <= k
    BY LeastNumber
  <2> QED
    BY <2>1 DEF C!Min
<1>2. ASSUME NEW n \in Nat, \A k \in S : k <= n
      PROVE  C!Max(S) \in S /\ \A k \in S : k <= C!Max(S)
  <2>1. \E m \in S : \A k \in S : m >= k
    BY <1>2, GreatestNumber
  <2>2. C!Max(S) \in S /\ \A k \in S : C!Max(S) >= k
    BY <2>1 DEF C!Max
  <2> QED
    BY <2>2
<1> QED
  BY <1>1, <1>2

\* The cache c up to the access n: dates are not later, and no line has two blocks.
CacheOk(c, n) ==
    /\ c \in [0 .. args.sets * args.blocks - 1 -> C!Block]
    /\ \A b \in DOMAIN c : c[b].date <= n
    /\ \A s \in 0 .. args.sets - 1 : \A b, d \in C!BlocksOf(s) :
          c[b].valid /\ c[d].valid /\ c[b].tag = c[d].tag => b = d

\* The block that is replaced is one of the set, and empty, or as old as any.
LEMMA VictimIsOldest ==
    ASSUME GoodArgs, NEW n \in Nat, NEW c, CacheOk(c, n), NEW s \in 0 .. args.sets - 1
    PROVE  LET v == C!Victim(c, s)
           IN  /\ v \in C!BlocksOf(s) /\ v \in DOMAIN c
               /\ c[v].valid => \A b \in C!BlocksOf(s) : c[b].valid /\ c[v].date <= c[b].date
<1> DEFINE S == C!BlocksOf(s)
           empty == {b \in S : ~c[b].valid}
           dates == {c[b].date : b \in S}
           oldest == C!Min(dates)
           v == C!Victim(c, s)
<1>1. S \subseteq 0 .. args.sets * args.blocks - 1 /\ S # {}
  BY BlocksOfSets
<1>2. S \subseteq Nat
  BY <1>1
<1>3. S \subseteq DOMAIN c /\ \A b \in S : c[b] \in C!Block
  BY <1>1 DEF CacheOk
<1>4. \A b \in S : c[b].date \in Nat
  BY <1>3 DEF C!Block
<1>5. CASE empty # {}
  <2>1. v = C!Min(empty)
    BY <1>5 DEF C!Victim
  <2>2. empty \in SUBSET Nat
    BY <1>2
  <2> HIDE DEF empty
  <2>3. v \in empty
    BY <1>5, <2>1, <2>2, MinAndMax
  <2> QED
    BY <2>3, <1>3 DEF empty
<1>6. CASE empty = {}
  <2> DEFINE olds == {b \in S : c[b].date = oldest}
  <2>1. v = C!Min(olds)
    BY <1>6 DEF C!Victim
  <2>2. dates \in SUBSET Nat /\ dates # {}
    BY <1>1, <1>4
  <2>3. oldest \in dates /\ \A d \in dates : oldest <= d
    <3> HIDE DEF dates
    <3> QED
      BY <2>2, MinAndMax
  <2>4. olds # {} /\ olds \in SUBSET Nat
    BY <2>3, <1>2
  <2>5. v \in olds
    <3> HIDE DEF olds, v
    <3> QED
      BY <2>1, <2>4, MinAndMax
  <2>6. c[v].date = oldest /\ v \in S
    BY <2>5
  <2>7. \A b \in S : c[v].date <= c[b].date
    BY <2>3, <2>6
  <2>8. \A b \in S : c[b].valid
    BY <1>6
  <2> QED
    BY <2>6, <2>7, <2>8, <1>3
<1> QED
  BY <1>5, <1>6

\* The line of an address that has none gets a block, in place of a block that is empty or
\* as old as any of its set.
LEMMA FilledIsOk ==
    ASSUME GoodArgs, NEW n \in Nat, NEW c, CacheOk(c, n), NEW a \in Nat, ~C!Hit(c, a)
    PROVE  LET v == C!Victim(c, C!SetOf(a))
           IN  /\ v \in C!BlocksOf(C!SetOf(a)) /\ v \in DOMAIN c
               /\ C!Filled(c, a, n) = [c EXCEPT ![v] = [tag |-> C!TagOf(a), date |-> n, valid |-> TRUE]]
               /\ CacheOk(C!Filled(c, a, n), n)
<1> DEFINE s == C!SetOf(a)
           t == C!TagOf(a)
           v == C!Victim(c, s)
           d == C!Filled(c, a, n)
<1>1. s \in 0 .. args.sets - 1 /\ t \in Nat
  BY SetAndTag
<1>2. v \in C!BlocksOf(s) /\ v \in DOMAIN c
  BY <1>1, VictimIsOldest
<1>3. d = [c EXCEPT ![v] = [tag |-> t, date |-> n, valid |-> TRUE]]
  BY DEF C!Filled
<1>4. \A b \in C!BlocksOf(s) : ~(c[b].valid /\ c[b].tag = t)
  BY DEF C!Hit, C!Holding
<1> HIDE DEF v, d, t, s
<1>5. d \in [0 .. args.sets * args.blocks - 1 -> C!Block] /\ DOMAIN d = DOMAIN c
  BY <1>1, <1>2, <1>3 DEF CacheOk, C!Block
<1>6. d[v].date = n /\ d[v].tag = t /\ \A b \in DOMAIN c : b # v => d[b] = c[b]
  BY <1>2, <1>3 DEF CacheOk
<1>7. \A b \in DOMAIN d : d[b].date <= n
  BY <1>5, <1>6 DEF CacheOk
<1>8. ASSUME NEW r \in 0 .. args.sets - 1, NEW b \in C!BlocksOf(r), NEW e \in C!BlocksOf(r),
             d[b].valid, d[e].valid, d[b].tag = d[e].tag
      PROVE  b = e
  <2>1. b \in DOMAIN c /\ e \in DOMAIN c
    BY <1>8, BlocksOfSets DEF CacheOk
  <2>2. CASE b # v /\ e # v
    BY <2>1, <2>2, <1>6, <1>8 DEF CacheOk
  <2>3. ASSUME b = v \/ e = v
        PROVE  r = s
    BY <2>3, <1>1, <1>2, <1>8, BlocksOfSets
  <2>4. CASE b = v /\ e # v
    BY <2>1, <2>3, <2>4, <1>4, <1>6, <1>8
  <2>5. CASE b # v /\ e = v
    BY <2>1, <2>3, <2>5, <1>4, <1>6, <1>8
  <2> QED
    BY <2>2, <2>4, <2>5
<1>9. CacheOk(d, n)
  BY <1>5, <1>7, <1>8 DEF CacheOk
<1> QED
  BY <1>2, <1>3, <1>9 DEF v, d, t, s

\* An access leaves the line of the address with a block that nobody else is as young as.
LEMMA AccessedIsOk ==
    ASSUME GoodArgs, NEW n \in Nat, NEW c, CacheOk(c, n), NEW a \in Nat
    PROVE  LET d == C!Accessed(c, a, n + 1)
           IN  /\ CacheOk(d, n + 1)
               /\ \E v \in C!BlocksOf(C!SetOf(a)) :
                     /\ v \in DOMAIN d
                     /\ d[v] = [tag |-> C!TagOf(a), date |-> n + 1, valid |-> TRUE]
                     /\ C!Hit(c, a) => c[v].valid /\ c[v].tag = C!TagOf(a)
                     /\ ~C!Hit(c, a) => v = C!Victim(c, C!SetOf(a))
                     /\ \A b \in DOMAIN d \ {v} : d[b] = c[b]
<1> DEFINE s == C!SetOf(a)
           t == C!TagOf(a)
           d == C!Accessed(c, a, n + 1)
<1>1. s \in 0 .. args.sets - 1 /\ t \in Nat
  BY SetAndTag
<1>2. CacheOk(c, n + 1)
  BY DEF CacheOk, C!Block
<1>3. CASE C!Hit(c, a)
  <2> DEFINE v == C!Min(C!Holding(c, s, t))
  <2>1. C!Holding(c, s, t) # {} /\ C!Holding(c, s, t) \in SUBSET Nat
    BY <1>1, <1>3, BlocksOfSets DEF C!Hit, C!Holding
  <2>2. v \in C!Holding(c, s, t)
    BY <2>1, MinAndMax
  <2>3. d = [c EXCEPT ![v].date = n + 1]
    BY <1>3 DEF C!Accessed
  <2>4. v \in C!BlocksOf(s) /\ c[v].valid /\ c[v].tag = t
    BY <2>2 DEF C!Holding
  <2>5. v \in DOMAIN c
    BY <2>4, <1>1, BlocksOfSets DEF CacheOk
  <2> HIDE DEF v, d, s, t
  <2>6. c[v] \in C!Block
    BY <2>5 DEF CacheOk
  <2>7. d[v] = [c[v] EXCEPT !.date = n + 1]
    BY <2>3, <2>5
  <2>8. d[v] = [tag |-> t, date |-> n + 1, valid |-> TRUE]
    BY <2>4, <2>6, <2>7 DEF C!Block
  <2>9. DOMAIN d = DOMAIN c /\ \A b \in DOMAIN d \ {v} : d[b] = c[b]
    BY <2>3, <2>5
  <2>10. d \in [0 .. args.sets * args.blocks - 1 -> C!Block]
    BY <2>3, <2>5, <2>7, <2>8, <2>9, <1>1 DEF CacheOk, C!Block
  <2>11. \A b \in DOMAIN d : d[b].date <= n + 1 /\ d[b].valid = c[b].valid /\ d[b].tag = c[b].tag
    <3>1. d[v].date <= n + 1 /\ d[v].valid = c[v].valid /\ d[v].tag = c[v].tag
      BY <2>4, <2>6, <2>8 DEF C!Block
    <3>2. \A b \in DOMAIN d \ {v} : d[b].date <= n + 1 /\ d[b].valid = c[b].valid /\ d[b].tag = c[b].tag
      BY <2>9, <1>2 DEF CacheOk
    <3> QED
      BY <3>1, <3>2
  <2>12. \A r \in 0 .. args.sets - 1 : C!BlocksOf(r) \subseteq DOMAIN d
    BY <2>9, BlocksOfSets DEF CacheOk
  <2>13. CacheOk(d, n + 1)
    BY <2>10, <2>11, <2>12 DEF CacheOk
  <2> QED
    BY <1>3, <2>4, <2>5, <2>8, <2>9, <2>13 DEF d, s, t
<1>4. CASE ~C!Hit(c, a)
  <2> DEFINE v == C!Victim(c, s)
  <2>1. d = C!Filled(c, a, n + 1)
    BY <1>4 DEF C!Accessed
  <2>2. /\ v \in C!BlocksOf(s) /\ v \in DOMAIN c
        /\ d = [c EXCEPT ![v] = [tag |-> t, date |-> n + 1, valid |-> TRUE]]
        /\ CacheOk(d, n + 1)
    <3>1. \A m \in Nat : CacheOk(c, m) =>
             /\ v \in C!BlocksOf(s) /\ v \in DOMAIN c
             /\ C!Filled(c, a, m) = [c EXCEPT ![v] = [tag |-> t, date |-> m, valid |-> TRUE]]
             /\ CacheOk(C!Filled(c, a, m), m)
      BY <1>4, FilledIsOk
    <3>2. n + 1 \in Nat
      OBVIOUS
    <3> HIDE DEF v, d, s, t
    <3> QED
      BY <3>1, <3>2, <2>1, <1>2, Zenon
  <2>3. DOMAIN d = DOMAIN c
    BY <2>2
  <2>4. d[v] = [tag |-> t, date |-> n + 1, valid |-> TRUE] /\ \A b \in DOMAIN d \ {v} : d[b] = c[b]
    BY <2>2, <2>3
  <2> QED
    BY <1>4, <2>2, <2>3, <2>4
<1> QED
  BY <1>3, <1>4

\* Without prefetch: the date of a block is the last access to its line, t being the trace.
LastUsed(c, t) ==
    \A s \in 0 .. args.sets - 1 : \A b \in C!BlocksOf(s) : c[b].valid =>
        /\ c[b].date \in DOMAIN t
        /\ C!SetOf(t[c[b].date]) = s /\ C!TagOf(t[c[b].date]) = c[b].tag
        /\ \A j \in DOMAIN t : j > c[b].date => ~(C!SetOf(t[j]) = s /\ C!TagOf(t[j]) = c[b].tag)

\* A line that was accessed and has no block has lost it to lines accessed since.
Evicted(c, t) ==
    \A j \in DOMAIN t : ~C!Hit(c, t[j]) =>
        \A b \in C!BlocksOf(C!SetOf(t[j])) : c[b].valid /\ c[b].date > j

\* What an access does to both.
LEMMA AccessKeepsDates ==
    ASSUME GoodArgs, NEW t \in Seq(Nat), NEW a \in Nat, NEW c,
           CacheOk(c, Len(t)), LastUsed(c, t), Evicted(c, t)
    PROVE  LET d == C!Accessed(c, a, Len(t) + 1)
           IN  LastUsed(d, Append(t, a)) /\ Evicted(d, Append(t, a))
<1> DEFINE n == Len(t)
           d == C!Accessed(c, a, n + 1)
           u == Append(t, a)
           A == C!SetOf(a)
           T == C!TagOf(a)
<1>1. /\ n \in Nat /\ u \in Seq(Nat) /\ DOMAIN t = 1 .. n /\ DOMAIN u = 1 .. n + 1 /\ u[n + 1] = a
      /\ \A j \in 1 .. n : u[j] = t[j] /\ t[j] \in Nat
  OBVIOUS
<1>2. PICK v \in C!BlocksOf(A) :
         /\ v \in DOMAIN d
         /\ d[v] = [tag |-> T, date |-> n + 1, valid |-> TRUE]
         /\ C!Hit(c, a) => c[v].valid /\ c[v].tag = T
         /\ ~C!Hit(c, a) => v = C!Victim(c, A)
         /\ \A b \in DOMAIN d \ {v} : d[b] = c[b]
  BY <1>1, AccessedIsOk
<1>3. CacheOk(d, n + 1)
  BY <1>1, AccessedIsOk
<1>4. A \in 0 .. args.sets - 1 /\ T \in Nat
  BY SetAndTag
<1>5. DOMAIN d = DOMAIN c /\ \A s \in 0 .. args.sets - 1 : C!BlocksOf(s) \subseteq DOMAIN d
  BY <1>3, BlocksOfSets DEF CacheOk
<1> HIDE DEF n, d, u, A, T
<1>6. ASSUME NEW s \in 0 .. args.sets - 1, NEW b \in C!BlocksOf(s), d[b].valid
      PROVE  /\ d[b].date \in DOMAIN u
             /\ C!SetOf(u[d[b].date]) = s /\ C!TagOf(u[d[b].date]) = d[b].tag
             /\ \A j \in DOMAIN u : j > d[b].date => ~(C!SetOf(u[j]) = s /\ C!TagOf(u[j]) = d[b].tag)
  <2>1. CASE b = v
    <3>1. s = A
      BY <1>2, <1>4, <1>6, <2>1, BlocksOfSets
    <3> QED
      BY <1>1, <1>2, <2>1, <3>1 DEF A, T
  <2>2. CASE b # v
    <3>1. d[b] = c[b]
      BY <1>2, <1>5, <1>6, <2>2
    <3>2. /\ c[b].date \in DOMAIN t
          /\ C!SetOf(t[c[b].date]) = s /\ C!TagOf(t[c[b].date]) = c[b].tag
          /\ \A j \in DOMAIN t : j > c[b].date => ~(C!SetOf(t[j]) = s /\ C!TagOf(t[j]) = c[b].tag)
      BY <1>6, <3>1 DEF LastUsed
    <3>3. ASSUME s = A, c[b].tag = T
          PROVE  FALSE
      <4>1. d[v].valid /\ d[v].tag = T
        BY <1>2
      <4> QED
        BY <1>2, <1>3, <1>4, <1>6, <2>2, <3>1, <3>3, <4>1 DEF CacheOk
    <3>4. \A j \in DOMAIN u : j = n + 1 \/ j \in DOMAIN t
      BY <1>1
    <3> QED
      BY <1>1, <3>1, <3>2, <3>3, <3>4 DEF A, T
  <2> QED
    BY <2>1, <2>2
<1>7. ASSUME NEW j \in DOMAIN u, ~C!Hit(d, u[j]),
             NEW b \in C!BlocksOf(C!SetOf(u[j]))
      PROVE  d[b].valid /\ d[b].date > j
  <2> DEFINE s == C!SetOf(u[j])
  <2>1. j # n + 1
    <3>1. v \in C!Holding(d, A, T)
      BY <1>2 DEF C!Holding
    <3> QED
      BY <1>1, <1>7, <3>1 DEF C!Hit, A, T
  <2>2. j \in DOMAIN t /\ u[j] = t[j] /\ t[j] \in Nat /\ j <= n
    BY <1>1, <2>1
  <2>3. s \in 0 .. args.sets - 1
    BY <2>2, SetAndTag
  <2>4. b \in C!BlocksOf(s) /\ b \in DOMAIN d /\ s = C!SetOf(t[j])
    BY <1>5, <1>7, <2>2, <2>3
  <2> HIDE DEF s
  <2>5. CASE ~C!Hit(c, t[j])
    <3>1. c[b].valid /\ c[b].date > j
      BY <2>2, <2>4, <2>5 DEF Evicted
    <3>2. CASE b = v
      BY <1>2, <1>1, <2>2, <3>2
    <3>3. CASE b # v
      BY <1>2, <2>4, <3>1, <3>3
    <3> QED
      BY <3>2, <3>3
  <2>6. CASE C!Hit(c, t[j])
    <3>1. PICK e \in C!BlocksOf(s) : c[e].valid /\ c[e].tag = C!TagOf(t[j])
      BY <2>4, <2>6 DEF C!Hit, C!Holding
    <3>2. e = v
      <4>1. SUFFICES ASSUME e # v PROVE FALSE
        OBVIOUS
      <4>2. d[e] = c[e]
        BY <1>2, <1>5, <2>3, <3>1, <4>1
      <4>3. e \in C!Holding(d, s, C!TagOf(t[j]))
        BY <3>1, <4>2 DEF C!Holding
      <4> QED
        BY <1>7, <2>2, <2>4, <4>3 DEF C!Hit
    <3>3. s = A
      BY <1>2, <1>4, <2>3, <3>1, <3>2, BlocksOfSets
    <3>4. ~C!Hit(c, a)
      <4>1. SUFFICES ASSUME C!Hit(c, a) PROVE FALSE
        OBVIOUS
      <4>2. C!TagOf(t[j]) = T
        BY <1>2, <3>1, <3>2, <4>1
      <4>3. v \in C!Holding(d, s, C!TagOf(t[j]))
        BY <1>2, <3>1, <3>2, <4>2 DEF C!Holding
      <4> QED
        BY <1>7, <2>2, <2>4, <4>3 DEF C!Hit
    <3>5. v = C!Victim(c, s)
      BY <1>2, <3>3, <3>4
    <3>6. \A x \in C!BlocksOf(s) : c[x].valid /\ c[v].date <= c[x].date
      BY <1>1, <2>3, <3>1, <3>2, <3>5, VictimIsOldest DEF n
    <3>7. j <= c[v].date /\ c[v].date \in DOMAIN t
      BY <1>1, <2>2, <2>3, <2>4, <3>1, <3>2 DEF LastUsed
    <3>8. CASE b = v
      BY <1>1, <1>2, <2>2, <3>8
    <3>9. CASE b # v
      <4>1. d[b] = c[b] /\ c[b].valid
        BY <1>2, <2>4, <3>6, <3>9
      <4>2. c[b].date # c[v].date
        <5>1. SUFFICES ASSUME c[b].date = c[v].date PROVE FALSE
          OBVIOUS
        <5>2. c[b].tag = c[v].tag
          BY <2>3, <2>4, <3>1, <3>2, <4>1, <5>1 DEF LastUsed
        <5> QED
          BY <2>3, <2>4, <3>1, <3>2, <3>9, <4>1, <5>2 DEF CacheOk
      <4>3. c[b].date \in DOMAIN t
        BY <2>3, <2>4, <4>1 DEF LastUsed
      <4> QED
        BY <1>1, <2>4, <3>6, <3>7, <4>1, <4>2, <4>3
    <3> QED
      BY <3>8, <3>9
  <2> QED
    BY <2>5, <2>6
<1>8. LastUsed(d, u)
  BY <1>6 DEF LastUsed
<1>9. Evicted(d, u)
  BY <1>7 DEF Evicted
<1> QED
  BY <1>8, <1>9 DEF d, u, n

\* C!LinesSince() of a trace t.
LinesSince(t, k) ==
    LET before == {j \in 1 .. k - 1 : C!LineOf(t[j]) = C!LineOf(t[k])}
    IN  IF before = {} THEN {}
        ELSE {C!LineOf(t[j]) : j \in {j \in C!Max(before) .. k - 1 : C!SetOf(t[j]) = C!SetOf(t[k])}}

\* A function that takes no value twice tells that there are not more of the one than of the other.
LEMMA NotMore ==
    ASSUME NEW S, NEW T, IsFiniteSet(T), NEW f \in [S -> T],
           \A x, y \in S : f[x] = f[y] => x = y
    PROVE  IsFiniteSet(S) /\ Cardinality(S) <= Cardinality(T)
<1>1. f \in Injection(S, T)
  BY DEF Injection, IsInjective
<1> QED
  BY <1>1, FS_Injection

\* An access is a hit if and only if, since the last one to its line, not more lines of its set
\* were accessed than a set has blocks.
LEMMA HitByDistance ==
    ASSUME GoodArgs, NEW t \in Seq(Nat), NEW a \in Nat, NEW c,
           CacheOk(c, Len(t)), LastUsed(c, t), Evicted(c, t)
    PROVE  C!Hit(c, a) <=> Cardinality(LinesSince(Append(t, a), Len(t) + 1)) \in 1 .. args.blocks
<1> DEFINE n == Len(t)
           u == Append(t, a)
           A == C!SetOf(a)
           T == C!TagOf(a)
           before == {j \in 1 .. (n + 1) - 1 : C!LineOf(u[j]) = C!LineOf(u[n + 1])}
           m == C!Max(before)
           since == {j \in m .. (n + 1) - 1 : C!SetOf(u[j]) = C!SetOf(u[n + 1])}
           L == {C!LineOf(u[j]) : j \in since}
           B == C!BlocksOf(A)
<1>1. /\ n \in Nat /\ (n + 1) - 1 = n /\ DOMAIN t = 1 .. n /\ u[n + 1] = a
      /\ \A j \in 1 .. n : u[j] = t[j] /\ t[j] \in Nat
  OBVIOUS
<1>2. LinesSince(u, n + 1) = IF before = {} THEN {} ELSE L
  BY DEF LinesSince
<1>3. A \in 0 .. args.sets - 1 /\ T \in Nat
  BY SetAndTag
<1>4. before \in SUBSET Nat /\ \A j \in before : j <= n
  BY <1>1
<1>5. \A j \in before : j \in DOMAIN t /\ C!SetOf(t[j]) = A /\ C!TagOf(t[j]) = T
  BY <1>1, SameLine
<1>6. \A j \in 1 .. n : C!SetOf(t[j]) = A /\ C!TagOf(t[j]) = T => j \in before
  BY <1>1, SameLine
<1>7. args.blocks \in Nat \ {0} /\ IsFiniteSet(B) /\ Cardinality(B) = args.blocks
  BY <1>3, BlocksOfSets DEF GoodArgs
<1>8. CASE before = {}
  <2>1. ~C!Hit(c, a)
    <3>1. SUFFICES ASSUME C!Hit(c, a) PROVE FALSE
      OBVIOUS
    <3>2. PICK b \in B : c[b].valid /\ c[b].tag = T
      BY <3>1 DEF C!Hit, C!Holding
    <3>3. c[b].date \in DOMAIN t /\ C!SetOf(t[c[b].date]) = A /\ C!TagOf(t[c[b].date]) = T
      BY <1>3, <3>2 DEF LastUsed
    <3> QED
      BY <1>1, <1>6, <1>8, <3>3
  <2>2. Cardinality(LinesSince(u, n + 1)) = 0
    BY <1>2, <1>8, FS_EmptySet
  <2> QED
    BY <2>1, <2>2
<1>9. CASE before # {}
  <2>1. m \in before /\ \A j \in before : j <= m
    <3> HIDE DEF before
    <3> QED
      BY <1>1, <1>4, <1>9, MinAndMax
  <2>2. m \in 1 .. n /\ C!SetOf(t[m]) = A /\ C!TagOf(t[m]) = T
    BY <1>1, <1>5, <2>1
  <2> HIDE DEF m, before
  <2>3. \A j \in since : j \in 1 .. n /\ j >= m /\ u[j] = t[j] /\ t[j] \in Nat /\ C!SetOf(t[j]) = A
    BY <1>1, <2>2
  <2>4. \A j \in 1 .. n : j >= m /\ C!SetOf(t[j]) = A => j \in since
    BY <1>1, <2>2
  <2>5. m \in since
    BY <2>2, <2>4
  <2> HIDE DEF since
  <2>6. C!LineOf(t[m]) \in L
    BY <2>3, <2>5
  <2>7. \A l \in L : \E j \in since : l = C!LineOf(t[j])
    BY <2>3
  <2>8. \A j \in since : C!LineOf(t[j]) \in L
    BY <2>3
  <2> HIDE DEF L
  <2>9. CASE C!Hit(c, a)
    <3>1. PICK b0 \in B : c[b0].valid /\ c[b0].tag = T
      BY <2>9 DEF C!Hit, C!Holding
    <3>2. c[b0].date = m
      <4>1. /\ c[b0].date \in DOMAIN t /\ C!SetOf(t[c[b0].date]) = A /\ C!TagOf(t[c[b0].date]) = T
            /\ \A j \in DOMAIN t : j > c[b0].date => ~(C!SetOf(t[j]) = A /\ C!TagOf(t[j]) = T)
        BY <1>3, <3>1 DEF LastUsed
      <4>2. c[b0].date \in before
        BY <1>1, <1>6, <4>1
      <4>3. c[b0].date <= m /\ ~(m > c[b0].date) /\ c[b0].date \in Nat
        BY <1>1, <2>1, <2>2, <4>1, <4>2
      <4> QED
        BY <2>2, <4>3
    <3>3. \A l \in L : \E b \in B : \E j \in since : l = C!LineOf(t[j]) /\ c[b].valid /\ c[b].tag = C!TagOf(t[j])
      <4>1. SUFFICES ASSUME NEW j \in since
                     PROVE  C!Hit(c, t[j])
        BY <2>3, <2>7, <4>1 DEF C!Hit, C!Holding
      <4>2. SUFFICES ASSUME ~C!Hit(c, t[j]) PROVE FALSE
        OBVIOUS
      <4>3. c[b0].date > j
        BY <1>1, <2>3, <3>1, <4>2 DEF Evicted
      <4> QED
        BY <2>2, <2>3, <3>2, <4>3
    <3> DEFINE f == [l \in L |-> CHOOSE b \in B : \E j \in since :
                                    l = C!LineOf(t[j]) /\ c[b].valid /\ c[b].tag = C!TagOf(t[j])]
    <3>4. \A l \in L : /\ f[l] \in B
                       /\ \E j \in since : l = C!LineOf(t[j]) /\ c[f[l]].valid /\ c[f[l]].tag = C!TagOf(t[j])
      BY <3>3
    <3>5. f \in [L -> B]
      BY <3>4
    <3> HIDE DEF f
    <3>6. ASSUME NEW x \in L, NEW y \in L, f[x] = f[y]
          PROVE  x = y
      <4>1. PICK i \in since : x = C!LineOf(t[i]) /\ c[f[x]].tag = C!TagOf(t[i])
        BY <3>4
      <4>2. PICK j \in since : y = C!LineOf(t[j]) /\ c[f[y]].tag = C!TagOf(t[j])
        BY <3>4
      <4> QED
        BY <2>3, <3>6, <4>1, <4>2, SameLine
    <3>7. IsFiniteSet(L) /\ Cardinality(L) <= args.blocks
      BY <1>7, <3>5, <3>6, NotMore
    <3>8. Cardinality(L) \in Nat /\ Cardinality(L) # 0
      BY <2>6, <3>7, FS_CardinalityType, FS_EmptySet
    <3> QED
      BY <1>2, <1>7, <1>9, <2>9, <3>7, <3>8
  <2>10. CASE ~C!Hit(c, a)
    <3>1. ~C!Hit(c, t[m])
      BY <2>2, <2>10 DEF C!Hit
    <3>2. \A b \in B : c[b].valid /\ c[b].date > m
      BY <1>1, <2>2, <3>1 DEF Evicted
    <3>3. \A b \in B : /\ c[b].date \in since
                       /\ C!SetOf(t[c[b].date]) = A /\ C!TagOf(t[c[b].date]) = c[b].tag
      BY <1>1, <1>3, <2>2, <2>4, <3>2 DEF LastUsed
    <3>4. \A b \in B : c[b].tag # T
      BY <2>10, <3>2 DEF C!Hit, C!Holding
    <3> DEFINE M == L \ {C!LineOf(t[m])}
               f == [b \in B |-> C!LineOf(t[c[b].date])]
    <3>5. ASSUME NEW b \in B
          PROVE  f[b] \in M
      <4>1. t[c[b].date] \in Nat /\ t[m] \in Nat
        BY <1>1, <2>2, <2>3, <3>3
      <4>2. C!LineOf(t[c[b].date]) # C!LineOf(t[m])
        BY <2>2, <3>3, <3>4, <4>1, SameLine
      <4> QED
        BY <2>8, <3>3, <4>2
    <3>6. f \in [B -> M]
      BY <3>5
    <3>7. ASSUME NEW x \in B, NEW y \in B, f[x] = f[y]
          PROVE  x = y
      <4>1. t[c[x].date] \in Nat /\ t[c[y].date] \in Nat
        BY <2>3, <3>3
      <4>2. C!LineOf(t[c[x].date]) = C!LineOf(t[c[y].date])
        BY <3>7
      <4>3. C!TagOf(t[c[x].date]) = C!TagOf(t[c[y].date])
        BY <4>1, <4>2, SameLine
      <4>4. c[x].tag = c[y].tag /\ c[x].valid /\ c[y].valid
        BY <3>2, <3>3, <4>3
      <4> QED
        BY <1>3, <4>4 DEF CacheOk
    <3> HIDE DEF f
    <3>8. ASSUME Cardinality(L) \in 1 .. args.blocks, IsFiniteSet(L)
          PROVE  FALSE
      <4>1. IsFiniteSet(M) /\ Cardinality(M) = Cardinality(L) - 1
        <5>1. \A l : IsFiniteSet(L \ {l}) /\ Cardinality(L \ {l}) = IF l \in L THEN Cardinality(L) - 1 ELSE Cardinality(L)
          BY <3>8, FS_RemoveElement, Zenon
        <5> QED
          BY <2>6, <5>1
      <4>2. Cardinality(B) <= Cardinality(M)
        <5> HIDE DEF M
        <5> QED
          BY <3>6, <3>7, <4>1, NotMore
      <4> QED
        BY <1>7, <3>8, <4>1, <4>2
    <3>9. IsFiniteSet(L)
      <4>1. IsFiniteSet(1 .. n)
        BY <1>1, FS_Interval
      <4> DEFINE g == [l \in L |-> CHOOSE j \in since : l = C!LineOf(t[j])]
      <4>2. \A l \in L : g[l] \in since /\ l = C!LineOf(t[g[l]])
        BY <2>7
      <4>3. g \in [L -> 1 .. n]
        BY <2>3, <4>2
      <4>4. \A x, y \in L : g[x] = g[y] => x = y
        BY <4>2
      <4> HIDE DEF g
      <4> QED
        BY <4>1, <4>3, <4>4, NotMore
    <3> QED
      BY <1>2, <1>9, <2>10, <3>8, <3>9
  <2> QED
    BY <2>9, <2>10
<1> QED
  BY <1>8, <1>9

\* The line prefetched does not take the place of the line accessed, unless there is one block.
LEMMA PrefetchedIsOk ==
    ASSUME GoodArgs, NEW n \in Nat, NEW c, CacheOk(c, n), NEW a \in Nat
    PROVE  LET e == C!Prefetched(C!Accessed(c, a, n + 1), a, n + 1)
           IN  /\ CacheOk(e, n + 1)
               /\ args.sets * args.blocks > 1 => C!Hit(e, a) /\ C!Hit(e, a + args.size)
<1> DEFINE A == C!SetOf(a)
           T == C!TagOf(a)
           next == a + args.size
           d == C!Accessed(c, a, n + 1)
           e == C!Prefetched(d, a, n + 1)
<1>1. PICK v \in C!BlocksOf(A) :
         /\ v \in DOMAIN d /\ d[v] = [tag |-> T, date |-> n + 1, valid |-> TRUE]
         /\ \A b \in DOMAIN d \ {v} : d[b] = c[b]
  BY AccessedIsOk
<1>2. CacheOk(d, n + 1)
  BY AccessedIsOk
<1>3. n + 1 \in Nat /\ next \in Nat
  BY DEF GoodArgs
<1>4. /\ A \in 0 .. args.sets - 1 /\ T \in Nat
      /\ C!SetOf(next) \in 0 .. args.sets - 1 /\ C!TagOf(next) \in Nat
  BY <1>3, SetAndTag
<1> HIDE DEF d
<1>5. C!Hit(d, a)
  BY <1>1 DEF C!Hit, C!Holding
<1>6. CASE C!Hit(d, next)
  <2>1. e = d
    BY <1>6 DEF C!Prefetched
  <2> HIDE DEF e
  <2> QED
    BY <1>2, <1>5, <1>6, <2>1 DEF d, e
<1>7. CASE ~C!Hit(d, next)
  <2> DEFINE w == C!Victim(d, C!SetOf(next))
  <2>1. e = C!Filled(d, next, n + 1)
    BY <1>7 DEF C!Prefetched
  <2>2. \A m \in Nat : CacheOk(d, m) =>
           /\ w \in C!BlocksOf(C!SetOf(next)) /\ w \in DOMAIN d
           /\ C!Filled(d, next, m) = [d EXCEPT ![w] = [tag |-> C!TagOf(next), date |-> m, valid |-> TRUE]]
           /\ CacheOk(C!Filled(d, next, m), m)
    BY <1>3, <1>7, FilledIsOk
  <2> HIDE DEF e, w, A, T, next
  <2>3. /\ w \in C!BlocksOf(C!SetOf(next)) /\ w \in DOMAIN d
        /\ e = [d EXCEPT ![w] = [tag |-> C!TagOf(next), date |-> n + 1, valid |-> TRUE]]
        /\ CacheOk(e, n + 1)
    BY <1>2, <1>3, <2>1, <2>2, Zenon
  <2>4. C!Hit(e, next)
    BY <2>3 DEF C!Hit, C!Holding
  <2>5. ASSUME args.sets * args.blocks > 1
        PROVE  w # v
    <3>1. SUFFICES ASSUME w = v PROVE FALSE
      OBVIOUS
    <3>2. C!SetOf(next) = A
      BY <1>1, <1>4, <2>3, <3>1, BlocksOfSets
    <3>3. args.sets = 1
      <4>1. ~(args.sets > 1)
        BY <3>2, NextLine DEF next, A
      <4> QED
        BY <4>1 DEF GoodArgs
    <3>4. args.blocks > 1 /\ args.blocks \in Nat
      BY <2>5, <3>3 DEF GoodArgs
    <3>5. A = 0
      BY <1>4, <3>3
    <3> DEFINE b == IF v = 0 THEN 1 ELSE 0
    <3>6. b \in C!BlocksOf(A) /\ b # v
      BY <3>4, <3>5 DEF C!BlocksOf
    <3>7. b \in DOMAIN c /\ b \in DOMAIN d /\ c[b] \in C!Block /\ c[b].date <= n
      BY <1>2, <1>4, <3>6, BlocksOfSets DEF CacheOk
    <3>8. d[b] = c[b]
      BY <1>1, <3>6, <3>7
    <3>9. d[v].date <= d[b].date
      BY <1>1, <1>2, <1>3, <1>4, <3>1, <3>2, <3>6, VictimIsOldest DEF w
    <3> QED
      BY <1>1, <3>7, <3>8, <3>9 DEF C!Block
  <2>6. ASSUME args.sets * args.blocks > 1
        PROVE  C!Hit(e, a)
    <3>1. e[v] = d[v]
      BY <1>1, <2>3, <2>5, <2>6
    <3> QED
      BY <1>1, <3>1 DEF C!Hit, C!Holding, A, T
  <2> QED
    BY <2>3, <2>4, <2>6 DEF e, next, d
<1> QED
  BY <1>6, <1>7

\* The accesses that are hits by their distance.
Recent(t) == {k \in DOMAIN t : Cardinality(LinesSince(t, k)) \in 1 .. args.blocks}

\* The inductive invariant of cache_sim.c.
CacheInv ==
    /\ args \in Geometries /\ trace \in Seq(Addresses)
    /\ hits \in Nat /\ misses \in Nat /\ hits + misses = Len(trace)
    /\ CacheOk(cache, Len(trace))
    /\ trace # <<>> /\ args.sets * args.blocks > 1 =>
          /\ C!Hit(cache, trace[Len(trace)])
          /\ args.prefetch => C!Hit(cache, trace[Len(trace)] + args.size)
    /\ ~args.prefetch =>
          /\ LastUsed(cache, trace) /\ Evicted(cache, trace)
          /\ IsFiniteSet(Recent(trace)) /\ hits = Cardinality(Recent(trace))

LEMMA CacheTypes ==
    ASSUME C!CacheSimAssumption, args \in Geometries, trace \in Seq(Addresses)
    PROVE  GoodArgs /\ trace \in Seq(Nat)
<1>1. GoodArgs
  BY DEF C!CacheSimAssumption, GoodArgs
<1>2. DOMAIN trace = 1 .. Len(trace) /\ Len(trace) \in Nat /\ \A k \in DOMAIN trace : trace[k] \in Nat
  <2>1. Addresses \subseteq Nat
    BY DEF C!CacheSimAssumption
  <2>2. DOMAIN trace = 1 .. Len(trace) /\ Len(trace) \in Nat /\ \A k \in DOMAIN trace : trace[k] \in Addresses
    OBVIOUS
  <2> QED
    BY <2>1, <2>2
<1>3. trace \in Seq(Nat)
  <2>1. trace = [k \in 1 .. Len(trace) |-> trace[k]]
    BY <1>2
  <2> QED
    BY <1>2, <2>1, IsASeq
<1> QED
  BY <1>1, <1>3

LEMMA CacheInit ==
    ASSUME C!CacheSimAssumption, C!Init
    PROVE  CacheInv
<1>1. args \in Geometries /\ trace = <<>> /\ trace \in Seq(Addresses) /\ hits = 0 /\ misses = 0 /\ Len(trace) = 0
  BY DEF C!Init
<1>2. GoodArgs
  BY <1>1, CacheTypes
<1>3. /\ cache \in [0 .. args.sets * args.blocks - 1 -> C!Block]
      /\ \A b \in DOMAIN cache : cache[b].date = 0 /\ ~cache[b].valid
  BY DEF C!Init, C!Block
<1>4. \A s \in 0 .. args.sets - 1 : C!BlocksOf(s) \subseteq DOMAIN cache
  BY <1>2, <1>3, BlocksOfSets
<1>5. CacheOk(cache, 0)
  BY <1>3, <1>4 DEF CacheOk
<1>6. LastUsed(cache, trace) /\ Evicted(cache, trace)
  BY <1>1, <1>3, <1>4 DEF LastUsed, Evicted
<1>7. IsFiniteSet(Recent(trace)) /\ Cardinality(Recent(trace)) = 0
  <2>1. Recent(trace) = {}
    BY <1>1 DEF Recent
  <2> QED
    BY <2>1, FS_EmptySet
<1> QED
  BY <1>1, <1>5, <1>6, <1>7 DEF CacheInv

\* The distance of an access is known when it happens.
LEMMA RecentGrows ==
    ASSUME NEW t \in Seq(Nat), NEW a \in Nat
    PROVE  Recent(Append(t, a)) =
             Recent(t) \cup IF Cardinality(LinesSince(Append(t, a), Len(t) + 1)) \in 1 .. args.blocks
                            THEN {Len(t) + 1} ELSE {}
<1> DEFINE u == Append(t, a)
           n == Len(t)
<1>1. n \in Nat /\ DOMAIN t = 1 .. n /\ DOMAIN u = 1 .. n + 1 /\ \A j \in 1 .. n : u[j] = t[j]
  OBVIOUS
<1>2. ASSUME NEW k \in 1 .. n
      PROVE  LinesSince(u, k) = LinesSince(t, k)
  <2> DEFINE before == {j \in 1 .. k - 1 : C!LineOf(t[j]) = C!LineOf(t[k])}
             m == C!Max(before)
             since == {j \in m .. k - 1 : C!SetOf(t[j]) = C!SetOf(t[k])}
  <2>1. \A j \in 1 .. k : u[j] = t[j]
    BY <1>1
  <2>2. before = {j \in 1 .. k - 1 : C!LineOf(u[j]) = C!LineOf(u[k])}
    BY <2>1
  <2>3. CASE before = {}
    BY <2>2, <2>3 DEF LinesSince
  <2>4. CASE before # {}
    <3>1. m \in 1 .. k - 1
      <4>1. before \in SUBSET Nat /\ k - 1 \in Nat /\ \A j \in before : j <= k - 1
        BY <1>1
      <4>2. m \in before
        <5> HIDE DEF before
        <5> QED
          BY <2>4, <4>1, MinAndMax
      <4> QED
        BY <4>2
    <3> HIDE DEF m
    <3>2. since = {j \in m .. k - 1 : C!SetOf(u[j]) = C!SetOf(u[k])}
      BY <2>1, <3>1
    <3>3. \A j \in since : u[j] = t[j]
      BY <2>1, <3>1
    <3>4. {C!LineOf(t[j]) : j \in since} = {C!LineOf(u[j]) : j \in since}
      BY <3>3
    <3>5. LinesSince(t, k) = {C!LineOf(t[j]) : j \in since}
      BY <2>4 DEF LinesSince, m
    <3>6. LinesSince(u, k) = {C!LineOf(u[j]) : j \in since}
      BY <2>2, <2>4, <3>2 DEF LinesSince, m
    <3> QED
      BY <3>4, <3>5, <3>6
  <2> QED
    BY <2>3, <2>4
<1> HIDE DEF u, n
<1> DEFINE z == n + 1
           near == Cardinality(LinesSince(u, z)) \in 1 .. args.blocks
<1>3. \A k : k \in Recent(u) <=> k \in DOMAIN u /\ Cardinality(LinesSince(u, k)) \in 1 .. args.blocks
  BY DEF Recent
<1>4. \A k : k \in Recent(t) <=> k \in 1 .. n /\ Cardinality(LinesSince(t, k)) \in 1 .. args.blocks
  BY <1>1 DEF Recent
<1>5. \A k : k \in DOMAIN u <=> k \in 1 .. n \/ k = z
  BY <1>1
<1> HIDE DEF z
<1>6. z \in Recent(u) <=> near
  BY <1>3, <1>5, Zenon
<1>7. \A k \in 1 .. n : k \in Recent(u) <=> k \in Recent(t)
  BY <1>2, <1>3, <1>4, <1>5, Zenon
<1>8. Recent(u) \subseteq (1 .. n) \cup {z} /\ Recent(t) \subseteq 1 .. n
  BY <1>3, <1>4, <1>5, Zenon
<1> HIDE DEF near
<1>9. Recent(u) = Recent(t) \cup IF near THEN {z} ELSE {}
  <2>1. CASE near
    BY <1>6, <1>7, <1>8, <2>1
  <2>2. CASE ~near
    BY <1>6, <1>7, <1>8, <2>2
  <2> QED
    BY <2>1, <2>2
<1> QED
  BY <1>9 DEF u, n, near, z

LEMMA CacheStep ==
    ASSUME C!CacheSimAssumption, CacheInv, NEW a \in Addresses, C!Access(a)
    PROVE  CacheInv'
<1> DEFINE n == Len(trace)
           t == Append(trace, a)
           d == C!Accessed(cache, a, n + 1)
<1>1. GoodArgs /\ trace \in Seq(Nat) /\ a \in Nat /\ n \in Nat /\ args' = args /\ GoodArgs'
  <2>1. GoodArgs /\ trace \in Seq(Nat)
    BY CacheTypes DEF CacheInv
  <2>2. a \in Nat /\ n \in Nat /\ args' = args
    BY <2>1 DEF C!CacheSimAssumption, C!Access
  <2> QED
    BY <2>1, <2>2 DEF GoodArgs
<1>2. trace' = t /\ t \in Seq(Addresses) /\ Len(t) = n + 1 /\ t[n + 1] = a /\ t # <<>>
  BY <1>1 DEF C!Access, CacheInv
<1>3. cache' = IF args.prefetch THEN C!Prefetched(d, a, n + 1) ELSE d
  BY DEF C!Access
<1>4. hits' \in Nat /\ misses' \in Nat /\ hits' + misses' = Len(t)
  <2>1. hits \in Nat /\ misses \in Nat /\ hits + misses = n
    BY DEF CacheInv
  <2>2. CASE C!Hit(cache, a)
    BY <1>2, <2>1, <2>2 DEF C!Access
  <2>3. CASE ~C!Hit(cache, a)
    BY <1>2, <2>1, <2>3 DEF C!Access
  <2> QED
    BY <2>2, <2>3
<1>5. CacheOk(cache, n)
  BY DEF CacheInv
<1>6. CacheOk(d, n + 1) /\ C!Hit(d, a)
  <2>1. \E v \in C!BlocksOf(C!SetOf(a)) : d[v] = [tag |-> C!TagOf(a), date |-> n + 1, valid |-> TRUE]
    BY <1>1, <1>5, AccessedIsOk
  <2>2. C!Hit(d, a)
    BY <2>1 DEF C!Hit, C!Holding
  <2> QED
    BY <1>1, <1>5, <2>2, AccessedIsOk
<1>7. /\ CacheOk(cache', n + 1)
      /\ args.sets * args.blocks > 1 =>
            C!Hit(cache', a) /\ (args.prefetch => C!Hit(cache', a + args.size))
  BY <1>1, <1>3, <1>5, <1>6, PrefetchedIsOk
<1>8. ASSUME ~args.prefetch
      PROVE  /\ LastUsed(cache', t) /\ Evicted(cache', t)
             /\ IsFiniteSet(Recent(t)) /\ hits' = Cardinality(Recent(t))
  <2>1. LastUsed(cache, trace) /\ Evicted(cache, trace)
    BY <1>8 DEF CacheInv
  <2>2. LastUsed(d, t) /\ Evicted(d, t)
    BY <1>1, <1>5, <2>1, AccessKeepsDates
  <2>3. C!Hit(cache, a) <=> Cardinality(LinesSince(t, n + 1)) \in 1 .. args.blocks
    BY <1>1, <1>5, <2>1, HitByDistance
  <2>4. IsFiniteSet(Recent(trace)) /\ hits = Cardinality(Recent(trace)) /\ n + 1 \notin Recent(trace)
    BY <1>1, <1>8 DEF CacheInv, Recent
  <2>5. Recent(t) = Recent(trace) \cup IF C!Hit(cache, a) THEN {n + 1} ELSE {}
    BY <1>1, <2>3, RecentGrows
  <2>6. CASE C!Hit(cache, a)
    <3>1. hits' = hits + 1
      BY <2>6 DEF C!Access
    <3>2. Recent(t) = Recent(trace) \cup {n + 1}
      BY <2>5, <2>6
    <3>3. IsFiniteSet(Recent(t)) /\ Cardinality(Recent(t)) = Cardinality(Recent(trace)) + 1
      BY <2>4, <3>2, FS_AddElement
    <3> QED
      BY <1>3, <1>8, <2>2, <2>4, <3>1, <3>3
  <2>7. CASE ~C!Hit(cache, a)
    <3>1. hits' = hits
      BY <2>7 DEF C!Access
    <3>2. Recent(t) = Recent(trace)
      BY <2>5, <2>7
    <3> QED
      BY <1>3, <1>8, <2>2, <2>4, <3>1, <3>2
  <2> QED
    BY <2>6, <2>7
<1> HIDE DEF d, n, t
<1>9. args' \in Geometries /\ trace' \in Seq(Addresses)
  BY <1>1, <1>2 DEF CacheInv
<1>10. CacheOk(cache, Len(trace))'
  <2>1. \A s : C!BlocksOf(s)' = C!BlocksOf(s)
    BY <1>1 DEF C!BlocksOf
  <2>2. args' = args /\ Len(trace') = n + 1
    BY <1>1, <1>2
  <2>3. CacheOk(cache, Len(trace))' <=> CacheOk(cache', n + 1)
    BY <2>1, <2>2 DEF CacheOk
  <2> QED
    BY <1>7, <2>3
<1>11. \A b \in Nat : C!Hit(cache, b)' <=> C!Hit(cache', b)
  BY <1>1 DEF C!Hit, C!Holding, C!BlocksOf, C!SetOf, C!TagOf
<1>12. (trace # <<>> /\ args.sets * args.blocks > 1 =>
          /\ C!Hit(cache, trace[Len(trace)])
          /\ args.prefetch => C!Hit(cache, trace[Len(trace)] + args.size))'
  BY <1>1, <1>2, <1>7 DEF C!Hit, C!Holding, C!BlocksOf, C!SetOf, C!TagOf
<1>13. ASSUME ~args.prefetch
       PROVE  LastUsed(cache, trace)' /\ Evicted(cache, trace)' /\ Recent(trace)' = Recent(t)
  <2>1. LastUsed(cache, trace)'
    BY <1>1, <1>2, <1>8, <1>13 DEF LastUsed, C!BlocksOf, C!SetOf, C!TagOf
  <2>2. Evicted(cache, trace)'
    <3>1. \A b : C!BlocksOf(b)' = C!BlocksOf(b)
      BY <1>1 DEF C!BlocksOf
    <3>2. \A b : C!SetOf(b)' = C!SetOf(b) /\ C!TagOf(b)' = C!TagOf(b)
      BY <1>1 DEF C!SetOf, C!TagOf
    <3>3. \A b : C!Hit(cache, b)' <=> C!Hit(cache', b)
      BY <3>1, <3>2 DEF C!Hit, C!Holding
    <3> QED
      BY <1>2, <1>8, <1>13, <3>1, <3>2, <3>3 DEF Evicted
  <2>3. Recent(trace)' = Recent(t)
    BY <1>1, <1>2 DEF Recent, LinesSince, C!LineOf, C!SetOf
  <2> QED
    BY <2>1, <2>2, <2>3
<1> QED
  BY <1>1, <1>2, <1>4, <1>8, <1>9, <1>10, <1>12, <1>13 DEF CacheInv

\* The cardinalities of cache_sim.c's module are those of FiniteSets.
LEMMA CacheCardinality == \A S : C!Cardinality(S) = Cardinality(S)
BY DEF C!Cardinality, Cardinality

\* cache_sim.c keeps its invariant, for any geometry and any trace.
THEOREM CacheInvariant == C!Spec => []CacheInv
<1> SUFFICES ASSUME C!CacheSimAssumption
             PROVE  C!Spec => []CacheInv
  BY ProgramsAssumption DEF ProgramsAssumption
<1>1. C!Init => CacheInv
  BY CacheInit
<1>2. CacheInv /\ [C!Next]_(C!cacheVars) => CacheInv'
  <2> SUFFICES ASSUME CacheInv, [C!Next]_(C!cacheVars)
               PROVE  CacheInv'
    OBVIOUS
  <2>1. CASE \E a \in Addresses : C!Access(a)
    BY <2>1, CacheStep
  <2>2. CASE UNCHANGED C!cacheVars
    <3>1. args' = args /\ cache' = cache /\ hits' = hits /\ misses' = misses /\ trace' = trace
      BY <2>2 DEF C!cacheVars
    <3>2. \A b : C!BlocksOf(b)' = C!BlocksOf(b) /\ C!LineOf(b)' = C!LineOf(b)
      BY <3>1 DEF C!BlocksOf, C!LineOf
    <3>3. \A b : C!SetOf(b)' = C!SetOf(b) /\ C!TagOf(b)' = C!TagOf(b)
      BY <3>1 DEF C!SetOf, C!TagOf
    <3>4. \A b : C!Hit(cache, b)' <=> C!Hit(cache, b)
      BY <3>1, <3>2, <3>3 DEF C!Hit, C!Holding
    <3>5. CacheOk(cache, Len(trace))' <=> CacheOk(cache, Len(trace))
      BY <3>1, <3>2 DEF CacheOk
    <3>6. LastUsed(cache, trace)' <=> LastUsed(cache, trace)
      BY <3>1, <3>2, <3>3 DEF LastUsed
    <3>7. Evicted(cache, trace)' <=> Evicted(cache, trace)
      BY <3>1, <3>2, <3>3, <3>4 DEF Evicted
    <3>8. Recent(trace)' = Recent(trace)
      BY <3>1, <3>2, <3>3 DEF Recent, LinesSince
    <3> QED
      BY <3>1, <3>4, <3>5, <3>6, <3>7, <3>8 DEF CacheInv
  <2> QED
    BY <2>1, <2>2 DEF C!Next
<1> QED
  BY <1>1, <1>2, PTL DEF C!Spec

\* The line accessed and the one prefetched with it are in the cache, and no line has two blocks,
\* whatever dates blocks share.
THEOREM EachLineOnce == C!Spec => []LinesAreThereOnce
<1> SUFFICES ASSUME C!CacheSimAssumption
             PROVE  C!Spec => []LinesAreThereOnce
  BY ProgramsAssumption DEF ProgramsAssumption
<1>1. CacheInv => C!LinesAreThereOnce
  <2> SUFFICES ASSUME CacheInv
               PROVE  C!LinesAreThereOnce
    OBVIOUS
  <2> DEFINE B(a) == C!Holding(cache, C!SetOf(a), C!TagOf(a))
  <2>1. GoodArgs /\ CacheOk(cache, Len(trace)) /\ trace \in Seq(Nat) /\ Addresses \subseteq Nat
    BY CacheTypes DEF CacheInv, C!CacheSimAssumption
  <2>2. ASSUME NEW a \in Nat
        PROVE  Cardinality(B(a)) <= 1 /\ (C!Hit(cache, a) => Cardinality(B(a)) = 1)
    <3>1. C!SetOf(a) \in 0 .. args.sets - 1
      BY <2>1, SetAndTag
    <3>2. \A b, d \in B(a) : b = d
      BY <2>1, <3>1 DEF CacheOk, C!Holding
    <3>3. C!Hit(cache, a) <=> B(a) # {}
      BY DEF C!Hit
    <3> HIDE DEF B
    <3>4. CASE B(a) = {}
      BY <3>3, <3>4, FS_EmptySet
    <3>5. CASE B(a) # {}
      <4>1. PICK b : B(a) = {b}
        BY <3>2, <3>5
      <4>2. Cardinality(B(a)) = 1
        BY <4>1, FS_Singleton
      <4> QED
        BY <4>2
    <3> QED
      BY <3>4, <3>5
  <2>3. C!Cardinality(DOMAIN cache) = args.sets * args.blocks
    <3>1. args.sets * args.blocks \in Nat \ {0}
      BY <2>1 DEF GoodArgs
    <3>2. DOMAIN cache = 0 .. args.sets * args.blocks - 1
      BY <2>1 DEF CacheOk
    <3> QED
      BY <3>1, <3>2, FS_Interval, CacheCardinality
  <2>4. \A a \in Addresses : C!Cardinality(B(a)) <= 1
    BY <2>1, <2>2, CacheCardinality
  <2>5. ASSUME trace # <<>>, C!Cardinality(DOMAIN cache) > 1
        PROVE  /\ C!Cardinality(B(C!Last(trace))) = 1
               /\ args.prefetch => C!Cardinality(B(C!Last(trace) + args.size)) = 1
    <3> DEFINE a == trace[Len(trace)]
    <3>1. C!Last(trace) = a /\ a \in Nat /\ a + args.size \in Nat
      BY <2>1, <2>5 DEF C!Last, GoodArgs
    <3>2. C!Hit(cache, a) /\ (args.prefetch => C!Hit(cache, a + args.size))
      BY <2>3, <2>5 DEF CacheInv
    <3> HIDE DEF a, B
    <3>3. Cardinality(B(a)) = 1
      BY <2>2, <3>1, <3>2
    <3>4. args.prefetch => Cardinality(B(a + args.size)) = 1
      BY <2>2, <3>1, <3>2, Zenon
    <3> QED
      BY <3>1, <3>3, <3>4, CacheCardinality
  <2> QED
    BY <2>4, <2>5 DEF C!LinesAreThereOnce
<1>2. CacheInv => LinesAreThereOnce
  BY <1>1 DEF LinesAreThereOnce
<1> QED
  BY <1>2, CacheInvariant, PTL

\* Without prefetch the accesses that are hits are those with fewer other lines of their set
\* since the last one to the same line than a set has blocks: the replacement is LRU.
THEOREM ReplacementIsLRU == C!Spec => []HitsByStackDistance
<1> SUFFICES ASSUME C!CacheSimAssumption
             PROVE  C!Spec => []HitsByStackDistance
  BY ProgramsAssumption DEF ProgramsAssumption
<1>1. CacheInv => C!HitsByStackDistance
  <2> SUFFICES ASSUME CacheInv
               PROVE  C!HitsByStackDistance
    OBVIOUS
  <2>1. \A k : C!Cardinality(C!LinesSince(k)) = Cardinality(LinesSince(trace, k))
    BY CacheCardinality DEF C!LinesSince, LinesSince
  <2>2. {k \in DOMAIN trace : C!Cardinality(C!LinesSince(k)) \in 1 .. args.blocks} = Recent(trace)
    BY <2>1 DEF Recent
  <2>3. C!Cardinality(Recent(trace)) = Cardinality(Recent(trace))
    BY CacheCardinality
  <2> QED
    BY <2>2, <2>3 DEF CacheInv, C!HitsByStackDistance
<1>2. CacheInv => HitsByStackDistance
  BY <1>1 DEF HitsByStackDistance
<1> QED
  BY <1>2, CacheInvariant, PTL

-----------------------------------------------------------------------------
(* famtree.c *)

\* The links between people, stored twice and in agreement, and between people in the tree.
Links ==
    /\ \A p, c \in People : (\E k \in DOMAIN children[p] : children[p][k] = c) <=> F!IsParent(p, c)
    /\ \A p \in People : \A k, l \in DOMAIN children[p] : children[p][k] = children[p][l] => k = l
    /\ \A c \in People : /\ father[c] # F!None => sex[father[c]] = "Male"
                         /\ mother[c] # F!None => sex[mother[c]] = "Female"
    /\ \A p, c \in People : F!IsParent(p, c) => p \in known /\ c \in known

\* Calls about people, and whom they are about.
Calls(S) == Seq([person : S, next : Nat \ {0}])
Called(s) == {s[i].person : i \in DOMAIN s}

InPrinted == {printed[k] : k \in DOMAIN printed}

FamTypes ==
    /\ phase \in {"reading", "checking", "printing", "done"}
    /\ known \subseteq People
    /\ sex \in [People -> {"Unknown", "Male", "Female"}]
    /\ father \in [People -> People \cup {F!None}] /\ mother \in [People -> People \cup {F!None}]
    /\ children \in [People -> Seq(People)]
    /\ currPerson \in known \cup {F!None}
    /\ toVisit \subseteq known
    /\ calls \in Calls(People) /\ Called(calls) \subseteq known
    /\ printed \in Seq(People) /\ InPrinted \subseteq known

\* Among any of these people there is one who is parent of none of them.
Acyclic(S) == \A T \in SUBSET S : T # {} => \E p \in T : \A c \in T : ~F!IsParent(p, c)

\* The calls s are about different people, each about the one that the call before it is at: the
\* one its list has before the next one.  What comes earlier in its list is done.
Chain(s, list, done) ==
    /\ \A i, j \in DOMAIN s : s[i].person = s[j].person => i = j
    /\ \A i \in DOMAIN s : s[i].next <= Len(list[s[i].person]) + 1
    /\ \A i \in DOMAIN s : i + 1 \in DOMAIN s =>
          s[i].next > 1 /\ s[i + 1].person = list[s[i].person][s[i].next - 1]
    /\ \A i \in DOMAIN s : \A k \in 1 .. s[i].next - 1 :
          list[s[i].person][k] \in done \/ (i + 1 \in DOMAIN s /\ k = s[i].next - 1)

\* Everybody is done, is still to be visited, or is whom the first call is about.
Covered(done) ==
    \A p \in known : p \in done \/ p \in toVisit \/ (calls # <<>> /\ p = calls[1].person)

\* While cycles are looked for: nobody visited is in one, or parent of somebody not visited.
Checking ==
    /\ visiting = Called(calls) /\ visited \subseteq known /\ visiting \cap visited = {}
    /\ \A p \in visited : \A c \in People : F!IsParent(p, c) => c \in visited
    /\ Acyclic(visited)
    /\ Chain(calls, children, visited)
    /\ Covered(visited)
    /\ printed = <<>>

ParentLists == [p \in People |-> F!ParentsOf(p)]

\* While people are printed, which is after their parents.
Printing ==
    /\ Acyclic(known)
    /\ \A i, j \in DOMAIN printed : printed[i] = printed[j] => i = j
    /\ \A j \in DOMAIN printed : \A p \in People :
          F!IsParent(p, printed[j]) => \E i \in DOMAIN printed : i < j /\ printed[i] = p
    /\ Called(calls) \cap InPrinted = {}
    /\ Chain(calls, ParentLists, InPrinted \cup {F!None})
    /\ Covered(InPrinted)

\* The inductive invariant of famtree.c.
FamInv ==
    /\ FamTypes
    /\ error # "none" => phase = "done"
    /\ error = "none" => Links
    /\ error = "cycle" => F!Cyclic
    /\ phase = "reading" => visiting = {} /\ visited = {} /\ calls = <<>> /\ printed = <<>>
    /\ phase = "checking" => Checking
    /\ phase = "printing" => Printing
    /\ phase = "done" /\ error = "none" => Printing /\ calls = <<>> /\ toVisit = {}

\* The first call of a chain.
LEMMA ChainStarts ==
    ASSUME NEW S, NEW p \in S, NEW list \in [S -> Seq(S \cup {F!None})], NEW done
    PROVE  LET t == Append(<<>>, F!Call(p))
           IN  t \in Calls(S) /\ Chain(t, list, done) /\ Called(t) = {p} /\ t # <<>> /\ t[1].person = p
<1> DEFINE t == Append(<<>>, F!Call(p))
<1>1. t = <<F!Call(p)>> /\ F!Call(p) = [person |-> p, next |-> 1]
  BY DEF F!Call
<1>2. t \in Calls(S) /\ Len(t) = 1 /\ DOMAIN t = {1} /\ t[1].person = p /\ t[1].next = 1 /\ t # <<>>
  BY <1>1 DEF Calls
<1>3. Len(list[p]) \in Nat
  OBVIOUS
<1> HIDE DEF t
<1>4. Chain(t, list, done) /\ Called(t) = {p}
  BY <1>2, <1>3 DEF Chain, Called
<1> QED
  BY <1>2, <1>4 DEF t

\* What a chain is once its last call has gone on to the next of its list.
LEMMA GoneOnIs ==
    ASSUME NEW S, NEW s \in Calls(S), s # <<>>
    PROVE  LET n == Len(s)
               t == [s EXCEPT ![n].next = @ + 1]
           IN  /\ n \in Nat \ {0} /\ t \in Calls(S) /\ Len(t) = n /\ DOMAIN s = 1 .. n /\ DOMAIN t = 1 .. n
               /\ \A i \in 1 .. n : /\ t[i].person = s[i].person /\ s[i].person \in S
                                    /\ s[i].next \in Nat \ {0} /\ t[i].next \in Nat \ {0}
               /\ \A i \in 1 .. n - 1 : t[i].next = s[i].next
               /\ t[n].next = s[n].next + 1
<1> DEFINE n == Len(s)
           t == [s EXCEPT ![n].next = @ + 1]
           R == [person : S, next : Nat \ {0}]
<1>1. n \in Nat \ {0} /\ DOMAIN s = 1 .. n /\ s \in [1 .. n -> R]
  <2>1. s \in Seq(R)
    BY DEF Calls
  <2> HIDE DEF R
  <2> QED
    BY <2>1
<1>2. s[n] \in R /\ [s[n] EXCEPT !.next = @ + 1] \in R
  BY <1>1
<1>3. t = [s EXCEPT ![n] = [s[n] EXCEPT !.next = @ + 1]]
  OBVIOUS
<1>4. t \in [1 .. n -> R]
  BY <1>1, <1>2, <1>3
<1>5. t \in Seq(R) /\ Len(t) = n
  <2> HIDE DEF R, t, n
  <2> QED
    BY <1>1, <1>4
<1>6. \A i \in 1 .. n : s[i] \in R /\ t[i] \in R /\ (i # n => t[i] = s[i])
  BY <1>1, <1>3, <1>4
<1>7. t[n] = [s[n] EXCEPT !.next = @ + 1]
  BY <1>1, <1>3
<1>8. t[n].person = s[n].person /\ t[n].next = s[n].next + 1
  BY <1>2, <1>7
<1> HIDE DEF n, t
<1>9. \A i \in 1 .. n : /\ t[i].person = s[i].person /\ s[i].person \in S
                        /\ s[i].next \in Nat \ {0} /\ t[i].next \in Nat \ {0}
  BY <1>6, <1>8
<1>10. \A i \in 1 .. n - 1 : t[i].next = s[i].next
  BY <1>1, <1>6
<1> QED
  BY <1>1, <1>4, <1>5, <1>8, <1>9, <1>10 DEF n, t, Calls

\* The last call goes on past somebody who is done.
LEMMA ChainGoesOn ==
    ASSUME NEW S, NEW list \in [S -> Seq(S \cup {F!None})], NEW done, NEW s \in Calls(S), s # <<>>,
           Chain(s, list, done),
           s[Len(s)].next <= Len(list[s[Len(s)].person]),
           list[s[Len(s)].person][s[Len(s)].next] \in done
    PROVE  LET t == [s EXCEPT ![Len(s)].next = @ + 1]
           IN  t \in Calls(S) /\ Chain(t, list, done) /\ Called(t) = Called(s) /\ t # <<>> /\ t[1].person = s[1].person
<1> DEFINE n == Len(s)
           t == [s EXCEPT ![n].next = @ + 1]
<1>1. /\ n \in Nat \ {0} /\ t \in Calls(S) /\ Len(t) = n /\ DOMAIN s = 1 .. n /\ DOMAIN t = 1 .. n
      /\ \A i \in 1 .. n : /\ t[i].person = s[i].person /\ s[i].person \in S
                           /\ s[i].next \in Nat \ {0} /\ t[i].next \in Nat \ {0}
      /\ \A i \in 1 .. n - 1 : t[i].next = s[i].next
      /\ t[n].next = s[n].next + 1
  BY GoneOnIs
<1>c. /\ n \in Nat \ {0} /\ DOMAIN s = 1 .. n /\ \A i \in 1 .. n - 1 : i \in 1 .. n /\ i + 1 \in 1 .. n
      /\ \A i, j \in 1 .. n : s[i].person = s[j].person => i = j
      /\ \A i \in 1 .. n : s[i].next <= Len(list[s[i].person]) + 1
      /\ \A i \in 1 .. n - 1 : s[i].next > 1 /\ s[i + 1].person = list[s[i].person][s[i].next - 1]
      /\ \A i \in 1 .. n : \A k \in 1 .. s[i].next - 1 :
            list[s[i].person][k] \in done \/ (i + 1 \in 1 .. n /\ k = s[i].next - 1)
  BY <1>1 DEF Chain
<1>2. \A p \in S : Len(list[p]) \in Nat
  OBVIOUS
<1>3. s[n].next <= Len(list[s[n].person]) /\ list[s[n].person][s[n].next] \in done
  OBVIOUS
<1> HIDE DEF n, t
<1>4. \A i, j \in 1 .. n : t[i].person = t[j].person => i = j
  BY <1>1, <1>c
<1>5. \A i \in 1 .. n : i = n \/ (i \in 1 .. n - 1 /\ i + 1 \in 1 .. n)
  BY <1>1
<1>6. n + 1 \notin 1 .. n
  BY <1>1
<1>7. ASSUME NEW i \in 1 .. n
      PROVE  t[i].next <= Len(list[t[i].person]) + 1
  <2>1. CASE i = n
    BY <1>1, <1>2, <1>3, <2>1
  <2>2. CASE i \in 1 .. n - 1
    BY <1>1, <1>c, <2>2
  <2> QED
    BY <1>5, <2>1, <2>2
<1>8. ASSUME NEW i \in 1 .. n, i + 1 \in 1 .. n
      PROVE  t[i].next > 1 /\ t[i + 1].person = list[t[i].person][t[i].next - 1]
  BY <1>1, <1>5, <1>6, <1>8, <1>c
<1>9. ASSUME NEW i \in 1 .. n, NEW k \in 1 .. t[i].next - 1
      PROVE  list[t[i].person][k] \in done \/ (i + 1 \in 1 .. n /\ k = t[i].next - 1)
  <2>1. CASE i = n
    <3>1. k = s[n].next \/ k \in 1 .. s[n].next - 1
      BY <1>1, <1>9, <2>1
    <3> QED
      BY <1>1, <1>3, <1>6, <2>1, <3>1, <1>c
  <2>2. CASE i \in 1 .. n - 1
    <3>1. t[i].person = s[i].person /\ t[i].next = s[i].next /\ k \in 1 .. s[i].next - 1
      BY <1>1, <1>9, <2>2
    <3>2. list[s[i].person][k] \in done \/ (i + 1 \in 1 .. n /\ k = s[i].next - 1)
      BY <1>c, <2>2, <3>1
    <3> QED
      BY <3>1, <3>2
  <2> QED
    BY <1>5, <2>1, <2>2
<1>10. Chain(t, list, done)
  BY <1>1, <1>4, <1>7, <1>8, <1>9 DEF Chain
<1>11. Called(t) = Called(s)
  BY <1>1 DEF Called
<1>12. t # <<>> /\ t[1].person = s[1].person
  BY <1>1, SMTT(30)
<1> QED
  BY <1>1, <1>10, <1>11, <1>12 DEF n, t

\* The calls with one more, about q.
Grown(s, q) == Append([s EXCEPT ![Len(s)].next = @ + 1], F!Call(q))

\* The last call goes on to somebody whom none of the calls is about, with a call about them.
LEMMA ChainGrows ==
    ASSUME NEW S, NEW list \in [S -> Seq(S \cup {F!None})], NEW done, NEW s \in Calls(S), s # <<>>,
           Chain(s, list, done),
           s[Len(s)].next <= Len(list[s[Len(s)].person]),
           list[s[Len(s)].person][s[Len(s)].next] \in S \ Called(s)
    PROVE  LET q == list[s[Len(s)].person][s[Len(s)].next]
               t == Grown(s, q)
           IN  /\ t \in Calls(S) /\ Chain(t, list, done) /\ Called(t) = Called(s) \cup {q}
               /\ t # <<>> /\ t[1].person = s[1].person
<1> DEFINE n == Len(s)
           q == list[s[n].person][s[n].next]
           u == [s EXCEPT ![n].next = @ + 1]
           t == Grown(s, q)
<1>1. /\ n \in Nat \ {0} /\ u \in Calls(S) /\ Len(u) = n /\ DOMAIN s = 1 .. n /\ DOMAIN u = 1 .. n
      /\ \A i \in 1 .. n : /\ u[i].person = s[i].person /\ s[i].person \in S
                           /\ s[i].next \in Nat \ {0} /\ u[i].next \in Nat \ {0}
      /\ \A i \in 1 .. n - 1 : u[i].next = s[i].next
      /\ u[n].next = s[n].next + 1
  BY GoneOnIs
<1>c. /\ n \in Nat \ {0} /\ DOMAIN s = 1 .. n /\ \A i \in 1 .. n - 1 : i \in 1 .. n /\ i + 1 \in 1 .. n
      /\ \A i, j \in 1 .. n : s[i].person = s[j].person => i = j
      /\ \A i \in 1 .. n : s[i].next <= Len(list[s[i].person]) + 1
      /\ \A i \in 1 .. n - 1 : s[i].next > 1 /\ s[i + 1].person = list[s[i].person][s[i].next - 1]
      /\ \A i \in 1 .. n : \A k \in 1 .. s[i].next - 1 :
            list[s[i].person][k] \in done \/ (i + 1 \in 1 .. n /\ k = s[i].next - 1)
  BY <1>1 DEF Chain
<1>2. \A p \in S : Len(list[p]) \in Nat
  OBVIOUS
<1>3. s[n].next <= Len(list[s[n].person]) /\ q = list[s[n].person][s[n].next]
  OBVIOUS
<1> q \in S /\ q \notin Called(s)
  OBVIOUS
<1> HIDE DEF q
<1>4. F!Call(q) = [person |-> q, next |-> 1] /\ F!Call(q) \in [person : S, next : Nat \ {0}]
  BY DEF F!Call
<1>t. t = Append(u, F!Call(q))
  BY DEF Grown
<1> HIDE DEF n, u
<1>5. /\ t \in Calls(S) /\ Len(t) = n + 1 /\ DOMAIN t = 1 .. n + 1 /\ t[n + 1] = F!Call(q)
      /\ \A i \in 1 .. n : t[i] = u[i]
  <2> DEFINE Steps == [person : S, next : Nat \ {0}]
  <2>1. u \in Seq(Steps) /\ F!Call(q) \in Steps /\ Len(u) = n /\ n \in Nat
    BY <1>1, <1>4 DEF Calls
  <2>2. t \in Seq(Steps)
    <3> HIDE DEF Steps
    <3> QED
      BY <2>1, <1>t
  <2>3. Len(t) = n + 1 /\ DOMAIN t = 1 .. n + 1
    <3> HIDE DEF Steps
    <3> QED
      BY <2>1, <1>t
  <2>4. t[n + 1] = F!Call(q) /\ \A i \in 1 .. n : t[i] = u[i]
    <3> HIDE DEF Steps
    <3> QED
      BY <2>1, <1>t
  <2> QED
    BY <2>2, <2>3, <2>4 DEF Calls
<1> HIDE DEF t
<1>6. t[n + 1].person = q /\ t[n + 1].next = 1
  BY <1>4, <1>5
<1>7. \A i \in 1 .. n + 1 : i = n + 1 \/ i = n \/ (i \in 1 .. n - 1 /\ i + 1 \in 1 .. n)
  <2>1. n \in Nat
    BY <1>1
  <2> HIDE DEF n
  <2> QED
    BY <2>1
<1>8. \A i \in 1 .. n : t[i].person = s[i].person /\ t[i].person # q
  <2>1. \A i \in 1 .. n : s[i].person \in Called(s)
    BY <1>1 DEF Called
  <2>2. q \notin Called(s)
    OBVIOUS
  <2>3. \A i \in 1 .. n : t[i].person = s[i].person
    BY <1>1, <1>5
  <2> QED
    BY <2>1, <2>2, <2>3
<1>9. t[n].next = s[n].next + 1 /\ \A i \in 1 .. n - 1 : t[i].next = s[i].next
  BY <1>1, <1>5
<1>10. \A i, j \in 1 .. n + 1 : t[i].person = t[j].person => i = j
  <2>1. \A i, j \in 1 .. n : t[i].person = t[j].person => i = j
    BY <1>1, <1>8, <1>c
  <2>2. \A i \in 1 .. n + 1 : i = n + 1 \/ i \in 1 .. n
    BY <1>1
  <2> QED
    BY <1>6, <1>8, <2>1, <2>2
<1>11. ASSUME NEW i \in 1 .. n + 1
       PROVE  t[i].next <= Len(list[t[i].person]) + 1
  <2>1. CASE i = n + 1
    BY <1>2, <1>6, <2>1
  <2>2. CASE i = n
    BY <1>1, <1>2, <1>3, <1>8, <1>9, <2>2
  <2>3. CASE i \in 1 .. n - 1
    BY <1>1, <1>8, <1>9, <2>3, <1>c
  <2> QED
    BY <1>7, <2>1, <2>2, <2>3
<1>12. ASSUME NEW i \in 1 .. n + 1, i + 1 \in 1 .. n + 1
       PROVE  t[i].next > 1 /\ t[i + 1].person = list[t[i].person][t[i].next - 1]
  <2>1. CASE i = n + 1
    BY <1>1, <1>12, <2>1
  <2>2. CASE i = n
    BY <1>1, <1>3, <1>6, <1>8, <1>9, <2>2, SMTT(30)
  <2>3. CASE i \in 1 .. n - 1
    <3>1. i + 1 \in 1 .. n /\ i \in 1 .. n
      BY <1>1, <2>3
    <3> QED
      BY <1>1, <1>8, <1>9, <2>3, <3>1, <1>c
  <2> QED
    BY <1>7, <2>1, <2>2, <2>3
<1>13. ASSUME NEW i \in 1 .. n + 1, NEW k \in 1 .. t[i].next - 1
       PROVE  list[t[i].person][k] \in done \/ (i + 1 \in 1 .. n + 1 /\ k = t[i].next - 1)
  <2>1. CASE i = n + 1
    BY <1>6, <1>13, <2>1
  <2>2. CASE i = n
    <3>1. k = s[n].next \/ k \in 1 .. s[n].next - 1
      BY <1>1, <1>9, <1>13, <2>2
    <3>2. n + 1 \notin 1 .. n /\ n \in 1 .. n /\ n + 1 \in 1 .. n + 1
      BY <1>1
    <3> QED
      BY <1>1, <1>3, <1>8, <1>9, <2>2, <3>1, <3>2, <1>c, SMTT(30)
  <2>3. CASE i \in 1 .. n - 1
    <3>1. t[i].person = s[i].person /\ t[i].next = s[i].next /\ k \in 1 .. s[i].next - 1
      BY <1>8, <1>9, <1>13, <1>c, <2>3
    <3>2. list[s[i].person][k] \in done \/ (i + 1 \in 1 .. n /\ k = s[i].next - 1)
      BY <1>c, <2>3, <3>1
    <3>3. i + 1 \in 1 .. n + 1
      BY <1>1, <2>3
    <3> QED
      BY <3>1, <3>2, <3>3
  <2> QED
    BY <1>7, <2>1, <2>2, <2>3
<1>14. Chain(t, list, done)
  BY <1>5, <1>10, <1>11, <1>12, <1>13 DEF Chain
<1>15. Called(t) = Called(s) \cup {q}
  <2>1. \A i \in 1 .. n + 1 : i = n + 1 \/ i \in 1 .. n
    BY <1>1
  <2>2. n + 1 \in 1 .. n + 1 /\ \A i \in 1 .. n : i \in 1 .. n + 1
    BY <1>1
  <2>3. \A x : x \in Called(t) <=> \E i \in 1 .. n + 1 : x = t[i].person
    BY <1>5 DEF Called
  <2>4. \A x : x \in Called(s) <=> \E i \in 1 .. n : x = s[i].person
    BY <1>1 DEF Called
  <2>5. ASSUME NEW x \in Called(t)
        PROVE  x \in Called(s) \/ x = q
    <3>1. PICK i \in 1 .. n + 1 : x = t[i].person
      BY <2>3
    <3> QED
      BY <1>6, <1>8, <2>1, <2>4, <3>1
  <2>6. q \in Called(t)
    BY <1>6, <2>2, <2>3
  <2>7. ASSUME NEW x \in Called(s)
        PROVE  x \in Called(t)
    <3>1. PICK i \in 1 .. n : x = s[i].person
      BY <2>4
    <3> QED
      BY <1>8, <2>2, <2>3, <3>1
  <2> HIDE DEF t
  <2> QED
    BY <2>5, <2>6, <2>7
<1>16. t # <<>> /\ t[1].person = s[1].person
  BY <1>1, <1>5, <1>8
<1> QED
  BY <1>5, <1>14, <1>15, <1>16 DEF n, q, u, t

\* The last call returns, once it has done with its list.
LEMMA ChainReturns ==
    ASSUME NEW S, NEW list \in [S -> Seq(S \cup {F!None})], NEW done, NEW s \in Calls(S), s # <<>>,
           Chain(s, list, done), s[Len(s)].next > Len(list[s[Len(s)].person])
    PROVE  LET t == F!Front(s)
               p == s[Len(s)].person
           IN  /\ t \in Calls(S) /\ Chain(t, list, done \cup {p})
               /\ p \in S /\ Called(t) = Called(s) \ {p} /\ p \in Called(s)
               /\ \A k \in DOMAIN list[p] : list[p][k] \in done
               /\ t = <<>> => s[1].person = p
               /\ t # <<>> => t[1].person = s[1].person
<1> DEFINE n == Len(s)
           t == F!Front(s)
           p == s[n].person
<1>1. /\ n \in Nat \ {0} /\ DOMAIN s = 1 .. n
      /\ \A i \in 1 .. n : s[i] \in [person : S, next : Nat \ {0}]
  <2> DEFINE R == [person : S, next : Nat \ {0}]
  <2>1. s \in Seq(R)
    BY DEF Calls
  <2>2. n \in Nat \ {0} /\ DOMAIN s = 1 .. n /\ \A i \in 1 .. n : s[i] \in R
    <3> HIDE DEF R
    <3> QED
      BY <2>1
  <2> QED
    BY <2>2
<1>c. /\ n \in Nat \ {0} /\ DOMAIN s = 1 .. n /\ \A i \in 1 .. n - 1 : i \in 1 .. n /\ i + 1 \in 1 .. n
      /\ \A i, j \in 1 .. n : s[i].person = s[j].person => i = j
      /\ \A i \in 1 .. n : s[i].next <= Len(list[s[i].person]) + 1
      /\ \A i \in 1 .. n - 1 : s[i].next > 1 /\ s[i + 1].person = list[s[i].person][s[i].next - 1]
      /\ \A i \in 1 .. n : \A k \in 1 .. s[i].next - 1 :
            list[s[i].person][k] \in done \/ (i + 1 \in 1 .. n /\ k = s[i].next - 1)
  <2>1. n \in Nat \ {0} /\ DOMAIN s = 1 .. n /\ \A i \in 1 .. n - 1 : i \in 1 .. n /\ i + 1 \in 1 .. n
    BY <1>1
  <2> HIDE DEF n
  <2>2. Chain(s, list, done)
    OBVIOUS
  <2> QED
    BY <2>1, <2>2 DEF Chain
<1>2. /\ t \in Calls(S) /\ Len(t) = n - 1 /\ DOMAIN t = 1 .. n - 1
      /\ \A i \in 1 .. n - 1 : t[i] = s[i]
  BY <1>1 DEF Calls, F!Front
<1>3. \A i \in 1 .. n : s[i].person \in S /\ s[i].next \in Nat \ {0}
  BY <1>1
<1>4. \A q \in S : Len(list[q]) \in Nat /\ DOMAIN list[q] = 1 .. Len(list[q])
  OBVIOUS
<1>5. s[n].next > Len(list[p])
  OBVIOUS
<1> HIDE DEF n, t
<1>6. p \in S /\ s[n].next = Len(list[p]) + 1
  BY <1>1, <1>3, <1>4, <1>5, <1>c
<1>7. n + 1 \notin 1 .. n /\ n \in 1 .. n
  BY <1>1
<1>8. \A k \in DOMAIN list[p] : list[p][k] \in done
  <2>1. DOMAIN list[p] = 1 .. s[n].next - 1
    BY <1>4, <1>6
  <2> QED
    BY <1>1, <1>7, <2>1, <1>c
<1>9. \A i \in 1 .. n - 1 : i \in 1 .. n /\ i + 1 \in 1 .. n /\ i # n /\ t[i].person = s[i].person /\ t[i].next = s[i].next
  BY <1>1, <1>2
<1>10. ASSUME NEW i \in 1 .. n - 1, NEW k \in 1 .. t[i].next - 1
       PROVE  list[t[i].person][k] \in done \cup {p} \/ (i + 1 \in 1 .. n - 1 /\ k = t[i].next - 1)
  <2>1. list[s[i].person][k] \in done \/ k = s[i].next - 1
    BY <1>1, <1>9, <1>10, <1>c
  <2>2. CASE k = s[i].next - 1
    <3>1. i + 1 \in 1 .. n - 1 \/ i + 1 = n
      BY <1>1
    <3>2. s[i + 1].person = list[s[i].person][s[i].next - 1]
      BY <1>1, <1>9, <1>c
    <3> QED
      BY <1>9, <2>2, <3>1, <3>2
  <2> QED
    BY <1>9, <2>1, <2>2
<1>11. Chain(t, list, done \cup {p})
  <2>1. \A i, j \in 1 .. n - 1 : t[i].person = t[j].person => i = j
    BY <1>1, <1>9, <1>c
  <2>2. \A i \in 1 .. n - 1 : t[i].next <= Len(list[t[i].person]) + 1
    BY <1>1, <1>9, <1>c
  <2>3. \A i \in 1 .. n - 1 : i + 1 \in 1 .. n - 1 =>
           t[i].next > 1 /\ t[i + 1].person = list[t[i].person][t[i].next - 1]
    BY <1>1, <1>9, <1>c
  <2> QED
    BY <1>2, <1>10, <2>1, <2>2, <2>3 DEF Chain
<1>12. Called(t) = Called(s) \ {p} /\ p \in Called(s)
  <2>1. \A i \in 1 .. n : i = n \/ i \in 1 .. n - 1
    BY <1>1
  <2>2. \A i \in 1 .. n - 1 : s[i].person # p
    BY <1>1, <1>7, <1>9, <1>c
  <2>3. \A x : x \in Called(t) <=> \E i \in 1 .. n - 1 : x = t[i].person
    BY <1>2 DEF Called
  <2>4. \A x : x \in Called(s) <=> \E i \in 1 .. n : x = s[i].person
    BY <1>1 DEF Called
  <2>5. ASSUME NEW x \in Called(t)
        PROVE  x \in Called(s) /\ x # p
    <3>1. PICK i \in 1 .. n - 1 : x = t[i].person
      BY <2>3
    <3> QED
      BY <1>9, <2>2, <2>4, <3>1
  <2>6. p \in Called(s)
    BY <1>7, <2>4
  <2>7. ASSUME NEW x \in Called(s), x # p
        PROVE  x \in Called(t)
    <3>1. PICK i \in 1 .. n : x = s[i].person
      BY <2>4
    <3>2. i \in 1 .. n - 1
      BY <2>1, <2>7, <3>1
    <3> QED
      BY <1>9, <2>3, <3>1, <3>2
  <2> HIDE DEF p
  <2> QED
    BY <2>5, <2>6, <2>7
<1>13. (t = <<>> => s[1].person = p) /\ (t # <<>> => t[1].person = s[1].person)
  <2>1. t = <<>> => n = 1
    BY <1>1, <1>2
  <2>2. t # <<>> => 1 \in 1 .. n - 1
    BY <1>1, <1>2 DEF Calls
  <2> QED
    BY <1>9, <2>1, <2>2
<1> QED
  BY <1>2, <1>6, <1>8, <1>11, <1>12, <1>13 DEF n, t

\* The lists of children and of parents are lists.
LEMMA FamLists ==
    ASSUME FamTypes
    PROVE  /\ children \in [People -> Seq(People \cup {F!None})]
           /\ ParentLists \in [People -> Seq(People \cup {F!None})]
           /\ \A p \in People : /\ ParentLists[p] = F!ParentsOf(p) /\ Len(ParentLists[p]) = 2
                                /\ DOMAIN ParentLists[p] = {1, 2}
                                /\ ParentLists[p][1] = father[p] /\ ParentLists[p][2] = mother[p]
                                /\ Len(children[p]) \in Nat /\ DOMAIN children[p] = 1 .. Len(children[p])
                                /\ \A k \in DOMAIN children[p] : children[p][k] \in People
<1>1. children \in [People -> Seq(People)]
  BY DEF FamTypes
<1>2. \A p \in People : /\ children[p] \in Seq(People) /\ Len(children[p]) \in Nat
                        /\ DOMAIN children[p] = 1 .. Len(children[p])
                        /\ \A k \in DOMAIN children[p] : children[p][k] \in People
  BY <1>1
<1>3. Seq(People) \subseteq Seq(People \cup {F!None})
  OBVIOUS
<1>4. children \in [People -> Seq(People \cup {F!None})]
  BY <1>1, <1>3
<1>5. \A p \in People : father[p] \in People \cup {F!None} /\ mother[p] \in People \cup {F!None}
  BY DEF FamTypes
<1>6. \A p \in People : F!ParentsOf(p) = <<father[p], mother[p]>>
  BY DEF F!ParentsOf
<1>7. ASSUME NEW p \in People
      PROVE  /\ F!ParentsOf(p) \in Seq(People \cup {F!None}) /\ Len(F!ParentsOf(p)) = 2
             /\ DOMAIN F!ParentsOf(p) = {1, 2}
             /\ F!ParentsOf(p)[1] = father[p] /\ F!ParentsOf(p)[2] = mother[p]
  <2> DEFINE s == <<father[p], mother[p]>>
             T == People \cup {F!None}
  <2>1. father[p] \in T /\ mother[p] \in T
    BY <1>5
  <2> HIDE DEF T
  <2>2. s \in Seq(T) /\ Len(s) = 2 /\ s[1] = father[p] /\ s[2] = mother[p]
    BY <2>1
  <2>3. DOMAIN s = {1, 2}
    BY <2>2
  <2> QED
    BY <1>6, <2>2, <2>3 DEF T
<1> QED
  BY <1>2, <1>4, <1>7 DEF ParentLists

\* The lowest of some people is one of them.
LEMMA LowestIsThere ==
    ASSUME F!FamtreeAssumption, NEW S \in SUBSET People, S # {}
    PROVE  F!Lowest(S) \in S
<1>1. S \in SUBSET Nat
  BY DEF F!FamtreeAssumption
<1>2. \E p \in S : \A q \in S : p <= q
  BY <1>1, LeastNumber
<1> QED
  BY <1>2 DEF F!Lowest

\* The tree does not change once it is read.
LEMMA SameTree ==
    ASSUME UNCHANGED F!treeVars
    PROVE  /\ known' = known /\ sex' = sex /\ father' = father /\ mother' = mother
           /\ children' = children /\ currPerson' = currPerson /\ ParentLists' = ParentLists
           /\ \A p, c : F!IsParent(p, c)' <=> F!IsParent(p, c)
           /\ Links' <=> Links
           /\ F!Cyclic' <=> F!Cyclic
           /\ \A S : Acyclic(S)' <=> Acyclic(S)
<1>1. /\ known' = known /\ sex' = sex /\ father' = father /\ mother' = mother
      /\ children' = children /\ currPerson' = currPerson
  BY DEF F!treeVars
<1>2. \A p, c : F!IsParent(p, c)' <=> F!IsParent(p, c)
  BY <1>1 DEF F!IsParent
<1>3. ParentLists' = ParentLists
  BY <1>1 DEF ParentLists, F!ParentsOf
<1>4. Links' <=> Links
  BY <1>1, <1>2 DEF Links
<1>5. F!Cyclic' <=> F!Cyclic
  BY <1>1, <1>2 DEF F!Cyclic
<1>6. \A S : Acyclic(S)' <=> Acyclic(S)
  BY <1>2 DEF Acyclic
<1> QED
  BY <1>1, <1>2, <1>3, <1>4, <1>5, <1>6

\* Who is parent of whom among people, by the lists.
LEMMA ParentsByLists ==
    ASSUME F!FamtreeAssumption, FamTypes, Links, NEW p \in People, NEW c \in People
    PROVE  /\ F!IsParent(p, c) <=> \E k \in DOMAIN children[p] : children[p][k] = c
           /\ F!IsParent(p, c) <=> \E k \in DOMAIN ParentLists[c] : ParentLists[c][k] = p
<1>1. F!IsParent(p, c) <=> \E k \in DOMAIN children[p] : children[p][k] = c
  BY DEF Links
<1>2. DOMAIN ParentLists[c] = {1, 2} /\ ParentLists[c][1] = father[c] /\ ParentLists[c][2] = mother[c]
  BY FamLists
<1>3. F!IsParent(p, c) <=> \E k \in DOMAIN ParentLists[c] : ParentLists[c][k] = p
  BY <1>2 DEF F!IsParent
<1> QED
  BY <1>1, <1>3

\* The people of a chain of calls from the j-th on, each a child or each a parent of the next,
\* and the j-th that of the last, are a cycle.
LEMMA ChainClosed ==
    ASSUME NEW s \in Calls(People), NEW j \in DOMAIN s,
           \/ /\ F!IsParent(s[Len(s)].person, s[j].person)
              /\ \A i \in DOMAIN s : i + 1 \in DOMAIN s => F!IsParent(s[i].person, s[i + 1].person)
           \/ /\ F!IsParent(s[j].person, s[Len(s)].person)
              /\ \A i \in DOMAIN s : i + 1 \in DOMAIN s => F!IsParent(s[i + 1].person, s[i].person)
    PROVE  \E S \in SUBSET Called(s) : S # {} /\ \A p \in S : \E c \in S : F!IsParent(p, c)
<1> DEFINE n == Len(s)
           S == {s[i].person : i \in j .. n}
<1>1. n \in Nat /\ DOMAIN s = 1 .. n /\ j \in 1 .. n
  BY DEF Calls
<1> HIDE DEF n
<1>2. \A i \in j .. n : i \in 1 .. n /\ s[i].person \in S
  BY <1>1
<1>3. S \in SUBSET Called(s) /\ S # {} /\ n \in j .. n /\ j \in j .. n
  BY <1>1, <1>2 DEF Called
<1>4. ASSUME NEW p \in S
      PROVE  \E c \in S : F!IsParent(p, c)
  <2>1. PICK i \in j .. n : p = s[i].person
    OBVIOUS
  <2>2. CASE /\ F!IsParent(s[n].person, s[j].person)
             /\ \A k \in 1 .. n : k + 1 \in 1 .. n => F!IsParent(s[k].person, s[k + 1].person)
    <3>1. CASE i = n
      BY <1>2, <1>3, <2>1, <2>2, <3>1
    <3>2. CASE i # n
      <4>1. i + 1 \in j .. n /\ i + 1 \in 1 .. n /\ i \in 1 .. n
        BY <1>1, <3>2
      <4> QED
        BY <1>2, <2>1, <2>2, <4>1
    <3> QED
      BY <3>1, <3>2
  <2>3. CASE /\ F!IsParent(s[j].person, s[n].person)
             /\ \A k \in 1 .. n : k + 1 \in 1 .. n => F!IsParent(s[k + 1].person, s[k].person)
    <3>1. CASE i = j
      BY <1>2, <1>3, <2>1, <2>3, <3>1
    <3>2. CASE i # j
      <4>1. i - 1 \in j .. n /\ i - 1 \in 1 .. n /\ (i - 1) + 1 = i /\ i \in 1 .. n
        BY <1>1, <3>2
      <4> QED
        BY <1>2, <2>1, <2>3, <4>1
    <3> QED
      BY <3>1, <3>2
  <2> QED
    BY <1>1, <2>2, <2>3 DEF n
<1> QED
  BY <1>3, <1>4

\* One more person, whose children are all there and who is nobody's child there.
LEMMA StaysAcyclic ==
    ASSUME NEW S, Acyclic(S), NEW p, p \notin S,
           \A c \in S \cup {p} : F!IsParent(p, c) => c \in S,
           \A q \in S : ~F!IsParent(q, p)
    PROVE  Acyclic(S \cup {p})
<1> SUFFICES ASSUME NEW T \in SUBSET (S \cup {p}), T # {}
             PROVE  \E q \in T : \A c \in T : ~F!IsParent(q, c)
  BY DEF Acyclic
<1>1. CASE T = {p}
  BY <1>1
<1>2. CASE T \ {p} # {}
  <2>1. PICK q \in T \ {p} : \A c \in T \ {p} : ~F!IsParent(q, c)
    <3>1. T \ {p} \in SUBSET S
      OBVIOUS
    <3> QED
      BY <1>2, <3>1 DEF Acyclic
  <2>2. q \in S /\ \A c \in T : ~F!IsParent(q, c)
    BY <2>1
  <2> QED
    BY <2>2
<1> QED
  BY <1>1, <1>2

\* A child is entered under a parent once.
LEMMA ChildIsEntered ==
    ASSUME FamTypes, Links, NEW child \in People, NEW parent \in People
    PROVE  LET W == F!WithChild(child, parent)
           IN  /\ W \in [People -> Seq(People)]
               /\ \A p, c \in People : (\E k \in DOMAIN W[p] : W[p][k] = c)
                     <=> F!IsParent(p, c) \/ (p = parent /\ c = child)
               /\ \A p \in People : \A k, l \in DOMAIN W[p] : W[p][k] = W[p][l] => k = l
<1> DEFINE W == F!WithChild(child, parent)
           s == children[parent]
<1>1. /\ \A p, c \in People : (\E k \in DOMAIN children[p] : children[p][k] = c) <=> F!IsParent(p, c)
      /\ \A p \in People : \A k, l \in DOMAIN children[p] : children[p][k] = children[p][l] => k = l
      /\ children \in [People -> Seq(People)]
  BY DEF Links, FamTypes
<1>2. s \in Seq(People) /\ Len(s) \in Nat /\ DOMAIN s = 1 .. Len(s)
  BY <1>1
<1>3. child \in F!ToSet(s) <=> \E k \in DOMAIN s : s[k] = child
  BY DEF F!ToSet
<1>4. CASE child \in F!ToSet(s)
  <2>1. W = children
    BY <1>4 DEF F!WithChild
  <2>2. F!IsParent(parent, child)
    BY <1>1, <1>3, <1>4
  <2> HIDE DEF W
  <2> QED
    BY <1>1, <2>1, <2>2 DEF W
<1>5. CASE child \notin F!ToSet(s)
  <2> DEFINE t == Append(s, child)
  <2>1. W = [children EXCEPT ![parent] = t]
    BY <1>5 DEF F!WithChild
  <2>2. /\ t \in Seq(People) /\ DOMAIN t = 1 .. Len(s) + 1 /\ t[Len(s) + 1] = child
        /\ \A k \in 1 .. Len(s) : t[k] = s[k] /\ k \in DOMAIN t
        /\ \A k \in 1 .. Len(s) + 1 : k \in 1 .. Len(s) \/ k = Len(s) + 1
    BY <1>2
  <2> HIDE DEF t, W
  <2>3. W[parent] = t /\ \A p \in People : p # parent => W[p] = children[p]
    BY <1>1, <2>1
  <2>4. W \in [People -> Seq(People)]
    BY <1>1, <2>1, <2>2
  <2> HIDE DEF s
  <2>5. \A c \in People : (\E k \in DOMAIN t : t[k] = c) <=> (\E k \in DOMAIN s : s[k] = c) \/ c = child
    BY <1>2, <2>2
  <2>6. \A k, l \in DOMAIN s : s[k] = s[l] => k = l
    BY <1>1 DEF s
  <2>7. \A k, l \in DOMAIN t : t[k] = t[l] => k = l
    BY <1>2, <1>3, <1>5, <2>2, <2>6
  <2>8. ASSUME NEW p \in People, NEW c \in People
        PROVE  (\E k \in DOMAIN W[p] : W[p][k] = c) <=> F!IsParent(p, c) \/ (p = parent /\ c = child)
    <3>1. CASE p = parent
      <4>1. (\E k \in DOMAIN s : s[k] = c) <=> F!IsParent(parent, c)
        BY <1>1 DEF s
      <4>2. (\E k \in DOMAIN t : t[k] = c) <=> F!IsParent(parent, c) \/ c = child
        BY <2>5, <4>1
      <4> QED
        BY <2>3, <3>1, <4>2
    <3>2. CASE p # parent
      BY <1>1, <2>3, <3>2
    <3> QED
      BY <3>1, <3>2
  <2>9. ASSUME NEW p \in People, NEW k \in DOMAIN W[p], NEW l \in DOMAIN W[p], W[p][k] = W[p][l]
        PROVE  k = l
    <3>1. CASE p = parent
      BY <2>3, <2>7, <2>9, <3>1
    <3>2. CASE p # parent
      BY <1>1, <2>3, <2>9, <3>2
    <3> QED
      BY <3>1, <3>2
  <2> QED
    BY <2>4, <2>8, <2>9 DEF W
<1> QED
  BY <1>4, <1>5

\* connection_check() and sex_check(), with a father or with a mother.
LEMMA ConnectKeeps ==
    ASSUME F!FamtreeAssumption, FamInv, phase = "reading", NEW child \in known', NEW parent \in known',
           known \subseteq known', known' \subseteq People, currPerson' \in known',
           UNCHANGED <<visiting, visited, toVisit, calls, printed>>,
           \/ F!ConnectFather(child, parent) /\ UNCHANGED mother
           \/ F!ConnectMother(child, parent) /\ UNCHANGED father
    PROVE  FamInv'
<1>1. /\ FamTypes /\ error = "none" /\ Links /\ child \in People /\ parent \in People
      /\ visiting = {} /\ visited = {} /\ calls = <<>> /\ printed = <<>>
  BY DEF FamInv
<1> DEFINE W == F!WithChild(child, parent)
<1>2. /\ W \in [People -> Seq(People)]
      /\ \A p, c \in People : (\E k \in DOMAIN W[p] : W[p][k] = c) <=> F!IsParent(p, c) \/ (p = parent /\ c = child)
      /\ \A p \in People : \A k, l \in DOMAIN W[p] : W[p][k] = W[p][l] => k = l
  BY <1>1, ChildIsEntered
<1>3. /\ \A c \in People : /\ father[c] # F!None => sex[father[c]] = "Male"
                           /\ mother[c] # F!None => sex[mother[c]] = "Female"
      /\ \A p, c \in People : F!IsParent(p, c) => p \in known /\ c \in known
  BY <1>1 DEF Links
<1>4. /\ sex \in [People -> {"Unknown", "Male", "Female"}]
      /\ father \in [People -> People \cup {F!None}] /\ mother \in [People -> People \cup {F!None}]
      /\ children \in [People -> Seq(People)]
  BY <1>1 DEF FamTypes
<1>5. parent # F!None
  BY <1>1 DEF F!FamtreeAssumption
<1> HIDE DEF W
<1>6. CASE F!ConnectFather(child, parent) /\ UNCHANGED mother
  <2>1. CASE father[child] \notin {F!None, parent}
    <3>1. error' # "none" /\ error' # "cycle" /\ phase' = "done" /\ UNCHANGED <<father, children, sex, mother>>
      BY <1>6, <2>1 DEF F!ConnectFather, F!Exits
    <3> QED
      BY <1>1, <3>1 DEF FamInv, FamTypes, Called, InPrinted, Calls
  <2>2. CASE father[child] \in {F!None, parent}
    <3>1. father' = [father EXCEPT ![child] = parent] /\ children' = W /\ mother' = mother /\ F!SexCheck(parent, "Male")
      BY <1>6, <2>2 DEF F!ConnectFather, W
    <3>2. father' \in [People -> People \cup {F!None}] /\ mother' \in [People -> People \cup {F!None}]
      BY <1>1, <1>4, <3>1
    <3>3. CASE sex[parent] \notin {"Unknown", "Male"}
      <4>1. error' # "none" /\ error' # "cycle" /\ phase' = "done" /\ sex' = sex
        BY <3>1, <3>3 DEF F!SexCheck, F!Exits
      <4> QED
        BY <1>1, <1>2, <3>1, <3>2, <4>1 DEF FamInv, FamTypes, Called, InPrinted, Calls
    <3>4. CASE sex[parent] \in {"Unknown", "Male"}
      <4>1. sex' = [sex EXCEPT ![parent] = "Male"] /\ error' = "none" /\ phase' = "reading"
        BY <1>1, <3>1, <3>4 DEF F!SexCheck
      <4>2. sex' \in [People -> {"Unknown", "Male", "Female"}] /\ sex'[parent] = "Male"
            /\ \A p \in People : p # parent => sex'[p] = sex[p]
        BY <1>1, <1>4, <4>1
      <4>3. father'[child] = parent /\ \A c \in People : c # child => father'[c] = father[c]
        BY <1>1, <1>4, <3>1
      <4>4. \A p, c \in People : F!IsParent(p, c)' <=> F!IsParent(p, c) \/ (p = parent /\ c = child)
        BY <1>5, <2>2, <3>1, <4>3, <1>1 DEF F!IsParent, F!FamtreeAssumption
      <4>5. \A c \in People : /\ father'[c] # F!None => sex'[father'[c]] = "Male"
                              /\ mother'[c] # F!None => sex'[mother'[c]] = "Female"
        <5>1. ASSUME NEW c \in People, father'[c] # F!None
              PROVE  sex'[father'[c]] = "Male"
          <6>1. CASE c = child
            BY <4>2, <4>3, <6>1
          <6>2. CASE c # child
            <7>1. father'[c] = father[c] /\ father[c] \in People
              BY <1>4, <4>3, <5>1, <6>2
            <7>2. sex[father[c]] = "Male"
              BY <1>3, <5>1, <7>1
            <7> QED
              BY <1>4, <4>2, <7>1, <7>2
          <6> QED
            BY <6>1, <6>2
        <5>2. ASSUME NEW c \in People, mother'[c] # F!None
              PROVE  sex'[mother'[c]] = "Female"
          BY <1>3, <1>4, <3>1, <3>4, <4>2, <5>2
        <5> QED
          BY <5>1, <5>2
      <4>6. Links'
        BY <1>2, <1>3, <3>1, <4>4, <4>5 DEF Links
      <4>7. FamTypes'
        BY <1>1, <1>2, <3>1, <3>2, <4>1, <4>2 DEF FamTypes, Called, InPrinted, Calls
      <4> QED
        BY <1>1, <4>1, <4>6, <4>7 DEF FamInv
    <3> QED
      BY <3>3, <3>4
  <2> QED
    BY <2>1, <2>2
<1>7. CASE F!ConnectMother(child, parent) /\ UNCHANGED father
  <2>1. CASE mother[child] \notin {F!None, parent}
    <3>1. error' # "none" /\ error' # "cycle" /\ phase' = "done" /\ UNCHANGED <<father, children, sex, mother>>
      BY <1>7, <2>1 DEF F!ConnectMother, F!Exits
    <3> QED
      BY <1>1, <3>1 DEF FamInv, FamTypes, Called, InPrinted, Calls
  <2>2. CASE mother[child] \in {F!None, parent}
    <3>1. mother' = [mother EXCEPT ![child] = parent] /\ children' = W /\ father' = father /\ F!SexCheck(parent, "Female")
      BY <1>7, <2>2 DEF F!ConnectMother, W
    <3>2. father' \in [People -> People \cup {F!None}] /\ mother' \in [People -> People \cup {F!None}]
      BY <1>1, <1>4, <3>1
    <3>3. CASE sex[parent] \notin {"Unknown", "Female"}
      <4>1. error' # "none" /\ error' # "cycle" /\ phase' = "done" /\ sex' = sex
        BY <3>1, <3>3 DEF F!SexCheck, F!Exits
      <4> QED
        BY <1>1, <1>2, <3>1, <3>2, <4>1 DEF FamInv, FamTypes, Called, InPrinted, Calls
    <3>4. CASE sex[parent] \in {"Unknown", "Female"}
      <4>1. sex' = [sex EXCEPT ![parent] = "Female"] /\ error' = "none" /\ phase' = "reading"
        BY <1>1, <3>1, <3>4 DEF F!SexCheck
      <4>2. sex' \in [People -> {"Unknown", "Male", "Female"}] /\ sex'[parent] = "Female"
            /\ \A p \in People : p # parent => sex'[p] = sex[p]
        BY <1>1, <1>4, <4>1
      <4>3. mother'[child] = parent /\ \A c \in People : c # child => mother'[c] = mother[c]
        BY <1>1, <1>4, <3>1
      <4>4. \A p, c \in People : F!IsParent(p, c)' <=> F!IsParent(p, c) \/ (p = parent /\ c = child)
        BY <1>5, <2>2, <3>1, <4>3, <1>1 DEF F!IsParent, F!FamtreeAssumption
      <4>5. \A c \in People : /\ father'[c] # F!None => sex'[father'[c]] = "Male"
                              /\ mother'[c] # F!None => sex'[mother'[c]] = "Female"
        <5>1. ASSUME NEW c \in People, father'[c] # F!None
              PROVE  sex'[father'[c]] = "Male"
          BY <1>3, <1>4, <3>1, <3>4, <4>2, <5>1
        <5>2. ASSUME NEW c \in People, mother'[c] # F!None
              PROVE  sex'[mother'[c]] = "Female"
          BY <1>3, <1>4, <3>4, <4>2, <4>3, <5>2
        <5> QED
          BY <5>1, <5>2
      <4>6. Links'
        BY <1>2, <1>3, <3>1, <4>4, <4>5 DEF Links
      <4>7. FamTypes'
        BY <1>1, <1>2, <3>1, <3>2, <4>1, <4>2 DEF FamTypes, Called, InPrinted, Calls
      <4> QED
        BY <1>1, <4>1, <4>6, <4>7 DEF FamInv
    <3> QED
      BY <3>3, <3>4
  <2> QED
    BY <2>1, <2>2
<1> QED
  BY <1>6, <1>7

\* What holds in a tree that is read, while cycles are looked for.
LEMMA CheckPersonKeeps ==
    ASSUME F!FamtreeAssumption, FamInv, F!CheckPerson
    PROVE  FamInv'
<1> DEFINE p == F!Lowest(toVisit)
           t == Append(<<>>, F!Call(p))
<1>1. /\ FamTypes /\ error = "none" /\ Links /\ phase = "checking" /\ Checking
      /\ calls = <<>> /\ toVisit # {} /\ toVisit' = toVisit \ {p} /\ F!CycleCheck(p, <<>>)
      /\ UNCHANGED F!treeVars /\ visited' = visited /\ printed' = printed
  BY DEF FamInv, F!CheckPerson
<1>2. toVisit \subseteq known /\ known \subseteq People
  BY <1>1 DEF FamTypes
<1>3. p \in toVisit /\ p \in known /\ p \in People
  <2>1. toVisit \in SUBSET People /\ toVisit # {}
    BY <1>1, <1>2
  <2>2. p \in toVisit
    BY <2>1, LowestIsThere
  <2> QED
    BY <1>2, <2>2
<1>4. children \in [People -> Seq(People \cup {F!None})]
  BY <1>1, FamLists
<1>5. t \in Calls(People) /\ Chain(t, children, visited) /\ Called(t) = {p} /\ t # <<>> /\ t[1].person = p
  BY <1>3, <1>4, ChainStarts
<1> HIDE DEF p, t
<1>6. visiting = {}
  BY <1>1 DEF Checking, Called
<1>7. error' = "none" /\ phase' = "checking"
  BY <1>1, <1>6 DEF F!CycleCheck
<1>8. /\ known' = known /\ sex' = sex /\ father' = father /\ mother' = mother
      /\ children' = children /\ currPerson' = currPerson
      /\ \A x, c : F!IsParent(x, c)' <=> F!IsParent(x, c)
      /\ Links' /\ (Acyclic(visited))'
  BY <1>1, SameTree DEF Checking, Acyclic
<1>9. printed = <<>> /\ Covered(visited) /\ visited \subseteq known
      /\ \A x \in visited : \A c \in People : F!IsParent(x, c) => c \in visited
  BY <1>1 DEF Checking
<1>10. CASE p \in visited
  <2>1. calls' = <<>> /\ visiting' = {}
    BY <1>1, <1>6, <1>10 DEF F!CycleCheck
  <2>2. Covered(visited)'
    BY <1>1, <1>8, <1>9, <1>10, <2>1 DEF Covered
  <2>3. Checking'
    BY <1>1, <1>8, <1>9, <2>1, <2>2 DEF Checking, Chain, Called
  <2>4. FamTypes'
    BY <1>1, <1>2, <1>7, <1>8, <2>1 DEF FamTypes, Called, InPrinted, Calls
  <2> QED
    BY <1>7, <1>8, <2>3, <2>4 DEF FamInv
<1>11. CASE p \notin visited
  <2>1. calls' = t /\ visiting' = {p}
    BY <1>1, <1>6, <1>11 DEF F!CycleCheck, t
  <2>2. Covered(visited)'
    BY <1>1, <1>5, <1>8, <1>9, <2>1 DEF Covered
  <2>3. Chain(calls, children, visited)'
    BY <1>1, <1>5, <1>8, <2>1 DEF Chain
  <2>4. Called(calls)' = {p}
    BY <1>5, <2>1 DEF Called
  <2>5. Checking'
    BY <1>1, <1>8, <1>9, <1>11, <2>1, <2>2, <2>3, <2>4 DEF Checking
  <2>6. FamTypes'
    BY <1>1, <1>2, <1>3, <1>5, <1>7, <1>8, <2>1, <2>4 DEF FamTypes, InPrinted, Calls
  <2> QED
    BY <1>7, <1>8, <2>5, <2>6 DEF FamInv
<1> QED
  BY <1>10, <1>11

\* The last call goes on to a child: nobody but those being visited closes a cycle.
LEMMA CheckChildKeeps ==
    ASSUME F!FamtreeAssumption, FamInv, F!CheckChild
    PROVE  FamInv'
<1> DEFINE n == Len(calls)
           p == calls[n].person
           m == calls[n].next
           q == children[p][m]
           u == [calls EXCEPT ![n].next = @ + 1]
           t == Append(u, F!Call(q))
<1>1. /\ FamTypes /\ error = "none" /\ Links /\ phase = "checking" /\ Checking
      /\ calls # <<>> /\ calls \in Calls(People) /\ m <= Len(children[p]) /\ F!CycleCheck(q, u)
      /\ UNCHANGED F!treeVars /\ visited' = visited /\ printed' = printed /\ toVisit' = toVisit
  BY DEF FamInv, F!CheckChild, F!Caller, F!Last, F!GoneOn, FamTypes
<1>2. /\ children \in [People -> Seq(People \cup {F!None})]
      /\ \A x \in People : /\ Len(children[x]) \in Nat /\ DOMAIN children[x] = 1 .. Len(children[x])
                           /\ \A k \in DOMAIN children[x] : children[x][k] \in People
  BY <1>1, FamLists
<1>3. n \in Nat \ {0} /\ DOMAIN calls = 1 .. n /\ n \in 1 .. n /\ p \in People /\ m \in Nat \ {0}
  <2>1. /\ n \in Nat \ {0} /\ DOMAIN calls = 1 .. n
        /\ \A i \in 1 .. n : calls[i].person \in People /\ calls[i].next \in Nat \ {0}
    BY <1>1, GoneOnIs
  <2> HIDE DEF n
  <2>2. n \in 1 .. n
    BY <2>1
  <2> QED
    BY <2>1, <2>2
<1>4. q \in People /\ m \in DOMAIN children[p]
  BY <1>1, <1>2, <1>3
<1>5. F!IsParent(p, q)
  BY <1>1, <1>3, <1>4, ParentsByLists
<1>6. q \in known /\ known \subseteq People
  BY <1>1, <1>3, <1>4, <1>5 DEF Links, FamTypes
<1>7. /\ Chain(calls, children, visited) /\ printed = <<>> /\ Covered(visited) /\ visited \subseteq known
      /\ \A x \in visited : \A c \in People : F!IsParent(x, c) => c \in visited
      /\ visiting = Called(calls) /\ visiting \cap visited = {} /\ Acyclic(visited)
      /\ Called(calls) \subseteq known
  BY <1>1 DEF Checking, FamTypes
<1>8. /\ known' = known /\ sex' = sex /\ father' = father /\ mother' = mother
      /\ children' = children /\ currPerson' = currPerson
      /\ \A x, c : F!IsParent(x, c)' <=> F!IsParent(x, c)
      /\ Links' /\ (Acyclic(visited))' /\ (F!Cyclic' <=> F!Cyclic)
  BY <1>1, <1>7, SameTree DEF Acyclic
<1>9. u \in Calls(People) /\ u # <<>> /\ u[1].person = calls[1].person /\ Called(u) = Called(calls)
  <2>1. /\ u \in Calls(People) /\ DOMAIN u = 1 .. n
        /\ \A i \in 1 .. n : u[i].person = calls[i].person
    BY <1>1, GoneOnIs
  <2> HIDE DEF u
  <2>2. u # <<>> /\ u[1].person = calls[1].person
    BY <1>3, <2>1
  <2>3. Called(u) = Called(calls)
    BY <1>3, <2>1 DEF Called
  <2> QED
    BY <2>1, <2>2, <2>3
<1>10. CASE q \in visiting
  <2>1. error' = "cycle" /\ phase' = "done" /\ calls' = u /\ visiting' = visiting
    BY <1>1, <1>10 DEF F!CycleCheck, F!Exits
  <2>2. PICK j \in 1 .. n : q = calls[j].person
    BY <1>3, <1>7, <1>10 DEF Called
  <2>3. \A i \in DOMAIN calls : i + 1 \in DOMAIN calls => F!IsParent(calls[i].person, calls[i + 1].person)
    <3>1. SUFFICES ASSUME NEW i \in 1 .. n, i + 1 \in 1 .. n
                   PROVE  F!IsParent(calls[i].person, calls[i + 1].person)
      BY <1>3
    <3> DEFINE x == calls[i].person
               y == calls[i].next
    <3>2. x \in People /\ calls[i + 1].person \in People /\ y \in Nat \ {0}
      BY <1>1, <1>3, <3>1, GoneOnIs
    <3>3. y > 1 /\ calls[i + 1].person = children[x][y - 1] /\ y <= Len(children[x]) + 1
      BY <1>3, <1>7, <3>1 DEF Chain
    <3>4. y - 1 \in DOMAIN children[x]
      BY <1>2, <3>2, <3>3
    <3> HIDE DEF x, y
    <3> QED
      BY <1>1, <3>2, <3>3, <3>4, ParentsByLists DEF x
  <2>4. F!IsParent(calls[Len(calls)].person, calls[j].person) /\ j \in DOMAIN calls
    BY <1>3, <1>5, <2>2
  <2>5. \E S \in SUBSET Called(calls) : S # {} /\ \A x \in S : \E c \in S : F!IsParent(x, c)
    <3> HIDE DEF n, p, q
    <3> QED
      BY <1>1, <2>3, <2>4, ChainClosed
  <2>6. F!Cyclic'
    BY <1>7, <1>8, <2>5 DEF F!Cyclic
  <2>7. FamTypes'
    <3> HIDE DEF u
    <3> QED
      BY <1>1, <1>7, <1>8, <1>9, <2>1, ZenonT(40) DEF FamTypes, InPrinted, Called
  <2> QED
    BY <2>1, <2>6, <2>7 DEF FamInv
<1>11. CASE q \in visited /\ q \notin visiting
  <2>1. calls' = u /\ visiting' = visiting /\ error' = "none" /\ phase' = "checking"
    BY <1>1, <1>11 DEF F!CycleCheck
  <2>2. Chain(u, children, visited)
    BY <1>1, <1>2, <1>7, <1>11, ChainGoesOn
  <2> HIDE DEF u
  <2>3. Chain(calls, children, visited)'
    BY <1>1, <1>8, <2>1, <2>2 DEF Chain
  <2>4. Called(calls)' = Called(calls)
    BY <1>9, <2>1 DEF Called
  <2>5. Covered(visited)'
    BY <1>1, <1>7, <1>8, <1>9, <2>1 DEF Covered
  <2>6. Checking'
    BY <1>1, <1>7, <1>8, <2>1, <2>3, <2>4, <2>5 DEF Checking
  <2>7. FamTypes'
    BY <1>1, <1>8, <1>9, <2>1, <2>4 DEF FamTypes, InPrinted
  <2> QED
    BY <1>8, <2>1, <2>6, <2>7 DEF FamInv
<1>12. CASE q \notin visited /\ q \notin visiting
  <2>1. calls' = t /\ visiting' = visiting \cup {q} /\ error' = "none" /\ phase' = "checking"
    BY <1>1, <1>12 DEF F!CycleCheck
  <2>2. /\ t \in Calls(People) /\ Chain(t, children, visited) /\ Called(t) = Called(calls) \cup {q}
        /\ t # <<>> /\ t[1].person = calls[1].person
    <3>1. q \notin Called(calls)
      BY <1>7, <1>12
    <3>2. /\ m <= Len(children[p]) /\ q \in People \ Called(calls)
          /\ calls \in Calls(People) /\ calls # <<>> /\ Chain(calls, children, visited)
          /\ children \in [People -> Seq(People \cup {F!None})]
      BY <1>1, <1>2, <1>4, <1>7, <3>1
    <3>3. /\ Grown(calls, q) \in Calls(People) /\ Chain(Grown(calls, q), children, visited)
          /\ Called(Grown(calls, q)) = Called(calls) \cup {q}
          /\ Grown(calls, q) # <<>> /\ Grown(calls, q)[1].person = calls[1].person
      BY <3>2, ChainGrows
    <3> QED
      BY <3>3 DEF Grown
  <2> HIDE DEF t, q
  <2>3. Chain(calls, children, visited)'
    BY <1>1, <1>8, <2>1, <2>2 DEF Chain
  <2>4. Called(calls)' = Called(calls) \cup {q}
    BY <2>1, <2>2 DEF Called
  <2>5. Covered(visited)'
    BY <1>1, <1>7, <1>8, <2>1, <2>2 DEF Covered
  <2>6. Checking'
    BY <1>1, <1>7, <1>8, <1>12, <2>1, <2>3, <2>4, <2>5 DEF Checking
  <2>7. FamTypes'
    BY <1>1, <1>6, <1>7, <1>8, <2>1, <2>2, <2>4 DEF FamTypes, InPrinted
  <2> QED
    BY <1>8, <2>1, <2>6, <2>7 DEF FamInv
<1> QED
  BY <1>10, <1>11, <1>12

\* Somebody is done with when all their children are.
LEMMA PersonCheckedKeeps ==
    ASSUME F!FamtreeAssumption, FamInv, F!PersonChecked
    PROVE  FamInv'
<1> DEFINE n == Len(calls)
           p == calls[n].person
           t == F!Front(calls)
<1>1. /\ FamTypes /\ error = "none" /\ Links /\ phase = "checking" /\ Checking
      /\ calls # <<>> /\ calls \in Calls(People) /\ calls[n].next > Len(children[p])
      /\ visited' = visited \cup {p} /\ visiting' = visiting \ {p} /\ calls' = t
      /\ UNCHANGED F!treeVars /\ printed' = printed /\ toVisit' = toVisit /\ phase' = phase /\ error' = error
  BY DEF FamInv, F!PersonChecked, F!Caller, F!Last, FamTypes
<1>2. children \in [People -> Seq(People \cup {F!None})]
  BY <1>1, FamLists
<1>3. /\ Chain(calls, children, visited) /\ printed = <<>> /\ Covered(visited) /\ visited \subseteq known
      /\ \A x \in visited : \A c \in People : F!IsParent(x, c) => c \in visited
      /\ visiting = Called(calls) /\ visiting \cap visited = {} /\ Acyclic(visited)
      /\ Called(calls) \subseteq known /\ known \subseteq People
  BY <1>1 DEF Checking, FamTypes
<1>4. /\ t \in Calls(People) /\ Chain(t, children, visited \cup {p})
      /\ p \in People /\ Called(t) = Called(calls) \ {p} /\ p \in Called(calls)
      /\ \A k \in DOMAIN children[p] : children[p][k] \in visited
      /\ t = <<>> => calls[1].person = p
      /\ t # <<>> => t[1].person = calls[1].person
  BY <1>1, <1>2, <1>3, ChainReturns
<1> HIDE DEF p, t, n
<1>5. /\ known' = known /\ sex' = sex /\ father' = father /\ mother' = mother
      /\ children' = children /\ currPerson' = currPerson
      /\ \A x, c : F!IsParent(x, c)' <=> F!IsParent(x, c)
      /\ Links'
  BY <1>1, SameTree
<1>6. \A c \in People : F!IsParent(p, c) => c \in visited
  BY <1>1, <1>4, ParentsByLists
<1>7. p \notin visited /\ p \in known
  BY <1>3, <1>4
<1>8. Acyclic(visited \cup {p})
  <2>1. \A c \in visited \cup {p} : F!IsParent(p, c) => c \in visited
    BY <1>3, <1>6, <1>7
  <2>2. \A x \in visited : ~F!IsParent(x, p)
    BY <1>3, <1>4, <1>7
  <2> QED
    BY <1>3, <1>7, <2>1, <2>2, StaysAcyclic
<1>9. (Acyclic(visited))'
  BY <1>1, <1>5, <1>8 DEF Acyclic
<1>10. Chain(calls, children, visited)'
  BY <1>1, <1>4, <1>5 DEF Chain
<1>11. Called(calls)' = Called(calls) \ {p}
  BY <1>1, <1>4 DEF Called
<1>12. Covered(visited)'
  BY <1>1, <1>3, <1>4, <1>5 DEF Covered
<1>13. Checking'
  BY <1>1, <1>3, <1>5, <1>6, <1>7, <1>9, <1>10, <1>11, <1>12 DEF Checking
<1>14. FamTypes'
  BY <1>1, <1>3, <1>4, <1>5, <1>11 DEF FamTypes, InPrinted
<1> QED
  BY <1>1, <1>5, <1>13, <1>14 DEF FamInv

\* Everybody is visited: there is no cycle.
LEMMA NoCycleKeeps ==
    ASSUME FamInv, F!NoCycle
    PROVE  FamInv'
<1>1. /\ FamTypes /\ error = "none" /\ Links /\ phase = "checking" /\ Checking
      /\ calls = <<>> /\ toVisit = {} /\ phase' = "printing" /\ toVisit' = known
      /\ UNCHANGED F!treeVars /\ visiting' = visiting /\ visited' = visited /\ calls' = calls
      /\ printed' = printed /\ error' = error
  BY DEF FamInv, F!NoCycle
<1>2. printed = <<>> /\ Covered(visited) /\ visited \subseteq known /\ Acyclic(visited)
  BY <1>1 DEF Checking
<1>3. known = visited
  BY <1>1, <1>2 DEF Covered
<1>4. /\ known' = known /\ sex' = sex /\ father' = father /\ mother' = mother
      /\ children' = children /\ currPerson' = currPerson
      /\ \A x, c : F!IsParent(x, c)' <=> F!IsParent(x, c)
      /\ Links'
  BY <1>1, SameTree
<1>5. (Acyclic(known))'
  BY <1>2, <1>3, <1>4 DEF Acyclic
<1>6. Printing'
  BY <1>1, <1>2, <1>4, <1>5 DEF Printing, Chain, Called, InPrinted, Covered
<1>7. FamTypes'
  BY <1>1, <1>4 DEF FamTypes, Called, InPrinted, Calls
<1> QED
  BY <1>1, <1>4, <1>6, <1>7 DEF FamInv

\* Somebody is called who is neither printed nor called, or nobody is.
LEMMA PrintRoundKeeps ==
    ASSUME F!FamtreeAssumption, FamInv, F!PrintRound
    PROVE  FamInv'
<1> DEFINE p == F!Lowest(toVisit)
           t == Append(<<>>, F!Call(p))
<1>1. /\ FamTypes /\ error = "none" /\ Links /\ phase = "printing" /\ Printing
      /\ calls = <<>> /\ toVisit # {} /\ toVisit' = toVisit \ {p} /\ F!PrintPerson(p, <<>>)
      /\ UNCHANGED F!treeVars /\ printed' = printed /\ phase' = phase /\ error' = error
  BY DEF FamInv, F!PrintRound
<1>2. toVisit \subseteq known /\ known \subseteq People
  BY <1>1 DEF FamTypes
<1>3. p \in toVisit /\ p \in known /\ p \in People
  <2>1. toVisit \in SUBSET People /\ toVisit # {}
    BY <1>1, <1>2
  <2>2. p \in toVisit
    BY <2>1, LowestIsThere
  <2> QED
    BY <1>2, <2>2
<1>4. ParentLists \in [People -> Seq(People \cup {F!None})] /\ p # F!None
  BY <1>1, <1>3, FamLists DEF F!FamtreeAssumption
<1>5. /\ t \in Calls(People) /\ Chain(t, ParentLists, InPrinted \cup {F!None})
      /\ Called(t) = {p} /\ t # <<>> /\ t[1].person = p
  BY <1>3, <1>4, ChainStarts
<1>6. F!ToSet(printed) = InPrinted
  BY DEF F!ToSet, InPrinted
<1> HIDE DEF p, t
<1>7. /\ known' = known /\ sex' = sex /\ father' = father /\ mother' = mother
      /\ children' = children /\ currPerson' = currPerson /\ ParentLists' = ParentLists
      /\ \A x, c : F!IsParent(x, c)' <=> F!IsParent(x, c)
      /\ Links' /\ InPrinted' = InPrinted
  BY <1>1, SameTree DEF InPrinted
<1>8. (Acyclic(known))'
  BY <1>1, <1>7 DEF Acyclic, Printing
<1>9. Covered(InPrinted)
  BY <1>1 DEF Printing
<1>10. CASE p \in InPrinted
  <2>1. calls' = <<>>
    BY <1>1, <1>6, <1>10 DEF F!PrintPerson
  <2>2. Covered(InPrinted)'
    BY <1>1, <1>7, <1>9, <1>10, <2>1 DEF Covered
  <2>3. Printing'
    BY <1>1, <1>7, <1>8, <2>1, <2>2 DEF Printing, Chain, Called
  <2>4. FamTypes'
    BY <1>1, <1>2, <1>7, <2>1 DEF FamTypes, Called, Calls
  <2> QED
    BY <1>1, <1>7, <2>3, <2>4 DEF FamInv
<1>11. CASE p \notin InPrinted
  <2>1. calls' = t
    BY <1>1, <1>4, <1>6, <1>11 DEF F!PrintPerson, t
  <2>2. Covered(InPrinted)'
    BY <1>1, <1>5, <1>7, <1>9, <2>1 DEF Covered
  <2>3. Chain(calls, ParentLists, InPrinted \cup {F!None})'
    BY <1>5, <1>7, <2>1 DEF Chain
  <2>4. Called(calls)' = {p}
    BY <1>5, <2>1 DEF Called
  <2>5. Printing'
    BY <1>1, <1>7, <1>8, <1>11, <2>1, <2>2, <2>3, <2>4 DEF Printing
  <2>6. FamTypes'
    BY <1>1, <1>2, <1>3, <1>5, <1>7, <2>1, <2>4 DEF FamTypes
  <2> QED
    BY <1>1, <1>7, <2>5, <2>6 DEF FamInv
<1> QED
  BY <1>10, <1>11

\* The last call goes on to a parent: one who is called already would be in a cycle.
LEMMA PrintParentKeeps ==
    ASSUME F!FamtreeAssumption, FamInv, F!PrintParent
    PROVE  FamInv'
<1> DEFINE n == Len(calls)
           p == calls[n].person
           m == calls[n].next
           q == ParentLists[p][m]
           u == [calls EXCEPT ![n].next = @ + 1]
           done == InPrinted \cup {F!None}
<1>1. /\ FamTypes /\ error = "none" /\ Links /\ phase = "printing" /\ Printing
      /\ calls # <<>> /\ calls \in Calls(People)
      /\ UNCHANGED F!treeVars /\ toVisit' = toVisit /\ printed' = printed /\ phase' = phase /\ error' = error
  BY DEF FamInv, F!PrintParent, FamTypes
<1>2. /\ ParentLists \in [People -> Seq(People \cup {F!None})]
      /\ \A x \in People : /\ ParentLists[x] = F!ParentsOf(x) /\ Len(ParentLists[x]) = 2
                           /\ DOMAIN ParentLists[x] = {1, 2}
                           /\ ParentLists[x][1] = father[x] /\ ParentLists[x][2] = mother[x]
      /\ father \in [People -> People \cup {F!None}] /\ mother \in [People -> People \cup {F!None}]
  BY <1>1, FamLists DEF FamTypes
<1>3. n \in Nat \ {0} /\ DOMAIN calls = 1 .. n /\ n \in 1 .. n /\ p \in People /\ m \in Nat \ {0}
  <2>1. /\ n \in Nat \ {0} /\ DOMAIN calls = 1 .. n
        /\ \A i \in 1 .. n : calls[i].person \in People /\ calls[i].next \in Nat \ {0}
    BY <1>1, GoneOnIs
  <2> HIDE DEF n
  <2>2. n \in 1 .. n
    BY <2>1
  <2> QED
    BY <2>1, <2>2
<1>4. m <= Len(ParentLists[p]) /\ F!PrintPerson(q, u)
  <2>1. ParentLists[p] = F!ParentsOf(p)
    BY <1>2, <1>3
  <2> QED
    BY <2>1 DEF F!PrintParent, F!Caller, F!Last, F!GoneOn
<1>5. m \in DOMAIN ParentLists[p] /\ q \in People \cup {F!None}
  <2>1. m \in {1, 2}
    BY <1>2, <1>3, <1>4
  <2> QED
    BY <1>2, <1>3, <2>1
<1>6. F!ToSet(printed) = InPrinted
  BY DEF F!ToSet, InPrinted
<1>7. /\ Chain(calls, ParentLists, done) /\ Covered(InPrinted) /\ Called(calls) \subseteq known
      /\ Acyclic(known) /\ Called(calls) \cap InPrinted = {} /\ known \subseteq People
  BY <1>1 DEF Printing, FamTypes
<1>8. /\ known' = known /\ sex' = sex /\ father' = father /\ mother' = mother
      /\ children' = children /\ currPerson' = currPerson /\ ParentLists' = ParentLists
      /\ \A x, c : F!IsParent(x, c)' <=> F!IsParent(x, c)
      /\ Links' /\ InPrinted' = InPrinted
  BY <1>1, SameTree DEF InPrinted
<1>9. (Acyclic(known))'
  BY <1>7, <1>8 DEF Acyclic
<1>10. CASE q \in done
  <2>1. calls' = u
    BY <1>4, <1>6, <1>10 DEF F!PrintPerson
  <2>2. /\ u \in Calls(People) /\ Chain(u, ParentLists, done) /\ Called(u) = Called(calls)
        /\ u # <<>> /\ u[1].person = calls[1].person
    <3>1. /\ m <= Len(ParentLists[p]) /\ q \in done
          /\ calls \in Calls(People) /\ calls # <<>> /\ Chain(calls, ParentLists, done)
          /\ ParentLists \in [People -> Seq(People \cup {F!None})]
      BY <1>1, <1>2, <1>4, <1>7, <1>10
    <3> QED
      BY <3>1, ChainGoesOn, ZenonT(40)
  <2> HIDE DEF u
  <2>3. Chain(calls, ParentLists, InPrinted \cup {F!None})'
    BY <1>8, <2>1, <2>2 DEF Chain
  <2>4. Called(calls)' = Called(calls)
    BY <2>1, <2>2 DEF Called
  <2>5. Covered(InPrinted)'
    BY <1>1, <1>7, <1>8, <2>1, <2>2 DEF Covered
  <2>6. Printing'
    BY <1>1, <1>7, <1>8, <1>9, <2>3, <2>4, <2>5 DEF Printing
  <2>7. FamTypes'
    BY <1>1, <1>8, <2>1, <2>2, <2>4 DEF FamTypes
  <2> QED
    BY <1>1, <1>8, <2>6, <2>7 DEF FamInv
<1>11. CASE q \notin done
  <2>1. calls' = Grown(calls, q) /\ q \in People
    BY <1>4, <1>5, <1>6, <1>11 DEF F!PrintPerson, Grown
  <2>2. F!IsParent(q, p)
    BY <1>1, <1>3, <1>5, <2>1, ParentsByLists
  <2>3. q \in known
    BY <1>1, <1>3, <2>1, <2>2 DEF Links
  <2>4. \A i \in DOMAIN calls : i + 1 \in DOMAIN calls => F!IsParent(calls[i + 1].person, calls[i].person)
    <3>1. SUFFICES ASSUME NEW i \in 1 .. n, i + 1 \in 1 .. n
                   PROVE  F!IsParent(calls[i + 1].person, calls[i].person)
      BY <1>3
    <3> DEFINE x == calls[i].person
               y == calls[i].next
    <3>2. x \in People /\ calls[i + 1].person \in People /\ y \in Nat \ {0}
      BY <1>1, <1>3, <3>1, GoneOnIs
    <3>3. y > 1 /\ calls[i + 1].person = ParentLists[x][y - 1] /\ y <= Len(ParentLists[x]) + 1
      BY <1>3, <1>7, <3>1 DEF Chain
    <3>4. y - 1 \in DOMAIN ParentLists[x]
      BY <1>2, <3>2, <3>3
    <3> HIDE DEF x, y
    <3> QED
      BY <1>1, <3>2, <3>3, <3>4, ParentsByLists DEF x
  <2>5. q \notin Called(calls)
    <3>1. SUFFICES ASSUME q \in Called(calls)
                   PROVE  FALSE
      OBVIOUS
    <3>2. PICK j \in 1 .. n : q = calls[j].person
      BY <1>3, <3>1 DEF Called
    <3>3. F!IsParent(calls[j].person, calls[Len(calls)].person) /\ j \in DOMAIN calls
      BY <1>3, <2>2, <3>2
    <3>4. \E S \in SUBSET Called(calls) : S # {} /\ \A x \in S : \E c \in S : F!IsParent(x, c)
      <4> HIDE DEF n, p, q
      <4> QED
        BY <1>1, <2>4, <3>3, ChainClosed
    <3> QED
      BY <1>7, <3>4 DEF Acyclic
  <2>6. /\ Grown(calls, q) \in Calls(People) /\ Chain(Grown(calls, q), ParentLists, done)
        /\ Called(Grown(calls, q)) = Called(calls) \cup {q}
        /\ Grown(calls, q) # <<>> /\ Grown(calls, q)[1].person = calls[1].person
    <3>1. q \in People \ Called(calls)
      BY <2>1, <2>5
    <3>2. /\ m <= Len(ParentLists[p]) /\ q \in People \ Called(calls)
          /\ calls \in Calls(People) /\ calls # <<>> /\ Chain(calls, ParentLists, done)
          /\ ParentLists \in [People -> Seq(People \cup {F!None})]
      BY <1>1, <1>2, <1>4, <1>7, <3>1
    <3> HIDE DEF done
    <3> QED
      BY <3>2, ChainGrows
  <2> HIDE DEF q
  <2>7. Chain(calls, ParentLists, InPrinted \cup {F!None})'
    BY <1>8, <2>1, <2>6 DEF Chain
  <2>8. Called(calls)' = Called(calls) \cup {q}
    BY <2>1, <2>6 DEF Called
  <2>9. Covered(InPrinted)'
    BY <1>1, <1>7, <1>8, <2>1, <2>6 DEF Covered
  <2>10. Printing'
    BY <1>1, <1>7, <1>8, <1>9, <1>11, <2>7, <2>8, <2>9 DEF Printing
  <2>11. FamTypes'
    BY <1>1, <1>8, <2>1, <2>3, <2>6, <2>8 DEF FamTypes
  <2> QED
    BY <1>1, <1>8, <2>10, <2>11 DEF FamInv
<1> QED
  BY <1>10, <1>11

\* Somebody is printed when both parents are.
LEMMA PersonPrintedKeeps ==
    ASSUME F!FamtreeAssumption, FamInv, F!PersonPrinted
    PROVE  FamInv'
<1> DEFINE n == Len(calls)
           p == calls[n].person
           t == F!Front(calls)
           done == InPrinted \cup {F!None}
           l == Len(printed)
<1>1. /\ FamTypes /\ error = "none" /\ Links /\ phase = "printing" /\ Printing
      /\ calls # <<>> /\ calls \in Calls(People) /\ calls' = t
      /\ printed' = Append(printed, p)
      /\ UNCHANGED F!treeVars /\ toVisit' = toVisit /\ phase' = phase /\ error' = error
  BY DEF FamInv, F!PersonPrinted, F!Caller, F!Last, FamTypes
<1>2. /\ ParentLists \in [People -> Seq(People \cup {F!None})]
      /\ \A x \in People : ParentLists[x] = F!ParentsOf(x)
  BY <1>1, FamLists
<1>3. p \in People
  <2>1. /\ n \in Nat \ {0}
        /\ \A i \in 1 .. n : calls[i].person \in People
    BY <1>1, GoneOnIs
  <2> HIDE DEF n
  <2>2. n \in 1 .. n
    BY <2>1
  <2> QED
    BY <2>1, <2>2
<1>4. calls[n].next > Len(ParentLists[p])
  BY <1>2, <1>3 DEF F!PersonPrinted, F!Caller, F!Last
<1>5. /\ Chain(calls, ParentLists, done) /\ Covered(InPrinted) /\ Called(calls) \subseteq known
      /\ Acyclic(known) /\ Called(calls) \cap InPrinted = {} /\ known \subseteq People
      /\ \A i, j \in DOMAIN printed : printed[i] = printed[j] => i = j
      /\ \A j \in DOMAIN printed : \A x \in People :
            F!IsParent(x, printed[j]) => \E i \in DOMAIN printed : i < j /\ printed[i] = x
      /\ printed \in Seq(People) /\ InPrinted \subseteq known /\ toVisit \subseteq known
  BY <1>1 DEF Printing, FamTypes
<1>6. /\ t \in Calls(People) /\ Chain(t, ParentLists, done \cup {p})
      /\ Called(t) = Called(calls) \ {p} /\ p \in Called(calls)
      /\ \A k \in DOMAIN ParentLists[p] : ParentLists[p][k] \in done
      /\ t = <<>> => calls[1].person = p
      /\ t # <<>> => t[1].person = calls[1].person
  <2> HIDE DEF done
  <2> QED
    BY <1>1, <1>2, <1>4, <1>5, ChainReturns, ZenonT(40)
<1> HIDE DEF p, t, n
<1>7. /\ known' = known /\ sex' = sex /\ father' = father /\ mother' = mother
      /\ children' = children /\ currPerson' = currPerson /\ ParentLists' = ParentLists
      /\ \A x, c : F!IsParent(x, c)' <=> F!IsParent(x, c)
      /\ Links'
  BY <1>1, SameTree
<1>8. /\ l \in Nat /\ DOMAIN printed = 1 .. l /\ printed' \in Seq(People) /\ DOMAIN printed' = 1 .. l + 1
      /\ printed'[l + 1] = p /\ \A i \in 1 .. l : printed'[i] = printed[i] /\ i \in 1 .. l + 1
      /\ \A i \in 1 .. l + 1 : i \in 1 .. l \/ i = l + 1
  BY <1>1, <1>3, <1>5
<1> HIDE DEF l
<1>9. p \notin InPrinted /\ p \in known
  BY <1>5, <1>6
<1>10. InPrinted' = InPrinted \cup {p}
  <2>1. \A x : x \in InPrinted <=> \E i \in 1 .. l : printed[i] = x
    BY <1>8 DEF InPrinted
  <2>2. \A x : x \in InPrinted' <=> \E i \in 1 .. l + 1 : printed'[i] = x
    BY <1>8 DEF InPrinted
  <2>3. l + 1 \in 1 .. l + 1
    BY <1>8
  <2>4. \A x : x \in InPrinted' <=> x \in InPrinted \/ x = p
    BY <1>8, <2>1, <2>2, <2>3
  <2> QED
    BY <2>4
<1>11. \A i, j \in DOMAIN printed' : printed'[i] = printed'[j] => i = j
  <2>1. \A i \in 1 .. l : printed[i] # p
    BY <1>8, <1>9 DEF InPrinted
  <2> QED
    BY <1>5, <1>8, <2>1
<1>12. ASSUME NEW j \in 1 .. l + 1, NEW x \in People, F!IsParent(x, printed'[j])
       PROVE  \E i \in 1 .. l + 1 : i < j /\ printed'[i] = x
  <2>1. CASE j \in 1 .. l
    <3>1. PICK i \in 1 .. l : i < j /\ printed[i] = x
      BY <1>5, <1>8, <1>12, <2>1
    <3> QED
      BY <1>8, <3>1
  <2>2. CASE j = l + 1
    <3>1. \E k \in DOMAIN ParentLists[p] : ParentLists[p][k] = x
      BY <1>1, <1>3, <1>8, <1>12, <2>2, ParentsByLists
    <3>2. x \in InPrinted
      BY <1>6, <3>1 DEF F!FamtreeAssumption
    <3>3. PICK i \in 1 .. l : printed[i] = x
      BY <1>8, <3>2 DEF InPrinted
    <3>4. i < l + 1
      BY <1>8
    <3> QED
      BY <1>8, <2>2, <3>3, <3>4
  <2> QED
    BY <1>8, <2>1, <2>2
<1>13. Chain(calls, ParentLists, InPrinted \cup {F!None})'
  <2>1. done \cup {p} = InPrinted' \cup {F!None}
    BY <1>10
  <2>2. Chain(t, ParentLists, InPrinted' \cup {F!None})
    BY <1>6, <2>1
  <2> QED
    BY <1>1, <1>7, <2>2 DEF Chain
<1>14. Called(calls)' = Called(calls) \ {p}
  BY <1>1, <1>6 DEF Called
<1>15. Covered(InPrinted)'
  BY <1>1, <1>5, <1>6, <1>7, <1>10 DEF Covered
<1>16. (Acyclic(known))'
  BY <1>5, <1>7 DEF Acyclic
<1>17. Called(calls)' \cap InPrinted' = {}
  BY <1>5, <1>10, <1>14
<1>18. Printing'
  BY <1>7, <1>8, <1>11, <1>12, <1>13, <1>15, <1>16, <1>17 DEF Printing
<1>19. FamTypes'
  BY <1>1, <1>5, <1>6, <1>7, <1>8, <1>9, <1>10, <1>14 DEF FamTypes
<1> QED
  BY <1>1, <1>7, <1>18, <1>19 DEF FamInv

\* The end, and what changes nothing.
LEMMA EndKeeps ==
    ASSUME FamInv, F!Returns \/ UNCHANGED F!famVars
    PROVE  FamInv'
<1>1. UNCHANGED F!treeVars /\ UNCHANGED <<visiting, visited, toVisit, calls, printed, error>>
  BY DEF F!Returns, F!famVars, F!treeVars
<1>2. /\ known' = known /\ sex' = sex /\ father' = father /\ mother' = mother
      /\ children' = children /\ currPerson' = currPerson /\ ParentLists' = ParentLists
      /\ \A x, c : F!IsParent(x, c)' <=> F!IsParent(x, c)
      /\ (Links' <=> Links) /\ (F!Cyclic' <=> F!Cyclic) /\ \A S : Acyclic(S)' <=> Acyclic(S)
  BY <1>1, SameTree
<1>3. InPrinted' = InPrinted /\ Called(calls)' = Called(calls)
  BY <1>1 DEF InPrinted, Called
<1>4. Printing => Printing'
  BY <1>1, <1>2, <1>3 DEF Printing, Chain, Covered, Acyclic
<1>5. Checking => Checking'
  BY <1>1, <1>2, <1>3 DEF Checking, Chain, Covered, Acyclic
<1>6. CASE F!Returns
  <2>1. phase = "printing" /\ phase' = "done" /\ calls = <<>> /\ toVisit = {}
    BY <1>6 DEF F!Returns
  <2>2. FamTypes'
    BY <1>1, <1>2, <1>3, <2>1 DEF FamInv, FamTypes
  <2> QED
    BY <1>1, <1>2, <1>4, <2>1, <2>2 DEF FamInv
<1>7. CASE UNCHANGED F!famVars
  <2>1. phase' = phase
    BY <1>7 DEF F!famVars
  <2>2. FamTypes'
    BY <1>1, <1>2, <1>3, <2>1 DEF FamInv, FamTypes
  <2> QED
    BY <1>1, <1>2, <1>4, <1>5, <2>1, <2>2 DEF FamInv
<1> QED
  BY <1>6, <1>7

\* The lines of the input, and its end.
LEMMA ReadingKeeps ==
    ASSUME F!FamtreeAssumption, FamInv,
           \/ \E p \in People : \/ F!PersonLine(p)
                                \/ F!FatherLine(p) \/ F!MotherLine(p)
                                \/ F!FatherOfLine(p) \/ F!MotherOfLine(p)
           \/ \E s \in {"Male", "Female"} : F!SexLine(s)
           \/ F!EndOfInput
    PROVE  FamInv'
<1>1. /\ phase = "reading" /\ FamTypes /\ error = "none" /\ Links
      /\ visiting = {} /\ visited = {} /\ calls = <<>> /\ printed = <<>> /\ known \subseteq People
  BY DEF FamInv, FamTypes, F!PersonLine, F!FatherLine, F!MotherLine, F!FatherOfLine, F!MotherOfLine,
         F!SexLine, F!EndOfInput, F!Relative, F!Reads
<1>2. ASSUME NEW p \in People, F!PersonLine(p)
      PROVE  FamInv'
  <2>1. /\ known' = known \cup {p} /\ currPerson' = p /\ phase' = phase /\ error' = error
        /\ sex' = sex /\ father' = father /\ mother' = mother /\ children' = children
        /\ visiting' = visiting /\ visited' = visited /\ toVisit' = toVisit /\ calls' = calls /\ printed' = printed
    BY <1>2 DEF F!PersonLine, F!Reads
  <2>2. \A x, c : F!IsParent(x, c)' <=> F!IsParent(x, c)
    BY <2>1 DEF F!IsParent
  <2>3. Links'
    BY <1>1, <2>1, <2>2 DEF Links
  <2>4. FamTypes'
    BY <1>1, <2>1 DEF FamTypes, Called, InPrinted
  <2> QED
    BY <1>1, <2>1, <2>3, <2>4 DEF FamInv
<1>3. ASSUME NEW p \in People,
             F!FatherLine(p) \/ F!MotherLine(p) \/ F!FatherOfLine(p) \/ F!MotherOfLine(p)
      PROVE  FamInv'
  <2>1. F!Relative(p)
    BY <1>3 DEF F!FatherLine, F!MotherLine, F!FatherOfLine, F!MotherOfLine
  <2>2. /\ known' = known \cup {p} /\ currPerson' = currPerson /\ currPerson \in known
        /\ UNCHANGED <<visiting, visited, toVisit, calls, printed>>
    BY <1>1, <2>1 DEF F!Relative, F!Reads, FamTypes
  <2>3. /\ known \subseteq known' /\ known' \subseteq People /\ currPerson' \in known'
        /\ p \in known' /\ currPerson \in known'
    BY <1>1, <2>2
  <2>4. CASE F!FatherLine(p)
    BY <1>1, <2>2, <2>3, <2>4, ConnectKeeps DEF F!FatherLine
  <2>5. CASE F!MotherLine(p)
    BY <1>1, <2>2, <2>3, <2>5, ConnectKeeps DEF F!MotherLine
  <2>6. CASE F!FatherOfLine(p)
    BY <1>1, <2>2, <2>3, <2>6, ConnectKeeps DEF F!FatherOfLine
  <2>7. CASE F!MotherOfLine(p)
    BY <1>1, <2>2, <2>3, <2>7, ConnectKeeps DEF F!MotherOfLine
  <2> QED
    BY <1>3, <2>4, <2>5, <2>6, <2>7
<1>4. ASSUME NEW s \in {"Male", "Female"}, F!SexLine(s)
      PROVE  FamInv'
  <2>1. /\ known' = known \cup {currPerson} /\ currPerson' = currPerson /\ currPerson \in known
        /\ currPerson \in People /\ F!SexCheck(currPerson, s)
        /\ father' = father /\ mother' = mother /\ children' = children
        /\ visiting' = visiting /\ visited' = visited /\ toVisit' = toVisit /\ calls' = calls /\ printed' = printed
    BY <1>1, <1>4 DEF F!SexLine, F!Relative, F!Reads, FamTypes
  <2>2. known' = known /\ \A x, c : F!IsParent(x, c)' <=> F!IsParent(x, c)
    BY <2>1 DEF F!IsParent
  <2>3. CASE sex[currPerson] \notin {"Unknown", s}
    <3>1. error' # "none" /\ error' # "cycle" /\ phase' = "done" /\ sex' = sex
      BY <2>1, <2>3 DEF F!SexCheck, F!Exits
    <3> QED
      BY <1>1, <2>1, <2>2, <3>1 DEF FamInv, FamTypes, Called, InPrinted
  <2>4. CASE sex[currPerson] \in {"Unknown", s}
    <3>1. sex' = [sex EXCEPT ![currPerson] = s] /\ error' = error /\ phase' = phase
      BY <2>1, <2>4 DEF F!SexCheck
    <3>2. /\ sex' \in [People -> {"Unknown", "Male", "Female"}]
          /\ \A x \in People : sex[x] # "Unknown" => sex'[x] = sex[x]
      BY <1>1, <2>1, <2>4, <3>1 DEF FamTypes
    <3>3. Links'
      <4>1. ASSUME NEW c \in People
            PROVE  /\ father[c] # F!None => sex'[father[c]] = "Male"
                   /\ mother[c] # F!None => sex'[mother[c]] = "Female"
        <5>1. /\ father[c] # F!None => father[c] \in People /\ sex[father[c]] = "Male"
              /\ mother[c] # F!None => mother[c] \in People /\ sex[mother[c]] = "Female"
          BY <1>1 DEF Links, FamTypes
        <5> QED
          BY <3>2, <5>1
      <4> QED
        BY <1>1, <2>1, <2>2, <4>1 DEF Links
    <3>4. FamTypes'
      BY <1>1, <2>1, <2>2, <3>1, <3>2 DEF FamTypes, Called, InPrinted
    <3> QED
      BY <1>1, <2>1, <3>1, <3>3, <3>4 DEF FamInv
  <2> QED
    BY <2>3, <2>4
<1>5. CASE F!EndOfInput
  <2>1. /\ phase' = "checking" /\ toVisit' = known /\ UNCHANGED F!treeVars /\ error' = error
        /\ visiting' = visiting /\ visited' = visited /\ calls' = calls /\ printed' = printed
    BY <1>5 DEF F!EndOfInput
  <2>2. /\ known' = known /\ sex' = sex /\ father' = father /\ mother' = mother
        /\ children' = children /\ currPerson' = currPerson /\ Links'
    BY <1>1, <2>1, SameTree
  <2>3. Checking'
    BY <1>1, <2>1, <2>2 DEF Checking, Chain, Covered, Called, Acyclic
  <2>4. FamTypes'
    BY <1>1, <2>1, <2>2 DEF FamTypes, Called, InPrinted
  <2> QED
    BY <1>1, <2>1, <2>2, <2>3, <2>4 DEF FamInv
<1> QED
  BY <1>2, <1>3, <1>4, <1>5

\* In every state of famtree.c the tree, the traversals and their calls are as said above.
THEOREM FamtreeInvariant == F!Spec => []FamInv
<1> SUFFICES ASSUME F!FamtreeAssumption
             PROVE  F!Spec => []FamInv
  BY ProgramsAssumption DEF ProgramsAssumption
<1>1. F!Init => FamInv
  <2> SUFFICES ASSUME F!Init
               PROVE  FamInv
    OBVIOUS
  <2>1. FamTypes
    BY DEF F!Init, FamTypes, Calls, Called, InPrinted
  <2>2. \A p, c \in People : ~F!IsParent(p, c)
    BY DEF F!Init, F!IsParent, F!FamtreeAssumption
  <2>3. Links
    BY <2>2 DEF F!Init, Links
  <2> QED
    BY <2>1, <2>3 DEF F!Init, FamInv
<1>2. FamInv /\ [F!Next]_F!famVars => FamInv'
  <2> SUFFICES ASSUME FamInv, [F!Next]_F!famVars
               PROVE  FamInv'
    OBVIOUS
  <2>1. CASE \/ \E p \in People : \/ F!PersonLine(p)
                                  \/ F!FatherLine(p) \/ F!MotherLine(p)
                                  \/ F!FatherOfLine(p) \/ F!MotherOfLine(p)
             \/ \E s \in {"Male", "Female"} : F!SexLine(s)
             \/ F!EndOfInput
    BY <2>1, ReadingKeeps
  <2>2. CASE F!CheckPerson
    BY <2>2, CheckPersonKeeps
  <2>3. CASE F!CheckChild
    BY <2>3, CheckChildKeeps
  <2>4. CASE F!PersonChecked
    BY <2>4, PersonCheckedKeeps
  <2>5. CASE F!NoCycle
    BY <2>5, NoCycleKeeps
  <2>6. CASE F!PrintRound
    BY <2>6, PrintRoundKeeps
  <2>7. CASE F!PrintParent
    BY <2>7, PrintParentKeeps
  <2>8. CASE F!PersonPrinted
    BY <2>8, PersonPrintedKeeps
  <2>9. CASE F!Returns \/ UNCHANGED F!famVars
    BY <2>9, EndKeeps
  <2> QED
    BY <2>1, <2>2, <2>3, <2>4, <2>5, <2>6, <2>7, <2>8, <2>9 DEF F!Next
<1> QED
  BY <1>1, <1>2, PTL DEF F!Spec

\* Whoever is a child's parent has it among the children, once, and the other way round; fathers
\* are male and mothers female.  connection_check() and sex_check() keep this for every input.
THEOREM LinksStayInAgreement == F!Spec => []LinksAgree
<1>1. FamInv => F!LinksAgree
  <2> SUFFICES ASSUME FamInv, error = "none"
               PROVE  /\ \A p, c \in People : c \in F!ToSet(children[p]) <=> F!IsParent(p, c)
                      /\ \A p \in People : F!IsInjective(children[p])
                      /\ \A c \in People : /\ father[c] # F!None => sex[father[c]] = "Male"
                                           /\ mother[c] # F!None => sex[mother[c]] = "Female"
    BY DEF F!LinksAgree
  <2>1. Links
    BY DEF FamInv
  <2>2. \A p \in People : \A c : c \in F!ToSet(children[p]) <=> \E k \in DOMAIN children[p] : children[p][k] = c
    BY DEF F!ToSet
  <2>3. \A p \in People : F!IsInjective(children[p])
    BY <2>1 DEF Links, F!IsInjective
  <2> QED
    BY <2>1, <2>2, <2>3 DEF Links
<1>2. FamInv => LinksAgree
  BY <1>1 DEF LinksAgree
<1> QED
  BY <1>2, FamtreeInvariant, PTL

\* cycle_check() finds a cycle if there is one and no other, and then print() prints everybody,
\* once, after their parents, in every tree of any size.
THEOREM ParentsArePrintedFirst == F!Spec => []PrintedAfterParents
<1> SUFFICES ASSUME F!FamtreeAssumption
             PROVE  F!Spec => []PrintedAfterParents
  BY ProgramsAssumption DEF ProgramsAssumption
<1>1. FamInv => F!PrintedAfterParents
  <2> SUFFICES ASSUME FamInv
               PROVE  F!PrintedAfterParents
    OBVIOUS
  <2>1. error = "cycle" => F!Cyclic
    BY DEF FamInv
  <2>2. phase = "printing" => ~F!Cyclic
    <3> SUFFICES ASSUME phase = "printing", NEW S \in (SUBSET known) \ {{}}
                 PROVE  ~\A p \in S : \E c \in S : F!IsParent(p, c)
      BY DEF F!Cyclic
    <3>1. Acyclic(known)
      BY DEF FamInv, Printing
    <3>2. S \in SUBSET known /\ S # {}
      OBVIOUS
    <3>3. \E p \in S : \A c \in S : ~F!IsParent(p, c)
      BY <3>1, <3>2 DEF Acyclic
    <3> QED
      BY <3>3
  <2>3. ASSUME phase = "done", error = "none"
        PROVE  /\ F!ToSet(printed) = known /\ F!IsInjective(printed)
               /\ \A i, j \in DOMAIN printed : F!IsParent(printed[i], printed[j]) => i < j
    <3>1. Printing /\ calls = <<>> /\ toVisit = {} /\ InPrinted \subseteq known /\ printed \in Seq(People)
      BY <2>3 DEF FamInv, FamTypes
    <3>2. F!ToSet(printed) = InPrinted
      BY DEF F!ToSet, InPrinted
    <3>3. known \subseteq InPrinted
      BY <3>1 DEF Printing, Covered
    <3>4. F!IsInjective(printed)
      BY <3>1 DEF Printing, F!IsInjective
    <3>5. ASSUME NEW i \in DOMAIN printed, NEW j \in DOMAIN printed, F!IsParent(printed[i], printed[j])
          PROVE  i < j
      <4>1. printed[i] \in People
        BY <3>1
      <4>2. PICK k \in DOMAIN printed : k < j /\ printed[k] = printed[i]
        BY <3>1, <3>5, <4>1 DEF Printing
      <4>3. k = i
        BY <3>1, <4>2 DEF Printing
      <4> QED
        BY <4>2, <4>3
    <3> QED
      BY <3>1, <3>2, <3>3, <3>4, <3>5
  <2> QED
    BY <2>1, <2>2, <2>3 DEF F!PrintedAfterParents
<1>2. FamInv => PrintedAfterParents
  BY <1>1 DEF PrintedAfterParents
<1> QED
  BY <1>2, FamtreeInvariant, PTL

-----------------------------------------------------------------------------
(* chain_heal.c *)

\* The paths there are, from whatever node they begin with.
IsPath(p) ==
    /\ p \in Seq(G!Nodes) /\ p # <<>> /\ Len(p) <= team.num_jumps
    /\ G!WithinRange(team.urgosa, p[1], team.initial_range)
    /\ \A i, j \in 1 .. Len(p) : p[i] = p[j] => i = j
    /\ \A k \in 1 .. Len(p) - 1 : G!WithinRange(p[k], p[k + 1], team.jump_range)

\* One of the inputs.
TeamIs(t) ==
    /\ t.at \in Seq(Int \X Int) /\ t.need \in [DOMAIN t.at -> Int] /\ t.urgosa \in DOMAIN t.at
    /\ t.initial_range \in Int /\ t.jump_range \in Int /\ t.num_jumps \in Int
    /\ t.initial_power \in Int /\ t.reduction \in Int

\* h says what happens at the first m nodes of p.
HopsTo(h, p, m) ==
    \A k \in 1 .. m : h[k] = IF k = 1 THEN G!Hop(p[1], G!InitialPower, 0)
                             ELSE G!Hop(p[k], G!Reduced(h[k - 1].power), h[k - 1].total)

\* Powers are fractions.
Powers == [num : Int, den : Nat \ {0}]

\* The nodes are numbered from 1.
LEMMA NodesAre ==
    ASSUME TeamIs(team)
    PROVE  G!Nodes = 1 .. Len(team.at) /\ Len(team.at) \in Nat /\ G!NoNode \notin G!Nodes
BY DEF TeamIs, G!Nodes, G!NoNode

\* What the properties call Paths are those that begin with a node main() has been through.
LEMMA PathsAre ==
    ASSUME TeamIs(team), NEW p
    PROVE  p \in G!Paths <=> IsPath(p) /\ p[1] <= started
<1> DEFINE S == G!Nodes
           n == team.num_jumps
<1>1. n \in Int
  BY DEF TeamIs
<1>2. p \in G!SeqOf(S, n) => p \in Seq(S) /\ Len(p) <= n
  BY <1>1 DEF G!SeqOf
<1>3. p \in Seq(S) /\ Len(p) <= n => p \in G!SeqOf(S, n)
  <2> SUFFICES ASSUME p \in Seq(S), Len(p) <= n
               PROVE  p \in G!SeqOf(S, n)
    OBVIOUS
  <2>1. Len(p) \in 0 .. n /\ p \in [1 .. Len(p) -> S]
    BY <1>1
  <2> QED
    BY <2>1 DEF G!SeqOf
<1>4. p \in Seq(S) => DOMAIN p = 1 .. Len(p)
  OBVIOUS
<1> HIDE DEF S, n
<1> QED
  BY <1>2, <1>3, <1>4 DEF IsPath, G!Paths, G!IsInjective, S, n

\* rint() of a power, and what is healed with it, is an integer; a reduced power is a power.
LEMMA PowerTypes ==
    ASSUME TeamIs(team), NEW power \in Powers
    PROVE  /\ G!Reduced(power) \in Powers
           /\ G!Rint(power) \in Int
           /\ \A n \in G!Nodes : G!Heal(n, power) \in Int
<1>1. power.num * (4 - team.reduction) \in Int /\ power.den * 4 \in Nat \ {0}
  <2>1. \A a, b \in Int : a * (4 - b) \in Int
    OBVIOUS
  <2>2. \A a \in Nat \ {0} : a * 4 \in Nat \ {0}
    OBVIOUS
  <2>3. power.num \in Int /\ team.reduction \in Int /\ power.den \in Nat \ {0}
    BY DEF TeamIs, Powers
  <2> QED
    BY <2>1, <2>2, <2>3
<1>2. G!Reduced(power) \in Powers
  BY <1>1 DEF G!Reduced, Powers
<1>3. power.num \div power.den \in Int
  BY DEF Powers
<1>4. G!Rint(power) \in Int
  BY <1>3 DEF G!Rint
<1> QED
  BY <1>2, <1>4 DEF TeamIs, G!Nodes, G!Heal

LEMMA InitialTypes == TeamIs(team) => G!InitialPower \in Powers
BY DEF TeamIs, Powers, G!InitialPower

\* There is one way only to say it.
LEMMA HopsAgree ==
    ASSUME NEW p, NEW m \in Nat, NEW h, HopsTo(h, p, m), NEW j, HopsTo(j, p, m)
    PROVE  \A k \in 1 .. m : h[k] = j[k]
<1> DEFINE S == {k \in 1 .. m : h[k] # j[k]}
<1> SUFFICES ASSUME S # {}
             PROVE  FALSE
  OBVIOUS
<1>1. PICK k \in S : \A i \in S : k <= i
  BY LeastNumber, S \in SUBSET Nat
<1>2. k \in 1 .. m /\ h[k] # j[k]
  BY <1>1
<1>3. CASE k = 1
  BY <1>2, <1>3 DEF HopsTo
<1>4. CASE k # 1
  <2>1. k - 1 \in 1 .. m /\ h[k - 1] = j[k - 1]
    BY <1>1, <1>2, <1>4
  <2> QED
    BY <2>1, <1>2, <1>4 DEF HopsTo
<1> QED
  BY <1>3, <1>4

\* What happens at a path is defined.
LEMMA HopsExist ==
    ASSUME NEW p, NEW n \in Nat
    PROVE  \E h : /\ h = [k \in 1 .. n |-> IF k = 1 THEN G!Hop(p[1], G!InitialPower, 0)
                                          ELSE G!Hop(p[k], G!Reduced(h[k - 1].power), h[k - 1].total)]
<1> DEFINE Is(h, m) ==
             h = [k \in 1 .. m |-> IF k = 1 THEN G!Hop(p[1], G!InitialPower, 0)
                                   ELSE G!Hop(p[k], G!Reduced(h[k - 1].power), h[k - 1].total)]
           S == {m \in Nat : ~ \E h : Is(h, m)}
<1> SUFFICES ASSUME S # {}
             PROVE  FALSE
  BY ZenonT(40)
<1>1. PICK m \in S : \A i \in S : m <= i
  BY LeastNumber, S \in SUBSET Nat
<1>2. m \in Nat /\ ~ \E h : Is(h, m)
  BY <1>1
<1>3. CASE m = 0
  <2>1. Is([k \in 1 .. 0 |-> 0], 0)
    OBVIOUS
  <2> QED
    BY <2>1, <1>2, <1>3
<1>4. CASE m # 0
  <2>1. m - 1 \in Nat /\ m - 1 \notin S
    <3> HIDE DEF S
    <3> QED
      BY <1>1, <1>2, <1>4
  <2>2. PICK h : Is(h, m - 1)
    BY <2>1
  <2> DEFINE new == [k \in 1 .. m |-> IF k < m THEN h[k]
                                      ELSE IF k = 1 THEN G!Hop(p[1], G!InitialPower, 0)
                                      ELSE G!Hop(p[k], G!Reduced(h[k - 1].power), h[k - 1].total)]
  <2>3. \A k \in 1 .. m - 1 : h[k] = IF k = 1 THEN G!Hop(p[1], G!InitialPower, 0)
                                    ELSE G!Hop(p[k], G!Reduced(h[k - 1].power), h[k - 1].total)
    BY <2>2
  <2>4. \A k \in 1 .. m : new[k] = IF k = 1 THEN G!Hop(p[1], G!InitialPower, 0)
                                  ELSE G!Hop(p[k], G!Reduced(new[k - 1].power), new[k - 1].total)
    <3> SUFFICES ASSUME NEW k \in 1 .. m
                 PROVE  new[k] = IF k = 1 THEN G!Hop(p[1], G!InitialPower, 0)
                                 ELSE G!Hop(p[k], G!Reduced(new[k - 1].power), new[k - 1].total)
      OBVIOUS
    <3>1. k # 1 => k - 1 \in 1 .. m /\ new[k - 1] = h[k - 1]
      BY <1>2
    <3>2. CASE k < m
      <4>1. k \in 1 .. m - 1 /\ new[k] = h[k]
        BY <3>2, <1>2
      <4> HIDE DEF new
      <4> QED
        BY <4>1, <3>1, <2>3
    <3>3. CASE k = m
      <4>1. new[k] = IF k = 1 THEN G!Hop(p[1], G!InitialPower, 0)
                     ELSE G!Hop(p[k], G!Reduced(h[k - 1].power), h[k - 1].total)
        BY <3>3
      <4> HIDE DEF new
      <4> QED
        BY <4>1, <3>1
    <3> QED
      BY <3>2, <3>3, <1>2
  <2>5. new = [k \in 1 .. m |-> new[k]]
    OBVIOUS
  <2>6. Is(new, m)
    <3> HIDE DEF new
    <3> QED
      BY <2>4, <2>5
  <2> HIDE DEF new
  <2> QED
    BY <2>6, <1>2
<1> QED
  BY <1>3, <1>4

\* Hops(path) is what it is defined to be.
LEMMA HopsAre ==
    ASSUME TeamIs(team), NEW p \in Seq(G!Nodes)
    PROVE  HopsTo(G!Hops(p), p, Len(p)) /\ DOMAIN G!Hops(p) = 1 .. Len(p)
<1> DEFINE Is(h) ==
             h = [k \in 1 .. Len(p) |-> IF k = 1 THEN G!Hop(p[1], G!InitialPower, 0)
                                        ELSE G!Hop(p[k], G!Reduced(h[k - 1].power), h[k - 1].total)]
<1>1. \E h : Is(h)
  BY HopsExist
<1>2. G!Hops(p) = CHOOSE h : Is(h)
  BY DEF G!Hops
<1>3. Is(G!Hops(p))
  <2> HIDE DEF Is
  <2> QED
    BY <1>1, <1>2
<1> QED
  BY <1>3 DEF HopsTo

\* Totals are integers.
LEMMA HopTypes ==
    ASSUME TeamIs(team), NEW p \in Seq(G!Nodes), NEW h, HopsTo(h, p, Len(p))
    PROVE  \A k \in 1 .. Len(p) : h[k].power \in Powers /\ h[k].heal \in Int /\ h[k].total \in Int
<1> DEFINE Ok(k) == h[k].power \in Powers /\ h[k].heal \in Int /\ h[k].total \in Int
           S == {k \in 1 .. Len(p) : ~ Ok(k)}
<1> SUFFICES ASSUME S # {}
             PROVE  FALSE
  OBVIOUS
<1>1. PICK k \in S : \A i \in S : k <= i
  BY LeastNumber, S \in SUBSET Nat
<1>2. k \in 1 .. Len(p) /\ ~ Ok(k) /\ p[k] \in G!Nodes
  BY <1>1
<1>3. \A power \in Powers : \A n \in G!Nodes, before \in Int :
         /\ G!Hop(n, power, before).power = power
         /\ G!Hop(n, power, before).heal \in Int /\ G!Hop(n, power, before).total \in Int
  <2>1. \A n, power, before : /\ G!Hop(n, power, before).power = power
                              /\ G!Hop(n, power, before).heal = G!Heal(n, power)
                              /\ G!Hop(n, power, before).total = before + G!Heal(n, power)
    BY DEF G!Hop
  <2>2. ASSUME NEW power \in Powers, NEW n \in G!Nodes
        PROVE  G!Heal(n, power) \in Int
    BY PowerTypes
  <2> QED
    BY <2>1, <2>2
<1>4. CASE k = 1
  <2>1. h[k] = G!Hop(p[k], G!InitialPower, 0)
    BY <1>2, <1>4 DEF HopsTo
  <2> QED
    BY <2>1, <1>2, <1>3, InitialTypes
<1>5. CASE k # 1
  <2>1. k - 1 \in 1 .. Len(p) /\ Ok(k - 1)
    BY <1>1, <1>2, <1>5
  <2>2. h[k] = G!Hop(p[k], G!Reduced(h[k - 1].power), h[k - 1].total)
    BY <1>2, <1>5 DEF HopsTo
  <2>3. G!Reduced(h[k - 1].power) \in Powers /\ h[k - 1].total \in Int
    BY <2>1, PowerTypes
  <2> HIDE DEF S
  <2> QED
    BY <2>2, <2>3, <1>2, <1>3
<1> QED
  BY <1>4, <1>5

\* The calls of DFS() that have not returned, the marks, pointers and heals of their nodes, and the
\* node main() is at: the nodes are a path, and each call has what the one below has left it.
HealCalls == [node : G!Nodes, tried : Nat, total : Int, power : Powers]
Way(s) == [i \in 1 .. Len(s) |-> s[i].node]
PowerAt(s, i) == IF i = 1 THEN G!InitialPower ELSE s[i - 1].power
TotalAt(s, i) == IF i = 1 THEN 0 ELSE s[i - 1].total
FromAt(s, i) == IF i = 1 THEN G!NoNode ELSE s[i - 1].node

OnPath(s, marks, links, heals, first) ==
    /\ s \in Seq(HealCalls)
    /\ s # <<>> => IsPath(Way(s)) /\ s[1].node = first
    /\ marks = {s[i].node : i \in 1 .. Len(s)}
    /\ links \in [G!Nodes -> Nat] /\ heals \in [G!Nodes -> Int]
    /\ \A i \in 1 .. Len(s) : /\ links[s[i].node] = FromAt(s, i)
                              /\ heals[s[i].node] = G!Heal(s[i].node, PowerAt(s, i))
                              /\ s[i].total = TotalAt(s, i) + heals[s[i].node]
                              /\ s[i].power = G!Reduced(PowerAt(s, i))

\* What is recorded is a path there is, with its total and what heals each node of it.
IsRecorded(total, path, heals, first) ==
    /\ total \in Nat
    /\ total > 0 => \E q : /\ IsPath(q) /\ q[1] <= first
                           /\ path = G!Reverse(q) /\ total = G!Total(q)
                           /\ heals = [i \in 1 .. Len(q) |-> G!Hops(q)[Len(q) + 1 - i].heal]

\* A path the calls have still to come to: it leaves one of them to a neighbour not tried yet.
ToCome(p, s) ==
    \E i \in 1 .. Len(s) : i < Len(p) /\ (\A j \in 1 .. i : p[j] = s[j].node) /\ p[i + 1] > s[i].tried

\* A path that begins with the nodes of the calls, and then n.
Begins(p, s, n) == Len(p) > Len(s) /\ (\A j \in 1 .. Len(s) : p[j] = s[j].node) /\ p[Len(s) + 1] = n

\* A call has a node, one of its neighbours or 0, a total and a power.
LEMMA CallsAre ==
    ASSUME NEW s \in Seq(HealCalls), NEW i \in 1 .. Len(s)
    PROVE  s[i].node \in G!Nodes /\ s[i].tried \in Nat /\ s[i].total \in Int /\ s[i].power \in Powers
<1>1. s[i] \in HealCalls
  OBVIOUS
<1> QED
  BY <1>1 DEF HealCalls

\* The powers and totals of the calls are those of the path.
LEMMA HopsOfWay ==
    ASSUME TeamIs(team), NEW s, NEW marks, NEW links, NEW heals, NEW first,
           OnPath(s, marks, links, heals, first)
    PROVE  /\ \A k \in 1 .. Len(s) : /\ G!Hops(Way(s))[k].heal = heals[s[k].node]
                                     /\ G!Hops(Way(s))[k].total = s[k].total
           /\ s # <<>> => G!Total(Way(s)) = s[Len(s)].total
<1> DEFINE h == [k \in 1 .. Len(s) |->
                   [power |-> PowerAt(s, k), heal |-> heals[s[k].node], total |-> s[k].total]]
<1>1. s \in Seq(HealCalls) /\ Len(s) \in Nat
  BY DEF OnPath
<1>2. Way(s) \in Seq(G!Nodes) /\ Len(Way(s)) = Len(s) /\ \A k \in 1 .. Len(s) : Way(s)[k] = s[k].node
  <2>1. \A k \in 1 .. Len(s) : s[k].node \in G!Nodes
    BY <1>1, CallsAre
  <2> QED
    BY <1>1, <2>1 DEF Way
<1>3. HopsTo(h, Way(s), Len(s))
  <2> SUFFICES ASSUME NEW k \in 1 .. Len(s)
               PROVE  h[k] = IF k = 1 THEN G!Hop(Way(s)[1], G!InitialPower, 0)
                             ELSE G!Hop(Way(s)[k], G!Reduced(h[k - 1].power), h[k - 1].total)
    BY DEF HopsTo
  <2>1. h[k] = G!Hop(Way(s)[k], PowerAt(s, k), TotalAt(s, k))
    BY <1>2 DEF OnPath, G!Hop
  <2>2. CASE k = 1
    BY <2>1, <2>2 DEF PowerAt, TotalAt
  <2>3. CASE k # 1
    <3>1. k - 1 \in 1 .. Len(s)
      BY <2>3
    <3>2. h[k - 1].power = PowerAt(s, k - 1) /\ h[k - 1].total = s[k - 1].total
      BY <3>1
    <3>3. s[k - 1].power = G!Reduced(PowerAt(s, k - 1))
      BY <3>1 DEF OnPath
    <3>4. PowerAt(s, k) = s[k - 1].power /\ TotalAt(s, k) = s[k - 1].total
      BY <2>3 DEF PowerAt, TotalAt
    <3> HIDE DEF h
    <3> QED
      BY <2>1, <2>3, <3>2, <3>3, <3>4
  <2> QED
    BY <2>2, <2>3
<1>4. HopsTo(G!Hops(Way(s)), Way(s), Len(s))
  BY <1>2, HopsAre
<1>5. \A k \in 1 .. Len(s) : G!Hops(Way(s))[k] = h[k]
  <2>1. \A j, q : HopsTo(j, Way(s), Len(s)) /\ HopsTo(q, Way(s), Len(s)) => \A k \in 1 .. Len(s) : j[k] = q[k]
    BY <1>1, HopsAgree
  <2> HIDE DEF h
  <2> QED
    BY <1>3, <1>4, <2>1
<1>6. s # <<>> => Len(s) \in 1 .. Len(s)
  BY <1>1
<1>7. \A k \in 1 .. Len(s) : G!Hops(Way(s))[k].heal = heals[s[k].node] /\ G!Hops(Way(s))[k].total = s[k].total
  <2>1. \A k \in 1 .. Len(s) : h[k].heal = heals[s[k].node] /\ h[k].total = s[k].total
    OBVIOUS
  <2> HIDE DEF h
  <2> QED
    BY <1>5, <2>1
<1>8. s # <<>> => G!Total(Way(s)) = G!Hops(Way(s))[Len(s)].total
  BY <1>2 DEF G!Total
<1> HIDE DEF h
<1> QED
  BY <1>6, <1>7, <1>8

\* Going back along the pointers gives the path, backwards.
LEMMA BackwardsIs ==
    ASSUME TeamIs(team), NEW s, NEW marks, NEW links, NEW heals, NEW first,
           OnPath(s, marks, links, heals, first), s # <<>>
    PROVE  G!Backwards(s[Len(s)].node, links) = G!Reverse(Way(s))
<1> DEFINE S == G!Nodes
           n == s[Len(s)].node
           w == G!Reverse(Way(s))
           Is(p) == /\ p # <<>> /\ p[1] = n
                    /\ \A i \in DOMAIN p : links[p[i]] = IF i = Len(p) THEN G!NoNode ELSE p[i + 1]
           P == G!SeqOf(S, team.num_jumps)
<1>1. s \in Seq(HealCalls) /\ Len(s) \in Nat \ {0} /\ \A k \in 1 .. Len(s) : s[k].node \in S
  BY CallsAre DEF OnPath
<1>2. w \in Seq(S) /\ Len(w) = Len(s) /\ \A k \in 1 .. Len(s) : w[k] = s[Len(s) + 1 - k].node
  <2>1. Way(s) \in Seq(S) /\ Len(Way(s)) = Len(s) /\ \A k \in 1 .. Len(s) : Way(s)[k] = s[k].node
    BY <1>1 DEF Way
  <2>2. \A k \in 1 .. Len(s) : Len(s) - k + 1 \in 1 .. Len(s) /\ Len(s) - k + 1 = Len(s) + 1 - k
    BY <1>1
  <2> QED
    BY <1>1, <2>1, <2>2 DEF G!Reverse
<1>3. Len(s) <= team.num_jumps /\ team.num_jumps \in Int
  <2>1. Len(Way(s)) = Len(s)
    BY <1>1 DEF Way
  <2> QED
    BY <2>1 DEF OnPath, IsPath, TeamIs
<1>4. \A p \in P : p \in Seq(S)
  BY <1>3 DEF G!SeqOf
<1>5. w \in P
  <2>1. Len(w) \in 0 .. team.num_jumps /\ w \in [1 .. Len(w) -> S]
    BY <1>1, <1>2, <1>3
  <2> HIDE DEF w, S
  <2> QED
    BY <2>1 DEF G!SeqOf
<1>6. \A k \in 1 .. Len(s) : links[w[k]] = IF k = Len(s) THEN G!NoNode ELSE w[k + 1]
  <2> SUFFICES ASSUME NEW k \in 1 .. Len(s)
               PROVE  links[w[k]] = IF k = Len(s) THEN G!NoNode ELSE w[k + 1]
    OBVIOUS
  <2>1. Len(s) + 1 - k \in 1 .. Len(s) /\ w[k] = s[Len(s) + 1 - k].node
    BY <1>1, <1>2
  <2>2. links[w[k]] = FromAt(s, Len(s) + 1 - k)
    BY <2>1 DEF OnPath
  <2>3. CASE k = Len(s)
    BY <2>2, <2>3, <1>1 DEF FromAt
  <2>4. CASE k # Len(s)
    <3>1. k + 1 \in 1 .. Len(s) /\ Len(s) + 1 - (k + 1) = (Len(s) + 1 - k) - 1 /\ Len(s) + 1 - k # 1
      BY <2>4, <1>1
    <3>2. w[k + 1] = s[(Len(s) + 1 - k) - 1].node
      BY <3>1, <1>2
    <3> HIDE DEF w
    <3> QED
      BY <2>2, <2>4, <3>1, <3>2 DEF FromAt
  <2> QED
    BY <2>3, <2>4
<1>7. Is(w)
  <2>1. DOMAIN w = 1 .. Len(s) /\ w # <<>> /\ w[1] = n
    BY <1>1, <1>2
  <2> HIDE DEF w
  <2> QED
    BY <2>1, <1>2, <1>6
<1>8. \A p \in P : Is(p) => p = w
  <2> SUFFICES ASSUME NEW p \in P, Is(p)
               PROVE  p = w
    OBVIOUS
  <2>1. p \in Seq(S) /\ Len(p) \in Nat \ {0} /\ DOMAIN p = 1 .. Len(p)
    BY <1>4
  <2> DEFINE D == {i \in Nat : i \in 1 .. Len(p) /\ i \in 1 .. Len(w) /\ p[i] # w[i]}
  <2>2. D = {}
    <3> SUFFICES ASSUME D # {}
                 PROVE  FALSE
      OBVIOUS
    <3>1. PICK i \in D : \A j \in D : i <= j
      BY LeastNumber, D \in SUBSET Nat
    <3>2. i \in 1 .. Len(p) /\ i \in 1 .. Len(w) /\ p[i] # w[i]
      BY <3>1
    <3>3. i # 1
      BY <3>2, <1>7
    <3>4. i - 1 \in 1 .. Len(p) /\ i - 1 \in 1 .. Len(w) /\ i - 1 \notin D
      <4> HIDE DEF D, w
      <4> QED
        BY <3>1, <3>2, <3>3, <2>1, <1>2
    <3>5. p[i - 1] = w[i - 1]
      BY <3>4
    <3>6. links[p[i - 1]] = p[i]
      BY <3>2, <3>4, <2>1, SMTT(30)
    <3>7. links[w[i - 1]] = w[i]
      <4>1. i - 1 \in 1 .. Len(s) /\ i - 1 # Len(s) /\ (i - 1) + 1 = i
        BY <3>2, <3>4, <1>2
      <4> HIDE DEF w
      <4> QED
        BY <4>1, <1>6
    <3> QED
      BY <3>2, <3>5, <3>6, <3>7
  <2>3. \A i \in 1 .. Len(p) : i \in 1 .. Len(w) => p[i] = w[i]
    BY <2>1, <2>2
  <2>4. ~(Len(p) < Len(w))
    <3> SUFFICES ASSUME Len(p) < Len(w)
                 PROVE  FALSE
      OBVIOUS
    <3>1. Len(p) \in 1 .. Len(p) /\ Len(p) \in 1 .. Len(w) /\ Len(p) + 1 \in 1 .. Len(s)
      BY <2>1, <1>2, <1>1
    <3>2. links[p[Len(p)]] = G!NoNode
      BY <3>1, <2>1
    <3>3. links[w[Len(p)]] = w[Len(p) + 1] /\ w[Len(p) + 1] \in S
      <4> HIDE DEF w
      <4> QED
        BY <3>1, <1>1, <1>2, <1>6
    <3> HIDE DEF w
    <3> QED
      BY <3>1, <3>2, <3>3, <2>3, NodesAre
  <2>5. ~(Len(w) < Len(p))
    <3> SUFFICES ASSUME Len(w) < Len(p)
                 PROVE  FALSE
      OBVIOUS
    <3>1. Len(w) \in 1 .. Len(p) /\ Len(w) \in 1 .. Len(w) /\ Len(w) + 1 \in 1 .. Len(p)
      BY <2>1, <1>2, <1>1
    <3>2. links[w[Len(w)]] = G!NoNode
      <4> HIDE DEF w
      <4> QED
        BY <3>1, <1>1, <1>2, <1>6
    <3>3. links[p[Len(w)]] = p[Len(w) + 1] /\ p[Len(w) + 1] \in S
      BY <3>1, <2>1
    <3> HIDE DEF w
    <3> QED
      BY <3>1, <3>2, <3>3, <2>3, NodesAre
  <2>6. Len(p) = Len(w)
    BY <2>4, <2>5, <2>1, <1>1, <1>2
  <2> HIDE DEF w, S
  <2> QED
    BY <2>1, <2>3, <2>6, <1>2
<1>9. G!Backwards(n, links) = CHOOSE p \in P : Is(p)
  BY DEF G!Backwards
<1> HIDE DEF Is, P, w
<1> QED
  BY <1>5, <1>7, <1>8, <1>9 DEF w

\* A call for a node that is not marked, while there may be more, continues the path.
LEMMA CallGoesDeeper ==
    ASSUME TeamIs(team), NEW s, NEW marks, NEW links, NEW heals, NEW first,
           OnPath(s, marks, links, heals, first),
           NEW n \in G!Nodes, n \notin marks, Len(s) + 1 <= team.num_jumps,
           s = <<>> => n = first /\ G!WithinRange(team.urgosa, n, team.initial_range),
           s # <<>> => G!WithinRange(s[Len(s)].node, n, team.jump_range),
           NEW power, power = PowerAt(s, Len(s) + 1),
           NEW total, total = TotalAt(s, Len(s) + 1),
           NEW from, from = FromAt(s, Len(s) + 1)
    PROVE  OnPath(Append(s, [node |-> n, tried |-> G!NoNode, total |-> total + G!Heal(n, power),
                             power |-> G!Reduced(power)]),
                  marks \cup {n}, [links EXCEPT ![n] = from],
                  [heals EXCEPT ![n] = G!Heal(n, power)], first)
<1> DEFINE c == [node |-> n, tried |-> G!NoNode, total |-> total + G!Heal(n, power),
                 power |-> G!Reduced(power)]
           new == Append(s, c)
           m == Len(s)
           links2 == [links EXCEPT ![n] = from]
           heals2 == [heals EXCEPT ![n] = G!Heal(n, power)]
<1>1. /\ s \in Seq(HealCalls) /\ m \in Nat /\ links \in [G!Nodes -> Nat] /\ heals \in [G!Nodes -> Int]
      /\ marks = {s[i].node : i \in 1 .. m}
  BY DEF OnPath
<1>2. \A i \in 1 .. m : s[i].node \in G!Nodes /\ s[i].node # n /\ s[i].total \in Int /\ s[i].power \in Powers
  BY <1>1, CallsAre
<1>3. power \in Powers /\ total \in Int /\ from \in Nat
  <2>1. CASE m = 0
    BY <2>1, InitialTypes DEF PowerAt, TotalAt, FromAt, G!NoNode
  <2>2. CASE m # 0
    <3>1. m \in 1 .. m /\ m + 1 # 1 /\ (m + 1) - 1 = m
      BY <2>2, <1>1
    <3>2. s[m].node \in Nat
      BY <3>1, <1>2, NodesAre
    <3> QED
      BY <3>1, <3>2, <1>2 DEF PowerAt, TotalAt, FromAt
  <2> QED
    BY <2>1, <2>2
<1>4. G!Heal(n, power) \in Int /\ G!Reduced(power) \in Powers
  BY <1>3, PowerTypes
<1>5. c \in HealCalls
  BY <1>3, <1>4 DEF HealCalls, G!NoNode
<1>6. c.node = n /\ c.total = total + G!Heal(n, power) /\ c.power = G!Reduced(power)
  OBVIOUS
<1> HIDE DEF c
<1>7. new \in Seq(HealCalls) /\ Len(new) = m + 1 /\ new[m + 1] = c /\ \A i \in 1 .. m : new[i] = s[i]
  BY <1>1, <1>5
<1> HIDE DEF new
<1>8. \A i \in 1 .. m : /\ PowerAt(new, i) = PowerAt(s, i) /\ TotalAt(new, i) = TotalAt(s, i)
                        /\ FromAt(new, i) = FromAt(s, i)
  <2>1. \A i \in 1 .. m : i # 1 => i - 1 \in 1 .. m /\ new[i - 1] = s[i - 1]
    BY <1>1, <1>7
  <2> QED
    BY <2>1 DEF PowerAt, TotalAt, FromAt
<1>9. PowerAt(new, m + 1) = power /\ TotalAt(new, m + 1) = total /\ FromAt(new, m + 1) = from
  <2>1. m + 1 # 1 => (m + 1) - 1 \in 1 .. m /\ new[(m + 1) - 1] = s[(m + 1) - 1]
    BY <1>1, <1>7
  <2> QED
    BY <2>1 DEF PowerAt, TotalAt, FromAt
<1>10. /\ \A i \in 1 .. m : links2[s[i].node] = links[s[i].node] /\ heals2[s[i].node] = heals[s[i].node]
       /\ links2[n] = from /\ heals2[n] = G!Heal(n, power)
       /\ links2 \in [G!Nodes -> Nat] /\ heals2 \in [G!Nodes -> Int]
  BY <1>1, <1>2, <1>3, <1>4
<1> HIDE DEF links2, heals2
<1>11. \A i \in 1 .. m + 1 : /\ links2[new[i].node] = FromAt(new, i)
                             /\ heals2[new[i].node] = G!Heal(new[i].node, PowerAt(new, i))
                             /\ new[i].total = TotalAt(new, i) + heals2[new[i].node]
                             /\ new[i].power = G!Reduced(PowerAt(new, i))
  <2> SUFFICES ASSUME NEW i \in 1 .. m + 1
               PROVE  /\ links2[new[i].node] = FromAt(new, i)
                      /\ heals2[new[i].node] = G!Heal(new[i].node, PowerAt(new, i))
                      /\ new[i].total = TotalAt(new, i) + heals2[new[i].node]
                      /\ new[i].power = G!Reduced(PowerAt(new, i))
    OBVIOUS
  <2>1. CASE i \in 1 .. m
    <3>1. /\ links[s[i].node] = FromAt(s, i) /\ heals[s[i].node] = G!Heal(s[i].node, PowerAt(s, i))
          /\ s[i].total = TotalAt(s, i) + heals[s[i].node] /\ s[i].power = G!Reduced(PowerAt(s, i))
      BY <2>1 DEF OnPath
    <3>2. new[i] = s[i]
      BY <2>1, <1>7
    <3> QED
      BY <2>1, <3>1, <3>2, <1>8, <1>10
  <2>2. CASE i = m + 1
    BY <2>2, <1>6, <1>7, <1>9, <1>10
  <2> QED
    BY <2>1, <2>2, <1>1
<1>12. /\ Way(new) \in Seq(G!Nodes) /\ Len(Way(new)) = m + 1
       /\ Way(new)[m + 1] = n /\ \A i \in 1 .. m : Way(new)[i] = s[i].node
  <2>1. \A i \in 1 .. m + 1 : new[i].node \in G!Nodes
    BY <1>7, CallsAre
  <2>2. m + 1 \in 1 .. m + 1 /\ \A i \in 1 .. m : i \in 1 .. m + 1
    BY <1>1
  <2> QED
    BY <2>1, <2>2, <1>1, <1>6, <1>7 DEF Way
<1>13. s # <<>> => /\ \A i \in 1 .. m : Way(s)[i] = s[i].node
                   /\ Len(Way(s)) = m /\ m \in 1 .. m /\ 1 \in 1 .. m /\ IsPath(Way(s)) /\ s[1].node = first
  BY <1>1 DEF Way, OnPath
<1>14. s = <<>> => m = 0
  OBVIOUS
<1>15. IsPath(Way(new)) /\ Way(new)[1] = first
  <2>1. G!WithinRange(team.urgosa, Way(new)[1], team.initial_range) /\ Way(new)[1] = first
    <3>1. CASE s = <<>>
      BY <3>1, <1>12, <1>14
    <3>2. CASE s # <<>>
      <4>1. G!WithinRange(team.urgosa, Way(s)[1], team.initial_range)
        BY <3>2, <1>13 DEF IsPath
      <4> QED
        BY <4>1, <3>2, <1>12, <1>13
    <3> QED
      BY <3>1, <3>2
  <2>2. ASSUME NEW i \in 1 .. m + 1, NEW j \in 1 .. m + 1, Way(new)[i] = Way(new)[j]
        PROVE  i = j
    <3>1. CASE i \in 1 .. m /\ j \in 1 .. m
      <4>1. s # <<>>
        BY <3>1, <1>14
      <4>2. Way(s)[i] = Way(s)[j]
        BY <4>1, <2>2, <3>1, <1>12, <1>13
      <4> QED
        BY <4>1, <4>2, <3>1, <1>13 DEF IsPath
    <3>2. CASE ~(i \in 1 .. m)
      <4>1. i = m + 1 /\ (j \in 1 .. m \/ j = m + 1)
        BY <3>2, <1>1
      <4>2. Way(new)[i] = n
        BY <4>1, <1>12
      <4>3. j \in 1 .. m => Way(new)[j] # n
        BY <1>2, <1>12
      <4> QED
        BY <4>1, <4>2, <4>3, <2>2
    <3>3. CASE ~(j \in 1 .. m)
      <4>1. j = m + 1 /\ (i \in 1 .. m \/ i = m + 1)
        BY <3>3, <1>1
      <4>2. Way(new)[j] = n
        BY <4>1, <1>12
      <4>3. i \in 1 .. m => Way(new)[i] # n
        BY <1>2, <1>12
      <4> QED
        BY <4>1, <4>2, <4>3, <2>2
    <3> QED
      BY <3>1, <3>2, <3>3
  <2>3. ASSUME NEW k \in 1 .. m
        PROVE  G!WithinRange(Way(new)[k], Way(new)[k + 1], team.jump_range)
    <3>1. s # <<>>
      BY <1>14
    <3>2. CASE k = m
      BY <3>1, <3>2, <1>12
    <3>3. CASE k # m
      <4>1. k \in 1 .. m - 1 /\ k + 1 \in 1 .. m
        BY <3>3, <1>1
      <4>2. G!WithinRange(Way(s)[k], Way(s)[k + 1], team.jump_range)
        BY <3>1, <4>1, <1>13 DEF IsPath
      <4> QED
        BY <3>1, <4>1, <4>2, <1>12, <1>13
    <3> QED
      BY <3>2, <3>3
  <2>4. (m + 1) - 1 = m /\ m + 1 # 0
    BY <1>1
  <2> QED
    BY <2>1, <2>2, <2>3, <2>4, <1>12 DEF IsPath
<1>16. marks \cup {n} = {new[i].node : i \in 1 .. m + 1}
  <2>1. \A i : i \in 1 .. m + 1 <=> i \in 1 .. m \/ i = m + 1
    BY <1>1
  <2> QED
    BY <2>1, <1>1, <1>6, <1>7, ZenonT(40)
<1>17. new[1].node = first
  <2>1. 1 \in 1 .. m + 1
    BY <1>1
  <2> QED
    BY <2>1, <1>7, <1>15 DEF Way
<1>18. OnPath(new, marks \cup {n}, links2, heals2, first)
  BY <1>7, <1>10, <1>11, <1>15, <1>16, <1>17 DEF OnPath
<1> QED
  BY <1>18 DEF new, c, links2, heals2

\* The total of a path is an integer.
LEMMA TotalType ==
    ASSUME TeamIs(team), NEW p, IsPath(p)
    PROVE  G!Total(p) \in Int
<1>1. p \in Seq(G!Nodes) /\ Len(p) \in 1 .. Len(p)
  BY DEF IsPath
<1>2. HopsTo(G!Hops(p), p, Len(p))
  BY <1>1, HopsAre
<1> QED
  BY <1>1, <1>2, HopTypes DEF G!Total

\* A reversed path reversed is the path.
LEMMA ReversedTwice ==
    ASSUME NEW S, NEW p \in Seq(S)
    PROVE  /\ G!Reverse(p) \in Seq(S) /\ Len(G!Reverse(p)) = Len(p)
           /\ \A k \in 1 .. Len(p) : G!Reverse(p)[k] = p[Len(p) + 1 - k]
           /\ G!Reverse(G!Reverse(p)) = p
<1> DEFINE w == G!Reverse(p)
           m == Len(p)
<1>1. m \in Nat /\ \A k \in 1 .. m : (m - k) + 1 \in 1 .. m /\ (m - k) + 1 = m + 1 - k
  OBVIOUS
<1>2. w \in Seq(S) /\ Len(w) = m /\ \A k \in 1 .. m : w[k] = p[(m - k) + 1]
  BY <1>1 DEF G!Reverse
<1>3. \A k \in 1 .. m : w[(m - k) + 1] = p[k]
  <2>1. \A k \in 1 .. m : (m - ((m - k) + 1)) + 1 = k
    BY <1>1
  <2> HIDE DEF w
  <2> QED
    BY <2>1, <1>1, <1>2
<1>4. G!Reverse(w) = [k \in 1 .. m |-> w[(m - k) + 1]]
  <2> HIDE DEF w
  <2> QED
    BY <1>2 DEF G!Reverse
<1>5. p = [k \in 1 .. m |-> p[k]]
  OBVIOUS
<1>6. G!Reverse(w) = p
  <2> HIDE DEF w
  <2> QED
    BY <1>3, <1>4, <1>5
<1> QED
  BY <1>1, <1>2, <1>6

\* A path that heals more than any before is copied.
LEMMA RecordKeeps ==
    ASSUME TeamIs(team), NEW s, NEW marks, NEW links, NEW heals, NEW first \in Nat,
           OnPath(s, marks, links, heals, first), s # <<>>,
           IsRecorded(best_heal, best_path, healing, first),
           G!Record(s[Len(s)].node, s[Len(s)].total, links, heals)
    PROVE  /\ IsRecorded(best_heal', best_path', healing', first)
           /\ best_heal' \in Int /\ best_heal \in Int /\ best_heal <= best_heal'
           /\ G!Total(Way(s)) <= best_heal'
<1> DEFINE total == s[Len(s)].total
           w == Way(s)
           m == Len(s)
<1>1. /\ s \in Seq(HealCalls) /\ m \in Nat \ {0} /\ m \in 1 .. m /\ 1 \in 1 .. m
      /\ IsPath(w) /\ s[1].node = first /\ first \in Nat
  BY DEF OnPath
<1>2. w \in Seq(G!Nodes) /\ Len(w) = m /\ \A k \in 1 .. m : w[k] = s[k].node
  BY <1>1 DEF Way, IsPath
<1>3. G!Total(w) = total /\ \A k \in 1 .. m : G!Hops(w)[k].heal = heals[s[k].node]
  BY HopsOfWay
<1>4. total \in Int /\ best_heal \in Nat
  BY <1>1, CallsAre DEF IsRecorded
<1>5. CASE total > best_heal
  <2>1. G!Backwards(s[m].node, links) = G!Reverse(w)
    BY BackwardsIs
  <2>2. /\ best_heal' = total /\ best_path' = G!Reverse(w)
        /\ healing' = [i \in DOMAIN G!Reverse(w) |-> heals[G!Reverse(w)[i]]]
    BY <1>5, <2>1 DEF G!Record
  <2>3. /\ DOMAIN G!Reverse(w) = 1 .. m
        /\ \A i \in 1 .. m : m + 1 - i \in 1 .. m /\ G!Reverse(w)[i] = s[m + 1 - i].node
    <3>1. G!Reverse(w) \in Seq(G!Nodes) /\ Len(G!Reverse(w)) = m
          /\ \A i \in 1 .. m : G!Reverse(w)[i] = w[m + 1 - i]
      BY <1>2, ReversedTwice, SMTT(30)
    <3>2. \A i \in 1 .. m : m + 1 - i \in 1 .. m
      BY <1>1
    <3> HIDE DEF w
    <3> QED
      BY <3>1, <3>2, <1>2
  <2>4. healing' = [i \in 1 .. m |-> G!Hops(w)[m + 1 - i].heal]
    <3> HIDE DEF w, m
    <3> QED
      BY <2>2, <2>3, <1>3
  <2>5. total \in Nat /\ w[1] <= first
    BY <1>1, <1>2, <1>4, <1>5
  <2>6. IsRecorded(best_heal', best_path', healing', first)
    <3> HIDE DEF w, total
    <3> QED
      BY <2>2, <2>4, <2>5, <1>1, <1>2, <1>3 DEF IsRecorded
  <2> QED
    BY <2>2, <2>6, <1>3, <1>4, <1>5
<1>6. CASE ~(total > best_heal)
  <2>1. best_heal' = best_heal /\ best_path' = best_path /\ healing' = healing
    BY <1>6 DEF G!Record
  <2> QED
    BY <2>1, <1>3, <1>4, <1>6
<1> QED
  BY <1>5, <1>6

\* A sequence is what it has at each place.
LEMMA SequenceIs ==
    ASSUME NEW S, NEW p \in Seq(S)
    PROVE  p = [k \in 1 .. Len(p) |-> p[k]]
OBVIOUS

\* Two paths with the same nodes are one.
LEMMA SamePath ==
    ASSUME NEW S, NEW p \in Seq(S), NEW q \in Seq(S), Len(p) = Len(q), \A k \in 1 .. Len(p) : p[k] = q[k]
    PROVE  p = q
OBVIOUS

\* A call leaves no path out: when it returns at once, none there is goes on that way.
LEMMA CallKeeps ==
    ASSUME TeamIs(team), NEW s, NEW first \in Nat, OnPath(s, marked, prev, heal, first),
           IsRecorded(best_heal, best_path, healing, first),
           NEW n \in G!Nodes,
           s = <<>> => n = first /\ G!WithinRange(team.urgosa, n, team.initial_range),
           s # <<>> => G!WithinRange(s[Len(s)].node, n, team.jump_range),
           \A p : IsPath(p) /\ p[1] <= first =>
                     G!Total(p) <= best_heal \/ ToCome(p, s) \/ Begins(p, s, n),
           G!Call(n, s, TotalAt(s, Len(s) + 1), PowerAt(s, Len(s) + 1), FromAt(s, Len(s) + 1))
    PROVE  /\ OnPath(dfs', marked', prev', heal', first)
           /\ IsRecorded(best_heal', best_path', healing', first)
           /\ \A p : IsPath(p) /\ p[1] <= first => G!Total(p) <= best_heal' \/ ToCome(p, dfs')
<1> DEFINE m == Len(s)
           total == TotalAt(s, m + 1)
           power == PowerAt(s, m + 1)
           from == FromAt(s, m + 1)
           c == [node |-> n, tried |-> G!NoNode, total |-> total + G!Heal(n, power),
                 power |-> G!Reduced(power)]
           links == [prev EXCEPT ![n] = from]
           heals == [heal EXCEPT ![n] = G!Heal(n, power)]
<1>1. s \in Seq(HealCalls) /\ m \in Nat /\ marked = {s[i].node : i \in 1 .. m} /\ team.num_jumps \in Int
  BY DEF OnPath, TeamIs
<1>2. CASE n \in marked \/ m + 1 > team.num_jumps
  <2>1. /\ dfs' = s /\ marked' = marked /\ prev' = prev /\ heal' = heal
        /\ best_heal' = best_heal /\ best_path' = best_path /\ healing' = healing
    BY <1>2 DEF G!Call
  <2>2. ASSUME NEW p, IsPath(p), Begins(p, s, n)
        PROVE  FALSE
    <3>1. /\ Len(p) \in Nat /\ Len(p) > m /\ Len(p) <= team.num_jumps /\ p[m + 1] = n
          /\ \A j \in 1 .. m : p[j] = s[j].node
      BY <2>2 DEF IsPath, Begins
    <3>2. CASE n \in marked
      <4>1. PICK i \in 1 .. m : s[i].node = n
        BY <3>2, <1>1
      <4>2. i \in 1 .. Len(p) /\ m + 1 \in 1 .. Len(p) /\ p[i] = p[m + 1] /\ i # m + 1
        BY <4>1, <3>1, <1>1
      <4> QED
        BY <4>2, <2>2 DEF IsPath
    <3>3. CASE m + 1 > team.num_jumps
      BY <3>1, <3>3, <1>1
    <3> QED
      BY <3>2, <3>3, <1>2
  <2> QED
    BY <2>1, <2>2
<1>3. CASE ~(n \in marked \/ m + 1 > team.num_jumps)
  <2> DEFINE new == Append(s, c)
  <2>1. /\ dfs' = new /\ marked' = marked \cup {n} /\ prev' = links /\ heal' = heals
        /\ G!Record(n, total + G!Heal(n, power), links, heals)
    BY <1>3 DEF G!Call
  <2>2. OnPath(new, marked \cup {n}, links, heals, first)
    <3>1. m + 1 <= team.num_jumps
      BY <1>1, <1>3
    <3> QED
      BY <3>1, <1>3, CallGoesDeeper
  <2>3. c.node = n /\ c.tried = G!NoNode /\ c.total = total + G!Heal(n, power)
    OBVIOUS
  <2>4. c \in HealCalls
    <3>1. new \in Seq(HealCalls)
      BY <2>2 DEF OnPath
    <3>2. new \in Seq({s[i] : i \in 1 .. m} \cup {c}) /\ Len(new) = m + 1 /\ new[m + 1] = c
      <4>1. s \in Seq({s[i] : i \in 1 .. m} \cup {c})
        BY <1>1
      <4> HIDE DEF c
      <4> QED
        BY <4>1
    <3> HIDE DEF new, c
    <3> QED
      BY <3>1, <3>2, <1>1
  <2> HIDE DEF c
  <2>5. /\ Len(new) = m + 1 /\ m + 1 \in 1 .. Len(new) /\ new[m + 1] = c /\ new # <<>>
        /\ \A i \in 1 .. m : new[i] = s[i] /\ i \in 1 .. Len(new)
    BY <1>1, <2>4
  <2> HIDE DEF new, links, heals
  <2>6. /\ IsRecorded(best_heal', best_path', healing', first)
        /\ best_heal' \in Int /\ best_heal \in Int /\ best_heal <= best_heal'
        /\ G!Total(Way(new)) <= best_heal'
    <3>1. G!Record(new[Len(new)].node, new[Len(new)].total, links, heals)
      BY <2>1, <2>3, <2>5
    <3> QED
      BY <3>1, <2>2, <2>5, RecordKeeps
  <2>7. /\ Way(new) \in Seq(G!Nodes) /\ Len(Way(new)) = m + 1
        /\ \A k \in 1 .. m + 1 : Way(new)[k] = new[k].node
    BY <2>2, <2>5 DEF OnPath, IsPath, Way
  <2>8. ASSUME NEW p, IsPath(p), p[1] <= first
        PROVE  G!Total(p) <= best_heal' \/ ToCome(p, new)
    <3>1. p \in Seq(G!Nodes) /\ Len(p) \in Nat
      BY <2>8 DEF IsPath
    <3>2. CASE G!Total(p) <= best_heal
      <4>1. G!Total(p) \in Int
        BY <2>8, TotalType
      <4> QED
        BY <4>1, <3>2, <2>6
    <3>3. CASE ToCome(p, s)
      <4>1. PICK i \in 1 .. m : i < Len(p) /\ (\A j \in 1 .. i : p[j] = s[j].node) /\ p[i + 1] > s[i].tried
        BY <3>3 DEF ToCome
      <4>2. \A j \in 1 .. i : j \in 1 .. m
        BY <1>1
      <4> QED
        BY <4>1, <4>2, <2>5 DEF ToCome
    <3>4. CASE Begins(p, s, n)
      <4>1. Len(p) > m /\ \A j \in 1 .. m + 1 : p[j] = new[j].node
        <5>1. Len(p) > m /\ p[m + 1] = n /\ \A j \in 1 .. m : p[j] = s[j].node
          BY <3>4 DEF Begins
        <5>2. \A j \in 1 .. m + 1 : j \in 1 .. m \/ j = m + 1
          BY <1>1
        <5> QED
          BY <5>1, <5>2, <2>3, <2>5
      <4>2. CASE Len(p) = m + 1
        <5>1. p = Way(new)
          BY <4>1, <4>2, <3>1, <2>7, SamePath
        <5> QED
          BY <5>1, <2>6
      <4>3. CASE Len(p) # m + 1
        <5>1. m + 1 < Len(p) /\ (m + 1) + 1 \in 1 .. Len(p)
          BY <4>1, <4>3, <3>1, <1>1
        <5>2. p[(m + 1) + 1] > G!NoNode
          BY <5>1, <3>1, NodesAre DEF G!NoNode
        <5> QED
          BY <4>1, <5>1, <5>2, <2>3, <2>5 DEF ToCome
      <4> QED
        BY <4>2, <4>3
    <3> QED
      BY <2>8, <3>2, <3>3, <3>4
  <2> QED
    BY <2>1, <2>2, <2>6, <2>8
<1> QED
  BY <1>2, <1>3

\* The invariant: what the calls share is what their path says, what has been copied is a path, and
\* each of those there are is no better, or still to come.
HealInv ==
    /\ TeamIs(team) /\ started \in Nat
    /\ OnPath(dfs, marked, prev, heal, started)
    /\ IsRecorded(best_heal, best_path, healing, started)
    /\ \A p : IsPath(p) /\ p[1] <= started => G!Total(p) <= best_heal \/ ToCome(p, dfs)

\* The input stays what it is.
LEMMA SameTeam ==
    ASSUME team' = team
    PROVE  /\ TeamIs(team)' <=> TeamIs(team)
           /\ G!Nodes' = G!Nodes
           /\ \A m, n, range : G!WithinRange(m, n, range)' <=> G!WithinRange(m, n, range)
           /\ \A p : IsPath(p)' <=> IsPath(p)
           /\ \A n, power : G!Heal(n, power)' = G!Heal(n, power)
           /\ \A power : G!Reduced(power)' = G!Reduced(power)
           /\ G!InitialPower' = G!InitialPower
<1>1. G!Nodes' = G!Nodes
  BY DEF G!Nodes
<1>2. \A m, n, range : G!WithinRange(m, n, range)' <=> G!WithinRange(m, n, range)
  BY DEF G!WithinRange
<1>3. \A n, power : G!Heal(n, power)' = G!Heal(n, power)
  BY DEF G!Heal
<1>4. \A power : G!Reduced(power)' = G!Reduced(power)
  BY DEF G!Reduced
<1>5. \A p : IsPath(p)' <=> IsPath(p)
  BY <1>1, <1>2 DEF IsPath
<1> QED
  BY <1>1, <1>2, <1>3, <1>4, <1>5 DEF TeamIs, G!InitialPower

\* And so does what happens at a path.
LEMMA SameHops ==
    ASSUME team' = team
    PROVE  /\ \A p : G!Hops(p)' = G!Hops(p)
           /\ \A p : G!Total(p)' = G!Total(p)
<1>1. \A n, power, before : G!Hop(n, power, before)' = G!Hop(n, power, before)
  BY SameTeam DEF G!Hop
<1>2. \A p : G!Hops(p)' = G!Hops(p)
  BY SameTeam, <1>1 DEF G!Hops
<1> QED
  BY <1>2 DEF G!Total

\* What is said of the next state, with the input as it was.
LEMMA NextHealInv ==
    ASSUME HealInv, team' = team, started' \in Nat,
           OnPath(dfs', marked', prev', heal', started'),
           IsRecorded(best_heal', best_path', healing', started'),
           \A p : IsPath(p) /\ p[1] <= started' => G!Total(p) <= best_heal' \/ ToCome(p, dfs')
    PROVE  HealInv'
<1>1. OnPath(dfs, marked, prev, heal, started)'
  <2>1. \A s, i : PowerAt(s, i)' = PowerAt(s, i)
    BY SameTeam DEF PowerAt
  <2>2. HealCalls' = HealCalls
    BY SameTeam DEF HealCalls
  <2> QED
    BY <2>1, <2>2, SameTeam DEF OnPath
<1>2. IsRecorded(best_heal, best_path, healing, started)'
  BY SameTeam, SameHops DEF IsRecorded
<1>3. (\A p : IsPath(p) /\ p[1] <= started => G!Total(p) <= best_heal \/ ToCome(p, dfs))'
  <2>1. \A p : ToCome(p, dfs)' <=> ToCome(p, dfs')
    BY DEF ToCome
  <2> QED
    BY <2>1, SameTeam, SameHops
<1> QED
  BY <1>1, <1>2, <1>3, SameTeam DEF HealInv

\* A round of main() begins with no call; the path of each call begins with its node.
LEMMA StartFromKeeps == HealInv /\ G!StartFrom => HealInv'
<1> SUFFICES ASSUME HealInv, G!StartFrom
             PROVE  HealInv'
  OBVIOUS
<1> DEFINE n == started + 1
<1>1. /\ TeamIs(team) /\ started \in Nat /\ n \in Nat /\ n \in G!Nodes /\ dfs = <<>>
      /\ started' = n /\ team' = team
  BY DEF HealInv, G!StartFrom
<1>2. /\ OnPath(dfs, marked, prev, heal, started)
      /\ IsRecorded(best_heal, best_path, healing, started)
      /\ \A p : IsPath(p) /\ p[1] <= started => G!Total(p) <= best_heal \/ ToCome(p, dfs)
  BY DEF HealInv
<1>3. OnPath(<<>>, marked, prev, heal, n)
  BY <1>1, <1>2 DEF OnPath
<1>4. IsRecorded(best_heal, best_path, healing, n)
  <2>1. \A q : IsPath(q) => q[1] \in Nat
    BY <1>1, NodesAre DEF IsPath
  <2> QED
    BY <1>1, <1>2, <2>1 DEF IsRecorded
<1>5. \A p : IsPath(p) /\ p[1] <= n => G!Total(p) <= best_heal \/ Begins(p, <<>>, n)
  <2> SUFFICES ASSUME NEW p, IsPath(p), p[1] <= n
               PROVE  G!Total(p) <= best_heal \/ Begins(p, <<>>, n)
    OBVIOUS
  <2>1. p[1] \in Nat /\ Len(p) > 0
    BY <1>1, NodesAre DEF IsPath
  <2>2. CASE p[1] <= started
    BY <2>2, <1>1, <1>2 DEF ToCome
  <2>3. CASE p[1] = n
    BY <2>1, <2>3 DEF Begins
  <2> QED
    BY <2>1, <2>2, <2>3, <1>1
<1>6. CASE G!WithinRange(team.urgosa, n, team.initial_range)
  <2>1. G!Call(n, <<>>, 0, G!InitialPower, G!NoNode)
    BY <1>6 DEF G!StartFrom
  <2>2. /\ TotalAt(<<>>, Len(<<>>) + 1) = 0 /\ PowerAt(<<>>, Len(<<>>) + 1) = G!InitialPower
        /\ FromAt(<<>>, Len(<<>>) + 1) = G!NoNode
    BY DEF TotalAt, PowerAt, FromAt
  <2>3. /\ OnPath(dfs', marked', prev', heal', n)
        /\ IsRecorded(best_heal', best_path', healing', n)
        /\ \A p : IsPath(p) /\ p[1] <= n => G!Total(p) <= best_heal' \/ ToCome(p, dfs')
    <3> DEFINE s == <<>>
    <3>1. s = <<>> /\ G!Call(n, s, TotalAt(s, Len(s) + 1), PowerAt(s, Len(s) + 1), FromAt(s, Len(s) + 1))
      BY <2>1, <2>2
    <3>2. OnPath(s, marked, prev, heal, n) /\ \A p : IsPath(p) /\ p[1] <= n =>
             G!Total(p) <= best_heal \/ ToCome(p, s) \/ Begins(p, s, n)
      BY <1>3, <1>5
    <3> HIDE DEF s, n
    <3> QED
      BY <3>1, <3>2, <1>1, <1>4, <1>6, CallKeeps
  <2> HIDE DEF n
  <2> QED
    BY <2>3, <1>1, NextHealInv
<1>7. CASE ~ G!WithinRange(team.urgosa, n, team.initial_range)
  <2>1. /\ dfs' = <<>> /\ marked' = marked /\ prev' = prev /\ heal' = heal
        /\ best_heal' = best_heal /\ best_path' = best_path /\ healing' = healing
    BY <1>1, <1>7 DEF G!StartFrom
  <2>2. \A p : ~(IsPath(p) /\ Begins(p, <<>>, n))
    BY <1>7 DEF IsPath, Begins
  <2> HIDE DEF n
  <2> QED
    BY <2>1, <2>2, <1>1, <1>3, <1>4, <1>5, NextHealInv
<1> QED
  BY <1>6, <1>7

\* The neighbour tried last is not part of what the path says.
LEMMA TriedIsFree ==
    ASSUME TeamIs(team), NEW s, NEW marks, NEW links, NEW heals, NEW first,
           OnPath(s, marks, links, heals, first), s # <<>>, NEW n \in Nat
    PROVE  LET now == [s EXCEPT ![Len(s)].tried = n]
           IN  /\ OnPath(now, marks, links, heals, first)
               /\ Len(now) = Len(s) /\ now # <<>> /\ now[Len(s)].tried = n
               /\ \A i \in 1 .. Len(s) : /\ now[i].node = s[i].node /\ now[i].total = s[i].total
                                         /\ now[i].power = s[i].power
                                         /\ i # Len(s) => now[i].tried = s[i].tried
<1> DEFINE m == Len(s)
           now == [s EXCEPT ![m].tried = n]
<1>1. s \in Seq(HealCalls) /\ m \in Nat \ {0} /\ m \in 1 .. m /\ DOMAIN s = 1 .. m
  BY DEF OnPath
<1>2. \A c \in HealCalls : /\ [c EXCEPT !.tried = n] \in HealCalls /\ [c EXCEPT !.tried = n].tried = n
                       /\ [c EXCEPT !.tried = n].node = c.node /\ [c EXCEPT !.tried = n].total = c.total
                       /\ [c EXCEPT !.tried = n].power = c.power
  BY DEF HealCalls
<1>3. now = [s EXCEPT ![m] = [s[m] EXCEPT !.tried = n]]
  OBVIOUS
<1>4. s[m] \in HealCalls
  BY <1>1
<1>5. now \in Seq(HealCalls) /\ Len(now) = m
  BY <1>1, <1>2, <1>3, <1>4
<1>6. now[m] = [s[m] EXCEPT !.tried = n] /\ \A i \in 1 .. m : i # m => now[i] = s[i]
  BY <1>1, <1>3
<1> HIDE DEF now
<1>7. /\ now[m].tried = n
      /\ \A i \in 1 .. m : /\ now[i].node = s[i].node /\ now[i].total = s[i].total
                           /\ now[i].power = s[i].power
                           /\ i # m => now[i].tried = s[i].tried
  <2> DEFINE c == [s[m] EXCEPT !.tried = n]
  <2>1. c.tried = n /\ c.node = s[m].node /\ c.total = s[m].total /\ c.power = s[m].power
    BY <1>2, <1>4
  <2>2. now[m] = c
    BY <1>6
  <2> HIDE DEF c
  <2>3. ASSUME NEW i \in 1 .. m
        PROVE  /\ now[i].node = s[i].node /\ now[i].total = s[i].total /\ now[i].power = s[i].power
               /\ i # m => now[i].tried = s[i].tried
    <3>1. CASE i = m
      BY <3>1, <2>1, <2>2
    <3>2. CASE i # m
      BY <3>2, <1>6
    <3> QED
      BY <3>1, <3>2
  <2> QED
    BY <2>1, <2>2, <2>3
<1>8. \A i \in 1 .. m : /\ PowerAt(now, i) = PowerAt(s, i) /\ TotalAt(now, i) = TotalAt(s, i)
                        /\ FromAt(now, i) = FromAt(s, i)
  <2>1. \A i \in 1 .. m : i # 1 => i - 1 \in 1 .. m
    BY <1>1
  <2> QED
    BY <2>1, <1>7 DEF PowerAt, TotalAt, FromAt
<1>9. Way(now) = Way(s)
  BY <1>1, <1>5, <1>7 DEF Way
<1>10. marks = {now[i].node : i \in 1 .. m}
  <2>1. marks = {s[i].node : i \in 1 .. m}
    BY DEF OnPath
  <2> QED
    BY <2>1, <1>7
<1>11. \A i \in 1 .. m : /\ links[now[i].node] = FromAt(now, i)
                         /\ heals[now[i].node] = G!Heal(now[i].node, PowerAt(now, i))
                         /\ now[i].total = TotalAt(now, i) + heals[now[i].node]
                         /\ now[i].power = G!Reduced(PowerAt(now, i))
  BY <1>7, <1>8 DEF OnPath
<1>12. now # <<>> /\ 1 \in 1 .. m
  BY <1>1, <1>5
<1>13. OnPath(now, marks, links, heals, first)
  <2>1. /\ IsPath(Way(s)) /\ s[1].node = first
        /\ links \in [G!Nodes -> Nat] /\ heals \in [G!Nodes -> Int]
    BY DEF OnPath
  <2> QED
    BY <2>1, <1>5, <1>7, <1>9, <1>10, <1>11, <1>12 DEF OnPath
<1> QED
  BY <1>5, <1>7, <1>12, <1>13 DEF now

\* The first of the neighbours not tried yet.
LEMMA LowestToTry ==
    ASSUME TeamIs(team), NEW c, G!ToTry(c) # {}
    PROVE  /\ G!Lowest(G!ToTry(c)) \in G!ToTry(c)
           /\ \A k \in G!ToTry(c) : G!Lowest(G!ToTry(c)) <= k
<1>1. G!ToTry(c) \in SUBSET Nat
  BY NodesAre DEF G!ToTry, G!Adj
<1> QED
  BY <1>1, LeastNumber DEF G!Lowest

\* A path that leaves the last call has still to come by one of the neighbours it is to try.
LEMMA LeavesToTry ==
    ASSUME TeamIs(team), NEW s \in Seq(HealCalls), s # <<>>, NEW p, IsPath(p), Len(s) < Len(p),
           p[Len(s)] = s[Len(s)].node, p[Len(s) + 1] > s[Len(s)].tried
    PROVE  p[Len(s) + 1] \in G!ToTry(s[Len(s)])
<1> DEFINE m == Len(s)
<1>1. m \in 1 .. Len(p) /\ m + 1 \in 1 .. Len(p) /\ m \in 1 .. Len(p) - 1 /\ m # m + 1 /\ p \in Seq(G!Nodes)
  BY DEF IsPath
<1>2. p[m] # p[m + 1] /\ G!WithinRange(p[m], p[m + 1], team.jump_range) /\ p[m + 1] \in G!Nodes
  BY <1>1 DEF IsPath
<1> QED
  BY <1>2 DEF G!ToTry, G!Adj

\* A turn of the loop goes on to the first neighbour not tried, and only the paths by it are left to
\* the new call.
LEMMA GoOnKeeps == HealInv /\ G!GoOn => HealInv'
<1> SUFFICES ASSUME HealInv, G!GoOn
             PROVE  HealInv'
  OBVIOUS
<1> DEFINE m == Len(dfs)
           call == dfs[m]
           n == G!Lowest(G!ToTry(call))
           s == [dfs EXCEPT ![m].tried = n]
<1>1. /\ TeamIs(team) /\ started \in Nat /\ started' = started /\ team' = team
      /\ dfs # <<>> /\ G!ToTry(call) # {} /\ G!Call(n, s, call.total, call.power, call.node)
  BY DEF HealInv, G!GoOn, G!Last
<1>2. /\ OnPath(dfs, marked, prev, heal, started)
      /\ IsRecorded(best_heal, best_path, healing, started)
      /\ \A p : IsPath(p) /\ p[1] <= started => G!Total(p) <= best_heal \/ ToCome(p, dfs)
  BY DEF HealInv
<1>3. n \in G!ToTry(call) /\ \A k \in G!ToTry(call) : n <= k
  BY <1>1, LowestToTry
<1>4. n \in G!Nodes /\ n \in Nat /\ G!WithinRange(call.node, n, team.jump_range)
  BY <1>1, <1>3, NodesAre DEF G!ToTry, G!Adj
<1>5. dfs \in Seq(HealCalls) /\ m \in Nat \ {0} /\ m \in 1 .. m
  BY <1>1, <1>2 DEF OnPath
<1>6. /\ OnPath(s, marked, prev, heal, started)
      /\ Len(s) = m /\ s # <<>> /\ s[m].tried = n
      /\ \A i \in 1 .. m : /\ s[i].node = dfs[i].node /\ s[i].total = dfs[i].total
                           /\ s[i].power = dfs[i].power
                           /\ i # m => s[i].tried = dfs[i].tried
  <2> HIDE DEF n
  <2> QED
    BY <1>1, <1>2, <1>4, TriedIsFree
<1> HIDE DEF n, s
<1>7. ASSUME NEW p, IsPath(p), p[1] <= started
      PROVE  G!Total(p) <= best_heal \/ ToCome(p, s) \/ Begins(p, s, n)
  <2>1. p \in Seq(G!Nodes) /\ Len(p) \in Nat
    BY <1>7 DEF IsPath
  <2>2. CASE ToCome(p, dfs)
    <3>1. PICK i \in 1 .. m : i < Len(p) /\ (\A j \in 1 .. i : p[j] = dfs[j].node) /\ p[i + 1] > dfs[i].tried
      BY <2>2 DEF ToCome
    <3>2. \A j \in 1 .. i : j \in 1 .. m /\ p[j] = s[j].node
      BY <3>1, <1>5, <1>6
    <3>3. CASE i # m
      BY <3>1, <3>2, <3>3, <1>6 DEF ToCome
    <3>4. CASE i = m
      <4>1. p[m + 1] \in G!ToTry(call)
        BY <3>1, <3>4, <1>1, <1>5, <1>7, LeavesToTry
      <4>2. n <= p[m + 1] /\ p[m + 1] \in Nat
        BY <4>1, <1>1, <1>3, NodesAre DEF G!ToTry, G!Adj
      <4>3. CASE p[m + 1] = n
        BY <4>3, <3>1, <3>2, <3>4, <1>6 DEF Begins
      <4>4. CASE p[m + 1] # n
        <5>1. p[m + 1] > s[m].tried
          BY <4>2, <4>4, <1>4, <1>6
        <5> QED
          BY <5>1, <3>1, <3>2, <3>4, <1>5, <1>6 DEF ToCome
      <4> QED
        BY <4>3, <4>4
    <3> QED
      BY <3>3, <3>4
  <2> QED
    BY <2>2, <1>2, <1>7
<1>8. G!Call(n, s, TotalAt(s, Len(s) + 1), PowerAt(s, Len(s) + 1), FromAt(s, Len(s) + 1))
  <2>1. TotalAt(s, m + 1) = call.total /\ PowerAt(s, m + 1) = call.power /\ FromAt(s, m + 1) = call.node
    <3>1. m + 1 # 1 /\ (m + 1) - 1 = m
      BY <1>5
    <3> QED
      BY <3>1, <1>5, <1>6 DEF TotalAt, PowerAt, FromAt
  <2> QED
    BY <2>1, <1>1, <1>6
<1>9. /\ OnPath(dfs', marked', prev', heal', started)
      /\ IsRecorded(best_heal', best_path', healing', started)
      /\ \A p : IsPath(p) /\ p[1] <= started => G!Total(p) <= best_heal' \/ ToCome(p, dfs')
  <2>1. G!WithinRange(s[Len(s)].node, n, team.jump_range)
    BY <1>4, <1>5, <1>6
  <2> QED
    BY <2>1, <1>1, <1>2, <1>4, <1>6, <1>7, <1>8, CallKeeps
<1> QED
  BY <1>1, <1>9, NextHealInv

\* A call that returns has tried all its neighbours: no path is left to it.
LEMMA ReturnKeeps == HealInv /\ G!Return => HealInv'
<1> SUFFICES ASSUME HealInv, G!Return
             PROVE  HealInv'
  OBVIOUS
<1> DEFINE m == Len(dfs)
           s == G!Front(dfs)
           n == dfs[m].node
<1>1. /\ TeamIs(team) /\ started \in Nat /\ started' = started /\ team' = team
      /\ dfs # <<>> /\ G!ToTry(dfs[m]) = {} /\ dfs' = s /\ marked' = marked \ {n}
      /\ prev' = prev /\ heal' = heal
      /\ best_heal' = best_heal /\ best_path' = best_path /\ healing' = healing
  BY DEF HealInv, G!Return, G!Last, G!Leave
<1>2. /\ OnPath(dfs, marked, prev, heal, started)
      /\ IsRecorded(best_heal, best_path, healing, started)
      /\ \A p : IsPath(p) /\ p[1] <= started => G!Total(p) <= best_heal \/ ToCome(p, dfs)
  BY DEF HealInv
<1>3. dfs \in Seq(HealCalls) /\ m \in Nat \ {0} /\ m \in 1 .. m
  BY <1>1, <1>2 DEF OnPath
<1>4. s \in Seq(HealCalls) /\ Len(s) = m - 1 /\ \A i \in 1 .. m - 1 : s[i] = dfs[i] /\ i \in 1 .. m
  <2>1. s = SubSeq(dfs, 1, m - 1)
    BY DEF G!Front
  <2>2. \A i \in 1 .. m - 1 : i \in 1 .. m
    BY <1>3
  <2>3. m - 1 \in Nat /\ m - 1 <= m
    BY <1>3
  <2>4. s \in Seq(HealCalls) /\ Len(s) = m - 1
    <3>1. \A i \in 1 .. m - 1 : dfs[i] \in HealCalls
      BY <1>3, <2>2
    <3>2. SubSeq(dfs, 1, m - 1) = [i \in 1 .. m - 1 |-> dfs[i]]
      BY <1>3, <2>3
    <3> HIDE DEF s, m
    <3> QED
      BY <2>1, <2>3, <3>1, <3>2
  <2>5. \A i \in 1 .. m - 1 : s[i] = dfs[i]
    BY <2>1, <2>3, <1>3
  <2> HIDE DEF s
  <2> QED
    BY <2>2, <2>4, <2>5
<1> HIDE DEF s
<1>5. IsPath(Way(dfs)) /\ dfs[1].node = started
  BY <1>1, <1>2 DEF OnPath
<1>6. Way(dfs) \in Seq(G!Nodes) /\ Len(Way(dfs)) = m /\ \A i \in 1 .. m : Way(dfs)[i] = dfs[i].node
  BY <1>3, <1>5 DEF Way, IsPath
<1>7. \A i \in 1 .. m - 1 : dfs[i].node # n
  <2>1. \A i \in 1 .. m - 1 : i \in 1 .. m /\ i # m
    BY <1>3
  <2> QED
    BY <2>1, <1>3, <1>5, <1>6 DEF IsPath
<1>8. marked \ {n} = {s[i].node : i \in 1 .. m - 1}
  <2>1. marked = {dfs[i].node : i \in 1 .. m}
    BY <1>2 DEF OnPath
  <2>2. \A i : i \in 1 .. m <=> i \in 1 .. m - 1 \/ i = m
    BY <1>3
  <2> QED
    BY <2>1, <2>2, <1>4, <1>7
<1>9. \A i \in 1 .. m - 1 : /\ PowerAt(s, i) = PowerAt(dfs, i) /\ TotalAt(s, i) = TotalAt(dfs, i)
                            /\ FromAt(s, i) = FromAt(dfs, i)
  <2>1. \A i \in 1 .. m - 1 : i # 1 => i - 1 \in 1 .. m - 1
    BY <1>3
  <2> QED
    BY <2>1, <1>4 DEF PowerAt, TotalAt, FromAt
<1>10. s # <<>> => IsPath(Way(s)) /\ s[1].node = started
  <2> SUFFICES ASSUME s # <<>>
               PROVE  IsPath(Way(s)) /\ s[1].node = started
    OBVIOUS
  <2>1. m - 1 \in Nat \ {0} /\ 1 \in 1 .. m - 1 /\ m - 1 <= m
    BY <1>3, <1>4
  <2>2. /\ Way(s) \in Seq(G!Nodes) /\ Len(Way(s)) = m - 1 /\ Way(s) # <<>>
        /\ \A i \in 1 .. m - 1 : Way(s)[i] = Way(dfs)[i]
    <3>1. \A i \in 1 .. m - 1 : s[i].node \in G!Nodes
      BY <1>4, CallsAre
    <3>2. Way(s) = [i \in 1 .. m - 1 |-> s[i].node]
      BY <1>4 DEF Way
    <3>3. Way(s) \in Seq(G!Nodes) /\ Len(Way(s)) = m - 1
      BY <3>1, <3>2, <2>1
    <3>4. \A i \in 1 .. m - 1 : Way(s)[i] = s[i].node
      BY <3>2
    <3>5. \A i \in 1 .. m - 1 : Way(s)[i] = Way(dfs)[i]
      BY <3>4, <1>4, <1>6
    <3> QED
      BY <3>3, <3>5, <2>1
  <2>3. \A i \in 1 .. m - 1 : i \in 1 .. m
    BY <1>3
  <2>4. \A k \in 1 .. (m - 1) - 1 : k \in 1 .. m - 1 /\ k + 1 \in 1 .. m - 1
    BY <1>3
  <2>5. m <= team.num_jumps /\ team.num_jumps \in Int
    BY <1>1, <1>5, <1>6 DEF IsPath, TeamIs
  <2>6. m - 1 <= team.num_jumps
    BY <2>5, <1>3
  <2>7. G!WithinRange(team.urgosa, Way(s)[1], team.initial_range)
    BY <2>1, <2>2, <1>5 DEF IsPath
  <2>8. \A i, j \in 1 .. m - 1 : Way(s)[i] = Way(s)[j] => i = j
    BY <2>2, <2>3, <1>5, <1>6 DEF IsPath
  <2>9. \A k \in 1 .. (m - 1) - 1 : G!WithinRange(Way(s)[k], Way(s)[k + 1], team.jump_range)
    BY <2>2, <2>4, <1>5, <1>6 DEF IsPath
  <2>10. s[1].node = started
    BY <2>1, <1>4, <1>5
  <2> QED
    BY <2>2, <2>6, <2>7, <2>8, <2>9, <2>10 DEF IsPath
<1>11. OnPath(s, marked \ {n}, prev, heal, started)
  <2>1. prev \in [G!Nodes -> Nat] /\ heal \in [G!Nodes -> Int]
    BY <1>2 DEF OnPath
  <2>2. \A i \in 1 .. m - 1 : /\ prev[s[i].node] = FromAt(s, i)
                              /\ heal[s[i].node] = G!Heal(s[i].node, PowerAt(s, i))
                              /\ s[i].total = TotalAt(s, i) + heal[s[i].node]
                              /\ s[i].power = G!Reduced(PowerAt(s, i))
    <3> SUFFICES ASSUME NEW i \in 1 .. m - 1
                 PROVE  /\ prev[s[i].node] = FromAt(s, i)
                        /\ heal[s[i].node] = G!Heal(s[i].node, PowerAt(s, i))
                        /\ s[i].total = TotalAt(s, i) + heal[s[i].node]
                        /\ s[i].power = G!Reduced(PowerAt(s, i))
      OBVIOUS
    <3>1. /\ prev[dfs[i].node] = FromAt(dfs, i)
          /\ heal[dfs[i].node] = G!Heal(dfs[i].node, PowerAt(dfs, i))
          /\ dfs[i].total = TotalAt(dfs, i) + heal[dfs[i].node]
          /\ dfs[i].power = G!Reduced(PowerAt(dfs, i))
      BY <1>2, <1>4 DEF OnPath
    <3> QED
      BY <3>1, <1>4, <1>9
  <2> QED
    BY <2>1, <2>2, <1>4, <1>8, <1>10 DEF OnPath
<1>12. ASSUME NEW p, IsPath(p), p[1] <= started
       PROVE  G!Total(p) <= best_heal \/ ToCome(p, s)
  <2>1. CASE ToCome(p, dfs)
    <3>1. PICK i \in 1 .. m : i < Len(p) /\ (\A j \in 1 .. i : p[j] = dfs[j].node) /\ p[i + 1] > dfs[i].tried
      BY <2>1 DEF ToCome
    <3>2. i # m
      BY <3>1, <1>1, <1>3, <1>12, LeavesToTry
    <3>3. i \in 1 .. m - 1 /\ \A j \in 1 .. i : j \in 1 .. m - 1
      BY <3>2, <1>3
    <3> QED
      BY <3>1, <3>3, <1>4 DEF ToCome
  <2> QED
    BY <2>1, <1>2, <1>12
<1> HIDE DEF n
<1> QED
  BY <1>1, <1>2, <1>11, <1>12, NextHealInv

LEMMA HealStutters == HealInv /\ UNCHANGED G!healVars => HealInv'
<1> SUFFICES ASSUME HealInv, UNCHANGED G!healVars
             PROVE  HealInv'
  OBVIOUS
<1>1. /\ team' = team /\ started' = started /\ marked' = marked /\ prev' = prev /\ heal' = heal
      /\ best_heal' = best_heal /\ best_path' = best_path /\ healing' = healing /\ dfs' = dfs
  BY DEF G!healVars
<1>2. /\ started \in Nat /\ OnPath(dfs, marked, prev, heal, started)
      /\ IsRecorded(best_heal, best_path, healing, started)
      /\ \A p : IsPath(p) /\ p[1] <= started => G!Total(p) <= best_heal \/ ToCome(p, dfs)
  BY DEF HealInv
<1> QED
  BY <1>1, <1>2, NextHealInv

LEMMA HealStarts ==
    ASSUME G!ChainHealAssumption
    PROVE  G!Init => HealInv
<1> SUFFICES ASSUME G!Init
             PROVE  HealInv
  OBVIOUS
<1>1. TeamIs(team)
  BY DEF G!Init, G!ChainHealAssumption, TeamIs
<1>2. OnPath(<<>>, {}, [n \in G!Nodes |-> IF n = Len(team.at) THEN G!NoNode ELSE n + 1],
             [n \in G!Nodes |-> 0], 0)
  BY <1>1, NodesAre DEF OnPath, G!NoNode
<1>3. \A p : IsPath(p) => ~(p[1] <= 0)
  BY <1>1, NodesAre DEF IsPath
<1> QED
  BY <1>1, <1>2, <1>3 DEF G!Init, HealInv, IsRecorded

\* The invariant, for every team.
THEOREM HealInvariant == G!Spec => []HealInv
<1> SUFFICES ASSUME G!ChainHealAssumption
             PROVE  G!Spec => []HealInv
  BY ProgramsAssumption DEF ProgramsAssumption
<1>1. G!Init => HealInv
  BY HealStarts
<1>2. HealInv /\ [G!Next]_G!healVars => HealInv'
  BY StartFromKeeps, GoOnKeeps, ReturnKeeps, HealStutters DEF G!Next
<1> QED
  BY <1>1, <1>2, PTL DEF G!Spec

\* chain_heal.c: the search finds a path that heals most, and copies it, with what heals each node.
THEOREM BestIsFound == G!Spec => []BestIsMax
<1>1. HealInv => G!BestIsMax
  <2> SUFFICES ASSUME HealInv
               PROVE  G!BestIsMax
    OBVIOUS
  <2>1. /\ TeamIs(team) /\ IsRecorded(best_heal, best_path, healing, started)
        /\ \A p : IsPath(p) /\ p[1] <= started => G!Total(p) <= best_heal \/ ToCome(p, dfs)
    BY DEF HealInv
  <2>2. dfs = <<>> => \A p \in G!Paths : G!Total(p) <= best_heal
    <3>1. \A p : ~ ToCome(p, <<>>)
      BY DEF ToCome
    <3> QED
      BY <2>1, <3>1, PathsAre
  <2>3. ASSUME best_heal > 0
        PROVE  /\ G!Reverse(best_path) \in G!Paths /\ G!Total(G!Reverse(best_path)) = best_heal
               /\ healing = [i \in DOMAIN best_path |->
                               G!Hops(G!Reverse(best_path))[Len(G!Reverse(best_path)) + 1 - i].heal]
    <3>1. PICK q : /\ IsPath(q) /\ q[1] <= started
                   /\ best_path = G!Reverse(q) /\ best_heal = G!Total(q)
                   /\ healing = [i \in 1 .. Len(q) |-> G!Hops(q)[Len(q) + 1 - i].heal]
      BY <2>1, <2>3 DEF IsRecorded
    <3>2. G!Reverse(best_path) = q /\ DOMAIN best_path = 1 .. Len(q)
      <4>1. q \in Seq(G!Nodes)
        BY <3>1 DEF IsPath
      <4>2. best_path \in Seq(G!Nodes) /\ Len(best_path) = Len(q)
        BY <4>1, <3>1, ReversedTwice
      <4> QED
        BY <4>1, <4>2, <3>1, ReversedTwice
    <3> QED
      BY <2>1, <3>1, <3>2, PathsAre
  <2> QED
    BY <2>2, <2>3 DEF G!BestIsMax
<1> QED
  BY <1>1, HealInvariant, PTL DEF BestIsMax

-----------------------------------------------------------------------------
(* huff_dec.c *)

Bits == Seq({0, 1})

\* The proper prefixes of a sequence are shorter, and the same as far as they go.
LEMMA PrefixIs ==
    ASSUME NEW b \in Bits, NEW c \in Bits
    PROVE  b \in H!ProperPrefixes(c) <=> Len(b) < Len(c) /\ \A i \in 1 .. Len(b) : b[i] = c[i]
<1>1. Len(b) \in Nat /\ Len(c) \in Nat /\ \A i \in 1 .. Len(c) : c[i] \in {0, 1}
  BY DEF Bits
<1>2. \A n \in 0 .. Len(c) - 1 : /\ SubSeq(c, 1, n) \in Bits /\ Len(SubSeq(c, 1, n)) = n
                                /\ \A i \in 1 .. n : SubSeq(c, 1, n)[i] = c[i]
  <2> SUFFICES ASSUME NEW n \in 0 .. Len(c) - 1
               PROVE  /\ SubSeq(c, 1, n) \in Bits /\ Len(SubSeq(c, 1, n)) = n
                      /\ \A i \in 1 .. n : SubSeq(c, 1, n)[i] = c[i]
    OBVIOUS
  <2>1. n \in Nat /\ 1 \in Int /\ n \in Int /\ 1 .. n \subseteq 1 .. Len(c)
    BY <1>1
  <2>2. \A i \in 1 .. n : c[i] \in {0, 1}
    BY <1>1, <2>1
  <2>3. /\ SubSeq(c, 1, n) \in Seq({0, 1}) /\ Len(SubSeq(c, 1, n)) = IF 1 <= n THEN n - 1 + 1 ELSE 0
        /\ \A i \in 1 .. n - 1 + 1 : SubSeq(c, 1, n)[i] = c[1 + i - 1]
    BY <2>1, <2>2, SubSeqProperties
  <2>4. n - 1 + 1 = n /\ (IF 1 <= n THEN n - 1 + 1 ELSE 0) = n /\ \A i \in 1 .. n : 1 + i - 1 = i
    BY <2>1
  <2> QED
    BY <2>3, <2>4 DEF Bits
<1>3. ASSUME b \in H!ProperPrefixes(c)
      PROVE  Len(b) < Len(c) /\ \A i \in 1 .. Len(b) : b[i] = c[i]
  <2>1. PICK n \in 0 .. Len(c) - 1 : b = SubSeq(c, 1, n)
    BY <1>3 DEF H!ProperPrefixes
  <2>2. Len(b) = n /\ \A i \in 1 .. n : b[i] = c[i]
    BY <1>2, <2>1
  <2> QED
    BY <1>1, <2>2
<1>4. ASSUME Len(b) < Len(c), \A i \in 1 .. Len(b) : b[i] = c[i]
      PROVE  b \in H!ProperPrefixes(c)
  <2> DEFINE n == Len(b)
             s == SubSeq(c, 1, n)
  <2>1. n \in 0 .. Len(c) - 1
    BY <1>1, <1>4
  <2>2. s \in Bits /\ Len(s) = n /\ \A i \in 1 .. n : s[i] = c[i]
    BY <1>2, <2>1
  <2>3. b = s
    <3>1. \A i \in 1 .. Len(b) : b[i] = s[i]
      BY <1>4, <2>2
    <3> HIDE DEF s
    <3> QED
      BY <2>2, <3>1, SeqEqual DEF Bits
  <2> QED
    BY <2>1, <2>3 DEF H!ProperPrefixes
<1> QED
  BY <1>3, <1>4

\* The parts of a sequence, and those of it with a bit more.
LEMMA OneBitMore ==
    ASSUME NEW s \in Bits, NEW bit \in {0, 1}, NEW m \in 0 .. Len(s)
    PROVE  LET t == Append(s, bit)
           IN  /\ t \in Bits /\ t # <<>> /\ Len(t) = Len(s) + 1
               /\ SubSeq(s, m + 1, Len(s)) \in Bits
               /\ \A n \in 0 .. Len(s) : SubSeq(t, m + 1, n) = SubSeq(s, m + 1, n)
               /\ SubSeq(t, m + 1, Len(s) + 1) = Append(SubSeq(s, m + 1, Len(s)), bit)
<1> DEFINE t == Append(s, bit)
           l == Len(s)
<1>1. /\ t \in Bits /\ t # <<>> /\ Len(t) = l + 1 /\ t[l + 1] = bit /\ \A i \in 1 .. l : t[i] = s[i]
  BY AppendProperties DEF Bits
<1>2. l \in Nat /\ m \in Nat /\ m <= l /\ \A i \in 1 .. l : s[i] \in {0, 1}
  BY DEF Bits
<1> HIDE DEF t, l
<1>3. \A i \in 1 .. l + 1 : t[i] \in {0, 1}
  BY <1>1, <1>2
<1>4. ASSUME NEW u \in {s, t}, NEW n \in 0 .. l + 1, u = s => n <= l
      PROVE  /\ SubSeq(u, m + 1, n) \in Bits
             /\ Len(SubSeq(u, m + 1, n)) = IF m <= n THEN n - m ELSE 0
             /\ \A i \in 1 .. n - m : SubSeq(u, m + 1, n)[i] = u[m + i]
  <2>1. n \in Int /\ m + 1 \in Int /\ \A i \in m + 1 .. n : i \in 1 .. l + 1 /\ (u = s => i \in 1 .. l)
    BY <1>2, <1>4
  <2>2. \A i \in m + 1 .. n : u[i] \in {0, 1}
    BY <1>2, <1>3, <2>1
  <2>3. /\ SubSeq(u, m + 1, n) \in Seq({0, 1})
        /\ Len(SubSeq(u, m + 1, n)) = IF m + 1 <= n THEN n - (m + 1) + 1 ELSE 0
        /\ \A i \in 1 .. n - (m + 1) + 1 : SubSeq(u, m + 1, n)[i] = u[m + 1 + i - 1]
    BY <2>1, <2>2, SubSeqProperties
  <2>4. /\ n - (m + 1) + 1 = n - m
        /\ (IF m + 1 <= n THEN n - (m + 1) + 1 ELSE 0) = (IF m <= n THEN n - m ELSE 0)
        /\ \A i \in 1 .. n - m : m + 1 + i - 1 = m + i
    BY <1>2, <1>4
  <2> QED
    BY <2>3, <2>4 DEF Bits
<1>5. ASSUME NEW n \in 0 .. l
      PROVE  SubSeq(t, m + 1, n) = SubSeq(s, m + 1, n)
  <2> DEFINE a == SubSeq(t, m + 1, n)
             b == SubSeq(s, m + 1, n)
  <2>1. n \in 0 .. l + 1 /\ n <= l /\ \A i \in 1 .. n - m : m + i \in 1 .. l
    BY <1>2, <1>5
  <2>2. /\ a \in Bits /\ Len(a) = (IF m <= n THEN n - m ELSE 0) /\ \A i \in 1 .. n - m : a[i] = t[m + i]
        /\ b \in Bits /\ Len(b) = (IF m <= n THEN n - m ELSE 0) /\ \A i \in 1 .. n - m : b[i] = s[m + i]
    BY <1>4, <2>1
  <2> HIDE DEF a, b
  <2>3. \A i \in 1 .. Len(a) : i \in 1 .. n - m
    BY <1>2, <2>1, <2>2
  <2>4. \A i \in 1 .. Len(a) : a[i] = b[i]
    BY <1>1, <2>1, <2>2, <2>3
  <2>5. a = b
    BY <2>2, <2>4, SeqEqual DEF Bits
  <2> QED
    BY <2>5 DEF a, b
<1>6. SubSeq(s, m + 1, l) \in Bits
  BY <1>2, <1>4
<1>7. SubSeq(t, m + 1, l + 1) = Append(SubSeq(s, m + 1, l), bit)
  <2> DEFINE a == SubSeq(t, m + 1, l + 1)
             b == SubSeq(s, m + 1, l)
             c == Append(b, bit)
  <2>1. /\ l \in 0 .. l + 1 /\ l + 1 \in 0 .. l + 1 /\ l <= l /\ m <= l /\ m <= l + 1 /\ l + 1 - m = l - m + 1
        /\ \A i \in 1 .. l - m : m + i \in 1 .. l /\ i \in 1 .. l + 1 - m
        /\ l - m \in Nat /\ m + (l - m + 1) = l + 1 /\ l - m + 1 \in 1 .. l + 1 - m
    BY <1>2
  <2>2. /\ a \in Bits /\ Len(a) = l + 1 - m /\ \A i \in 1 .. l + 1 - m : a[i] = t[m + i]
    <3>1. t \in {s, t} /\ (t = s => l + 1 <= l)
      BY <1>1 DEF l
    <3> QED
      BY <1>4, <2>1, <3>1
  <2>3. /\ b \in Bits /\ Len(b) = l - m /\ \A i \in 1 .. l - m : b[i] = s[m + i]
    BY <1>4, <2>1
  <2> HIDE DEF a, b
  <2>4. /\ c \in Bits /\ Len(c) = l - m + 1 /\ c[l - m + 1] = bit /\ \A i \in 1 .. l - m : c[i] = b[i]
    BY <2>3, AppendProperties DEF Bits
  <2> HIDE DEF c
  <2>5. \A i \in 1 .. Len(a) : i \in 1 .. l - m \/ i = l - m + 1
    BY <2>1, <2>2
  <2>6. a[l - m + 1] = bit /\ \A i \in 1 .. l - m : a[i] = s[m + i]
    BY <1>1, <2>1, <2>2
  <2>7. \A i \in 1 .. Len(a) : a[i] = c[i]
    BY <2>3, <2>4, <2>5, <2>6
  <2>8. a = c
    BY <2>1, <2>2, <2>4, <2>7, SeqEqual DEF Bits
  <2> QED
    BY <2>8 DEF a, b, c
<1> QED
  BY <1>1, <1>5, <1>6, <1>7 DEF t, l

\* Without the last one again.
LEMMA FrontOfAppend ==
    ASSUME NEW s \in Bits, NEW bit \in {0, 1}
    PROVE  SubSeq(Append(s, bit), 1, Len(s)) = s
<1> DEFINE a == SubSeq(Append(s, bit), 1, Len(s))
<1>1. Len(s) \in Nat /\ \A i \in 1 .. Len(s) : Append(s, bit)[i] = s[i] /\ s[i] \in {0, 1}
  BY AppendProperties DEF Bits
<1>2. /\ a \in Seq({0, 1}) /\ Len(a) = IF 1 <= Len(s) THEN Len(s) - 1 + 1 ELSE 0
      /\ \A i \in 1 .. Len(s) - 1 + 1 : a[i] = Append(s, bit)[1 + i - 1]
  <2>1. 1 \in Int /\ Len(s) \in Int /\ \A i \in 1 .. Len(s) : Append(s, bit)[i] \in {0, 1}
    BY <1>1
  <2> QED
    BY <2>1, SubSeqProperties
<1>3. Len(a) = Len(s) /\ \A i \in 1 .. Len(s) : i \in 1 .. Len(s) - 1 + 1 /\ 1 + i - 1 = i
  BY <1>1, <1>2
<1> HIDE DEF a
<1>4. \A i \in 1 .. Len(a) : a[i] = s[i]
  BY <1>1, <1>2, <1>3
<1>5. a = s
  BY <1>2, <1>3, <1>4, SeqEqual DEF Bits
<1> QED
  BY <1>5 DEF a

\* The tree of codes: its inner nodes begin codes, and strings are at the codes, each that of the last
\* definition of its code.  Codes are not longer than some bound.
Dictionary ==
    /\ codes \in Seq(Codewords)
    /\ \E n \in Nat : \A k \in DOMAIN codes : Len(codes[k]) <= n
    /\ \A b \in Bits : b \in nodes <=> b # <<>> /\ \E k \in DOMAIN codes : b \in H!ProperPrefixes(codes[k])
    /\ DOMAIN strings = {codes[k] : k \in DOMAIN codes}
    /\ \A b \in DOMAIN strings : /\ strings[b] \in DOMAIN codes /\ codes[strings[b]] = b
                                 /\ \A l \in DOMAIN codes : codes[l] = b => l <= strings[b]

\* What the codes are.
LEMMA CodesAre ==
    ASSUME H!HuffmanAssumption, codes \in Seq(Codewords)
    PROVE  /\ \A k \in DOMAIN codes : codes[k] \in Bits /\ codes[k] # <<>> /\ Len(codes[k]) \in Nat
           /\ H!ToSet(codes) = {codes[k] : k \in DOMAIN codes}
           /\ H!Leaves \subseteq Bits
<1>1. \A k \in DOMAIN codes : codes[k] \in Codewords
  OBVIOUS
<1>2. \A k \in DOMAIN codes : codes[k] \in Bits /\ codes[k] # <<>>
  BY <1>1 DEF H!HuffmanAssumption, Bits
<1>3. \A c \in Bits : Len(c) \in Nat
  BY DEF Bits
<1> QED
  BY <1>2, <1>3 DEF H!ToSet, H!Leaves

\* What begins a codeword with one bit more begins one, and no codeword begins another.
LEMMA BeginsEarlier ==
    ASSUME H!HuffmanAssumption, codes \in Seq(Codewords), NEW b \in Bits, NEW bit \in {0, 1}
    PROVE  LET w == Append(b, bit)
           IN  /\ H!Begins(w) => H!Begins(b)
               /\ w \in H!Leaves => H!Begins(b) /\ ~H!Begins(w)
<1> DEFINE w == Append(b, bit)
<1>1. /\ w \in Bits /\ Len(w) = Len(b) + 1 /\ Len(b) \in Nat
      /\ \A i \in 1 .. Len(b) : w[i] = b[i]
  BY AppendProperties DEF Bits
<1> HIDE DEF w
<1>2. \A i \in 1 .. Len(b) : i \in 1 .. Len(w)
  BY <1>1
<1>3. \A c \in H!Leaves : c \in Bits /\ Len(c) \in Nat
  BY CodesAre DEF Bits
<1>4. ASSUME H!Begins(w)
      PROVE  H!Begins(b)
  <2>1. PICK c \in H!Leaves : w \in H!ProperPrefixes(c)
    BY <1>4 DEF H!Begins
  <2>2. Len(w) < Len(c) /\ \A i \in 1 .. Len(w) : w[i] = c[i]
    BY <1>1, <1>3, <2>1, PrefixIs
  <2>3. Len(b) < Len(c)
    BY <1>1, <1>3, <2>2
  <2>4. \A i \in 1 .. Len(b) : b[i] = c[i]
    BY <1>1, <1>2, <2>2
  <2>5. b \in H!ProperPrefixes(c)
    BY <1>3, <2>3, <2>4, PrefixIs
  <2> QED
    BY <2>5 DEF H!Begins
<1>5. ASSUME w \in H!Leaves
      PROVE  H!Begins(b) /\ ~H!Begins(w)
  <2>1. b \in H!ProperPrefixes(w)
    BY <1>1, PrefixIs
  <2>2. \A c \in H!Leaves : w \notin H!ProperPrefixes(c)
    BY <1>5 DEF H!Leaves
  <2> QED
    BY <1>5, <2>1, <2>2 DEF H!Begins
<1> QED
  BY <1>4, <1>5 DEF w

\* What begins a code begins one that begins no other: the longest.
LEMMA LeafBeyond ==
    ASSUME H!HuffmanAssumption, Dictionary, NEW b \in Bits, NEW d \in DOMAIN codes,
           b \in H!ProperPrefixes(codes[d])
    PROVE  H!Begins(b)
<1>1. /\ codes \in Seq(Codewords)
      /\ \A k \in DOMAIN codes : codes[k] \in Bits /\ Len(codes[k]) \in Nat
      /\ H!ToSet(codes) = {codes[k] : k \in DOMAIN codes}
  BY CodesAre DEF Dictionary
<1>2. PICK n \in Nat : \A k \in DOMAIN codes : Len(codes[k]) <= n
  BY DEF Dictionary
<1> DEFINE D == {k \in DOMAIN codes : b \in H!ProperPrefixes(codes[k])}
           S == {Len(codes[k]) : k \in D}
<1>3. S \in SUBSET Nat /\ S # {} /\ \A l \in S : l <= n
  BY <1>1, <1>2
<1>4. PICK l \in S : \A m \in S : m <= l
  <2> HIDE DEF S
  <2> QED
    BY <1>3, GreatestNumber
<1>5. PICK k \in D : l = Len(codes[k])
  OBVIOUS
<1>6. \A j \in DOMAIN codes : codes[k] \notin H!ProperPrefixes(codes[j])
  <2> SUFFICES ASSUME NEW j \in DOMAIN codes, codes[k] \in H!ProperPrefixes(codes[j])
               PROVE  FALSE
    OBVIOUS
  <2> DEFINE c == codes[k]
             e == codes[j]
  <2>1. c \in Bits /\ e \in Bits /\ Len(c) \in Nat /\ Len(e) \in Nat /\ Len(b) \in Nat
    BY <1>1 DEF Bits
  <2>2. Len(c) < Len(e) /\ \A i \in 1 .. Len(c) : c[i] = e[i]
    BY <2>1, PrefixIs
  <2>3. Len(b) < Len(c) /\ \A i \in 1 .. Len(b) : b[i] = c[i]
    BY <2>1, PrefixIs
  <2>4. Len(b) < Len(e) /\ \A i \in 1 .. Len(b) : i \in 1 .. Len(c)
    BY <2>1, <2>2, <2>3
  <2>5. \A i \in 1 .. Len(b) : b[i] = e[i]
    BY <2>2, <2>3, <2>4
  <2>6. b \in H!ProperPrefixes(e)
    BY <2>1, <2>4, <2>5, PrefixIs
  <2>7. Len(e) \in S
    <3>1. j \in D
      BY <2>6
    <3> HIDE DEF D
    <3> QED
      BY <3>1
  <2>8. Len(e) <= Len(c)
    BY <1>4, <1>5, <2>7
  <2> QED
    BY <2>1, <2>2, <2>8
<1>7. codes[k] \in H!Leaves
  BY <1>1, <1>6 DEF H!Leaves
<1> QED
  BY <1>7 DEF H!Begins

\* What the tree says of some bits is what the codes do.
LEMMA DictionaryTells ==
    ASSUME H!HuffmanAssumption, Dictionary, NEW w \in Bits, w # <<>>
    PROVE  /\ w \in nodes <=> H!Begins(w)
           /\ w \notin nodes => (w \in DOMAIN strings <=> w \in H!Leaves)
           /\ w \in H!Leaves => w \notin nodes
           /\ w \in DOMAIN strings => strings[w] = H!Meaning(w)
<1>1. /\ codes \in Seq(Codewords) /\ DOMAIN codes \subseteq Nat
      /\ H!ToSet(codes) = {codes[k] : k \in DOMAIN codes}
  BY CodesAre DEF Dictionary
<1>2. w \in nodes <=> \E k \in DOMAIN codes : w \in H!ProperPrefixes(codes[k])
  BY DEF Dictionary
<1>3. w \in nodes => H!Begins(w)
  BY <1>2, LeafBeyond
<1>4. H!Begins(w) => w \in nodes
  BY <1>1, <1>2 DEF H!Begins, H!Leaves
<1>5. DOMAIN strings = {codes[k] : k \in DOMAIN codes}
  BY DEF Dictionary
<1>6. w \in H!Leaves <=> w \in DOMAIN strings /\ w \notin nodes
  BY <1>1, <1>2, <1>5 DEF H!Leaves
<1>7. ASSUME w \in DOMAIN strings
      PROVE  strings[w] = H!Meaning(w)
  <2> DEFINE k == strings[w]
  <2>1. k \in DOMAIN codes /\ codes[k] = w /\ \A l \in DOMAIN codes : codes[l] = w => l <= k
    BY <1>7 DEF Dictionary
  <2> HIDE DEF k
  <2>2. \A j \in DOMAIN codes : codes[j] = w /\ (\A l \in DOMAIN codes : codes[l] = w => l <= j) => j = k
    BY <1>1, <2>1
  <2>3. H!Meaning(w) = k
    BY <2>1, <2>2 DEF H!Meaning
  <2> QED
    BY <2>3 DEF k
<1> QED
  BY <1>3, <1>4, <1>6, <1>7

\* The definition of a cut, for bits of which the length is known.
LEMMA CutIs ==
    ASSUME NEW b, NEW c
    PROVE  c \in H!Cuts(b) <=>
              /\ c \subseteq 1 .. Len(b)
              /\ \A m \in c \cup {0} : \A n \in c : H!Precedes(c, m, n) => SubSeq(b, m + 1, n) \in H!Leaves
              /\ \A m \in c \cup {0} : H!Precedes(c, m, Len(b) + 1) =>
                    SubSeq(b, m + 1, Len(b)) = <<>> \/ H!Begins(SubSeq(b, m + 1, Len(b)))
  BY DEF H!Cuts

\* Whatever cuts some bits and one more cuts the former.
LEMMA CutEarlier ==
    ASSUME H!HuffmanAssumption, codes \in Seq(Codewords), NEW s \in Bits, NEW bit \in {0, 1},
           NEW c \in H!Cuts(Append(s, bit))
    PROVE  c \ {Len(s) + 1} \in H!Cuts(s)
<1> DEFINE t == Append(s, bit)
           l == Len(s)
           d == c \ {l + 1}
<1>1. l \in Nat /\ Len(t) = l + 1
  BY AppendProperties DEF Bits
<1>2. /\ c \subseteq 1 .. l + 1
      /\ \A m \in c \cup {0} : \A n \in c : H!Precedes(c, m, n) => SubSeq(t, m + 1, n) \in H!Leaves
      /\ \A m \in c \cup {0} : H!Precedes(c, m, l + 2) =>
            SubSeq(t, m + 1, l + 1) = <<>> \/ H!Begins(SubSeq(t, m + 1, l + 1))
  <2>1. Len(t) = l + 1 /\ Len(t) + 1 = l + 2
    BY <1>1
  <2> QED
    BY <2>1, CutIs
<1>3. \A m \in 0 .. l : /\ \A n \in 0 .. l : SubSeq(t, m + 1, n) = SubSeq(s, m + 1, n)
                        /\ SubSeq(s, m + 1, l) \in Bits
                        /\ SubSeq(t, m + 1, l + 1) = Append(SubSeq(s, m + 1, l), bit)
  BY OneBitMore
<1>4. \A b \in Bits : Append(b, bit) # <<>> /\ (Append(b, bit) \in H!Leaves \/ H!Begins(Append(b, bit)) => H!Begins(b))
  BY BeginsEarlier, AppendProperties DEF Bits
<1> HIDE DEF t, l
<1>5. d \subseteq 1 .. l /\ \A m \in d \cup {0} : m \in 0 .. l /\ m \in c \cup {0}
  BY <1>1, <1>2
<1>6. ASSUME NEW m \in d \cup {0}, NEW n \in d, H!Precedes(d, m, n)
      PROVE  SubSeq(s, m + 1, n) \in H!Leaves
  <2>1. H!Precedes(c, m, n) /\ n \in 0 .. l
    BY <1>1, <1>2, <1>5, <1>6 DEF H!Precedes
  <2> QED
    BY <1>2, <1>3, <1>5, <2>1
<1>7. ASSUME NEW m \in d \cup {0}, H!Precedes(d, m, l + 1)
      PROVE  H!Begins(SubSeq(s, m + 1, l))
  <2>1. m \in 0 .. l /\ m \in c \cup {0}
    BY <1>5
  <2> DEFINE w == SubSeq(t, m + 1, l + 1)
  <2>2. w \in H!Leaves \/ H!Begins(w)
    <3>1. CASE l + 1 \in c
      <4>1. H!Precedes(c, m, l + 1)
        BY <1>1, <1>2, <1>5, <1>7, <2>1 DEF H!Precedes
      <4> QED
        BY <1>2, <2>1, <3>1, <4>1
    <3>2. CASE l + 1 \notin c
      <4>1. H!Precedes(c, m, l + 2)
        BY <1>1, <1>2, <1>5, <1>7, <2>1, <3>2 DEF H!Precedes
      <4>2. w # <<>>
        BY <1>3, <1>4, <2>1
      <4> QED
        BY <1>2, <2>1, <4>1, <4>2
    <3> QED
      BY <3>1, <3>2
  <2> QED
    BY <1>3, <1>4, <2>1, <2>2
<1>8. d \in H!Cuts(s)
  BY <1>5, <1>6, <1>7, CutIs DEF l
<1> QED
  BY <1>8 DEF l

\* The only way to cut some bits, and what it leaves.
OnlyCut(s, ends, last, rest) ==
    /\ H!Cuts(s) = {ends} /\ last \in ends \cup {0}
    /\ H!Precedes(ends, last, Len(s) + 1) /\ rest = SubSeq(s, last + 1, Len(s))

\* The words of a cut, with one bit more.
LEMMA CutLeaves ==
    ASSUME NEW s \in Bits, NEW bit \in {0, 1}, NEW ends, NEW last, NEW rest, OnlyCut(s, ends, last, rest)
    PROVE  /\ rest \in Bits
           /\ \A m \in 0 .. Len(s) : \A k \in 0 .. Len(s) :
                 SubSeq(Append(s, bit), m + 1, k) = SubSeq(s, m + 1, k)
           /\ Append(rest, bit) = SubSeq(Append(s, bit), last + 1, Len(s) + 1)
           /\ last \in 0 .. Len(s) /\ \A m \in ends : m \in 1 .. Len(s) /\ m <= last
<1> DEFINE l == Len(s)
<1>1. l \in Nat
  BY DEF Bits
<1>2. ends \in H!Cuts(s) /\ last \in ends \cup {0} /\ H!Precedes(ends, last, l + 1) /\ rest = SubSeq(s, last + 1, l)
  BY DEF OnlyCut
<1>3. ends \subseteq 1 .. l
  BY <1>2, CutIs
<1>4. \A m \in 0 .. l : /\ \A k \in 0 .. l : SubSeq(Append(s, bit), m + 1, k) = SubSeq(s, m + 1, k)
                        /\ SubSeq(s, m + 1, l) \in Bits
                        /\ SubSeq(Append(s, bit), m + 1, l + 1) = Append(SubSeq(s, m + 1, l), bit)
  BY OneBitMore
<1> HIDE DEF l
<1>5. last \in 0 .. l
  BY <1>1, <1>2, <1>3
<1>6. \A m \in ends : m \in 1 .. l /\ m <= last
  BY <1>1, <1>2, <1>3 DEF H!Precedes
<1>7. rest \in Bits /\ Append(rest, bit) = SubSeq(Append(s, bit), last + 1, l + 1)
  BY <1>2, <1>4, <1>5
<1> QED
  BY <1>4, <1>5, <1>6, <1>7 DEF l

\* With one bit more, what is left goes on, or ends a codeword, or there is no cut any more.
LEMMA CutLater ==
    ASSUME H!HuffmanAssumption, codes \in Seq(Codewords), NEW s \in Bits, NEW bit \in {0, 1},
           NEW ends, NEW last, NEW rest, OnlyCut(s, ends, last, rest)
    PROVE  /\ H!Begins(Append(rest, bit)) => OnlyCut(Append(s, bit), ends, last, Append(rest, bit))
           /\ Append(rest, bit) \in H!Leaves =>
                 OnlyCut(Append(s, bit), ends \cup {Len(s) + 1}, Len(s) + 1, <<>>)
           /\ ~H!Begins(Append(rest, bit)) /\ Append(rest, bit) \notin H!Leaves => H!Cuts(Append(s, bit)) = {}
<1> DEFINE t == Append(s, bit)
           w == Append(rest, bit)
           l == Len(s)
           n == l + 1
<1>1. l \in Nat /\ t \in Bits /\ Len(t) = n
  BY AppendProperties DEF Bits
<1>2. ends \in H!Cuts(s) /\ last \in ends \cup {0} /\ H!Precedes(ends, last, n) /\ rest = SubSeq(s, last + 1, l)
  BY DEF OnlyCut
<1>3. /\ ends \subseteq 1 .. l
      /\ \A m \in ends \cup {0} : \A k \in ends : H!Precedes(ends, m, k) => SubSeq(s, m + 1, k) \in H!Leaves
  BY <1>2, CutIs
<1>4. \A m \in 0 .. l : /\ \A k \in 0 .. l : SubSeq(t, m + 1, k) = SubSeq(s, m + 1, k)
                        /\ SubSeq(s, m + 1, l) \in Bits
                        /\ SubSeq(t, m + 1, n) = Append(SubSeq(s, m + 1, l), bit)
  BY OneBitMore
<1>5. last \in 0 .. l /\ \A m \in ends \cup {0} : m \in 0 .. l /\ m <= last /\ (m >= last => m = last)
  <2>1. last \in 0 .. l /\ \A m \in ends : m \in 1 .. l /\ m <= last
    BY CutLeaves
  <2> HIDE DEF l
  <2>2. \A m \in ends \cup {0} : m \in 0 .. l /\ m <= last
    BY <1>1, <2>1
  <2> QED
    BY <1>1, <2>1, <2>2
<1>6. rest \in Bits /\ w = SubSeq(t, last + 1, n)
  BY <1>2, <1>4, <1>5
<1>7. w \in Bits /\ w # <<>>
  BY <1>6, AppendProperties DEF Bits
<1>8. \A c \in H!Cuts(t) : c = ends \/ c = ends \cup {n}
  <2>1. \A c \in H!Cuts(t) : c \ {n} \in H!Cuts(s)
    BY CutEarlier
  <2>2. \A c \in H!Cuts(t) : c \ {n} = ends
    BY <2>1 DEF OnlyCut
  <2>3. ASSUME NEW c \in H!Cuts(t)
        PROVE  c = ends \/ c = ends \cup {n}
    <3>1. c \ {n} = ends
      BY <2>2
    <3>2. c = (c \ {n}) \/ c = (c \ {n}) \cup {n}
      OBVIOUS
    <3> QED
      BY <3>1, <3>2
  <2> QED
    BY <2>3
<1>9. w \in H!Leaves => ~H!Begins(w)
  BY <1>6, BeginsEarlier
<1>z. SubSeq(t, n + 1, n) = <<>>
  BY <1>1, SubSeqEmpty
<1> HIDE DEF t, w, l
<1>10. ends \in H!Cuts(t) <=> H!Begins(w)
  <2>1. H!Precedes(ends, last, n + 1)
    BY <1>1, <1>2, <1>3, <1>5 DEF H!Precedes
  <2>2. \A m \in ends \cup {0} : H!Precedes(ends, m, n + 1) => m = last
    <3> SUFFICES ASSUME NEW m \in ends \cup {0}, H!Precedes(ends, m, n + 1)
                 PROVE  m = last
      OBVIOUS
    <3>1. m \in Nat /\ \A k \in ends : k <= m
      BY <1>1, <1>3, <1>5 DEF H!Precedes
    <3>2. last <= m
      BY <1>2, <1>5, <3>1
    <3> QED
      BY <1>1, <1>5, <3>1, <3>2
  <2>3. \A m \in ends \cup {0} : \A k \in ends : H!Precedes(ends, m, k) => SubSeq(t, m + 1, k) \in H!Leaves
    <3>1. \A k \in ends : k \in 0 .. l
      BY <1>1, <1>3
    <3> QED
      BY <1>3, <1>4, <1>5, <3>1
  <2>4. ends \subseteq 1 .. n
    BY <1>1, <1>3
  <2> QED
    BY <1>1, <1>2, <1>6, <1>7, <2>1, <2>2, <2>3, <2>4, CutIs
<1>11. ends \cup {n} \in H!Cuts(t) <=> w \in H!Leaves
  <2> DEFINE c == ends \cup {n}
  <2>1. H!Precedes(c, last, n) /\ n \in c /\ last \in c \cup {0}
    BY <1>1, <1>2, <1>5 DEF H!Precedes
  <2>2. \A m \in c \cup {0} : H!Precedes(c, m, n) => m = last
    <3> SUFFICES ASSUME NEW m \in c \cup {0}, H!Precedes(c, m, n)
                 PROVE  m = last
      OBVIOUS
    <3>1. m < n /\ \A k \in ends : k <= m \/ k >= n
      BY DEF H!Precedes
    <3>2. m \in ends \cup {0}
      BY <1>1, <3>1
    <3>3. m \in 0 .. l /\ m <= last /\ \A k \in ends : k <= m
      BY <1>1, <1>3, <1>5, <3>1, <3>2
    <3>4. last <= m
      BY <1>2, <1>5, <3>3
    <3> QED
      BY <1>1, <1>5, <3>3, <3>4
  <2>3. \A m \in c \cup {0} : \A k \in ends : H!Precedes(c, m, k) => SubSeq(t, m + 1, k) \in H!Leaves
    <3> SUFFICES ASSUME NEW m \in c \cup {0}, NEW k \in ends, H!Precedes(c, m, k)
                 PROVE  SubSeq(t, m + 1, k) \in H!Leaves
      OBVIOUS
    <3>1. k \in 1 .. l /\ k \in 0 .. l
      BY <1>1, <1>3
    <3>2. m \in ends \cup {0} /\ H!Precedes(ends, m, k)
      BY <1>1, <3>1 DEF H!Precedes
    <3> QED
      BY <1>3, <1>4, <1>5, <3>1, <3>2
  <2>4. \A m \in c \cup {0} : H!Precedes(c, m, n + 1) => m = n
    <3> SUFFICES ASSUME NEW m \in c \cup {0}, H!Precedes(c, m, n + 1)
                 PROVE  m = n
      OBVIOUS
    <3>1. n <= m \/ n >= n + 1
      BY DEF H!Precedes
    <3>2. m \notin ends \cup {0}
      BY <1>1, <1>5, <3>1
    <3> QED
      BY <3>2
  <2>5. c \subseteq 1 .. n
    BY <1>1, <1>3
  <2> HIDE DEF c
  <2>6. c \in H!Cuts(t) => w \in H!Leaves
    BY <1>6, <2>1, CutIs
  <2>7. w \in H!Leaves => c \in H!Cuts(t)
    <3> SUFFICES ASSUME w \in H!Leaves
                 PROVE  c \in H!Cuts(t)
      OBVIOUS
    <3>1. \A m \in c \cup {0} : \A k \in c : H!Precedes(c, m, k) => SubSeq(t, m + 1, k) \in H!Leaves
      BY <1>6, <2>2, <2>3 DEF c
    <3>2. \A m \in c \cup {0} : H!Precedes(c, m, Len(t) + 1) => SubSeq(t, m + 1, Len(t)) = <<>>
      BY <1>1, <1>z, <2>4
    <3> QED
      BY <1>1, <2>5, <3>1, <3>2, CutIs
  <2> QED
    BY <2>6, <2>7 DEF c
<1>12. ASSUME H!Begins(w)
       PROVE  OnlyCut(t, ends, last, w)
  <2>1. H!Cuts(t) = {ends}
    BY <1>8, <1>9, <1>10, <1>11, <1>12
  <2>2. H!Precedes(ends, last, Len(t) + 1)
    BY <1>1, <1>2, <1>3, <1>5 DEF H!Precedes
  <2> QED
    BY <1>1, <1>2, <1>6, <2>1, <2>2 DEF OnlyCut
<1>13. ASSUME w \in H!Leaves
       PROVE  OnlyCut(t, ends \cup {n}, n, <<>>)
  <2>1. H!Cuts(t) = {ends \cup {n}}
    BY <1>8, <1>9, <1>10, <1>11, <1>13
  <2>2. H!Precedes(ends \cup {n}, n, Len(t) + 1)
    BY <1>1, <1>3, <1>5 DEF H!Precedes
  <2> QED
    BY <1>1, <1>z, <2>1, <2>2 DEF OnlyCut
<1>14. ~H!Begins(w) /\ w \notin H!Leaves => H!Cuts(t) = {}
  BY <1>8, <1>10, <1>11
<1> QED
  BY <1>12, <1>13, <1>14 DEF t, w, l

\* What there is to a decoding.
Decoded(ends, last) == OnlyCut(message, ends, last, curr) /\ H!PrintedAs(ends)

\* There is one until the bits are not recognized, whether or not the input ends with a codeword.
Decodes ==
    /\ stage \in {"decoding", "done"} => \E ends, last : Decoded(ends, last)
    /\ stage = "exited" /\ message # <<>> => H!Cuts(message) = {} /\ H!Cuts(H!Front(message)) # {}

\* The inductive invariant of huff_dec.c: the tree says what the codes do, and the bits read so far
\* are cut the only way there is.
HuffInv ==
    /\ stage \in {"defining", "decoding", "done", "exited"}
    /\ message \in Bits /\ curr \in Bits /\ output \in Seq(Nat)
    /\ Dictionary
    /\ stage = "defining" => message = <<>> /\ curr = <<>> /\ output = <<>>
    /\ Decodes

\* Cardinalities in the instance of Huffman are what they are here.
LEMMA HuffCardinality == \A S : H!Cardinality(S) = Cardinality(S)
BY DEF H!Cardinality, Cardinality

\* While the codes stay the same, so do the cuts.
LEMMA SameCodes ==
    ASSUME codes' = codes
    PROVE  /\ H!Leaves' = H!Leaves /\ \A b : H!Meaning(b)' = H!Meaning(b)
           /\ \A b : H!Cuts(b)' = H!Cuts(b)
<1>1. H!Leaves' = H!Leaves
  BY DEF H!Leaves, H!ToSet, H!ProperPrefixes
<1>2. \A b : H!Begins(b)' = H!Begins(b)
  BY <1>1 DEF H!Begins, H!ProperPrefixes
<1>3. \A b : H!Cuts(b)' = H!Cuts(b)
  BY <1>1, <1>2 DEF H!Cuts, H!Precedes
<1>4. \A b : H!Meaning(b)' = H!Meaning(b)
  BY DEF H!Meaning
<1> QED
  BY <1>1, <1>3, <1>4

LEMMA SameDecoding ==
    ASSUME codes' = codes, message' = message, curr' = curr, output' = output
    PROVE  \A ends, last : Decoded(ends, last)' = Decoded(ends, last)
<1>1. \A ends, last : OnlyCut(message, ends, last, curr)' = OnlyCut(message, ends, last, curr)
  BY SameCodes DEF OnlyCut, H!Precedes
<1>2. \A ends : H!PrintedAs(ends)' = H!PrintedAs(ends)
  BY SameCodes DEF H!PrintedAs, H!Precedes
<1> QED
  BY <1>1, <1>2 DEF Decoded

\* A definition.
LEMMA InsertCodeKeeps ==
    ASSUME H!HuffmanAssumption, HuffInv, NEW bits \in Codewords, H!InsertCode(bits)
    PROVE  HuffInv'
<1> DEFINE n == Len(codes)
<1>1. /\ stage = "defining" /\ codes' = Append(codes, bits) /\ nodes' = nodes \cup (H!ProperPrefixes(bits) \ {<<>>})
      /\ strings' = [b \in DOMAIN strings \cup {bits} |-> IF b = bits THEN n + 1 ELSE strings[b]]
      /\ stage' = stage /\ message' = message /\ curr' = curr /\ output' = output
  BY DEF H!InsertCode, H!root
<1>2. codes \in Seq(Codewords) /\ n \in Nat /\ DOMAIN codes = 1 .. n
  BY DEF HuffInv, Dictionary
<1>3. /\ codes' \in Seq(Codewords) /\ DOMAIN codes' = 1 .. n + 1 /\ codes'[n + 1] = bits
      /\ \A k \in 1 .. n : codes'[k] = codes[k]
  BY <1>1, <1>2
<1>4. bits \in Bits /\ Len(bits) \in Nat
  BY DEF H!HuffmanAssumption, Bits
<1>5. n + 1 \in DOMAIN codes' /\ DOMAIN codes \subseteq DOMAIN codes'
      /\ \A k \in DOMAIN codes' : k \in DOMAIN codes \/ k = n + 1
  BY <1>2, <1>3
<1> HIDE DEF n
<1>6. \E m \in Nat : \A k \in DOMAIN codes' : Len(codes'[k]) <= m
  <2>1. PICK m \in Nat : \A k \in DOMAIN codes : Len(codes[k]) <= m
    BY DEF HuffInv, Dictionary
  <2>2. \A k \in DOMAIN codes : Len(codes[k]) \in Nat
    BY CodesAre DEF HuffInv, Dictionary
  <2> DEFINE r == m + Len(bits)
  <2>3. r \in Nat /\ Len(bits) <= r /\ \A l \in Nat : l <= m => l <= r
    BY <1>4, <2>1
  <2> HIDE DEF r
  <2>4. \A k \in DOMAIN codes' : Len(codes'[k]) <= r
    BY <1>2, <1>3, <1>5, <2>1, <2>2, <2>3
  <2> QED
    BY <2>3, <2>4
<1>7. \A b \in Bits : b \in nodes' <=> b # <<>> /\ \E k \in DOMAIN codes' : b \in H!ProperPrefixes(codes'[k])
  <2> SUFFICES ASSUME NEW b \in Bits
               PROVE  b \in nodes' <=> b # <<>> /\ \E k \in DOMAIN codes' : b \in H!ProperPrefixes(codes'[k])
    OBVIOUS
  <2>1. b \in nodes <=> b # <<>> /\ \E k \in DOMAIN codes : b \in H!ProperPrefixes(codes[k])
    BY DEF HuffInv, Dictionary
  <2>2. b \in nodes' <=> b \in nodes \/ (b # <<>> /\ b \in H!ProperPrefixes(bits))
    BY <1>1
  <2>3. (\E k \in DOMAIN codes' : b \in H!ProperPrefixes(codes'[k]))
        <=> b \in H!ProperPrefixes(bits) \/ \E k \in DOMAIN codes : b \in H!ProperPrefixes(codes[k])
    BY <1>2, <1>3, <1>5
  <2> QED
    BY <2>1, <2>2, <2>3
<1>8. DOMAIN strings' = {codes'[k] : k \in DOMAIN codes'}
  <2>1. DOMAIN strings = {codes[k] : k \in DOMAIN codes}
    BY DEF HuffInv, Dictionary
  <2>2. DOMAIN strings' = DOMAIN strings \cup {bits}
    BY <1>1
  <2>3. {codes'[k] : k \in DOMAIN codes'} = {codes[k] : k \in DOMAIN codes} \cup {bits}
    BY <1>2, <1>3, <1>5
  <2> QED
    BY <2>1, <2>2, <2>3
<1>9. ASSUME NEW b \in DOMAIN strings'
      PROVE  /\ strings'[b] \in DOMAIN codes' /\ codes'[strings'[b]] = b
             /\ \A l \in DOMAIN codes' : codes'[l] = b => l <= strings'[b]
  <2>1. CASE b = bits
    <3>1. strings'[b] = n + 1
      BY <1>1, <2>1
    <3> QED
      BY <1>2, <1>3, <1>5, <2>1, <3>1
  <2>2. CASE b # bits
    <3>1. b \in DOMAIN strings /\ strings'[b] = strings[b]
      BY <1>1, <2>2
    <3>2. /\ strings[b] \in DOMAIN codes /\ codes[strings[b]] = b
          /\ \A l \in DOMAIN codes : codes[l] = b => l <= strings[b]
      BY <3>1 DEF HuffInv, Dictionary
    <3> QED
      BY <1>2, <1>3, <1>5, <2>2, <3>1, <3>2
  <2> QED
    BY <2>1, <2>2
<1>10. Dictionary'
  BY <1>3, <1>6, <1>7, <1>8, <1>9 DEF Dictionary
<1>11. Decodes'
  BY <1>1 DEF Decodes
<1> QED
  BY <1>1, <1>10, <1>11 DEF HuffInv

\* The codes stay what they are.
LEMMA DictionaryStays ==
    ASSUME Dictionary, UNCHANGED <<codes, nodes, strings>>
    PROVE  Dictionary'
  BY DEF Dictionary, H!ProperPrefixes

\* There are no bits yet, and the only way to cut them.
LEMMA NoBitsAreCut ==
    ASSUME NEW b, b = <<>>
    PROVE  OnlyCut(b, {}, 0, <<>>)
<1>1. Len(b) = 0 /\ SubSeq(b, 1, 0) = <<>>
  BY SubSeqEmpty
<1>2. \A c : c \in H!Cuts(b) => c = {}
  BY <1>1, CutIs
<1>3. H!Precedes({}, 0, 1)
  BY DEF H!Precedes
<1>4. {} \in H!Cuts(b)
  BY <1>1, CutIs
<1> QED
  BY <1>1, <1>2, <1>3, <1>4, SMTT(30) DEF OnlyCut

\* The end of the codes.
LEMMA EndOfCodesKeeps ==
    ASSUME H!HuffmanAssumption, HuffInv, H!EndOfCodes
    PROVE  HuffInv'
<1>1. /\ stage = "defining" /\ stage' \in {"decoding", "exited"} /\ UNCHANGED <<codes, nodes, strings>>
      /\ message' = message /\ curr' = curr /\ output' = output
      /\ message = <<>> /\ curr = <<>> /\ output = <<>>
  BY DEF H!EndOfCodes, HuffInv
<1>2. Dictionary'
  BY <1>1, DictionaryStays DEF HuffInv
<1>3. Decoded({}, 0)
  <2>1. Len(output) = 0 /\ Cardinality({}) = 0
    BY <1>1, FS_EmptySet
  <2>2. H!PrintedAs({})
    BY <2>1, HuffCardinality DEF H!PrintedAs
  <2> QED
    BY <1>1, <2>2, NoBitsAreCut DEF Decoded
<1>4. Decoded({}, 0)'
  <2>1. \A ends, last : Decoded(ends, last)' = Decoded(ends, last)
    BY <1>1, SameDecoding
  <2> QED
    BY <1>3, <2>1
<1>5. Decodes'
  BY <1>1, <1>4 DEF Decodes, Decoded, OnlyCut
<1> QED
  BY <1>1, <1>2, <1>5 DEF HuffInv

\* What has been printed, in terms of the codes, the bits and the output.
MeaningIn(c, b) == CHOOSE k \in DOMAIN c : c[k] = b /\ \A l \in DOMAIN c : c[l] = b => l <= k

PrintsAs(c, s, o, ends) ==
    /\ Len(o) = Cardinality(ends)
    /\ \A m \in ends \cup {0} : \A n \in ends : H!Precedes(ends, m, n) =>
          o[Cardinality({l \in ends : l <= n})] = MeaningIn(c, SubSeq(s, m + 1, n))

LEMMA PrintedIs == \A ends : H!PrintedAs(ends) <=> PrintsAs(codes, message, output, ends)
BY HuffCardinality DEF H!PrintedAs, PrintsAs, H!Meaning, MeaningIn

LEMMA PrintedIsNext == \A ends : H!PrintedAs(ends)' <=> PrintsAs(codes', message', output', ends)
BY HuffCardinality DEF H!PrintedAs, PrintsAs, H!Meaning, MeaningIn, H!Precedes

\* A string is printed at the end of a codeword: it is the string of that one, and those printed
\* before are as they were.
LEMMA PrintsOneMore ==
    ASSUME H!HuffmanAssumption, HuffInv, NEW bit \in {0, 1}, NEW ends, NEW last, Decoded(ends, last),
           message' = Append(message, bit), codes' = codes,
           Append(curr, bit) \in H!Leaves, Append(curr, bit) \in DOMAIN strings,
           output' = Append(output, strings[Append(curr, bit)])
    PROVE  \A n : n = Len(message) + 1 => H!PrintedAs(ends \cup {n})'
<1> DEFINE l == Len(message)
           n == l + 1
           w == Append(curr, bit)
           c == ends \cup {n}
<1>1. l \in Nat /\ codes \in Seq(Codewords) /\ output \in Seq(Nat) /\ OnlyCut(message, ends, last, curr)
  BY DEF HuffInv, Bits, Dictionary, Decoded
<1>2. /\ \A m \in 0 .. l : \A k \in 0 .. l : SubSeq(message', m + 1, k) = SubSeq(message, m + 1, k)
      /\ w = SubSeq(message', last + 1, n) /\ \A m \in ends : m \in 1 .. l /\ m <= last
  <2>1. message \in Bits
    BY DEF HuffInv
  <2>2. \A i \in 0 .. Len(message) : \A j \in 0 .. Len(message) :
           SubSeq(Append(message, bit), i + 1, j) = SubSeq(message, i + 1, j)
    BY <1>1, <2>1, CutLeaves
  <2>3. Append(curr, bit) = SubSeq(Append(message, bit), last + 1, Len(message) + 1)
    BY <1>1, <2>1, CutLeaves, SMTT(30)
  <2>4. \A m \in ends : m \in 1 .. Len(message) /\ m <= last
    BY <1>1, <2>1, CutLeaves
  <2> QED
    BY <2>2, <2>3, <2>4
<1>3. last \in ends \cup {0}
  BY <1>1 DEF OnlyCut
<1>4. w \in Bits /\ w # <<>>
  BY AppendProperties DEF HuffInv, Bits
<1>5. strings[w] = H!Meaning(w) /\ strings[w] \in Nat
  <2>1. Dictionary /\ DOMAIN codes \subseteq Nat
    BY <1>1 DEF HuffInv
  <2>2. strings[w] \in DOMAIN codes
    BY <2>1 DEF Dictionary
  <2> QED
    BY <1>4, <2>1, <2>2, DictionaryTells
<1>6. Len(output) = Cardinality(ends)
  BY PrintedIs DEF Decoded, PrintsAs
<1>7. \A m \in ends \cup {0} : \A k \in ends : H!Precedes(ends, m, k) =>
         output[Cardinality({j \in ends : j <= k})] = MeaningIn(codes, SubSeq(message, m + 1, k))
  BY PrintedIs DEF Decoded, PrintsAs
<1> HIDE DEF l, w
<1>8. IsFiniteSet(ends) /\ n \notin ends
  <2>1. ends \in SUBSET (1 .. l) /\ n \notin ends
    BY <1>1, <1>2
  <2>2. IsFiniteSet(1 .. l)
    <3>1. 1 \in Int /\ l \in Int
      BY <1>1
    <3> QED
      BY <3>1, FS_Interval
  <2>3. IsFiniteSet(ends)
    BY <2>1, <2>2, FS_Subset
  <2> QED
    BY <2>1, <2>3
<1>9. Cardinality(c) = Cardinality(ends) + 1
  BY <1>8, FS_AddElement
<1>10. /\ output' \in Seq(Nat) /\ Len(output') = Len(output) + 1 /\ output'[Len(output) + 1] = strings[w]
       /\ \A i \in 1 .. Len(output) : output'[i] = output[i]
  <2>1. output' = Append(output, strings[w])
    BY DEF w
  <2> QED
    BY <1>1, <1>5, <2>1, AppendProperties
<1>11. \A b : H!Meaning(b) = MeaningIn(codes, b)
  BY DEF H!Meaning, MeaningIn
<1>12. ASSUME NEW m \in c \cup {0}, NEW k \in c, H!Precedes(c, m, k)
       PROVE  output'[Cardinality({j \in c : j <= k})] = MeaningIn(codes, SubSeq(message', m + 1, k))
  <2>1. CASE k = n
    <3>1. {j \in c : j <= k} = c
      <4>1. \A j \in c : j <= k
        BY <1>1, <1>2, <2>1
      <4> QED
        BY <4>1
    <3>2. m = last
      <4>1. m < n /\ \A j \in ends : j <= m \/ j >= n
        BY <1>12, <2>1 DEF H!Precedes
      <4>2. m \in ends \cup {0} /\ \A j \in ends : j <= m
        BY <1>1, <1>2, <4>1
      <4>3. m \in Nat /\ last \in Nat /\ m <= last /\ last <= m
        BY <1>1, <1>2, <1>3, <4>2
      <4> QED
        BY <4>3
    <3>3. SubSeq(message', m + 1, k) = w
      BY <1>2, <2>1, <3>2
    <3>4. output'[Cardinality(c)] = strings[w]
      BY <1>6, <1>9, <1>10
    <3> QED
      BY <1>5, <1>11, <3>1, <3>3, <3>4
  <2>2. CASE k \in ends
    <3>1. k \in 1 .. l /\ k \in 0 .. l
      BY <1>1, <1>2, <2>2
    <3>2. {j \in c : j <= k} = {j \in ends : j <= k}
      BY <1>1, <3>1
    <3>3. m \in ends \cup {0} /\ m \in 0 .. l /\ H!Precedes(ends, m, k)
      BY <1>1, <1>2, <1>12, <3>1 DEF H!Precedes
    <3> DEFINE J == {j \in ends : j <= k}
    <3>4. Cardinality(J) \in 1 .. Len(output)
      <4>1. J \in SUBSET ends /\ k \in J
        BY <2>2, <3>1
      <4> HIDE DEF J
      <4>2. IsFiniteSet(J) /\ Cardinality(J) <= Cardinality(ends)
        BY <1>8, <4>1, FS_Subset
      <4>3. Cardinality(J) \in Nat /\ Cardinality(J) # 0
        BY <4>1, <4>2, FS_CardinalityType, FS_EmptySet
      <4>4. Len(output) \in Nat
        BY <1>1
      <4> QED
        BY <1>6, <4>2, <4>3, <4>4
    <3>5. output[Cardinality(J)] = MeaningIn(codes, SubSeq(message, m + 1, k))
      BY <1>7, <2>2, <3>3
    <3>6. output'[Cardinality(J)] = output[Cardinality(J)]
      <4> HIDE DEF J
      <4> QED
        BY <1>10, <3>4
    <3>7. SubSeq(message', m + 1, k) = SubSeq(message, m + 1, k)
      BY <1>2, <3>1, <3>3
    <3> QED
      BY <3>2, <3>5, <3>6, <3>7
  <2> QED
    BY <2>1, <2>2
<1>13. Len(output') = Cardinality(c)
  BY <1>6, <1>9, <1>10
<1>14. PrintsAs(codes', message', output', c)
  BY <1>12, <1>13 DEF PrintsAs
<1>15. PrintsAs(codes', message', output', ends \cup {Len(message) + 1})
  BY <1>14 DEF l
<1> QED
  <2>1. \A x : PrintsAs(codes', message', output', ends \cup {x}) => H!PrintedAs(ends \cup {x})'
    BY PrintedIsNext
  <2>2. \A x : x = Len(message) + 1 => H!PrintedAs(ends \cup {x})'
    BY <1>15, <2>1
  <2> QED
    BY <2>2

\* A bit.
LEMMA DecodeBitKeeps ==
    ASSUME H!HuffmanAssumption, HuffInv, NEW bit \in {0, 1}, H!DecodeBit(bit)
    PROVE  HuffInv'
<1> DEFINE w == Append(curr, bit)
           n == Len(message) + 1
<1>1. /\ stage = "decoding" /\ message' = Append(message, bit) /\ UNCHANGED <<codes, nodes, strings>>
      /\ \/ w \in nodes /\ curr' = w /\ stage' = stage /\ output' = output
         \/ /\ w \notin nodes /\ w \in DOMAIN strings
            /\ output' = Append(output, strings[w]) /\ curr' = <<>> /\ stage' = stage
         \/ w \notin nodes /\ w \notin DOMAIN strings /\ stage' = "exited" /\ curr' = curr /\ output' = output
  BY DEF H!DecodeBit, H!GoesOn, H!root
<1>2. /\ message \in Bits /\ curr \in Bits /\ output \in Seq(Nat) /\ Dictionary /\ codes \in Seq(Codewords)
      /\ message' \in Bits /\ message' # <<>> /\ w \in Bits /\ w # <<>>
  <2>1. message \in Bits /\ curr \in Bits /\ output \in Seq(Nat) /\ Dictionary /\ codes \in Seq(Codewords)
    BY DEF HuffInv, Dictionary
  <2>2. \A b \in Bits : Append(b, bit) \in Bits /\ Append(b, bit) # <<>>
    <3> SUFFICES ASSUME NEW b \in Seq({0, 1})
                 PROVE  Append(b, bit) \in Seq({0, 1}) /\ Append(b, bit) # <<>>
      BY DEF Bits
    <3> QED
      BY AppendProperties
  <2> QED
    BY <1>1, <2>1, <2>2
<1>3. PICK ends, last : Decoded(ends, last)
  BY <1>1 DEF HuffInv, Decodes
<1>4. OnlyCut(message, ends, last, curr)
  BY <1>3 DEF Decoded
<1>5. Dictionary'
  BY <1>1, <1>2, DictionaryStays
<1>6. \A s, c, k, r : OnlyCut(s, c, k, r)' <=> OnlyCut(s, c, k, r)
  BY <1>1, SameCodes DEF OnlyCut, H!Precedes
<1>7. CASE w \in nodes
  <2>1. curr' = w /\ stage' = stage /\ output' = output
    BY <1>1, <1>7
  <2>2. H!Begins(w)
    BY <1>2, <1>7, DictionaryTells
  <2>3. OnlyCut(message', ends, last, curr')
    BY <1>1, <1>2, <1>4, <2>1, <2>2, CutLater
  <2>4. PrintsAs(codes', message', output', ends)
    <3>1. PrintsAs(codes, message, output, ends)
      BY <1>3, PrintedIs DEF Decoded
    <3>2. /\ \A m \in 0 .. Len(message) : \A k \in 0 .. Len(message) : SubSeq(message', m + 1, k) = SubSeq(message, m + 1, k)
          /\ \A m \in ends \cup {0} : m \in 0 .. Len(message)
      <4>1. \A m \in 0 .. Len(message) : \A k \in 0 .. Len(message) :
               SubSeq(Append(message, bit), m + 1, k) = SubSeq(message, m + 1, k)
        BY <1>2, <1>4, CutLeaves
      <4>2. \A m \in ends : m \in 1 .. Len(message)
        BY <1>2, <1>4, CutLeaves
      <4>3. Len(message) \in Nat
        BY <1>2 DEF Bits
      <4> QED
        BY <1>1, <4>1, <4>2, <4>3
    <3>3. \A m \in ends \cup {0} : \A k \in ends : SubSeq(message', m + 1, k) = SubSeq(message, m + 1, k)
      BY <3>2
    <3> QED
      BY <1>1, <2>1, <3>1, <3>3 DEF PrintsAs
  <2>5. H!PrintedAs(ends)'
    BY <2>4, PrintedIsNext
  <2>6. Decoded(ends, last)'
    <3>1. \A s, r : OnlyCut(s, ends, last, r) => OnlyCut(s, ends, last, r)'
      BY <1>6
    <3>2. OnlyCut(message, ends, last, curr)'
      BY <1>1, <2>3, SameCodes DEF OnlyCut, H!Precedes
    <3> QED
      BY <2>5, <3>2 DEF Decoded
  <2>7. Decodes'
    BY <1>1, <2>1, <2>6 DEF Decodes, Decoded, OnlyCut
  <2> QED
    BY <1>1, <1>2, <1>5, <2>1, <2>7 DEF HuffInv
<1>8. CASE w \notin nodes /\ w \in DOMAIN strings
  <2>1. output' = Append(output, strings[w]) /\ curr' = <<>> /\ stage' = stage
    BY <1>1, <1>8
  <2>2. w \in H!Leaves /\ strings[w] \in Nat
    <3>1. w \in H!Leaves
      BY <1>2, <1>8, DictionaryTells
    <3>2. strings[w] \in DOMAIN codes
      BY <1>2, <1>8 DEF Dictionary
    <3>3. DOMAIN codes \subseteq Nat
      BY <1>2
    <3> QED
      BY <3>1, <3>2, <3>3
  <2>3. OnlyCut(Append(message, bit), ends \cup {n}, n, <<>>)
    BY <1>2, <1>4, <2>2, CutLater
  <2>4. \A k : k = n => H!PrintedAs(ends \cup {k})'
    BY <1>1, <1>3, <1>8, <2>1, <2>2, PrintsOneMore
  <2> HIDE DEF n
  <2>5. \E c, k : Decoded(c, k)'
    <3>1. OnlyCut(message', ends \cup {n}, n, curr')
      BY <1>1, <2>1, <2>3
    <3>2. \A k : k = n => OnlyCut(message', ends \cup {k}, k, curr')
      BY <3>1
    <3>3. \A k : k = n => OnlyCut(message, ends \cup {k}, k, curr)'
      BY <1>1, <3>2, SameCodes DEF OnlyCut, H!Precedes
    <3>4. \A k : k = n => Decoded(ends \cup {k}, k)'
      BY <2>4, <3>3 DEF Decoded
    <3> QED
      BY <3>4
  <2>6. Decodes'
    BY <1>1, <2>1, <2>5 DEF Decodes, Decoded, OnlyCut
  <2>7. output' \in Seq(Nat) /\ curr' \in Bits
    BY <1>2, <2>1, <2>2, AppendProperties DEF Bits
  <2> QED
    BY <1>1, <1>2, <1>5, <2>1, <2>6, <2>7 DEF HuffInv
<1>9. CASE w \notin nodes /\ w \notin DOMAIN strings
  <2>1. stage' = "exited" /\ curr' = curr /\ output' = output
    BY <1>1, <1>9
  <2>2. ~H!Begins(w) /\ w \notin H!Leaves
    BY <1>2, <1>9, DictionaryTells
  <2>3. H!Cuts(message') = {}
    <3>1. H!Cuts(Append(message, bit)) = {}
      BY <1>2, <1>4, <2>2, CutLater
    <3> QED
      BY <1>1, <3>1
  <2>4. H!Front(message') = message
    <3>1. H!Front(message') = SubSeq(Append(message, bit), 1, Len(message))
      <4>1. Len(message') - 1 = Len(message)
        BY <1>1, <1>2, AppendProperties DEF Bits
      <4> QED
        BY <1>1, <4>1 DEF H!Front
    <3> QED
      BY <1>2, <3>1, FrontOfAppend
  <2>5. H!Cuts(message) # {}
    BY <1>4 DEF OnlyCut
  <2>6. Decodes'
    <3>1. H!Cuts(message)' = {}
      BY <2>3, <1>1, SameCodes
    <3>2. H!Cuts(H!Front(message))' # {}
      <4>1. \A b : H!Cuts(b)' = H!Cuts(b)
        BY <1>1, SameCodes
      <4>2. H!Front(message)' = message
        BY <2>4 DEF H!Front
      <4> QED
        BY <2>5, <4>1, <4>2
    <3> QED
      BY <2>1, <3>1, <3>2 DEF Decodes
  <2> QED
    BY <1>1, <1>2, <1>5, <2>1, <2>6 DEF HuffInv
<1> QED
  BY <1>7, <1>8, <1>9

\* The end of the bits.
LEMMA EndOfInputKeeps ==
    ASSUME H!HuffmanAssumption, HuffInv, H!EndOfInput
    PROVE  HuffInv'
<1>1. /\ stage = "decoding" /\ stage' = "done" /\ UNCHANGED <<codes, nodes, strings>>
      /\ message' = message /\ curr' = curr /\ output' = output
  BY DEF H!EndOfInput
<1>2. Dictionary'
  BY <1>1, DictionaryStays DEF HuffInv
<1>3. PICK ends, last : Decoded(ends, last)
  BY <1>1 DEF HuffInv, Decodes
<1>4. Decoded(ends, last)'
  BY <1>1, <1>3, SameDecoding
<1>5. Decodes'
  BY <1>1, <1>4 DEF Decodes, Decoded, OnlyCut
<1> QED
  BY <1>1, <1>2, <1>5 DEF HuffInv

\* Nothing happens.
LEMMA HuffStutters ==
    ASSUME HuffInv, UNCHANGED H!huffVars
    PROVE  HuffInv'
<1>1. /\ stage' = stage /\ UNCHANGED <<codes, nodes, strings>>
      /\ message' = message /\ curr' = curr /\ output' = output
  BY DEF H!huffVars
<1>2. Dictionary'
  BY <1>1, DictionaryStays DEF HuffInv
<1>3. Decodes'
  <2>1. stage \in {"decoding", "done"} => \E ends, last : Decoded(ends, last)'
    BY <1>1, SameDecoding DEF HuffInv, Decodes
  <2>2. stage = "exited" /\ message # <<>> => H!Cuts(message) = {} /\ H!Cuts(H!Front(message)) # {}
    BY DEF HuffInv, Decodes
  <2>3. stage' \in {"decoding", "done"} => \E ends, last : Decoded(ends, last)'
    BY <1>1, <2>1
  <2>4. H!Cuts(message)' = H!Cuts(message) /\ H!Cuts(H!Front(message))' = H!Cuts(H!Front(message))
    <3>1. \A b : H!Cuts(b)' = H!Cuts(b)
      BY <1>1, SameCodes
    <3>2. H!Front(message)' = H!Front(message)
      BY <1>1 DEF H!Front
    <3> QED
      BY <1>1, <3>1, <3>2
  <2> QED
    BY <1>1, <2>2, <2>3, <2>4 DEF Decodes, Decoded, OnlyCut
<1> QED
  BY <1>1, <1>2, <1>3 DEF HuffInv

\* In every state of huff_dec.c the tree is that of the codes and the bits are cut as said above.
THEOREM HuffmanInvariant == H!Spec => []HuffInv
<1> SUFFICES ASSUME H!HuffmanAssumption
             PROVE  H!Spec => []HuffInv
  BY ProgramsAssumption DEF ProgramsAssumption
<1>1. H!Init => HuffInv
  <2> SUFFICES ASSUME H!Init
               PROVE  HuffInv
    OBVIOUS
  <2>1. Dictionary
    BY DEF H!Init, Dictionary
  <2> QED
    BY <2>1 DEF H!Init, H!root, HuffInv, Bits, Decodes
<1>2. HuffInv /\ [H!Next]_H!huffVars => HuffInv'
  BY InsertCodeKeeps, EndOfCodesKeeps, DecodeBitKeeps, EndOfInputKeeps, HuffStutters DEF H!Next
<1> QED
  BY <1>1, <1>2, PTL DEF H!Spec

\* huff_dec.c: as far as it reads, bits are cut into codewords that begin no other, the only way there
\* is, and what is printed is what their last definitions say; it says "Unrecognized bits" at the
\* first bit after which there is no way.
THEOREM CodewordsAreDecoded == H!Spec => []DecodesLeafCodes
<1>1. HuffInv => H!DecodesLeafCodes
  BY DEF HuffInv, Decodes, Decoded, OnlyCut, H!DecodesLeafCodes
<1>2. HuffInv => DecodesLeafCodes
  BY <1>1 DEF DecodesLeafCodes
<1> QED
  BY <1>2, HuffmanInvariant, PTL

-----------------------------------------------------------------------------
(* tarc.c and tarx.c *)

\* Where the names are in an archive, and which are there before the k-th field.
IsName(k) == k \in DOMAIN out /\ out[k].kind = "name"
NamedBefore(k) == {out[j].value : j \in {j \in DOMAIN out : j < k /\ IsName(j)}}
Named == {out[j].value : j \in {j \in DOMAIN out : IsName(j)}}

\* The inode and the type of the file at a path.
Ino(p) == file[at[p]].ino
TypeAt(p) == file[at[p]].type

\* The disk stays one that TarAssumption is about.
Disk ==
    /\ file \in [DOMAIN file -> File]
    /\ at \in [DOMAIN at -> DOMAIN file] /\ DOMAIN at \subseteq Seq(STRING)
    /\ <<>> \in DOMAIN at /\ TypeAt(<<>>) # "symlink"
    /\ \A p \in DOMAIN at : \A a \in Ancestors(p) : a \in DOMAIN at /\ TypeAt(a) = "dir"
    /\ \A p, q \in DOMAIN at : at[p] = at[q] => p = q \/ TypeAt(p) \in {"reg", "symlink"}
    /\ \A f, g \in DOMAIN file : file[f].ino = file[g].ino => f = g
    /\ \A f \in DOMAIN file : file[f].type # "reg" => file[f].bytes = <<>>

\* What the fields of an archive are.
Fields == [kind : {"name"}, value : Seq(STRING)]
          \cup [kind : {"inode", "mtime", "size", "byte", "torn"}, value : Nat]
          \cup [kind : {"mode"}, value : [type : {"dir", "reg", "fifo", "symlink"}, bits : {"rwx", "none"}]]

\* The name at the k-th field is the first one of its inode.
New(k) == ~\E q \in NamedBefore(k) : Ino(q) = Ino(out[k].value)

\* An entry of the archive, or its end.
Starts(k) == k = Len(out) + 1 \/ IsName(k)

\* The entry at the k-th field has the bytes of a file.
HasBytes(k) == New(k) /\ TypeAt(out[k].value) = "reg"

\* Where the next entry begins.
End(k) == IF ~New(k) THEN k + 2
          ELSE IF HasBytes(k) THEN k + 5 + Len(file[at[out[k].value]].bytes) ELSE k + 4

\* What begins with the name at the k-th field, up to the bytes of a file.
Begun(k) ==
    LET p == out[k].value
        f == at[p]
    IN  /\ p \in DOMAIN at /\ file[f].type # "symlink"
        /\ \A a \in Ancestors(p) : a \in NamedBefore(k)
        /\ k + 1 \in DOMAIN out /\ out[k + 1] = Field("inode", file[f].ino)
        /\ New(k) => /\ k + 3 \in DOMAIN out
                     /\ out[k + 2] = Field("mode", [type |-> file[f].type, bits |-> file[f].mode])
                     /\ out[k + 3] = Field("mtime", file[f].mtime)
        /\ HasBytes(k) => k + 4 \in DOMAIN out /\ out[k + 4] = Field("size", Len(file[f].bytes))

\* The bytes are there, and what comes then.
Finished(k) ==
    /\ Starts(End(k))
    /\ HasBytes(k) => \A j \in 1 .. Len(file[at[out[k].value]].bytes) :
          k + 4 + j \in DOMAIN out /\ out[k + 4 + j] = Field("byte", file[at[out[k].value]].bytes[j])

\* The archive ends before the bytes, which are being copied or could not be.
Unfinished(k) ==
    HasBytes(k) /\ k + 4 = Len(out) /\ (Copying(at[out[k].value]) \/ tarc = "failed")

\* The archive is one of entries.
Archive ==
    /\ out \in Seq(Fields) /\ Starts(1)
    /\ \A k \in DOMAIN out : IsName(k) => Begun(k) /\ (Finished(k) \/ Unfinished(k))
    /\ inodes = {Ino(p) : p \in Named}

\* traverse() is at an open directory.
Scanning == tarc = "scanning" \/ (tarc = "copying" /\ buf[2] = "scanning")

\* The directories that are still to come.
Pending(d) == \/ \E k \in DOMAIN stack : stack[k] = d
              \/ Scanning /\ \E k \in DOMAIN directories : directories[k] = d

\* Everything below what is in the archive is there, or is pending.
Reached ==
    /\ <<>> \in Named
    /\ stack \in Seq(Named) /\ \A k, l \in DOMAIN stack : stack[k] = stack[l] => k = l
    /\ \A d \in Named : Pending(d) => ~\E q \in Named : q # <<>> /\ Front(q) = d
    /\ \A q \in DOMAIN at : q # <<>> /\ Front(q) \in Named =>
          \/ q \in Named \/ TypeAt(q) = "symlink" \/ Pending(Front(q)) \/ (Scanning /\ q \in entries)

\* The open directory, what was found in it, and what readdir() has still to return.
AtDirectory ==
    /\ dir \in Named /\ ~Pending(dir)
    /\ directories \in Seq(Named) /\ \A k, l \in DOMAIN directories : directories[k] = directories[l] => k = l
    /\ \A k \in DOMAIN directories : \A l \in DOMAIN stack : directories[k] # stack[l]
    /\ \A q \in entries : q # <<>> /\ q \in Seq(STRING) /\ Front(q) = dir /\ q \notin Named

\* Where tarc is.
Traversal ==
    /\ tarc \in {"root", "traversing", "scanning", "copying", "done", "failed"}
    /\ tarc = "root" => out = <<>>
    /\ tarc = "copying" =>
          /\ buf[1] \in DOMAIN file /\ buf[2] \in {"traversing", "scanning"}
          /\ \E k \in DOMAIN out : IsName(k) /\ HasBytes(k) /\ at[out[k].value] = buf[1] /\ k + 4 = Len(out)
    /\ tarc = "done" => stack = <<>>
    /\ tarc \notin {"root", "failed"} => Reached
    /\ Scanning => AtDirectory

\* tarx has still to read the archive from the k-th field to the n-th, and a torn one if it was
\* torn there.
Left(k, n, torn) ==
    /\ n \in 0 .. Len(out) /\ k \in 1 .. n + 1 /\ torn \in {0, 1}
    /\ in \in Seq(Fields) /\ Len(in) = n - k + 1 + torn
    /\ \A j \in 1 .. n - k + 1 : in[j] = out[k + j - 1]
    /\ torn = 1 => in[Len(in)].kind = "torn"
    /\ ~cut => n = Len(out) /\ torn = 0

IsRestoring(i) == \E t \in DOMAIN times : times[t] = i

\* The paths that tarx has made, the inodes they are links to, and the files of those.
MadePaths ==
    /\ DOMAIN made \subseteq Named
    /\ \A p \in DOMAIN made : made[p] = Ino(p) /\ \A a \in Ancestors(p) : a \in DOMAIN made
    /\ DOMAIN data = {Ino(p) : p \in DOMAIN made} /\ DOMAIN content = DOMAIN data

\* The file of an inode, whose contents may not be there yet.
MadeFile(i, loading) ==
    LET f == file[at[data[i].name]]
    IN  /\ data[i].name \in DOMAIN made /\ f.ino = i
        /\ data[i].mode = f.mode /\ data[i].mtime = f.mtime
        /\ content[i] = [type |-> IF f.type = "reg" THEN "reg" ELSE "dir",
                         mode |-> content[i].mode, mtime |-> content[i].mtime,
                         bytes |-> IF i \in loading THEN <<>> ELSE f.bytes]
        /\ IsRestoring(i) => content[i].mode = "rwx"
        /\ ~IsRestoring(i) => content[i].mode = f.mode /\ content[i].mtime = f.mtime

\* The inodes to restore: none before those of the directories above its name.
ToRestore ==
    /\ times \in Seq(DOMAIN data) /\ \A s, t \in DOMAIN times : times[s] = times[t] => s = t
    /\ \A t \in DOMAIN times : \A a \in Ancestors(data[times[t]].name) :
          \E s \in DOMAIN times : s < t /\ times[s] = Ino(a)

\* A directory changes with what is made in it.
Touched(f) == [f EXCEPT !.mtime = Now]

\* What tarx has made is right, but for the contents of the inodes in loading and for the modes
\* and times of those to be restored.
Made(loading) == MadePaths /\ (\A i \in DOMAIN data : MadeFile(i, loading)) /\ ToRestore

\* tarx has made the entries before the k-th field, and restored nothing.
ReadUpTo(k, loading) ==
    /\ Made(loading) /\ DOMAIN made = NamedBefore(k)
    /\ \A i \in DOMAIN data : IsRestoring(i)

\* Before a name, after a name and an inode, and before the bytes of a file.
AtName == \E n, k \in 0 .. Len(out) + 1 : \E torn \in {0, 1} :
    Left(k, n, torn) /\ Starts(k) /\ ReadUpTo(k, {})

AtMetadata == \E n, k \in 0 .. Len(out) + 1 : \E torn \in {0, 1} :
    /\ Left(k + 2, n, torn) /\ IsName(k) /\ New(k) /\ ReadUpTo(k, {})
    /\ fn = out[k].value /\ inode = Ino(fn)

AtBytes == \E n, k \in 0 .. Len(out) + 1 : \E torn \in {0, 1} :
    /\ Left(k + 5, n, torn) /\ IsName(k) /\ HasBytes(k) /\ ReadUpTo(k + 1, {inode})
    /\ inode = Ino(out[k].value) /\ fsize = Len(file[at[out[k].value]].bytes)

\* Where tarx is.
Extraction ==
    /\ tarx \in {"waiting", "name", "metadata", "data", "restoring", "done", "bad"}
    /\ tarx = "waiting" => made = <<>> /\ data = <<>> /\ content = <<>> /\ times = <<>>
    /\ tarx # "waiting" => tarc \in {"done", "failed"}
    /\ tarx = "name" => AtName
    /\ tarx = "metadata" => AtMetadata
    /\ tarx = "data" => AtBytes
    /\ tarx \in {"restoring", "done"} => Made({}) /\ (~cut => DOMAIN made = Named)
    /\ tarx = "done" => times = <<>>
    /\ tarx = "bad" => cut \/ tarc = "failed"

\* The inductive invariant of tarc.c and tarx.c: until a file changes while it is copied.
TarInv == resized \/ (Disk /\ Archive /\ Traversal /\ Extraction)

\* One sequence after another, and a part of one.
LEMMA Concatenated ==
    ASSUME NEW S, NEW s \in Seq(S), NEW t \in Seq(S)
    PROVE  /\ s \o t \in Seq(S) /\ Len(s \o t) = Len(s) + Len(t)
           /\ \A i \in 1 .. Len(s) : (s \o t)[i] = s[i]
           /\ \A i \in 1 .. Len(t) : (s \o t)[Len(s) + i] = t[i]
OBVIOUS

\* What SubSeq takes.
LEMMA PartOf ==
    ASSUME NEW S, NEW s \in Seq(S), NEW m \in 1 .. Len(s) + 1, NEW n \in m - 1 .. Len(s)
    PROVE  /\ SubSeq(s, m, n) \in Seq(S) /\ Len(SubSeq(s, m, n)) = n - m + 1
           /\ \A i \in 1 .. n - m + 1 : SubSeq(s, m, n)[i] = s[m + i - 1]
OBVIOUS

\* The ancestors of a path are its parent and those of its parent.
LEMMA ParentOf ==
    ASSUME NEW p \in Seq(STRING), p # <<>>
    PROVE  /\ Front(p) \in Seq(STRING) /\ Len(Front(p)) = Len(p) - 1 /\ Front(p) # p
           /\ \A a : a \in Ancestors(p) <=> a = Front(p) \/ a \in Ancestors(Front(p))
<1> DEFINE q == SubSeq(p, 1, Len(p) - 1)
<1>1. Front(p) = q
  BY DEF Front
<1>2. Len(p) \in Nat \ {0}
  OBVIOUS
<1>3. q \in Seq(STRING) /\ Len(q) = Len(p) - 1 /\ q # p /\ \A i \in 1 .. Len(p) - 1 : q[i] = p[i]
  <2>1. 1 \in 1 .. Len(p) + 1 /\ Len(p) - 1 \in 1 - 1 .. Len(p) /\ (Len(p) - 1) - 1 + 1 = Len(p) - 1
    BY <1>2
  <2>2. q \in Seq(STRING) /\ Len(q) = Len(p) - 1 /\ \A i \in 1 .. Len(p) - 1 : q[i] = p[1 + i - 1]
    BY <2>1, PartOf
  <2>3. \A i \in 1 .. Len(p) - 1 : 1 + i - 1 = i
    BY <1>2
  <2> QED
    BY <1>2, <2>2, <2>3
<1>4. ASSUME NEW n \in 0 .. Len(p) - 2
      PROVE  SubSeq(q, 1, n) = SubSeq(p, 1, n)
  <2>1. n <= Len(p) /\ n <= Len(q) /\ n \in Nat
    BY <1>2, <1>3
  <2>2. SubSeq(p, 1, n) \in Seq(STRING) /\ Len(SubSeq(p, 1, n)) = n /\ \A i \in 1 .. n : SubSeq(p, 1, n)[i] = p[i]
    BY <2>1
  <2>3. SubSeq(q, 1, n) \in Seq(STRING) /\ Len(SubSeq(q, 1, n)) = n /\ \A i \in 1 .. n : SubSeq(q, 1, n)[i] = q[i]
    <3> HIDE DEF q
    <3> QED
      BY <1>3, <2>1
  <2>4. \A i \in 1 .. n : q[i] = p[i]
    BY <1>3
  <2> QED
    BY <2>1, <2>2, <2>3, <2>4
<1> HIDE DEF q
<1>5. ASSUME NEW a
      PROVE  a \in Ancestors(p) <=> a = q \/ a \in Ancestors(q)
  <2>1. a \in Ancestors(p) <=> \E n \in 0 .. Len(p) - 1 : a = SubSeq(p, 1, n)
    BY DEF Ancestors
  <2>2. a \in Ancestors(q) <=> \E n \in 0 .. Len(p) - 2 : a = SubSeq(p, 1, n)
    <3>1. Len(q) - 1 = Len(p) - 2
      BY <1>2, <1>3
    <3>2. a \in Ancestors(q) <=> \E n \in 0 .. Len(p) - 2 : a = SubSeq(q, 1, n)
      BY <3>1 DEF Ancestors
    <3> QED
      BY <1>4, <3>2
  <2>3. \A n : n \in 0 .. Len(p) - 1 <=> n \in 0 .. Len(p) - 2 \/ n = Len(p) - 1
    BY <1>2
  <2> QED
    BY <2>1, <2>2, <2>3 DEF q
<1> QED
  BY <1>1, <1>3, <1>5

\* Nothing is above the directory given to tarc.
LEMMA RootHasNoAncestors == Ancestors(<<>>) = {}
BY DEF Ancestors

\* What a field is.
LEMMA FieldIs ==
    ASSUME NEW kind, NEW value
    PROVE  Field(kind, value).kind = kind /\ Field(kind, value).value = value
BY DEF Field

\* The fields that tarc writes are fields of an archive.
LEMMA FieldsAre ==
    /\ \A p \in Seq(STRING) : Field("name", p) \in Fields
    /\ \A n \in Nat : /\ Field("inode", n) \in Fields /\ Field("mtime", n) \in Fields
                      /\ Field("size", n) \in Fields /\ Field("byte", n) \in Fields
                      /\ Field("torn", n) \in Fields
    /\ \A f \in File : Field("mode", [type |-> f.type, bits |-> f.mode]) \in Fields
    /\ \A x \in Fields : x.kind = "name" => x.value \in Seq(STRING) /\ x = Field("name", x.value)
<1>1. \A p \in Seq(STRING) : Field("name", p) \in Fields
  BY DEF Field, Fields
<1>2. \A n \in Nat : /\ Field("inode", n) \in Fields /\ Field("mtime", n) \in Fields
                     /\ Field("size", n) \in Fields /\ Field("byte", n) \in Fields
                     /\ Field("torn", n) \in Fields
  BY DEF Field, Fields
<1>3. ASSUME NEW f \in File
      PROVE  Field("mode", [type |-> f.type, bits |-> f.mode]) \in Fields
  <2>1. [type |-> f.type, bits |-> f.mode] \in [type : {"dir", "reg", "fifo", "symlink"}, bits : {"rwx", "none"}]
    BY DEF File
  <2> QED
    BY <2>1 DEF Field, Fields
<1>4. ASSUME NEW x \in Fields, x.kind = "name"
      PROVE  x.value \in Seq(STRING) /\ x = Field("name", x.value)
  <2>1. x \in [kind : {"name"}, value : Seq(STRING)]
    BY <1>4 DEF Fields
  <2> QED
    BY <2>1 DEF Field
<1> QED
  BY <1>1, <1>2, <1>3, <1>4

\* The names before a field.
LEMMA NamesBefore ==
    ASSUME out \in Seq(Fields)
    PROVE  /\ Len(out) \in Nat /\ DOMAIN out = 1 .. Len(out)
           /\ \A k \in Int : NamedBefore(k) \subseteq Named
           /\ NamedBefore(Len(out) + 1) = Named
           /\ \A k \in Int : \A j \in DOMAIN out : j < k /\ IsName(j) => out[j].value \in NamedBefore(k)
           /\ \A k : IsName(k) => k \in DOMAIN out /\ out[k].value \in Seq(STRING) /\ out[k].value \in Named
           /\ \A p : p \in Named <=> \E j \in DOMAIN out : IsName(j) /\ out[j].value = p
<1>1. Len(out) \in Nat /\ DOMAIN out = 1 .. Len(out) /\ \A k \in DOMAIN out : out[k] \in Fields
  OBVIOUS
<1>2. \A p : p \in Named <=> \E j \in DOMAIN out : IsName(j) /\ out[j].value = p
  BY DEF Named
<1>3. \A k \in Int : \A p : p \in NamedBefore(k) <=> \E j \in DOMAIN out : j < k /\ IsName(j) /\ out[j].value = p
  BY DEF NamedBefore
<1>4. \A k : IsName(k) => k \in DOMAIN out /\ out[k].kind = "name"
  BY DEF IsName
<1>5. \A k : IsName(k) => out[k].value \in Seq(STRING)
  BY <1>1, <1>4, FieldsAre
<1>6. NamedBefore(Len(out) + 1) = Named
  <2>1. Len(out) + 1 \in Int /\ \A j \in DOMAIN out : j < Len(out) + 1
    BY <1>1
  <2>2. \A p : p \in NamedBefore(Len(out) + 1) <=> p \in Named
    BY <1>2, <1>3, <2>1
  <2> QED
    BY <2>2
<1> QED
  BY <1>1, <1>2, <1>3, <1>4, <1>5, <1>6

\* The names before the end of an entry are those before it, and its own.
LEMMA NamesAfter ==
    ASSUME out \in Seq(Fields), NEW k \in DOMAIN out, IsName(k), NEW e \in Int, e > k,
           \A i \in k + 1 .. e - 1 : ~IsName(i)
    PROVE  NamedBefore(e) = NamedBefore(k) \cup {out[k].value}
<1>1. Len(out) \in Nat /\ DOMAIN out = 1 .. Len(out)
  OBVIOUS
<1>2. \A j \in DOMAIN out : j < e /\ IsName(j) <=> (j < k /\ IsName(j)) \/ j = k
  BY <1>1
<1>3. \A p : p \in NamedBefore(e) <=> \E j \in DOMAIN out : j < e /\ IsName(j) /\ out[j].value = p
  BY DEF NamedBefore
<1>4. \A p : p \in NamedBefore(k) <=> \E j \in DOMAIN out : j < k /\ IsName(j) /\ out[j].value = p
  BY DEF NamedBefore
<1>5. \A p : p \in NamedBefore(e) <=> p \in NamedBefore(k) \/ p = out[k].value
  BY <1>2, <1>3, <1>4
<1> QED
  BY <1>5

\* Where the fields of an entry are.
LEMMA EndOf ==
    ASSUME Disk, NEW k \in Int, out[k].value \in DOMAIN at
    PROVE  LET f == at[out[k].value]
           IN  /\ f \in DOMAIN file /\ file[f] \in File /\ Len(file[f].bytes) \in Nat
               /\ DOMAIN file[f].bytes = 1 .. Len(file[f].bytes)
               /\ HasBytes(k) <=> New(k) /\ file[f].type = "reg"
               /\ ~New(k) => End(k) = k + 2
               /\ New(k) /\ ~HasBytes(k) => End(k) = k + 4
               /\ HasBytes(k) => End(k) = k + 5 + Len(file[f].bytes)
<1>1. at[out[k].value] \in DOMAIN file /\ file \in [DOMAIN file -> File]
  BY DEF Disk
<1>2. \A f \in File : f.bytes \in Seq(Nat)
  BY DEF File
<1> QED
  BY <1>1, <1>2 DEF HasBytes, End, TypeAt

\* No other name is within an entry, as far as it is there.
LEMMA NoNameInside ==
    ASSUME Disk, out \in Seq(Fields), NEW k \in DOMAIN out, IsName(k), Begun(k)
    PROVE  /\ Finished(k) => \A i \in k + 1 .. End(k) - 1 : i \in DOMAIN out /\ ~IsName(i)
           /\ HasBytes(k) => \A i \in k + 1 .. k + 4 : i \in DOMAIN out /\ ~IsName(i)
<1> DEFINE f == at[out[k].value]
<1>1. /\ f \in DOMAIN file /\ Len(file[f].bytes) \in Nat
      /\ HasBytes(k) => New(k)
      /\ ~New(k) => End(k) = k + 2
      /\ New(k) /\ ~HasBytes(k) => End(k) = k + 4
      /\ HasBytes(k) => End(k) = k + 5 + Len(file[f].bytes)
  <2>1. out[k].value \in DOMAIN at /\ k \in Int
    BY DEF Begun
  <2> QED
    BY <2>1, EndOf
<1>2. \A i \in DOMAIN out : \A kind : kind # "name" => \A value : out[i] = Field(kind, value) => ~IsName(i)
  BY FieldIs DEF IsName
<1>3. k \in Nat /\ Len(out) \in Nat /\ DOMAIN out = 1 .. Len(out)
  OBVIOUS
<1>4. k + 1 \in DOMAIN out /\ ~IsName(k + 1)
  BY <1>2 DEF Begun
<1>5. New(k) => k + 2 \in DOMAIN out /\ k + 3 \in DOMAIN out /\ ~IsName(k + 2) /\ ~IsName(k + 3)
  BY <1>2, <1>3 DEF Begun
<1>6. HasBytes(k) => k + 4 \in DOMAIN out /\ ~IsName(k + 4)
  BY <1>2 DEF Begun
<1>7. HasBytes(k) => \A i \in k + 1 .. k + 4 : i \in DOMAIN out /\ ~IsName(i)
  BY <1>1, <1>3, <1>4, <1>5, <1>6
<1>8. ASSUME Finished(k), NEW i \in k + 1 .. End(k) - 1
      PROVE  i \in DOMAIN out /\ ~IsName(i)
  <2>1. CASE ~New(k)
    BY <1>1, <1>3, <1>4, <2>1
  <2>2. CASE New(k) /\ ~HasBytes(k)
    BY <1>1, <1>3, <1>4, <1>5, <2>2
  <2>3. CASE HasBytes(k)
    <3>1. CASE i <= k + 4
      BY <1>1, <1>3, <1>7, <2>3, <3>1
    <3>2. CASE i > k + 4
      <4>1. i - k - 4 \in 1 .. Len(file[f].bytes) /\ k + 4 + (i - k - 4) = i
        <5> DEFINE l == Len(file[f].bytes)
        <5>1. l \in Nat /\ End(k) = k + 5 + l
          BY <1>1, <2>3
        <5> HIDE DEF l
        <5>2. i \in Int /\ i <= k + 4 + l
          BY <1>3, <5>1
        <5>3. i - k - 4 \in 1 .. l /\ k + 4 + (i - k - 4) = i
          BY <1>3, <3>2, <5>1, <5>2
        <5> QED
          BY <5>3 DEF l
      <4>2. i \in DOMAIN out /\ out[i] = Field("byte", file[f].bytes[i - k - 4])
        BY <1>8, <2>3, <4>1 DEF Finished
      <4> QED
        BY <1>2, <4>2
    <3> QED
      BY <1>1, <1>3, <3>1, <3>2
  <2> QED
    BY <1>1, <2>1, <2>2, <2>3
<1> QED
  BY <1>7, <1>8

\* What is in the archive stays as it is when fields are added, and when the files in it do not
\* change.
LEMMA EntriesStay ==
    ASSUME out \in Seq(Fields), out' \in Seq(Fields), Len(out) <= Len(out'),
           \A i \in DOMAIN out : out'[i] = out[i],
           \A p \in Named : p \in DOMAIN at' /\ at'[p] = at[p] /\ file'[at[p]] = file[at[p]]
    PROVE  /\ \A k \in 1 .. Len(out) + 1 : NamedBefore(k)' = NamedBefore(k)
           /\ \A p \in Named : Ino(p)' = Ino(p) /\ TypeAt(p)' = TypeAt(p)
           /\ \A k \in DOMAIN out : k \in DOMAIN out' /\ out'[k] = out[k] /\ (IsName(k)' <=> IsName(k))
           /\ \A k \in DOMAIN out : IsName(k) =>
                 /\ New(k)' <=> New(k)
                 /\ HasBytes(k)' <=> HasBytes(k)
                 /\ End(k)' = End(k)
                 /\ Begun(k) => Begun(k)'
                 /\ Finished(k) /\ Starts(End(k))' => Finished(k)'
<1>1. /\ Len(out) \in Nat /\ DOMAIN out = 1 .. Len(out)
      /\ Len(out') \in Nat /\ DOMAIN out' = 1 .. Len(out')
  OBVIOUS
<1>2. \A k \in DOMAIN out : k \in DOMAIN out' /\ out'[k] = out[k]
  BY <1>1
<1>3. \A k \in DOMAIN out : IsName(k)' <=> IsName(k)
  BY <1>2 DEF IsName
<1>4. ASSUME NEW k \in 1 .. Len(out) + 1
      PROVE  NamedBefore(k)' = NamedBefore(k)
  <2>1. \A p : p \in NamedBefore(k) <=> \E j \in DOMAIN out : j < k /\ IsName(j) /\ out[j].value = p
    BY DEF NamedBefore
  <2>2. \A p : p \in NamedBefore(k)' <=> \E j \in DOMAIN out' : j < k /\ IsName(j)' /\ out'[j].value = p
    BY DEF NamedBefore
  <2>3. \A j : j \in DOMAIN out /\ j < k <=> j \in DOMAIN out' /\ j < k
    BY <1>1
  <2>4. \A p : p \in NamedBefore(k)' <=> p \in NamedBefore(k)
    BY <1>2, <1>3, <2>1, <2>2, <2>3
  <2> QED
    BY <2>4
<1>5. \A p \in Named : Ino(p)' = Ino(p) /\ TypeAt(p)' = TypeAt(p)
  BY DEF Ino, TypeAt
<1>6. ASSUME NEW k \in DOMAIN out, IsName(k)
      PROVE  /\ New(k)' <=> New(k)
             /\ HasBytes(k)' <=> HasBytes(k)
             /\ End(k)' = End(k)
             /\ Begun(k) => Begun(k)'
             /\ Finished(k) /\ Starts(End(k))' => Finished(k)'
  <2> DEFINE p == out[k].value
             f == at[p]
  <2>1. p \in Named /\ NamedBefore(k) \subseteq Named /\ k \in 1 .. Len(out) + 1
    BY <1>1, <1>6, NamesBefore
  <2>2. out'[k].value = p /\ at'[p] = f /\ file'[f] = file[f] /\ p \in DOMAIN at'
    BY <1>2, <2>1
  <2>3. NamedBefore(k)' = NamedBefore(k)
    BY <1>4, <2>1
  <2> HIDE DEF p, f
  <2>4. New(k)' <=> New(k)
    <3>1. \A q \in NamedBefore(k) : Ino(q)' = Ino(q)
      BY <1>5, <2>1
    <3>2. file'[at'[p]].ino = Ino(p)
      BY <2>2 DEF Ino, f
    <3>3. New(k) <=> ~\E q \in NamedBefore(k) : Ino(q) = Ino(p)
      BY DEF New, p
    <3>4. New(k)' <=> ~\E q \in NamedBefore(k)' : Ino(q)' = file'[at'[p]].ino
      BY <2>2 DEF New, p, Ino
    <3> QED
      BY <2>3, <3>1, <3>2, <3>3, <3>4
  <2>5. HasBytes(k)' <=> HasBytes(k)
    BY <2>2, <2>4 DEF HasBytes, TypeAt, f, p
  <2>6. End(k)' = End(k)
    BY <2>2, <2>4, <2>5 DEF End, f, p
  <2>7. Begun(k) => Begun(k)'
    BY <1>2, <2>2, <2>3, <2>4, <2>5 DEF Begun, f, p
  <2>8. Finished(k) /\ Starts(End(k))' => Finished(k)'
    BY <1>2, <2>2, <2>5 DEF Finished, f, p
  <2> QED
    BY <2>4, <2>5, <2>6, <2>7, <2>8
<1> QED
  BY <1>2, <1>3, <1>4, <1>5, <1>6

\* Steps that write nothing.
LEMMA ArchiveStays ==
    ASSUME Disk, Archive, out' = out, inodes' = inodes,
           \A p \in Named : p \in DOMAIN at' /\ at'[p] = at[p] /\ file'[at[p]] = file[at[p]],
           tarc = "failed" => tarc' = "failed",
           \A f : Copying(f) => Copying(f)' \/ tarc' = "failed"
    PROVE  Archive' /\ Named' = Named
<1>1. /\ out \in Seq(Fields) /\ Starts(1) /\ inodes = {Ino(p) : p \in Named}
      /\ \A k \in DOMAIN out : IsName(k) => Begun(k) /\ (Finished(k) \/ Unfinished(k))
  BY DEF Archive
<1>2. /\ \A p \in Named : Ino(p)' = Ino(p)
      /\ \A k \in DOMAIN out : k \in DOMAIN out' /\ out'[k] = out[k] /\ (IsName(k)' <=> IsName(k))
      /\ \A k \in DOMAIN out : IsName(k) =>
            /\ HasBytes(k)' <=> HasBytes(k)
            /\ End(k)' = End(k)
            /\ Begun(k) => Begun(k)'
            /\ Finished(k) /\ Starts(End(k))' => Finished(k)'
  <2>1. out' \in Seq(Fields) /\ Len(out) <= Len(out') /\ \A i \in DOMAIN out : out'[i] = out[i]
    BY <1>1
  <2> QED
    BY <1>1, <2>1, EntriesStay
<1>3. \A k : IsName(k)' <=> IsName(k)
  BY DEF IsName
<1>4. Named' = Named
  BY <1>3 DEF Named
<1>5. \A k : Starts(k)' <=> Starts(k)
  BY <1>3 DEF Starts
<1>6. ASSUME NEW k \in DOMAIN out, IsName(k)
      PROVE  Begun(k)' /\ (Finished(k)' \/ Unfinished(k)')
  <2>1. Begun(k) /\ (Finished(k) \/ Unfinished(k))
    BY <1>1, <1>6
  <2>2. Finished(k) => Finished(k)'
    <3>1. Finished(k) => Starts(End(k))
      BY DEF Finished
    <3>2. Starts(End(k)) => Starts(End(k))'
      BY <1>2, <1>5, <1>6
    <3> QED
      BY <1>2, <1>6, <3>1, <3>2
  <2>3. Unfinished(k) => Unfinished(k)'
    <3>1. at'[out'[k].value] = at[out[k].value]
      BY <1>1, <1>6, NamesBefore
    <3> QED
      BY <1>2, <1>6, <3>1 DEF Unfinished, Copying
  <2> QED
    BY <1>2, <1>6, <2>1, <2>2, <2>3
<1>7. inodes' = {Ino(p)' : p \in Named'}
  BY <1>1, <1>2, <1>4
<1>8. out' \in Seq(Fields) /\ Starts(1)'
  BY <1>1, <1>5
<1> QED
  BY <1>3, <1>4, <1>6, <1>7, <1>8 DEF Archive

\* What WriteEntry appends to the archive.
LEMMA WrittenFields ==
    ASSUME Disk, out \in Seq(Fields), NEW p \in DOMAIN at, NEW next, WriteEntry(p, next)
    PROVE  LET l == Len(out)
               new == Ino(p) \notin inodes
               regular == TypeAt(p) = "reg"
           IN  /\ out' \in Seq(Fields) /\ \A i \in 1 .. l : out'[i] = out[i]
               /\ Len(out') = IF ~new THEN l + 2 ELSE IF regular THEN l + 5 ELSE l + 4
               /\ out'[l + 1] = Field("name", p) /\ out'[l + 2] = Field("inode", Ino(p))
               /\ new => /\ out'[l + 3] = Field("mode", [type |-> TypeAt(p), bits |-> file[at[p]].mode])
                         /\ out'[l + 4] = Field("mtime", file[at[p]].mtime)
               /\ new /\ regular => out'[l + 5] = Field("size", Len(file[at[p]].bytes))
<1> DEFINE l == Len(out)
           f == at[p]
           a == Field("name", p)
           b == Field("inode", file[f].ino)
           c == Field("mode", [type |-> file[f].type, bits |-> file[f].mode])
           d == Field("mtime", file[f].mtime)
           e == Field("size", Len(file[f].bytes))
<1>1. f \in DOMAIN file /\ file[f] \in File /\ p \in Seq(STRING)
  BY DEF Disk
<1>2. file[f].ino \in Nat /\ file[f].mtime \in Nat /\ Len(file[f].bytes) \in Nat
  BY <1>1 DEF File
<1>3. a \in Fields /\ b \in Fields /\ c \in Fields /\ d \in Fields /\ e \in Fields
  BY <1>1, <1>2, FieldsAre
<1>4. Ino(p) = file[f].ino /\ TypeAt(p) = file[f].type
  BY DEF Ino, TypeAt
<1>5. out' = (out \o <<a, b>>) \o (IF Ino(p) \notin inodes THEN Metadata(f) ELSE <<>>)
  BY <1>4 DEF WriteEntry, Header
<1>6. Metadata(f) = <<c, d>> \o (IF file[f].type = "reg" THEN <<e>> ELSE <<>>)
  BY DEF Metadata
<1> HIDE DEF a, b, c, d, e, f
<1> DEFINE u == out \o <<a, b>>
<1>7. l \in Nat /\ u \in Seq(Fields) /\ Len(u) = l + 2 /\ u[l + 1] = a /\ u[l + 2] = b
      /\ \A i \in 1 .. l : u[i] = out[i] /\ i \in 1 .. l + 2
  BY <1>3
<1> HIDE DEF u
<1>8. CASE Ino(p) \in inodes
  <2>1. out' = u \o <<>>
    BY <1>5, <1>8 DEF u
  <2>2. out' = u
    BY <1>7, <2>1
  <2> QED
    BY <1>4, <1>7, <1>8, <2>2 DEF a, b
<1>9. CASE Ino(p) \notin inodes /\ TypeAt(p) # "reg"
  <2>1. out' = u \o <<c, d>>
    BY <1>3, <1>4, <1>5, <1>6, <1>9 DEF u
  <2>2. out' \in Seq(Fields) /\ Len(out') = l + 4 /\ out'[l + 3] = c /\ out'[l + 4] = d
        /\ \A i \in 1 .. l + 2 : out'[i] = u[i]
    BY <1>3, <1>7, <2>1
  <2>3. l + 1 \in 1 .. l + 2 /\ l + 2 \in 1 .. l + 2
    BY <1>7
  <2> QED
    BY <1>4, <1>7, <1>9, <2>2, <2>3 DEF a, b, c, d, f
<1>10. CASE Ino(p) \notin inodes /\ TypeAt(p) = "reg"
  <2> DEFINE M == <<c, d>> \o <<e>>
  <2>4. M \in Seq(Fields) /\ Len(M) = 3 /\ M[1] = c /\ M[2] = d /\ M[3] = e
    BY <1>3
  <2>1. out' = u \o M
    BY <1>4, <1>5, <1>6, <1>10 DEF u
  <2> HIDE DEF M
  <2>2. out' \in Seq(Fields) /\ Len(out') = l + 5 /\ out'[l + 3] = c /\ out'[l + 4] = d /\ out'[l + 5] = e
        /\ \A i \in 1 .. l + 2 : out'[i] = u[i]
    <3>1. /\ u \o M \in Seq(Fields) /\ Len(u \o M) = Len(u) + Len(M)
          /\ \A i \in 1 .. Len(u) : (u \o M)[i] = u[i]
          /\ \A i \in 1 .. Len(M) : (u \o M)[Len(u) + i] = M[i]
      <4>1. u \in Seq(Fields) /\ M \in Seq(Fields)
        BY <1>7, <2>4
      <4>2. \A v, w \in Seq(Fields) :
              /\ v \o w \in Seq(Fields) /\ Len(v \o w) = Len(v) + Len(w)
              /\ \A i \in 1 .. Len(v) : (v \o w)[i] = v[i]
              /\ \A i \in 1 .. Len(w) : (v \o w)[Len(v) + i] = w[i]
        BY Concatenated
      <4> QED
        BY <4>1, <4>2
    <3>2. 1 \in 1 .. Len(M) /\ 2 \in 1 .. Len(M) /\ 3 \in 1 .. Len(M)
      BY <2>4
    <3>3. Len(u) + 1 = l + 3 /\ Len(u) + 2 = l + 4 /\ Len(u) + 3 = l + 5
      BY <1>7
    <3> QED
      BY <1>7, <2>1, <2>4, <3>1, <3>2, <3>3
  <2>3. l + 1 \in 1 .. l + 2 /\ l + 2 \in 1 .. l + 2
    BY <1>7
  <2> QED
    BY <1>4, <1>7, <1>10, <2>2, <2>3 DEF a, b, c, d, e, f
<1> QED
  BY <1>8, <1>9, <1>10

\* Print of an entry whose ancestors are in the archive.
LEMMA Written ==
    ASSUME Disk, Archive, tarc \notin {"copying", "failed"}, UNCHANGED <<at, file>>,
           NEW p \in DOMAIN at, TypeAt(p) # "symlink", Ancestors(p) \subseteq Named,
           NEW next, next # "copying", WriteEntry(p, next)
    PROVE  /\ Archive' /\ Named' = Named \cup {p}
           /\ tarc' # "copying" => tarc' = next
           /\ tarc' = "copying" =>
                 /\ buf' = <<at[p], next>>
                 /\ \E k \in DOMAIN out' : IsName(k)' /\ HasBytes(k)' /\ out'[k].value = p /\ k + 4 = Len(out')
<1> DEFINE l == Len(out)
           new == Ino(p) \notin inodes
           regular == TypeAt(p) = "reg"
<1>1. /\ out \in Seq(Fields) /\ Starts(1) /\ inodes = {Ino(q) : q \in Named}
      /\ l \in Nat /\ DOMAIN out = 1 .. l
  BY DEF Archive
<1>2. \A k \in DOMAIN out : IsName(k) => Begun(k) /\ Finished(k)
  BY DEF Archive, Unfinished, Copying
<1>3. /\ out' \in Seq(Fields) /\ \A i \in 1 .. l : out'[i] = out[i]
      /\ Len(out') = IF ~new THEN l + 2 ELSE IF regular THEN l + 5 ELSE l + 4
      /\ out'[l + 1] = Field("name", p) /\ out'[l + 2] = Field("inode", Ino(p))
      /\ new => /\ out'[l + 3] = Field("mode", [type |-> TypeAt(p), bits |-> file[at[p]].mode])
                /\ out'[l + 4] = Field("mtime", file[at[p]].mtime)
      /\ new /\ regular => out'[l + 5] = Field("size", Len(file[at[p]].bytes))
  BY <1>1, WrittenFields
<1>4. /\ Ino(p) = file[at[p]].ino /\ TypeAt(p) = file[at[p]].type
      /\ inodes' = inodes \cup {Ino(p)}
      /\ IF new /\ regular THEN tarc' = "copying" /\ buf' = <<at[p], next>> ELSE tarc' = next
  BY DEF WriteEntry, Ino, TypeAt
<1> HIDE DEF new, regular
<1>5. Len(out') \in Nat /\ Len(out') >= l + 2 /\ DOMAIN out' = 1 .. Len(out') /\ \A i \in 1 .. l : i \in 1 .. Len(out')
  BY <1>1, <1>3
<1>6. /\ \A k \in 1 .. l + 1 : NamedBefore(k)' = NamedBefore(k)
      /\ \A k \in DOMAIN out : k \in DOMAIN out' /\ out'[k] = out[k] /\ (IsName(k)' <=> IsName(k))
      /\ \A k \in DOMAIN out : IsName(k) =>
            /\ Begun(k) => Begun(k)'
            /\ Finished(k) /\ Starts(End(k))' => Finished(k)'
            /\ End(k)' = End(k)
  <2>1. /\ out \in Seq(Fields) /\ out' \in Seq(Fields) /\ Len(out) <= Len(out')
        /\ \A i \in DOMAIN out : out'[i] = out[i]
    BY <1>1, <1>3, <1>5
  <2>2. \A q \in Named : q \in DOMAIN at' /\ at'[q] = at[q] /\ file'[at[q]] = file[at[q]]
    <3>1. \A q \in Named : q \in DOMAIN at
      BY <1>2 DEF Named, Begun
    <3> QED
      BY <3>1
  <2> QED
    BY <2>1, <2>2, EntriesStay
<1>7. \A q : Ino(q)' = Ino(q) /\ TypeAt(q)' = TypeAt(q)
  BY DEF Ino, TypeAt
<1>8. \A k \in DOMAIN out' : IsName(k)' <=> (k \in DOMAIN out /\ IsName(k)) \/ k = l + 1
  <2>1. ASSUME NEW k \in DOMAIN out', k \notin DOMAIN out, k # l + 1
        PROVE  out'[k].kind # "name"
    <3>1. k \in {l + 2, l + 3, l + 4, l + 5} /\ k <= Len(out')
      BY <1>1, <1>3, <1>5, <2>1
    <3>2. k = l + 2 => out'[k].kind # "name"
      BY <1>3, FieldIs
    <3>3. k = l + 3 \/ k = l + 4 => new /\ out'[k].kind # "name"
      <4>1. k = l + 3 \/ k = l + 4 => new
        BY <1>1, <1>3, <3>1
      <4> QED
        BY <1>3, <4>1, FieldIs
    <3>4. k = l + 5 => out'[k].kind # "name"
      <4>1. k = l + 5 => new /\ regular
        BY <1>1, <1>3, <3>1
      <4> QED
        BY <1>3, <4>1, FieldIs
    <3> QED
      BY <3>1, <3>2, <3>3, <3>4
  <2>2. l + 1 \in DOMAIN out' /\ out'[l + 1].kind = "name"
    BY <1>1, <1>3, <1>5, FieldIs
  <2>3. \A k \in DOMAIN out' : IsName(k)' <=> out'[k].kind = "name"
    BY DEF IsName
  <2> QED
    BY <1>6, <2>1, <2>2, <2>3
<1>9. \A k : (k \in DOMAIN out' /\ IsName(k)') \/ k = Len(out') + 1 => Starts(k)'
  BY DEF Starts
<1>10. \A k : Starts(k) => Starts(k)'
  <2>1. \A k : Starts(k) => k = l + 1 \/ (k \in DOMAIN out /\ IsName(k))
    BY DEF Starts, IsName
  <2>2. l + 1 \in DOMAIN out'
    BY <1>1, <1>5
  <2> QED
    BY <1>6, <1>8, <1>9, <2>1, <2>2
<1>11. ASSUME NEW k \in DOMAIN out, IsName(k)
       PROVE  Begun(k)' /\ Finished(k)'
  <2>1. Begun(k) /\ Finished(k)
    BY <1>2, <1>11
  <2>2. Starts(End(k))
    BY <2>1 DEF Finished
  <2>3. Starts(End(k))'
    <3>1. Starts(End(k)') <=> Starts(End(k))
      BY <1>6, <1>11
    <3>2. \A e : Starts(e) => Starts(e)'
      BY <1>10
    <3>3. \A e : e = End(k) => Starts(e)'
      BY <2>2, <3>2
    <3>4. \A e : e = End(k)' => Starts(e)'
      BY <1>6, <1>11, <3>3
    <3> QED
      BY <3>4 DEF Starts
  <2> QED
    BY <1>6, <1>11, <2>1, <2>3
<1>12. Named' = Named \cup {p}
  <2>1. \A q : q \in Named' <=> \E j \in DOMAIN out' : IsName(j)' /\ out'[j].value = q
    BY DEF Named
  <2>2. \A q : q \in Named <=> \E j \in DOMAIN out : IsName(j) /\ out[j].value = q
    BY DEF Named
  <2>3. l + 1 \in DOMAIN out' /\ out'[l + 1].value = p
    BY <1>1, <1>3, <1>5, FieldIs
  <2>4. \A q : q \in Named' <=> q \in Named \cup {p}
    BY <1>6, <1>8, <2>1, <2>2, <2>3
  <2> QED
    BY <2>4
<1>13. ASSUME NEW k, k = l + 1
       PROVE  /\ k \in DOMAIN out' /\ IsName(k)' /\ out'[k].value = p
              /\ New(k)' <=> new
              /\ HasBytes(k)' <=> new /\ regular
              /\ Begun(k)'
              /\ ~(new /\ regular) => Finished(k)'
              /\ new /\ regular => Unfinished(k)' /\ k + 4 = Len(out')
  <2>1. k \in DOMAIN out' /\ IsName(k)' /\ out'[k].value = p /\ k \in Nat
    BY <1>1, <1>3, <1>5, <1>8, <1>13, FieldIs
  <2>2. NamedBefore(k)' = Named
    <3>1. \A j : j = l + 1 => NamedBefore(j) = Named
      BY <1>1, NamesBefore
    <3>2. k \in 1 .. l + 1
      BY <1>1, <1>13
    <3> QED
      BY <1>6, <1>13, <3>1, <3>2
  <2>3. New(k)' <=> new
    <3>1. New(k)' <=> ~\E q \in NamedBefore(k)' : Ino(q)' = Ino(p)'
      BY <2>1 DEF New, Ino
    <3> QED
      BY <1>1, <1>7, <2>2, <3>1 DEF new
  <2>4. HasBytes(k)' <=> new /\ regular
    BY <1>7, <2>1, <2>3 DEF HasBytes, regular, TypeAt
  <2>5. /\ k + 1 = l + 2 /\ k + 2 = l + 3 /\ k + 3 = l + 4 /\ k + 4 = l + 5
        /\ k + 1 \in DOMAIN out'
        /\ new => k + 3 \in DOMAIN out'
        /\ new /\ regular => k + 4 \in DOMAIN out' /\ k + 4 = Len(out')
        /\ ~new => k + 2 = Len(out') + 1
        /\ new /\ ~regular => k + 4 = Len(out') + 1
    BY <1>1, <1>3, <1>5, <1>13
  <2>6. Begun(k)'
    <3>1. p \in DOMAIN at' /\ file'[at'[p]] = file[at[p]] /\ file[at[p]].type # "symlink"
      BY <1>4
    <3>2. \A a \in Ancestors(p) : a \in NamedBefore(k)'
      BY <2>2
    <3>3. out'[k + 1] = Field("inode", file[at[p]].ino)
      BY <1>3, <1>4, <2>5
    <3>4. new => /\ out'[k + 2] = Field("mode", [type |-> file[at[p]].type, bits |-> file[at[p]].mode])
                 /\ out'[k + 3] = Field("mtime", file[at[p]].mtime)
      BY <1>3, <1>4, <2>5
    <3>5. new /\ regular => out'[k + 4] = Field("size", Len(file[at[p]].bytes))
      BY <1>3, <2>5
    <3> QED
      BY <2>1, <2>3, <2>4, <2>5, <3>1, <3>2, <3>3, <3>4, <3>5 DEF Begun
  <2>7. ASSUME ~(new /\ regular)
        PROVE  Finished(k)'
    <3>1. End(k)' = IF ~New(k)' THEN k + 2 ELSE k + 4
      BY <2>4, <2>7 DEF End
    <3>2. \A e : e = End(k)' => Starts(e)'
      BY <1>9, <2>3, <2>5, <2>7, <3>1
    <3>3. Starts(End(k))'
      BY <3>2 DEF Starts
    <3> QED
      BY <2>4, <2>7, <3>3 DEF Finished
  <2>8. ASSUME new /\ regular
        PROVE  Unfinished(k)'
    <3>1. tarc' = "copying" /\ buf'[1] = at[p]
      BY <1>4, <2>8
    <3> QED
      BY <2>1, <2>4, <2>5, <2>8, <3>1 DEF Unfinished, Copying
  <2> QED
    BY <2>1, <2>3, <2>4, <2>5, <2>6, <2>7, <2>8
<1>14. Archive'
  <2>1. \A k \in DOMAIN out' : IsName(k)' => Begun(k)' /\ (Finished(k)' \/ Unfinished(k)')
    BY <1>8, <1>11, <1>13
  <2>2. inodes' = {Ino(q)' : q \in Named'}
    <3>1. \A i : i \in inodes' <=> \E q \in Named' : i = Ino(q)
      BY <1>1, <1>4, <1>12
    <3> QED
      BY <1>7, <3>1
  <2>3. Starts(1)'
    BY <1>1, <1>10
  <2> QED
    BY <1>3, <2>1, <2>2, <2>3 DEF Archive
<1>15. tarc' = "copying" => new /\ regular
  BY <1>4
<1>16. \E k : k = l + 1
  OBVIOUS
<1>17. tarc' = "copying" =>
         \E k \in DOMAIN out' : IsName(k)' /\ HasBytes(k)' /\ out'[k].value = p /\ k + 4 = Len(out')
  BY <1>13, <1>15, <1>16
<1> QED
  BY <1>4, <1>12, <1>14, <1>15, <1>17

\* Where an entry is whose bytes are being copied: it is the last one, and the only one.
LEMMA BeingCopied ==
    ASSUME Disk, Archive, Traversal, tarc = "copying"
    PROVE  /\ buf[1] \in DOMAIN file
           /\ \E k \in DOMAIN out :
                 /\ IsName(k) /\ HasBytes(k) /\ at[out[k].value] = buf[1] /\ k + 4 = Len(out)
                 /\ \A j \in DOMAIN out : IsName(j) /\ j # k => Finished(j) /\ IsName(End(j))
<1>1. PICK k \in DOMAIN out : IsName(k) /\ HasBytes(k) /\ at[out[k].value] = buf[1] /\ k + 4 = Len(out)
  BY DEF Traversal
<1>2. /\ out \in Seq(Fields) /\ Len(out) \in Nat /\ DOMAIN out = 1 .. Len(out)
      /\ \A j \in DOMAIN out : IsName(j) => Begun(j) /\ (Finished(j) \/ Unfinished(j))
  BY DEF Archive
<1>3. \A j \in DOMAIN out : IsName(j) /\ Finished(j) => \A i \in j + 1 .. End(j) - 1 : ~IsName(i)
  BY <1>2, NoNameInside
<1>4. \A i \in k + 1 .. k + 4 : ~IsName(i)
  BY <1>1, <1>2, NoNameInside
<1>5. ASSUME NEW j \in DOMAIN out, IsName(j), j # k
      PROVE  Finished(j) /\ IsName(End(j))
  <2>1. Finished(j)
    BY <1>1, <1>2, <1>5 DEF Unfinished
  <2>2. j < k
    BY <1>1, <1>2, <1>4, <1>5
  <2>3. End(j) # Len(out) + 1
    <3>1. ASSUME End(j) = Len(out) + 1
          PROVE  FALSE
      <4>1. k \in j + 1 .. End(j) - 1
        BY <1>1, <1>2, <2>2, <3>1
      <4> QED
        BY <1>1, <1>3, <1>5, <2>1, <4>1
    <3> QED
      BY <3>1
  <2>4. Starts(End(j))
    BY <2>1 DEF Finished
  <2> QED
    BY <2>1, <2>3, <2>4 DEF Starts
<1> QED
  BY <1>1, <1>5 DEF Traversal

\* The bytes of a file are copied, after which its entry is complete.
LEMMA Copied ==
    ASSUME Disk, Archive, Traversal, tarc = "copying", UNCHANGED <<at, file, inodes>>,
           out' = out \o Bytes(buf[1])
    PROVE  Archive' /\ Named' = Named
<1>1. PICK k \in DOMAIN out :
         /\ IsName(k) /\ HasBytes(k) /\ at[out[k].value] = buf[1] /\ k + 4 = Len(out)
         /\ \A j \in DOMAIN out : IsName(j) /\ j # k => Finished(j) /\ IsName(End(j))
  BY BeingCopied
<1>2. /\ out \in Seq(Fields) /\ Starts(1) /\ inodes = {Ino(q) : q \in Named}
      /\ Len(out) \in Nat /\ DOMAIN out = 1 .. Len(out)
      /\ \A j \in DOMAIN out : IsName(j) => Begun(j)
  BY DEF Archive
<1> DEFINE f == buf[1]
           b == file[f].bytes
           l == Len(out)
           B == Bytes(buf[1])
<1>3. f \in DOMAIN file /\ b \in Seq(Nat) /\ Len(b) \in Nat /\ DOMAIN b = 1 .. Len(b)
  <2>1. file[f] \in File
    BY BeingCopied DEF Disk
  <2> QED
    BY <2>1, BeingCopied DEF File
<1> HIDE DEF f, b
<1>4. B \in Seq(Fields) /\ Len(B) = Len(b) /\ \A i \in 1 .. Len(b) : B[i] = Field("byte", b[i])
  <2>1. B = [i \in 1 .. Len(b) |-> Field("byte", b[i])]
    BY <1>3 DEF Bytes, b, f
  <2>2. \A i \in 1 .. Len(b) : Field("byte", b[i]) \in Fields
    BY <1>3, FieldsAre
  <2> HIDE DEF B
  <2> QED
    BY <1>3, <2>1, <2>2
<1> HIDE DEF B
<1>5. /\ out' \in Seq(Fields) /\ Len(out') = l + Len(b) /\ \A i \in 1 .. l : out'[i] = out[i]
      /\ \A i \in 1 .. Len(b) : out'[l + i] = Field("byte", b[i])
  <2>1. \A v, w \in Seq(Fields) :
          /\ v \o w \in Seq(Fields) /\ Len(v \o w) = Len(v) + Len(w)
          /\ \A i \in 1 .. Len(v) : (v \o w)[i] = v[i]
          /\ \A i \in 1 .. Len(w) : (v \o w)[Len(v) + i] = w[i]
    BY Concatenated
  <2>2. out' = out \o B
    BY DEF B
  <2>3. /\ out \o B \in Seq(Fields) /\ Len(out \o B) = Len(out) + Len(B)
        /\ \A i \in 1 .. Len(out) : (out \o B)[i] = out[i]
        /\ \A i \in 1 .. Len(B) : (out \o B)[Len(out) + i] = B[i]
    BY <1>2, <1>4, <2>1
  <2>4. \A i \in 1 .. Len(b) : (out \o B)[Len(out) + i] = Field("byte", b[i])
    BY <1>4, <2>3
  <2> QED
    BY <1>4, <2>2, <2>3, <2>4
<1>6. DOMAIN out' = 1 .. Len(out') /\ Len(out') \in Nat /\ l <= Len(out')
  BY <1>2, <1>3, <1>5
<1>7. /\ \A j \in DOMAIN out : j \in DOMAIN out' /\ out'[j] = out[j] /\ (IsName(j)' <=> IsName(j))
      /\ \A j \in DOMAIN out : IsName(j) =>
            /\ HasBytes(j)' <=> HasBytes(j)
            /\ End(j)' = End(j)
            /\ Begun(j) => Begun(j)'
            /\ Finished(j) /\ Starts(End(j))' => Finished(j)'
  <2>1. \A i \in DOMAIN out : out'[i] = out[i]
    BY <1>2, <1>5
  <2>2. \A q \in Named : q \in DOMAIN at' /\ at'[q] = at[q] /\ file'[at[q]] = file[at[q]]
    <3>1. \A q \in Named : q \in DOMAIN at
      BY <1>2 DEF Named, Begun
    <3> QED
      BY <3>1
  <2> QED
    BY <1>2, <1>5, <1>6, <2>1, <2>2, EntriesStay
<1>8. \A j : IsName(j)' <=> IsName(j)
  <2>1. \A j : IsName(j) <=> j \in DOMAIN out /\ IsName(j)
    BY DEF IsName
  <2>2. \A j : IsName(j)' <=> j \in DOMAIN out' /\ out'[j].kind = "name"
    BY DEF IsName
  <2>3. ASSUME NEW j \in DOMAIN out', j \notin DOMAIN out
        PROVE  out'[j].kind # "name"
    <3>1. j - l \in 1 .. Len(b) /\ l + (j - l) = j
      BY <1>2, <1>3, <1>5, <1>6, <2>3
    <3>2. out'[j] = Field("byte", b[j - l])
      BY <1>5, <3>1
    <3> QED
      BY <3>2, FieldIs
  <2> QED
    BY <1>7, <2>1, <2>2, <2>3
<1>9. \A e : IsName(e) => Starts(e)'
  BY <1>8 DEF Starts
<1>10. Named' = Named
  <2>1. \A q : q \in Named' <=> \E j \in DOMAIN out' : IsName(j)' /\ out'[j].value = q
    BY DEF Named
  <2>2. \A q : q \in Named <=> \E j \in DOMAIN out : IsName(j) /\ out[j].value = q
    BY DEF Named
  <2>3. \A j : IsName(j) => j \in DOMAIN out /\ j \in DOMAIN out' /\ out'[j] = out[j]
    BY <1>7 DEF IsName
  <2>4. \A q : q \in Named' <=> q \in Named
    BY <1>8, <2>1, <2>2, <2>3
  <2> QED
    BY <2>4
<1>11. ASSUME NEW j \in DOMAIN out, IsName(j), j # k
       PROVE  Finished(j)'
  <2>1. Finished(j) /\ IsName(End(j))
    BY <1>1, <1>11
  <2>2. \A e : e = End(j)' => Starts(e)'
    BY <1>7, <1>9, <1>11, <2>1
  <2>3. Starts(End(j))'
    BY <2>2 DEF Starts
  <2> QED
    BY <1>7, <1>11, <2>1, <2>3
<1>12. Finished(k)'
  <2>1. out'[k] = out[k] /\ (at[out[k].value])' = f /\ file'[f].bytes = b
    BY <1>1, <1>7 DEF f, b
  <2>2. End(k) = k + 5 + Len(b)
    <3>1. out[k].value \in DOMAIN at /\ k \in Int
      <4>1. Begun(k)
        BY <1>1, <1>2
      <4> QED
        BY <1>2, <4>1 DEF Begun
    <3> QED
      BY <1>1, <3>1, EndOf DEF f, b
  <2>3. \A e : e = End(k)' => Starts(e)'
    <3>1. End(k)' = k + 5 + Len(b)
      BY <1>1, <1>7, <2>2
    <3>2. k + 5 + Len(b) = Len(out') + 1
      <4>1. k + 4 = l /\ Len(out') = l + Len(b) /\ k \in Nat /\ l \in Nat /\ Len(b) \in Nat
        BY <1>1, <1>2, <1>3, <1>5
      <4>2. Len(out') + 1 = l + Len(b) + 1
        BY <4>1
      <4>3. l + Len(b) + 1 = k + 4 + Len(b) + 1
        BY <4>1
      <4>4. k + 4 + Len(b) + 1 = k + 5 + Len(b)
        BY <4>1
      <4> QED
        BY <4>2, <4>3, <4>4
    <3> QED
      BY <3>1, <3>2 DEF Starts
  <2>4. Starts(End(k))'
    BY <2>3 DEF Starts
  <2>5. \A j \in 1 .. Len(b) : k + 4 + j \in DOMAIN out' /\ out'[k + 4 + j] = Field("byte", b[j])
    BY <1>1, <1>2, <1>3, <1>5, <1>6
  <2> QED
    BY <2>1, <2>4, <2>5 DEF Finished
<1>13. \A j \in DOMAIN out' : IsName(j)' => Begun(j)' /\ Finished(j)'
  <2>1. \A j : IsName(j) => j \in DOMAIN out
    BY DEF IsName
  <2> QED
    BY <1>2, <1>7, <1>8, <1>11, <1>12, <2>1
<1>14. inodes' = {Ino(q)' : q \in Named'}
  <2>1. \A q : Ino(q)' = Ino(q)
    BY DEF Ino
  <2> QED
    BY <1>2, <1>10, <2>1
<1>15. Starts(1)'
  <2>1. Starts(1) => IsName(1)
    BY <1>1, <1>2 DEF Starts
  <2> QED
    BY <1>2, <1>9, <2>1
<1> QED
  BY <1>5, <1>10, <1>13, <1>14, <1>15 DEF Archive

\* What is named in the archive is on the disk, with all that is above it.
LEMMA NamedAre ==
    ASSUME Disk, Archive
    PROVE  \A p \in Named : /\ p \in DOMAIN at /\ p \in Seq(STRING) /\ TypeAt(p) # "symlink"
                            /\ at[p] \in DOMAIN file /\ Ino(p) \in inodes
                            /\ \A a \in Ancestors(p) : a \in Named
                            /\ p # <<>> => Front(p) \in Named /\ Front(p) # p
<1> SUFFICES ASSUME NEW p \in Named
             PROVE  /\ p \in DOMAIN at /\ p \in Seq(STRING) /\ TypeAt(p) # "symlink"
                    /\ at[p] \in DOMAIN file /\ Ino(p) \in inodes
                    /\ \A a \in Ancestors(p) : a \in Named
                    /\ p # <<>> => Front(p) \in Named /\ Front(p) # p
  OBVIOUS
<1>1. out \in Seq(Fields)
  BY DEF Archive
<1>2. PICK k \in DOMAIN out : IsName(k) /\ out[k].value = p
  BY DEF Named
<1>3. Begun(k) /\ k \in Int
  BY <1>1, <1>2 DEF Archive
<1>4. NamedBefore(k) \subseteq Named
  BY <1>1, <1>3, NamesBefore
<1>5. p \in DOMAIN at /\ TypeAt(p) # "symlink" /\ \A a \in Ancestors(p) : a \in Named
  BY <1>2, <1>3, <1>4 DEF Begun, TypeAt
<1>6. at[p] \in DOMAIN file /\ p \in Seq(STRING)
  BY <1>5 DEF Disk
<1>7. Ino(p) \in inodes
  BY DEF Archive
<1>8. ASSUME p # <<>>
      PROVE  Front(p) \in Named /\ Front(p) # p
  <2>1. Front(p) # p /\ Front(p) \in Ancestors(p)
    BY <1>6, <1>8, ParentOf
  <2> QED
    BY <1>5, <2>1
<1> QED
  BY <1>5, <1>6, <1>7, <1>8

\* The disk and the archive are as they were.
LEMMA NothingWritten ==
    ASSUME Disk, Archive, UNCHANGED <<at, file, out, inodes>>, tarc # "failed", tarc # "copying"
    PROVE  /\ Disk' /\ Archive' /\ Named' = Named
           /\ \A p : TypeAt(p)' = TypeAt(p)
<1>1. \A p \in Named : p \in DOMAIN at' /\ at'[p] = at[p] /\ file'[at[p]] = file[at[p]]
  BY NamedAre
<1>2. Archive' /\ Named' = Named
  BY <1>1, ArchiveStays DEF Copying
<1>3. \A p : TypeAt(p)' = TypeAt(p)
  BY DEF TypeAt
<1>4. Disk'
  BY <1>3 DEF Disk
<1> QED
  BY <1>2, <1>3, <1>4

\* main() writes what it is given.
LEMMA WriteRootKeeps ==
    ASSUME Disk, Archive, Traversal, WriteRoot
    PROVE  Disk' /\ Archive' /\ Traversal'
<1>1. /\ tarc = "root" /\ out = <<>> /\ at' = at /\ file' = file /\ stack' = <<<<>>>>
      /\ WriteEntry(<<>>, "traversing")
  BY DEF WriteRoot, Traversal, diskVars
<1>2. Named = {}
  BY <1>1 DEF Named
<1>3. <<>> \in DOMAIN at /\ at[<<>>] \in DOMAIN file /\ TypeAt(<<>>) # "symlink"
  BY DEF Disk
<1>4. /\ Archive' /\ Named' = Named \cup {<<>>}
      /\ tarc' # "copying" => tarc' = "traversing"
      /\ tarc' = "copying" =>
            /\ buf' = <<at[<<>>], "traversing">>
            /\ \E k \in DOMAIN out' : IsName(k)' /\ HasBytes(k)' /\ out'[k].value = <<>> /\ k + 4 = Len(out')
  BY <1>1, <1>3, RootHasNoAncestors, Written
<1>5. Named' = {<<>>}
  BY <1>2, <1>4
<1>6. \A d : Pending(d)' <=> d = <<>>
  <2>1. \A d : (\E k \in DOMAIN stack' : stack'[k] = d) <=> d = <<>>
    BY <1>1
  <2>2. ~Scanning'
    BY <1>4 DEF Scanning
  <2> QED
    BY <2>1, <2>2 DEF Pending
<1>7. Disk'
  BY <1>1 DEF Disk, TypeAt
<1>8. Reached'
  <2>1. stack' \in Seq(Named') /\ \A k, l \in DOMAIN stack' : stack'[k] = stack'[l] => k = l
    BY <1>1, <1>5
  <2> QED
    BY <1>5, <1>6, <2>1 DEF Reached
<1>9. tarc' \in {"traversing", "copying"} /\ ~Scanning'
  BY <1>4 DEF Scanning
<1>10. tarc' = "copying" =>
          /\ buf'[1] \in DOMAIN file' /\ buf'[2] \in {"traversing", "scanning"}
          /\ \E k \in DOMAIN out' : IsName(k)' /\ HasBytes(k)' /\ at'[out'[k].value] = buf'[1] /\ k + 4 = Len(out')
  BY <1>1, <1>3, <1>4
<1> QED
  BY <1>4, <1>7, <1>8, <1>9, <1>10 DEF Traversal

\* opendir() succeeds, or tarc fails.
LEMMA OpenDirectoryKeeps ==
    ASSUME Disk, Archive, Traversal, OpenDirectory
    PROVE  Disk' /\ Archive' /\ Traversal'
<1>1. tarc = "traversing" /\ stack # <<>> /\ UNCHANGED <<at, file, out, inodes>> /\ Reached /\ ~Scanning
  BY DEF OpenDirectory, Traversal, diskVars, Scanning
<1>2. Disk' /\ Archive' /\ Named' = Named /\ \A p : TypeAt(p)' = TypeAt(p)
  BY <1>1, NothingWritten
<1>3. CASE tarc' = "failed"
  BY <1>2, <1>3 DEF Traversal, Scanning
<1>4. CASE tarc' # "failed"
  <2> DEFINE d == Head(stack)
             s == Tail(stack)
  <2>1. tarc' = "scanning" /\ dir' = d /\ stack' = s /\ entries' = Entries(d) /\ directories' = <<>>
    BY <1>4 DEF OpenDirectory
  <2>2. /\ stack \in Seq(Named) /\ Len(stack) \in Nat \ {0}
        /\ \A k, l \in DOMAIN stack : stack[k] = stack[l] => k = l
    BY <1>1 DEF Reached
  <2>3. /\ d = stack[1] /\ d \in Named /\ 1 \in DOMAIN stack
        /\ s \in Seq(Named) /\ DOMAIN s = 1 .. Len(stack) - 1
        /\ \A k \in DOMAIN s : k + 1 \in DOMAIN stack /\ s[k] = stack[k + 1]
    BY <2>2
  <2> HIDE DEF d, s
  <2>4. \A e : (\E k \in DOMAIN s : s[k] = e) <=> (\E k \in DOMAIN stack : stack[k] = e) /\ e # d
    <3>1. \A k \in DOMAIN stack : k # 1 => k - 1 \in DOMAIN s /\ s[k - 1] = stack[k]
      <4> SUFFICES ASSUME NEW k \in DOMAIN stack, k # 1
                   PROVE  k - 1 \in DOMAIN s /\ s[k - 1] = stack[k]
        OBVIOUS
      <4>1. k - 1 \in DOMAIN s /\ (k - 1) + 1 = k
        BY <2>2, <2>3
      <4> QED
        BY <2>3, <4>1
    <3>2. \A k \in DOMAIN s : k + 1 # 1
      BY <2>2, <2>3
    <3>3. ASSUME NEW k \in DOMAIN s
          PROVE  s[k] # d /\ \E l \in DOMAIN stack : stack[l] = s[k]
      BY <2>2, <2>3, <3>2
    <3>4. ASSUME NEW k \in DOMAIN stack, stack[k] # d
          PROVE  \E l \in DOMAIN s : s[l] = stack[k]
      BY <2>3, <3>1, <3>4
    <3> QED
      BY <3>3, <3>4
  <2>5. Scanning' /\ \A e : Pending(e)' <=> Pending(e) /\ e # d
    <3>1. \A e : Pending(e) <=> \E k \in DOMAIN stack : stack[k] = e
      BY <1>1 DEF Pending
    <3>2. Scanning' /\ \A e : Pending(e)' <=> \E k \in DOMAIN s : s[k] = e
      BY <2>1 DEF Pending, Scanning
    <3> QED
      BY <2>4, <3>1, <3>2
  <2>6. Pending(d)
    BY <2>3 DEF Pending
  <2>7. Reached'
    <3>1. \A k, l \in DOMAIN s : s[k] = s[l] => k = l
      <4> SUFFICES ASSUME NEW k \in DOMAIN s, NEW l \in DOMAIN s, s[k] = s[l]
                   PROVE  k = l
        OBVIOUS
      <4>1. k + 1 = l + 1 /\ k \in Nat /\ l \in Nat
        BY <2>2, <2>3
      <4> QED
        BY <4>1
    <3>2. \A q \in DOMAIN at : q # <<>> /\ Front(q) = d => q \in entries'
      BY <2>1 DEF Entries
    <3> QED
      BY <1>1, <1>2, <2>1, <2>3, <2>5, <3>1, <3>2 DEF Reached
  <2>8. AtDirectory'
    <3>1. \A q \in entries' : q # <<>> /\ q \in Seq(STRING) /\ Front(q) = d /\ q \notin Named
      <4>1. \A q \in entries' : q \in DOMAIN at /\ q # <<>> /\ Front(q) = d
        BY <2>1 DEF Entries
      <4>2. \A q \in Named : ~(q # <<>> /\ Front(q) = d)
        BY <1>1, <2>3, <2>6 DEF Reached
      <4> QED
        BY <4>1, <4>2 DEF Disk
    <3> QED
      BY <1>2, <2>1, <2>3, <2>5, <3>1 DEF AtDirectory
  <2> QED
    BY <1>2, <2>1, <2>7, <2>8 DEF Traversal
<1> QED
  BY <1>3, <1>4

\* readdir() returns an entry.
LEMMA ScanKeeps ==
    ASSUME Disk, Archive, Traversal, NEW p \in entries, Scan(p)
    PROVE  Disk' /\ Archive' /\ Traversal'
<1>1. /\ tarc = "scanning" /\ p \in DOMAIN at /\ entries' = entries \ {p}
      /\ at' = at /\ file' = file /\ dir' = dir /\ stack' = stack
      /\ Reached /\ AtDirectory /\ Scanning
  BY DEF Scan, Traversal, Scanning, diskVars
<1>2. Disk' /\ \A q : TypeAt(q)' = TypeAt(q)
  BY <1>1 DEF Disk, TypeAt
<1>3. p # <<>> /\ p \in Seq(STRING) /\ Front(p) = dir /\ p \notin Named /\ dir \in Named /\ ~Pending(dir)
  BY <1>1 DEF AtDirectory
<1>4. CASE TypeAt(p) = "symlink"
  <2>1. UNCHANGED <<tarc, directories, inodes, buf, out>>
    BY <1>4 DEF Scan, TypeAt
  <2>2. Archive' /\ Named' = Named
    BY <1>1, <2>1, NothingWritten
  <2>3. Scanning' /\ \A e : Pending(e)' <=> Pending(e)
    BY <1>1, <2>1 DEF Pending, Scanning
  <2>4. Reached'
    BY <1>1, <1>2, <1>4, <2>1, <2>2, <2>3 DEF Reached
  <2>5. AtDirectory'
    BY <1>1, <2>1, <2>2, <2>3 DEF AtDirectory
  <2> QED
    BY <1>1, <1>2, <2>1, <2>2, <2>4, <2>5 DEF Traversal
<1>5. CASE TypeAt(p) # "symlink"
  <2> DEFINE D == IF TypeAt(p) = "dir" THEN Append(directories, p) ELSE directories
  <2>1. directories' = D /\ WriteEntry(p, "scanning")
    BY <1>5 DEF Scan, TypeAt
  <2>2. Ancestors(p) \subseteq Named
    <3>1. \A a \in Ancestors(p) : a = dir \/ a \in Ancestors(dir)
      BY <1>3, ParentOf
    <3> QED
      BY <1>3, <3>1, NamedAre
  <2>3. /\ Archive' /\ Named' = Named \cup {p}
        /\ tarc' # "copying" => tarc' = "scanning"
        /\ tarc' = "copying" =>
              /\ buf' = <<at[p], "scanning">>
              /\ \E k \in DOMAIN out' : IsName(k)' /\ HasBytes(k)' /\ out'[k].value = p /\ k + 4 = Len(out')
    BY <1>1, <1>5, <2>1, <2>2, Written
  <2>4. Scanning'
    BY <2>3 DEF Scanning
  <2>5. /\ directories \in Seq(Named)
        /\ \A k, l \in DOMAIN directories : directories[k] = directories[l] => k = l
        /\ \A k \in DOMAIN directories : \A l \in DOMAIN stack : directories[k] # stack[l]
        /\ stack \in Seq(Named) /\ \A k, l \in DOMAIN stack : stack[k] = stack[l] => k = l
    BY <1>1 DEF AtDirectory, Reached
  <2>6. \A k \in DOMAIN directories : directories[k] \in Named /\ directories[k] # p
    BY <1>3, <2>5
  <2>7. \A k \in DOMAIN stack : stack[k] \in Named /\ stack[k] # p
    BY <1>3, <2>5
  <2>8. /\ D \in Seq(Named')
        /\ \A k, l \in DOMAIN D : D[k] = D[l] => k = l
        /\ \A e : (\E k \in DOMAIN D : D[k] = e) <=>
                  (\E k \in DOMAIN directories : directories[k] = e) \/ (e = p /\ TypeAt(p) = "dir")
    <3>1. CASE TypeAt(p) = "dir"
      <4> DEFINE n == Len(directories)
                 A == Append(directories, p)
      <4>1. n \in Nat /\ DOMAIN directories = 1 .. n /\ D = A
        BY <2>5, <3>1
      <4>2. /\ A \in Seq(Named \cup {p}) /\ DOMAIN A = 1 .. n + 1 /\ A[n + 1] = p
            /\ \A k \in 1 .. n : A[k] = directories[k]
        BY <2>5
      <4> HIDE DEF A, n
      <4>3. \A k \in 1 .. n + 1 : k = n + 1 \/ k \in 1 .. n
        BY <4>1
      <4>4. \A k, l \in DOMAIN A : A[k] = A[l] => k = l
        BY <2>5, <2>6, <4>1, <4>2, <4>3
      <4>5. n + 1 \in 1 .. n + 1 /\ \A k \in 1 .. n : k \in 1 .. n + 1
        BY <4>1
      <4>6. \A e : (\E k \in DOMAIN A : A[k] = e) <=> (\E k \in DOMAIN directories : directories[k] = e) \/ e = p
        BY <4>1, <4>2, <4>3, <4>5
      <4> HIDE DEF D
      <4> QED
        BY <2>3, <3>1, <4>1, <4>2, <4>4, <4>6
    <3>2. CASE TypeAt(p) # "dir"
      <4>1. D = directories
        BY <3>2
      <4>2. \A k \in DOMAIN directories : directories[k] \in Named'
        BY <2>3, <2>6
      <4>3. directories \in Seq(Named')
        BY <2>5, <4>2
      <4> HIDE DEF D
      <4> QED
        BY <2>5, <3>2, <4>1, <4>3
    <3> QED
      BY <3>1, <3>2
  <2> HIDE DEF D
  <2>9. \A e : Pending(e)' <=> Pending(e) \/ (e = p /\ TypeAt(p) = "dir")
    <3>1. \A e : Pending(e) <=> (\E k \in DOMAIN stack : stack[k] = e)
                                \/ \E k \in DOMAIN directories : directories[k] = e
      BY <1>1 DEF Pending
    <3>2. \A e : Pending(e)' <=> (\E k \in DOMAIN stack : stack[k] = e)
                                 \/ \E k \in DOMAIN D : D[k] = e
      BY <1>1, <2>1, <2>4 DEF Pending
    <3> QED
      BY <2>8, <3>1, <3>2
  <2>10. Reached'
    <3>1. stack \in Seq(Named')
      BY <2>3, <2>5, <2>7
    <3>2. ASSUME NEW d \in Named', Pending(d)', NEW q \in Named', q # <<>>, Front(q) = d
          PROVE  FALSE
      <4>1. CASE q = p
        <5>1. d = dir /\ d # p
          BY <1>3, <3>2, <4>1
        <5> QED
          BY <1>3, <2>9, <3>2, <5>1
      <4>2. CASE q # p
        <5>1. q \in Named /\ Front(q) \in Named
          BY <2>3, <3>2, <4>2, NamedAre
        <5>2. d # p /\ Pending(d)
          BY <1>3, <2>9, <3>2, <5>1
        <5> QED
          BY <1>1, <3>2, <5>1, <5>2 DEF Reached
      <4> QED
        BY <4>1, <4>2
    <3>3. ASSUME NEW q \in DOMAIN at', q # <<>>, Front(q) \in Named'
          PROVE  \/ q \in Named' \/ TypeAt(q)' = "symlink" \/ Pending(Front(q))' \/ (Scanning' /\ q \in entries')
      <4>1. CASE Front(q) = p
        <5>1. q \in Seq(STRING)
          BY <1>1, <3>3 DEF Disk
        <5>2. p \in Ancestors(q)
          BY <3>3, <4>1, <5>1, ParentOf
        <5>3. TypeAt(p) = "dir"
          BY <1>1, <3>3, <5>2 DEF Disk
        <5>4. \A e : e = Front(q) => Pending(e)'
          BY <2>9, <4>1, <5>3
        <5> QED
          BY <5>4 DEF Pending
      <4>2. CASE Front(q) # p
        <5>1. \/ q \in Named \/ TypeAt(q) = "symlink" \/ Pending(Front(q)) \/ q \in entries
          BY <1>1, <2>3, <3>3, <4>2 DEF Reached
        <5>2. \A e : e = Front(q) => (Pending(e) => Pending(e)')
          BY <2>9
        <5> QED
          BY <1>1, <1>2, <2>3, <2>4, <5>1, <5>2 DEF Pending
      <4> QED
        BY <4>1, <4>2
    <3> QED
      BY <1>1, <2>3, <2>5, <3>1, <3>2, <3>3 DEF Reached
  <2>11. AtDirectory'
    <3>1. dir \in Named' /\ ~Pending(dir)'
      <4>1. \A e : e = dir => ~Pending(e)'
        BY <1>3, <2>9
      <4> QED
        BY <1>1, <1>3, <2>3, <4>1 DEF Pending
    <3>2. \A k \in DOMAIN D : \A l \in DOMAIN stack : D[k] # stack[l]
      BY <2>5, <2>7, <2>8
    <3>3. \A q \in entries' : q # <<>> /\ q \in Seq(STRING) /\ Front(q) = dir /\ q \notin Named'
      BY <1>1, <2>3 DEF AtDirectory
    <3> QED
      BY <1>1, <2>1, <2>8, <3>1, <3>2, <3>3 DEF AtDirectory
  <2>12. tarc' = "copying" =>
            /\ buf'[1] \in DOMAIN file' /\ buf'[2] \in {"traversing", "scanning"}
            /\ \E k \in DOMAIN out' : IsName(k)' /\ HasBytes(k)' /\ at'[out'[k].value] = buf'[1] /\ k + 4 = Len(out')
    <3>1. at[p] \in DOMAIN file
      BY <1>1 DEF Disk
    <3> QED
      BY <1>1, <2>3, <3>1
  <2> QED
    BY <1>2, <2>3, <2>10, <2>11, <2>12 DEF Traversal
<1> QED
  BY <1>4, <1>5

\* readdir() returns an entry that is not there any more.
LEMMA ScanRemovedKeeps ==
    ASSUME Disk, Archive, Traversal, NEW p \in entries, ScanRemoved(p)
    PROVE  Disk' /\ Archive' /\ Traversal'
<1>1. /\ tarc = "scanning" /\ p \notin DOMAIN at /\ entries' = entries \ {p}
      /\ UNCHANGED <<at, file, dir, directories, stack, inodes, out>>
      /\ tarc' \in {"scanning", "failed"}
      /\ Reached /\ AtDirectory /\ Scanning
  BY DEF ScanRemoved, Traversal, Scanning, diskVars
<1>2. Disk' /\ Archive' /\ Named' = Named /\ \A q : TypeAt(q)' = TypeAt(q)
  BY <1>1, NothingWritten
<1>3. CASE tarc' = "failed"
  BY <1>2, <1>3 DEF Traversal, Scanning
<1>4. CASE tarc' = "scanning"
  <2>1. Scanning' /\ \A e : Pending(e)' <=> Pending(e)
    BY <1>1, <1>4 DEF Pending, Scanning
  <2>2. Reached'
    BY <1>1, <1>2, <2>1 DEF Reached
  <2>3. AtDirectory'
    BY <1>1, <1>2, <2>1 DEF AtDirectory
  <2> QED
    BY <1>2, <1>4, <2>2, <2>3 DEF Traversal
<1> QED
  BY <1>1, <1>3, <1>4

\* A file is copied, or cannot be opened.
LEMMA CopyKeeps ==
    ASSUME Disk, Archive, Traversal, Copy
    PROVE  Disk' /\ Archive' /\ Traversal'
<1>1. /\ tarc = "copying" /\ UNCHANGED <<at, file, dir, entries, directories, stack, inodes, buf>>
      /\ buf[2] \in {"traversing", "scanning"} /\ Reached
      /\ Scanning => AtDirectory
      /\ Scanning <=> buf[2] = "scanning"
  BY DEF Copy, Traversal, Scanning, diskVars
<1>2. Disk' /\ \A q : TypeAt(q)' = TypeAt(q)
  BY <1>1 DEF Disk, TypeAt
<1>3. CASE Readable(buf[1])
  <2>1. out' = out \o Bytes(buf[1]) /\ tarc' = buf[2]
    BY <1>3 DEF Copy
  <2>2. Archive' /\ Named' = Named
    BY <1>1, <2>1, Copied
  <2>3. (Scanning' <=> Scanning) /\ \A e : Pending(e)' <=> Pending(e)
    BY <1>1, <2>1 DEF Pending, Scanning
  <2>4. Reached'
    BY <1>1, <1>2, <2>2, <2>3 DEF Reached
  <2>5. Scanning => AtDirectory'
    BY <1>1, <2>2, <2>3 DEF AtDirectory
  <2> QED
    BY <1>1, <1>2, <2>1, <2>2, <2>3, <2>4, <2>5 DEF Traversal
<1>4. CASE ~Readable(buf[1])
  <2>1. out' = out /\ tarc' = "failed"
    BY <1>4 DEF Copy
  <2>2. \A p \in Named : p \in DOMAIN at' /\ at'[p] = at[p] /\ file'[at[p]] = file[at[p]]
    BY <1>1, NamedAre
  <2>3. Archive'
    BY <1>1, <2>1, <2>2, ArchiveStays
  <2> QED
    BY <1>2, <2>1, <2>3 DEF Traversal, Scanning
<1> QED
  BY <1>3, <1>4

\* A directory is closed.
LEMMA CloseDirectoryKeeps ==
    ASSUME Disk, Archive, Traversal, CloseDirectory
    PROVE  Disk' /\ Archive' /\ Traversal'
<1>1. /\ tarc = "scanning" /\ entries = {} /\ stack' = directories \o stack /\ tarc' = "traversing"
      /\ UNCHANGED <<at, file, entries, out, inodes>>
      /\ Reached /\ AtDirectory /\ Scanning
  BY DEF CloseDirectory, Traversal, Scanning, diskVars
<1>2. Disk' /\ Archive' /\ Named' = Named /\ \A q : TypeAt(q)' = TypeAt(q)
  BY <1>1, NothingWritten
<1> DEFINE m == Len(directories)
           n == Len(stack)
           S == directories \o stack
<1>3. /\ directories \in Seq(Named) /\ m \in Nat /\ DOMAIN directories = 1 .. m
      /\ \A k, l \in DOMAIN directories : directories[k] = directories[l] => k = l
      /\ \A k \in DOMAIN directories : \A l \in DOMAIN stack : directories[k] # stack[l]
      /\ stack \in Seq(Named) /\ n \in Nat /\ DOMAIN stack = 1 .. n
      /\ \A k, l \in DOMAIN stack : stack[k] = stack[l] => k = l
  BY <1>1 DEF AtDirectory, Reached
<1>4. /\ S \in Seq(Named) /\ Len(S) = m + n
      /\ \A k \in 1 .. m : S[k] = directories[k]
      /\ \A k \in 1 .. n : S[m + k] = stack[k]
  BY <1>3, Concatenated
<1> HIDE DEF S
<1>5. DOMAIN S = 1 .. m + n
  BY <1>3, <1>4
<1> HIDE DEF m, n
<1>6. \A k \in DOMAIN S : \/ k \in DOMAIN directories /\ S[k] = directories[k]
                          \/ k - m \in DOMAIN stack /\ S[k] = stack[k - m]
  <2> SUFFICES ASSUME NEW k \in DOMAIN S
               PROVE  \/ k \in DOMAIN directories /\ S[k] = directories[k]
                      \/ k - m \in DOMAIN stack /\ S[k] = stack[k - m]
    OBVIOUS
  <2>1. CASE k <= m
    BY <1>3, <1>4, <1>5, <2>1
  <2>2. CASE k > m
    <3>1. k - m \in 1 .. n /\ m + (k - m) = k
      BY <1>3, <1>5, <2>2
    <3> QED
      BY <1>3, <1>4, <3>1
  <2> QED
    BY <1>3, <1>5, <2>1, <2>2
<1>7. \A k, l \in DOMAIN S : S[k] = S[l] => k = l
  <2> SUFFICES ASSUME NEW k \in DOMAIN S, NEW l \in DOMAIN S, S[k] = S[l]
               PROVE  k = l
    OBVIOUS
  <2>1. CASE k \in DOMAIN directories /\ S[k] = directories[k] /\ l \in DOMAIN directories /\ S[l] = directories[l]
    BY <1>3, <2>1
  <2>2. CASE k - m \in DOMAIN stack /\ S[k] = stack[k - m] /\ l - m \in DOMAIN stack /\ S[l] = stack[l - m]
    <3>1. k - m = l - m
      BY <1>3, <2>2
    <3> QED
      BY <1>3, <1>5, <3>1
  <2> QED
    BY <1>3, <1>6, <2>1, <2>2
<1>8. \A e : (\E k \in DOMAIN S : S[k] = e) <=> (\E k \in DOMAIN stack : stack[k] = e)
                                               \/ \E k \in DOMAIN directories : directories[k] = e
  <2>1. \A k \in DOMAIN directories : k \in DOMAIN S /\ S[k] = directories[k]
    BY <1>3, <1>4, <1>5
  <2>2. \A k \in DOMAIN stack : m + k \in DOMAIN S /\ S[m + k] = stack[k]
    BY <1>3, <1>4, <1>5
  <2> QED
    BY <1>6, <2>1, <2>2
<1>9. ~Scanning' /\ \A e : Pending(e)' <=> Pending(e)
  <2>1. stack' = S /\ ~Scanning'
    BY <1>1 DEF S, Scanning
  <2>2. \A e : Pending(e)' <=> \E k \in DOMAIN S : S[k] = e
    BY <2>1 DEF Pending
  <2> QED
    BY <1>1, <1>8, <2>1, <2>2 DEF Pending
<1>10. Reached'
  <2>1. stack' = S
    BY <1>1 DEF S
  <2> QED
    BY <1>1, <1>2, <1>4, <1>7, <1>9, <2>1 DEF Reached
<1> QED
  BY <1>1, <1>2, <1>9, <1>10 DEF Traversal

\* tarc returns when no directory is left.
LEMMA TarcReturnsKeeps ==
    ASSUME Disk, Archive, Traversal, TarcReturns
    PROVE  Disk' /\ Archive' /\ Traversal'
<1>1. /\ tarc = "traversing" /\ stack = <<>> /\ tarc' = "done"
      /\ UNCHANGED <<at, file, entries, directories, stack, out, inodes>> /\ Reached /\ ~Scanning /\ ~Scanning'
  BY DEF TarcReturns, Traversal, Scanning, diskVars
<1>2. Disk' /\ Archive' /\ Named' = Named /\ \A q : TypeAt(q)' = TypeAt(q)
  BY <1>1, NothingWritten
<1>3. \A e : Pending(e)' <=> Pending(e)
  BY <1>1 DEF Pending
<1>4. Reached'
  BY <1>1, <1>2, <1>3 DEF Reached
<1> QED
  BY <1>1, <1>2, <1>4 DEF Traversal

\* A file that is not in the archive yet changes in size.
LEMMA ResizeKeeps ==
    ASSUME Disk, Archive, Traversal, NEW f \in DOMAIN file, Resize(f), ~resized'
    PROVE  Disk' /\ Archive' /\ Traversal'
<1> DEFINE b == IF file[f].bytes = <<>> THEN <<0>> ELSE Tail(file[f].bytes)
           r == [file[f] EXCEPT !.bytes = b]
<1>1. /\ file[f].type = "reg" /\ file[f].ino \notin inodes
      /\ file' = [file EXCEPT ![f] = r]
      /\ UNCHANGED <<at, tarc, dir, entries, directories, stack, inodes, buf, out>>
  BY DEF Resize, tarcVars
<1>2. /\ file \in [DOMAIN file -> File] /\ file[f] \in File
      /\ at \in [DOMAIN at -> DOMAIN file]
  BY DEF Disk
<1>3. r \in File /\ r.type = file[f].type /\ r.ino = file[f].ino
  <2>1. file[f].bytes \in Seq(Nat)
    BY <1>2 DEF File
  <2>2. b \in Seq(Nat)
    BY <2>1
  <2> HIDE DEF b
  <2> QED
    BY <1>2, <2>2 DEF File
<1> HIDE DEF r
<1>4. /\ DOMAIN file' = DOMAIN file /\ file' \in [DOMAIN file -> File]
      /\ \A g \in DOMAIN file : file'[g].type = file[g].type /\ file'[g].ino = file[g].ino
      /\ \A g \in DOMAIN file : g # f => file'[g] = file[g]
  BY <1>1, <1>2, <1>3
<1>5. \A p \in DOMAIN at : TypeAt(p)' = TypeAt(p)
  BY <1>1, <1>2, <1>4 DEF TypeAt
<1>6. Disk'
  <2>1. \A g \in DOMAIN file' : file'[g].type # "reg" => file'[g].bytes = <<>>
    BY <1>1, <1>4 DEF Disk
  <2>2. \A p \in DOMAIN at : \A a \in Ancestors(p) : a \in DOMAIN at /\ TypeAt(a)' = "dir"
    BY <1>5 DEF Disk
  <2>3. <<>> \in DOMAIN at' /\ TypeAt(<<>>)' # "symlink"
    <3>1. \A p : p = <<>> => p \in DOMAIN at /\ TypeAt(p) # "symlink"
      BY DEF Disk
    <3> QED
      BY <1>1, <1>5, <3>1 DEF TypeAt
  <2>4. \A p, q \in DOMAIN at : at[p] = at[q] => p = q \/ TypeAt(p)' \in {"reg", "symlink"}
    BY <1>5 DEF Disk
  <2>5. \A g, h \in DOMAIN file' : file'[g].ino = file'[h].ino => g = h
    BY <1>4 DEF Disk
  <2>6. DOMAIN at \subseteq Seq(STRING)
    BY DEF Disk
  <2> QED
    BY <1>1, <1>2, <1>4, <2>1, <2>2, <2>3, <2>4, <2>5, <2>6 DEF Disk
<1>7. \A p \in Named : p \in DOMAIN at' /\ at'[p] = at[p] /\ file'[at[p]] = file[at[p]]
  <2>1. \A p \in Named : p \in DOMAIN at /\ at[p] \in DOMAIN file /\ file[at[p]].ino \in inodes
    BY NamedAre DEF Ino
  <2> QED
    BY <1>1, <1>4, <2>1
<1>8. Archive' /\ Named' = Named
  <2>1. \A g : Copying(g) => Copying(g)'
    BY <1>1 DEF Copying
  <2> QED
    BY <1>1, <1>7, <2>1, ArchiveStays
<1>9. (Scanning' <=> Scanning) /\ \A e : Pending(e)' <=> Pending(e)
  BY <1>1 DEF Pending, Scanning
<1>10. Reached => Reached'
  BY <1>1, <1>5, <1>8, <1>9 DEF Reached
<1>11. AtDirectory => AtDirectory'
  BY <1>1, <1>8, <1>9 DEF AtDirectory
<1>12. ASSUME tarc = "copying"
       PROVE  \E k \in DOMAIN out' : IsName(k)' /\ HasBytes(k)' /\ at'[out'[k].value] = buf'[1] /\ k + 4 = Len(out')
  <2>1. out \in Seq(Fields) /\ out' \in Seq(Fields) /\ Len(out) <= Len(out') /\ \A i \in DOMAIN out : out'[i] = out[i]
    BY <1>1 DEF Archive
  <2>2. \A k \in DOMAIN out : IsName(k) => (HasBytes(k)' <=> HasBytes(k))
    BY <1>7, <2>1, EntriesStay
  <2>3. PICK k \in DOMAIN out : IsName(k) /\ HasBytes(k) /\ at[out[k].value] = buf[1] /\ k + 4 = Len(out)
    BY <1>12 DEF Traversal
  <2>4. IsName(k)' /\ HasBytes(k)'
    BY <1>1, <2>2, <2>3 DEF IsName
  <2> QED
    BY <1>1, <2>3, <2>4
<1> QED
  BY <1>1, <1>4, <1>6, <1>8, <1>9, <1>10, <1>11, <1>12 DEF Traversal

\* An entry is removed before readdir() returns it.
LEMMA RemoveEntryKeeps ==
    ASSUME Disk, Archive, Traversal, NEW p \in entries, RemoveEntry(p)
    PROVE  Disk' /\ Archive' /\ Traversal'
<1>1. /\ tarc = "scanning" /\ p \in DOMAIN at /\ TypeAt(p) = "reg"
      /\ at' = [q \in DOMAIN at \ {p} |-> at[q]]
      /\ UNCHANGED <<file, tarc, dir, entries, directories, stack, inodes, buf, out>>
      /\ Reached /\ AtDirectory
  BY DEF RemoveEntry, tarcVars, Traversal, Scanning, TypeAt
<1>2. DOMAIN at' = DOMAIN at \ {p} /\ \A q \in DOMAIN at' : at'[q] = at[q] /\ TypeAt(q)' = TypeAt(q)
  BY <1>1 DEF TypeAt
<1>3. p # <<>> /\ p \notin Named
  BY <1>1 DEF AtDirectory
<1>4. Disk'
  <2>1. \A q \in DOMAIN at' : \A a \in Ancestors(q) : a \in DOMAIN at' /\ TypeAt(a)' = "dir"
    <3>1. \A q \in DOMAIN at' : \A a \in Ancestors(q) : a \in DOMAIN at /\ TypeAt(a) = "dir"
      BY <1>2 DEF Disk
    <3> QED
      BY <1>1, <1>2, <3>1
  <2>2. <<>> \in DOMAIN at' /\ TypeAt(<<>>)' # "symlink"
    <3>1. \A q : q = <<>> => q \in DOMAIN at' /\ TypeAt(q) # "symlink"
      BY <1>2, <1>3 DEF Disk
    <3> QED
      BY <1>2, <3>1 DEF TypeAt
  <2>3. \A q, q1 \in DOMAIN at' : at'[q] = at'[q1] => q = q1 \/ TypeAt(q)' \in {"reg", "symlink"}
    BY <1>2 DEF Disk
  <2>4. at' \in [DOMAIN at' -> DOMAIN file] /\ DOMAIN at' \subseteq Seq(STRING)
    BY <1>1, <1>2 DEF Disk
  <2> QED
    BY <1>1, <2>1, <2>2, <2>3, <2>4 DEF Disk
<1>5. \A q \in Named : q \in DOMAIN at' /\ at'[q] = at[q] /\ file'[at[q]] = file[at[q]]
  BY <1>1, <1>2, <1>3, NamedAre
<1>6. Archive' /\ Named' = Named
  <2>1. \A g : ~Copying(g)
    BY <1>1 DEF Copying
  <2> QED
    BY <1>1, <1>5, <2>1, ArchiveStays
<1>7. (Scanning' <=> Scanning) /\ \A e : Pending(e)' <=> Pending(e)
  BY <1>1 DEF Pending, Scanning
<1>8. Reached'
  BY <1>1, <1>2, <1>6, <1>7 DEF Reached
<1>9. AtDirectory'
  BY <1>1, <1>6, <1>7 DEF AtDirectory
<1> QED
  BY <1>1, <1>4, <1>6, <1>8, <1>9 DEF Traversal

\* Steps of tarx leave all of this as it is.
LEMMA Same ==
    ASSUME UNCHANGED <<diskVars, tarcVars>>
    PROVE  /\ Disk => Disk'
           /\ Archive => Archive'
           /\ Traversal => Traversal'
           /\ Named' = Named
           /\ \A p : Ino(p)' = Ino(p) /\ TypeAt(p)' = TypeAt(p)
           /\ \A k : NamedBefore(k)' = NamedBefore(k)
           /\ \A k : (IsName(k)' <=> IsName(k)) /\ (New(k)' <=> New(k)) /\ (HasBytes(k)' <=> HasBytes(k))
           /\ \A k : Starts(k)' <=> Starts(k)
<1>1. /\ at' = at /\ file' = file /\ tarc' = tarc /\ dir' = dir /\ entries' = entries
      /\ directories' = directories /\ stack' = stack /\ inodes' = inodes /\ buf' = buf /\ out' = out
  BY DEF diskVars, tarcVars
<1>2. \A p : Ino(p)' = Ino(p) /\ TypeAt(p)' = TypeAt(p)
  BY <1>1 DEF Ino, TypeAt
<1>3. \A k : IsName(k)' <=> IsName(k)
  BY <1>1 DEF IsName
<1>4. Named' = Named /\ \A k : NamedBefore(k)' = NamedBefore(k)
  BY <1>1, <1>3 DEF Named, NamedBefore
<1>5. \A k : (New(k)' <=> New(k)) /\ (HasBytes(k)' <=> HasBytes(k)) /\ (Starts(k)' <=> Starts(k))
  <2>1. \A k : New(k)' <=> New(k)
    BY <1>1, <1>2, <1>4 DEF New, Ino
  <2> QED
    BY <1>1, <1>3, <2>1 DEF HasBytes, Starts, TypeAt
<1>6. Disk => Disk'
  BY <1>1, <1>2 DEF Disk
<1>7. \A k : End(k)' = End(k) /\ (Copying(k)' <=> Copying(k))
  BY <1>1, <1>5 DEF End, Copying
<1>8. \A k : (Begun(k)' <=> Begun(k)) /\ (Unfinished(k)' <=> Unfinished(k))
  BY <1>1, <1>4, <1>5 DEF Begun, Unfinished, Copying
<1>9. \A k : Finished(k)' <=> Finished(k)
  <2>1. \A k : Starts(End(k))' <=> Starts(End(k))
    BY <1>1, <1>3, <1>7 DEF Starts
  <2> QED
    BY <1>1, <1>5, <2>1 DEF Finished
<1>10. Archive => Archive'
  <2>1. Starts(1)' <=> Starts(1)
    BY <1>5
  <2>2. {Ino(p)' : p \in Named'} = {Ino(p) : p \in Named}
    BY <1>2, <1>4
  <2> QED
    BY <1>1, <1>3, <1>8, <1>9, <2>1, <2>2 DEF Archive
<1>11. Traversal => Traversal'
  <2>1. (Scanning' <=> Scanning) /\ \A e : Pending(e)' <=> Pending(e)
    BY <1>1 DEF Pending, Scanning
  <2>2. Reached => Reached'
    BY <1>1, <1>2, <1>4, <2>1 DEF Reached
  <2>3. AtDirectory => AtDirectory'
    BY <1>1, <1>4, <2>1 DEF AtDirectory
  <2> QED
    BY <1>1, <1>3, <1>5, <2>1, <2>2, <2>3 DEF Traversal
<1> QED
  BY <1>2, <1>3, <1>4, <1>5, <1>6, <1>10, <1>11

\* What tarx finds in the input, where the archive has fields of these kinds: them, or the input
\* ends before.
LEMMA FindsWhatIsLeft ==
    ASSUME NEW k, NEW n, NEW torn, Left(k, n, torn),
           NEW m \in Nat, NEW kinds, DOMAIN kinds = 1 .. m, Len(kinds) = m,
           \A i \in 1 .. m : kinds[i] # "torn",
           \A i \in 1 .. m : k + i - 1 <= n => out[k + i - 1].kind = kinds[i],
           Len(out) \in Nat
    PROVE  /\ k + m - 1 <= n => /\ Finds(kinds) = "found" /\ m <= Len(in)
                                /\ \A i \in 1 .. m : in[i] = out[k + i - 1]
           /\ k + m - 1 > n => Finds(kinds) = "short" /\ (cut \/ k + m - 1 > Len(out))
<1> DEFINE whole == {i \in 1 .. m : i <= Len(in) /\ in[i].kind = kinds[i]}
           Short == \E i \in 1 .. m : /\ 1 .. i - 1 \subseteq whole
                                      /\ i > Len(in) \/ in[i].kind = "torn"
<1>1. /\ n \in Nat /\ k \in Nat /\ k >= 1 /\ k <= n + 1 /\ n <= Len(out)
      /\ torn \in {0, 1} /\ Len(in) = n - k + 1 + torn
      /\ \A j \in 1 .. n - k + 1 : in[j] = out[k + j - 1]
      /\ torn = 1 => in[Len(in)].kind = "torn"
      /\ ~cut => n = Len(out)
  BY DEF Left
<1>2. Finds(kinds) = CASE whole = 1 .. m -> "found" [] Short -> "short" [] OTHER -> "misread"
  BY DEF Finds
<1>3. \A i \in 1 .. m : i <= n - k + 1 => i \in whole /\ in[i] = out[k + i - 1] /\ i <= Len(in)
  <2> SUFFICES ASSUME NEW i \in 1 .. m, i <= n - k + 1
               PROVE  i \in whole /\ in[i] = out[k + i - 1] /\ i <= Len(in)
    OBVIOUS
  <2>1. i \in 1 .. n - k + 1 /\ k + i - 1 <= n /\ i <= Len(in)
    BY <1>1
  <2>2. in[i] = out[k + i - 1] /\ in[i].kind = kinds[i]
    BY <1>1, <2>1
  <2> QED
    BY <2>1, <2>2
<1>4. ASSUME k + m - 1 <= n
      PROVE  /\ Finds(kinds) = "found" /\ m <= Len(in)
             /\ \A i \in 1 .. m : in[i] = out[k + i - 1]
  <2>1. \A i \in 1 .. m : i <= n - k + 1
    BY <1>1, <1>4
  <2>2. whole = 1 .. m
    BY <1>3, <2>1
  <2>3. ~Short
    BY <1>3, <2>1, <2>2
  <2>4. Finds(kinds) = "found"
    <3> HIDE DEF whole, Short
    <3> QED
      BY <1>2, <2>2, <2>3
  <2>5. m <= Len(in)
    BY <1>1, <1>4
  <2> QED
    BY <1>3, <2>1, <2>4, <2>5
<1>5. ASSUME k + m - 1 > n
      PROVE  Finds(kinds) = "short" /\ (cut \/ k + m - 1 > Len(out))
  <2> DEFINE j == n - k + 2
  <2>1. j \in 1 .. m /\ j \in Nat /\ \A i \in 1 .. j - 1 : i \in 1 .. m /\ i <= n - k + 1
    BY <1>1, <1>5
  <2>2. 1 .. j - 1 \subseteq whole
    BY <1>3, <2>1
  <2>3. j > Len(in) \/ in[j].kind = "torn"
    <3>1. torn = 0 => Len(in) = j - 1
      BY <1>1
    <3>2. torn = 1 => Len(in) = j
      BY <1>1
    <3> QED
      BY <1>1, <2>1, <3>1, <3>2
  <2>4. j \notin whole
    BY <2>1, <2>3
  <2>5. Short
    BY <2>1, <2>2, <2>3
  <2>6. whole # 1 .. m
    BY <2>1, <2>4
  <2>7. Finds(kinds) = "short"
    <3> HIDE DEF whole, Short
    <3> QED
      BY <1>2, <2>5, <2>6
  <2>8. cut \/ k + m - 1 > Len(out)
    BY <1>1, <1>5
  <2> QED
    BY <2>7, <2>8
<1> QED
  BY <1>4, <1>5

\* What is left once it is read.
LEMMA LeftAfter ==
    ASSUME NEW k, NEW n, NEW torn, Left(k, n, torn), NEW m \in Nat, k + m - 1 <= n,
           in' = SubSeq(in, m + 1, Len(in)), UNCHANGED <<out, cut>>, Len(out) \in Nat
    PROVE  Left(k + m, n, torn)'
<1>1. /\ n \in Nat /\ k \in Nat /\ k >= 1 /\ k <= n + 1 /\ n <= Len(out)
      /\ torn \in {0, 1} /\ Len(in) = n - k + 1 + torn
      /\ \A j \in 1 .. n - k + 1 : in[j] = out[k + j - 1]
      /\ torn = 1 => in[Len(in)].kind = "torn"
      /\ ~cut => n = Len(out) /\ torn = 0
      /\ in \in Seq(Fields)
  BY DEF Left
<1> DEFINE l == Len(in)
<1>2. l \in Nat /\ m <= l /\ m + 1 \in 1 .. l + 1 /\ l \in m + 1 - 1 .. l
  BY <1>1, SMTT(30)
<1>3. /\ SubSeq(in, m + 1, l) \in Seq(Fields) /\ Len(SubSeq(in, m + 1, l)) = l - (m + 1) + 1
      /\ \A i \in 1 .. l - (m + 1) + 1 : SubSeq(in, m + 1, l)[i] = in[(m + 1) + i - 1]
  BY <1>1, <1>2, PartOf
<1>4. /\ in' \in Seq(Fields) /\ Len(in') = n - (k + m) + 1 + torn
      /\ \A i \in 1 .. l - m : in'[i] = in[m + i]
  <2>1. l - (m + 1) + 1 = l - m /\ l - m = n - (k + m) + 1 + torn
    BY <1>1, <1>2
  <2>2. \A i \in 1 .. l - m : (m + 1) + i - 1 = m + i
    BY <1>2
  <2> QED
    BY <1>3, <2>1, <2>2
<1>5. \A j \in 1 .. n - (k + m) + 1 : in'[j] = out'[(k + m) + j - 1]
  <2> SUFFICES ASSUME NEW j \in 1 .. n - (k + m) + 1
               PROVE  in'[j] = out[(k + m) + j - 1]
    OBVIOUS
  <2>1. j \in 1 .. l - m /\ m + j \in 1 .. n - k + 1 /\ k + (m + j) - 1 = (k + m) + j - 1
    BY <1>1, <1>2
  <2> QED
    BY <1>1, <1>4, <2>1
<1>6. torn = 1 => in'[Len(in')].kind = "torn"
  <2> SUFFICES ASSUME torn = 1
               PROVE  in'[Len(in')].kind = "torn"
    OBVIOUS
  <2>1. Len(in') = l - m /\ l - m \in 1 .. l - m /\ m + (l - m) = l
    BY <1>1, <1>2, <1>4
  <2> QED
    BY <1>1, <1>4, <2>1
<1>7. n \in 0 .. Len(out) /\ k + m \in 1 .. n + 1
  BY <1>1
<1> QED
  BY <1>1, <1>4, <1>5, <1>6, <1>7 DEF Left

\* Of what tarx has made.
LEMMA SameMade ==
    ASSUME UNCHANGED <<diskVars, tarcVars, data, times, made, content>>
    PROVE  /\ \A i : IsRestoring(i)' <=> IsRestoring(i)
           /\ \A loading : Made(loading)' <=> Made(loading)
           /\ \A k, loading : ReadUpTo(k, loading)' <=> ReadUpTo(k, loading)
<1>1. at' = at /\ file' = file /\ data' = data /\ times' = times /\ made' = made /\ content' = content
  BY DEF diskVars, tarcVars
<1>2. \A i : IsRestoring(i)' <=> IsRestoring(i)
  BY <1>1 DEF IsRestoring
<1>3. Named' = Named /\ (\A p : Ino(p)' = Ino(p)) /\ \A k : NamedBefore(k)' = NamedBefore(k)
  BY Same
<1>4. \A loading : Made(loading)' <=> Made(loading)
  <2>1. {Ino(p)' : p \in DOMAIN made'} = {Ino(p) : p \in DOMAIN made}
    BY <1>1, <1>3
  <2>2. MadePaths' <=> MadePaths
    BY <1>1, <1>3, <2>1 DEF MadePaths
  <2>3. \A i, loading : MadeFile(i, loading)' <=> MadeFile(i, loading)
    BY <1>1, <1>2 DEF MadeFile
  <2>4. ToRestore' <=> ToRestore
    BY <1>1, <1>3 DEF ToRestore
  <2> QED
    BY <1>1, <2>2, <2>3, <2>4 DEF Made
<1>5. \A k, loading : ReadUpTo(k, loading)' <=> ReadUpTo(k, loading)
  BY <1>1, <1>2, <1>3, <1>4 DEF ReadUpTo
<1> QED
  BY <1>2, <1>4, <1>5

\* What is known while tarx reads: all it has made can be reached, and a name is one more link
\* unless its inode is new.
LEMMA WhileReading ==
    ASSUME out \in Seq(Fields), NEW k \in DOMAIN out, NEW loading, ReadUpTo(k, loading)
    PROVE  /\ \A q \in DOMAIN made : /\ made[q] = Ino(q) /\ Ino(q) \in DOMAIN data /\ Ino(q) \in DOMAIN content
                                     /\ content[Ino(q)].mode = "rwx"
           /\ \A p : (\A a \in Ancestors(p) : a \in NamedBefore(k)) => Reachable(p)
           /\ New(k) <=> Ino(out[k].value) \notin DOMAIN data
           /\ New(k) => out[k].value \notin DOMAIN made
           /\ DOMAIN made = NamedBefore(k)
<1>1. DOMAIN made = NamedBefore(k) /\ MadePaths /\ \A i \in DOMAIN data : MadeFile(i, loading) /\ IsRestoring(i)
  BY DEF ReadUpTo, Made
<1>2. ASSUME NEW q \in DOMAIN made
      PROVE  /\ made[q] = Ino(q) /\ Ino(q) \in DOMAIN data /\ Ino(q) \in DOMAIN content
             /\ content[Ino(q)].mode = "rwx"
  <2>1. made[q] = Ino(q) /\ Ino(q) \in DOMAIN data /\ Ino(q) \in DOMAIN content
    BY <1>1 DEF MadePaths
  <2> QED
    BY <1>1, <2>1 DEF MadeFile
<1>3. \A p : (\A a \in Ancestors(p) : a \in NamedBefore(k)) => Reachable(p)
  BY <1>1, <1>2 DEF Reachable
<1>4. New(k) <=> Ino(out[k].value) \notin DOMAIN data
  <2>1. \A i : i \in DOMAIN data <=> \E q \in NamedBefore(k) : i = Ino(q)
    BY <1>1 DEF MadePaths
  <2> QED
    BY <2>1 DEF New
<1>5. New(k) => out[k].value \notin DOMAIN made
  BY <1>1 DEF New
<1> QED
  BY <1>1, <1>2, <1>3, <1>4, <1>5

\* What Enter makes.
LEMMA EnterMakes ==
    ASSUME NEW p, NEW i, NEW f, p \notin DOMAIN made, Reachable(p), Enter(p, i, f),
           p # <<>> => made[Front(p)] \in DOMAIN content
    PROVE  /\ DOMAIN made' = DOMAIN made \cup {p} /\ made'[p] = i
           /\ \A q \in DOMAIN made : made'[q] = made[q]
           /\ DOMAIN content' = DOMAIN content \cup {i}
           /\ content'[i] \in {f, Touched(f)}
           /\ \A j \in DOMAIN content : j # i => content'[j] \in {content[j], Touched(content[j])}
<1> DEFINE c == Put(content, i, f)
<1>1. /\ made' = Put(made, p, i)
      /\ content' = IF p = <<>> THEN c ELSE [c EXCEPT ![made[Front(p)]].mtime = Now]
  BY DEF Enter
<1>2. /\ DOMAIN made' = DOMAIN made \cup {p} /\ made'[p] = i
      /\ \A q \in DOMAIN made : made'[q] = made[q]
  BY <1>1 DEF Put
<1>3. /\ DOMAIN c = DOMAIN content \cup {i} /\ c[i] = f
      /\ \A j \in DOMAIN content : j # i => c[j] = content[j]
  BY DEF Put
<1>4. c = [j \in DOMAIN content \cup {i} |-> c[j]]
  BY DEF Put
<1> HIDE DEF c
<1>5. CASE p = <<>>
  BY <1>1, <1>2, <1>3, <1>5
<1>6. CASE p # <<>>
  <2> DEFINE m == made[Front(p)]
  <2>1. m \in DOMAIN c
    BY <1>3, <1>6
  <2> HIDE DEF m
  <2>2. content' = [c EXCEPT ![m] = Touched(c[m])]
    BY <1>1, <1>6 DEF m, Touched
  <2>3. DOMAIN content' = DOMAIN c /\ content'[m] = Touched(c[m])
        /\ \A j \in DOMAIN c : j # m => content'[j] = c[j]
    BY <1>4, <2>1, <2>2
  <2>4. \A j \in DOMAIN c : content'[j] \in {c[j], Touched(c[j])}
    BY <2>3
  <2> QED
    BY <1>2, <1>3, <2>3, <2>4
<1> QED
  BY <1>5, <1>6

\* A time is not right or wrong before it is restored.
LEMMA TimeIsFree ==
    ASSUME UNCHANGED <<diskVars, tarcVars>>, NEW i \in DOMAIN data, NEW loading, MadeFile(i, loading),
           IsRestoring(i), IsRestoring(i)', data'[i] = data[i],
           \A q \in DOMAIN made : q \in DOMAIN made',
           content'[i] \in {content[i], Touched(content[i])}
    PROVE  MadeFile(i, loading)'
<1> DEFINE f == file[at[data[i].name]]
           t == IF f.type = "reg" THEN "reg" ELSE "dir"
           b == IF i \in loading THEN <<>> ELSE f.bytes
           m == content[i].mode
           c == content[i].mtime
<1>1. /\ data[i].name \in DOMAIN made /\ f.ino = i /\ data[i].mode = f.mode /\ data[i].mtime = f.mtime
      /\ content[i] = [type |-> t, mode |-> m, mtime |-> c, bytes |-> b] /\ m = "rwx"
  BY DEF MadeFile
<1>2. (file[at[data[i].name]])' = f
  BY DEF diskVars
<1> HIDE DEF f, t, b, m, c
<1>3. content'[i] = [type |-> t, mode |-> content'[i].mode, mtime |-> content'[i].mtime, bytes |-> b]
      /\ content'[i].mode = "rwx"
  <2>1. CASE content'[i] = content[i]
    BY <1>1, <2>1
  <2>2. CASE content'[i] = Touched(content[i])
    <3>1. content'[i] = [type |-> t, mode |-> m, mtime |-> Now, bytes |-> b]
      BY <1>1, <2>2 DEF Touched
    <3> QED
      BY <1>1, <3>1
  <2> QED
    BY <2>1, <2>2
<1> QED
  BY <1>1, <1>2, <1>3 DEF MadeFile, t, b

\* An entry, as tarx reads it: where its fields are, and which names are read with it.
LEMMA EntryOf ==
    ASSUME Disk, Archive, tarc \in {"done", "failed"}, NEW k \in DOMAIN out, IsName(k)
    PROVE  LET p == out[k].value
               f == at[p]
           IN  /\ out \in Seq(Fields) /\ Len(out) \in Nat /\ DOMAIN out = 1 .. Len(out) /\ k \in Nat
               /\ p \in Named /\ p \in DOMAIN at /\ p \in Seq(STRING) /\ f \in DOMAIN file /\ file[f] \in File
               /\ \A a \in Ancestors(p) : a \in NamedBefore(k)
               /\ out[k + 1] = Field("inode", Ino(p)) /\ k + 1 \in DOMAIN out
               /\ New(k) => /\ k + 3 \in DOMAIN out
                            /\ out[k + 2] = Field("mode", [type |-> file[f].type, bits |-> file[f].mode])
                            /\ out[k + 3] = Field("mtime", file[f].mtime)
               /\ HasBytes(k) <=> New(k) /\ file[f].type = "reg"
               /\ HasBytes(k) => k + 4 \in DOMAIN out /\ out[k + 4] = Field("size", Len(file[f].bytes))
               /\ NamedBefore(k + 1) = NamedBefore(k) \cup {p}
               /\ ~New(k) => Starts(k + 2) /\ NamedBefore(k + 2) = NamedBefore(k) \cup {p}
               /\ New(k) /\ ~HasBytes(k) => Starts(k + 4) /\ NamedBefore(k + 4) = NamedBefore(k) \cup {p}
<1> DEFINE p == out[k].value
           f == at[p]
<1>1. out \in Seq(Fields) /\ Len(out) \in Nat /\ DOMAIN out = 1 .. Len(out) /\ k \in Nat
  BY DEF Archive
<1>2. Begun(k) /\ (Finished(k) \/ Unfinished(k))
  BY DEF Archive
<1>3. p \in Named /\ p \in DOMAIN at /\ p \in Seq(STRING) /\ f \in DOMAIN file
  <2>1. p \in Named
    BY DEF Named
  <2> QED
    BY <2>1, NamedAre
<1>4. file[f] \in File
  BY <1>3 DEF Disk
<1>5. /\ HasBytes(k) <=> New(k) /\ file[f].type = "reg"
      /\ ~New(k) => End(k) = k + 2
      /\ New(k) /\ ~HasBytes(k) => End(k) = k + 4
  BY <1>1, <1>3, EndOf
<1>6. ~HasBytes(k) => Finished(k)
  BY <1>2 DEF Unfinished
<1>7. Finished(k) => Starts(End(k)) /\ \A i \in k + 1 .. End(k) - 1 : ~IsName(i)
  BY <1>1, <1>2, NoNameInside DEF Finished
<1>8. NamedBefore(k + 1) = NamedBefore(k) \cup {p}
  <2>1. k + 1 \in Int /\ k + 1 > k /\ \A i \in k + 1 .. (k + 1) - 1 : ~IsName(i)
    BY <1>1
  <2> QED
    BY <1>1, <2>1, NamesAfter
<1>9. \A e \in Int : e > k /\ (\A i \in k + 1 .. e - 1 : ~IsName(i)) => NamedBefore(e) = NamedBefore(k) \cup {p}
  BY <1>1, NamesAfter
<1>10. ~New(k) => Starts(k + 2) /\ NamedBefore(k + 2) = NamedBefore(k) \cup {p}
  <2> SUFFICES ASSUME ~New(k)
               PROVE  Starts(k + 2) /\ NamedBefore(k + 2) = NamedBefore(k) \cup {p}
    OBVIOUS
  <2>1. End(k) = k + 2 /\ Finished(k) /\ k + 2 \in Int /\ k + 2 > k
    BY <1>1, <1>5, <1>6
  <2>2. Starts(k + 2) /\ \A i \in k + 1 .. (k + 2) - 1 : ~IsName(i)
    BY <1>7, <2>1
  <2> QED
    BY <1>9, <2>1, <2>2
<1>11. New(k) /\ ~HasBytes(k) => Starts(k + 4) /\ NamedBefore(k + 4) = NamedBefore(k) \cup {p}
  <2> SUFFICES ASSUME New(k), ~HasBytes(k)
               PROVE  Starts(k + 4) /\ NamedBefore(k + 4) = NamedBefore(k) \cup {p}
    OBVIOUS
  <2>1. End(k) = k + 4 /\ Finished(k) /\ k + 4 \in Int /\ k + 4 > k
    BY <1>1, <1>5, <1>6
  <2>2. Starts(k + 4) /\ \A i \in k + 1 .. (k + 4) - 1 : ~IsName(i)
    BY <1>7, <2>1
  <2> QED
    BY <1>9, <2>1, <2>2
<1>12. /\ \A a \in Ancestors(p) : a \in NamedBefore(k)
       /\ out[k + 1] = Field("inode", Ino(p)) /\ k + 1 \in DOMAIN out
       /\ New(k) => /\ k + 3 \in DOMAIN out
                    /\ out[k + 2] = Field("mode", [type |-> file[f].type, bits |-> file[f].mode])
                    /\ out[k + 3] = Field("mtime", file[f].mtime)
       /\ HasBytes(k) => k + 4 \in DOMAIN out /\ out[k + 4] = Field("size", Len(file[f].bytes))
  BY <1>2 DEF Begun, Ino
<1> QED
  BY <1>1, <1>3, <1>4, <1>5, <1>8, <1>10, <1>11, <1>12

\* A path is made.
LEMMA EnteredPaths ==
    ASSUME Disk, Archive, tarc \in {"done", "failed"}, UNCHANGED <<diskVars, tarcVars>>,
           NEW k \in DOMAIN out, IsName(k), NEW loading, ReadUpTo(k, loading),
           out[k].value \notin DOMAIN made, NEW f, Enter(out[k].value, Ino(out[k].value), f),
           DOMAIN data' = DOMAIN data \cup {Ino(out[k].value)}
    PROVE  LET i == Ino(out[k].value)
           IN  /\ MadePaths' /\ DOMAIN made' = NamedBefore(k) \cup {out[k].value}
               /\ content'[i] \in {f, Touched(f)}
               /\ \A j \in DOMAIN content : j # i => content'[j] \in {content[j], Touched(content[j])}
               /\ DOMAIN content = DOMAIN data
<1> DEFINE p == out[k].value
           i == Ino(p)
<1>1. /\ p \in Named /\ p \in Seq(STRING) /\ out \in Seq(Fields)
      /\ \A a \in Ancestors(p) : a \in NamedBefore(k)
  BY EntryOf
<1>2. /\ \A q \in DOMAIN made : made[q] = Ino(q) /\ Ino(q) \in DOMAIN content
      /\ Reachable(p) /\ DOMAIN made = NamedBefore(k)
  BY <1>1, WhileReading
<1>3. /\ DOMAIN made \subseteq Named
      /\ \A q \in DOMAIN made : made[q] = Ino(q) /\ \A a \in Ancestors(q) : a \in DOMAIN made
      /\ DOMAIN data = {Ino(q) : q \in DOMAIN made} /\ DOMAIN content = DOMAIN data
  BY DEF ReadUpTo, Made, MadePaths
<1>4. p # <<>> => made[Front(p)] \in DOMAIN content
  <2>1. p # <<>> => Front(p) \in Ancestors(p)
    BY <1>1, ParentOf
  <2> QED
    BY <1>1, <1>2, <2>1
<1>5. /\ DOMAIN made' = DOMAIN made \cup {p} /\ made'[p] = i
      /\ \A q \in DOMAIN made : made'[q] = made[q]
      /\ DOMAIN content' = DOMAIN content \cup {i}
      /\ content'[i] \in {f, Touched(f)}
      /\ \A j \in DOMAIN content : j # i => content'[j] \in {content[j], Touched(content[j])}
  <2>1. p \notin DOMAIN made /\ Reachable(p) /\ Enter(p, i, f)
    BY <1>2
  <2>2. ASSUME NEW q, NEW j, q = p, j = i
        PROVE  /\ DOMAIN made' = DOMAIN made \cup {q} /\ made'[q] = j
               /\ \A a \in DOMAIN made : made'[a] = made[a]
               /\ DOMAIN content' = DOMAIN content \cup {j}
               /\ content'[j] \in {f, Touched(f)}
               /\ \A l \in DOMAIN content : l # j => content'[l] \in {content[l], Touched(content[l])}
    <3>1. /\ q \notin DOMAIN made /\ Reachable(q) /\ Enter(q, j, f)
          /\ q # <<>> => made[Front(q)] \in DOMAIN content
      BY <1>4, <2>1, <2>2
    <3>2. q \notin DOMAIN made
      BY <3>1
    <3>3. Reachable(q)
      BY <3>1
    <3>4. Enter(q, j, f)
      BY <3>1
    <3>5. q # <<>> => made[Front(q)] \in DOMAIN content
      BY <3>1
    <3> HIDE DEF p, i
    <3> QED
      BY <3>2, <3>3, <3>4, <3>5, EnterMakes
  <2> QED
    BY <2>2
<1>6. Named' = Named /\ \A q : Ino(q)' = Ino(q)
  BY Same
<1>7. \A q \in DOMAIN made' : made'[q] = Ino(q) /\ \A a \in Ancestors(q) : a \in DOMAIN made'
  <2> SUFFICES ASSUME NEW q \in DOMAIN made'
               PROVE  made'[q] = Ino(q) /\ \A a \in Ancestors(q) : a \in DOMAIN made'
    OBVIOUS
  <2>1. CASE q = p
    BY <1>1, <1>2, <1>5, <2>1
  <2>2. CASE q # p
    BY <1>3, <1>5, <2>2
  <2> QED
    BY <2>1, <2>2
<1>8. DOMAIN data' = {Ino(q) : q \in DOMAIN made'}
  <2>1. \A j : j \in DOMAIN data' <=> j \in DOMAIN data \/ j = i
    OBVIOUS
  <2>2. \A j : (\E q \in DOMAIN made' : j = Ino(q)) <=> (\E q \in DOMAIN made : j = Ino(q)) \/ j = i
    BY <1>5
  <2>3. \A j : j \in DOMAIN data' <=> j \in {Ino(q) : q \in DOMAIN made'}
    BY <1>3, <2>1, <2>2
  <2> QED
    BY <2>3
<1>9. {Ino(q)' : q \in DOMAIN made'} = {Ino(q) : q \in DOMAIN made'}
  BY <1>6
<1>10. MadePaths'
  <2>1. DOMAIN made' \subseteq Named'
    BY <1>1, <1>3, <1>5, <1>6
  <2>2. DOMAIN content' = DOMAIN data'
    BY <1>3, <1>5
  <2>3. \A q \in DOMAIN made' : made'[q] = Ino(q)' /\ \A a \in Ancestors(q) : a \in DOMAIN made'
    BY <1>6, <1>7
  <2> HIDE DEF p, i
  <2> QED
    BY <1>8, <1>9, <2>1, <2>2, <2>3 DEF MadePaths
<1> QED
  BY <1>2, <1>3, <1>5, <1>10

\* One more link to an inode that tarx has read.
LEMMA LinkKeeps ==
    ASSUME Disk, Archive, tarc \in {"done", "failed"}, UNCHANGED <<diskVars, tarcVars, data, times>>,
           NEW k \in DOMAIN out, IsName(k), ReadUpTo(k, {}), ~New(k),
           Link(data[Ino(out[k].value)].name, out[k].value)
    PROVE  ReadUpTo(k + 2, {})'
<1> DEFINE p == out[k].value
           i == Ino(p)
           name == data[i].name
<1>1. /\ p \in Named /\ p \in DOMAIN at /\ at[p] \in DOMAIN file /\ out \in Seq(Fields)
      /\ NamedBefore(k + 2) = NamedBefore(k) \cup {p}
  BY EntryOf
<1>2. /\ \A q \in DOMAIN made : made[q] = Ino(q) /\ Ino(q) \in DOMAIN data /\ content[Ino(q)].mode = "rwx"
      /\ i \in DOMAIN data /\ DOMAIN made = NamedBefore(k)
  BY <1>1, WhileReading
<1>3. /\ MadePaths /\ ToRestore
      /\ \A j \in DOMAIN data : MadeFile(j, {}) /\ IsRestoring(j)
  BY DEF ReadUpTo, Made
<1>4. /\ name \in DOMAIN made /\ Ino(name) = i /\ made[name] = i
      /\ content[i].type = IF TypeAt(name) = "reg" THEN "reg" ELSE "dir"
  <2>1. MadeFile(i, {})
    BY <1>2, <1>3
  <2>2. name \in DOMAIN made /\ file[at[name]].ino = i
        /\ content[i].type = IF file[at[name]].type = "reg" THEN "reg" ELSE "dir"
    BY <2>1 DEF MadeFile
  <2> QED
    BY <1>2, <2>2, ZenonT(40) DEF Ino, TypeAt
<1>5. at[name] = at[p] /\ name \in DOMAIN at
  <2>1. name \in Named /\ name \in DOMAIN at /\ at[name] \in DOMAIN file
    <3>1. name \in Named
      BY <1>3, <1>4 DEF MadePaths
    <3> QED
      BY <3>1, NamedAre
  <2> HIDE DEF name
  <2> QED
    BY <1>1, <1>4, <2>1 DEF Disk, Ino
<1>6. Reachable(name)
  BY <1>2, <1>3, <1>4 DEF Reachable, MadePaths
<1>7. /\ \A j : IsRestoring(j)' <=> IsRestoring(j)
      /\ \A q : Ino(q)' = Ino(q)
      /\ \A m : NamedBefore(m)' = NamedBefore(m)
      /\ at' = at /\ file' = file
  BY Same DEF IsRestoring, diskVars
<1>8. ToRestore'
  BY <1>3, <1>7 DEF ToRestore
<1>9. CASE p \in DOMAIN made
  <2>1. made' = made /\ content' = content
    BY <1>9 DEF Link, Enter
  <2>2. MadePaths' /\ \A j \in DOMAIN data' : MadeFile(j, {})'
    <3>1. ReadUpTo(k, {})' <=> ReadUpTo(k, {})
      BY <2>1, SameMade
    <3> QED
      BY <3>1 DEF ReadUpTo, Made
  <2>3. DOMAIN made' = NamedBefore(k + 2)
    BY <1>1, <1>2, <1>9, <2>1
  <2> QED
    BY <1>3, <1>7, <1>8, <2>2, <2>3 DEF ReadUpTo, Made
<1>10. CASE p \notin DOMAIN made
  <2>1. TypeAt(name) = "reg"
    <3>1. name # p
      BY <1>4, <1>10
    <3>2. TypeAt(name) \in {"reg", "symlink"}
      BY <1>1, <1>5, <3>1 DEF Disk
    <3>3. TypeAt(p) # "symlink"
      BY <1>1, NamedAre
    <3> QED
      BY <1>5, <3>2, <3>3 DEF TypeAt
  <2>2. Enter(p, i, content[i])
    BY <1>4, <1>6, <2>1 DEF Link
  <2>3. /\ MadePaths' /\ DOMAIN made' = NamedBefore(k) \cup {p}
        /\ content'[i] \in {content[i], Touched(content[i])}
        /\ \A j \in DOMAIN content : j # i => content'[j] \in {content[j], Touched(content[j])}
        /\ DOMAIN content = DOMAIN data
    <3>1. DOMAIN data' = DOMAIN data \cup {i}
      BY <1>2
    <3> QED
      BY <1>10, <2>2, <3>1, EnteredPaths
  <2>4. ASSUME NEW j \in DOMAIN data
        PROVE  MadeFile(j, {})'
    <3>1. MadeFile(j, {}) /\ IsRestoring(j) /\ IsRestoring(j)' /\ data'[j] = data[j]
      BY <1>3, <1>7
    <3>2. \A q \in DOMAIN made : q \in DOMAIN made'
      BY <1>2, <2>3
    <3>3. content'[j] \in {content[j], Touched(content[j])}
      BY <2>3
    <3> QED
      BY <3>1, <3>2, <3>3, TimeIsFree
  <2>5. DOMAIN made' = NamedBefore(k + 2)
    BY <1>1, <2>3
  <2> QED
    BY <1>3, <1>7, <1>8, <2>3, <2>4, <2>5 DEF ReadUpTo, Made
<1> QED
  BY <1>9, <1>10

\* The names before two places of the archive.
LEMMA NamesAtEnds ==
    ASSUME out \in Seq(Fields)
    PROVE  NamedBefore(1) = {} /\ \A k : k = Len(out) + 1 => NamedBefore(k) = Named
<1>1. NamedBefore(1) = {}
  <2>1. \A j \in DOMAIN out : ~(j < 1)
    OBVIOUS
  <2> QED
    BY <2>1 DEF NamedBefore
<1> QED
  BY <1>1, NamesBefore

\* tarc takes a step, or others while it runs: tarx waits.
LEMMA TarxWaits ==
    ASSUME Extraction, tarc \notin {"done", "failed"}, UNCHANGED tarxVars
    PROVE  Extraction'
<1>1. tarx = "waiting"
  BY DEF Extraction
<1>2. tarx' = tarx /\ made' = made /\ data' = data /\ content' = content /\ times' = times
  BY DEF tarxVars
<1> QED
  BY <1>1, <1>2 DEF Extraction

\* Where tarx is before the next name.
LEMMA IsAtName ==
    ASSUME NEW k, NEW n, NEW torn, Left(k, n, torn)', Starts(k)', ReadUpTo(k, {})', Len(out') \in Nat
    PROVE  AtName'
<1>1. n \in 0 .. Len(out') + 1 /\ k \in 0 .. Len(out') + 1 /\ torn \in {0, 1}
  BY DEF Left
<1> QED
  BY <1>1 DEF AtName

\* tarx starts on the archive, whole or cut.
LEMMA TransferKeeps ==
    ASSUME Disk, Archive, Traversal, Extraction, Transfer
    PROVE  Extraction'
<1>1. /\ tarc \in {"done", "failed"} /\ tarx = "waiting" /\ tarx' = "name"
      /\ UNCHANGED <<diskVars, tarcVars, data, times, made, content>>
      /\ tarc' = tarc /\ out' = out
      /\ made = <<>> /\ data = <<>> /\ content = <<>> /\ times = <<>>
  BY DEF Transfer, TarcRuns, Extraction, tarcVars
<1>2. out \in Seq(Fields) /\ Starts(1) /\ Len(out) \in Nat
  BY DEF Archive
<1>3. ReadUpTo(1, {})
  <2>1. DOMAIN made = {} /\ DOMAIN data = {} /\ DOMAIN content = {} /\ DOMAIN times = {}
    BY <1>1
  <2>2. MadePaths
    BY <2>1 DEF MadePaths
  <2>3. ToRestore
    <3>1. times \in Seq(DOMAIN data)
      BY <1>1
    <3> QED
      BY <2>1, <3>1 DEF ToRestore
  <2> QED
    BY <1>2, <2>1, <2>2, <2>3, NamesAtEnds DEF ReadUpTo, Made
<1>4. Starts(1)' /\ ReadUpTo(1, {})'
  BY <1>1, <1>2, <1>3, Same, SameMade
<1>5. ASSUME in' = out, cut' = FALSE
      PROVE  AtName'
  <2>1. /\ Len(out) \in 0 .. Len(out) /\ 1 \in 1 .. Len(out) + 1
        /\ Len(out) = Len(out) - 1 + 1 + 0 /\ \A j \in 1 .. Len(out) - 1 + 1 : 1 + j - 1 = j
    BY <1>2
  <2>2. ASSUME NEW n, n = Len(out)
        PROVE  Left(1, n, 0)'
    BY <1>1, <1>2, <1>5, <2>1, <2>2 DEF Left
  <2> QED
    BY <1>1, <1>2, <1>4, <2>2, IsAtName
<1>6. ASSUME cut' = TRUE, NEW n \in 0 .. Len(out) - 1,
             in' \in {SubSeq(out, 1, n), Append(SubSeq(out, 1, n), Field("torn", 0))}
      PROVE  AtName'
  <2> DEFINE s == SubSeq(out, 1, n)
             t == Field("torn", 0)
  <2>1. n \in Nat /\ n \in 0 .. Len(out) /\ n \in 1 - 1 .. Len(out) /\ 1 \in 1 .. Len(out) + 1
        /\ 1 \in 1 .. n + 1 /\ n - 1 + 1 = n /\ \A j \in 1 .. n : 1 + j - 1 = j
    BY <1>2
  <2>2. s \in Seq(Fields) /\ Len(s) = n /\ \A j \in 1 .. n : s[j] = out[j]
    BY <1>2, <2>1, PartOf
  <2>3. t \in Fields /\ t.kind = "torn"
    BY FieldsAre, FieldIs
  <2> HIDE DEF s, t
  <2>4. CASE in' = s
    <3>1. Left(1, n, 0)'
      BY <1>1, <1>6, <2>1, <2>2, <2>4 DEF Left
    <3> QED
      BY <1>1, <1>2, <1>4, <3>1, IsAtName
  <2>5. CASE in' = Append(s, t)
    <3>1. /\ in' \in Seq(Fields) /\ Len(in') = n + 1 /\ in'[n + 1] = t
          /\ \A j \in 1 .. n : in'[j] = out[j]
      BY <2>1, <2>2, <2>3, <2>5
    <3>2. Left(1, n, 1)'
      BY <1>1, <1>6, <2>1, <2>3, <3>1 DEF Left
    <3> QED
      BY <1>1, <1>2, <1>4, <3>2, IsAtName
  <2>6. in' = s \/ in' = Append(s, t)
    BY <1>6 DEF s, t
  <2> QED
    BY <2>4, <2>5, <2>6
<1>7. AtName'
  BY <1>5, <1>6 DEF Transfer
<1> QED
  BY <1>1, <1>7 DEF Extraction

\* The input ends where a name may be: all of the archive was read, if it was not cut.
LEMMA EndOfArchiveKeeps ==
    ASSUME Disk, Archive, Traversal, Extraction, EndOfArchive
    PROVE  Extraction'
<1>1. /\ tarc \in {"done", "failed"} /\ tarx = "name" /\ in = <<>> /\ tarx' = "restoring" /\ AtName
      /\ UNCHANGED <<diskVars, tarcVars, data, times, made, content>> /\ cut' = cut /\ tarc' = tarc /\ made' = made
  BY DEF EndOfArchive, Extraction, tarcVars
<1>2. out \in Seq(Fields) /\ Len(out) \in Nat
  BY DEF Archive
<1>3. PICK n \in 0 .. Len(out) + 1, k \in 0 .. Len(out) + 1, torn \in {0, 1} :
         Left(k, n, torn) /\ Starts(k) /\ ReadUpTo(k, {})
  BY <1>1 DEF AtName
<1>4. ~cut => k = Len(out) + 1
  BY <1>1, <1>2, <1>3 DEF Left
<1>5. Made({}) /\ (~cut => DOMAIN made = Named)
  BY <1>2, <1>3, <1>4, NamesAtEnds DEF ReadUpTo
<1>6. Made({})' /\ Named' = Named
  BY <1>1, <1>5, Same, SameMade
<1> QED
  BY <1>1, <1>5, <1>6 DEF Extraction

\* A name and an inode.
LEMMA ReadNameKeeps ==
    ASSUME Disk, Archive, Traversal, Extraction, ReadName
    PROVE  Extraction'
<1>1. /\ tarc \in {"done", "failed"} /\ tarx = "name" /\ in # <<>> /\ AtName
      /\ UNCHANGED <<diskVars, tarcVars, data, times>> /\ cut' = cut /\ tarc' = tarc /\ out' = out
  BY DEF ReadName, Extraction, tarcVars
<1>2. out \in Seq(Fields) /\ Len(out) \in Nat /\ DOMAIN out = 1 .. Len(out)
  BY DEF Archive
<1>3. PICK n \in 0 .. Len(out) + 1, k \in 0 .. Len(out) + 1, torn \in {0, 1} :
         Left(k, n, torn) /\ Starts(k) /\ ReadUpTo(k, {})
  BY <1>1 DEF AtName
<1>4. /\ n \in Nat /\ n <= Len(out) /\ k \in Nat /\ k >= 1 /\ k <= n + 1
      /\ Len(in) = n - k + 1 + torn /\ in \in Seq(Fields)
      /\ ~cut => n = Len(out) /\ torn = 0
  <2>1. /\ n \in 0 .. Len(out) /\ k \in 1 .. n + 1 /\ torn \in {0, 1}
        /\ in \in Seq(Fields) /\ Len(in) = n - k + 1 + torn
        /\ ~cut => n = Len(out) /\ torn = 0
    BY <1>3 DEF Left
  <2>2. n \in Nat /\ n <= Len(out)
    <3> DEFINE l == Len(out)
    <3>1. l \in Nat
      BY <1>2
    <3>2. n \in 0 .. l
      BY <2>1
    <3> HIDE DEF l
    <3>3. n \in Nat /\ n <= l
      BY ONLY <3>1, <3>2
    <3> QED
      BY <3>3 DEF l
  <2>3. k \in Nat /\ k >= 1 /\ k <= n + 1
    BY <2>1, <2>2
  <2> QED
    BY <2>1, <2>2, <2>3
<1> DEFINE kinds == <<"name", "inode">>
           p == out[k].value
<1>5. k <= n => k \in DOMAIN out /\ IsName(k) /\ out[k].kind = "name" /\ k + 1 \in DOMAIN out
                /\ out[k + 1] = Field("inode", Ino(p)) /\ out[k + 1].kind = "inode" /\ out[k + 1].value = Ino(p)
  <2> SUFFICES ASSUME k <= n
               PROVE  k \in DOMAIN out /\ IsName(k) /\ out[k].kind = "name" /\ k + 1 \in DOMAIN out
                      /\ out[k + 1] = Field("inode", Ino(p)) /\ out[k + 1].kind = "inode" /\ out[k + 1].value = Ino(p)
    OBVIOUS
  <2>1. k \in 1 .. Len(out) /\ k # Len(out) + 1
    <3>1. Len(out) \in Nat /\ n \in Nat /\ n <= Len(out) /\ k \in Nat /\ k >= 1
      BY <1>2, <1>4
    <3>2. k <= Len(out)
      BY <3>1
    <3> QED
      BY <3>1, <3>2, SMTT(30)
  <2>2. IsName(k) /\ out[k].kind = "name"
    BY <1>2, <1>3, <2>1 DEF Starts, IsName
  <2>3. k + 1 \in DOMAIN out /\ out[k + 1] = Field("inode", Ino(p))
    BY <1>1, <1>2, <2>1, <2>2, EntryOf
  <2> QED
    BY <1>2, <2>1, <2>2, <2>3, FieldIs
<1>6. /\ k + 2 - 1 <= n => /\ Finds(kinds) = "found" /\ 2 <= Len(in)
                           /\ \A i \in 1 .. 2 : in[i] = out[k + i - 1]
      /\ k + 2 - 1 > n => Finds(kinds) = "short" /\ (cut \/ k + 2 - 1 > Len(out))
  <2>1. DOMAIN kinds = 1 .. 2 /\ Len(kinds) = 2 /\ \A i \in 1 .. 2 : kinds[i] # "torn"
    OBVIOUS
  <2>2. \A i \in 1 .. 2 : k + i - 1 <= n => out[k + i - 1].kind = kinds[i]
    <3> SUFFICES ASSUME NEW i \in 1 .. 2, k + i - 1 <= n
                 PROVE  out[k + i - 1].kind = kinds[i]
      OBVIOUS
    <3>1. k <= n /\ (i = 1 => k + i - 1 = k) /\ (i = 2 => k + i - 1 = k + 1)
      BY <1>4
    <3> QED
      BY <1>5, <3>1
  <2> HIDE DEF kinds
  <2> QED
    BY <1>2, <1>3, <2>1, <2>2, FindsWhatIsLeft
<1>7. CASE k + 1 > n
  <2>1. Finds(kinds) = "short"
    BY <1>4, <1>6, <1>7
  <2>2. tarx' = "bad"
    BY <2>1 DEF ReadName, Fails
  <2>3. cut
    <3> SUFFICES ASSUME ~cut
                 PROVE  FALSE
      OBVIOUS
    <3>1. Len(in) # 0
      BY <1>1, <1>4
    <3>2. k <= n
      BY <1>4, <3>1
    <3> QED
      BY <1>2, <1>4, <1>5, <1>7, <3>2
  <2> QED
    BY <1>1, <2>2, <2>3 DEF Extraction
<1>8. CASE k + 1 <= n
  <2>1. k <= n /\ k + 2 - 1 <= n /\ k + 1 - 1 = k /\ k + 2 - 1 = k + 1
    BY <1>4, <1>8
  <2>2. Finds(kinds) = "found" /\ in[1] = out[k] /\ in[2] = out[k + 1]
    BY <1>6, <2>1
  <2>3. fn' = p /\ inode' = Ino(p) /\ in' = SubSeq(in, 3, Len(in))
    BY <1>5, <2>1, <2>2 DEF ReadName
  <2>4. k \in DOMAIN out /\ IsName(k)
    BY <1>5, <2>1
  <2>5. Left(k + 2, n, torn)'
    <3>1. in' = SubSeq(in, 2 + 1, Len(in))
      BY <2>3
    <3> QED
      BY <1>1, <1>2, <1>3, <2>1, <3>1, LeftAfter
  <2>6. New(k) <=> Ino(p) \notin DOMAIN data
    BY <1>2, <1>3, <2>4, WhileReading
  <2>7. CASE New(k)
    <3>1. tarx' = "metadata" /\ made' = made /\ content' = content
      BY <2>2, <2>3, <2>6, <2>7 DEF ReadName
    <3>2. ReadUpTo(k, {})' /\ IsName(k)' /\ New(k)'
      BY <1>1, <1>3, <2>4, <2>7, <3>1, Same, SameMade
    <3>3. fn' = out'[k].value /\ inode' = Ino(fn)'
      <4>1. \A q : Ino(q)' = Ino(q)
        BY <1>1, Same
      <4> QED
        BY <1>1, <2>3, <4>1 DEF Ino
    <3>4. AtMetadata'
      BY <1>1, <1>3, <2>5, <3>2, <3>3 DEF AtMetadata
    <3> QED
      BY <1>1, <3>1, <3>4 DEF Extraction
  <2>8. CASE ~New(k)
    <3>1. tarx' = "name" /\ Link(data[Ino(p)].name, p)
      BY <1>1, <2>2, <2>3, <2>6, <2>8 DEF ReadName
    <3>2. ReadUpTo(k + 2, {})'
      BY <1>1, <1>3, <2>4, <2>8, <3>1, LinkKeeps
    <3>3. Starts(k + 2)'
      BY <1>1, <2>4, <2>8, EntryOf, Same
    <3>4. AtName'
      BY <1>1, <1>2, <2>5, <3>2, <3>3, IsAtName
    <3> QED
      BY <1>1, <3>1, <3>4 DEF Extraction
  <2> QED
    BY <2>7, <2>8
<1> QED
  BY <1>4, <1>7, <1>8

\* What ReadMetadata makes of the entry at the k-th field.
NewInode(k) ==
    LET p == out[k].value
        f == file[at[p]]
    IN  /\ data' = Put(data, Ino(p), [name |-> p, mode |-> f.mode, mtime |-> f.mtime])
        /\ times' = Append(times, Ino(p))
        /\ Enter(p, Ino(p), [type |-> IF f.type = "reg" THEN "reg" ELSE "dir",
                            mode |-> "rwx", mtime |-> Now, bytes |-> <<>>])

\* A new inode, whose contents are there unless it is in loading.
LEMMA NewInodeKeeps ==
    ASSUME Disk, Archive, tarc \in {"done", "failed"}, UNCHANGED <<diskVars, tarcVars>>,
           NEW k \in DOMAIN out, IsName(k), New(k), ReadUpTo(k, {}), NewInode(k),
           NEW loading, \/ loading = {Ino(out[k].value)}
                        \/ loading = {} /\ file[at[out[k].value]].bytes = <<>>,
           NEW e, NamedBefore(e) = NamedBefore(k) \cup {out[k].value}
    PROVE  ReadUpTo(e, loading)'
<1> SUFFICES ASSUME NEW p, p = out[k].value, NEW i, i = Ino(p), NEW f, f = file[at[p]],
                    NEW d, d = [name |-> p, mode |-> f.mode, mtime |-> f.mtime],
                    NEW c, c = [type |-> IF f.type = "reg" THEN "reg" ELSE "dir",
                                mode |-> "rwx", mtime |-> Now, bytes |-> <<>>],
                    data' = Put(data, i, d), times' = Append(times, i), Enter(p, i, c),
                    loading = {i} \/ (loading = {} /\ f.bytes = <<>>),
                    NamedBefore(e) = NamedBefore(k) \cup {p}
             PROVE  ReadUpTo(e, loading)'
  BY DEF NewInode
<1>1. /\ out \in Seq(Fields) /\ f.ino = i
      /\ \A a \in Ancestors(p) : a \in NamedBefore(k)
  BY EntryOf DEF Ino
<1>2. /\ \A q \in DOMAIN made : made[q] = Ino(q) /\ Ino(q) \in DOMAIN data
      /\ i \notin DOMAIN data /\ p \notin DOMAIN made /\ DOMAIN made = NamedBefore(k)
  BY <1>1, WhileReading
<1>3. MadePaths /\ ToRestore /\ \A j \in DOMAIN data : MadeFile(j, {}) /\ IsRestoring(j)
  BY DEF ReadUpTo, Made
<1>4. /\ DOMAIN data' = DOMAIN data \cup {i} /\ data'[i] = d
      /\ \A j \in DOMAIN data : data'[j] = data[j]
  BY <1>2 DEF Put
<1> DEFINE m == Len(times)
<1>5. /\ times \in Seq(DOMAIN data) /\ m \in Nat /\ DOMAIN times = 1 .. m
      /\ \A s, t \in DOMAIN times : times[s] = times[t] => s = t
      /\ \A t \in DOMAIN times : \A a \in Ancestors(data[times[t]].name) :
            \E s \in DOMAIN times : s < t /\ times[s] = Ino(a)
  BY <1>3 DEF ToRestore
<1>6. /\ times' \in Seq(DOMAIN data') /\ DOMAIN times' = 1 .. m + 1 /\ times'[m + 1] = i
      /\ \A t \in 1 .. m : times'[t] = times[t] /\ times[t] \in DOMAIN data
  <2>1. times \in Seq(DOMAIN data') /\ i \in DOMAIN data'
    BY <1>4, <1>5
  <2> QED
    BY <1>5, <2>1
<1> HIDE DEF m
<1>7. \A t \in 1 .. m + 1 : t = m + 1 \/ t \in 1 .. m
  BY <1>5
<1>8. (\A q : Ino(q)' = Ino(q)) /\ (\A l : NamedBefore(l)' = NamedBefore(l)) /\ at' = at /\ file' = file
  BY Same DEF diskVars
<1>9. \A j \in DOMAIN data' : IsRestoring(j)'
  <2>1. IsRestoring(i)'
    <3>1. m + 1 \in 1 .. m + 1
      BY <1>5
    <3> QED
      BY <1>6, <3>1 DEF IsRestoring
  <2>2. ASSUME NEW j \in DOMAIN data
        PROVE  IsRestoring(j)'
    <3>1. PICK t \in 1 .. m : times[t] = j
      BY <1>3, <1>5 DEF IsRestoring
    <3>2. t \in DOMAIN times' /\ times'[t] = j
      BY <1>5, <1>6, <3>1
    <3> QED
      BY <3>2 DEF IsRestoring
  <2> QED
    BY <1>4, <2>1, <2>2
<1>10. /\ MadePaths' /\ DOMAIN made' = NamedBefore(k) \cup {p}
       /\ content'[i] \in {c, Touched(c)}
       /\ \A j \in DOMAIN content : j # i => content'[j] \in {content[j], Touched(content[j])}
       /\ DOMAIN content = DOMAIN data
  <2>1. out[k].value \notin DOMAIN made /\ Enter(out[k].value, Ino(out[k].value), c)
    BY <1>2
  <2>2. DOMAIN data' = DOMAIN data \cup {Ino(out[k].value)}
    BY <1>4
  <2> QED
    BY <2>1, <2>2, EnteredPaths
<1>11. ASSUME NEW j \in DOMAIN data
       PROVE  MadeFile(j, loading)'
  <2>1. j # i
    BY <1>2
  <2>2. MadeFile(j, loading)
    <3>1. MadeFile(j, {}) /\ j \notin loading
      BY <1>3, <2>1
    <3> QED
      BY <3>1 DEF MadeFile
  <2>3. IsRestoring(j) /\ IsRestoring(j)' /\ data'[j] = data[j]
    BY <1>3, <1>4, <1>9
  <2>4. \A q \in DOMAIN made : q \in DOMAIN made'
    BY <1>2, <1>10
  <2>5. content'[j] \in {content[j], Touched(content[j])}
    BY <1>10, <2>1, SMTT(30)
  <2> QED
    BY <2>2, <2>3, <2>4, <2>5, TimeIsFree
<1>12. MadeFile(i, loading)'
  <2>1. file'[at'[data'[i].name]] = f /\ data'[i].name = p /\ data'[i].mode = f.mode /\ data'[i].mtime = f.mtime
    <3>1. data'[i].name = p /\ data'[i].mode = f.mode /\ data'[i].mtime = f.mtime
      BY <1>4
    <3> QED
      BY <1>8, <3>1, ZenonT(40)
  <2>2. p \in DOMAIN made'
    BY <1>10
  <2>3. /\ content'[i] = [type |-> IF f.type = "reg" THEN "reg" ELSE "dir",
                          mode |-> content'[i].mode, mtime |-> content'[i].mtime, bytes |-> <<>>]
        /\ content'[i].mode = "rwx"
    <3>1. CASE content'[i] = c
      BY <3>1
    <3>2. CASE content'[i] = Touched(c)
      <4>1. content'[i] = [type |-> IF f.type = "reg" THEN "reg" ELSE "dir",
                           mode |-> "rwx", mtime |-> Now, bytes |-> <<>>]
        BY <3>2 DEF Touched
      <4> QED
        BY <4>1
    <3> QED
      BY <1>10, <3>1, <3>2
  <2>4. (IF i \in loading THEN <<>> ELSE f.bytes) = <<>>
    OBVIOUS
  <2>5. IsRestoring(i)'
    BY <1>4, <1>9, SMTT(30)
  <2> QED
    BY <1>1, <2>1, <2>2, <2>3, <2>4, <2>5, ZenonT(40) DEF MadeFile
<1>13. ToRestore'
  <2>1. \A s, t \in DOMAIN times' : times'[s] = times'[t] => s = t
    BY <1>2, <1>5, <1>6, <1>7
  <2>2. ASSUME NEW t \in 1 .. m, NEW a \in Ancestors(data'[times'[t]].name)
        PROVE  \E s \in DOMAIN times' : s < t /\ times'[s] = Ino(a)
    <3>1. times'[t] = times[t] /\ times[t] \in DOMAIN data /\ data'[times[t]] = data[times[t]]
      BY <1>4, <1>6, ZenonT(40)
    <3>2. PICK s \in 1 .. m : s < t /\ times[s] = Ino(a)
      BY <1>5, <2>2, <3>1
    <3>3. s \in DOMAIN times' /\ times'[s] = times[s]
      BY <1>5, <1>6, <3>2
    <3> QED
      BY <3>2, <3>3, SMTT(30)
  <2>3. ASSUME NEW a \in Ancestors(p)
        PROVE  \E s \in DOMAIN times' : s < m + 1 /\ times'[s] = Ino(a)
    <3>1. Ino(a) \in DOMAIN data
      BY <1>1, <1>2
    <3>2. PICK s \in 1 .. m : times[s] = Ino(a)
      BY <1>3, <1>5, <3>1 DEF IsRestoring
    <3>3. s \in DOMAIN times' /\ times'[s] = times[s] /\ s < m + 1
      BY <1>5, <1>6, <3>2
    <3> QED
      BY <3>2, <3>3
  <2>4. \A t \in DOMAIN times' : \A a \in Ancestors(data'[times'[t]].name) :
           \E s \in DOMAIN times' : s < t /\ times'[s] = Ino(a)
    <3> SUFFICES ASSUME NEW t \in DOMAIN times', NEW a \in Ancestors(data'[times'[t]].name)
                 PROVE  \E s \in DOMAIN times' : s < t /\ times'[s] = Ino(a)
      BY ZenonT(40)
    <3>1. CASE t = m + 1
      <4>1. data'[times'[t]].name = p
        <5>1. times'[t] = i
          BY <1>6, <3>1, SMTT(30)
        <5>2. data'[i].name = p
          BY <1>4, SMTT(30)
        <5> QED
          BY <5>1, <5>2
      <4> QED
        BY <2>3, <3>1, <4>1
    <3>2. CASE t \in 1 .. m
      BY <2>2, <3>2, ZenonT(40)
    <3> QED
      BY <1>6, <1>7, <3>1, <3>2, ZenonT(40)
  <2>5. \A t \in DOMAIN times' : \A a \in Ancestors(data'[times'[t]].name) :
           \E s \in DOMAIN times' : s < t /\ times'[s] = Ino(a)'
    <3> SUFFICES ASSUME NEW t \in DOMAIN times', NEW a \in Ancestors(data'[times'[t]].name)
                 PROVE  \E s \in DOMAIN times' : s < t /\ times'[s] = Ino(a)'
      BY ZenonT(40)
    <3>1. PICK s \in DOMAIN times' : s < t /\ times'[s] = Ino(a)
      BY <2>4, ZenonT(40)
    <3>2. Ino(a)' = Ino(a)
      BY <1>8
    <3> QED
      BY <3>1, <3>2
  <2> QED
    BY <1>6, <2>1, <2>5, ZenonT(40) DEF ToRestore
<1>14. Made(loading)'
  <2>1. \A j \in DOMAIN data' : MadeFile(j, loading)'
    BY <1>4, <1>11, <1>12
  <2> QED
    BY <1>10, <1>13, <2>1 DEF Made
<1> QED
  BY <1>8, <1>9, <1>10, <1>14 DEF ReadUpTo

\* The mode and the time of a new inode, and the size of a regular file.
LEMMA ReadMetadataKeeps ==
    ASSUME Disk, Archive, Traversal, Extraction, ReadMetadata
    PROVE  Extraction'
<1>1. /\ tarc \in {"done", "failed"} /\ tarx = "metadata" /\ AtMetadata
      /\ UNCHANGED <<diskVars, tarcVars>> /\ cut' = cut /\ tarc' = tarc /\ out' = out
      /\ fn' = fn /\ inode' = inode
  BY DEF ReadMetadata, Extraction, tarcVars
<1>2. out \in Seq(Fields) /\ Len(out) \in Nat /\ DOMAIN out = 1 .. Len(out)
  BY DEF Archive
<1>3. PICK n \in 0 .. Len(out) + 1, k \in 0 .. Len(out) + 1, torn \in {0, 1} :
         /\ Left(k + 2, n, torn) /\ IsName(k) /\ New(k) /\ ReadUpTo(k, {})
         /\ fn = out[k].value /\ inode = Ino(fn)
  BY <1>1 DEF AtMetadata
<1>4. k \in DOMAIN out /\ k \in Nat /\ k >= 1
  BY <1>2, <1>3 DEF IsName
<1>5. /\ n \in Nat /\ n <= Len(out) /\ k + 2 <= n + 1 /\ torn \in {0, 1}
      /\ Len(in) = n - (k + 2) + 1 + torn /\ in \in Seq(Fields)
      /\ k + 2 <= n => in[1] = out[(k + 2) + 1 - 1]
      /\ torn = 1 => in[Len(in)].kind = "torn"
  <2> DEFINE l == k + 2
  <2>1. l \in Nat /\ Left(l, n, torn)
    BY <1>3, <1>4
  <2> HIDE DEF l
  <2>2. /\ n \in Nat /\ n <= Len(out) /\ l <= n + 1 /\ torn \in {0, 1}
        /\ Len(in) = n - l + 1 + torn /\ in \in Seq(Fields)
        /\ torn = 1 => in[Len(in)].kind = "torn"
        /\ \A j \in 1 .. n - l + 1 : in[j] = out[l + j - 1]
    <3>1. /\ n \in 0 .. Len(out) /\ l \in 1 .. n + 1 /\ torn \in {0, 1}
          /\ in \in Seq(Fields) /\ Len(in) = n - l + 1 + torn
          /\ \A j \in 1 .. n - l + 1 : in[j] = out[l + j - 1]
          /\ torn = 1 => in[Len(in)].kind = "torn"
      BY <2>1 DEF Left
    <3>2. n \in Nat /\ n <= Len(out) /\ l <= n + 1
      BY <1>2, <2>1, <3>1
    <3> QED
      BY <3>1, <3>2
  <2>3. l <= n => 1 \in 1 .. n - l + 1
    BY <2>1, <2>2
  <2>4. l <= n => in[1] = out[l + 1 - 1]
    BY <2>2, <2>3
  <2> QED
    BY <2>2, <2>4 DEF l
<1> DEFINE p == out[k].value
           f == file[at[p]]
           d == [name |-> p, mode |-> f.mode, mtime |-> f.mtime]
           c == [type |-> IF f.type = "reg" THEN "reg" ELSE "dir",
                 mode |-> "rwx", mtime |-> Now, bytes |-> <<>>]
           mode == [type |-> f.type, bits |-> f.mode]
           regular == Len(in) > 0 /\ in[1].kind = "mode" /\ in[1].value.type = "reg"
           kinds == IF regular THEN <<"mode", "mtime", "size">> ELSE <<"mode", "mtime">>
           m == IF regular THEN 3 ELSE 2
<1>6. /\ f \in File /\ inode = Ino(p) /\ k + 3 \in DOMAIN out
      /\ out[k + 2] = Field("mode", mode) /\ out[k + 3] = Field("mtime", f.mtime)
      /\ HasBytes(k) <=> f.type = "reg"
      /\ HasBytes(k) => k + 4 \in DOMAIN out /\ out[k + 4] = Field("size", Len(f.bytes))
      /\ NamedBefore(k + 1) = NamedBefore(k) \cup {p}
      /\ ~HasBytes(k) => /\ Starts(k + 4) /\ NamedBefore(k + 4) = NamedBefore(k) \cup {p}
                         /\ f.bytes = <<>>
  <2>1. p \in DOMAIN at /\ at[p] \in DOMAIN file
    BY <1>1, <1>3, <1>4, EntryOf
  <2>2. f.type # "reg" => f.bytes = <<>>
    BY <2>1 DEF Disk
  <2> QED
    BY <1>1, <1>3, <1>4, <2>2, EntryOf
<1> HIDE DEF p, f
<1>7. /\ out[k + 2].kind = "mode" /\ out[k + 2].value.type = f.type /\ out[k + 2].value.bits = f.mode
      /\ out[k + 3].kind = "mtime" /\ out[k + 3].value = f.mtime
      /\ HasBytes(k) => out[k + 4].kind = "size" /\ out[k + 4].value = Len(f.bytes)
  BY <1>6, FieldIs
<1>8. IF k + 2 <= n THEN regular <=> HasBytes(k) ELSE ~regular
  <2>1. CASE k + 2 <= n
    <3>1. Len(in) > 0 /\ (k + 2) + 1 - 1 = k + 2
      BY <1>2, <1>4, <1>5, <2>1
    <3> QED
      BY <1>5, <1>6, <1>7, <2>1, <3>1
  <2>2. CASE ~(k + 2 <= n)
    <3>1. Len(in) = torn
      BY <1>2, <1>4, <1>5, <2>2
    <3>2. Len(in) > 0 => in[1].kind = "torn"
      BY <1>5, <3>1
    <3> QED
      BY <2>2, <3>2
  <2> QED
    BY <2>1, <2>2
<1>9. /\ Finds(kinds) = "found" =>
            /\ data' = Put(data, inode, [name |-> fn, mode |-> in[1].value.bits, mtime |-> in[2].value])
            /\ times' = Append(times, inode)
            /\ fsize' = IF regular THEN in[3].value ELSE 0
            /\ Enter(fn, inode, [type |-> IF regular THEN "reg" ELSE "dir",
                                 mode |-> "rwx", mtime |-> Now, bytes |-> <<>>])
            /\ in' = SubSeq(in, Len(kinds) + 1, Len(in))
            /\ tarx' = IF regular THEN "data" ELSE "name"
      /\ Finds(kinds) = "short" => tarx' = "bad"
  BY DEF ReadMetadata, MakeFile, MakeDirectory, Fails
<1>10. /\ m \in Nat /\ DOMAIN kinds = 1 .. m /\ Len(kinds) = m /\ m \in {2, 3}
       /\ \A i \in 1 .. m : kinds[i] # "torn"
  <2> HIDE DEF regular
  <2>1. CASE regular
    BY <2>1
  <2>2. CASE ~regular
    BY <2>2
  <2> QED
    BY <2>1, <2>2
<1>11. \A i \in 1 .. m : (k + 2) + i - 1 <= n => out[(k + 2) + i - 1].kind = kinds[i]
  <2> SUFFICES ASSUME NEW i \in 1 .. m, (k + 2) + i - 1 <= n
               PROVE  out[(k + 2) + i - 1].kind = kinds[i]
    OBVIOUS
  <2>1. k + 2 <= n /\ i \in {1, 2, 3} /\ (i = 3 => regular)
    BY <1>4, <1>5, <1>10, SMTT(30)
  <2>2. kinds[1] = "mode" /\ kinds[2] = "mtime" /\ (regular => kinds[3] = "size")
    OBVIOUS
  <2>3. (k + 2) + 1 - 1 = k + 2 /\ (k + 2) + 2 - 1 = k + 3 /\ (k + 2) + 3 - 1 = k + 4
    BY <1>4
  <2> HIDE DEF kinds, regular
  <2>4. CASE i = 1
    BY <1>7, <2>2, <2>3, <2>4
  <2>5. CASE i = 2
    BY <1>7, <2>2, <2>3, <2>5
  <2>6. CASE i = 3
    BY <1>7, <1>8, <2>1, <2>2, <2>3, <2>6
  <2> QED
    BY <2>1, <2>4, <2>5, <2>6
<1> HIDE DEF kinds, m, regular
<1>12. /\ (k + 2) + m - 1 <= n => /\ Finds(kinds) = "found" /\ m <= Len(in)
                                  /\ \A i \in 1 .. m : in[i] = out[(k + 2) + i - 1]
       /\ (k + 2) + m - 1 > n => Finds(kinds) = "short" /\ (cut \/ (k + 2) + m - 1 > Len(out))
  <2>1. Left(k + 2, n, torn)
    BY <1>3
  <2> DEFINE l == k + 2
  <2>2. /\ l + m - 1 <= n => /\ Finds(kinds) = "found" /\ m <= Len(in)
                             /\ \A i \in 1 .. m : in[i] = out[l + i - 1]
        /\ l + m - 1 > n => Finds(kinds) = "short" /\ (cut \/ l + m - 1 > Len(out))
    <3> HIDE DEF l
    <3>1. Left(l, n, torn) /\ \A i \in 1 .. m : l + i - 1 <= n => out[l + i - 1].kind = kinds[i]
      BY <1>11, <2>1 DEF l
    <3> QED
      BY <1>2, <1>10, <3>1, FindsWhatIsLeft
  <2> QED
    BY <2>2
<1>13. CASE (k + 2) + m - 1 > n
  <2>1. tarx' = "bad"
    BY <1>9, <1>12, <1>13
  <2>2. cut
    <3>1. (k + 2) + 2 - 1 <= Len(out) /\ (HasBytes(k) => (k + 2) + 3 - 1 <= Len(out))
      BY <1>2, <1>4, <1>6
    <3>2. m = 2 \/ HasBytes(k)
      BY <1>8 DEF m
    <3>3. (k + 2) + m - 1 <= Len(out)
      BY <3>1, <3>2 DEF m
    <3> QED
      BY <1>2, <1>4, <1>10, <1>12, <1>13, <3>3
  <2> QED
    BY <1>1, <2>1, <2>2 DEF Extraction
<1>14. CASE (k + 2) + m - 1 <= n
  <2>1. /\ k + 2 <= n /\ 1 \in 1 .. m /\ 2 \in 1 .. m /\ (regular => 3 \in 1 .. m)
        /\ (k + 2) + 1 - 1 = k + 2 /\ (k + 2) + 2 - 1 = k + 3 /\ (k + 2) + 3 - 1 = k + 4
    <3>1. m \in Nat /\ m >= 2 /\ (regular => m = 3)
      BY DEF m
    <3> QED
      BY <1>2, <1>4, <1>5, <1>14, <3>1, SMTT(30)
  <2>2. /\ Finds(kinds) = "found" /\ in[1] = out[k + 2] /\ in[2] = out[k + 3]
        /\ regular => in[3] = out[k + 4]
    BY <1>12, <1>14, <2>1
  <2>3. regular <=> HasBytes(k)
    BY <1>8, <2>1
  <2>4. /\ data' = Put(data, inode, d) /\ times' = Append(times, inode)
        /\ fsize' = IF regular THEN Len(f.bytes) ELSE 0
        /\ Enter(p, inode, c)
        /\ in' = SubSeq(in, m + 1, Len(in))
        /\ tarx' = IF regular THEN "data" ELSE "name"
    <3>1. fn = p
      BY <1>3 DEF p
    <3>2. [name |-> fn, mode |-> in[1].value.bits, mtime |-> in[2].value] = d
      BY <1>7, <2>2, <3>1
    <3>3. [type |-> IF regular THEN "reg" ELSE "dir", mode |-> "rwx", mtime |-> Now, bytes |-> <<>>] = c
      BY <1>6, <2>3
    <3>4. regular => in[3].value = Len(f.bytes)
      BY <1>7, <2>2, <2>3
    <3> HIDE DEF c, d
    <3> QED
      BY <1>9, <1>10, <2>2, <3>1, <3>2, <3>3, <3>4
  <2>5. \A e : e = (k + 2) + m => Left(e, n, torn)'
    <3> DEFINE l == k + 2
    <3>1. l \in Nat /\ Left(l, n, torn) /\ l + m - 1 <= n
      BY <1>3, <1>4, <1>14
    <3> HIDE DEF l
    <3>2. ASSUME NEW w \in Nat, w = m
          PROVE  Left(l + w, n, torn)'
      <4>1. l + w - 1 <= n /\ in' = SubSeq(in, w + 1, Len(in)) /\ out' = out /\ cut' = cut
        BY <1>1, <2>4, <3>1, <3>2
      <4> QED
        BY <1>2, <3>1, <4>1, LeftAfter
    <3> QED
      BY <1>10, <3>2 DEF l
  <2>6. ASSUME NEW loading, loading = {inode} \/ (loading = {} /\ f.bytes = <<>>),
               NEW e, NamedBefore(e) = NamedBefore(k) \cup {p}
        PROVE  ReadUpTo(e, loading)'
    <3>1. NewInode(k)
      BY <1>6, <2>4 DEF NewInode, p, f
    <3>2. \/ loading = {Ino(out[k].value)}
          \/ loading = {} /\ file[at[out[k].value]].bytes = <<>>
      BY <1>6, <2>6 DEF p, f
    <3>3. NamedBefore(e) = NamedBefore(k) \cup {out[k].value}
      BY <2>6 DEF p
    <3> QED
      BY <1>1, <1>3, <1>4, <3>1, <3>2, <3>3, NewInodeKeeps
  <2>7. (IsName(k)' <=> IsName(k)) /\ (HasBytes(k)' <=> HasBytes(k)) /\ \A l : Starts(l)' <=> Starts(l)
    BY <1>1, Same
  <2>8. CASE HasBytes(k)
    <3>1. m = 3 /\ (k + 2) + 3 = k + 5 /\ tarx' = "data" /\ fsize' = Len(f.bytes)
      BY <1>4, <2>3, <2>4, <2>8 DEF m
    <3>2. Left(k + 5, n, torn)'
      BY <2>5, <3>1
    <3>3. \A w : w = {inode} => ReadUpTo(k + 1, w)'
      BY <1>6, <2>6
    <3>4. ReadUpTo(k + 1, {inode})'
      BY <1>1, <3>3
    <3>5. inode' = Ino(out[k].value)' /\ fsize' = Len(file[at[out[k].value]].bytes)'
      <4>1. Ino(out[k].value)' = Ino(p)
        BY <1>1 DEF p, Ino, diskVars
      <4>2. Len(file[at[out[k].value]].bytes)' = Len(f.bytes)
        BY <1>1 DEF p, f, diskVars
      <4> QED
        BY <1>1, <1>6, <3>1, <4>1, <4>2
    <3>6. AtBytes'
      BY <1>1, <1>3, <2>7, <2>8, <3>2, <3>4, <3>5 DEF AtBytes
    <3> QED
      BY <1>1, <3>1, <3>6 DEF Extraction
  <2>9. CASE ~HasBytes(k)
    <3>1. m = 2 /\ (k + 2) + 2 = k + 4 /\ tarx' = "name"
      BY <1>4, <2>3, <2>4, <2>9 DEF m
    <3>2. Left(k + 4, n, torn)'
      BY <2>5, <3>1
    <3>3. ReadUpTo(k + 4, {})' /\ Starts(k + 4)'
      BY <1>6, <2>6, <2>7, <2>9
    <3>4. AtName'
      <4> DEFINE l == k + 4
      <4>1. Left(l, n, torn)' /\ ReadUpTo(l, {})' /\ Starts(l)' /\ Len(out') \in Nat
        BY <1>1, <1>2, <3>2, <3>3
      <4> HIDE DEF l
      <4> QED
        BY <4>1, IsAtName
    <3> QED
      BY <1>1, <3>1, <3>4 DEF Extraction
  <2> QED
    BY <2>8, <2>9
<1> QED
  BY <1>2, <1>4, <1>5, <1>10, <1>13, <1>14

\* The bytes of a file in the archive, and what comes after them.
LEMMA BytesOf ==
    ASSUME Disk, Archive, tarc \in {"done", "failed"}, NEW k \in DOMAIN out, IsName(k), HasBytes(k)
    PROVE  LET f == file[at[out[k].value]]
               l == Len(f.bytes)
               e == k + 5 + l
           IN  /\ l \in Nat /\ DOMAIN f.bytes = 1 .. l
               /\ \/ tarc = "failed" /\ k + 4 = Len(out)
                  \/ k + 4 + l <= Len(out) /\ \A j \in 1 .. l : out[k + 4 + j] = Field("byte", f.bytes[j])
               /\ k + 4 + l <= Len(out) => Starts(e) /\ NamedBefore(e) = NamedBefore(k) \cup {out[k].value}
<1> SUFFICES ASSUME NEW f, f = file[at[out[k].value]], NEW l, l = Len(f.bytes), NEW e, e = k + 5 + l
             PROVE  /\ l \in Nat /\ DOMAIN f.bytes = 1 .. l
                    /\ \/ tarc = "failed" /\ k + 4 = Len(out)
                       \/ k + 4 + l <= Len(out) /\ \A j \in 1 .. l : out[k + 4 + j] = Field("byte", f.bytes[j])
                    /\ k + 4 + l <= Len(out) => Starts(e) /\ NamedBefore(e) = NamedBefore(k) \cup {out[k].value}
  OBVIOUS
<1>1. /\ out \in Seq(Fields) /\ Len(out) \in Nat /\ DOMAIN out = 1 .. Len(out) /\ k \in Nat
      /\ out[k].value \in DOMAIN at /\ k + 4 \in DOMAIN out
  BY EntryOf
<1>2. l \in Nat /\ DOMAIN f.bytes = 1 .. l /\ End(k) = e
  <2>1. k \in Int
    BY <1>1
  <2>2. l \in Nat /\ DOMAIN f.bytes = 1 .. l
    BY <1>1, <2>1, EndOf
  <2>3. End(k) = e
    BY <1>1, <2>1, EndOf
  <2> QED
    BY <2>2, <2>3
<1>3. Begun(k) /\ (Finished(k) \/ Unfinished(k))
  BY DEF Archive
<1>4. CASE Finished(k)
  <2>1. Starts(e) /\ \A j \in 1 .. l : k + 4 + j \in DOMAIN out /\ out[k + 4 + j] = Field("byte", f.bytes[j])
    BY <1>2, <1>4 DEF Finished
  <2>2. k + 4 + l <= Len(out)
    <3>1. CASE l = 0
      BY <1>1, <3>1
    <3>2. CASE l # 0
      <4>1. l \in 1 .. l
        BY <1>2, <3>2
      <4> QED
        BY <1>1, <2>1, <4>1, SMTT(30)
    <3> QED
      BY <3>1, <3>2
  <2>3. \A i \in k + 1 .. e - 1 : ~IsName(i)
    BY <1>1, <1>2, <1>3, <1>4, NoNameInside
  <2>4. e \in Int /\ e > k
    BY <1>1, <1>2
  <2>5. NamedBefore(e) = NamedBefore(k) \cup {out[k].value}
    BY <1>1, <2>3, <2>4, NamesAfter
  <2> QED
    BY <1>2, <2>1, <2>2, <2>5
<1>5. CASE Unfinished(k)
  <2>1. tarc = "failed" /\ k + 4 = Len(out)
    BY <1>5 DEF Unfinished, Copying
  <2>2. ASSUME k + 4 + l <= Len(out)
        PROVE  Starts(e) /\ NamedBefore(e) = NamedBefore(k) \cup {out[k].value}
    <3>1. l = 0 /\ e = Len(out) + 1 /\ e - 1 = k + 4 /\ e \in Int /\ e > k
      BY <1>1, <1>2, <2>1, <2>2
    <3>2. \A i \in k + 1 .. e - 1 : ~IsName(i)
      BY <1>1, <1>3, <3>1, NoNameInside
    <3>3. NamedBefore(e) = NamedBefore(k) \cup {out[k].value}
      BY <1>1, <3>1, <3>2, NamesAfter
    <3> QED
      BY <3>1, <3>3 DEF Starts
  <2> QED
    BY <1>2, <2>1, <2>2
<1> QED
  BY <1>3, <1>4, <1>5

\* A file gets its contents.
Loaded(f, bytes) == [f EXCEPT !.bytes = bytes]

\* The contents of an inode are right once they are read.
LEMMA LoadedIsMade ==
    ASSUME Disk, Archive, UNCHANGED <<diskVars, tarcVars, data, times, made>>,
           NEW p \in Named, NEW i, i = Ino(p), NEW b, b = file[at[p]].bytes,
           Made({i}), i \in DOMAIN data,
           DOMAIN content' = DOMAIN content, content'[i] = Loaded(content[i], b),
           \A j \in DOMAIN content : j # i => content'[j] = content[j]
    PROVE  Made({})'
<1>1. at' = at /\ file' = file /\ data' = data /\ times' = times /\ made' = made
  BY DEF diskVars
<1>2. \A j : IsRestoring(j)' <=> IsRestoring(j)
  BY <1>1 DEF IsRestoring
<1>3. Named' = Named /\ \A q : Ino(q)' = Ino(q)
  BY Same
<1>4. MadePaths /\ ToRestore /\ \A j \in DOMAIN data : MadeFile(j, {i})
  BY DEF Made
<1>5. MadePaths'
  <2>1. {Ino(q)' : q \in DOMAIN made'} = {Ino(q) : q \in DOMAIN made}
    BY <1>1, <1>3
  <2> QED
    BY <1>1, <1>3, <1>4, <2>1 DEF MadePaths
<1>6. ToRestore'
  BY <1>1, <1>3, <1>4 DEF ToRestore
<1>7. DOMAIN content = DOMAIN data
  BY <1>4 DEF MadePaths
<1>8. ASSUME NEW j \in DOMAIN data, j # i
      PROVE  MadeFile(j, {})'
  <2>1. content'[j] = content[j] /\ MadeFile(j, {i})
    BY <1>4, <1>7, <1>8
  <2>2. j \notin {i} /\ j \notin {}
    BY <1>8
  <2> QED
    BY <1>1, <1>2, <2>1, <2>2 DEF MadeFile
<1>9. MadeFile(i, {})'
  <2> DEFINE f == file[at[data[i].name]]
             t == IF f.type = "reg" THEN "reg" ELSE "dir"
             m == content[i].mode
             c == content[i].mtime
  <2>1. /\ data[i].name \in DOMAIN made /\ f.ino = i /\ data[i].mode = f.mode /\ data[i].mtime = f.mtime
        /\ content[i] = [type |-> t, mode |-> m, mtime |-> c, bytes |-> <<>>]
        /\ IsRestoring(i) => m = "rwx"
        /\ ~IsRestoring(i) => m = f.mode /\ c = f.mtime
    BY <1>4 DEF MadeFile
  <2>2. f.bytes = b
    <3>1. data[i].name \in Named
      BY <1>4, <2>1 DEF MadePaths
    <3>2. at[data[i].name] \in DOMAIN file /\ at[p] \in DOMAIN file
      BY <3>1, NamedAre
    <3>3. at[data[i].name] = at[p]
      BY <2>1, <3>2 DEF Disk, Ino
    <3> QED
      BY <3>3
  <2> HIDE DEF f, t, m, c
  <2>3. content'[i] = [type |-> t, mode |-> m, mtime |-> c, bytes |-> b]
    BY <2>1 DEF Loaded
  <2>4. content'[i] = [type |-> t, mode |-> content'[i].mode, mtime |-> content'[i].mtime, bytes |-> b]
        /\ content'[i].mode = m /\ content'[i].mtime = c
    BY <2>3
  <2>5. i \notin {}
    OBVIOUS
  <2> QED
    BY <1>1, <1>2, <2>1, <2>2, <2>4, <2>5 DEF MadeFile, f, t
<1>10. \A j \in DOMAIN data' : MadeFile(j, {})'
  BY <1>1, <1>8, <1>9
<1> QED
  BY <1>5, <1>6, <1>10 DEF Made

\* The bytes of a file.
LEMMA ReadDataKeeps ==
    ASSUME Disk, Archive, Traversal, Extraction, ReadData
    PROVE  Extraction'
<1>1. /\ tarc \in {"done", "failed"} /\ tarx = "data" /\ AtBytes
      /\ UNCHANGED <<diskVars, tarcVars, data, times, made>> /\ cut' = cut /\ tarc' = tarc /\ out' = out
  BY DEF ReadData, Extraction, tarcVars
<1>2. out \in Seq(Fields) /\ Len(out) \in Nat /\ DOMAIN out = 1 .. Len(out)
  BY DEF Archive
<1>3. PICK n \in 0 .. Len(out) + 1, k \in 0 .. Len(out) + 1, torn \in {0, 1} :
         /\ Left(k + 5, n, torn) /\ IsName(k) /\ HasBytes(k) /\ ReadUpTo(k + 1, {inode})
         /\ inode = Ino(out[k].value) /\ fsize = Len(file[at[out[k].value]].bytes)
  BY <1>1 DEF AtBytes
<1>4. k \in DOMAIN out /\ k \in Nat /\ k >= 1
  BY <1>2, <1>3 DEF IsName
<1> DEFINE p == out[k].value
           f == file[at[p]]
           kinds == [j \in 1 .. fsize |-> "byte"]
           bytes == [j \in 1 .. fsize |-> in[j].value]
<1>5. /\ p \in Named /\ NamedBefore(k + 1) = NamedBefore(k) \cup {p}
      /\ f \in File
  BY <1>1, <1>3, <1>4, EntryOf
<1>6. \A e : e = k + 5 + fsize =>
         /\ fsize \in Nat /\ DOMAIN f.bytes = 1 .. fsize
         /\ \/ tarc = "failed" /\ k + 4 = Len(out)
            \/ k + 4 + fsize <= Len(out) /\ \A j \in 1 .. fsize : out[k + 4 + j] = Field("byte", f.bytes[j])
         /\ k + 4 + fsize <= Len(out) => Starts(e) /\ NamedBefore(e) = NamedBefore(k) \cup {p}
  <2>1. fsize = Len(f.bytes)
    BY <1>3
  <2> QED
    BY <1>1, <1>3, <1>4, <2>1, BytesOf
<1>7. f.bytes = [j \in 1 .. fsize |-> f.bytes[j]]
  <2>1. f.bytes \in Seq(Nat)
    BY <1>5 DEF File
  <2>2. f.bytes = [j \in 1 .. Len(f.bytes) |-> f.bytes[j]]
    BY <2>1, SequenceIs
  <2> QED
    BY <1>3, <2>2
<1>8. fsize \in Nat
  BY <1>6
<1> HIDE DEF p, f
<1>9. /\ Finds(kinds) = "found" =>
            /\ content' = [content EXCEPT ![inode].bytes = bytes]
            /\ in' = SubSeq(in, fsize + 1, Len(in)) /\ tarx' = "name"
      /\ Finds(kinds) = "short" => tarx' = "bad"
  BY DEF ReadData, Fails
<1>10. DOMAIN kinds = 1 .. fsize /\ Len(kinds) = fsize /\ \A i \in 1 .. fsize : kinds[i] # "torn"
  <2>1. kinds \in Seq({"byte"})
    BY <1>8
  <2> QED
    BY <1>8, <2>1
<1>11. n \in Nat /\ n <= Len(out)
  <2> DEFINE l == k + 5
  <2>1. Left(l, n, torn)
    BY <1>3
  <2> HIDE DEF l
  <2>2. n \in 0 .. Len(out)
    BY <2>1 DEF Left
  <2> QED
    BY <1>2, <2>2
<1>12. \A i \in 1 .. fsize : (k + 5) + i - 1 = k + 4 + i
  BY <1>4, <1>8
<1>13. \A i \in 1 .. fsize : (k + 5) + i - 1 <= n =>
          /\ out[(k + 5) + i - 1].kind = kinds[i]
          /\ out[(k + 5) + i - 1].value = f.bytes[i]
  <2> SUFFICES ASSUME NEW i \in 1 .. fsize, (k + 5) + i - 1 <= n
               PROVE  out[k + 4 + i].kind = "byte" /\ out[k + 4 + i].value = f.bytes[i]
    BY <1>12
  <2>1. k + 4 # Len(out)
    BY <1>2, <1>4, <1>8, <1>11
  <2> QED
    BY <1>6, <2>1, FieldIs
<1> HIDE DEF kinds, bytes
<1>14. /\ (k + 5) + fsize - 1 <= n => /\ Finds(kinds) = "found" /\ fsize <= Len(in)
                                      /\ \A i \in 1 .. fsize : in[i] = out[(k + 5) + i - 1]
       /\ (k + 5) + fsize - 1 > n => Finds(kinds) = "short" /\ (cut \/ (k + 5) + fsize - 1 > Len(out))
  <2> DEFINE l == k + 5
  <2>1. /\ l + fsize - 1 <= n => /\ Finds(kinds) = "found" /\ fsize <= Len(in)
                                 /\ \A i \in 1 .. fsize : in[i] = out[l + i - 1]
        /\ l + fsize - 1 > n => Finds(kinds) = "short" /\ (cut \/ l + fsize - 1 > Len(out))
    <3>1. Left(l, n, torn) /\ \A i \in 1 .. fsize : l + i - 1 <= n => out[l + i - 1].kind = kinds[i]
      BY <1>3, <1>13
    <3> HIDE DEF l
    <3> QED
      BY <1>2, <1>8, <1>10, <3>1, FindsWhatIsLeft
  <2> QED
    BY <2>1
<1>15. CASE (k + 5) + fsize - 1 > n
  <2>1. tarx' = "bad"
    BY <1>9, <1>14, <1>15
  <2>2. cut \/ tarc = "failed"
    <3>1. CASE k + 4 + fsize <= Len(out)
      <4>1. (k + 5) + fsize - 1 <= Len(out)
        BY <1>2, <1>4, <1>8, <3>1
      <4> QED
        BY <1>2, <1>4, <1>8, <1>14, <1>15, <4>1
    <3>2. CASE tarc = "failed"
      BY <3>2
    <3> QED
      BY <1>6, <3>1, <3>2
  <2> QED
    BY <1>1, <2>1, <2>2 DEF Extraction
<1>16. CASE (k + 5) + fsize - 1 <= n
  <2>1. /\ Finds(kinds) = "found" /\ k + 4 + fsize <= Len(out)
        /\ \A i \in 1 .. fsize : in[i].value = f.bytes[i]
    <3>1. k + 4 + fsize <= Len(out)
      BY <1>2, <1>4, <1>8, <1>11, <1>16
    <3>2. \A i \in 1 .. fsize : (k + 5) + i - 1 <= n
      BY <1>4, <1>8, <1>11, <1>16
    <3> QED
      BY <1>13, <1>14, <1>16, <3>1, <3>2
  <2>2. content' = [content EXCEPT ![inode].bytes = bytes] /\ in' = SubSeq(in, fsize + 1, Len(in)) /\ tarx' = "name"
    BY <1>9, <2>1
  <2>3. bytes = f.bytes
    BY <1>7, <2>1 DEF bytes
  <2>4. \A e : e = (k + 5) + fsize => Left(e, n, torn)'
    <3> DEFINE l == k + 5
    <3>1. l \in Nat /\ Left(l, n, torn) /\ l + fsize - 1 <= n
      BY <1>3, <1>4, <1>16
    <3> HIDE DEF l
    <3>2. ASSUME NEW w \in Nat, w = fsize
          PROVE  Left(l + w, n, torn)'
      <4>1. l + w - 1 <= n /\ in' = SubSeq(in, w + 1, Len(in)) /\ out' = out /\ cut' = cut
        BY <1>1, <2>2, <3>1, <3>2
      <4> QED
        BY <1>2, <3>1, <4>1, LeftAfter
    <3> QED
      BY <1>8, <3>2 DEF l
  <2>5. PICK e : e = (k + 5) + fsize
    OBVIOUS
  <2>6. Starts(e) /\ NamedBefore(e) = NamedBefore(k + 1)
    BY <1>5, <1>6, <2>1, <2>5
  <2>7. Made({inode}) /\ DOMAIN made = NamedBefore(k + 1) /\ \A i \in DOMAIN data : IsRestoring(i)
    BY <1>3 DEF ReadUpTo
  <2>8. inode = Ino(p) /\ inode \in DOMAIN data /\ DOMAIN content = DOMAIN data
    <3>1. inode = Ino(p) /\ p \in DOMAIN made
      BY <1>3, <1>5, <2>7 DEF p
    <3> QED
      BY <2>7, <3>1 DEF Made, MadePaths
  <2>9. /\ DOMAIN content' = DOMAIN content /\ content'[inode] = Loaded(content[inode], bytes)
        /\ \A j \in DOMAIN content : j # inode => content'[j] = content[j]
    <3>1. content' = [content EXCEPT ![inode] = Loaded(content[inode], bytes)]
      BY <2>2 DEF Loaded
    <3> QED
      BY <2>8, <3>1
  <2>10. Made({})'
    <3>1. bytes = file[at[p]].bytes
      BY <2>3 DEF f
    <3> QED
      BY <1>1, <1>5, <2>7, <2>8, <2>9, <3>1, LoadedIsMade
  <2>11. ReadUpTo(e, {})' /\ Starts(e)'
    <3>1. data' = data /\ times' = times /\ made' = made
      BY <1>1
    <3>2. UNCHANGED <<diskVars, tarcVars>>
      BY <1>1
    <3>3. (\A l : NamedBefore(l)' = NamedBefore(l)) /\ \A l : Starts(l)' <=> Starts(l)
      BY <3>2, Same
    <3>4. \A i \in DOMAIN data' : IsRestoring(i)'
      BY <2>7, <3>1 DEF IsRestoring
    <3> QED
      BY <2>6, <2>7, <2>10, <3>1, <3>3, <3>4 DEF ReadUpTo
  <2>12. AtName'
    BY <1>1, <1>2, <2>4, <2>5, <2>11, IsAtName
  <2> QED
    BY <1>1, <2>2, <2>12 DEF Extraction
<1> QED
  BY <1>4, <1>8, <1>11, <1>15, <1>16

\* A file gets the time and the mode it had.
WithTime(f, mtime) == [f EXCEPT !.mtime = mtime]
WithMode(f, mode) == [f EXCEPT !.mode = mode]
Restored(f, mtime, mode) == WithMode(WithTime(f, mtime), mode)

\* The mode and the time of the last inode that was read, of those still to be restored: the
\* directories above its name are among those, and can be written.
LEMMA RestoreKeeps ==
    ASSUME Disk, Archive, Traversal, Extraction, Restore
    PROVE  Extraction'
<1> DEFINE i == Last(times)
           m == Len(times)
           name == data[i].name
           f == file[at[name]]
<1>1. /\ tarx = "restoring" /\ times # <<>> /\ tarx' = tarx /\ times' = Front(times)
      /\ UNCHANGED <<diskVars, tarcVars, data, made>> /\ cut' = cut /\ tarc' = tarc
      /\ content' = IF name \in DOMAIN made /\ Reachable(name)
                    THEN [content EXCEPT ![made[name]].mtime = data[i].mtime,
                                         ![made[name]].mode = data[i].mode]
                    ELSE content
  BY DEF Restore, RestoreOne, tarcVars
<1>2. tarc \in {"done", "failed"} /\ Made({}) /\ (~cut => DOMAIN made = Named)
  BY <1>1 DEF Extraction
<1>3. MadePaths /\ ToRestore /\ \A j \in DOMAIN data : MadeFile(j, {})
  BY <1>2 DEF Made
<1>4. /\ times \in Seq(DOMAIN data) /\ m \in Nat /\ m >= 1 /\ DOMAIN times = 1 .. m
      /\ \A s, t \in DOMAIN times : times[s] = times[t] => s = t
      /\ \A t \in DOMAIN times : \A a \in Ancestors(data[times[t]].name) :
            \E s \in DOMAIN times : s < t /\ times[s] = Ino(a)
  <2>1. times \in Seq(DOMAIN data)
    BY <1>3 DEF ToRestore
  <2>2. m \in Nat /\ m # 0 /\ DOMAIN times = 1 .. m
    BY <1>1, <2>1
  <2> QED
    BY <1>3, <2>1, <2>2 DEF ToRestore
<1>5. m \in DOMAIN times /\ i = times[m] /\ i \in DOMAIN data
  BY <1>4 DEF Last
<1>6. /\ times' \in Seq(DOMAIN data') /\ DOMAIN times' = 1 .. m - 1
      /\ \A t \in 1 .. m - 1 : t \in DOMAIN times /\ times'[t] = times[t]
  <2>1. 1 \in 1 .. Len(times) + 1 /\ m - 1 \in 1 - 1 .. Len(times)
    BY <1>4
  <2>2. /\ SubSeq(times, 1, m - 1) \in Seq(DOMAIN data) /\ Len(SubSeq(times, 1, m - 1)) = m - 1 - 1 + 1
        /\ \A t \in 1 .. m - 1 - 1 + 1 : SubSeq(times, 1, m - 1)[t] = times[1 + t - 1]
    BY <1>4, <2>1, PartOf
  <2>3. times' = SubSeq(times, 1, m - 1)
    BY <1>1 DEF Front
  <2>4. m - 1 - 1 + 1 = m - 1 /\ \A t \in 1 .. m - 1 : 1 + t - 1 = t /\ t \in DOMAIN times
    BY <1>4
  <2>5. times' \in Seq(DOMAIN data) /\ Len(times') = m - 1 /\ \A t \in 1 .. m - 1 : times'[t] = times[t]
    BY <2>2, <2>3, <2>4
  <2> QED
    BY <1>1, <2>4, <2>5
<1> HIDE DEF i, m
<1>7. \A t \in 1 .. m : t = m \/ t \in 1 .. m - 1
  BY <1>4
<1>8. \A j : (j = i => ~IsRestoring(j)') /\ (j # i => (IsRestoring(j)' <=> IsRestoring(j)))
  <2>1. ASSUME NEW t \in 1 .. m - 1
        PROVE  times'[t] # i
    <3>1. t # m
      BY <1>4
    <3> QED
      BY <1>4, <1>5, <1>6, <3>1
  <2>2. ASSUME NEW j, j = i
        PROVE  ~IsRestoring(j)'
    BY <1>6, <2>1, <2>2 DEF IsRestoring
  <2>3. ASSUME NEW j, j # i
        PROVE  IsRestoring(j)' <=> IsRestoring(j)
    <3>1. ASSUME IsRestoring(j)
          PROVE  \E t \in DOMAIN times' : times'[t] = j
      <4>1. PICK t \in 1 .. m : times[t] = j
        BY <1>4, <3>1 DEF IsRestoring
      <4>2. t \in 1 .. m - 1
        BY <1>5, <1>7, <2>3, <4>1
      <4> QED
        BY <1>6, <4>1, <4>2
    <3>2. ASSUME NEW t \in DOMAIN times', times'[t] = j
          PROVE  IsRestoring(j)
      BY <1>6, <3>2, SMTT(30) DEF IsRestoring
    <3> QED
      BY <3>1, <3>2 DEF IsRestoring
  <2> QED
    BY <2>2, <2>3
<1>9. /\ name \in DOMAIN made /\ f.ino = i /\ made[name] = i
      /\ data[i].mode = f.mode /\ data[i].mtime = f.mtime
      /\ content[i] = [type |-> IF f.type = "reg" THEN "reg" ELSE "dir",
                       mode |-> content[i].mode, mtime |-> content[i].mtime, bytes |-> f.bytes]
  <2>1. MadeFile(i, {}) /\ i \notin {}
    BY <1>3, <1>5
  <2>2. name \in DOMAIN made /\ f.ino = i
    BY <2>1 DEF MadeFile
  <2> QED
    BY <1>3, <2>1, <2>2, ZenonT(40) DEF MadeFile, MadePaths, Ino
<1>10. Reachable(name)
  <2> SUFFICES ASSUME NEW a \in Ancestors(name)
               PROVE  a \in DOMAIN made /\ content[made[a]].mode = "rwx"
    BY DEF Reachable
  <2>1. a \in DOMAIN made /\ made[a] = Ino(a) /\ Ino(a) \in DOMAIN data
    BY <1>3, <1>9 DEF MadePaths
  <2>2. IsRestoring(Ino(a))
    BY <1>4, <1>5 DEF IsRestoring
  <2> QED
    BY <1>3, <2>1, <2>2 DEF MadeFile
<1>11. DOMAIN content = DOMAIN data
  BY <1>3 DEF MadePaths
<1>12. /\ DOMAIN content' = DOMAIN content
       /\ content'[i] = Restored(content[i], f.mtime, f.mode)
       /\ \A j \in DOMAIN content : j # i => content'[j] = content[j]
  <2>1. content' = [content EXCEPT ![i] = Restored(content[i], f.mtime, f.mode)]
    <3>1. content' = [content EXCEPT ![i].mtime = f.mtime, ![i].mode = f.mode]
      BY <1>1, <1>9, <1>10
    <3> HIDE DEF f
    <3> QED
      BY <1>5, <1>11, <3>1 DEF Restored, WithTime, WithMode
  <2> HIDE DEF f
  <2> QED
    BY <1>5, <1>11, <2>1
<1>13. at' = at /\ file' = file /\ data' = data /\ made' = made
  BY <1>1 DEF diskVars
<1>14. Named' = Named /\ \A q : Ino(q)' = Ino(q)
  BY <1>1, Same
<1>15. MadePaths'
  <2>1. {Ino(q)' : q \in DOMAIN made'} = {Ino(q) : q \in DOMAIN made}
    BY <1>13, <1>14
  <2> QED
    BY <1>3, <1>12, <1>13, <1>14, <2>1 DEF MadePaths
<1>16. ToRestore'
  <2>1. \A s, t \in DOMAIN times' : times'[s] = times'[t] => s = t
    BY <1>4, <1>6
  <2>2. ASSUME NEW t \in DOMAIN times', NEW a \in Ancestors(data'[times'[t]].name)
        PROVE  \E s \in DOMAIN times' : s < t /\ times'[s] = Ino(a)'
    <3>1. t \in 1 .. m - 1 /\ t \in DOMAIN times /\ times'[t] = times[t]
      BY <1>6
    <3>2. PICK s \in DOMAIN times : s < t /\ times[s] = Ino(a)
      BY <1>4, <1>13, <2>2, <3>1
    <3>3. s \in 1 .. m - 1
      BY <1>4, <3>1, <3>2
    <3>4. s \in DOMAIN times' /\ times'[s] = Ino(a)
      BY <1>6, <3>2, <3>3
    <3>5. Ino(a)' = Ino(a)
      BY <1>14
    <3> QED
      BY <3>2, <3>4, <3>5
  <2> QED
    BY <1>6, <2>1, <2>2 DEF ToRestore
<1>17. ASSUME NEW j \in DOMAIN data, j # i
       PROVE  MadeFile(j, {})'
  <2>1. content'[j] = content[j] /\ MadeFile(j, {}) /\ (IsRestoring(j)' <=> IsRestoring(j))
    BY <1>3, <1>8, <1>11, <1>12, <1>17
  <2> QED
    BY <1>13, <2>1 DEF MadeFile
<1>18. ASSUME NEW j, j = i
       PROVE  MadeFile(j, {})'
  <2>1. content'[j] = [type |-> IF f.type = "reg" THEN "reg" ELSE "dir",
                       mode |-> f.mode, mtime |-> f.mtime, bytes |-> f.bytes]
    <3> DEFINE t == IF f.type = "reg" THEN "reg" ELSE "dir"
               mode == content[i].mode
               mtime == content[i].mtime
    <3> HIDE DEF f, t, mode, mtime
    <3>1. content[i] = [type |-> t, mode |-> mode, mtime |-> mtime, bytes |-> f.bytes]
      BY <1>9 DEF t, mode, mtime
    <3>2. content'[i] = [type |-> t, mode |-> f.mode, mtime |-> f.mtime, bytes |-> f.bytes]
      <4>1. WithTime(content[i], f.mtime) = [type |-> t, mode |-> mode, mtime |-> f.mtime, bytes |-> f.bytes]
        BY <3>1 DEF WithTime
      <4>2. WithMode(WithTime(content[i], f.mtime), f.mode)
            = [type |-> t, mode |-> f.mode, mtime |-> f.mtime, bytes |-> f.bytes]
        BY <4>1 DEF WithMode
      <4>3. content'[i] = Restored(content[i], f.mtime, f.mode)
        BY <1>12
      <4> QED
        BY <4>2, <4>3 DEF Restored
    <3> QED
      BY <1>18, <3>2 DEF t
  <2>2. ~IsRestoring(j)'
    BY <1>8, <1>18
  <2> QED
    BY <1>9, <1>13, <1>18, <2>1, <2>2 DEF MadeFile
<1>19. Made({})'
  <2>1. \A j \in DOMAIN data' : MadeFile(j, {})'
    BY <1>13, <1>17, <1>18
  <2> QED
    BY <1>15, <1>16, <2>1 DEF Made
<1> QED
  BY <1>1, <1>2, <1>13, <1>14, <1>19 DEF Extraction

\* tarx returns when nothing is left to restore.
LEMMA TarxReturnsKeeps ==
    ASSUME Disk, Archive, Traversal, Extraction, TarxReturns
    PROVE  Extraction'
<1>1. /\ tarx = "restoring" /\ times = <<>> /\ tarx' = "done"
      /\ UNCHANGED <<diskVars, tarcVars, data, times, made, content>>
      /\ cut' = cut /\ tarc' = tarc /\ times' = times /\ made' = made
  BY DEF TarxReturns, tarcVars
<1>2. tarc \in {"done", "failed"} /\ Made({}) /\ (~cut => DOMAIN made = Named)
  BY <1>1 DEF Extraction
<1>3. Made({})' /\ Named' = Named
  BY <1>1, <1>2, Same, SameMade
<1> QED
  BY <1>1, <1>2, <1>3 DEF Extraction

\* Nothing happens.
LEMMA NothingHappens ==
    ASSUME Disk, Archive, Traversal, Extraction, UNCHANGED vars
    PROVE  Extraction'
<1>1. /\ UNCHANGED <<diskVars, tarcVars, data, times, made, content>>
      /\ tarx' = tarx /\ tarc' = tarc /\ cut' = cut /\ times' = times /\ made' = made /\ data' = data
      /\ content' = content /\ out' = out /\ in' = in /\ fn' = fn /\ inode' = inode /\ fsize' = fsize
      /\ at' = at /\ file' = file
  BY DEF vars, tarcVars, tarxVars, diskVars
<1>2. /\ \A k, n, torn : Left(k, n, torn)' <=> Left(k, n, torn)
      /\ Named' = Named /\ \A p : Ino(p)' = Ino(p)
      /\ \A k : /\ Starts(k)' <=> Starts(k)
                /\ IsName(k)' <=> IsName(k)
                /\ New(k)' <=> New(k)
                /\ HasBytes(k)' <=> HasBytes(k)
      /\ \A k, loading : ReadUpTo(k, loading)' <=> ReadUpTo(k, loading)
      /\ Made({})' <=> Made({})
  <2>1. \A k, n, torn : Left(k, n, torn)' <=> Left(k, n, torn)
    BY <1>1 DEF Left
  <2> QED
    BY <1>1, <2>1, Same, SameMade
<1>3. AtName => AtName'
  BY <1>1, <1>2 DEF AtName
<1>4. AtMetadata => AtMetadata'
  <2> SUFFICES ASSUME AtMetadata
               PROVE  AtMetadata'
    OBVIOUS
  <2>1. PICK n \in 0 .. Len(out) + 1, k \in 0 .. Len(out) + 1, torn \in {0, 1} :
           /\ Left(k + 2, n, torn) /\ IsName(k) /\ New(k) /\ ReadUpTo(k, {})
           /\ fn = out[k].value /\ inode = Ino(fn)
    BY DEF AtMetadata
  <2>2. Left(k + 2, n, torn)' /\ IsName(k)' /\ New(k)' /\ ReadUpTo(k, {})'
    BY <1>2, <2>1
  <2>3. fn' = out'[k].value /\ inode' = Ino(fn)'
    BY <1>1, <2>1 DEF Ino
  <2> QED
    BY <1>1, <2>2, <2>3 DEF AtMetadata
<1>5. AtBytes => AtBytes'
  <2> SUFFICES ASSUME AtBytes
               PROVE  AtBytes'
    OBVIOUS
  <2>1. PICK n \in 0 .. Len(out) + 1, k \in 0 .. Len(out) + 1, torn \in {0, 1} :
           /\ Left(k + 5, n, torn) /\ IsName(k) /\ HasBytes(k) /\ ReadUpTo(k + 1, {inode})
           /\ inode = Ino(out[k].value) /\ fsize = Len(file[at[out[k].value]].bytes)
    BY DEF AtBytes
  <2>2. Left(k + 5, n, torn)' /\ IsName(k)' /\ HasBytes(k)'
    BY <1>2, <2>1
  <2>3. ReadUpTo(k + 1, {inode})'
    <3>1. \A w : w = {inode} => ReadUpTo(k + 1, w)'
      BY <1>2, <2>1
    <3> QED
      BY <1>1, <3>1
  <2>4. inode' = Ino(out[k].value)' /\ fsize' = Len(file[at[out[k].value]].bytes)'
    BY <1>1, <2>1 DEF Ino
  <2> QED
    BY <1>1, <2>2, <2>3, <2>4 DEF AtBytes
<1> QED
  BY <1>1, <1>2, <1>3, <1>4, <1>5 DEF Extraction

\* What is true of every disk is true of the one tarc is run on.
LEMMA TarStarts == Init => TarInv
<1> SUFFICES ASSUME Init
             PROVE  TarInv
  OBVIOUS
<1>1. Disk
  <2>1. PICK disk \in Disks : at = disk.at /\ file = disk.file
    BY DEF Init
  <2>2. /\ DOMAIN at \subseteq Seq(STRING) /\ at \in [DOMAIN at -> DOMAIN file]
        /\ file \in [DOMAIN file -> File]
        /\ <<>> \in DOMAIN at /\ file[at[<<>>]].type # "symlink"
        /\ \A p \in DOMAIN at : \A a \in Ancestors(p) :
              a \in DOMAIN at /\ file[at[a]].type = "dir"
        /\ \A p, q \in DOMAIN at :
              at[p] = at[q] => p = q \/ file[at[p]].type \in {"reg", "symlink"}
        /\ \A f, g \in DOMAIN file : file[f].ino = file[g].ino => f = g
        /\ \A f \in DOMAIN file : file[f].type # "reg" => file[f].bytes = <<>>
    BY <2>1, TarAssumption DEF TarAssumption
  <2> QED
    BY <2>2 DEF Disk, TypeAt
<1>2. out = <<>> /\ inodes = {} /\ tarc = "root" /\ tarx = "waiting"
      /\ made = <<>> /\ data = <<>> /\ content = <<>> /\ times = <<>>
  BY DEF Init
<1>3. Archive
  <2>1. out \in Seq(Fields) /\ DOMAIN out = {} /\ Len(out) = 0
    BY <1>2
  <2>2. Named = {}
    BY <2>1 DEF Named
  <2>3. inodes = {Ino(p) : p \in Named}
    BY <1>2, <2>2
  <2> QED
    BY <2>1, <2>3 DEF Archive, Starts
<1>4. Traversal
  BY <1>2 DEF Traversal, Scanning
<1>5. Extraction
  BY <1>2 DEF Extraction
<1> QED
  BY <1>1, <1>3, <1>4, <1>5 DEF TarInv

\* No step makes the archive or what is made of it wrong, before a file changes in size while
\* it is copied.
LEMMA TarStep == TarInv /\ [Next]_vars => TarInv'
<1> SUFFICES ASSUME TarInv, [Next]_vars
             PROVE  TarInv'
  OBVIOUS
<1>1. CASE resized
  <2>1. resized'
    <3>1. CASE UNCHANGED vars
      BY <1>1, <3>1 DEF vars
    <3>2. CASE Tarc
      BY <1>1, <3>2 DEF Tarc, WriteRoot, OpenDirectory, Scan, ScanRemoved, Copy, CloseDirectory, TarcReturns
    <3>3. ASSUME NEW f \in DOMAIN file, Resize(f) \/ Grow(f)
          PROVE  resized'
      BY <1>1, <3>3 DEF Resize, Grow
    <3>4. CASE (\E p \in entries : RemoveEntry(p)) \/ Transfer
      BY <1>1, <3>4 DEF RemoveEntry, Transfer
    <3>5. CASE Tarx
      BY <1>1, <3>5 DEF Tarx, EndOfArchive, ReadName, ReadMetadata, ReadData, Restore, RestoreOne, TarxReturns
    <3> QED
      BY <3>1, <3>2, <3>3, <3>4, <3>5 DEF Next
  <2> QED
    BY <2>1 DEF TarInv
<1>2. CASE ~resized
  <2>1. Disk /\ Archive /\ Traversal /\ Extraction
    BY <1>2 DEF TarInv
  <2>2. CASE UNCHANGED vars
    <3>1. UNCHANGED <<diskVars, tarcVars>>
      BY <2>2 DEF vars
    <3> QED
      BY <2>1, <2>2, <3>1, NothingHappens, Same DEF TarInv
  <2>3. ASSUME Disk' /\ Archive' /\ Traversal', tarc \notin {"done", "failed"}, UNCHANGED tarxVars
        PROVE  TarInv'
    BY <2>1, <2>3, TarxWaits DEF TarInv
  <2>4. CASE Tarc
    <3>1. CASE WriteRoot
      <4>1. tarc \notin {"done", "failed"} /\ UNCHANGED tarxVars
        BY <3>1 DEF WriteRoot
      <4> QED
        BY <2>1, <2>3, <3>1, <4>1, WriteRootKeeps
    <3>2. CASE OpenDirectory
      <4>1. tarc \notin {"done", "failed"} /\ UNCHANGED tarxVars
        BY <3>2 DEF OpenDirectory
      <4> QED
        BY <2>1, <2>3, <3>2, <4>1, OpenDirectoryKeeps
    <3>3. ASSUME NEW p \in entries, Scan(p)
          PROVE  TarInv'
      <4>1. tarc \notin {"done", "failed"} /\ UNCHANGED tarxVars
        BY <3>3 DEF Scan
      <4> QED
        BY <2>1, <2>3, <3>3, <4>1, ScanKeeps
    <3>4. ASSUME NEW p \in entries, ScanRemoved(p)
          PROVE  TarInv'
      <4>1. tarc \notin {"done", "failed"} /\ UNCHANGED tarxVars
        BY <3>4 DEF ScanRemoved
      <4> QED
        BY <2>1, <2>3, <3>4, <4>1, ScanRemovedKeeps
    <3>5. CASE Copy
      <4>1. tarc \notin {"done", "failed"} /\ UNCHANGED tarxVars
        BY <3>5 DEF Copy
      <4> QED
        BY <2>1, <2>3, <3>5, <4>1, CopyKeeps
    <3>6. CASE CloseDirectory
      <4>1. tarc \notin {"done", "failed"} /\ UNCHANGED tarxVars
        BY <3>6 DEF CloseDirectory
      <4> QED
        BY <2>1, <2>3, <3>6, <4>1, CloseDirectoryKeeps
    <3>7. CASE TarcReturns
      <4>1. tarc \notin {"done", "failed"} /\ UNCHANGED tarxVars
        BY <3>7 DEF TarcReturns
      <4> QED
        BY <2>1, <2>3, <3>7, <4>1, TarcReturnsKeeps
    <3> QED
      BY <2>4, <3>1, <3>2, <3>3, <3>4, <3>5, <3>6, <3>7 DEF Tarc
  <2>5. ASSUME NEW f \in DOMAIN file, Resize(f)
        PROVE  TarInv'
    <3>1. tarc \notin {"done", "failed"} /\ UNCHANGED tarxVars
      BY <2>5 DEF Resize, TarcRuns
    <3>2. CASE resized'
      BY <3>2 DEF TarInv
    <3>3. CASE ~resized'
      BY <2>1, <2>3, <2>5, <3>1, <3>3, ResizeKeeps
    <3> QED
      BY <3>2, <3>3
  <2>6. ASSUME NEW f \in DOMAIN file, Grow(f)
        PROVE  TarInv'
    BY <2>6 DEF Grow, TarInv
  <2>7. ASSUME NEW p \in entries, RemoveEntry(p)
        PROVE  TarInv'
    <3>1. tarc \notin {"done", "failed"} /\ UNCHANGED tarxVars
      BY <2>7 DEF RemoveEntry
    <3> QED
      BY <2>1, <2>3, <2>7, <3>1, RemoveEntryKeeps
  <2>8. ASSUME Extraction', UNCHANGED <<diskVars, tarcVars>>
        PROVE  TarInv'
    BY <2>1, <2>8, Same DEF TarInv
  <2>9. CASE Transfer
    <3>1. UNCHANGED <<diskVars, tarcVars>>
      BY <2>9 DEF Transfer
    <3> QED
      BY <2>1, <2>8, <2>9, <3>1, TransferKeeps
  <2>10. CASE Tarx
    <3>1. UNCHANGED <<diskVars, tarcVars>>
      BY <2>10 DEF Tarx, EndOfArchive, ReadName, ReadMetadata, ReadData, Restore, RestoreOne, TarxReturns
    <3>2. Extraction'
      BY <2>1, <2>10, EndOfArchiveKeeps, ReadNameKeeps, ReadMetadataKeeps, ReadDataKeeps,
         RestoreKeeps, TarxReturnsKeeps DEF Tarx
    <3> QED
      BY <2>8, <3>1, <3>2
  <2> QED
    BY <2>2, <2>4, <2>5, <2>6, <2>7, <2>9, <2>10 DEF Next
<1> QED
  BY <1>1, <1>2

\* Until a file changes in size while tarc copies it, the archive is one of entries, the
\* directories before what is in them, tarx is between two fields of it, and all it has made is
\* right, but for the modes and times it has still to restore.
THEOREM TarInvariant == Spec => []TarInv
<1>1. Init => TarInv
  BY TarStarts
<1>2. TarInv /\ [Next]_vars => TarInv'
  BY TarStep
<1> QED
  BY <1>1, <1>2, PTL DEF Spec

\* tarx takes one field for another only if a file changed in size while it was copied.
THEOREM NothingIsMisread == Spec => []MisreadOnlyIfResized
<1>1. TarInv => MisreadOnlyIfResized
  BY DEF TarInv, Extraction, MisreadOnlyIfResized
<1> QED
  BY <1>1, TarInvariant, PTL

\* All that tarx has made when it returns is right, wherever the archive ends.
THEOREM WhatIsMadeIsRight == Spec => []MadeIsRight
<1>1. TarInv => MadeIsRight
  <2> SUFFICES ASSUME Disk, Archive, Extraction, tarx = "done"
               PROVE  /\ DOMAIN made \subseteq DOMAIN at
                      /\ \A p \in DOMAIN made :
                            LET f == file[at[p]]
                            IN  content[made[p]] = [type |-> IF f.type = "reg" THEN "reg" ELSE "dir",
                                                    mode |-> f.mode, mtime |-> f.mtime, bytes |-> f.bytes]
                      /\ \A p, q \in DOMAIN made : made[p] = made[q] <=> at[p] = at[q]
    BY DEF TarInv, MadeIsRight
  <2>1. MadePaths /\ (\A i \in DOMAIN data : MadeFile(i, {})) /\ times = <<>>
    BY DEF Extraction, Made
  <2>2. \A i : ~IsRestoring(i)
    <3>1. DOMAIN times = {}
      BY <2>1
    <3> QED
      BY <3>1 DEF IsRestoring
  <2>3. \A p \in DOMAIN made : /\ p \in Named /\ p \in DOMAIN at /\ at[p] \in DOMAIN file
                               /\ made[p] = file[at[p]].ino /\ made[p] \in DOMAIN data
    BY <2>1, NamedAre DEF MadePaths, Ino
  <2>4. \A p, q \in DOMAIN made : made[p] = made[q] <=> at[p] = at[q]
    <3> SUFFICES ASSUME NEW p \in DOMAIN made, NEW q \in DOMAIN made
                 PROVE  made[p] = made[q] <=> at[p] = at[q]
      OBVIOUS
    <3>1. \A f, g \in DOMAIN file : file[f].ino = file[g].ino => f = g
      BY DEF Disk
    <3> QED
      BY <2>3, <3>1
  <2>5. ASSUME NEW p \in DOMAIN made
        PROVE  LET f == file[at[p]]
               IN  content[made[p]] = [type |-> IF f.type = "reg" THEN "reg" ELSE "dir",
                                       mode |-> f.mode, mtime |-> f.mtime, bytes |-> f.bytes]
    <3> DEFINE i == made[p]
               q == data[i].name
    <3>1. MadeFile(i, {}) /\ ~IsRestoring(i) /\ i \notin {}
      BY <2>1, <2>2, <2>3
    <3>2. q \in DOMAIN made /\ made[q] = made[p]
      BY <2>3, <3>1 DEF MadeFile
    <3>3. at[q] = at[p]
      BY <2>4, <3>2
    <3> QED
      BY <3>1, <3>3 DEF MadeFile
  <2> QED
    BY <2>3, <2>4, <2>5
<1> QED
  BY <1>1, TarInvariant, PTL

\* An archive that is whole holds the whole tree, and all of it is made again.
THEOREM TreeIsMadeAgain == Spec => []RoundTrip
<1>1. TarInv => RoundTrip
  <2> SUFFICES ASSUME Disk, Archive, Traversal, Extraction, tarc = "done", ~cut
               PROVE  /\ tarx \notin {"bad", "misreading"}
                      /\ tarx = "done" => DOMAIN made = {p \in DOMAIN at : file[at[p]].type # "symlink"}
    BY DEF TarInv, RoundTrip
  <2>1. tarx \notin {"bad", "misreading"} /\ (tarx = "done" => DOMAIN made = Named)
    BY DEF Extraction
  <2>2. ~Scanning /\ stack = <<>> /\ Reached
    BY DEF Traversal, Scanning
  <2>3. \A d : ~Pending(d)
    <3>1. DOMAIN stack = {}
      BY <2>2
    <3> QED
      BY <2>2, <3>1 DEF Pending
  <2>4. \A q \in DOMAIN at : q # <<>> /\ Front(q) \in Named => q \in Named \/ TypeAt(q) = "symlink"
    BY <2>2, <2>3 DEF Reached
  <2>5. \A q \in DOMAIN at : q # <<>> =>
           /\ Front(q) \in DOMAIN at /\ TypeAt(Front(q)) # "symlink"
           /\ Len(Front(q)) \in Nat /\ Len(q) \in Nat /\ Len(Front(q)) < Len(q)
    <3> SUFFICES ASSUME NEW q \in DOMAIN at, q # <<>>
                 PROVE  /\ Front(q) \in DOMAIN at /\ TypeAt(Front(q)) # "symlink"
                        /\ Len(Front(q)) \in Nat /\ Len(q) \in Nat /\ Len(Front(q)) < Len(q)
      OBVIOUS
    <3>1. q \in Seq(STRING)
      BY DEF Disk
    <3>2. Front(q) \in Seq(STRING) /\ Len(Front(q)) = Len(q) - 1 /\ Front(q) \in Ancestors(q)
      BY <3>1, ParentOf
    <3>3. Front(q) \in DOMAIN at /\ TypeAt(Front(q)) = "dir"
      BY <3>2 DEF Disk
    <3> QED
      BY <3>1, <3>2, <3>3
  <2> DEFINE Missing(q) == q \in DOMAIN at /\ TypeAt(q) # "symlink" /\ q \notin Named
             Lengths == {l \in Nat : \E q : Missing(q) /\ Len(q) = l}
  <2>6. \A q : ~Missing(q)
    <3> SUFFICES ASSUME NEW q, Missing(q)
                 PROVE  FALSE
      OBVIOUS
    <3>1. \A r : Missing(r) => r # <<>> /\ Len(r) \in Nat
      BY <2>2, <2>5 DEF Reached
    <3>2. Lengths \subseteq Nat /\ Len(q) \in Lengths
      BY <3>1
    <3> HIDE DEF Lengths
    <3>3. PICK l \in Lengths : \A m \in Lengths : l <= m
      BY <3>2, LeastNumber
    <3>4. PICK r : Missing(r) /\ Len(r) = l
      BY <3>3 DEF Lengths
    <3>5. Missing(Front(r)) /\ Len(Front(r)) \in Nat
      BY <2>4, <2>5, <3>1, <3>4
    <3>6. Len(Front(r)) \in Lengths
      BY <3>5 DEF Lengths
    <3> QED
      BY <2>5, <3>1, <3>3, <3>4, <3>6
  <2>7. Named = {p \in DOMAIN at : file[at[p]].type # "symlink"}
    BY <2>6, NamedAre DEF TypeAt
  <2> QED
    BY <2>1, <2>7
<1> QED
  BY <1>1, TarInvariant, PTL
===============================================================================
