------------------------------ MODULE CacheSim ------------------------------
(* cosc356/Lab2/cache_sim.c: a cache of sets of blocks, with the block used  *)
(* longest ago replaced, and with the next line prefetched if asked for.     *)
EXTENDS Integers, FiniteSetsExt, SequencesExt

CONSTANTS Geometries,   \* --sets, --blocks, --size and --prefetch
          Addresses,    \* the addresses of a trace
          MaxAccesses   \* bound: the lines of a trace

\* What main() lets through of its arguments; an address is an unsigned number.
CacheSimAssumption ==
    /\ Geometries \subseteq [sets : Nat \ {0}, blocks : Nat \ {0}, size : Nat \ {0}, prefetch : BOOLEAN]
    /\ Addresses \subseteq Nat /\ MaxAccesses \in Nat

VARIABLES args,         \* the arguments of this run
          cache,        \* by block index: tag, date and valid
          hits, misses,
          trace         \* the addresses read so far; as many as mem_acc says

cacheVars == <<args, cache, hits, misses, trace>>

Block == [tag : Nat, date : Nat, valid : BOOLEAN]

SetOf(address) == (address \div args.size) % args.sets
TagOf(address) == address \div (args.size * args.sets)

BlocksOf(set) == {set * args.blocks + i : i \in 0 .. args.blocks - 1}

\* The blocks of a set that have a tag.
Holding(c, set, tag) == {b \in BlocksOf(set) : c[b].valid /\ c[b].tag = tag}

\* Mutant: the block replaced is the one used last.
NewestVictim(c, set) ==
    LET empty == {b \in BlocksOf(set) : ~c[b].valid}
        newest == Max({c[b].date : b \in BlocksOf(set)})
    IN  IF empty # {} THEN Min(empty) ELSE Min({b \in BlocksOf(set) : c[b].date = newest})

\* new_index: the first empty block of a set, or else the first of those with the
\* oldest date.
Victim(c, set) ==
    LET empty == {b \in BlocksOf(set) : ~c[b].valid}
        oldest == Min({c[b].date : b \in BlocksOf(set)})
    IN  IF empty # {} THEN Min(empty) ELSE Min({b \in BlocksOf(set) : c[b].date = oldest})

\* The cache once the line of an address has a block, of this date.
Filled(c, address, date) ==
    [c EXCEPT ![Victim(c, SetOf(address))] = [tag |-> TagOf(address), date |-> date, valid |-> TRUE]]

Hit(c, address) == Holding(c, SetOf(address), TagOf(address)) # {}

\* The access itself: the date of a hit, or a new block.
Accessed(c, address, date) ==
    IF Hit(c, address)
    THEN [c EXCEPT ![Min(Holding(c, SetOf(address), TagOf(address)))].date = date]
    ELSE Filled(c, address, date)

\* Mutant: the line of the address itself is prefetched.
PrefetchedSame(c, address, date) == IF Hit(c, address) THEN c ELSE Filled(c, address, date)

\* The next line, if it is not there; its date is that of the access.
Prefetched(c, address, date) ==
    LET next == address + args.size
    IN  IF Hit(c, next) THEN c ELSE Filled(c, next, date)

Init ==
    /\ args \in Geometries
    /\ cache = [b \in 0 .. args.sets * args.blocks - 1 |-> [tag |-> 0, date |-> 0, valid |-> FALSE]]
    /\ hits = 0 /\ misses = 0
    /\ trace = <<>>

\* One line of the trace.
Access(address) ==
    LET date == Len(trace) + 1
        c == Accessed(cache, address, date)
    IN  /\ Len(trace) < MaxAccesses
        /\ trace' = Append(trace, address)
        /\ IF Hit(cache, address) THEN hits' = hits + 1 /\ UNCHANGED misses
                                  ELSE misses' = misses + 1 /\ UNCHANGED hits
        /\ cache' = IF args.prefetch THEN Prefetched(c, address, date) ELSE c
        /\ UNCHANGED args

Next ==
    \/ \E address \in Addresses : Access(address)
    \/ Len(trace) = MaxAccesses /\ UNCHANGED cacheVars

Spec == Init /\ [][Next]_cacheVars

-----------------------------------------------------------------------------
(* What a cache should do, without blocks and dates *)

LineOf(address) == address \div args.size

\* The lines of the set of the k-th access that were accessed since the line of the
\* k-th access was, itself included; {} if it never was.
LinesSince(k) ==
    LET before == {j \in 1 .. k - 1 : LineOf(trace[j]) = LineOf(trace[k])}
    IN  IF before = {} THEN {}
        ELSE {LineOf(trace[j]) : j \in {j \in Max(before) .. k - 1 : SetOf(trace[j]) = SetOf(trace[k])}}

\* The replacement is least recently used: without prefetch, an access is a hit if and only
\* if, since the last access to its line, fewer other lines of its set were accessed than a
\* set has blocks.
HitsByStackDistance ==
    /\ hits + misses = Len(trace)
    /\ ~args.prefetch =>
         hits = Cardinality({k \in DOMAIN trace : Cardinality(LinesSince(k)) \in 1 .. args.blocks})

\* After an access its line is in the cache, and with prefetch the next one is too: one never
\* takes the place of the other, unless the cache is one single block.  No line has two
\* blocks.
LinesAreThereOnce ==
    LET Blocks(address) == Cardinality(Holding(cache, SetOf(address), TagOf(address)))
    IN  /\ \A address \in Addresses : Blocks(address) <= 1
        /\ trace # <<>> /\ Cardinality(DOMAIN cache) > 1 =>
             /\ Blocks(Last(trace)) = 1
             /\ args.prefetch => Blocks(Last(trace) + args.size) = 1
=============================================================================
