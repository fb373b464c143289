------------------------------ MODULE Programs ------------------------------
(* The programs that only compute, cache_sim.c, famtree.c, chain_heal.c and  *)
(* huff_dec.c, and what is to be shown of them.  They do not interact.       *)
EXTENDS Integers, Sequences

CONSTANTS Geometries, Addresses, MaxAccesses,  \* of CacheSim
          People, MaxLines,                    \* of Famtree
          Teams,                               \* of ChainHeal
          Codewords, MaxCodes, FileSizes, StatedBits  \* of Huffman

VARIABLES program,              \* the program that runs
          args, cache, hits, misses, trace,
          phase, lines, known, sex, father, mother, children, currPerson,
          visiting, visited, toVisit, calls, printed, error,
          team, started, marked, prev, heal, best_heal, best_path, healing, dfs,
          stage, fileSize, stated, codes, nodes, strings, message, curr, output

C == INSTANCE CacheSim
F == INSTANCE Famtree
G == INSTANCE ChainHeal
H == INSTANCE Huffman

ProgramsAssumption ==
    C!CacheSimAssumption /\ F!FamtreeAssumption /\ G!ChainHealAssumption /\ H!HuffmanAssumption
ASSUME ProgramsAssumption

-----------------------------------------------------------------------------
(* The properties of each program, while it is the one that runs *)

\* cache_sim.c replaces the line used longest ago.
HitsByStackDistance == program = "cache_sim" => C!HitsByStackDistance

\* cache_sim.c: the line accessed and the one prefetched have one block each.
LinesAreThereOnce == program = "cache_sim" => C!LinesAreThereOnce

\* famtree.c: the two directions of each link agree.
LinksAgree == program = "famtree" => F!LinksAgree

\* famtree.c: everybody is printed after their parents, or there is a cycle.
PrintedAfterParents == program = "famtree" => F!PrintedAfterParents

\* chain_heal.c: the path that heals most is found and copied.
BestIsMax == program = "chain_heal" => G!BestIsMax

\* huff_dec.c: bits are cut into codewords the only way it can be done, as far as it gets.
DecodesLeafCodes == program = "huff_dec" => H!DecodesLeafCodes
=============================================================================
