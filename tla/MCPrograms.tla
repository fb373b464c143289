----------------------------- MODULE MCPrograms -----------------------------
(* One run for the programs that do not interact, tarc with its tarx being   *)
(* one of them: the initial state says which of them runs, and the variables *)
(* of the others keep their first values.                                    *)
EXTENDS Programs, MCTar

MCGeometries == [sets : {1, 2}, blocks : {1, 2, 3}, size : {2}, prefetch : BOOLEAN]
MCAddresses == {0, 1, 2, 4, 6, 8}
MCPeople == 1 .. 3
MCCodewords == {<<0>>, <<1>>, <<0, 0>>, <<0, 1>>, <<1, 0>>, <<1, 1>>, <<1, 1, 0>>, <<1, 1, 1>>}

\* Players in a square, in a row, and scattered; the order in the array is that of the nodes.
Places == {<< <<0, 0>>, <<1, 0>>, <<0, 1>>, <<1, 1>> >>,
           << <<1, 0>>, <<3, 0>>, <<0, 0>>, <<2, 0>> >>,
           << <<0, 0>>, <<2, 0>>, <<1, 1>>, <<3, 3>> >>}

MCTeams == [at : Places, need : {<<a, b, c, d>> : a, b, c \in {0, 1, 3}, d \in {2, 9}}, urgosa : {1},
            initial_range : {0, 1, 2}, jump_range : {1, 2}, num_jumps : {0, 1, 2, 4},
            initial_power : {3, 5}, reduction : {1, 2}]

CacheSimIdle == args = 0 /\ cache = 0 /\ hits = 0 /\ misses = 0 /\ trace = 0

FamtreeIdle ==
    /\ phase = 0 /\ lines = 0 /\ known = 0 /\ sex = 0 /\ father = 0 /\ mother = 0 /\ children = 0
    /\ currPerson = 0 /\ visiting = 0 /\ visited = 0 /\ toVisit = 0 /\ calls = 0 /\ printed = 0
    /\ error = 0

ChainHealIdle ==
    /\ team = 0 /\ started = 0 /\ marked = 0 /\ prev = 0 /\ heal = 0
    /\ best_heal = 0 /\ best_path = 0 /\ healing = 0 /\ dfs = 0

HuffmanIdle ==
    /\ stage = 0 /\ fileSize = 0 /\ stated = 0 /\ codes = 0 /\ nodes = 0 /\ strings = 0
    /\ message = 0 /\ curr = 0 /\ output = 0

TarIdle ==
    /\ at = 0 /\ file = 0 /\ super = 0 /\ tarc = "idle" /\ dir = 0 /\ entries = 0 /\ directories = 0
    /\ stack = 0 /\ inodes = 0 /\ buf = 0 /\ out = 0 /\ tarx = "idle" /\ in = 0 /\ fn = 0 /\ inode = 0
    /\ fsize = 0 /\ data = 0 /\ times = 0 /\ made = 0 /\ content = 0 /\ resized = 0 /\ cut = 0

OneProgramInit ==
    \/ /\ program = "cache_sim"
       /\ C!Init /\ FamtreeIdle /\ ChainHealIdle /\ HuffmanIdle /\ TarIdle
    \/ /\ program = "famtree"
       /\ CacheSimIdle /\ F!Init /\ ChainHealIdle /\ HuffmanIdle /\ TarIdle
    \/ /\ program = "chain_heal"
       /\ CacheSimIdle /\ FamtreeIdle /\ G!Init /\ HuffmanIdle /\ TarIdle
    \/ /\ program = "huff_dec"
       /\ CacheSimIdle /\ FamtreeIdle /\ ChainHealIdle /\ H!Init /\ TarIdle
    \/ /\ program = "tarc"
       /\ CacheSimIdle /\ FamtreeIdle /\ ChainHealIdle /\ HuffmanIdle /\ Init

cacheVars == <<args, cache, hits, misses, trace>>
famVars == <<phase, lines, known, sex, father, mother, children, currPerson,
             visiting, visited, toVisit, calls, printed, error>>
healVars == <<team, started, marked, prev, heal, best_heal, best_path, healing, dfs>>
huffVars == <<stage, fileSize, stated, codes, nodes, strings, message, curr, output>>
allVars == <<program, cacheVars, famVars, healVars, huffVars, vars>>

OneProgramNext ==
    \/ program = "cache_sim" /\ C!Next /\ UNCHANGED <<program, famVars, healVars, huffVars, vars>>
    \/ program = "famtree" /\ F!Next /\ UNCHANGED <<program, cacheVars, healVars, huffVars, vars>>
    \/ program = "chain_heal" /\ G!Next /\ UNCHANGED <<program, cacheVars, famVars, huffVars, vars>>
    \/ program = "huff_dec" /\ H!Next /\ UNCHANGED <<program, cacheVars, famVars, healVars, vars>>
    \/ program = "tarc" /\ Next /\ UNCHANGED <<program, cacheVars, famVars, healVars, huffVars>>

OneProgramSpec == OneProgramInit /\ [][OneProgramNext]_allVars
=============================================================================
