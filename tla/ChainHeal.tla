----------------------------- MODULE ChainHeal ------------------------------
(* Lab-1-Chain-Heal/chain_heal.c: the depth-first search for the path of     *)
(* jumps that heals most.                                                    *)
EXTENDS Integers, SequencesExt

CONSTANT Teams          \* the players and the arguments, as records:
                        \*   at           by node, its <<x, y>>
                        \*   need         by node, max_PP - cur_PP
                        \*   urgosa       the node of Urgosa_the_Healing_Shaman
                        \*   initial_range, jump_range, num_jumps, initial_power
                        \*   reduction    power_reduction, in quarters

ChainHealAssumption ==
    \A t \in Teams : /\ t.at \in Seq(Int \X Int) /\ t.need \in [DOMAIN t.at -> Int] /\ t.urgosa \in DOMAIN t.at
                     /\ {t.initial_range, t.jump_range, t.num_jumps, t.initial_power, t.reduction} \subseteq Int

VARIABLES team,         \* the input of this run
          started,      \* the nodes main() has been through, as first of a path
          marked,       \* the nodes whose field visited is 1
          prev, heal,   \* these fields of the nodes
          best_heal, best_path, healing,  \* struct global
          dfs           \* the calls of DFS() that have not returned: node, the last neighbour
                        \* tried, and the locals total_heal and cur_power after this node

healVars == <<team, started, marked, prev, heal, best_heal, best_path, healing, dfs>>

Nodes == DOMAIN team.at
NoNode == 0

WithinRange(m, n, range) ==
    LET x == team.at[m][1] - team.at[n][1]
        y == team.at[m][2] - team.at[n][2]
    IN  x * x + y * y <= range * range

\* The adjacency list of a node, which is in the order of the nodes.
Adj(n) == {m \in Nodes \ {n} : WithinRange(n, m, team.jump_range)}

\* A power is num / den: the doubles of the code are exact for reductions in quarters.
\* rint() rounds to the nearest integer, and from the middle to the even one.
Rint(power) ==
    LET down == power.num \div power.den
        rest == 2 * (power.num % power.den)
    IN  IF rest > power.den \/ (rest = power.den /\ down % 2 = 1) THEN down + 1 ELSE down

InitialPower == [num |-> team.initial_power, den |-> 1]
Reduced(power) == [num |-> power.num * (4 - team.reduction), den |-> power.den * 4]

Heal(n, power) == IF Rint(power) > team.need[n] THEN team.need[n] ELSE Rint(power)

\* The path that ends in node n, backwards along the prev pointers; the array for it has num_jumps
\* places.
Backwards(n, links) ==
    CHOOSE p \in SeqOf(Nodes, team.num_jumps) :
        /\ p # <<>> /\ p[1] = n
        /\ \A i \in DOMAIN p : links[p[i]] = IF i = Len(p) THEN NoNode ELSE p[i + 1]

\* A path with a greater total than any before is copied.
Record(n, total, links, heals) ==
    IF total > best_heal
    THEN LET path == Backwards(n, links)
         IN  /\ best_heal' = total /\ best_path' = path
             /\ healing' = [i \in DOMAIN path |-> heals[path[i]]]
    ELSE UNCHANGED <<best_heal, best_path, healing>>

\* The beginning of DFS(n, hop_num, g, total, power, from), which hop_num - 1 calls are below.
Call(n, below, total, power, from) ==
    LET sum == total + Heal(n, power)
        links == [prev EXCEPT ![n] = from]
        heals == [heal EXCEPT ![n] = Heal(n, power)]
    IN  IF n \in marked \/ Len(below) + 1 > team.num_jumps
        THEN dfs' = below /\ UNCHANGED <<marked, prev, heal, best_heal, best_path, healing>>
        ELSE /\ marked' = marked \cup {n} /\ prev' = links /\ heal' = heals
             /\ Record(n, sum, links, heals)
             /\ dfs' = Append(below, [node |-> n, tried |-> NoNode, total |-> sum, power |-> Reduced(power)])

Init ==
    /\ team \in Teams
    /\ started = 0
    /\ marked = {} /\ heal = [n \in Nodes |-> 0]
    /\ prev = [n \in Nodes |-> IF n = Len(team.at) THEN NoNode ELSE n + 1]  \* the list the nodes were read to
    /\ best_heal = 0 /\ best_path = <<>> /\ healing = <<>>
    /\ dfs = <<>>

\* A round of the loop of main().
StartFrom ==
    LET n == started + 1
    IN  /\ dfs = <<>> /\ n \in Nodes
        /\ started' = n
        /\ IF WithinRange(team.urgosa, n, team.initial_range)
           THEN Call(n, <<>>, 0, InitialPower, NoNode)
           ELSE UNCHANGED <<marked, prev, heal, best_heal, best_path, healing, dfs>>
        /\ UNCHANGED team

\* The neighbours a call has still to go to.
ToTry(call) == {m \in Adj(call.node) : m > call.tried}
Lowest(S) == CHOOSE m \in S : \A k \in S : m <= k

\* A turn of the loop of DFS().
GoOn ==
    LET call == Last(dfs)
        m == Lowest(ToTry(call))
    IN  /\ dfs # <<>> /\ ToTry(call) # {}
        /\ Call(m, [dfs EXCEPT ![Len(dfs)].tried = m], call.total, call.power, call.node)
        /\ UNCHANGED <<team, started>>

\* Mutant: a node once visited stays so.
StaysVisited(n) == marked

Leave(n) == marked \ {n}

Return ==
    /\ dfs # <<>> /\ ToTry(Last(dfs)) = {}
    /\ marked' = Leave(Last(dfs).node)
    /\ dfs' = Front(dfs)
    /\ UNCHANGED <<team, started, prev, heal, best_heal, best_path, healing>>

Next ==
    \/ StartFrom \/ GoOn \/ Return
    \/ dfs = <<>> /\ started = Len(team.at) /\ UNCHANGED healVars

Spec == Init /\ [][Next]_healVars

-----------------------------------------------------------------------------
(* The paths there are *)

\* The paths of at most num_jumps nodes, none of them twice, from those tried so far.
Paths == {p \in SeqOf(Nodes, team.num_jumps) :
            /\ p # <<>> /\ p[1] <= started /\ WithinRange(team.urgosa, p[1], team.initial_range)
            /\ IsInjective(p)
            /\ \A k \in 1 .. Len(p) - 1 : WithinRange(p[k], p[k + 1], team.jump_range)}

\* What happens at each node of a path: with what power it is healed, and how much there is by then.
Hop(n, power, before) == [power |-> power, heal |-> Heal(n, power), total |-> before + Heal(n, power)]
Hops(path) ==
    LET hop[k \in DOMAIN path] == IF k = 1 THEN Hop(path[1], InitialPower, 0)
                                  ELSE Hop(path[k], Reduced(hop[k - 1].power), hop[k - 1].total)
    IN  hop

Total(path) == Hops(path)[Len(path)].total

\* The search, which shares the visited marks, the prev pointers and the heals of the nodes
\* between all its calls, has found a path that heals most when it is back in main(), and what it has
\* copied, backwards, is such a path with what each node on it is healed by.
BestIsMax ==
    /\ dfs = <<>> => \A p \in Paths : Total(p) <= best_heal
    /\ best_heal > 0 =>
         LET path == Reverse(best_path)
         IN  /\ path \in Paths /\ Total(path) = best_heal
             /\ healing = [i \in DOMAIN best_path |-> Hops(path)[Len(path) + 1 - i].heal]
=============================================================================
