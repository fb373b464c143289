------------------------------ MODULE Famtree -------------------------------
(* Lab-2-Famtree/src/famtree.c: reads who is whose parent, line by line,     *)
(* looks for cycles, and prints everybody after their parents.               *)
EXTENDS Integers, SequencesExt

CONSTANTS People,       \* numbers, in the order of the names
          MaxLines      \* bound: the lines of the input

None == 0
FamtreeAssumption == People \subseteq Nat \ {None}

VARIABLES phase,        \* where main() is: "reading", "checking", "printing", "done"
          lines,        \* how many lines were read
          known,        \* the people in the tree
          sex, father, mother, children,
          currPerson,
          visiting,     \* the people cycle_check() is at
          visited,      \* those it is done with
          toVisit,      \* what is left of the traversal of the tree
          calls,        \* the calls of cycle_check() or print() that have not returned
          printed,      \* the people printed, in order
          error         \* the error the program has exited with

treeVars == <<known, sex, father, mother, children, currPerson>>
famVars == <<phase, lines, known, sex, father, mother, children, currPerson,
             visiting, visited, toVisit, calls, printed, error>>

Init ==
    /\ phase = "reading" /\ lines = 0
    /\ known = {}
    /\ sex = [p \in People |-> "Unknown"]
    /\ father = [p \in People |-> None] /\ mother = [p \in People |-> None]
    /\ children = [p \in People |-> <<>>]
    /\ currPerson = None
    /\ visiting = {} /\ visited = {} /\ toVisit = {} /\ calls = <<>> /\ printed = <<>>
    /\ error = "none"

-----------------------------------------------------------------------------
(* Lines *)

\* The program has printed an error and called exit(1).
Exits(e) == error' = e /\ phase' = "done"

\* sex_check().
SexCheck(p, s) ==
    IF sex[p] \in {"Unknown", s}
    THEN sex' = [sex EXCEPT ![p] = s] /\ UNCHANGED <<error, phase>>
    ELSE Exits("sex mismatch") /\ UNCHANGED sex

\* Mutant: the child is only entered under a parent it did not have.
ChildOnceMore(child, parent) == [children EXCEPT ![parent] = Append(@, child)]

\* The end of connection_check(): the child is entered under the parent, once.
WithChild(child, parent) ==
    IF child \in ToSet(children[parent]) THEN children
    ELSE [children EXCEPT ![parent] = Append(@, child)]

\* connection_check() with a father, then sex_check().
ConnectFather(child, parent) ==
    IF father[child] \notin {None, parent}
    THEN Exits("child with two fathers") /\ UNCHANGED <<father, children, sex>>
    ELSE /\ father' = [father EXCEPT ![child] = parent]
         /\ children' = WithChild(child, parent)
         /\ SexCheck(parent, "Male")

ConnectMother(child, parent) ==
    IF mother[child] \notin {None, parent}
    THEN Exits("child with two mothers") /\ UNCHANGED <<mother, children, sex>>
    ELSE /\ mother' = [mother EXCEPT ![child] = parent]
         /\ children' = WithChild(child, parent)
         /\ SexCheck(parent, "Female")

\* A line, and name_check() of the name p on it.
Reads(p) ==
    /\ phase = "reading" /\ lines < MaxLines
    /\ lines' = lines + 1
    /\ known' = known \cup {p}
    /\ UNCHANGED <<visiting, visited, toVisit, calls, printed>>

PersonLine(p) ==
    /\ Reads(p)
    /\ currPerson' = p
    /\ UNCHANGED <<phase, sex, father, mother, children, error>>

\* Lines about the current person; the inputs have a PERSON line before them.
Relative(p) == currPerson # None /\ Reads(p) /\ UNCHANGED currPerson

FatherLine(p) == Relative(p) /\ ConnectFather(currPerson, p) /\ UNCHANGED mother
MotherLine(p) == Relative(p) /\ ConnectMother(currPerson, p) /\ UNCHANGED father
FatherOfLine(p) == Relative(p) /\ ConnectFather(p, currPerson) /\ UNCHANGED mother
MotherOfLine(p) == Relative(p) /\ ConnectMother(p, currPerson) /\ UNCHANGED father

SexLine(s) ==
    /\ Relative(currPerson)
    /\ SexCheck(currPerson, s)
    /\ UNCHANGED <<father, mother, children>>

EndOfInput ==
    /\ phase = "reading"
    /\ phase' = "checking"
    /\ toVisit' = known
    /\ UNCHANGED <<lines, treeVars, visiting, visited, calls, printed, error>>

-----------------------------------------------------------------------------
(* Calls of cycle_check() and print(), which call themselves *)

\* A call about a person, and what it does next.
Call(p) == [person |-> p, next |-> 1]

Caller == Last(calls).person

\* The calls once the last one is a step further.
GoneOn == [calls EXCEPT ![Len(calls)].next = @ + 1]

Lowest(S) == CHOOSE p \in S : \A q \in S : p <= q

\* The beginning of cycle_check(p), called with these calls below it.
CycleCheck(p, below) ==
    IF p \in visiting
    THEN Exits("cycle") /\ calls' = below /\ UNCHANGED visiting
    ELSE /\ IF p \in visited
            THEN calls' = below /\ UNCHANGED visiting
            ELSE calls' = Append(below, Call(p)) /\ visiting' = visiting \cup {p}
         /\ UNCHANGED <<error, phase>>

\* One round of the first traversal of the tree.
CheckPerson ==
    /\ phase = "checking" /\ calls = <<>> /\ toVisit # {}
    /\ CycleCheck(Lowest(toVisit), <<>>)
    /\ toVisit' = toVisit \ {Lowest(toVisit)}
    /\ UNCHANGED <<lines, treeVars, visited, printed>>

\* cycle_check(): a round of the loop over the children, and the end.
CheckChild ==
    /\ phase = "checking" /\ calls # <<>>
    /\ Last(calls).next <= Len(children[Caller])
    /\ CycleCheck(children[Caller][Last(calls).next], GoneOn)
    /\ UNCHANGED <<lines, treeVars, visited, toVisit, printed>>

PersonChecked ==
    /\ phase = "checking" /\ calls # <<>>
    /\ Last(calls).next > Len(children[Caller])
    /\ visited' = visited \cup {Caller} /\ visiting' = visiting \ {Caller}
    /\ calls' = Front(calls)
    /\ UNCHANGED <<phase, lines, treeVars, toVisit, printed, error>>

NoCycle ==
    /\ phase = "checking" /\ calls = <<>> /\ toVisit = {}
    /\ phase' = "printing"
    /\ toVisit' = known
    /\ UNCHANGED <<lines, treeVars, visiting, visited, calls, printed, error>>

\* Mutant: only the father is printed first.
FatherOf(p) == <<father[p]>>

\* Who is printed before p, in this order.
ParentsOf(p) == <<father[p], mother[p]>>

\* The beginning of print(p), called with these calls below it.
PrintPerson(p, below) ==
    calls' = IF p = None \/ p \in ToSet(printed) THEN below ELSE Append(below, Call(p))

\* One round of the second traversal.
PrintRound ==
    /\ phase = "printing" /\ calls = <<>> /\ toVisit # {}
    /\ PrintPerson(Lowest(toVisit), <<>>)
    /\ toVisit' = toVisit \ {Lowest(toVisit)}
    /\ UNCHANGED <<phase, lines, treeVars, visiting, visited, printed, error>>

\* print(): a parent if there is one that is not printed, and the person.
PrintParent ==
    /\ phase = "printing" /\ calls # <<>>
    /\ Last(calls).next <= Len(ParentsOf(Caller))
    /\ PrintPerson(ParentsOf(Caller)[Last(calls).next], GoneOn)
    /\ UNCHANGED <<phase, lines, treeVars, visiting, visited, toVisit, printed, error>>

PersonPrinted ==
    /\ phase = "printing" /\ calls # <<>>
    /\ Last(calls).next > Len(ParentsOf(Caller))
    /\ printed' = Append(printed, Caller)
    /\ calls' = Front(calls)
    /\ UNCHANGED <<phase, lines, treeVars, visiting, visited, toVisit, error>>

Returns ==
    /\ phase = "printing" /\ calls = <<>> /\ toVisit = {}
    /\ phase' = "done"
    /\ UNCHANGED <<lines, treeVars, visiting, visited, toVisit, calls, printed, error>>

Next ==
    \/ \E p \in People : \/ PersonLine(p)
                         \/ FatherLine(p) \/ MotherLine(p)
                         \/ FatherOfLine(p) \/ MotherOfLine(p)
    \/ \E s \in {"Male", "Female"} : SexLine(s)
    \/ EndOfInput
    \/ CheckPerson \/ CheckChild \/ PersonChecked \/ NoCycle
    \/ PrintRound \/ PrintParent \/ PersonPrinted \/ Returns
    \/ phase = "done" /\ UNCHANGED famVars

Spec == Init /\ [][Next]_famVars

-----------------------------------------------------------------------------
(* Properties *)

IsParent(p, c) == p \in {father[c], mother[c]}

\* The links of parents and children, which are stored twice and set by four kinds of lines,
\* agree: cycles are looked for along the one and people printed along the other.  Fathers
\* are male and mothers female, so that nobody is both.
LinksAgree ==
    error = "none" =>
        /\ \A p, c \in People : c \in ToSet(children[p]) <=> IsParent(p, c)
        /\ \A p \in People : IsInjective(children[p])
        /\ \A c \in People : /\ father[c] # None => sex[father[c]] = "Male"
                             /\ mother[c] # None => sex[mother[c]] = "Female"

\* People among whom everybody has a child: there is a cycle of parents.
Cyclic == \E S \in (SUBSET known) \ {{}} : \A p \in S : \E c \in S : IsParent(p, c)

\* The program says that there is a cycle if there is one, and otherwise prints everybody once,
\* after their parents.
PrintedAfterParents ==
    /\ error = "cycle" => Cyclic
    /\ phase = "printing" => ~Cyclic
    /\ phase = "done" /\ error = "none" =>
         /\ ToSet(printed) = known /\ IsInjective(printed)
         /\ \A i, j \in DOMAIN printed : IsParent(printed[i], printed[j]) => i < j
=============================================================================
