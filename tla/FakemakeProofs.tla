--------------------------- MODULE FakemakeProofs ---------------------------
(***************************************************************************)
(* Proofs about Fakemake.tla, for any files, description files and edits:   *)
(* after a run that ends well everything is made from what is there, and    *)
(* nothing is made twice.                                                   *)
(***************************************************************************)
EXTENDS Fakemake, TLAPS

-----------------------------------------------------------------------------
(* The inductive invariant *)

\* Each file of the directory is there or absent.
Directory == DOMAIN src = Sources /\ DOMAIN obj = CFiles

\* The compiler was started in a second that has come, and what it has read
\* is what an object can be made of.
GccOk ==
    /\ pc \in {"compile", "link"} => gcc.mtime \in 1 .. now
    /\ pc = "compiling" => gcc.began \in 1 .. now /\ gcc.from \in Contents(cs[i])

\* What was made since the second began from these edits of the sources c is
\* made from: a source that differs has been changed since.
MadeFrom(c, from, began) ==
    \A s \in Reads(c) : Exists(src[s]) /\ from[s] # src[s].edit => began <= src[s].mtime

CompiledFrom ==
    /\ \A c \in CFiles : Exists(obj[c]) => MadeFrom(c, obj[c].from, obj[c].began)
    /\ pc = "compiling" => MadeFrom(cs[i], gcc.from, gcc.began)

LinkedFrom ==
    Exists(exe) =>
        \A c \in CFiles : c \in DOMAIN exe.from /\ Exists(obj[c]) /\ exe.from[c] # obj[c].from =>
            exe.began <= obj[c].mtime

\* The headers, and the sources, this run has seen and nobody has changed.
HeadersSeen ==
    IF pc = "headers" THEN 1 .. i - 1
    ELSE IF pc # "idle" \/ EndedWell THEN DOMAIN hs ELSE {}

SourceSeen == pc \in {"object", "compile", "compiling", "compiled"}

TimesSeen ==
    /\ \A j \in HeadersSeen : hs[j] \notin changed =>
          Exists(src[hs[j]]) /\ src[hs[j]].mtime <= maxH
    /\ SourceSeen /\ cs[i] \notin changed => Exists(src[cs[i]]) /\ src[cs[i]].mtime <= cTime

\* The objects this run has made or found up to date.
Done ==
    IF pc \in {"executable", "link"} \/ EndedWell THEN DOMAIN cs
    ELSE IF pc = "compiled" THEN 1 .. i
    ELSE IF pc \in {"sources", "object", "compile", "compiling"} THEN 1 .. i - 1
    ELSE {}

\* Nothing it is made of that nobody has changed is newer.
Fresh(c) ==
    Obj(c) \notin changed =>
        /\ Exists(obj[c])
        /\ \A s \in ({c} \cup ToSet(hs)) \ changed : Exists(src[s]) /\ src[s].mtime <= obj[c].mtime

ObjectsFresh == \A j \in Done : Fresh(cs[j])

\* The latest time is that of the objects, but for the one about to be counted.
ObjectsCounted ==
    pc # "idle" => \A j \in Done : Obj(cs[j]) \notin changed =>
        obj[cs[j]].mtime <= oMax \/ (pc = "compiled" /\ cs[j] = cs[i])

ExecutableFresh ==
    EndedWell /\ Exe \notin changed =>
        /\ Exists(exe)
        /\ \A c \in ToSet(cs) : Obj(c) \notin changed => obj[c].mtime <= exe.mtime

\* With nothing to do, the times this run has seen are those of files in order.
NothingToDo ==
    settled =>
        /\ changed = {}
        /\ pc \notin {"compile", "compiling", "link"}
        /\ Exists(exe) /\ (pc # "idle" => oMax <= exe.mtime)
        /\ \A c \in ToSet(cs) :
              /\ Exists(obj[c]) /\ obj[c].mtime <= exe.mtime
              /\ \A s \in {c} \cup ToSet(hs) : Exists(src[s]) /\ src[s].mtime <= obj[c].mtime
              /\ pc # "idle" => maxH <= obj[c].mtime
        /\ pc = "object" => cTime <= obj[cs[i]].mtime

IInv ==
    /\ TypeOK
    /\ Directory
    /\ GccOk
    /\ CompiledFrom
    /\ LinkedFrom
    /\ TimesSeen
    /\ ObjectsFresh
    /\ ObjectsCounted
    /\ ExecutableFresh
    /\ NothingToDo

-----------------------------------------------------------------------------
(* The lists of a description file *)

\* The names in C and H lines.
LEMMA ListsOf ==
    ASSUME NEW f \in FMakefiles
    PROVE  /\ Len(Named(f, "C")) \in Nat /\ DOMAIN Named(f, "C") = 1 .. Len(Named(f, "C"))
           /\ \A j \in DOMAIN Named(f, "C") : Named(f, "C")[j] \in CFiles
           /\ Len(Named(f, "H")) \in Nat /\ DOMAIN Named(f, "H") = 1 .. Len(Named(f, "H"))
           /\ \A j \in DOMAIN Named(f, "H") : Named(f, "H")[j] \in HFiles
  BY DescriptionsAssumption

LEMMA Lists ==
    ASSUME TypeOK
    PROVE  /\ Len(cs) \in Nat /\ DOMAIN cs = 1 .. Len(cs)
           /\ \A j \in DOMAIN cs : cs[j] \in CFiles
           /\ \A c : c \in ToSet(cs) <=> \E j \in DOMAIN cs : c = cs[j]
           /\ Len(hs) \in Nat /\ DOMAIN hs = 1 .. Len(hs)
           /\ \A j \in DOMAIN hs : hs[j] \in HFiles
           /\ \A h : h \in ToSet(hs) <=> \E j \in DOMAIN hs : h = hs[j]
<1>1. fm \in FMakefiles
  BY DEF TypeOK
<1>2. /\ Len(cs) \in Nat /\ DOMAIN cs = 1 .. Len(cs)
      /\ \A j \in DOMAIN cs : cs[j] \in CFiles
      /\ Len(hs) \in Nat /\ DOMAIN hs = 1 .. Len(hs)
      /\ \A j \in DOMAIN hs : hs[j] \in HFiles
  BY <1>1, ListsOf, Zenon DEF cs, hs
<1>3. /\ \A c : c \in ToSet(cs) <=> \E j \in DOMAIN cs : c = cs[j]
      /\ \A h : h \in ToSet(hs) <=> \E j \in DOMAIN hs : h = hs[j]
  BY Zenon DEF ToSet
<1> QED
  BY <1>2, <1>3, Zenon

\* As long as the description file is the same.
LEMMA SameLists ==
    ASSUME fm' = fm
    PROVE  cs' = cs /\ hs' = hs
  BY Zenon DEF cs, hs

LEMMA Kinds ==
    /\ CFiles \cap HFiles = {} /\ MaxTime \in Nat /\ MaxTime > 0 /\ MaxChanges \in Nat
    /\ \A c \in CFiles : c \in Reads(c) /\ c \in Sources /\ Reads(c) \subseteq Sources
    /\ \A h \in HFiles : h \in Sources /\ (\A c : h \in Reads(c))
  BY FakemakeAssumption DEF Sources, Reads

LEMMA Typed ==
    ASSUME TypeOK
    PROVE  /\ now \in Nat /\ now > 0 /\ changes \in Nat
           /\ \A s \in Sources : Exists(src[s]) => src[s].mtime \in 1 .. now /\ src[s].edit \in Edits
           /\ \A c \in CFiles : Exists(obj[c]) => /\ obj[c].mtime \in 1 .. now /\ obj[c].began \in 1 .. now
                                               /\ obj[c].from \in Contents(c)
           /\ Exists(exe) => exe.mtime \in 1 .. now /\ exe.began \in 1 .. now
           /\ i \in Nat /\ i > 0
           /\ maxH \in 0 .. now /\ oMax \in 0 .. now /\ cTime \in 0 .. now /\ buf \in 0 .. now
  BY Kinds, Lists DEF TypeOK, Times, Edits, Exists, Later

\* A file that has been written is there.
LEMMA WrittenExists ==
    /\ \A t, e : t # -1 => Exists([mtime |-> t, edit |-> e])
    /\ \A t, b, f : t # -1 => Exists([mtime |-> t, began |-> b, from |-> f])
  BY DEF Exists, Absent

-----------------------------------------------------------------------------
(* The clock, and the user, at any step of a run *)

LEMMA TickPreserves ==
    ASSUME IInv, Tick
    PROVE  IInv'
<1> USE Lists, Kinds, Typed, WrittenExists DEF IInv, Tick, files, locals
<1>1. cs' = cs /\ hs' = hs
  BY SameLists
<1>2. TypeOK'
  BY <1>1 DEF TypeOK, Times, Edits, Later
<1>3. Directory'
  BY <1>1 DEF Directory
<1>4. GccOk'
  BY <1>1 DEF GccOk
<1>5. CompiledFrom'
  BY <1>1 DEF CompiledFrom, MadeFrom, Exists
<1>6. LinkedFrom'
  BY <1>1 DEF LinkedFrom, Exists
<1>7. TimesSeen'
  BY <1>1 DEF TimesSeen, HeadersSeen, SourceSeen, EndedWell, Exists
<1>8. ObjectsFresh'
  BY <1>1 DEF ObjectsFresh, Done, Fresh, EndedWell, Exists
<1>9. ObjectsCounted'
  BY <1>1 DEF ObjectsCounted, Done, EndedWell
<1>10. ExecutableFresh'
  BY <1>1 DEF ExecutableFresh, EndedWell, Exists
<1>11. NothingToDo'
  BY <1>1 DEF NothingToDo, Exists
<1> QED
  BY <1>2, <1>3, <1>4, <1>5, <1>6, <1>7, <1>8, <1>9, <1>10, <1>11

LEMMA EditPreserves ==
    ASSUME IInv, NEW s \in Sources, Edit(s)
    PROVE  IInv'
<1> USE Lists, Kinds, Typed, WrittenExists DEF IInv, Edit, Change, files, locals
<1>1. cs' = cs /\ hs' = hs
  BY SameLists
<1>2. TypeOK'
  BY <1>1 DEF TypeOK, Times, Edits, Later
<1>3. Directory'
  BY <1>1 DEF Directory
<1>4. GccOk'
  BY <1>1 DEF GccOk
<1>5. CompiledFrom'
  <2>1. ASSUME NEW c \in CFiles, NEW from, NEW began, MadeFrom(c, from, began), began \in Int, began <= now
        PROVE  \A t \in Reads(c) : Exists(src'[t]) /\ from[t] # src'[t].edit => began <= src'[t].mtime
    <3> SUFFICES ASSUME NEW t \in Reads(c), Exists(src'[t]), from[t] # src'[t].edit
                 PROVE  began <= src'[t].mtime
      OBVIOUS
    <3>1. t \in Sources
      OBVIOUS
    <3>2. CASE t = s
      BY <2>1, <3>1, <3>2 DEF Directory
    <3>3. CASE t # s
      BY <2>1, <3>1, <3>3 DEF Directory, MadeFrom
    <3> QED
      BY <3>2, <3>3
  <2>2. ASSUME NEW c \in CFiles, Exists(obj[c])
        PROVE  \A t \in Reads(c) : Exists(src'[t]) /\ obj[c].from[t] # src'[t].edit => obj[c].began <= src'[t].mtime
    <3>1. MadeFrom(c, obj[c].from, obj[c].began) /\ obj[c].began \in Int /\ obj[c].began <= now
      BY <2>2 DEF CompiledFrom
    <3> QED
      BY <2>1, <3>1
  <2>3. ASSUME pc = "compiling"
        PROVE  \A t \in Reads(cs[i]) : Exists(src'[t]) /\ gcc.from[t] # src'[t].edit => gcc.began <= src'[t].mtime
    <3>1. MadeFrom(cs[i], gcc.from, gcc.began) /\ gcc.began \in Int /\ gcc.began <= now /\ cs[i] \in CFiles
      BY <2>3 DEF CompiledFrom, GccOk, TypeOK
    <3> QED
      BY <2>1, <3>1
  <2> QED
    BY <1>1, <2>2, <2>3 DEF CompiledFrom, MadeFrom, Exists
<1>6. LinkedFrom'
  BY <1>1 DEF LinkedFrom, Exists
<1>7. TimesSeen'
  BY <1>1 DEF TimesSeen, HeadersSeen, SourceSeen, EndedWell, Exists
<1>8. ObjectsFresh'
  BY <1>1 DEF ObjectsFresh, Done, Fresh, EndedWell, Exists
<1>9. ObjectsCounted'
  BY <1>1 DEF ObjectsCounted, Done, EndedWell
<1>10. ExecutableFresh'
  BY <1>1 DEF ExecutableFresh, EndedWell, Exists
<1>11. NothingToDo'
  BY <1>1 DEF NothingToDo, Exists
<1> QED
  BY <1>2, <1>3, <1>4, <1>5, <1>6, <1>7, <1>8, <1>9, <1>10, <1>11

LEMMA RemoveSourcePreserves ==
    ASSUME IInv, NEW s \in Sources, RemoveSource(s)
    PROVE  IInv'
<1> USE Lists, Kinds, Typed, WrittenExists DEF IInv, RemoveSource, Change, files, locals
<1>1. cs' = cs /\ hs' = hs
  BY SameLists
<1>2. TypeOK'
  BY <1>1 DEF TypeOK, Times, Edits, Later
<1>3. Directory'
  BY <1>1 DEF Directory
<1>4. GccOk'
  BY <1>1 DEF GccOk
<1>5. CompiledFrom'
  BY <1>1 DEF CompiledFrom, MadeFrom, Exists
<1>6. LinkedFrom'
  BY <1>1 DEF LinkedFrom, Exists
<1>7. TimesSeen'
  BY <1>1 DEF TimesSeen, HeadersSeen, SourceSeen, EndedWell, Exists
<1>8. ObjectsFresh'
  BY <1>1 DEF ObjectsFresh, Done, Fresh, EndedWell, Exists
<1>9. ObjectsCounted'
  BY <1>1 DEF ObjectsCounted, Done, EndedWell
<1>10. ExecutableFresh'
  BY <1>1 DEF ExecutableFresh, EndedWell, Exists
<1>11. NothingToDo'
  BY <1>1 DEF NothingToDo, Exists
<1> QED
  BY <1>2, <1>3, <1>4, <1>5, <1>6, <1>7, <1>8, <1>9, <1>10, <1>11

LEMMA RemoveObjectPreserves ==
    ASSUME IInv, NEW c \in CFiles, RemoveObject(c)
    PROVE  IInv'
<1> USE Lists, Kinds, Typed, WrittenExists DEF IInv, RemoveObject, Change, files, locals
<1>1. cs' = cs /\ hs' = hs
  BY SameLists
<1>2. TypeOK'
  BY <1>1 DEF TypeOK, Times, Edits, Later, Directory
<1>3. Directory'
  BY <1>1 DEF Directory
<1>4. GccOk'
  BY <1>1 DEF GccOk
<1>5. CompiledFrom'
  <2>1. \A e \in CFiles : Exists(obj'[e]) => obj'[e] = obj[e]
    BY DEF Directory, Exists
  <2>2. \A e \in CFiles : Exists(obj'[e]) => MadeFrom(e, obj[e].from, obj[e].began)
    BY <2>1 DEF CompiledFrom
  <2> QED
    BY <1>1, <2>1, <2>2 DEF CompiledFrom, MadeFrom, Exists
<1>6. LinkedFrom'
  BY <1>1 DEF LinkedFrom, Exists
<1>7. TimesSeen'
  BY <1>1 DEF TimesSeen, HeadersSeen, SourceSeen, EndedWell, Exists
<1>8. ObjectsFresh'
  BY <1>1 DEF ObjectsFresh, Done, Fresh, EndedWell, Exists
<1>9. ObjectsCounted'
  BY <1>1 DEF ObjectsCounted, Done, EndedWell
<1>10. ExecutableFresh'
  BY <1>1 DEF ExecutableFresh, EndedWell, Exists
<1>11. NothingToDo'
  BY <1>1 DEF NothingToDo, Exists
<1> QED
  BY <1>2, <1>3, <1>4, <1>5, <1>6, <1>7, <1>8, <1>9, <1>10, <1>11

LEMMA RemoveExePreserves ==
    ASSUME IInv, RemoveExe
    PROVE  IInv'
<1> USE Lists, Kinds, Typed, WrittenExists DEF IInv, RemoveExe, Change, files, locals
<1>1. cs' = cs /\ hs' = hs
  BY SameLists
<1>2. TypeOK'
  BY <1>1 DEF TypeOK, Times, Edits, Later
<1>3. Directory'
  BY <1>1 DEF Directory
<1>4. GccOk'
  BY <1>1 DEF GccOk
<1>5. CompiledFrom'
  BY <1>1 DEF CompiledFrom, MadeFrom, Exists
<1>6. LinkedFrom'
  BY <1>1 DEF LinkedFrom, Exists
<1>7. TimesSeen'
  BY <1>1 DEF TimesSeen, HeadersSeen, SourceSeen, EndedWell, Exists
<1>8. ObjectsFresh'
  BY <1>1 DEF ObjectsFresh, Done, Fresh, EndedWell, Exists
<1>9. ObjectsCounted'
  BY <1>1 DEF ObjectsCounted, Done, EndedWell
<1>10. ExecutableFresh'
  BY <1>1 DEF ExecutableFresh, EndedWell, Exists
<1>11. NothingToDo'
  BY <1>1 DEF NothingToDo, Exists
<1> QED
  BY <1>2, <1>3, <1>4, <1>5, <1>6, <1>7, <1>8, <1>9, <1>10, <1>11

-----------------------------------------------------------------------------
(* main(), up to the list of the sources *)

LEMMA StartPreserves ==
    ASSUME IInv, NEW f \in FMakefiles, Start(f)
    PROVE  IInv'
<1> USE Lists, Kinds, Typed DEF IInv, Start, files
<1>1. cs' = Named(f, "C") /\ hs' = Named(f, "H")
  BY Zenon DEF cs, hs
<1>2. /\ i' = 1 /\ pc' \in {"headers", "idle"} /\ (pc' = "idle" => result' = "failed")
      /\ (pc' = "headers" => result' = "none")
  OBVIOUS
<1>3. TypeOK'
  <2>1. Len(cs') \in Nat /\ Len(hs') \in Nat
    BY <1>1, ListsOf
  <2>2. i' \in 1 .. 1 + (IF pc' = "headers" THEN Len(hs') ELSE Later(Len(cs'), Len(hs')))
    BY <1>2, <2>1 DEF Later
  <2> QED
    BY <1>2, <2>2 DEF TypeOK, Contents, Times
<1>4. Directory'
  BY DEF Directory
<1>5. GccOk'
  BY <1>2 DEF GccOk
<1>6. CompiledFrom'
  BY <1>2 DEF CompiledFrom, MadeFrom, Exists
<1>7. LinkedFrom'
  BY DEF LinkedFrom, Exists
<1>8. TimesSeen'
  BY <1>2 DEF TimesSeen, HeadersSeen, SourceSeen, EndedWell
<1>9. Done' = {} /\ ~EndedWell'
  BY <1>2 DEF Done, EndedWell
<1>10. ObjectsFresh' /\ ObjectsCounted' /\ ExecutableFresh'
  BY <1>9 DEF ObjectsFresh, ObjectsCounted, ExecutableFresh
<1>11. NothingToDo'
  <2> SUFFICES ASSUME settled'
               PROVE  NothingToDo'
    BY DEF NothingToDo
  <2>1. settled /\ cs' = cs /\ hs' = hs
    BY Zenon DEF cs, hs
  <2>2. \A c \in ToSet(cs) : Exists(obj[c]) /\ obj[c].mtime >= 0
    BY <2>1 DEF NothingToDo
  <2>3. Exists(exe) /\ exe.mtime >= 0
    BY <2>1 DEF NothingToDo
  <2> QED
    BY <1>2, <2>1, <2>2, <2>3 DEF NothingToDo, Exists
<1> QED
  BY <1>3, <1>4, <1>5, <1>6, <1>7, <1>8, <1>10, <1>11

LEMMA StatHeaderPreserves ==
    ASSUME IInv, StatHeader
    PROVE  IInv'
<1> USE Lists, Kinds, Typed, WrittenExists DEF IInv, StatHeader, Fail, HasNext, Later, files, locals
<1>1. cs' = cs /\ hs' = hs
  BY SameLists
<1>2. TypeOK'
  BY <1>1 DEF TypeOK, Times, Edits, Later
<1>3. Directory'
  BY <1>1 DEF Directory
<1>4. GccOk'
  BY <1>1 DEF GccOk
<1>5. CompiledFrom'
  BY <1>1 DEF CompiledFrom, MadeFrom, Exists
<1>6. LinkedFrom'
  BY <1>1 DEF LinkedFrom, Exists
<1>7. TimesSeen'
  <2>1. CASE ~Exists(src[hs[i]])
    BY <1>1, <2>1 DEF TimesSeen, HeadersSeen, SourceSeen, EndedWell
  <2>2. CASE Exists(src[hs[i]])
    <3>1. hs[i] \in Sources /\ maxH <= maxH' /\ src[hs[i]].mtime <= maxH' /\ maxH' \in Int
      BY <2>2
    <3>2. \A j \in 1 .. i : hs[j] \notin changed => Exists(src[hs[j]]) /\ src[hs[j]].mtime <= maxH'
      <4> SUFFICES ASSUME NEW j \in 1 .. i, hs[j] \notin changed
                   PROVE  Exists(src[hs[j]]) /\ src[hs[j]].mtime <= maxH'
        OBVIOUS
      <4>1. CASE j = i
        BY <2>2, <3>1, <4>1
      <4>2. CASE j # i
        <5>1. j \in HeadersSeen /\ hs[j] \in Sources
          BY <4>2 DEF HeadersSeen
        <5> QED
          BY <3>1, <5>1 DEF TimesSeen
      <4> QED
        BY <4>1, <4>2
    <3>3. HeadersSeen' = 1 .. i /\ ~SourceSeen'
      BY <1>1, <2>2 DEF HeadersSeen, SourceSeen
    <3> QED
      BY <1>1, <3>2, <3>3 DEF TimesSeen
  <2> QED
    BY <2>1, <2>2
<1>8. ObjectsFresh'
  BY <1>1 DEF ObjectsFresh, Done, Fresh, EndedWell, Exists
<1>9. ObjectsCounted'
  BY <1>1 DEF ObjectsCounted, Done, EndedWell
<1>10. ExecutableFresh'
  BY <1>1 DEF ExecutableFresh, EndedWell, Exists
<1>11. NothingToDo'
  <2>1. CASE ~Exists(src[hs[i]])
    BY <1>1, <2>1 DEF NothingToDo
  <2>2. CASE Exists(src[hs[i]])
    <3> SUFFICES ASSUME settled
                 PROVE  NothingToDo'
      BY <2>2 DEF NothingToDo
    <3>1. \A c \in ToSet(cs) : maxH' <= obj[c].mtime
      BY <2>2 DEF NothingToDo
    <3> QED
      BY <1>1, <2>2, <3>1 DEF NothingToDo, Exists
  <2> QED
    BY <2>1, <2>2
<1> QED
  BY <1>2, <1>3, <1>4, <1>5, <1>6, <1>7, <1>8, <1>9, <1>10, <1>11

LEMMA NoMoreHeadersPreserves ==
    ASSUME IInv, NoMoreHeaders
    PROVE  IInv'
<1> USE Lists, Kinds, Typed, WrittenExists DEF IInv, NoMoreHeaders, HasNext, files, locals
<1>1. cs' = cs /\ hs' = hs
  BY SameLists
<1>2. TypeOK'
  BY <1>1 DEF TypeOK, Times, Edits, Later
<1>3. Directory'
  BY <1>1 DEF Directory
<1>4. GccOk'
  BY <1>1 DEF GccOk
<1>5. CompiledFrom'
  BY <1>1 DEF CompiledFrom, MadeFrom, Exists
<1>6. LinkedFrom'
  BY <1>1 DEF LinkedFrom, Exists
<1>7. TimesSeen'
  BY <1>1 DEF TimesSeen, HeadersSeen, SourceSeen, EndedWell, Exists
<1>8. ObjectsFresh'
  BY <1>1 DEF ObjectsFresh, Done, Fresh, EndedWell, Exists
<1>9. ObjectsCounted'
  BY <1>1 DEF ObjectsCounted, Done, EndedWell
<1>10. ExecutableFresh'
  BY <1>1 DEF ExecutableFresh, EndedWell, Exists
<1>11. NothingToDo'
  BY <1>1 DEF NothingToDo, Exists
<1> QED
  BY <1>2, <1>3, <1>4, <1>5, <1>6, <1>7, <1>8, <1>9, <1>10, <1>11

-----------------------------------------------------------------------------
(* The loop over the sources, and the compiler *)

LEMMA StatSourcePreserves ==
    ASSUME IInv, StatSource
    PROVE  IInv'
<1> USE Lists, Kinds, Typed, WrittenExists DEF IInv, StatSource, Fail, HasNext, files, locals
<1>1. cs' = cs /\ hs' = hs
  BY SameLists
<1>2. TypeOK'
  BY <1>1 DEF TypeOK, Times, Edits, Later
<1>3. Directory'
  BY <1>1 DEF Directory
<1>4. GccOk'
  BY <1>1 DEF GccOk
<1>5. CompiledFrom'
  BY <1>1 DEF CompiledFrom, MadeFrom, Exists
<1>6. LinkedFrom'
  BY <1>1 DEF LinkedFrom, Exists
<1>7. TimesSeen'
  BY <1>1 DEF TimesSeen, HeadersSeen, SourceSeen, EndedWell, Exists
<1>8. ObjectsFresh'
  BY <1>1 DEF ObjectsFresh, Done, Fresh, EndedWell, Exists
<1>9. ObjectsCounted'
  BY <1>1 DEF ObjectsCounted, Done, EndedWell
<1>10. ExecutableFresh'
  BY <1>1 DEF ExecutableFresh, EndedWell, Exists
<1>11. NothingToDo'
  <2>1. CASE ~Exists(src[cs[i]])
    BY <1>1, <2>1 DEF NothingToDo
  <2>2. CASE Exists(src[cs[i]])
    <3>1. settled => cTime' <= obj[cs[i]].mtime
      BY <2>2 DEF NothingToDo
    <3> QED
      BY <1>1, <2>2, <3>1 DEF NothingToDo, Exists
  <2> QED
    BY <2>1, <2>2
<1> QED
  BY <1>2, <1>3, <1>4, <1>5, <1>6, <1>7, <1>8, <1>9, <1>10, <1>11

LEMMA StatObjectPreserves ==
    ASSUME IInv, StatObject
    PROVE  IInv'
<1> USE Lists, Kinds, Typed, WrittenExists DEF IInv, StatObject, NeedsCompiling, files, locals
<1>1. cs' = cs /\ hs' = hs
  BY SameLists
<1>2. TypeOK'
  BY <1>1 DEF TypeOK, Times, Edits, Later
<1>3. Directory'
  BY <1>1 DEF Directory
<1>4. GccOk'
  BY <1>1 DEF GccOk
<1>5. CompiledFrom'
  BY <1>1 DEF CompiledFrom, MadeFrom, Exists
<1>6. LinkedFrom'
  BY <1>1 DEF LinkedFrom, Exists
<1>7. TimesSeen'
  BY <1>1 DEF TimesSeen, HeadersSeen, SourceSeen, EndedWell, Exists
<1>8. ObjectsFresh'
  <2>1. i \in DOMAIN cs
    BY DEF TypeOK
  <2>2. Fresh(cs[i]) \/ NeedsCompiling(obj[cs[i]])
    <3> SUFFICES ASSUME Obj(cs[i]) \notin changed, ~NeedsCompiling(obj[cs[i]])
                 PROVE  Fresh(cs[i])
      BY DEF Fresh
    <3>1. Exists(obj[cs[i]]) /\ obj[cs[i]].mtime >= maxH /\ obj[cs[i]].mtime >= cTime /\ cs[i] \in CFiles
      BY <2>1
    <3>2. ASSUME NEW s \in ({cs[i]} \cup ToSet(hs)) \ changed
          PROVE  Exists(src[s]) /\ src[s].mtime <= obj[cs[i]].mtime
      <4>1. CASE s = cs[i]
        BY <2>1, <3>1, <3>2, <4>1 DEF TimesSeen, SourceSeen
      <4>2. CASE s \in ToSet(hs)
        <5>1. PICK j \in DOMAIN hs : s = hs[j]
          BY <4>2
        <5>2. j \in HeadersSeen /\ hs[j] \in Sources
          BY <5>1 DEF HeadersSeen
        <5>3. Exists(src[s]) /\ src[s].mtime <= maxH
          BY <3>2, <5>1, <5>2 DEF TimesSeen
        <5>4. src[s].mtime \in Int /\ obj[cs[i]].mtime \in Int
          BY <3>1, <5>1, <5>2, <5>3
        <5> QED
          BY <3>1, <5>3, <5>4
      <4> QED
        BY <3>2, <4>1, <4>2
    <3> QED
      BY <3>1, <3>2 DEF Fresh
  <2>3. \A j \in 1 .. i - 1 : Fresh(cs[j])
    BY DEF ObjectsFresh, Done, EndedWell
  <2>4. \A j \in Done' : Fresh(cs[j])
    <3>1. CASE NeedsCompiling(obj[cs[i]])
      BY <2>3, <3>1 DEF Done, EndedWell
    <3>2. CASE ~NeedsCompiling(obj[cs[i]])
      BY <2>2, <2>3, <3>2 DEF Done, EndedWell
    <3> QED
      BY <3>1, <3>2
  <2> QED
    BY <1>1, <2>4 DEF ObjectsFresh, Fresh, Exists
<1>9. ObjectsCounted'
  BY <1>1 DEF ObjectsCounted, Done, EndedWell
<1>10. ExecutableFresh'
  BY <1>1 DEF ExecutableFresh, EndedWell, Exists
<1>11. NothingToDo'
  <2>1. i \in DOMAIN cs /\ cs[i] \in ToSet(cs)
    BY DEF TypeOK
  <2>2. settled => ~NeedsCompiling(obj[cs[i]])
    BY <2>1 DEF NothingToDo
  <2>3. CASE settled
    BY <1>1, <2>2, <2>3 DEF NothingToDo, Exists
  <2>4. CASE ~settled
    BY <2>4 DEF NothingToDo
  <2> QED
    BY <2>3, <2>4
<1> QED
  BY <1>2, <1>3, <1>4, <1>5, <1>6, <1>7, <1>8, <1>9, <1>10, <1>11

LEMMA CompilerReadsPreserves ==
    ASSUME IInv, CompilerReads
    PROVE  IInv'
<1> USE Lists, Kinds, Typed, WrittenExists DEF IInv, CompilerReads, files, locals
<1>1. cs' = cs /\ hs' = hs
  BY SameLists
<1>2. TypeOK'
  BY <1>1 DEF TypeOK, Times, Edits, Later
<1>3. Directory'
  BY <1>1 DEF Directory
<1>4. GccOk'
  <2>1. cs[i] \in CFiles
    BY DEF TypeOK
  <2>2. [s \in Reads(cs[i]) |-> src[s].edit] \in Contents(cs[i])
    BY <2>1 DEF Contents
  <2>3. gcc'.began \in 1 .. now /\ gcc'.from \in Contents(cs[i])
    BY <2>2 DEF GccOk
  <2> QED
    BY <1>1, <2>3 DEF GccOk, Contents
<1>5. CompiledFrom'
  BY <1>1 DEF CompiledFrom, MadeFrom, Exists
<1>6. LinkedFrom'
  BY <1>1 DEF LinkedFrom, Exists
<1>7. TimesSeen'
  BY <1>1 DEF TimesSeen, HeadersSeen, SourceSeen, EndedWell, Exists
<1>8. ObjectsFresh'
  BY <1>1 DEF ObjectsFresh, Done, Fresh, EndedWell, Exists
<1>9. ObjectsCounted'
  BY <1>1 DEF ObjectsCounted, Done, EndedWell
<1>10. ExecutableFresh'
  BY <1>1 DEF ExecutableFresh, EndedWell, Exists
<1>11. NothingToDo'
  BY <1>1 DEF NothingToDo, Exists
<1> QED
  BY <1>2, <1>3, <1>4, <1>5, <1>6, <1>7, <1>8, <1>9, <1>10, <1>11

LEMMA CompilerWritesPreserves ==
    ASSUME IInv, CompilerWrites
    PROVE  IInv'
<1> USE Lists, Kinds, Typed, WrittenExists DEF IInv, CompilerWrites, files, locals
<1>1. cs' = cs /\ hs' = hs
  BY SameLists
<1>2. TypeOK'
  <2>1. [mtime |-> now, began |-> gcc.began, from |-> gcc.from]
          \in [mtime : 1 .. now, began : 1 .. now, from : Contents(cs[i])]
    BY DEF GccOk
  <2>2. \A c \in CFiles :
           obj'[c] = Absent \/ obj'[c] \in [mtime : 1 .. now, began : 1 .. now, from : Contents(c)]
    <3> TAKE c \in CFiles
    <3>1. CASE c = cs[i]
      BY <2>1, <3>1 DEF Directory
    <3>2. CASE c # cs[i]
      BY <3>2 DEF Directory, TypeOK
    <3> QED
      BY <3>1, <3>2
  <2> QED
    BY <1>1, <2>2 DEF TypeOK, Contents
<1>3. Directory'
  BY <1>1 DEF Directory
<1>4. GccOk'
  BY <1>1 DEF GccOk
<1>5. CompiledFrom'
  BY <1>1 DEF CompiledFrom, MadeFrom, Exists
<1>6. LinkedFrom'
  BY <1>1 DEF LinkedFrom, Exists
<1>7. TimesSeen'
  BY <1>1 DEF TimesSeen, HeadersSeen, SourceSeen, EndedWell, Exists
<1>8. ObjectsFresh'
  <2>1. i \in DOMAIN cs /\ cs[i] \in CFiles
    BY DEF TypeOK
  <2>2. obj'[cs[i]].mtime = now /\ Exists(obj'[cs[i]])
    BY <2>1 DEF Directory
  <2>3. ASSUME NEW j \in DOMAIN cs, cs[j] = cs[i]
        PROVE  Fresh(cs[j])'
    <3>1. \A s \in ({cs[j]} \cup ToSet(hs)) \ changed : Exists(src[s])
      <4>1. ASSUME NEW s \in ToSet(hs) \ changed
            PROVE  Exists(src[s])
        <5>1. PICK k \in DOMAIN hs : s = hs[k]
          BY <4>1
        <5>2. k \in HeadersSeen
          BY DEF HeadersSeen
        <5> QED
          BY <4>1, <5>1, <5>2 DEF TimesSeen
      <4>2. cs[j] \notin changed => Exists(src[cs[j]])
        BY <2>3 DEF TimesSeen, SourceSeen
      <4> QED
        BY <4>1, <4>2
    <3>2. \A s \in ({cs[j]} \cup ToSet(hs)) \ changed : s \in Sources
      BY <2>1
    <3>3. \A s \in ({cs[j]} \cup ToSet(hs)) \ changed : src[s].mtime <= now
      BY <3>1, <3>2
    <3> QED
      BY <1>1, <2>2, <2>3, <3>1, <3>3 DEF Fresh, Exists
  <2>4. ASSUME NEW j \in 1 .. i - 1, cs[j] # cs[i]
        PROVE  Fresh(cs[j])'
    <3>1. j \in DOMAIN cs /\ obj'[cs[j]] = obj[cs[j]]
      BY <2>1, <2>4 DEF Directory
    <3>2. Fresh(cs[j])
      BY DEF ObjectsFresh, Done, EndedWell
    <3> QED
      BY <1>1, <3>1, <3>2 DEF Fresh, Exists
  <2>5. ASSUME NEW j \in Done'
        PROVE  Fresh(cs[j])'
    <3>1. j \in 1 .. i
      BY DEF Done, EndedWell
    <3>2. CASE cs[j] = cs[i]
      BY <2>1, <2>3, <3>1, <3>2
    <3>3. CASE cs[j] # cs[i]
      BY <2>4, <3>1, <3>3
    <3> QED
      BY <3>2, <3>3
  <2> QED
    BY <2>5 DEF ObjectsFresh
<1>9. ObjectsCounted'
  BY <1>1 DEF ObjectsCounted, Done, EndedWell
<1>10. ExecutableFresh'
  BY <1>1 DEF ExecutableFresh, EndedWell, Exists
<1>11. NothingToDo'
  BY <1>1 DEF NothingToDo, Exists
<1> QED
  BY <1>2, <1>3, <1>4, <1>5, <1>6, <1>7, <1>8, <1>9, <1>10, <1>11

LEMMA CompilerFailsPreserves ==
    ASSUME IInv, CompilerFails
    PROVE  IInv'
<1> USE Lists, Kinds, Typed, WrittenExists DEF IInv, CompilerFails, Fail, Unfinished, files, locals
<1>1. cs' = cs /\ hs' = hs
  BY SameLists
<1>2. TypeOK'
  <2>1. /\ DOMAIN obj' = CFiles /\ i \in DOMAIN cs
        /\ \A c \in CFiles : obj'[c] = obj[c] \/ obj'[c] = Absent
    BY DEF Directory, TypeOK
  <2> QED
    BY <1>1, <2>1 DEF TypeOK, Later
<1>3. Directory'
  BY <1>1 DEF Directory
<1>4. GccOk'
  BY <1>1 DEF GccOk
<1>5. CompiledFrom'
  <2>1. /\ DOMAIN obj' = CFiles /\ i \in DOMAIN cs
        /\ \A c \in CFiles : obj'[c] = obj[c] \/ obj'[c] = Absent
    BY DEF Directory, TypeOK
  <2>2. \A c \in CFiles : Exists(obj'[c]) => obj'[c] = obj[c]
    BY <2>1 DEF Exists
  <2>3. \A c \in CFiles : Exists(obj'[c]) => MadeFrom(c, obj[c].from, obj[c].began)
    BY <2>2 DEF CompiledFrom
  <2> QED
    BY <1>1, <2>2, <2>3 DEF CompiledFrom, MadeFrom, Exists
<1>6. LinkedFrom'
  <2>1. /\ DOMAIN obj' = CFiles /\ i \in DOMAIN cs
        /\ \A c \in CFiles : obj'[c] = obj[c] \/ obj'[c] = Absent
    BY DEF Directory, TypeOK
  <2> QED
    BY <1>1, <2>1 DEF LinkedFrom, Exists
<1>7. TimesSeen'
  BY <1>1 DEF TimesSeen, HeadersSeen, SourceSeen, EndedWell, Exists
<1>8. ObjectsFresh'
  BY <1>1 DEF ObjectsFresh, Done, Fresh, EndedWell, Exists
<1>9. ObjectsCounted'
  BY <1>1 DEF ObjectsCounted, Done, EndedWell
<1>10. ExecutableFresh'
  BY <1>1 DEF ExecutableFresh, EndedWell, Exists
<1>11. NothingToDo'
  BY <1>1 DEF NothingToDo, Exists
<1> QED
  BY <1>2, <1>3, <1>4, <1>5, <1>6, <1>7, <1>8, <1>9, <1>10, <1>11

LEMMA CompilerKilledPreserves ==
    ASSUME IInv, CompilerKilled
    PROVE  IInv'
<1> USE Lists, Kinds, Typed, WrittenExists DEF IInv, CompilerKilled, Unfinished, files, locals
<1>1. cs' = cs /\ hs' = hs
  BY SameLists
<1>2. TypeOK'
  <2>1. /\ DOMAIN obj' = CFiles /\ i \in DOMAIN cs
        /\ \A c \in CFiles : obj'[c] = obj[c] \/ obj'[c] = Absent
    BY DEF Directory, TypeOK
  <2> QED
    BY <1>1, <2>1 DEF TypeOK, Later
<1>3. Directory'
  BY <1>1 DEF Directory
<1>4. GccOk'
  BY <1>1 DEF GccOk
<1>5. CompiledFrom'
  <2>1. /\ DOMAIN obj' = CFiles /\ i \in DOMAIN cs
        /\ \A c \in CFiles : obj'[c] = obj[c] \/ obj'[c] = Absent
    BY DEF Directory, TypeOK
  <2>2. \A c \in CFiles : Exists(obj'[c]) => obj'[c] = obj[c]
    BY <2>1 DEF Exists
  <2>3. \A c \in CFiles : Exists(obj'[c]) => MadeFrom(c, obj[c].from, obj[c].began)
    BY <2>2 DEF CompiledFrom
  <2> QED
    BY <1>1, <2>2, <2>3 DEF CompiledFrom, MadeFrom, Exists
<1>6. LinkedFrom'
  <2>1. /\ DOMAIN obj' = CFiles /\ i \in DOMAIN cs
        /\ \A c \in CFiles : obj'[c] = obj[c] \/ obj'[c] = Absent
    BY DEF Directory, TypeOK
  <2> QED
    BY <1>1, <2>1 DEF LinkedFrom, Exists
<1>7. TimesSeen'
  BY <1>1 DEF TimesSeen, HeadersSeen, SourceSeen, EndedWell, Exists
<1>8. ObjectsFresh'
  <2>1. i \in DOMAIN cs /\ cs[i] \in CFiles
    BY DEF TypeOK
  <2>2. ASSUME NEW j \in 1 .. i
        PROVE  Fresh(cs[j])'
    <3> SUFFICES ASSUME Obj(cs[j]) \notin changed'
                 PROVE  Fresh(cs[j])'
      BY <1>1 DEF Fresh
    <3>1. cs[j] # cs[i] /\ j \in 1 .. i - 1 /\ Obj(cs[j]) \notin changed /\ cs[j] \in CFiles
      BY <2>1
    <3>2. obj'[cs[j]] = obj[cs[j]]
      BY <2>1, <3>1 DEF Directory
    <3>3. Fresh(cs[j])
      BY <3>1 DEF ObjectsFresh, Done, EndedWell
    <3>4. \A s : s \notin changed' => s \notin changed
      OBVIOUS
    <3> QED
      BY <1>1, <3>1, <3>2, <3>3, <3>4 DEF Fresh, Exists
  <2>3. Done' = 1 .. i
    BY <1>1 DEF Done, EndedWell
  <2> QED
    BY <2>2, <2>3 DEF ObjectsFresh
<1>9. ObjectsCounted'
  <2>1. i \in DOMAIN cs /\ cs[i] \in CFiles
    BY DEF TypeOK
  <2>2. ASSUME NEW j \in 1 .. i, Obj(cs[j]) \notin changed', cs[j] # cs[i]
        PROVE  obj'[cs[j]].mtime <= oMax
    <3>1. j \in 1 .. i - 1 /\ Obj(cs[j]) \notin changed /\ cs[j] \in CFiles
      BY <2>1, <2>2
    <3>2. obj'[cs[j]] = obj[cs[j]]
      BY <2>1, <2>2, <3>1 DEF Directory
    <3> QED
      BY <3>1, <3>2 DEF ObjectsCounted, Done, EndedWell
  <2>3. Done' = 1 .. i
    BY <1>1 DEF Done, EndedWell
  <2> QED
    BY <1>1, <2>2, <2>3 DEF ObjectsCounted
<1>10. ExecutableFresh'
  BY <1>1 DEF ExecutableFresh, EndedWell, Exists
<1>11. NothingToDo'
  BY <1>1 DEF NothingToDo, Exists
<1> QED
  BY <1>2, <1>3, <1>4, <1>5, <1>6, <1>7, <1>8, <1>9, <1>10, <1>11

LEMMA StatObjectAgainPreserves ==
    ASSUME IInv, StatObjectAgain
    PROVE  IInv'
<1> USE Lists, Kinds, Typed, WrittenExists DEF IInv, StatObjectAgain, Latest, files, locals
<1>1. cs' = cs /\ hs' = hs
  BY SameLists
<1>2. TypeOK'
  BY <1>1 DEF TypeOK, Times, Edits, Later
<1>3. Directory'
  BY <1>1 DEF Directory
<1>4. GccOk'
  BY <1>1 DEF GccOk
<1>5. CompiledFrom'
  BY <1>1 DEF CompiledFrom, MadeFrom, Exists
<1>6. LinkedFrom'
  BY <1>1 DEF LinkedFrom, Exists
<1>7. TimesSeen'
  BY <1>1 DEF TimesSeen, HeadersSeen, SourceSeen, EndedWell, Exists
<1>8. ObjectsFresh'
  BY <1>1 DEF ObjectsFresh, Done, Fresh, EndedWell, Exists
<1>9. ObjectsCounted'
  <2>1. i \in DOMAIN cs /\ cs[i] \in CFiles
    BY DEF TypeOK
  <2>2. oMax <= oMax' /\ buf' <= oMax' /\ buf' \in Int /\ oMax' \in Int
    BY <2>1 DEF Later
  <2>3. ASSUME NEW j \in 1 .. i, Obj(cs[j]) \notin changed
        PROVE  obj[cs[j]].mtime <= oMax'
    <3>1. j \in Done /\ cs[j] \in CFiles
      BY <2>1 DEF Done, EndedWell
    <3>2. Exists(obj[cs[j]])
      BY <2>3, <3>1 DEF ObjectsFresh, Fresh
    <3>3. CASE cs[j] = cs[i]
      BY <2>2, <3>2, <3>3
    <3>4. CASE cs[j] # cs[i]
      BY <2>2, <2>3, <3>1, <3>2, <3>4 DEF ObjectsCounted
    <3> QED
      BY <3>3, <3>4
  <2>4. Done' = 1 .. i
    BY <1>1 DEF Done, EndedWell
  <2> QED
    BY <1>1, <2>3, <2>4 DEF ObjectsCounted
<1>10. ExecutableFresh'
  BY <1>1 DEF ExecutableFresh, EndedWell, Exists
<1>11. NothingToDo'
  <2>1. cs[i] \in ToSet(cs) /\ cs[i] \in CFiles
    BY DEF TypeOK
  <2>2. settled => oMax' <= exe.mtime
    BY <2>1 DEF NothingToDo, Later
  <2> QED
    BY <1>1, <2>2 DEF NothingToDo, Exists
<1> QED
  BY <1>2, <1>3, <1>4, <1>5, <1>6, <1>7, <1>8, <1>9, <1>10, <1>11

LEMMA NoMoreSourcesPreserves ==
    ASSUME IInv, NoMoreSources
    PROVE  IInv'
<1> USE Lists, Kinds, Typed, WrittenExists DEF IInv, NoMoreSources, HasNext, files, locals
<1>1. cs' = cs /\ hs' = hs
  BY SameLists
<1>2. TypeOK'
  BY <1>1 DEF TypeOK, Times, Edits, Later
<1>3. Directory'
  BY <1>1 DEF Directory
<1>4. GccOk'
  BY <1>1 DEF GccOk
<1>5. CompiledFrom'
  BY <1>1 DEF CompiledFrom, MadeFrom, Exists
<1>6. LinkedFrom'
  BY <1>1 DEF LinkedFrom, Exists
<1>7. TimesSeen'
  BY <1>1 DEF TimesSeen, HeadersSeen, SourceSeen, EndedWell, Exists
<1>8. ObjectsFresh'
  BY <1>1 DEF ObjectsFresh, Done, Fresh, EndedWell, Exists
<1>9. ObjectsCounted'
  BY <1>1 DEF ObjectsCounted, Done, EndedWell
<1>10. ExecutableFresh'
  BY <1>1 DEF ExecutableFresh, EndedWell, Exists
<1>11. NothingToDo'
  BY <1>1 DEF NothingToDo, Exists
<1> QED
  BY <1>2, <1>3, <1>4, <1>5, <1>6, <1>7, <1>8, <1>9, <1>10, <1>11

-----------------------------------------------------------------------------
(* The executable, and the linker *)

LEMMA StatExePreserves ==
    ASSUME IInv, StatExe
    PROVE  IInv'
<1> USE Lists, Kinds, Typed, WrittenExists DEF IInv, StatExe, Succeed, files, locals
<1>1. cs' = cs /\ hs' = hs
  BY SameLists
<1>2. TypeOK'
  BY <1>1 DEF TypeOK, Times, Edits, Later
<1>3. Directory'
  BY <1>1 DEF Directory
<1>4. GccOk'
  BY <1>1 DEF GccOk
<1>5. CompiledFrom'
  BY <1>1 DEF CompiledFrom, MadeFrom, Exists
<1>6. LinkedFrom'
  BY <1>1 DEF LinkedFrom, Exists
<1>7. TimesSeen'
  BY <1>1 DEF TimesSeen, HeadersSeen, SourceSeen, EndedWell, Exists
<1>8. ObjectsFresh'
  BY <1>1 DEF ObjectsFresh, Done, Fresh, EndedWell, Exists
<1>9. ObjectsCounted'
  BY <1>1 DEF ObjectsCounted, Done, EndedWell
<1>10. ExecutableFresh'
  <2>1. ASSUME NEW c \in ToSet(cs), Obj(c) \notin changed
        PROVE  Exists(obj[c]) /\ obj[c].mtime <= oMax
    <3>1. PICK j \in DOMAIN cs : c = cs[j]
      BY <2>1
    <3>2. j \in Done
      BY <3>1 DEF Done, EndedWell
    <3> QED
      BY <2>1, <3>1, <3>2 DEF ObjectsFresh, ObjectsCounted, Fresh
  <2>2. CASE ~Exists(exe) \/ exe.mtime < oMax
    BY <2>2 DEF ExecutableFresh, EndedWell, TypeOK
  <2>3. CASE Exists(exe) /\ oMax <= exe.mtime
    <3>1. \A c \in ToSet(cs) : Obj(c) \notin changed => obj[c].mtime <= exe.mtime
      BY <2>1, <2>3
    <3> QED
      BY <1>1, <2>3, <3>1 DEF ExecutableFresh, Exists
  <2> QED
    BY <2>2, <2>3
<1>11. NothingToDo'
  <2>1. ASSUME NEW c \in ToSet(cs), changed = {}
        PROVE  /\ Exists(obj[c]) /\ obj[c].mtime <= oMax
               /\ \A s \in {c} \cup ToSet(hs) : Exists(src[s]) /\ src[s].mtime <= obj[c].mtime
    <3>1. PICK j \in DOMAIN cs : c = cs[j]
      BY <2>1
    <3>2. j \in Done
      BY <3>1 DEF Done, EndedWell
    <3> QED
      BY <2>1, <3>1, <3>2 DEF ObjectsFresh, ObjectsCounted, Fresh
  <2>2. CASE ~Exists(exe) \/ exe.mtime < oMax
    <3>1. ~settled
      BY <2>2 DEF NothingToDo
    <3>2. settled' = settled
      BY <2>2
    <3> QED
      BY <3>1, <3>2, Zenon DEF NothingToDo
  <2>3. CASE Exists(exe) /\ oMax <= exe.mtime
    <3>1. /\ ~(~Exists(exe) \/ exe.mtime < oMax)
          /\ \A c \in ToSet(cs) : changed = {} => obj[c].mtime <= exe.mtime
      BY <2>1, <2>3
    <3>2. pc' = "idle" /\ settled' = (changed = {}) /\ UNCHANGED <<src, obj, exe, changed>>
      BY <3>1, Zenon
    <3>3. settled' => changed = {}
      BY <3>2, Zenon
    <3> QED
      BY <1>1, <2>1, <2>3, <3>1, <3>2, <3>3 DEF NothingToDo, Exists
  <2> QED
    BY <2>2, <2>3
<1> QED
  BY <1>2, <1>3, <1>4, <1>5, <1>6, <1>7, <1>8, <1>9, <1>10, <1>11

LEMMA LinkerWritesPreserves ==
    ASSUME IInv, LinkerWrites
    PROVE  IInv'
<1> USE Lists, Kinds, Typed, WrittenExists DEF IInv, LinkerWrites, Succeed, files, locals
<1>1. cs' = cs /\ hs' = hs
  BY SameLists
<1>2. TypeOK'
  <2>1. exe'.mtime = now /\ exe'.began = gcc.mtime /\ gcc.mtime \in 1 .. now
    BY DEF GccOk
  <2> QED
    BY <1>1, <2>1 DEF TypeOK, Later
<1>3. Directory'
  BY <1>1 DEF Directory
<1>4. GccOk'
  BY <1>1 DEF GccOk
<1>5. CompiledFrom'
  BY <1>1 DEF CompiledFrom, MadeFrom, Exists
<1>6. LinkedFrom'
  BY <1>1 DEF LinkedFrom, Exists
<1>7. TimesSeen'
  BY <1>1 DEF TimesSeen, HeadersSeen, SourceSeen, EndedWell, Exists
<1>8. ObjectsFresh'
  BY <1>1 DEF ObjectsFresh, Done, Fresh, EndedWell, Exists
<1>9. ObjectsCounted'
  BY <1>1 DEF ObjectsCounted, Done, EndedWell
<1>10. ExecutableFresh'
  BY <1>1 DEF ExecutableFresh, EndedWell, Exists
<1>11. NothingToDo'
  <2>1. ASSUME NEW c \in ToSet(cs), changed = {}
        PROVE  /\ Exists(obj[c]) /\ obj[c].mtime <= oMax
               /\ \A s \in {c} \cup ToSet(hs) : Exists(src[s]) /\ src[s].mtime <= obj[c].mtime
    <3>1. PICK j \in DOMAIN cs : c = cs[j]
      BY <2>1
    <3>2. j \in Done
      BY <3>1 DEF Done, EndedWell
    <3> QED
      BY <2>1, <3>1, <3>2 DEF ObjectsFresh, ObjectsCounted, Fresh
  <2>2. exe'.mtime = now /\ Exists(exe')
    OBVIOUS
  <2>3. ASSUME NEW c \in ToSet(cs), changed = {}
        PROVE  obj[c].mtime <= now
    BY <2>1, <2>3
  <2> QED
    BY <1>1, <2>1, <2>2, <2>3 DEF NothingToDo, Exists
<1> QED
  BY <1>2, <1>3, <1>4, <1>5, <1>6, <1>7, <1>8, <1>9, <1>10, <1>11

LEMMA LinkerFailsPreserves ==
    ASSUME IInv, LinkerFails
    PROVE  IInv'
<1> USE Lists, Kinds, Typed, WrittenExists DEF IInv, LinkerFails, Fail, files, locals
<1>1. cs' = cs /\ hs' = hs
  BY SameLists
<1>2. TypeOK'
  BY <1>1 DEF TypeOK, Times, Edits, Later
<1>3. Directory'
  BY <1>1 DEF Directory
<1>4. GccOk'
  BY <1>1 DEF GccOk
<1>5. CompiledFrom'
  BY <1>1 DEF CompiledFrom, MadeFrom, Exists
<1>6. LinkedFrom'
  BY <1>1 DEF LinkedFrom, Exists
<1>7. TimesSeen'
  BY <1>1 DEF TimesSeen, HeadersSeen, SourceSeen, EndedWell, Exists
<1>8. ObjectsFresh'
  BY <1>1 DEF ObjectsFresh, Done, Fresh, EndedWell, Exists
<1>9. ObjectsCounted'
  BY <1>1 DEF ObjectsCounted, Done, EndedWell
<1>10. ExecutableFresh'
  BY <1>1 DEF ExecutableFresh, EndedWell, Exists
<1>11. NothingToDo'
  BY <1>1 DEF NothingToDo, Exists
<1> QED
  BY <1>2, <1>3, <1>4, <1>5, <1>6, <1>7, <1>8, <1>9, <1>10, <1>11

LEMMA LinkerKilledPreserves ==
    ASSUME IInv, LinkerKilled
    PROVE  IInv'
<1> USE Lists, Kinds, Typed, WrittenExists DEF IInv, LinkerKilled, Succeed, files, locals
<1>1. cs' = cs /\ hs' = hs
  BY SameLists
<1>2. TypeOK'
  BY <1>1 DEF TypeOK, Times, Edits, Later
<1>3. Directory'
  BY <1>1 DEF Directory
<1>4. GccOk'
  BY <1>1 DEF GccOk
<1>5. CompiledFrom'
  BY <1>1 DEF CompiledFrom, MadeFrom, Exists
<1>6. LinkedFrom'
  BY <1>1 DEF LinkedFrom, Exists
<1>7. TimesSeen'
  BY <1>1 DEF TimesSeen, HeadersSeen, SourceSeen, EndedWell, Exists
<1>8. ObjectsFresh'
  BY <1>1 DEF ObjectsFresh, Done, Fresh, EndedWell, Exists
<1>9. ObjectsCounted'
  BY <1>1 DEF ObjectsCounted, Done, EndedWell
<1>10. ExecutableFresh'
  BY <1>1 DEF ExecutableFresh, EndedWell, Exists
<1>11. NothingToDo'
  BY <1>1 DEF NothingToDo, Exists
<1> QED
  BY <1>2, <1>3, <1>4, <1>5, <1>6, <1>7, <1>8, <1>9, <1>10, <1>11

-----------------------------------------------------------------------------
(* The beginning, and steps of others *)

LEMMA InitEstablishes ==
    ASSUME Init
    PROVE  IInv
<1> USE Kinds DEF Init
<1>1. \A s \in Sources : src[s] \in [mtime : 1 .. now, edit : Edits]
  BY DEF Edits
<1>2. Len(cs) \in Nat /\ Len(hs) \in Nat
  BY ListsOf, Zenon DEF cs, hs
<1>3. i \in 1 .. 1 + (IF pc = "headers" THEN Len(hs) ELSE Later(Len(cs), Len(hs)))
  BY <1>2 DEF Later
<1>4. TypeOK
  BY <1>1, <1>3 DEF TypeOK, Times, Edits
<1>5. Directory
  BY DEF Directory
<1>6. (\A c \in CFiles : ~Exists(obj[c])) /\ ~Exists(exe)
  BY DEF Exists
<1>7. ~EndedWell /\ Done = {} /\ HeadersSeen = {} /\ ~SourceSeen
  BY DEF EndedWell, Done, HeadersSeen, SourceSeen
<1>8. CompiledFrom /\ LinkedFrom
  BY <1>6 DEF CompiledFrom, LinkedFrom
<1>9. GccOk /\ TimesSeen /\ ObjectsFresh /\ ObjectsCounted /\ ExecutableFresh /\ NothingToDo
  BY <1>7 DEF GccOk, TimesSeen, ObjectsFresh, ObjectsCounted, ExecutableFresh, NothingToDo
<1> QED
  BY <1>4, <1>5, <1>8, <1>9 DEF IInv

LEMMA StutteringPreserves ==
    ASSUME IInv, UNCHANGED vars
    PROVE  IInv'
<1> USE DEF vars, files, locals
<1>1. cs' = cs /\ hs' = hs
  BY SameLists
<1>2. TypeOK' /\ Directory' /\ GccOk'
  BY <1>1 DEF IInv, TypeOK, Directory, GccOk, Contents
<1>3. CompiledFrom' /\ LinkedFrom'
  BY <1>1 DEF IInv, CompiledFrom, LinkedFrom, MadeFrom, Exists
<1>4. TimesSeen'
  BY <1>1 DEF IInv, TimesSeen, HeadersSeen, SourceSeen, EndedWell, Exists
<1>5. Done' = Done
  BY <1>1 DEF Done, EndedWell
<1>6. ObjectsFresh' /\ ObjectsCounted'
  BY <1>1, <1>5 DEF IInv, ObjectsFresh, ObjectsCounted, Fresh, Exists
<1>7. ExecutableFresh' /\ NothingToDo'
  BY <1>1 DEF IInv, ExecutableFresh, NothingToDo, EndedWell, Exists
<1> QED
  BY <1>2, <1>3, <1>4, <1>6, <1>7 DEF IInv

-----------------------------------------------------------------------------
(* The theorems *)

\* The invariant of a run of fakemake in a directory that others change: what
\* the objects and the executable are made from, what the times that main() has
\* read say of the files, and what is still in order since the last run.
THEOREM FakemakeInvariant == Spec => []IInv
<1>1. Init => IInv
  BY InitEstablishes
<1>2. IInv /\ [Next]_vars => IInv'
  <2> SUFFICES ASSUME IInv, [Next]_vars
               PROVE  IInv'
    OBVIOUS
  <2>1. CASE Tick
    BY <2>1, TickPreserves
  <2>2. CASE User
    BY <2>2, EditPreserves, RemoveSourcePreserves, RemoveObjectPreserves, RemoveExePreserves DEF User
  <2>3. CASE Main
    BY <2>3, StartPreserves, StatHeaderPreserves, NoMoreHeadersPreserves, StatSourcePreserves,
       StatObjectPreserves, StatObjectAgainPreserves, NoMoreSourcesPreserves, StatExePreserves DEF Main
  <2>4. CASE Gcc
    BY <2>4, CompilerReadsPreserves, CompilerWritesPreserves, CompilerFailsPreserves,
       CompilerKilledPreserves, LinkerWritesPreserves, LinkerFailsPreserves, LinkerKilledPreserves DEF Gcc
  <2>5. CASE UNCHANGED vars
    BY <2>5, StutteringPreserves
  <2> QED
    BY <2>1, <2>2, <2>3, <2>4, <2>5 DEF Next
<1> QED
  BY <1>1, <1>2, PTL DEF Spec

\* The variables of main() keep their types, the index stays within the list the
\* loop is at, and every time read from a file has come.
THEOREM TypeCorrect == Spec => []TypeOK
<1>1. IInv => TypeOK
  BY DEF IInv
<1> QED
  BY <1>1, FakemakeInvariant, PTL

\* After a run that ends well the objects and the executable are made from what
\* is there, whoever changed which file at any step of it or of the runs
\* before, except for what changed in the second in which it was read.
THEOREM ProductsStayCurrent == Spec => []ProductsAreCurrent
<1>1. IInv => ObjectsAreCurrent
  <2> SUFFICES ASSUME IInv, EndedWell, NEW c \in ToSet(cs), Obj(c) \notin changed
               PROVE  /\ Exists(obj[c])
                      /\ \A s \in ({c} \cup ToSet(hs)) \ changed :
                            obj[c].from[s] # src[s].edit => src[s].mtime \in obj[c].began .. obj[c].mtime
    BY DEF ObjectsAreCurrent
  <2> USE Lists, Kinds, Typed DEF IInv
  <2>1. PICK j \in DOMAIN cs : c = cs[j]
    OBVIOUS
  <2>2. j \in Done
    BY <2>1 DEF Done
  <2>3. /\ Exists(obj[c])
        /\ \A s \in ({c} \cup ToSet(hs)) \ changed : Exists(src[s]) /\ src[s].mtime <= obj[c].mtime
    BY <2>1, <2>2 DEF ObjectsFresh, Fresh
  <2>4. MadeFrom(c, obj[c].from, obj[c].began)
    BY <2>1, <2>3 DEF CompiledFrom
  <2>5. ASSUME NEW s \in ({c} \cup ToSet(hs)) \ changed, obj[c].from[s] # src[s].edit
        PROVE  src[s].mtime \in obj[c].began .. obj[c].mtime
    <3>1. s \in Reads(c) /\ s \in Sources /\ c \in CFiles
      BY <2>1
    <3>2. obj[c].began <= src[s].mtime
      BY <2>3, <2>4, <2>5, <3>1 DEF MadeFrom
    <3>3. src[s].mtime <= obj[c].mtime
      BY <2>3, <2>5
    <3> QED
      BY <2>3, <2>5, <3>1, <3>2, <3>3
  <2> QED
    BY <2>3, <2>5
<1>2. IInv => ExecutableIsCurrent
  <2> SUFFICES ASSUME IInv, EndedWell, Exe \notin changed
               PROVE  /\ Exists(exe)
                      /\ DOMAIN exe.from = ToSet(cs) =>
                            \A c \in ToSet(cs) : Obj(c) \notin changed =>
                               exe.from[c] = obj[c].from \/ obj[c].mtime \in exe.began .. exe.mtime
    BY DEF ExecutableIsCurrent
  <2>1. Exists(exe) /\ (\A c \in ToSet(cs) : Obj(c) \notin changed => obj[c].mtime <= exe.mtime)
    BY DEF IInv, ExecutableFresh
  <2>2. ASSUME NEW c \in ToSet(cs), Obj(c) \notin changed, c \in DOMAIN exe.from, exe.from[c] # obj[c].from
        PROVE  obj[c].mtime \in exe.began .. exe.mtime
    <3> USE Lists, Typed DEF IInv
    <3>1. PICK j \in DOMAIN cs : c = cs[j]
      BY <2>2
    <3>2. j \in Done
      BY <3>1 DEF Done
    <3>3. Exists(obj[c]) /\ c \in CFiles
      BY <2>2, <3>1, <3>2 DEF ObjectsFresh, Fresh
    <3>4. exe.began <= obj[c].mtime
      BY <2>1, <2>2, <3>3 DEF LinkedFrom
    <3> QED
      BY <2>1, <2>2, <3>3, <3>4
  <2> QED
    BY <2>1, <2>2
<1> QED
  BY <1>1, <1>2, FakemakeInvariant, PTL DEF ProductsAreCurrent

\* A run of fakemake after one that ended well, with nothing changed since that
\* one began, calls gcc for nothing.
THEOREM NothingTwice == Spec => []NothingIsMadeTwice
<1>1. IInv => NothingIsMadeTwice
  BY DEF IInv, NothingToDo, NothingIsMadeTwice
<1> QED
  BY <1>1, FakemakeInvariant, PTL
=============================================================================
