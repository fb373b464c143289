----------------------------- MODULE Fakemake -----------------------------
(* Lab-4-Fakemake/fakemake.c: runs of fakemake, one after the other, in a     *)
(* directory whose files the user changes at any time, during a run too.     *)
(*                                                                           *)
(* A source is known by the number of the edit that made it, an object by    *)
(* the edits it was compiled from, the executable by what its objects were.  *)
(* A file has a modification time in whole seconds, as stat() gives it in    *)
(* st_mtime.  fakemake sees the times only; the contents are there to say    *)
(* what it should have seen.                                                 *)
EXTENDS Integers, Sequences, SequencesExt

CONSTANTS CFiles, HFiles,   \* the names of sources and headers
          FMakefiles,       \* description files, sequences of lines [key, names]
          MaxTime,          \* bound: the last second
          MaxChanges        \* bound: how often the user changes a file

ASSUME FakemakeAssumption ==
    /\ CFiles \cap HFiles = {}
    /\ MaxTime \in Nat \ {0}
    /\ MaxChanges \in Nat

VARIABLES now,       \* the clock, in seconds
          changes,   \* how many changes the user has made
          src,       \* the source and header files
          obj,       \* obj[c], the .o file of c
          exe,       \* the executable
          fm,        \* the description file of this run
          pc,        \* where main() is
          i,         \* the element of the list it is at
          maxH,      \* max_h
          oMax,      \* o_max
          cTime,     \* c_time
          buf,       \* buf.st_mtime
          gcc,       \* the compiler at work: when it began, what it has read
          result,    \* how the last run ended
          recompiled,\* whether this run has written an object (history)
          changed,   \* what others changed since this run began (history)
          settled    \* nothing to do since the last run (history)

files == <<src, obj, exe>>
locals == <<fm, i, maxH, oMax, cTime, buf>>
vars == <<now, changes, files, pc, locals, gcc, result, recompiled, changed, settled>>

Absent == [mtime |-> -1]
Exists(file) == file # Absent
Later(s, t) == IF s > t THEN s ELSE t

Sources == CFiles \cup HFiles
Obj(c) == <<"object", c>>
Exe == <<"executable">>

\* The files a line names go to the end of the list of its key.
Named(f, key) == FlattenSeq([k \in 1 .. Len(f) |-> IF f[k].key = key THEN f[k].names ELSE <<>>])
NumberOfE(f) == Len(SelectSeq(f, LAMBDA line : line.key = "E"))

\* C and H lines name sources and headers.
ASSUME DescriptionsAssumption ==
    \A f \in FMakefiles : Named(f, "C") \in Seq(CFiles) /\ Named(f, "H") \in Seq(HFiles)

cs == Named(fm, "C")
hs == Named(fm, "H")

\* What gcc reads to compile c: any source may include any header.
Reads(c) == {c} \cup HFiles

------------------------------------------------------------------------------
Init ==
    /\ now = 1
    /\ changes = 0
    /\ src = [s \in Sources |-> [mtime |-> 1, edit |-> 0]]
    /\ obj = [c \in CFiles |-> Absent]
    /\ exe = Absent
    /\ fm \in FMakefiles
    /\ pc = "idle" /\ i = 1
    /\ maxH = 0 /\ oMax = 0 /\ cTime = 0 /\ buf = 0
    /\ gcc = Absent
    /\ result = "none"
    /\ recompiled = FALSE
    /\ changed = {}
    /\ settled = FALSE

Tick ==
    /\ now < MaxTime
    /\ now' = now + 1
    /\ UNCHANGED <<changes, files, pc, locals, gcc, result, recompiled, changed, settled>>

------------------------------------------------------------------------------
(* The user. *)

Change(file) ==
    /\ changes < MaxChanges
    /\ changes' = changes + 1
    /\ changed' = changed \cup {file}
    /\ settled' = FALSE
    /\ UNCHANGED <<now, pc, locals, gcc, result, recompiled>>

Edit(s) ==
    /\ Change(s)
    /\ src' = [src EXCEPT ![s] = [mtime |-> now, edit |-> changes']]
    /\ UNCHANGED <<obj, exe>>

RemoveSource(s) ==
    /\ Exists(src[s])
    /\ Change(s)
    /\ src' = [src EXCEPT ![s] = Absent]
    /\ UNCHANGED <<obj, exe>>

RemoveObject(c) ==
    /\ Exists(obj[c])
    /\ Change(Obj(c))
    /\ obj' = [obj EXCEPT ![c] = Absent]
    /\ UNCHANGED <<src, exe>>

RemoveExe ==
    /\ Exists(exe)
    /\ Change(Exe)
    /\ exe' = Absent
    /\ UNCHANGED <<src, obj>>

User ==
    \/ \E s \in Sources : Edit(s) \/ RemoveSource(s)
    \/ \E c \in CFiles : RemoveObject(c)
    \/ RemoveExe

------------------------------------------------------------------------------
(* main(), up to the parsed description file. *)

\* A description file without an E line, or with two, ends the run.
WellFormed(f) == NumberOfE(f) = 1

Start(f) ==
    /\ pc = "idle"
    /\ fm' = f
    /\ IF WellFormed(f) THEN pc' = "headers" /\ result' = "none"
                        ELSE pc' = "idle" /\ result' = "failed"
    /\ i' = 1
    /\ maxH' = 0 /\ oMax' = 0 /\ cTime' = 0 /\ buf' = 0
    /\ recompiled' = FALSE
    /\ changed' = {}
    /\ settled' = (settled /\ f = fm)
    /\ UNCHANGED <<now, changes, files, gcc>>

\* A mutant: the message is printed, but main() does not exit.
FailGoesOn ==
    /\ pc' = pc
    /\ result' = "failed"
    /\ settled' = FALSE

\* exit(1)
Fail ==
    /\ pc' = "idle"
    /\ result' = "failed"
    /\ settled' = FALSE

\* return 0
Succeed ==
    /\ pc' = "idle"
    /\ result' = "ok"
    /\ settled' = (changed' = {})

HasNext(list) == i <= Len(list)

StatHeader ==
    /\ pc = "headers" /\ HasNext(hs)
    /\ IF Exists(src[hs[i]])
       THEN /\ buf' = src[hs[i]].mtime
            /\ maxH' = Later(buf', maxH)
            /\ i' = i + 1
            /\ UNCHANGED <<pc, result, settled>>
       ELSE Fail /\ UNCHANGED <<buf, maxH, i>>
    /\ UNCHANGED <<now, changes, files, fm, oMax, cTime, gcc, recompiled, changed>>

NoMoreHeaders ==
    /\ pc = "headers" /\ ~HasNext(hs)
    /\ pc' = "sources" /\ i' = 1
    /\ UNCHANGED <<now, changes, files, fm, maxH, oMax, cTime, buf, gcc, result,
                   recompiled, changed, settled>>

------------------------------------------------------------------------------
(* The loop over the .c files. *)

StatSource ==
    /\ pc = "sources" /\ HasNext(cs)
    /\ IF Exists(src[cs[i]])
       THEN /\ buf' = src[cs[i]].mtime
            /\ cTime' = buf'
            /\ pc' = "object"
            /\ UNCHANGED <<result, settled>>
       ELSE Fail /\ UNCHANGED <<buf, cTime>>
    /\ UNCHANGED <<now, changes, files, fm, i, maxH, oMax, gcc, recompiled, changed>>

\* A mutant: an object made in the second of the source is compiled again.
NotNewer(o) == ~Exists(o) \/ o.mtime <= maxH \/ o.mtime <= cTime
\* A mutant: the headers are forgotten.
OlderThanSource(o) == ~Exists(o) \/ o.mtime < cTime

NeedsCompiling(o) == ~Exists(o) \/ o.mtime < maxH \/ o.mtime < cTime

\* stat() leaves buf alone when the file does not exist.
StatObject ==
    LET o == obj[cs[i]] IN
    /\ pc = "object"
    /\ buf' = IF Exists(o) THEN o.mtime ELSE buf
    /\ IF NeedsCompiling(o)
       THEN pc' = "compile" /\ gcc' = [mtime |-> now]
       ELSE pc' = "compiled" /\ UNCHANGED gcc
    /\ UNCHANGED <<now, changes, files, fm, i, maxH, oMax, cTime, result, recompiled,
                   changed, settled>>

CompilerReads ==
    /\ pc = "compile"
    /\ \A s \in Reads(cs[i]) : Exists(src[s])
    /\ gcc' = [began |-> gcc.mtime, from |-> [s \in Reads(cs[i]) |-> src[s].edit]]
    /\ pc' = "compiling"
    /\ UNCHANGED <<now, changes, files, locals, result, recompiled, changed, settled>>

CompilerWrites ==
    /\ pc = "compiling"
    /\ obj' = [obj EXCEPT ![cs[i]] = [mtime |-> now, began |-> gcc.began, from |-> gcc.from]]
    /\ gcc' = Absent
    /\ recompiled' = TRUE
    /\ pc' = "compiled"
    /\ UNCHANGED <<now, changes, src, exe, locals, result, changed, settled>>

\* What a compiler that does not finish leaves: the old object or none.
Unfinished == obj' = obj \/ obj' = [obj EXCEPT ![cs[i]] = Absent]

CompilerFails ==
    /\ pc \in {"compile", "compiling"}
    /\ Unfinished
    /\ gcc' = Absent
    /\ Fail
    /\ UNCHANGED <<now, changes, src, exe, locals, recompiled, changed>>

\* WEXITSTATUS is 0 for a process ended by a signal: main() goes on.
CompilerKilled ==
    /\ pc \in {"compile", "compiling"}
    /\ Unfinished
    /\ gcc' = Absent
    /\ changed' = changed \cup {Obj(cs[i])}
    /\ settled' = FALSE
    /\ pc' = "compiled"
    /\ UNCHANGED <<now, changes, src, exe, locals, result, recompiled>>

\* A mutant: only the objects this run has compiled are looked at.
LatestCompiled(t) == IF recompiled THEN Later(t, oMax) ELSE oMax

\* The latest time is that of all the objects, whether just compiled or not.
Latest(t) == Later(t, oMax)

StatObjectAgain ==
    LET o == obj[cs[i]] IN
    /\ pc = "compiled"
    /\ buf' = IF Exists(o) THEN o.mtime ELSE buf
    /\ oMax' = Latest(buf')
    /\ i' = i + 1
    /\ pc' = "sources"
    /\ UNCHANGED <<now, changes, files, fm, maxH, cTime, gcc, result, recompiled,
                   changed, settled>>

NoMoreSources ==
    /\ pc = "sources" /\ ~HasNext(cs)
    /\ pc' = "executable"
    /\ UNCHANGED <<now, changes, files, locals, gcc, result, recompiled, changed, settled>>

------------------------------------------------------------------------------
(* The executable. *)

StatExe ==
    /\ pc = "executable"
    /\ buf' = IF Exists(exe) THEN exe.mtime ELSE buf
    /\ IF ~Exists(exe) \/ exe.mtime < oMax
       THEN pc' = "link" /\ gcc' = [mtime |-> now] /\ UNCHANGED <<result, settled, changed>>
       ELSE UNCHANGED <<gcc, changed>> /\ Succeed
    /\ UNCHANGED <<now, changes, files, fm, i, maxH, oMax, cTime, recompiled>>

LinkerWrites ==
    /\ pc = "link"
    /\ \A c \in ToSet(cs) : Exists(obj[c])
    /\ exe' = [mtime |-> now, began |-> gcc.mtime,
               from |-> [c \in ToSet(cs) |-> obj[c].from]]
    /\ gcc' = Absent
    /\ UNCHANGED changed
    /\ Succeed
    /\ UNCHANGED <<now, changes, src, obj, locals, recompiled>>

LinkerFails ==
    /\ pc = "link"
    /\ exe' \in {exe, Absent}
    /\ gcc' = Absent
    /\ Fail
    /\ UNCHANGED <<now, changes, src, obj, locals, recompiled, changed>>

LinkerKilled ==
    /\ pc = "link"
    /\ exe' \in {exe, Absent}
    /\ gcc' = Absent
    /\ changed' = changed \cup {Exe}
    /\ Succeed
    /\ UNCHANGED <<now, changes, src, obj, locals, recompiled>>

Main ==
    \/ \E f \in FMakefiles : Start(f)
    \/ StatHeader \/ NoMoreHeaders
    \/ StatSource \/ StatObject \/ StatObjectAgain \/ NoMoreSources
    \/ StatExe

Gcc ==
    \/ CompilerReads \/ CompilerWrites \/ CompilerFails \/ CompilerKilled
    \/ LinkerWrites \/ LinkerFails \/ LinkerKilled

Next == Tick \/ User \/ Main \/ Gcc

Spec == Init /\ [][Next]_vars
------------------------------------------------------------------------------
(* Properties. *)

Times == 1 .. MaxTime
Edits == 0 .. MaxChanges
\* What an object is made of, by its .c file.
Contents(c) == [Reads(c) -> Edits]

\* The state has the shape of the program's: the index is at most one past the
\* list it is in, a file that exists has a time that has come, and a run that
\* has failed has ended.
TypeOK ==
    /\ now \in Times
    /\ changes \in Edits
    /\ \A s \in Sources : src[s] = Absent \/ src[s] \in [mtime : 1 .. now, edit : Edits]
    /\ \A c \in CFiles :
          obj[c] = Absent \/ obj[c] \in [mtime : 1 .. now, began : 1 .. now, from : Contents(c)]
    /\ exe = Absent \/ {exe.mtime, exe.began} \subseteq 1 .. now
    /\ fm \in FMakefiles
    /\ pc \in {"idle", "headers", "sources", "object", "compile", "compiling", "compiled",
               "executable", "link"}
    /\ i \in 1 .. 1 + (IF pc = "headers" THEN Len(hs) ELSE Later(Len(cs), Len(hs)))
    /\ (pc \in {"object", "compile", "compiling", "compiled"} => i \in DOMAIN cs)
    /\ {maxH, oMax, cTime, buf} \subseteq 0 .. now
    /\ result \in {"none", "ok", "failed"}
    /\ (pc # "idle" => result = "none")

EndedWell == pc = "idle" /\ result = "ok"

\* The times are enough: after a run that returns 0 an object can differ from what
\* its .c file and the headers of the description file are only if these
\* were edited in the very seconds in which it was compiled.  That holds after
\* runs that failed halfway, with edits at any step of an earlier run, and for
\* each source nobody touches during this one.
ObjectsAreCurrent ==
    EndedWell =>
        \A c \in ToSet(cs) : Obj(c) \notin changed =>
            /\ Exists(obj[c])
            /\ \A s \in ({c} \cup ToSet(hs)) \ changed :
                  obj[c].from[s] # src[s].edit => src[s].mtime \in obj[c].began .. obj[c].mtime

\* The same of the executable: after a run that returns 0 it is linked from the
\* objects as they are, unless one was written in the second it was linked
\* in, or the list of .c files has changed since.
ExecutableIsCurrent ==
    (EndedWell /\ Exe \notin changed) =>
        /\ Exists(exe)
        /\ DOMAIN exe.from = ToSet(cs) =>
              \A c \in ToSet(cs) :
                 Obj(c) \notin changed =>
                    \/ exe.from[c] = obj[c].from
                    \/ obj[c].mtime \in exe.began .. exe.mtime

\* Nothing that a run which returns 0 leaves is made from something else than
\* what is there.
ProductsAreCurrent == ObjectsAreCurrent /\ ExecutableIsCurrent

\* fakemake does nothing twice: a run with the description file of a run that
\* returned 0, when nobody has changed anything since that run began, calls
\* gcc for no object and no executable, however the seconds fell.
NothingIsMadeTwice == settled => pc \notin {"compile", "compiling", "link"}

\* What the lab says of the executable (Lab-4-Fakemake/index.html:105): it is
\* not remade if "no .c file has been recompiled".  The code looks at the times
\* alone, and a run that has compiled an object in the second in which the
\* executable was last made calls it up to date.
RemadeAfterCompiling == [][(pc = "executable" /\ recompiled) => pc' # "idle"]_vars
==============================================================================
