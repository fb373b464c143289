---------------------------- MODULE JshellProofs ----------------------------
(***************************************************************************)
(* Proofs about Jshell.tla, for any number of commands and processes, any   *)
(* size of a pipe and any system calls that may fail: which files a program *)
(* has open when it is run, and what has ended when the shell prompts.      *)
(***************************************************************************)
EXTENDS Jshell, FiniteSetTheorems, TLAPS

-----------------------------------------------------------------------------
(* The inductive invariant *)

\* How many processes of the command have been forked, and the pid of the
\* one the shell is about to fork or has just forked.
Started == IF pc = "forked" THEN i + 1 ELSE i
Latest == IF pc = "forked" THEN Forks ELSE NextPid

Forking == pc \in {"pipe", "fork", "forked"}

\* The command is one of those main() lets through, and its processes are
\* within the bound.
CommandOk ==
    /\ cmd \in [n : Nat, wait : BOOLEAN, stdin : BOOLEAN, stdout : BOOLEAN]
    /\ Forking => i < cmd.n /\ Forks + cmd.n - Started <= MaxForks

\* Pids are given out in order.
ForksInOrder ==
    /\ Forks \in 0 .. MaxForks
    /\ \A p \in Pids : kid[p] # "none" <=> p <= Forks

\* Each process of the command is in the tree until it has been reaped.
InTree ==
    Forking \/ pc = "wait" =>
        /\ Started <= Forks
        /\ \A p \in Forks - Started + 1 .. Forks : p \in pids \/ kid[p] \in {"unborn", "reaped"}

\* The three standard files, the read end prev of the pipe before process k,
\* if there is one, and the ends of the pipe behind it, if there is one.
FilesOf(from, prev, to, pair, k) ==
    [f \in Fds |-> IF f <= 2 THEN Table[f]
                   ELSE IF from /\ f = prev THEN ReadEnd(k - 1)
                   ELSE IF to /\ f = pair[1] THEN ReadEnd(k)
                   ELSE IF to /\ f = pair[2] THEN WriteEnd(k)
                   ELSE Closed]

\* These are different, and none of them is a standard file.
Apart(from, prev, to, pair) ==
    /\ from => prev \in 3 .. 7
    /\ to => pair[1] \in 3 .. 7 /\ pair[2] \in 3 .. 7 /\ pair[1] # pair[2]
    /\ from /\ to => prev # pair[1] /\ prev # pair[2]

ShellFiles ==
    /\ pipefd \in (Fds \cup {NoFd}) \X (Fds \cup {NoFd})
    /\ pc \in {"prompt", "wait"} => fd[Shell] = Table
    /\ pc = "pipe" => /\ fd[Shell] = FilesOf(i > 0, prevFd, FALSE, pipefd, Latest)
                      /\ Apart(i > 0, prevFd, FALSE, pipefd)
    /\ pc \in {"fork", "forked"} =>
                      /\ fd[Shell] = FilesOf(i > 0, prevFd, HasNext, pipefd, Latest)
                      /\ Apart(i > 0, prevFd, HasNext, pipefd)

\* What the standard input and output of a program should be.
InputFile(p) == IF job[p].i > 0 THEN ReadEnd(p - 1) ELSE IF job[p].stdin THEN InFile ELSE Stdin
OutputFile(p) == IF job[p].next THEN WriteEnd(p) ELSE IF job[p].stdout THEN OutFile ELSE Stdout

\* What a child has open, from its fork() to its execvp().
ChildFiles(p) ==
    LET from == job[p].i > 0
        prev == job[p].prevFd
        to == job[p].next
        pair == job[p].pipefd
    IN  /\ from => p > 1
        /\ kid[p] = "forked" => fd[p] = FilesOf(from, prev, to, pair, p) /\ Apart(from, prev, to, pair)
        /\ kid[p] = "redirected" =>
             /\ fd[p] = [FilesOf(FALSE, prev, to, pair, p) EXCEPT ![0] = InputFile(p)]
             /\ Apart(FALSE, prev, to, pair)
        /\ kid[p] \in {"ready", "running"} =>
             fd[p] = [Table EXCEPT ![0] = InputFile(p), ![1] = OutputFile(p)]

IInv ==
    /\ TypeOK
    /\ CommandOk
    /\ ForksInOrder
    /\ InTree
    /\ AllWaitedFor
    /\ ShellFiles
    /\ \A p \in Pids : ChildFiles(p)

-----------------------------------------------------------------------------
(* Open files *)

\* An end of a pipe is neither another file nor closed, and says which it is.
LEMMA FileNames ==
    /\ {Stdin, Stdout, Stderr, InFile, OutFile} \cap {Closed} = {}
    /\ \A file \in {Closed, Stdin, Stdout, Stderr, InFile, OutFile} : file[1] \notin {"read", "write"}
    /\ \A k : /\ ReadEnd(k) # Closed /\ ReadEnd(k)[1] = "read" /\ ReadEnd(k)[2] = k
              /\ WriteEnd(k) # Closed /\ WriteEnd(k)[1] = "write" /\ WriteEnd(k)[2] = k
    /\ {Closed, Stdin, Stdout, Stderr, InFile, OutFile} \subseteq Files
    /\ \A k \in Pids : ReadEnd(k) \in Files /\ WriteEnd(k) \in Files
  BY DEF Closed, Stdin, Stdout, Stderr, InFile, OutFile, ReadEnd, WriteEnd, Files

LEMMA Bounds == MaxForks \in Nat /\ Items \in Nat /\ Capacity \in Nat /\ Capacity > 0
  BY JshellAssumption

\* What a file that begins with "read" or "write" is.
LEMMA PipeEnds ==
    ASSUME NEW file \in Files, file[1] \in {"read", "write"}
    PROVE  file[2] \in Pids
<1>1. PICK k \in Pids : file = ReadEnd(k) \/ file = WriteEnd(k)
  BY FileNames DEF Files
<1> QED
  BY <1>1, FileNames

\* The files of a program started from a terminal.
LEMMA TableFiles ==
    /\ Table \in [Fds -> Files]
    /\ Table[0] = Stdin /\ Table[1] = Stdout /\ Table[2] = Stderr
    /\ \A f \in 3 .. 7 : Table[f] = Closed
  BY FileNames DEF Table, Fds

\* The least of a set of file descriptors is one of them.
LEMMA LeastIsOne ==
    ASSUME NEW S \in SUBSET Fds, S # {}
    PROVE  Min(S) \in S
<1>1. \E x \in S : \A y \in S : x <= y
  <2>1. \A y \in S : y \in 0 .. 7
    BY DEF Fds
  <2>2. \A y \in S : y >= 4 => y \in {4, 5, 6, 7}
    BY <2>1
  <2>3. \A y \in S : y < 4 => y \in {0, 1, 2, 3}
    BY <2>1
  <2>4. CASE \E y \in S : y < 4
    <3>1. CASE 0 \in S
      BY <2>1, <3>1
    <3>2. CASE 0 \notin S /\ 1 \in S
      BY <2>1, <3>2
    <3>3. CASE 0 \notin S /\ 1 \notin S /\ 2 \in S
      BY <2>1, <3>3
    <3>4. CASE 0 \notin S /\ 1 \notin S /\ 2 \notin S /\ 3 \in S
      BY <2>1, <3>4
    <3> QED
      BY <2>3, <2>4, <3>1, <3>2, <3>3, <3>4
  <2>5. CASE \A y \in S : y >= 4
    <3>1. CASE 4 \in S
      BY <2>1, <2>5, <3>1
    <3>2. CASE 4 \notin S /\ 5 \in S
      BY <2>1, <2>5, <3>2
    <3>3. CASE 4 \notin S /\ 5 \notin S /\ 6 \in S
      BY <2>1, <2>5, <3>3
    <3>4. CASE 4 \notin S /\ 5 \notin S /\ 6 \notin S /\ 7 \in S
      BY <2>1, <2>5, <3>4
    <3> QED
      BY <2>2, <2>5, <3>1, <3>2, <3>3, <3>4
  <2> QED
    BY <2>1, <2>4, <2>5
<1> QED
  BY <1>1 DEF Min

\* FilesOf is a table, whose closed descriptors are known.
LEMMA FilesOfIsTable ==
    ASSUME NEW from \in BOOLEAN, NEW prev, NEW to \in BOOLEAN, NEW pair, NEW k \in Pids,
           from => k > 1
    PROVE  /\ FilesOf(from, prev, to, pair, k) \in [Fds -> Files]
           /\ \A f \in Fds : FilesOf(from, prev, to, pair, k)[f] = Closed <=>
                 f > 2 /\ ~(from /\ f = prev) /\ ~(to /\ (f = pair[1] \/ f = pair[2]))
<1>1. from => k - 1 \in Pids
  BY Bounds DEF Pids
<1>2. \A f \in {0, 1, 2} : Table[f] # Closed /\ Table[f] \in Files
  BY TableFiles, FileNames
<1>3. \A f \in Fds : f <= 2 <=> f \in {0, 1, 2}
  BY DEF Fds
<1> QED
  BY <1>1, <1>2, <1>3, FileNames DEF FilesOf, Fds

\* Whatever pipes it has, a process can open another file, and that is none
\* of those it has.
LEMMA AnotherFile ==
    ASSUME NEW from \in BOOLEAN, NEW prev, NEW to \in BOOLEAN, NEW pair, NEW k \in Pids,
           from => k > 1
    PROVE  LET t == FilesOf(from, prev, to, pair, k)
           IN  /\ Min(FreeFds(t)) \in FreeFds(t)
               /\ FreeFds(t) = {f \in 3 .. 7 : ~(from /\ f = prev) /\ ~(to /\ (f = pair[1] \/ f = pair[2]))}
<1> DEFINE t == FilesOf(from, prev, to, pair, k)
<1>1. FreeFds(t) = {f \in 3 .. 7 : ~(from /\ f = prev) /\ ~(to /\ (f = pair[1] \/ f = pair[2]))}
  BY FilesOfIsTable DEF FreeFds, Fds
<1>2. FreeFds(t) # {}
  <2>1. \E f \in 3 .. 7 : f # prev /\ f # pair[1] /\ f # pair[2]
    <3>1. {3, 4, 5, 6} \subseteq 3 .. 7
      OBVIOUS
    <3>2. \E f \in {3, 4, 5, 6} : f # prev /\ f # pair[1] /\ f # pair[2]
      OBVIOUS
    <3> QED
      BY <3>1, <3>2
  <2> QED
    BY <1>1, <2>1
<1>3. FreeFds(t) \in SUBSET Fds
  BY DEF FreeFds
<1>4. Min(FreeFds(t)) \in FreeFds(t)
  BY <1>2, <1>3, LeastIsOne
<1> QED
  BY <1>1, <1>4

\* A child's standard input is set, and the read end it came from closed.
LEMMA InputIsSet ==
    ASSUME NEW p \in Pids, ChildFiles(p), kid[p] = "forked", job[p] \in Job
    PROVE  /\ InputOf(p) = [FilesOf(FALSE, job[p].prevFd, job[p].next, job[p].pipefd, p)
                              EXCEPT ![0] = InputFile(p)]
           /\ Apart(FALSE, job[p].prevFd, job[p].next, job[p].pipefd)
<1> DEFINE from == job[p].i > 0
           prev == job[p].prevFd
           to == job[p].next
           pair == job[p].pipefd
           t == FilesOf(from, prev, to, pair, p)
           u == FilesOf(FALSE, prev, to, pair, p)
           new == Min(FreeFds(t))
<1>1. fd[p] = t /\ Apart(from, prev, to, pair) /\ (from => p > 1)
  BY DEF ChildFiles
<1>2. t \in [Fds -> Files] /\ u \in [Fds -> Files] /\ new \in FreeFds(t)
  <2>1. from \in BOOLEAN /\ to \in BOOLEAN
    BY DEF Job
  <2> HIDE DEF from, to, prev, pair
  <2>2. t \in [Fds -> Files] /\ new \in FreeFds(t)
    BY <1>1, <2>1, FilesOfIsTable, AnotherFile
  <2>3. u \in [Fds -> Files]
    BY <1>1, <2>1, FilesOfIsTable
  <2> QED
    BY <2>2, <2>3
<1>3. t[0] = Stdin
  BY TableFiles DEF FilesOf, Fds
<1>4. CASE from
  <2>1. /\ prev \in 3 .. 7 /\ t[prev] = ReadEnd(p - 1)
    BY <1>1, <1>4 DEF Apart, FilesOf, Fds
  <2>2. InputOf(p) = [[t EXCEPT ![0] = ReadEnd(p - 1)] EXCEPT ![prev] = Closed]
    BY <1>1, <1>4, <2>1 DEF InputOf, Close, Dup2
  <2>3. \A f \in Fds : f # 0 /\ f # prev => t[f] = u[f]
    BY <1>4 DEF FilesOf
  <2>4. u[prev] = Closed
    BY <1>1, <1>4, <2>1 DEF Apart, FilesOf, Fds
  <2>5. InputFile(p) = ReadEnd(p - 1)
    BY <1>4 DEF InputFile
  <2>6. 0 # prev /\ 0 \in Fds /\ prev \in Fds
    BY <2>1 DEF Fds
  <2> HIDE DEF t, u, prev
  <2>7. [[t EXCEPT ![0] = ReadEnd(p - 1)] EXCEPT ![prev] = Closed] = [u EXCEPT ![0] = ReadEnd(p - 1)]
    BY <1>2, <2>3, <2>4, <2>6
  <2> QED
    BY <1>1, <2>2, <2>5, <2>7 DEF Apart, u, prev
<1>5. CASE ~from
  <2>1. t = u
    BY <1>5 DEF FilesOf
  <2>2. new \in 3 .. 7 /\ t[new] = Closed
    <3>1. from \in BOOLEAN /\ to \in BOOLEAN
      BY DEF Job
    <3> HIDE DEF from, to, prev, pair
    <3>2. FreeFds(t) \subseteq 3 .. 7
      BY <1>1, <1>5, <3>1, AnotherFile
    <3> QED
      BY <1>2, <3>2 DEF FreeFds
  <2>3. CASE job[p].stdin
    <3>1. InputOf(p) = [[[t EXCEPT ![new] = InFile] EXCEPT ![0] = InFile] EXCEPT ![new] = Closed]
      <4>1. [t EXCEPT ![new] = InFile][new] = InFile
        BY <1>2, <2>2 DEF Fds
      <4> QED
        BY <1>1, <1>5, <2>3, <4>1 DEF InputOf, Close, Dup2, Open
    <3>2. InputFile(p) = InFile
      BY <1>5, <2>3 DEF InputFile
    <3>3. 0 # new /\ 0 \in Fds /\ new \in Fds
      BY <2>2 DEF Fds
    <3> HIDE DEF t, u, new
    <3>4. [[[t EXCEPT ![new] = InFile] EXCEPT ![0] = InFile] EXCEPT ![new] = Closed]
            = [u EXCEPT ![0] = InFile]
      BY <1>2, <2>1, <2>2, <3>3
    <3> QED
      BY <1>1, <3>1, <3>2, <3>4 DEF Apart, u
  <2>4. CASE ~job[p].stdin
    <3>1. InputOf(p) = t
      BY <1>1, <1>5, <2>4 DEF InputOf
    <3>2. InputFile(p) = Stdin
      BY <1>5, <2>4 DEF InputFile
    <3> HIDE DEF t, u, new
    <3>4. t = [u EXCEPT ![0] = Stdin]
      BY <1>2, <1>3, <2>1 DEF Fds
    <3> QED
      BY <1>1, <3>1, <3>2, <3>4 DEF Apart, u
  <2> QED
    BY <2>3, <2>4
<1> QED
  BY <1>4, <1>5

\* Then its standard output, and both ends of the pipe closed.
LEMMA OutputIsSet ==
    ASSUME NEW p \in Pids, ChildFiles(p), kid[p] = "redirected", job[p] \in Job
    PROVE  OutputOf(p) = [Table EXCEPT ![0] = InputFile(p), ![1] = OutputFile(p)]
<1> DEFINE prev == job[p].prevFd
           to == job[p].next
           pair == job[p].pipefd
           u == FilesOf(FALSE, prev, to, pair, p)
           t == [u EXCEPT ![0] = InputFile(p)]
           new == Min(FreeFds(t))
<1>1. fd[p] = t /\ Apart(FALSE, prev, to, pair)
  BY DEF ChildFiles
<1>2. InputFile(p) # Closed
  BY FileNames DEF InputFile
<1>3. u \in [Fds -> Files] /\ Min(FreeFds(u)) \in FreeFds(u) /\ FreeFds(u) \subseteq 3 .. 7
  <2>1. to \in BOOLEAN
    BY DEF Job
  <2> HIDE DEF to, prev, pair
  <2>2. u \in [Fds -> Files]
    BY <2>1, FilesOfIsTable
  <2>3. Min(FreeFds(u)) \in FreeFds(u)
    BY <2>1, AnotherFile
  <2>4. \A f \in Fds : f <= 2 => u[f] # Closed
    <3>1. \A f \in {0, 1, 2} : Table[f] # Closed
      BY TableFiles, FileNames
    <3>2. \A f \in Fds : f <= 2 => f \in {0, 1, 2}
      BY DEF Fds
    <3>3. \A f \in Fds : f <= 2 => u[f] = Table[f]
      BY DEF FilesOf
    <3> HIDE DEF u
    <3> QED
      BY <3>1, <3>2, <3>3
  <2>5. FreeFds(u) \subseteq 3 .. 7
    <3> HIDE DEF u
    <3> QED
      BY <2>4 DEF FreeFds, Fds
  <2> QED
    BY <2>2, <2>3, <2>5
<1>4. u[0] = Stdin /\ u[1] = Stdout
  BY TableFiles DEF FilesOf, Fds
<1>5. \A f \in Fds : f <= 2 => u[f] = Table[f]
  BY DEF FilesOf
<1>6. Table \in [Fds -> Files] /\ \A f \in 3 .. 7 : Table[f] = Closed
  BY TableFiles
<1>7. \A f \in Fds : f <= 2 \/ f \in 3 .. 7
  BY DEF Fds
<1>8. CASE to
  <2> DEFINE a == pair[1]
             b == pair[2]
  <2>1. a \in 3 .. 7 /\ b \in 3 .. 7 /\ a # b /\ u[a] = ReadEnd(p) /\ u[b] = WriteEnd(p)
    BY <1>1, <1>8 DEF Apart, FilesOf, Fds
  <2>2. \A f \in Fds : f # a /\ f # b => u[f] = Table[f]
    BY <1>6, <1>7 DEF FilesOf
  <2>3. OutputFile(p) = WriteEnd(p)
    BY <1>8 DEF OutputFile
  <2>4. 0 \in Fds /\ 1 \in Fds /\ a \in Fds /\ b \in Fds /\ 0 # a /\ 0 # b /\ 1 # a /\ 1 # b
    BY <2>1 DEF Fds
  <2>5. OutputOf(p) = [[[t EXCEPT ![1] = t[b]] EXCEPT ![a] = Closed] EXCEPT ![b] = Closed]
    BY <1>1, <1>8 DEF OutputOf, Close, Dup2
  <2> HIDE DEF u, a, b
  <2>6. t[b] = WriteEnd(p)
    BY <1>3, <2>1, <2>4
  <2>7. [[[t EXCEPT ![1] = WriteEnd(p)] EXCEPT ![a] = Closed] EXCEPT ![b] = Closed]
          = [Table EXCEPT ![0] = InputFile(p), ![1] = WriteEnd(p)]
    BY <1>3, <1>6, <2>1, <2>2, <2>4
  <2> QED
    BY <2>3, <2>5, <2>6, <2>7
<1>9. CASE ~to
  <2>1. u = Table
    BY <1>6, <1>7, <1>9 DEF FilesOf
  <2>2. CASE job[p].stdout
    <3>1. FreeFds(t) = FreeFds(u)
      <4> HIDE DEF u
      <4> QED
        BY <1>2, <1>3, <1>4, FileNames DEF FreeFds, Fds
    <3>2. new \in 3 .. 7 /\ new \in Fds /\ 0 \in Fds /\ 1 \in Fds /\ Table[new] = Closed
      <4>1. new \in 3 .. 7
        <5> HIDE DEF t, u
        <5> QED
          BY <1>3, <3>1
      <4> HIDE DEF new
      <4> QED
        BY <1>6, <4>1 DEF Fds
    <3>3. OutputFile(p) = OutFile
      BY <1>9, <2>2 DEF OutputFile
    <3>4. OutputOf(p) = [[[t EXCEPT ![new] = OutFile] EXCEPT ![1] = OutFile] EXCEPT ![new] = Closed]
      <4>1. [t EXCEPT ![new] = OutFile][new] = OutFile
        BY <1>3, <3>2
      <4> QED
        BY <1>1, <1>9, <2>2, <4>1 DEF OutputOf, Close, Dup2, Open
    <3>5. 0 # new /\ 1 # new
      BY <3>2
    <3> HIDE DEF u, new
    <3>6. [[[t EXCEPT ![new] = OutFile] EXCEPT ![1] = OutFile] EXCEPT ![new] = Closed]
            = [Table EXCEPT ![0] = InputFile(p), ![1] = OutFile]
      BY <1>6, <2>1, <3>2, <3>5
    <3> QED
      BY <3>3, <3>4, <3>6
  <2>3. CASE ~job[p].stdout
    <3>1. OutputOf(p) = t
      BY <1>1, <1>9, <2>3 DEF OutputOf
    <3>2. OutputFile(p) = Stdout
      BY <1>9, <2>3 DEF OutputFile
    <3> HIDE DEF u
    <3>3. t = [Table EXCEPT ![0] = InputFile(p), ![1] = Stdout]
      <4>1. 0 \in Fds /\ 1 \in Fds
        BY DEF Fds
      <4>2. Table[1] = Stdout
        BY TableFiles
      <4> DEFINE g == [Table EXCEPT ![0] = InputFile(p)]
      <4>3. t = g /\ g[1] = Stdout /\ DOMAIN g = Fds
        BY <1>6, <2>1, <4>1, <4>2
      <4> QED
        BY <4>1, <4>3
    <3> QED
      BY <3>1, <3>2, <3>3
  <2> QED
    BY <2>2, <2>3
<1> QED
  BY <1>8, <1>9

\* Without a pipe on either side there are the standard files.
LEMMA NoPipes ==
    ASSUME NEW prev, NEW pair, NEW k
    PROVE  FilesOf(FALSE, prev, FALSE, pair, k) = Table
<1>1. \A f \in Fds : f <= 2 \/ f \in 3 .. 7
  BY DEF Fds
<1> QED
  BY <1>1, TableFiles DEF FilesOf

\* Once a process is forked, what the shell keeps open is the read end of the
\* pipe behind it.
LEMMA OneEndIsKept ==
    ASSUME NEW k \in Pids, i \in Nat, i > 0 => k > 1, Apart(i > 0, prevFd, HasNext, pipefd)
    PROVE  AfterFork(FilesOf(i > 0, prevFd, HasNext, pipefd, k))
             = FilesOf(HasNext, pipefd[1], FALSE, pipefd, k + 1)
<1> DEFINE from == i > 0
           to == HasNext
           a == pipefd[1]
           b == pipefd[2]
           t == FilesOf(from, prevFd, to, pipefd, k)
           u == FilesOf(to, a, FALSE, pipefd, k + 1)
<1>1. from \in BOOLEAN /\ to \in BOOLEAN /\ (from => k > 1)
  BY DEF HasNext
<1>2. t \in [Fds -> Files]
  <2> HIDE DEF from, to
  <2> QED
    BY <1>1, FilesOfIsTable
<1>3. \A f \in Fds : f <= 2 \/ f \in 3 .. 7
  BY DEF Fds
<1>4. DOMAIN u = Fds /\ DOMAIN t = Fds /\ u = [f \in Fds |-> u[f]]
  BY DEF FilesOf
<1>6. \A f \in Fds : u[f] = IF f <= 2 THEN Table[f] ELSE IF to /\ f = a THEN ReadEnd(k) ELSE Closed
  <2> SUFFICES ASSUME NEW f \in Fds
               PROVE  u[f] = IF f <= 2 THEN Table[f] ELSE IF to /\ f = a THEN ReadEnd(k) ELSE Closed
    OBVIOUS
  <2> DEFINE next == k + 1
  <2>1. next - 1 = k
    BY Bounds DEF Pids
  <2>2. u = FilesOf(to, a, FALSE, pipefd, next)
    OBVIOUS
  <2> HIDE DEF to, a, next, u
  <2>3. u[f] = IF f <= 2 THEN Table[f] ELSE IF to /\ f = a THEN ReadEnd(next - 1) ELSE Closed
    BY <2>2 DEF FilesOf
  <2> QED
    BY <2>1, <2>3
<1>7. \A f \in Fds : ~(from /\ f = prevFd) /\ ~(to /\ f = b) => t[f] = u[f]
  BY <1>6 DEF FilesOf
<1>8. /\ from => prevFd \in 3 .. 7 /\ prevFd \in Fds /\ (to => prevFd # a)
      /\ to => b \in 3 .. 7 /\ b \in Fds /\ b # a
  BY DEF Apart, Fds
<1>9. /\ from => u[prevFd] = Closed
      /\ to => u[b] = Closed
  <2>1. \A f \in 3 .. 7 : f \in Fds /\ ~(f <= 2)
    BY DEF Fds
  <2> HIDE DEF from, to, a, b, u
  <2> QED
    BY <1>6, <1>8, <2>1
<1>10. AfterFork(t) = LET t1 == IF from THEN [t EXCEPT ![prevFd] = Closed] ELSE t
                      IN  IF to THEN [t1 EXCEPT ![b] = Closed] ELSE t1
  BY DEF AfterFork, Close
<1> HIDE DEF from, to, a, b, t, u
<1>11. CASE from /\ to
  <2>1. [[t EXCEPT ![prevFd] = Closed] EXCEPT ![b] = Closed] = u
    BY <1>4, <1>7, <1>8, <1>9, <1>11
  <2> QED
    BY <1>10, <1>11, <2>1 DEF from, to, a, t, u
<1>12. CASE from /\ ~to
  <2>1. [t EXCEPT ![prevFd] = Closed] = u
    BY <1>4, <1>7, <1>8, <1>9, <1>12
  <2> QED
    BY <1>10, <1>12, <2>1 DEF from, to, a, t, u
<1>13. CASE ~from /\ to
  <2>1. [t EXCEPT ![b] = Closed] = u
    BY <1>4, <1>7, <1>8, <1>9, <1>13
  <2> QED
    BY <1>10, <1>13, <2>1 DEF from, to, a, t, u
<1>14. CASE ~from /\ ~to
  <2>1. t = u
    BY <1>4, <1>7, <1>14 DEF t, FilesOf
  <2> QED
    BY <1>10, <1>14, <2>1 DEF from, to, a, t, u
<1> QED
  BY <1>1, <1>11, <1>12, <1>13, <1>14

-----------------------------------------------------------------------------
(* Pids *)

\* The next fork gets the next pid.
LEMMA NextIsCounted ==
    ASSUME TypeOK, ForksInOrder, Forks < MaxForks, NEW s, s # "none",
           kid' = [kid EXCEPT ![NextPid] = s]
    PROVE  NextPid \in Pids /\ Forks' = Forks + 1 /\ ForksInOrder'
<1> DEFINE n == Forks
<1>1. n \in Nat /\ n < MaxForks /\ MaxForks \in Nat /\ NextPid = n + 1
  BY Bounds DEF ForksInOrder, NextPid
<1>2. \A p \in Pids : kid[p] # "none" <=> p <= n
  BY DEF ForksInOrder
<1> HIDE DEF n
<1>3. n + 1 \in Pids
  BY <1>1 DEF Pids
<1>4. \A p \in Pids : kid'[p] # "none" <=> p <= n + 1
  BY <1>1, <1>2, <1>3 DEF TypeOK, Pids
<1>5. {p \in Pids : kid'[p] # "none"} = 1 .. n + 1
  BY <1>1, <1>4 DEF Pids
<1>6. Cardinality(1 .. n + 1) = n + 1
  BY <1>1, FS_Interval
<1>7. Forks' = n + 1
  BY <1>5, <1>6, Zenon DEF Forks
<1>8. n + 1 \in 0 .. MaxForks
  BY <1>1
<1> QED
  BY <1>1, <1>3, <1>4, <1>7, <1>8 DEF ForksInOrder, n

\* A child that goes on does not count again.
LEMMA SameCount ==
    ASSUME TypeOK, ForksInOrder, NEW p \in Pids, kid[p] # "none", NEW s, s # "none",
           kid' = [kid EXCEPT ![p] = s]
    PROVE  Forks' = Forks /\ ForksInOrder'
<1>1. \A q \in Pids : kid'[q] # "none" <=> kid[q] # "none"
  BY DEF TypeOK
<1>2. {q \in Pids : kid'[q] # "none"} = {q \in Pids : kid[q] # "none"}
  BY <1>1
<1>3. Forks' = Forks
  BY <1>2, Zenon DEF Forks
<1> QED
  BY <1>1, <1>3 DEF ForksInOrder

-----------------------------------------------------------------------------
(* The steps of a child, and wait() *)

\* What a step of one child, or the shell's wait() for it, has to respect.
LEMMA ChildMoves ==
    ASSUME IInv, NEW p \in Pids, kid[p] \notin {"none", "unborn", "reaped"},
           NEW s \in {"redirected", "ready", "running", "zombie", "reaped"},
           kid' = [kid EXCEPT ![p] = s],
           NEW t \in [Fds -> Files], fd' = [fd EXCEPT ![p] = t],
           work' \in [Pids -> 0 .. Max({Items, 1})], pipe' \in [Pids -> 0 .. Capacity],
           UNCHANGED <<pc, cmd, i, prevFd, pipefd, job>>,
           pids' = pids \/ (s = "reaped" /\ pids' = pids \ {p}),
           ChildFiles(p)'
    PROVE  IInv'
<1>1. TypeOK'
  BY DEF IInv, TypeOK
<1>2. Forks' = Forks /\ ForksInOrder'
  BY SameCount DEF IInv
<1>3. NextPid' = NextPid /\ Latest' = Latest /\ Started' = Started
  BY <1>2 DEF NextPid, Latest, Started
<1>4. CommandOk'
  BY <1>2, <1>3 DEF IInv, CommandOk, Forking
<1>5. \A q \in Pids : kid[q] \in {"unborn", "reaped"} => kid'[q] \in {"unborn", "reaped"}
  BY DEF IInv, TypeOK
<1>6. \A q \in Pids : q \in pids => q \in pids' \/ kid'[q] \in {"unborn", "reaped"}
  BY DEF IInv, TypeOK
<1>7. Forks \in Nat /\ Forks <= MaxForks /\ MaxForks \in Nat
  BY Bounds DEF IInv, ForksInOrder
<1>8. i \in Nat
  BY DEF IInv, TypeOK, CommandOk
<1>9. InTree'
  <2> SUFFICES ASSUME Forking \/ pc = "wait"
               PROVE  /\ Started <= Forks
                      /\ \A q \in Forks - Started + 1 .. Forks : q \in pids' \/ kid'[q] \in {"unborn", "reaped"}
    BY <1>2, <1>3 DEF InTree, Forking
  <2>1. Started <= Forks
    BY DEF IInv, InTree
  <2>2. \A q \in Forks - Started + 1 .. Forks : q \in Pids /\ (q \in pids \/ kid[q] \in {"unborn", "reaped"})
    BY <1>7, <1>8, <2>1 DEF IInv, InTree, Started, Pids
  <2> QED
    BY <1>5, <1>6, <2>1, <2>2
<1>10. AllWaitedFor'
  <2> SUFFICES ASSUME pc = "prompt", cmd.wait, NEW q \in Forks - i + 1 .. Forks
               PROVE  kid'[q] \in {"unborn", "reaped"}
    BY <1>2 DEF AllWaitedFor
  <2>1. kid[q] \in {"unborn", "reaped"}
    BY DEF IInv, AllWaitedFor
  <2> QED
    BY <2>1 DEF IInv, TypeOK
<1>11. ShellFiles'
  <2>1. fd'[Shell] = fd[Shell]
    BY Bounds DEF IInv, TypeOK, Shell, Pids
  <2>2. HasNext' = HasNext
    BY DEF HasNext
  <2> QED
    BY <1>3, <2>1, <2>2 DEF IInv, ShellFiles
<1>12. ASSUME NEW q \in Pids, q # p
       PROVE  ChildFiles(q)'
  <2>1. fd'[q] = fd[q] /\ kid'[q] = kid[q] /\ job'[q] = job[q]
    BY <1>12 DEF IInv, TypeOK
  <2>2. InputFile(q)' = InputFile(q) /\ OutputFile(q)' = OutputFile(q)
    BY DEF InputFile, OutputFile
  <2> QED
    BY <2>1, <2>2 DEF IInv, ChildFiles
<1> QED
  BY <1>1, <1>2, <1>4, <1>9, <1>10, <1>11, <1>12 DEF IInv

\* What a program may have to write, and that taking some away is in bounds.
LEMMA Amounts ==
    LET top == Max({Items, 1})
    IN  /\ {0, 1, Items} \subseteq 0 .. top
        /\ \A w \in 0 .. top : w > 0 => w - 1 \in 0 .. top
<1>1. \E x \in {Items, 1} : \A y \in {Items, 1} : x >= y
  BY Bounds
<1>2. Max({Items, 1}) \in Nat /\ Items <= Max({Items, 1}) /\ 1 <= Max({Items, 1})
  BY <1>1, Bounds DEF Max
<1> QED
  BY <1>2, Bounds

\* A child that ends, for whatever reason.
LEMMA ExitPreserves ==
    ASSUME IInv, NEW p \in Pids, kid[p] \notin {"none", "unborn", "reaped"}, Exit(p)
    PROVE  IInv'
<1>1. NoFiles \in [Fds -> Files]
  BY FileNames DEF NoFiles
<1>2. work' \in [Pids -> 0 .. Max({Items, 1})]
  <2> DEFINE W == 0 .. Max({Items, 1})
  <2>1. 0 \in W /\ work \in [Pids -> W]
    BY Amounts DEF IInv, TypeOK
  <2> HIDE DEF W
  <2>2. work' \in [Pids -> W]
    BY <2>1 DEF Exit
  <2> QED
    BY <2>2 DEF W
<1>3. ChildFiles(p)'
  BY DEF Exit, ChildFiles, IInv, TypeOK
<1> QED
  BY <1>1, <1>2, <1>3, ChildMoves DEF Exit, IInv, TypeOK

\* Standard input, standard output, execvp().
LEMMA ChildInputPreserves ==
    ASSUME IInv, NEW p \in Pids, ChildInput(p)
    PROVE  IInv'
<1> DEFINE t == InputOf(p)
<1>1. CASE Exit(p)
  BY <1>1, ExitPreserves DEF ChildInput
<1>2. CASE /\ kid' = [kid EXCEPT ![p] = "redirected"]
           /\ fd' = [fd EXCEPT ![p] = t]
           /\ UNCHANGED <<pc, cmd, i, prevFd, pipefd, pids, job, work, pipe>>
  <2>1. kid[p] = "forked" /\ ChildFiles(p) /\ job[p] \in Job
    BY DEF ChildInput, IInv, TypeOK
  <2>2. /\ t = [FilesOf(FALSE, job[p].prevFd, job[p].next, job[p].pipefd, p) EXCEPT ![0] = InputFile(p)]
        /\ Apart(FALSE, job[p].prevFd, job[p].next, job[p].pipefd)
    BY <2>1, InputIsSet
  <2>3. InputFile(p) \in Files
    <3>1. job[p].i > 0 => p - 1 \in Pids
      BY <2>1, Bounds DEF ChildFiles, Pids
    <3> QED
      BY <3>1, FileNames DEF InputFile
  <2>4. t \in [Fds -> Files]
    <3> DEFINE prev == job[p].prevFd
               to == job[p].next
               pair == job[p].pipefd
    <3>1. to \in BOOLEAN
      BY <2>1 DEF Job
    <3>2. FilesOf(FALSE, prev, to, pair, p) \in [Fds -> Files]
      <4> HIDE DEF prev, to, pair
      <4> QED
        BY <3>1, FilesOfIsTable
    <3> QED
      BY <2>2, <2>3, <3>2
  <2>5. kid'[p] = "redirected" /\ fd'[p] = t /\ job' = job
    BY <1>2 DEF IInv, TypeOK
  <2>6. ChildFiles(p)'
    BY <2>1, <2>2, <2>5 DEF ChildFiles, InputFile
  <2> HIDE DEF t
  <2>7. work' \in [Pids -> 0 .. Max({Items, 1})] /\ pipe' \in [Pids -> 0 .. Capacity]
    BY <1>2 DEF IInv, TypeOK
  <2> QED
    BY <1>2, <2>1, <2>4, <2>6, <2>7, ChildMoves
<1> QED
  BY <1>1, <1>2 DEF ChildInput

LEMMA ChildOutputPreserves ==
    ASSUME IInv, NEW p \in Pids, ChildOutput(p)
    PROVE  IInv'
<1> DEFINE t == OutputOf(p)
<1>1. CASE Exit(p)
  BY <1>1, ExitPreserves DEF ChildOutput
<1>2. CASE /\ kid' = [kid EXCEPT ![p] = "ready"]
           /\ fd' = [fd EXCEPT ![p] = t]
           /\ UNCHANGED <<pc, cmd, i, prevFd, pipefd, pids, job, work, pipe>>
  <2>1. kid[p] = "redirected" /\ ChildFiles(p) /\ job[p] \in Job
    BY DEF ChildOutput, IInv, TypeOK
  <2>2. t = [Table EXCEPT ![0] = InputFile(p), ![1] = OutputFile(p)]
    BY <2>1, OutputIsSet
  <2>3. InputFile(p) \in Files /\ OutputFile(p) \in Files
    <3>1. job[p].i > 0 => p - 1 \in Pids
      BY <2>1, Bounds DEF ChildFiles, Pids
    <3> QED
      BY <3>1, FileNames DEF InputFile, OutputFile
  <2>4. t \in [Fds -> Files]
    BY <2>2, <2>3, TableFiles
  <2>5. kid'[p] = "ready" /\ fd'[p] = t /\ job' = job
    BY <1>2 DEF IInv, TypeOK
  <2>6. ChildFiles(p)'
    BY <2>1, <2>2, <2>5 DEF ChildFiles, InputFile, OutputFile
  <2> HIDE DEF t
  <2>7. work' \in [Pids -> 0 .. Max({Items, 1})] /\ pipe' \in [Pids -> 0 .. Capacity]
    BY <1>2 DEF IInv, TypeOK
  <2> QED
    BY <1>2, <2>1, <2>4, <2>6, <2>7, ChildMoves
<1> QED
  BY <1>1, <1>2 DEF ChildOutput

\* A step of the program itself, that leaves its files as they are.
LEMMA ProgramMoves ==
    ASSUME IInv, NEW p \in Pids, kid[p] \in {"ready", "running"},
           kid' = [kid EXCEPT ![p] = "running"],
           NEW w \in 0 .. Max({Items, 1}), work' = [work EXCEPT ![p] = w],
           pipe' \in [Pids -> 0 .. Capacity],
           UNCHANGED <<pc, cmd, i, prevFd, pipefd, pids, fd, job>>
    PROVE  IInv'
<1>1. fd[p] \in [Fds -> Files] /\ fd' = [fd EXCEPT ![p] = fd[p]]
  BY DEF IInv, TypeOK
<1>2. kid'[p] = "running"
  BY DEF IInv, TypeOK
<1>3. ChildFiles(p)'
  BY <1>2 DEF IInv, ChildFiles, InputFile, OutputFile
<1>4. work' \in [Pids -> 0 .. Max({Items, 1})]
  <2> DEFINE W == 0 .. Max({Items, 1})
  <2>1. w \in W /\ work \in [Pids -> W]
    BY DEF IInv, TypeOK
  <2> HIDE DEF W
  <2>2. work' \in [Pids -> W]
    BY <2>1
  <2> QED
    BY <2>2 DEF W
<1> QED
  BY <1>1, <1>3, <1>4, ChildMoves

LEMMA ChildExecPreserves ==
    ASSUME IInv, NEW p \in Pids, ChildExec(p)
    PROVE  IInv'
<1>1. CASE Exit(p)
  BY <1>1, ExitPreserves DEF ChildExec
<1>2. CASE /\ kid' = [kid EXCEPT ![p] = "running"]
           /\ work' = [work EXCEPT ![p] = IF ReadsPipe(p) THEN 0 ELSE Items]
           /\ UNCHANGED <<pc, cmd, i, prevFd, pipefd, pids, fd, job, pipe>>
  <2> DEFINE w == IF ReadsPipe(p) THEN 0 ELSE Items
  <2>1. w \in 0 .. Max({Items, 1})
    BY Amounts
  <2>2. pipe' \in [Pids -> 0 .. Capacity]
    BY <1>2 DEF IInv, TypeOK
  <2> HIDE DEF w
  <2>3. kid[p] = "ready"
    BY DEF ChildExec
  <2> QED
    BY <1>2, <2>1, <2>2, <2>3, ProgramMoves DEF w
<1> QED
  BY <1>1, <1>2 DEF ChildExec

LEMMA ReadPreserves ==
    ASSUME IInv, NEW p \in Pids, Read(p)
    PROVE  IInv'
<1> DEFINE k == fd[p][0][2]
<1>1. k \in Pids
  <2>1. fd[p][0] \in Files /\ fd[p][0][1] = "read"
    BY DEF Read, ReadsPipe, IInv, TypeOK, Fds
  <2> QED
    BY <2>1, PipeEnds
<1>2. /\ kid[p] = "running" /\ pipe[k] > 0 /\ pipe' = [pipe EXCEPT ![k] = pipe[k] - 1]
      /\ work' = [work EXCEPT ![p] = 1]
      /\ UNCHANGED <<pc, cmd, i, prevFd, pipefd, pids, fd, kid, job>>
  BY DEF Read
<1> HIDE DEF k
<1>3. pipe' \in [Pids -> 0 .. Capacity]
  <2>1. pipe[k] \in 0 .. Capacity /\ pipe[k] - 1 \in 0 .. Capacity
    BY <1>1, <1>2, Bounds DEF IInv, TypeOK
  <2> QED
    BY <1>2, <2>1 DEF IInv, TypeOK
<1>4. kid' = [kid EXCEPT ![p] = "running"]
  BY <1>2 DEF IInv, TypeOK
<1>5. 1 \in 0 .. Max({Items, 1})
  BY Amounts
<1> QED
  BY <1>2, <1>3, <1>4, <1>5, ProgramMoves

LEMMA WritePreserves ==
    ASSUME IInv, NEW p \in Pids, Write(p)
    PROVE  IInv'
<1>1. /\ kid[p] = "running" /\ work[p] > 0
      /\ work' = [work EXCEPT ![p] = work[p] - 1]
      /\ UNCHANGED <<pc, cmd, i, prevFd, pipefd, pids, fd, kid, job>>
  BY DEF Write
<1>2. pipe' \in [Pids -> 0 .. Capacity]
  <2>1. CASE WritesPipe(p)
    <3> DEFINE k == fd[p][1][2]
    <3>1. k \in Pids
      <4>1. fd[p][1] \in Files /\ fd[p][1][1] = "write"
        BY <2>1 DEF WritesPipe, IInv, TypeOK, Fds
      <4> QED
        BY <4>1, PipeEnds
    <3>2. pipe[k] < Capacity /\ pipe' = [pipe EXCEPT ![k] = pipe[k] + 1]
      BY <2>1 DEF Write
    <3> HIDE DEF k
    <3>3. pipe[k] \in 0 .. Capacity /\ pipe[k] + 1 \in 0 .. Capacity
      BY <3>1, <3>2, Bounds DEF IInv, TypeOK
    <3> QED
      BY <3>2, <3>3 DEF IInv, TypeOK
  <2>2. CASE ~WritesPipe(p)
    BY <2>2 DEF Write, IInv, TypeOK
  <2> QED
    BY <2>1, <2>2
<1>3. kid' = [kid EXCEPT ![p] = "running"]
  BY <1>1 DEF IInv, TypeOK
<1>4. work[p] - 1 \in 0 .. Max({Items, 1})
  <2>1. work[p] \in 0 .. Max({Items, 1})
    BY DEF IInv, TypeOK
  <2> QED
    BY <1>1, <2>1, Amounts
<1> QED
  BY <1>1, <1>2, <1>3, <1>4, ProgramMoves

\* All that a child does.
LEMMA RunPreserves ==
    ASSUME IInv, NEW p \in Pids, Run(p) \/ Quit(p)
    PROVE  IInv'
<1>1. CASE BrokenPipe(p) \/ Finish(p) \/ Quit(p)
  BY <1>1, ExitPreserves DEF BrokenPipe, Finish, Quit
<1> QED
  BY <1>1, ChildInputPreserves, ChildOutputPreserves, ChildExecPreserves, ReadPreserves,
     WritePreserves DEF Run

\* wait() in the shell.
LEMMA ReapPreserves ==
    ASSUME IInv, NEW p \in Pids, Reap(p)
    PROVE  IInv'
<1>1. fd[p] \in [Fds -> Files] /\ fd' = [fd EXCEPT ![p] = fd[p]]
  BY DEF Reap, IInv, TypeOK
<1>2. kid[p] = "zombie" /\ kid' = [kid EXCEPT ![p] = "reaped"] /\ pids' = pids \ {p}
  BY DEF Reap, Without
<1>3. ChildFiles(p)'
  BY <1>2 DEF Reap, IInv, TypeOK, ChildFiles
<1>4. work' \in [Pids -> 0 .. Max({Items, 1})] /\ pipe' \in [Pids -> 0 .. Capacity]
  BY DEF Reap, IInv, TypeOK
<1> QED
  BY <1>1, <1>2, <1>3, <1>4, ChildMoves DEF Reap

-----------------------------------------------------------------------------
(* The steps of the shell *)

\* A step that leaves the children alone.
LEMMA ChildrenUntouched ==
    ASSUME IInv, UNCHANGED <<kid, job, work, pipe>>, \A p \in Pids : fd'[p] = fd[p]
    PROVE  /\ Forks' = Forks /\ NextPid' = NextPid /\ ForksInOrder'
           /\ \A p \in Pids : ChildFiles(p)'
<1>1. Forks' = Forks
  BY DEF Forks
<1> QED
  BY <1>1 DEF NextPid, IInv, ForksInOrder, ChildFiles, InputFile, OutputFile

LEMMA ReadCommandPreserves ==
    ASSUME IInv, NEW c \in Commands, ReadCommand(c)
    PROVE  IInv'
<1>1. Forks' = Forks /\ NextPid' = NextPid /\ ForksInOrder' /\ \A p \in Pids : ChildFiles(p)'
  BY ChildrenUntouched DEF ReadCommand
<1>2. /\ pc = "prompt" /\ cmd' = c /\ i' = 0 /\ prevFd' = NoFd /\ pipefd' = <<NoFd, NoFd>>
      /\ pids' = {} /\ fd' = fd
      /\ pc' = IF c.n > 0 THEN "pipe" ELSE "prompt"
  BY DEF ReadCommand
<1>3. c \in [n : Nat, wait : BOOLEAN, stdin : BOOLEAN, stdout : BOOLEAN]
  <2>1. Stages \subseteq Nat /\ Redirections \subseteq BOOLEAN
    BY JshellAssumption
  <2>2. /\ c.n \in Nat /\ c.wait \in BOOLEAN /\ c.stdin \in BOOLEAN /\ c.stdout \in BOOLEAN
        /\ c = [n |-> c.n, wait |-> c.wait, stdin |-> c.stdin, stdout |-> c.stdout]
    BY <2>1 DEF Commands
  <2> QED
    BY <2>2
<1>4. TypeOK'
  <2>1. 0 \in 0 .. c.n /\ c.n \in Nat
    BY <1>3
  <2>2. UNCHANGED <<fd, kid, job, work, pipe>>
    BY DEF ReadCommand
  <2>3. i' \in 0 .. cmd'.n
    BY <1>2, <2>1
  <2> QED
    BY <1>2, <2>2, <2>3 DEF IInv, TypeOK
<1>5. CommandOk'
  BY <1>1, <1>2, <1>3 DEF ReadCommand, IInv, CommandOk, Forking, Started
<1>6. Forks \in Nat
  BY Bounds DEF IInv, ForksInOrder
<1>7. InTree' /\ AllWaitedFor'
  <2>1. Started' = 0 /\ Forks - 0 + 1 .. Forks = {}
    BY <1>2, <1>6 DEF Started
  <2> QED
    BY <1>1, <1>2, <1>6, <2>1 DEF InTree, AllWaitedFor
<1>8. ShellFiles'
  <2>1. fd'[Shell] = Table
    BY <1>2 DEF IInv, ShellFiles
  <2>2. FilesOf(FALSE, prevFd', FALSE, pipefd', Latest') = Table
    BY NoPipes
  <2>3. (i' > 0) = FALSE
    BY <1>2
  <2> QED
    BY <1>2, <2>1, <2>2, <2>3 DEF ShellFiles, Apart
<1> QED
  BY <1>1, <1>4, <1>5, <1>7, <1>8 DEF IInv

LEMMA ShellEndsPreserves ==
    ASSUME IInv, ShellEnds
    PROVE  IInv'
<1>1. \A p \in Pids : fd'[p] = fd[p]
  BY Bounds DEF ShellEnds, IInv, TypeOK, Shell, Pids
<1>2. Forks' = Forks /\ NextPid' = NextPid /\ ForksInOrder' /\ \A p \in Pids : ChildFiles(p)'
  BY <1>1, ChildrenUntouched DEF ShellEnds
<1>3. NoFiles \in [Fds -> Files]
  BY FileNames DEF NoFiles
<1>4. TypeOK'
  BY <1>3 DEF ShellEnds, IInv, TypeOK
<1>5. CommandOk' /\ InTree' /\ AllWaitedFor' /\ ShellFiles'
  BY DEF ShellEnds, IInv, CommandOk, InTree, AllWaitedFor, ShellFiles, Forking
<1> QED
  BY <1>2, <1>4, <1>5 DEF IInv

LEMMA WaitedPreserves ==
    ASSUME IInv, Waited
    PROVE  IInv'
<1>1. Forks' = Forks /\ NextPid' = NextPid /\ ForksInOrder' /\ \A p \in Pids : ChildFiles(p)'
  BY ChildrenUntouched DEF Waited
<1>2. /\ pc = "wait" /\ pc' = "prompt"
      /\ UNCHANGED <<cmd, i, prevFd, pipefd, pids, fd, kid, job, work, pipe>>
      /\ pids = {} \/ \A p \in Pids : kid[p] \in {"none", "unborn", "reaped"}
  BY DEF Waited
<1>3. TypeOK' /\ CommandOk' /\ InTree' /\ ShellFiles'
  BY <1>2 DEF IInv, TypeOK, CommandOk, InTree, ShellFiles, Forking
<1>4. AllWaitedFor'
  <2> SUFFICES ASSUME NEW p \in Forks - i + 1 .. Forks
               PROVE  kid[p] \in {"unborn", "reaped"}
    BY <1>1, <1>2 DEF AllWaitedFor
  <2>1. p \in Pids /\ p <= Forks /\ (p \in pids \/ kid[p] \in {"unborn", "reaped"})
    <3>1. Forks \in 0 .. MaxForks /\ i \in Nat /\ Started = i /\ i <= Forks
      BY <1>2 DEF IInv, ForksInOrder, TypeOK, CommandOk, InTree, Started
    <3>2. p \in 1 .. MaxForks /\ p <= Forks
      BY <3>1, Bounds
    <3> QED
      BY <1>2, <3>1, <3>2 DEF IInv, InTree, Pids
  <2>2. kid[p] # "none"
    BY <2>1 DEF IInv, ForksInOrder
  <2> QED
    BY <1>2, <2>1, <2>2
<1> QED
  BY <1>1, <1>3, <1>4 DEF IInv

LEMMA MakePipePreserves ==
    ASSUME IInv, MakePipe
    PROVE  IInv'
<1> DEFINE t == fd[Shell]
           read == Min(FreeFds(t))
           write == Min(FreeFds(t) \ {read})
           k == NextPid
<1>1. /\ pc = "pipe" /\ pc' = "fork"
      /\ UNCHANGED <<cmd, i, prevFd, pids, kid, job, work, pipe>>
  BY DEF MakePipe
<1>2. k \in Pids /\ (i > 0 => k > 1) /\ i \in Nat /\ k = Forks + 1 /\ Forks \in 0 .. MaxForks
  <2>1. /\ i \in Nat /\ i < cmd.n /\ cmd.n \in Nat /\ i <= Forks
        /\ Forks \in 0 .. MaxForks /\ Forks + cmd.n - i <= MaxForks
    BY <1>1 DEF IInv, TypeOK, CommandOk, ForksInOrder, InTree, Forking, Started
  <2> QED
    BY <2>1, Bounds DEF NextPid, Pids
<1>3. t = FilesOf(i > 0, prevFd, FALSE, pipefd, k) /\ (i > 0 => prevFd \in 3 .. 7)
  BY <1>1 DEF IInv, ShellFiles, Latest, Apart
<1>4. t \in [Fds -> Files]
  BY DEF IInv, TypeOK
<1>5. /\ read \in 3 .. 7 /\ write \in 3 .. 7 /\ read # write
      /\ i > 0 => prevFd # read /\ prevFd # write
  <2>1. FreeFds(t) = {f \in 3 .. 7 : ~(i > 0 /\ f = prevFd)}
    <3> DEFINE from == i > 0
    <3>1. from \in BOOLEAN /\ (from => k > 1)
      BY <1>2
    <3>2. t = FilesOf(from, prevFd, FALSE, pipefd, k)
      BY <1>3
    <3> HIDE DEF from, k, t
    <3>3. \A f \in Fds : f > 2 => (t[f] = Closed <=> ~(from /\ f = prevFd))
      <4> SUFFICES ASSUME NEW f \in Fds, f > 2
                   PROVE  t[f] = Closed <=> ~(from /\ f = prevFd)
        OBVIOUS
      <4>1. ~(f <= 2)
        BY DEF Fds
      <4>2. t[f] = IF from /\ f = prevFd THEN ReadEnd(k - 1) ELSE Closed
        BY <3>2, <4>1 DEF FilesOf
      <4> QED
        BY <4>2, FileNames
    <3>4. \A f \in {0, 1, 2} : f \in Fds /\ t[f] # Closed
      <4>1. \A f \in {0, 1, 2} : Table[f] # Closed
        BY TableFiles, FileNames
      <4>2. \A f \in {0, 1, 2} : f \in Fds /\ f <= 2
        BY DEF Fds
      <4>3. \A f \in Fds : f <= 2 => t[f] = Table[f]
        BY <3>2 DEF FilesOf
      <4> QED
        BY <4>1, <4>2, <4>3
    <3>5. FreeFds(t) = {f \in 3 .. 7 : ~(from /\ f = prevFd)}
      BY <3>3, <3>4 DEF FreeFds, Fds
    <3> QED
      BY <3>5 DEF from
  <2> HIDE DEF t
  <2>2. \E f \in 3 .. 7 : f \in FreeFds(t)
    <3>1. 3 \in 3 .. 7 /\ 4 \in 3 .. 7
      OBVIOUS
    <3> QED
      BY <2>1, <3>1
  <2>3. FreeFds(t) \in SUBSET Fds
    BY DEF FreeFds
  <2>4. read \in FreeFds(t)
    BY <2>2, <2>3, LeastIsOne
  <2> HIDE DEF read
  <2>5. FreeFds(t) \ {read} # {}
    <3>1. \E f \in {3, 4, 5} : f # prevFd /\ f # read
      OBVIOUS
    <3>2. {3, 4, 5} \subseteq 3 .. 7
      OBVIOUS
    <3> QED
      BY <2>1, <3>1, <3>2
  <2>6. write \in FreeFds(t) \ {read}
    BY <2>3, <2>5, LeastIsOne
  <2> HIDE DEF write
  <2> QED
    BY <2>1, <2>4, <2>6
<1>6. \A p \in Pids : fd'[p] = fd[p]
  <2>1. \A p \in Pids : p # Shell
    BY Bounds DEF Shell, Pids
  <2>2. fd' = fd \/ \E x, y : fd' = [fd EXCEPT ![Shell][read] = x, ![Shell][write] = y]
    BY DEF MakePipe
  <2> QED
    BY <2>1, <2>2 DEF IInv, TypeOK
<1>7. Forks' = Forks /\ NextPid' = NextPid /\ ForksInOrder' /\ \A p \in Pids : ChildFiles(p)'
  BY <1>1, <1>6, ChildrenUntouched
<1>8. HasNext' = HasNext /\ Latest' = k /\ Started' = Started
  BY <1>1, <1>7 DEF HasNext, Latest, Started
<1>9. CASE HasNext
  <2> DEFINE u == [t EXCEPT ![read] = ReadEnd(k), ![write] = WriteEnd(k)]
  <2>1. pipefd' = <<read, write>> /\ fd' = [fd EXCEPT ![Shell] = u]
    BY <1>9 DEF MakePipe
  <2>2. fd'[Shell] = u
    BY <2>1 DEF IInv, TypeOK
  <2>3. u \in [Fds -> Files] /\ read \in Fds /\ write \in Fds
    <3>1. ReadEnd(k) \in Files /\ WriteEnd(k) \in Files
      BY <1>2, FileNames
    <3>2. \A f \in 3 .. 7 : f \in Fds
      BY DEF Fds
    <3> HIDE DEF read, write, t, k
    <3> QED
      BY <1>4, <1>5, <3>1, <3>2
  <2>4. u = FilesOf(i > 0, prevFd, TRUE, <<read, write>>, k)
    <3> DEFINE from == i > 0
               pair == <<read, write>>
               v == FilesOf(from, prevFd, TRUE, pair, k)
    <3>1. t = FilesOf(from, prevFd, FALSE, pipefd, k)
      BY <1>3
    <3>2. from => prevFd # read /\ prevFd # write
      BY <1>5
    <3> HIDE DEF from, k, read, write
    <3>3. pair[1] = read /\ pair[2] = write
      OBVIOUS
    <3> HIDE DEF pair
    <3>4. \A f \in Fds : f # read /\ f # write => v[f] = t[f]
      BY <3>1, <3>3 DEF FilesOf
    <3>5. v[read] = ReadEnd(k) /\ v[write] = WriteEnd(k)
      <4>1. \A f \in 3 .. 7 : f \in Fds /\ ~(f <= 2)
        BY DEF Fds
      <4> QED
        BY <1>5, <2>3, <3>2, <3>3, <4>1 DEF FilesOf
    <3>6. v = [f \in Fds |-> v[f]]
      BY DEF FilesOf
    <3> HIDE DEF v, t
    <3>7. u = v
      BY <1>4, <1>5, <2>3, <3>4, <3>5, <3>6
    <3> QED
      BY <3>7 DEF v, from, k, read, write, pair
  <2> HIDE DEF u
  <2>5. pipefd' \in (Fds \cup {NoFd}) \X (Fds \cup {NoFd})
    <3> HIDE DEF read, write
    <3> QED
      BY <2>1, <2>3
  <2>6. pipefd'[1] = read /\ pipefd'[2] = write
    <3> HIDE DEF read, write
    <3> QED
      BY <2>1
  <2>7. ShellFiles'
    <3>1. Apart(i > 0, prevFd, TRUE, pipefd)'
      <4> HIDE DEF read, write
      <4> QED
        BY <1>1, <1>3, <1>5, <2>6 DEF Apart
    <3>2. fd'[Shell] = FilesOf(i' > 0, prevFd', TRUE, pipefd', Latest')
      BY <1>1, <1>8, <2>1, <2>2, <2>4
    <3>3. HasNext' = TRUE
      BY <1>8, <1>9 DEF HasNext
    <3> QED
      BY <1>1, <2>5, <3>1, <3>2, <3>3 DEF ShellFiles
  <2>8. TypeOK'
    BY <1>1, <2>1, <2>3 DEF IInv, TypeOK
  <2> QED
    BY <1>1, <1>7, <1>8, <2>7, <2>8
    DEF IInv, CommandOk, InTree, AllWaitedFor, Forking
<1>10. CASE ~HasNext
  <2>1. pipefd' = pipefd /\ fd' = fd
    BY <1>10 DEF MakePipe
  <2>2. HasNext' = FALSE
    BY <1>8, <1>10 DEF HasNext
  <2>3. ShellFiles'
    BY <1>1, <1>8, <2>1, <2>2 DEF IInv, ShellFiles, Latest
  <2>4. TypeOK'
    BY <1>1, <2>1 DEF IInv, TypeOK
  <2> QED
    BY <1>1, <1>7, <1>8, <2>3, <2>4
    DEF IInv, CommandOk, InTree, AllWaitedFor, Forking
<1> QED
  BY <1>9, <1>10

\* A pid is used up, whether or not there is a process for it.
LEMMA ForkMoves ==
    ASSUME IInv, pc = "fork", pc' = "forked", NEW s \in {"forked", "unborn"}, NEW q \in Pids \cup {NoPid},
           kid' = [kid EXCEPT ![NextPid] = s], pids' = pids \cup {q},
           s = "unborn" \/ q = NextPid,
           UNCHANGED <<cmd, i, prevFd, pipefd, work, pipe>>, fd'[Shell] = fd[Shell]
    PROVE  /\ NextPid \in Pids /\ (i > 0 => NextPid > 1)
           /\ CommandOk' /\ ForksInOrder' /\ InTree' /\ AllWaitedFor' /\ ShellFiles'
<1>1. /\ i \in Nat /\ i < cmd.n /\ cmd.n \in Nat /\ i <= Forks
      /\ Forks \in 0 .. MaxForks /\ Forks + cmd.n - i <= MaxForks
  BY DEF IInv, TypeOK, CommandOk, ForksInOrder, InTree, Forking, Started
<1>2. Forks < MaxForks
  BY <1>1, Bounds
<1>3. NextPid \in Pids /\ Forks' = Forks + 1 /\ ForksInOrder'
  BY <1>2, NextIsCounted DEF IInv
<1>4. i > 0 => NextPid > 1
  BY <1>1 DEF NextPid
<1>5. CommandOk'
  <2>1. Started' = i + 1
    BY DEF Started
  <2>2. (Forks + 1) + cmd.n - (i + 1) <= MaxForks
    BY <1>1, Bounds
  <2> QED
    BY <1>3, <2>1, <2>2 DEF IInv, CommandOk, Forking
<1>6. InTree'
  <2>1. Started' = i + 1 /\ Started = i
    BY DEF Started
  <2>2. \A p \in Forks - i + 1 .. Forks : p \in pids \/ kid[p] \in {"unborn", "reaped"}
    BY <2>1 DEF IInv, InTree, Forking
  <2>3. i + 1 <= Forks + 1
    BY <1>1
  <2>4. (Forks + 1) - (i + 1) + 1 = Forks - i + 1
    BY <1>1
  <2>5. ASSUME NEW p \in Forks - i + 1 .. Forks + 1
        PROVE  p \in pids' \/ kid'[p] \in {"unborn", "reaped"}
    <3>1. p \in Pids
      BY <1>1, <1>2, Bounds DEF Pids
    <3>2. CASE p = NextPid
      BY <3>1, <3>2 DEF IInv, TypeOK
    <3>3. CASE p # NextPid
      <4>1. p \in Forks - i + 1 .. Forks
        BY <1>1, <3>3 DEF NextPid
      <4> QED
        BY <2>2, <3>1, <3>3, <4>1 DEF IInv, TypeOK
    <3> QED
      BY <3>2, <3>3
  <2> QED
    BY <1>3, <2>1, <2>3, <2>4, <2>5 DEF InTree
<1>7. AllWaitedFor'
  BY DEF AllWaitedFor
<1>8. ShellFiles'
  <2>1. Latest' = Latest
    BY <1>3 DEF Latest, NextPid
  <2>2. HasNext' = HasNext
    BY DEF HasNext
  <2> QED
    BY <2>1, <2>2 DEF IInv, ShellFiles
<1> QED
  BY <1>3, <1>4, <1>5, <1>6, <1>7, <1>8

LEMMA ForkPreserves ==
    ASSUME IInv, Fork
    PROVE  IInv'
<1> DEFINE p == NextPid
           j == [i |-> i, next |-> HasNext, stdin |-> cmd.stdin, stdout |-> cmd.stdout,
                 prevFd |-> prevFd, pipefd |-> pipefd]
<1>1. /\ pc = "fork" /\ pc' = "forked" /\ kid' = [kid EXCEPT ![p] = "forked"]
      /\ job' = [job EXCEPT ![p] = j] /\ fd' = [fd EXCEPT ![p] = fd[Shell]]
      /\ pids' = pids \cup {p} /\ UNCHANGED <<cmd, i, prevFd, pipefd, work, pipe>>
  BY DEF Fork
<1>2. p \in Pids
  <2>1. /\ i \in Nat /\ i < cmd.n /\ cmd.n \in Nat
        /\ Forks \in 0 .. MaxForks /\ Forks + cmd.n - i <= MaxForks
    BY <1>1 DEF IInv, TypeOK, CommandOk, ForksInOrder, Forking, Started
  <2> QED
    BY <2>1, Bounds DEF NextPid, Pids
<1>3. p # Shell /\ fd'[Shell] = fd[Shell] /\ fd'[p] = fd[Shell]
  BY <1>1, <1>2, Bounds DEF IInv, TypeOK, Pids, Shell
<1>4. /\ i > 0 => p > 1
      /\ CommandOk' /\ ForksInOrder' /\ InTree' /\ AllWaitedFor' /\ ShellFiles'
  BY <1>1, <1>2, <1>3, ForkMoves
<1>5. j \in Job
  <2>1. /\ i \in Nat /\ HasNext \in BOOLEAN /\ cmd.stdin \in BOOLEAN /\ cmd.stdout \in BOOLEAN
        /\ prevFd \in Fds \cup {NoFd} /\ pipefd \in (Fds \cup {NoFd}) \X (Fds \cup {NoFd})
    BY DEF IInv, TypeOK, CommandOk, ShellFiles, HasNext
  <2> QED
    BY <2>1 DEF Job
<1>6. TypeOK'
  BY <1>1, <1>2, <1>5 DEF IInv, TypeOK
<1>7. ASSUME NEW q \in Pids, q = p
      PROVE  ChildFiles(q)'
  <2>1. job'[q] = j /\ kid'[q] = "forked" /\ fd'[q] = fd[Shell] /\ (i > 0 => q > 1)
    BY <1>1, <1>2, <1>3, <1>4, <1>7 DEF IInv, TypeOK
  <2>2. /\ j.i = i /\ j.next = HasNext /\ j.prevFd = prevFd /\ j.pipefd = pipefd
    OBVIOUS
  <2>3. fd[Shell] = FilesOf(i > 0, prevFd, HasNext, pipefd, q) /\ Apart(i > 0, prevFd, HasNext, pipefd)
    BY <1>1, <1>7 DEF IInv, ShellFiles, Latest
  <2> HIDE DEF j, p
  <2> QED
    BY <2>1, <2>2, <2>3 DEF ChildFiles
<1>8. ASSUME NEW q \in Pids, q # p
      PROVE  ChildFiles(q)'
  <2>1. fd'[q] = fd[q] /\ kid'[q] = kid[q] /\ job'[q] = job[q]
    BY <1>1, <1>8 DEF IInv, TypeOK
  <2> QED
    BY <2>1 DEF IInv, ChildFiles, InputFile, OutputFile
<1> QED
  BY <1>4, <1>6, <1>7, <1>8 DEF IInv

LEMMA ForkFailsPreserves ==
    ASSUME IInv, ForkFails
    PROVE  IInv'
<1>1. /\ pc = "fork" /\ pc' = "forked" /\ kid' = [kid EXCEPT ![NextPid] = "unborn"]
      /\ pids' = pids \cup {NoPid} /\ UNCHANGED <<cmd, i, prevFd, pipefd, fd, job, work, pipe>>
  BY DEF ForkFails
<1>2. /\ NextPid \in Pids
      /\ CommandOk' /\ ForksInOrder' /\ InTree' /\ AllWaitedFor' /\ ShellFiles'
  BY <1>1, ForkMoves
<1>3. TypeOK'
  BY <1>1, <1>2 DEF IInv, TypeOK
<1>4. ASSUME NEW q \in Pids
      PROVE  ChildFiles(q)'
  <2>1. kid'[q] = kid[q] \/ kid'[q] = "unborn"
    BY <1>1 DEF IInv, TypeOK
  <2> QED
    BY <1>1, <2>1 DEF IInv, ChildFiles, InputFile, OutputFile
<1> QED
  BY <1>2, <1>3, <1>4 DEF IInv

LEMMA GoOnPreserves ==
    ASSUME IInv, GoOn
    PROVE  IInv'
<1>1. /\ pc = "forked" /\ pc' = IF HasNext THEN "pipe" ELSE IF cmd.wait THEN "wait" ELSE "prompt"
      /\ fd' = [fd EXCEPT ![Shell] = AfterFork(fd[Shell])]
      /\ prevFd' = IF HasNext THEN pipefd[1] ELSE prevFd
      /\ i' = i + 1
      /\ UNCHANGED <<cmd, pipefd, pids, kid, job, work, pipe>>
  BY DEF GoOn
<1>2. /\ i \in Nat /\ i < cmd.n /\ cmd.n \in Nat /\ i + 1 <= Forks
      /\ Forks \in 0 .. MaxForks /\ Forks + cmd.n - (i + 1) <= MaxForks
  BY <1>1 DEF IInv, TypeOK, CommandOk, ForksInOrder, InTree, Forking, Started
<1>3. Forks \in Pids /\ (i > 0 => Forks > 1) /\ Latest = Forks
  BY <1>1, <1>2, Bounds DEF Pids, Latest
<1>4. /\ fd[Shell] = FilesOf(i > 0, prevFd, HasNext, pipefd, Forks)
      /\ Apart(i > 0, prevFd, HasNext, pipefd)
  BY <1>1, <1>3 DEF IInv, ShellFiles
<1>5. AfterFork(fd[Shell]) = FilesOf(HasNext, pipefd[1], FALSE, pipefd, Forks + 1)
  <2> DEFINE k == Forks
  <2>1. k \in Pids /\ (i > 0 => k > 1) /\ fd[Shell] = FilesOf(i > 0, prevFd, HasNext, pipefd, k)
    BY <1>3, <1>4
  <2> HIDE DEF k
  <2>2. AfterFork(fd[Shell]) = FilesOf(HasNext, pipefd[1], FALSE, pipefd, k + 1)
    BY <1>2, <1>4, <2>1, OneEndIsKept
  <2> QED
    BY <2>2 DEF k
<1>6. \A p \in Pids : p # Shell
  BY Bounds DEF Shell, Pids
<1>7. fd'[Shell] = AfterFork(fd[Shell]) /\ \A p \in Pids : fd'[p] = fd[p]
  BY <1>1, <1>6 DEF IInv, TypeOK
<1>8. Forks' = Forks /\ NextPid' = NextPid /\ ForksInOrder' /\ \A p \in Pids : ChildFiles(p)'
  BY <1>1, <1>7, ChildrenUntouched
<1>9. Started' = Started /\ Started = i + 1
  BY <1>1 DEF Started
<1>10. HasNext => i + 1 < cmd.n
  BY <1>2 DEF HasNext
<1>11. CommandOk' /\ InTree'
  BY <1>1, <1>2, <1>8, <1>9, <1>10 DEF IInv, CommandOk, InTree, Forking
<1>12. AllWaitedFor'
  BY <1>1 DEF AllWaitedFor
<1>13. CASE HasNext
  <2>1. pipefd[1] \in 3 .. 7
    BY <1>4, <1>13 DEF Apart
  <2>2. FilesOf(HasNext, pipefd[1], FALSE, pipefd, Forks + 1)
          = FilesOf(i' > 0, prevFd', FALSE, pipefd', Latest')
    <3>1. (i' > 0) = HasNext
      BY <1>1, <1>2, <1>13 DEF HasNext
    <3>2. prevFd' = pipefd[1] /\ pipefd' = pipefd /\ Latest' = Forks + 1
      BY <1>1, <1>8, <1>13 DEF Latest, NextPid
    <3> QED
      BY <3>1, <3>2
  <2>3. ShellFiles'
    <3>1. pc' = "pipe" /\ prevFd' = pipefd[1]
      BY <1>1, <1>13
    <3> QED
      BY <1>1, <1>5, <1>7, <2>1, <2>2, <3>1 DEF IInv, ShellFiles, Apart
  <2>4. TypeOK'
    <3>1. prevFd' \in Fds /\ i' \in 0 .. cmd'.n
      BY <1>1, <1>2, <1>13, <2>1 DEF Fds
    <3>2. AfterFork(fd[Shell]) \in [Fds -> Files]
      BY <1>4 DEF AfterFork, Close, IInv, TypeOK, Files
    <3> QED
      BY <1>1, <1>13, <3>1, <3>2 DEF IInv, TypeOK
  <2> QED
    BY <1>8, <1>11, <1>12, <2>3, <2>4 DEF IInv
<1>14. CASE ~HasNext
  <2>1. FilesOf(HasNext, pipefd[1], FALSE, pipefd, Forks + 1) = Table
    <3>1. HasNext = FALSE
      BY <1>14 DEF HasNext
    <3> QED
      BY <3>1, NoPipes
  <2>2. ShellFiles'
    BY <1>1, <1>5, <1>7, <1>14, <2>1 DEF IInv, ShellFiles
  <2>3. TypeOK'
    <3>1. i' \in 0 .. cmd'.n
      BY <1>1, <1>2
    <3> QED
      BY <1>1, <1>5, <1>14, <2>1, <3>1, TableFiles DEF IInv, TypeOK
  <2> QED
    BY <1>8, <1>11, <1>12, <2>2, <2>3 DEF IInv
<1> QED
  BY <1>13, <1>14

-----------------------------------------------------------------------------
(* The theorems *)

LEMMA InitEstablishes == Init => IInv
<1> SUFFICES ASSUME Init PROVE IInv
  OBVIOUS
<1>1. Forks = 0
  <2>1. {p \in Pids : kid[p] # "none"} = {}
    BY DEF Init
  <2>2. Cardinality({}) = 0
    BY FS_EmptySet, Zenon
  <2> QED
    BY <2>1, <2>2, Zenon DEF Forks
<1>2. NoFiles \in [Fds -> Files] /\ NoJob \in Job
  BY FileNames DEF NoFiles, NoJob, Job
<1>3. TypeOK
  <2>1. 0 \in 0 .. Max({Items, 1}) /\ 0 \in 0 .. Capacity
    BY Amounts, Bounds
  <2> QED
    BY <1>2, <2>1, TableFiles DEF Init, TypeOK
<1>4. CommandOk /\ InTree /\ AllWaitedFor
  BY <1>1 DEF Init, CommandOk, InTree, AllWaitedFor, Forking
<1>5. ForksInOrder
  BY <1>1, Bounds DEF Init, ForksInOrder, Pids
<1>6. ShellFiles
  BY DEF Init, ShellFiles
<1>7. \A p \in Pids : ChildFiles(p)
  BY DEF Init, ChildFiles, NoJob
<1> QED
  BY <1>3, <1>4, <1>5, <1>6, <1>7 DEF IInv

\* Every step of the shell and of its children keeps the invariant.
LEMMA NextPreserves == IInv /\ [Next]_vars => IInv'
<1> SUFFICES ASSUME IInv, [Next]_vars
             PROVE  IInv'
  OBVIOUS
<1>1. CASE UNCHANGED vars
  <2>1. \A p \in Pids : fd'[p] = fd[p]
    BY <1>1 DEF vars
  <2>2. Forks' = Forks /\ NextPid' = NextPid /\ ForksInOrder' /\ \A p \in Pids : ChildFiles(p)'
    BY <1>1, <2>1, ChildrenUntouched DEF vars
  <2>3. Started' = Started /\ Latest' = Latest /\ HasNext' = HasNext
    BY <1>1, <2>2 DEF vars, Started, Latest, HasNext
  <2> QED
    BY <1>1, <2>2, <2>3
    DEF vars, IInv, TypeOK, CommandOk, InTree, AllWaitedFor, ShellFiles, Forking
<1>2. CASE Execute
  BY <1>2, ShellEndsPreserves, MakePipePreserves, ForkPreserves, ForkFailsPreserves,
     GoOnPreserves, WaitedPreserves, ReapPreserves DEF Execute, PipeFails
<1>3. CASE EndOfFile
  BY <1>3, ShellEndsPreserves DEF EndOfFile
<1> QED
  BY <1>1, <1>2, <1>3, ReadCommandPreserves, RunPreserves DEF Next

\* The invariant of jshell and its children.
THEOREM JshellInvariant == Spec => []IInv
  BY InitEstablishes, NextPreserves, PTL DEF Spec

\* Every variable has its type: no descriptor is missing when one is needed,
\* and no process is forked beyond the command.
THEOREM TypeCorrect == Spec => []TypeOK
  BY JshellInvariant, PTL DEF IInv

\* A program runs with the files 0, 1 and 2 open and no other, and so does the
\* shell at its prompt: no end of a pipe is ever left open.
THEOREM OnlyThreeFiles == Spec => []ThreeFiles
<1>1. IInv => ThreeFiles
  <2> SUFFICES ASSUME IInv PROVE ThreeFiles
    OBVIOUS
  <2>1. \A f \in Fds : f \in 3 .. 7 \/ (f \in {0, 1, 2} /\ f \in 0 .. 2)
    BY DEF Fds
  <2>2. \A f \in Fds : Table[f] # Closed <=> f \in 0 .. 2
    <3>1. \A f \in {0, 1, 2} : Table[f] # Closed
      BY TableFiles, FileNames
    <3>2. \A f \in 3 .. 7 : f \notin 0 .. 2 /\ Table[f] = Closed
      BY TableFiles
    <3> QED
      BY <2>1, <3>1, <3>2
  <2>3. pc = "prompt" => OpenFds(Shell) = 0 .. 2
    BY <2>2 DEF IInv, ShellFiles, OpenFds, Fds
  <2>4. ASSUME NEW p \in Pids, kid[p] = "running"
        PROVE  OpenFds(p) = 0 .. 2
    <3>1. InputFile(p) # Closed /\ OutputFile(p) # Closed
      BY FileNames DEF InputFile, OutputFile
    <3>2. fd[p] = [Table EXCEPT ![0] = InputFile(p), ![1] = OutputFile(p)]
      BY <2>4 DEF IInv, ChildFiles
    <3>3. \A f \in Fds : fd[p][f] # Closed <=> f \in 0 .. 2
      BY <2>2, <3>1, <3>2, TableFiles DEF Fds
    <3> QED
      BY <3>3 DEF OpenFds, Fds
  <2> QED
    BY <2>3, <2>4 DEF ThreeFiles
<1> QED
  BY <1>1, JshellInvariant, PTL

\* The standard output of each program is the standard input of the next.
THEOREM PipesAreRight == Spec => []Plumbed
<1>1. IInv => Plumbed
  <2> SUFFICES ASSUME IInv, NEW p \in Pids, kid[p] = "running"
               PROVE  fd[p][0] = InputFile(p) /\ fd[p][1] = OutputFile(p)
    BY DEF Plumbed, InputFile, OutputFile
  <2>1. fd[p] = [Table EXCEPT ![0] = InputFile(p), ![1] = OutputFile(p)]
    BY DEF IInv, ChildFiles
  <2> QED
    BY <2>1, TableFiles DEF Fds
<1> QED
  BY <1>1, JshellInvariant, PTL

\* Back at the prompt, every process of a command without NOWAIT is gone.
THEOREM WaitsForAll == Spec => []AllWaitedFor
  BY JshellInvariant, PTL DEF IInv
=============================================================================
