------------------------------- MODULE Jshell -------------------------------
(* Lab-8-Jshell/src/jshell.c: the shell, the processes it forks, the files   *)
(* each of them has open and the pipes between them.                         *)
(*                                                                           *)
(* The programs the commands run are part of the model: they read their      *)
(* standard input, write their standard output and exit when the former      *)
(* ends, or whenever they like.                                              *)
EXTENDS Integers, FiniteSets, FiniteSetsExt

CONSTANTS MaxForks,       \* bound: no command is read that would fork more
          Stages,         \* the numbers of processes of a command
          Redirections,   \* whether a command may have "<" and ">" lines
          Failures,       \* the system calls that may fail: "pipe", "fork", "open", "exec"
          Items,          \* what a program writes that does not read from a pipe
          Capacity        \* what fits in a pipe

ASSUME JshellAssumption ==
    /\ {MaxForks, Items} \cup Stages \subseteq Nat
    /\ Capacity \in Nat \ {0}
    /\ Redirections \subseteq BOOLEAN
    /\ Failures \subseteq {"pipe", "fork", "open", "exec"}

VARIABLES pc,        \* where the shell is
          cmd,       \* the Command it executes
          i,         \* the process of cmd it is about to start
          prevFd,    \* the read end it keeps for the next process
          pipefd,    \* the pipe it created last
          pids,      \* the tree of processes to wait for
          fd,        \* the open files of each process
          kid,       \* how far each process is
          job,       \* the locals of execute() a process was forked with
          work,      \* what each program has yet to write
          pipe       \* what is in each pipe

vars == <<pc, cmd, i, prevFd, pipefd, pids, fd, kid, job, work, pipe>>

Shell == 0
Pids == 1 .. MaxForks
NoPid == -1
NoFd == -1

\* Open files.  Pipes have numbers, as many as there are forks.
Fds == 0 .. 7
Closed == <<"closed", 0>>
Stdin == <<"stdin", 0>>
Stdout == <<"stdout", 0>>
Stderr == <<"stderr", 0>>
InFile == <<"infile", 0>>
OutFile == <<"outfile", 0>>
ReadEnd(k) == <<"read", k>>
WriteEnd(k) == <<"write", k>>
Files == {Closed, Stdin, Stdout, Stderr, InFile, OutFile}
           \cup {ReadEnd(k) : k \in Pids} \cup {WriteEnd(k) : k \in Pids}

Table == [f \in Fds |-> CASE f = 0 -> Stdin [] f = 1 -> Stdout [] f = 2 -> Stderr [] OTHER -> Closed]
NoFiles == [f \in Fds |-> Closed]

Commands == [n : Stages, wait : BOOLEAN, stdin : Redirections, stdout : Redirections]

Job == [i : Nat, next : BOOLEAN, stdin : BOOLEAN, stdout : BOOLEAN,
        prevFd : Fds \cup {NoFd}, pipefd : (Fds \cup {NoFd}) \X (Fds \cup {NoFd})]
NoJob == [i |-> 0, next |-> FALSE, stdin |-> FALSE, stdout |-> FALSE, prevFd |-> NoFd,
          pipefd |-> <<NoFd, NoFd>>]

-----------------------------------------------------------------------------
(* System calls on a table of open files *)

FreeFds(t) == {f \in Fds : t[f] = Closed}
Open(t, file) == [t EXCEPT ![Min(FreeFds(t))] = file]
Close(t, f) == [t EXCEPT ![f] = Closed]
Dup2(t, f, g) == [t EXCEPT ![g] = t[f]]

\* Pids are not used twice; a fork() that fails uses one up.
Forks == Cardinality({p \in Pids : kid[p] # "none"})
NextPid == Forks + 1

IsOpen(file) == \E p \in Pids \cup {Shell} : \E f \in Fds : fd[p][f] = file

-----------------------------------------------------------------------------
(* The shell *)

Init ==
    /\ pc = "prompt"
    /\ cmd = [n |-> 0, wait |-> TRUE, stdin |-> FALSE, stdout |-> FALSE]
    /\ i = 0
    /\ prevFd = NoFd
    /\ pipefd = <<NoFd, NoFd>>
    /\ pids = {}
    /\ fd = [p \in Pids \cup {Shell} |-> IF p = Shell THEN Table ELSE NoFiles]
    /\ kid = [p \in Pids |-> "none"]
    /\ job = [p \in Pids |-> NoJob]
    /\ work = [p \in Pids |-> 0]
    /\ pipe = [k \in Pids |-> 0]

\* main() has read the lines of a command up to END.
ReadCommand(c) ==
    /\ pc = "prompt"
    /\ Forks + c.n <= MaxForks
    /\ cmd' = c
    /\ pc' = IF c.n > 0 THEN "pipe" ELSE "prompt"
    /\ i' = 0
    /\ prevFd' = NoFd
    /\ pipefd' = <<NoFd, NoFd>>
    /\ pids' = {}
    /\ UNCHANGED <<fd, kid, job, work, pipe>>

\* The end of the shell, for whatever reason.
ShellEnds ==
    /\ pc' = "exited"
    /\ fd' = [fd EXCEPT ![Shell] = NoFiles]
    /\ UNCHANGED <<cmd, i, prevFd, pipefd, pids, kid, job, work, pipe>>

EndOfFile == pc = "prompt" /\ ShellEnds

\* Mutant: off by one.
HasOneMore == i # cmd.n

HasNext == i # cmd.n - 1

PipeFails == pc = "pipe" /\ HasNext /\ "pipe" \in Failures /\ ShellEnds

\* A process that has a next one gets a pipe, which has the number of the
\* process that is to write to it.
MakePipe ==
    /\ pc = "pipe"
    /\ pc' = "fork"
    /\ IF HasNext
       THEN LET read == Min(FreeFds(fd[Shell]))
                write == Min(FreeFds(fd[Shell]) \ {read})
            IN  /\ pipefd' = <<read, write>>
                /\ fd' = [fd EXCEPT ![Shell][read] = ReadEnd(NextPid), ![Shell][write] = WriteEnd(NextPid)]
       ELSE UNCHANGED <<pipefd, fd>>
    /\ UNCHANGED <<cmd, i, prevFd, pids, kid, job, work, pipe>>

\* Mutant: the shell keeps the read end of the last pipe open.
KeepsLastReadEnd(t) ==
    LET t1 == IF i > 0 /\ HasNext THEN Close(t, prevFd) ELSE t
    IN  IF HasNext THEN Close(t1, pipefd[2]) ELSE t1

\* Mutant: the shell keeps the write end of the pipe open.
KeepsWriteEnd(t) == IF i > 0 THEN Close(t, prevFd) ELSE t

\* What the shell has open once it has started process i: it closes the read
\* end that process got and the write end of the new pipe.
AfterFork(t) ==
    LET t1 == IF i > 0 THEN Close(t, prevFd) ELSE t
    IN  IF HasNext THEN Close(t1, pipefd[2]) ELSE t1

\* Process i is forked: it has the open files of the shell, and its locals.
Fork ==
    LET p == NextPid
    IN  /\ pc = "fork"
        /\ kid' = [kid EXCEPT ![p] = "forked"]
        /\ job' = [job EXCEPT ![p] = [i |-> i, next |-> HasNext, stdin |-> cmd.stdin,
                                     stdout |-> cmd.stdout, prevFd |-> prevFd, pipefd |-> pipefd]]
        /\ fd' = [fd EXCEPT ![p] = fd[Shell]]
        /\ pids' = pids \cup {p}
        /\ pc' = "forked"
        /\ UNCHANGED <<cmd, i, prevFd, pipefd, work, pipe>>

\* The -1 of a fork() that fails is taken for the pid of a child.
ForkFails ==
    /\ pc = "fork"
    /\ "fork" \in Failures
    /\ kid' = [kid EXCEPT ![NextPid] = "unborn"]
    /\ pids' = pids \cup {NoPid}
    /\ pc' = "forked"
    /\ UNCHANGED <<cmd, i, prevFd, pipefd, fd, job, work, pipe>>

\* The shell goes on to the next process, or to wait for them.
GoOn ==
    /\ pc = "forked"
    /\ fd' = [fd EXCEPT ![Shell] = AfterFork(fd[Shell])]
    /\ prevFd' = IF HasNext THEN pipefd[1] ELSE prevFd
    /\ i' = i + 1
    /\ pc' = IF HasNext THEN "pipe" ELSE IF cmd.wait THEN "wait" ELSE "prompt"
    /\ UNCHANGED <<cmd, pipefd, pids, kid, job, work, pipe>>

\* Mutant: any process that is reaped counts as one of those waited for.
AnyOf(tree, p) == IF tree = {} THEN {} ELSE tree \ {Min(tree)}

\* The tree without p, if it is there at all.
Without(tree, p) == tree \ {p}

\* wait() returns some child that has exited, of this command or an earlier one.
Reap(p) ==
    /\ pc = "wait"
    /\ pids # {}
    /\ kid[p] = "zombie"
    /\ kid' = [kid EXCEPT ![p] = "reaped"]
    /\ pids' = Without(pids, p)
    /\ UNCHANGED <<pc, cmd, i, prevFd, pipefd, fd, job, work, pipe>>

\* Every process has been waited for, or wait() fails as there is no child.
Waited ==
    /\ pc = "wait"
    /\ pids = {} \/ \A p \in Pids : kid[p] \in {"none", "unborn", "reaped"}
    /\ pc' = "prompt"
    /\ UNCHANGED <<cmd, i, prevFd, pipefd, pids, fd, kid, job, work, pipe>>

Execute == PipeFails \/ MakePipe \/ Fork \/ ForkFails \/ GoOn \/ Waited \/ \E p \in Pids : Reap(p)

-----------------------------------------------------------------------------
(* A child, up to its execvp() *)

\* The end of process p, which closes its files.
Exit(p) ==
    /\ kid' = [kid EXCEPT ![p] = "zombie"]
    /\ fd' = [fd EXCEPT ![p] = NoFiles]
    /\ work' = [work EXCEPT ![p] = 0]
    /\ UNCHANGED <<pc, cmd, i, prevFd, pipefd, pids, job, pipe>>

\* What p has open once its standard input is what it should be.
InputOf(p) ==
    LET t == fd[p]
        new == Min(FreeFds(t))
    IN  IF job[p].i > 0 THEN Close(Dup2(t, job[p].prevFd, 0), job[p].prevFd)
        ELSE IF job[p].stdin THEN Close(Dup2(Open(t, InFile), new, 0), new)
        ELSE t

\* Mutant: the pipe is the wrong way around.
OutputBackwards(p) ==
    LET t == fd[p]
        pair == job[p].pipefd
    IN  IF job[p].next THEN Close(Close(Dup2(t, pair[1], 1), pair[1]), pair[2]) ELSE t

\* And its standard output.
OutputOf(p) ==
    LET t == fd[p]
        pair == job[p].pipefd
        new == Min(FreeFds(t))
    IN  IF job[p].next THEN Close(Close(Dup2(t, pair[2], 1), pair[1]), pair[2])
        ELSE IF job[p].stdout THEN Close(Dup2(Open(t, OutFile), new, 1), new)
        ELSE t

\* The child is about to open() the file it is redirected to or from.
OpensInput(p) == kid[p] = "forked" /\ job[p].i = 0 /\ job[p].stdin
OpensOutput(p) == kid[p] = "redirected" /\ ~job[p].next /\ job[p].stdout

\* What the child has open is its own, but the processes at the other ends of
\* its pipes see what it closes.
ChildInput(p) ==
    /\ kid[p] = "forked"
    /\ \/ /\ kid' = [kid EXCEPT ![p] = "redirected"]
          /\ fd' = [fd EXCEPT ![p] = InputOf(p)]
          /\ UNCHANGED <<pc, cmd, i, prevFd, pipefd, pids, job, work, pipe>>
       \/ "open" \in Failures /\ OpensInput(p) /\ Exit(p)

ChildOutput(p) ==
    /\ kid[p] = "redirected"
    /\ \/ /\ kid' = [kid EXCEPT ![p] = "ready"]
          /\ fd' = [fd EXCEPT ![p] = OutputOf(p)]
          /\ UNCHANGED <<pc, cmd, i, prevFd, pipefd, pids, job, work, pipe>>
       \/ "open" \in Failures /\ OpensOutput(p) /\ Exit(p)

ReadsPipe(p) == fd[p][0][1] = "read"
WritesPipe(p) == fd[p][1][1] = "write"

ChildExec(p) ==
    /\ kid[p] = "ready"
    /\ \/ /\ kid' = [kid EXCEPT ![p] = "running"]
          /\ work' = [work EXCEPT ![p] = IF ReadsPipe(p) THEN 0 ELSE Items]
          /\ UNCHANGED <<pc, cmd, i, prevFd, pipefd, pids, fd, job, pipe>>
       \/ "exec" \in Failures /\ Exit(p)

-----------------------------------------------------------------------------
(* A program *)

\* It reads something, which it is then to write.
Read(p) ==
    /\ kid[p] = "running"
    /\ ReadsPipe(p)
    /\ work[p] = 0
    /\ LET k == fd[p][0][2]
       IN  /\ pipe[k] > 0
           /\ pipe' = [pipe EXCEPT ![k] = @ - 1]
    /\ work' = [work EXCEPT ![p] = 1]
    /\ UNCHANGED <<pc, cmd, i, prevFd, pipefd, pids, fd, kid, job>>

\* It writes, to a file or into a pipe that has room.
Write(p) ==
    /\ kid[p] = "running"
    /\ work[p] > 0
    /\ IF WritesPipe(p)
       THEN LET k == fd[p][1][2]
            IN  /\ IsOpen(ReadEnd(k))
                /\ pipe[k] < Capacity
                /\ pipe' = [pipe EXCEPT ![k] = @ + 1]
       ELSE UNCHANGED pipe
    /\ work' = [work EXCEPT ![p] = @ - 1]
    /\ UNCHANGED <<pc, cmd, i, prevFd, pipefd, pids, fd, kid, job>>

\* It writes into a pipe nobody can read from: SIGPIPE.
BrokenPipe(p) ==
    /\ kid[p] = "running"
    /\ work[p] > 0
    /\ WritesPipe(p)
    /\ ~IsOpen(ReadEnd(fd[p][1][2]))
    /\ Exit(p)

\* It has come to the end of its input.
Finish(p) ==
    /\ kid[p] = "running"
    /\ work[p] = 0
    /\ ReadsPipe(p) => LET k == fd[p][0][2] IN pipe[k] = 0 /\ ~IsOpen(WriteEnd(k))
    /\ Exit(p)

\* It exits before that.
Quit(p) == kid[p] = "running" /\ work[p] = 0 /\ ReadsPipe(p) /\ Exit(p)

Run(p) ==
    \/ ChildInput(p)
    \/ ChildOutput(p)
    \/ ChildExec(p)
    \/ Read(p)
    \/ Write(p)
    \/ BrokenPipe(p)
    \/ Finish(p)

Next ==
    \/ \E c \in Commands : ReadCommand(c)
    \/ EndOfFile
    \/ Execute
    \/ \E p \in Pids : Run(p) \/ Quit(p)

Spec == Init /\ [][Next]_vars

\* The shell and the programs go on when they can; nobody has to type a
\* command, and no program has to quit early.
FairSpec ==
    /\ Spec
    /\ WF_vars(Execute)
    /\ \A p \in Pids : WF_vars(Run(p))

-----------------------------------------------------------------------------
(* Properties *)

TypeOK ==
    /\ pc \in {"prompt", "pipe", "fork", "forked", "wait", "exited"}
    /\ i \in 0 .. cmd.n
    /\ prevFd \in Fds \cup {NoFd}
    /\ pids \subseteq Pids \cup {NoPid}
    /\ fd \in [Pids \cup {Shell} -> [Fds -> Files]]
    /\ kid \in [Pids -> {"none", "unborn", "forked", "redirected", "ready", "running", "zombie", "reaped"}]
    /\ job \in [Pids -> Job]
    /\ work \in [Pids -> 0 .. Max({Items, 1})]
    /\ pipe \in [Pids -> 0 .. Capacity]

OpenFds(p) == {f \in Fds : fd[p][f] # Closed}

\* When the shell calls execvp(), and when it is back at its prompt, only the
\* files 0, 1 and 2 are open.
ThreeFiles ==
    /\ \A p \in Pids : kid[p] = "running" => OpenFds(p) = 0 .. 2
    /\ pc = "prompt" => OpenFds(Shell) = 0 .. 2

\* Standard output of child i is standard input of child i + 1, and what is
\* redirected is the input of the first child and the output of the last.
Plumbed ==
    \A p \in Pids : kid[p] = "running" =>
        /\ fd[p][0] = IF job[p].i > 0 THEN ReadEnd(p - 1)
                      ELSE IF job[p].stdin THEN InFile ELSE Stdin
        /\ fd[p][1] = IF job[p].next THEN WriteEnd(p)
                      ELSE IF job[p].stdout THEN OutFile ELSE Stdout

\* Without NOWAIT the shell does not continue until all the processes of the
\* pipe have completed, whoever else wait() returns in between.
AllWaitedFor ==
    pc = "prompt" /\ cmd.wait =>
        \A p \in Forks - i + 1 .. Forks : kid[p] \in {"unborn", "reaped"}

\* The shell gets back to its prompt: no pipeline waits for input that nobody
\* will write, on a pipe somebody keeps open.
ReadyAgain == pc \in {"pipe", "fork", "forked", "wait"} ~> pc \in {"prompt", "exited"}
=============================================================================
