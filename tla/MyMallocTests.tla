--------------------------- MODULE MyMallocTests ----------------------------
(* The repository's tests of mymalloc.c, replayed on MyMalloc: what their     *)
(* double_check_memory() asserts of the program has to hold of the model.     *)
(*                                                                            *)
(* A test makes a call of my_malloc(), my_free() or coalesce_free_list(),     *)
(* whose loops then run to their end, with the page of the code.  Nothing is  *)
(* ever written to a block, so that of all the words of memory only those     *)
(* are kept in which the allocator has stored something.                      *)
EXTENDS Integers, SequencesExt

O == INSTANCE OnePageTests
T == INSTANCE ManyPagesTests

Tests == O!OnePageTests \o T!ManyPagesTests

VARIABLES calls,    \* the calls the test has still to make
          ptrs,     \* its arrays of pointers
          dc,       \* its array of sizes
          mem, head, brk, pc, bytes, tmp, last, addr, caller, ptr, nodes, pieces

\* The heap starts at some address; no request is so large that sbrk() fails.
Bottom == 8192

M == INSTANCE MyMalloc WITH Page <- 8192, Bottom <- Bottom, Limit <- 100 * Bottom,
                            Requests <- {}, Gaps <- {}, live <- {}

heap == <<mem, head, brk, nodes, pieces>>
vars == <<calls, ptrs, dc, heap, pc, bytes, tmp, last, addr, caller, ptr>>

Ended == calls = <<>>
Call == Head(calls)

Init ==
    /\ \E test \in DOMAIN Tests : calls = Tests[test]
    /\ ptrs = <<>> /\ dc = <<>>
    /\ mem = <<>>
    /\ head = M!NULL
    /\ brk = Bottom
    /\ pc = "idle"
    /\ bytes = 0 /\ tmp = M!NULL /\ last = M!NULL /\ addr = M!NULL /\ ptr = M!NULL
    /\ caller = "user"
    /\ nodes = {} /\ pieces = {}

\* my_malloc(bytes)
Malloc ==
    /\ Call.call = "my_malloc"
    /\ M!Malloc(Call.bytes)
    /\ UNCHANGED <<calls, ptrs, dc>>

\* array[i] = what it returned; dc[i] = ...
Assign ==
    /\ pc = "return"
    /\ ptrs' = (<<Call.array, Call.i>> :> ptr) @@ ptrs
    /\ dc' = IF Call.dc = 0 THEN dc ELSE (Call.i :> Call.dc) @@ dc
    /\ calls' = Tail(calls)
    /\ ptr' = M!NULL
    /\ M!Done
    /\ UNCHANGED heap

Free ==
    /\ Call.call = "my_free"
    /\ M!FreeAt(ptrs[<<Call.array, Call.i>>])
    /\ calls' = Tail(calls)
    /\ UNCHANGED <<ptrs, dc>>

Coalesce ==
    /\ Call.call = "coalesce_free_list"
    /\ M!Coalesce
    /\ calls' = Tail(calls)
    /\ UNCHANGED <<ptrs, dc>>

Loops == M!Loops /\ UNCHANGED <<calls, ptrs, dc>>

\* The free list, as free_list_begin() and free_list_next() walk it.
RECURSIVE NodesFrom(_)
NodesFrom(a) == IF a = M!NULL THEN <<>> ELSE <<a>> \o NodesFrom(M!NextOf(mem, a))
FreeList == NodesFrom(head)

\* The chunks that double_check_memory() looks at: those of ptrs[0 .. nptrs-1] and the
\* nodes of the free list, a chunk found twice being there twice.
CheckedChunks(nptrs) ==
    [i \in 1 .. nptrs |-> M!ChunkAt(ptrs[<<"ptrs", i - 1>>] - 8)]
        \o [k \in DOMAIN FreeList |-> M!ChunkAt(FreeList[k])]

\* double_check_memory(): the sizes of the chunks of ptrs; the bytes of all chunks,
\* counted and from the lowest to the highest address; the nodes of the free list.
DoubleCheck(nptrs, flSize, tbytes) ==
    LET chunks == CheckedChunks(nptrs)
        starts == {c.addr : c \in ToSet(chunks)}
        ends == {c.addr + c.size : c \in ToSet(chunks)}
    IN  /\ \A i \in 0 .. nptrs - 1 : mem[ptrs[<<"ptrs", i>>] - 8] = dc[i]
        /\ MapThenSumSet(LAMBDA k : chunks[k].size, DOMAIN chunks) = tbytes
        /\ Max(ends) - Min(starts) = tbytes
        /\ flSize \in {-1, Len(FreeList)}

\* The test prints "Correct" and ends.
Check ==
    /\ Call.call = "double_check_memory"
    /\ calls' = Tail(calls)
    /\ UNCHANGED <<ptrs, dc, heap, pc, bytes, tmp, last, addr, caller, ptr>>

Next ==
    \/ pc = "idle" /\ ~Ended /\ (Malloc \/ Free \/ Coalesce \/ Check)
    \/ Loops
    \/ Assign
    \/ pc = "idle" /\ Ended /\ UNCHANGED vars

Spec == Init /\ [][Next]_vars

-----------------------------------------------------------------------------
\* Every test of the repository prints "Correct": what double_check_memory()
\* asserts of the real program after the calls of a test holds of the model.
TestsAreCorrect ==
    pc = "idle" /\ ~Ended /\ Call.call = "double_check_memory" =>
        DoubleCheck(Call.nptrs, Call.flSize, Call.tbytes)
=============================================================================
