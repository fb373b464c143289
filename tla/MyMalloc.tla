------------------------------ MODULE MyMalloc ------------------------------
(* Lab-7-Malloc/mymalloc.c: the allocator over the memory it manages.        *)
(*                                                                           *)
(* Memory is modelled as its 8-byte words, at the addresses that are         *)
(* multiples of 8: a chunk at address a has its size in the word a and, while*)
(* it is free, its links in the words a + 8 and a + 16.  Nothing in the code *)
(* says that those two words are inside the chunk, so nothing here does.     *)
(* Addresses and sizes are below 2^31, where the store of a 4-byte int and   *)
(* the store of a pointer leave the same number in a word.                   *)
(*                                                                           *)
(* A step is a turn of one of the three loops that walk the free list.  The  *)
(* callers are part of the model: they fill every block they are given and   *)
(* later free it, and may call sbrk() themselves.                            *)
EXTENDS Integers

CONSTANTS Page,       \* 8192 in the code
          Bottom,     \* where the heap starts
          Limit,      \* bound: no call is made that takes the heap beyond it
          Requests,   \* the values my_malloc() is called with
          Gaps        \* the values others call sbrk() with

ASSUME MallocAssumption ==
    /\ \A n \in {Page, Bottom, Limit} \cup Gaps : n \in Nat /\ n % 8 = 0
    /\ 0 < Bottom /\ Bottom < Limit
    /\ 8 < Page
    /\ Requests \subseteq Nat

VARIABLES mem,       \* the words of the heap
          head,      \* start of the free list
          brk,       \* the end of the heap: sbrk(0)
          pc,        \* the loop that runs: of my_malloc(), my_free() or coalesce_free_list()
          bytes,     \* i_size
          tmp,       \* tmp_addr, the node the loop is at
          last,      \* last_addr
          addr,      \* the chunk my_free() puts on the list
          caller,    \* whom my_free() returns to
          ptr,       \* what my_malloc() returns
          nodes,     \* the chunks that were put on the free list and not taken off it (history)
          pieces,    \* what my_malloc() has got from sbrk() (history)
          live       \* the blocks callers hold: where they start, and the bytes asked for

heap == <<mem, head, brk, nodes, pieces>>
locals == <<bytes, tmp, last, addr, caller, ptr>>
vars == <<heap, pc, locals, live>>

NULL == 0

\* The words there are, with those behind the bound that a link of the last
\* chunk may be in.
Words == {w \in Bottom .. Limit + 8 : w % 8 = 0}
WordsIn(from, to) == {w \in Words : from <= w /\ w < to}

\* What callers fill their blocks and others their memory with: nothing that
\* the allocator writes.
Data == -1
Filled(m, words) == [w \in DOMAIN m |-> IF w \in words THEN Data ELSE m[w]]

-----------------------------------------------------------------------------
(* Chunks and the free list *)

\* m, with the value stored in the word.
Store(m, word, value) == [w \in DOMAIN m \cup {word} |-> IF w = word THEN value ELSE m[w]]

\* A store to a field of a node, if there is the node.
Set(m, a, field, value) == IF a = NULL THEN m ELSE Store(m, a + field, value)

\* free_list_next(), and the field prev.
NextOf(m, a) == m[a + 8]
PrevOf(m, a) == m[a + 16]

\* Mutants: no room for the bookkeeping; padded to a multiple of 4.
NoBookkeeping(n) == ((n + 7) \div 8) * 8
PaddedToFour(n) == ((n + 3 + 8) \div 4) * 4

\* The bytes of a chunk for a request: bookkeeping added, padded to a multiple of 8.
ChunkSize(n) == ((n + 7 + 8) \div 8) * 8

size == ChunkSize(bytes)

\* Mutant: a page for any request.
AlwaysAPage(n) == Page

\* What sbrk() is called with when no chunk of that size is free.
SbrkSize(n) == IF n < Page - 8 THEN Page ELSE n

-----------------------------------------------------------------------------
Init ==
    /\ mem = [w \in Words |-> 0]
    /\ head = NULL
    /\ brk = Bottom
    /\ pc = "idle"
    /\ bytes = 0 /\ tmp = NULL /\ last = NULL /\ addr = NULL /\ caller = "user" /\ ptr = NULL
    /\ nodes = {} /\ pieces = {} /\ live = {}

\* The loop is at its first node.
Begin(loop) ==
    /\ pc' = loop
    /\ tmp' = head'
    /\ last' = NULL

\* Back in the caller, where the locals are gone.
Done ==
    /\ pc' = "idle"
    /\ tmp' = NULL /\ last' = NULL /\ addr' = NULL /\ bytes' = 0 /\ caller' = "user"

\* tmp_addr = free_list_next(tmp_addr)
GoOn ==
    /\ tmp' = NextOf(mem, tmp)
    /\ UNCHANGED <<heap, pc, bytes, addr, caller, ptr, live>>

-----------------------------------------------------------------------------
(* my_malloc() *)

\* No request is made that may take the heap beyond its bound.
Malloc(n) ==
    /\ pc = "idle"
    /\ brk + SbrkSize(ChunkSize(n)) <= Limit \/ \E a \in nodes : mem[a] >= ChunkSize(n)
    /\ bytes' = n
    /\ UNCHANGED <<heap, addr, caller, ptr, live>>
    /\ Begin("fit")

TooSmall ==
    /\ pc = "fit" /\ tmp # NULL
    /\ mem[tmp] < size
    /\ GoOn
    /\ UNCHANGED last

\* Carves the block off the back of the chunk.
Carve ==
    LET left == mem[tmp] - size IN
    /\ pc = "fit" /\ tmp # NULL
    /\ mem[tmp] > size
    /\ mem' = Store(Store(mem, tmp, left), tmp + left, size)
    /\ ptr' = tmp + left + 8
    /\ pc' = "return"
    /\ UNCHANGED <<head, brk, nodes, pieces, bytes, tmp, last, addr, caller, live>>

\* Mutant: the chunk behind the one removed keeps its prev.
UnlinkedOneWay(m, a) ==
    IF a = head THEN m ELSE Set(m, PrevOf(m, a), 8, NextOf(m, a))

\* The memory m without the node a between its prev and its next.
Unlinked(m, a) ==
    LET next == NextOf(m, a)
        prev == PrevOf(m, a)
    IN  IF a = head THEN Set(m, next, 16, NULL)
                    ELSE Set(Set(m, prev, 8, next), next, 16, prev)

\* Takes the whole chunk off the free list.
Remove ==
    /\ pc = "fit" /\ tmp # NULL
    /\ mem[tmp] = size
    /\ mem' = Unlinked(mem, tmp)
    /\ head' = IF tmp = head THEN NextOf(mem, tmp) ELSE head
    /\ nodes' = nodes \ {tmp}
    /\ ptr' = tmp + 8
    /\ pc' = "return"
    /\ UNCHANGED <<brk, pieces, bytes, tmp, last, addr, caller, live>>

\* No chunk is big enough: a new one goes onto the free list, by my_free().
Sbrk ==
    LET n == SbrkSize(size) IN
    /\ pc = "fit" /\ tmp = NULL
    /\ brk + n <= Limit
    /\ brk' = brk + n
    /\ pieces' = pieces \cup {[addr |-> brk, size |-> n]}
    /\ mem' = Store(mem, brk, n)
    /\ addr' = brk
    /\ caller' = "my_malloc"
    /\ UNCHANGED <<head, nodes, bytes, ptr, live>>
    /\ Begin("place")

\* The caller is given the block, and fills the bytes it asked for.
Give ==
    /\ pc = "return"
    /\ mem' = Filled(mem, WordsIn(ptr, ptr + bytes))
    /\ live' = live \cup {[ptr |-> ptr, bytes |-> bytes]}
    /\ ptr' = NULL
    /\ Done
    /\ UNCHANGED <<head, brk, nodes, pieces>>

-----------------------------------------------------------------------------
(* my_free() *)

\* The loop of my_free(p) begins.
FreeAt(p) ==
    /\ pc = "idle"
    /\ addr' = p - 8
    /\ caller' = "user"
    /\ UNCHANGED <<heap, bytes, ptr>>
    /\ Begin("place")

Free(b) ==
    /\ FreeAt(b.ptr)
    /\ live' = live \ {b}

Below ==
    /\ pc = "place" /\ tmp # NULL /\ tmp <= addr
    /\ last' = tmp
    /\ GoOn

\* The chunk goes between last and tmp, where there may be no node.
Insert ==
    /\ pc = "place" /\ (tmp = NULL \/ addr < tmp)
    /\ mem' = Set(Store(Store(Set(mem, last, 8, addr), addr + 16, last), addr + 8, tmp), tmp, 16, addr)
    /\ head' = IF last = NULL THEN addr ELSE head
    /\ nodes' = nodes \cup {addr}
    /\ IF caller = "user" THEN Done
                          ELSE Begin("fit") /\ addr' = NULL /\ caller' = "user" /\ UNCHANGED bytes
    /\ UNCHANGED <<brk, pieces, ptr, live>>

-----------------------------------------------------------------------------
(* coalesce_free_list() *)

Coalesce ==
    /\ pc = "idle"
    /\ UNCHANGED <<heap, bytes, addr, caller, ptr, live>>
    /\ Begin("merge")

Adjacent == tmp + mem[tmp] = NextOf(mem, tmp)

\* Mutant: goes on to the next chunk after each merge.
MergeInPairs ==
    LET next == NextOf(mem, tmp)
        after == NextOf(mem, next)
    IN  /\ pc = "merge" /\ tmp # NULL
        /\ Adjacent
        /\ mem' = Set(Store(Store(mem, tmp, mem[tmp] + mem[next]), tmp + 8, after), after, 16, tmp)
        /\ nodes' = nodes \ {next}
        /\ tmp' = after
        /\ UNCHANGED <<head, brk, pieces, pc, bytes, last, addr, caller, ptr, live>>

Merge ==
    LET next == NextOf(mem, tmp)
        after == NextOf(mem, next)
    IN  /\ pc = "merge" /\ tmp # NULL
        /\ Adjacent
        /\ mem' = Set(Store(Store(mem, tmp, mem[tmp] + mem[next]), tmp + 8, after), after, 16, tmp)
        /\ nodes' = nodes \ {next}
        /\ UNCHANGED <<head, brk, pieces, pc, locals, live>>

NotAdjacent ==
    /\ pc = "merge" /\ tmp # NULL
    /\ ~Adjacent
    /\ GoOn
    /\ UNCHANGED last

AllMerged ==
    /\ pc = "merge" /\ tmp = NULL
    /\ Done
    /\ UNCHANGED <<heap, ptr, live>>

-----------------------------------------------------------------------------
\* Another procedure calls sbrk(gap) and uses what it gets.
OtherSbrk(gap) ==
    /\ pc = "idle"
    /\ brk + gap <= Limit
    /\ brk' = brk + gap
    /\ mem' = Filled(mem, WordsIn(brk, brk'))
    /\ UNCHANGED <<head, nodes, pieces, pc, locals, live>>

Calls ==
    \/ \E n \in Requests : Malloc(n)
    \/ \E b \in live : Free(b)
    \/ Coalesce
    \/ \E gap \in Gaps : OtherSbrk(gap)

Loops ==
    \/ TooSmall \/ Carve \/ Remove \/ Sbrk
    \/ Below \/ Insert
    \/ Merge \/ NotAdjacent \/ AllMerged

Next == Calls \/ Loops \/ Give

Spec == Init /\ [][Next]_vars

-----------------------------------------------------------------------------
(* Properties *)

Addresses == {NULL} \cup WordsIn(Bottom, brk)
\* A block without bytes may begin where the heap ends.
BlockAddresses == WordsIn(Bottom, brk + 8)

\* Pointers are aligned to 8 bytes, and what the calls are about is in the
\* heap.
TypeOK ==
    /\ mem \in [Words -> Int]
    /\ brk \in Bottom .. Limit /\ brk % 8 = 0
    /\ {head, tmp, last, addr} \subseteq Addresses /\ ptr \in {NULL} \cup BlockAddresses
    /\ nodes \subseteq Addresses \ {NULL}
    /\ pc \in {"idle", "fit", "return", "place", "merge"}
    /\ (pc \in {"fit", "return"} => bytes \in Requests)
    /\ (pc = "place" /\ caller = "my_malloc" => bytes \in Requests)
    /\ (pc = "place" => addr # NULL)
    /\ caller \in {"user", "my_malloc"}
    /\ pieces \subseteq [addr : WordsIn(Bottom, brk), size : Nat \ {0}]
    /\ live \subseteq [ptr : BlockAddresses, bytes : Requests]

\* The first four of the eight bytes before a block hold the size of its
\* chunk, from the call that returned it to the call that frees it.
HeaderIsSize == \A b \in live : mem[b.ptr - 8] = ChunkSize(b.bytes)

OurBytes == UNION {p.addr .. p.addr + p.size - 1 : p \in pieces}

\* Nobody but the caller writes to a block, and nothing is written to memory
\* that others got from sbrk().
DataKept ==
    /\ \A b \in live : \A w \in WordsIn(b.ptr, b.ptr + b.bytes) : mem[w] = Data
    /\ \A w \in WordsIn(Bottom, brk) : w \notin OurBytes => mem[w] = Data

\* What every block relies on, from the call that returns it to the call that
\* frees it.
BlocksIntact == HeaderIsSize /\ DataKept

\* b is the element of S behind a, or NULL when there is none; and the one before a.
IsNext(S, a, b) ==
    IF b = NULL THEN \A c \in S : c <= a
                ELSE b \in S /\ a < b /\ \A c \in S : c <= a \/ b <= c
IsPrev(S, a, b) == (b = NULL \/ b \in S) /\ b < a /\ \A c \in S : c <= b \/ a <= c

\* The free list is the nodes in the order of their addresses, linked both ways: head
\* is the first, next and prev of each are the nodes around it.  And the loop of
\* coalesce_free_list() leaves none that could be combined behind it.
ListLinked ==
    /\ IsNext(nodes, NULL, head)
    /\ \A a \in nodes : IsNext(nodes, a, NextOf(mem, a)) /\ IsPrev(nodes, a, PrevOf(mem, a))
    /\ pc = "merge" => \A a \in nodes : tmp = NULL \/ a < tmp => a + mem[a] # NextOf(mem, a)

-----------------------------------------------------------------------------
(* The allocator keeps its promise *)

ChunkAt(a) == [addr |-> a, size |-> mem[a]]

\* A chunk on its way to the free list is the caller's until it is there, or free
\* from the beginning when it is new.  A block is handed out when it is found.
FreeAddrs == nodes \cup (IF pc = "place" /\ caller = "my_malloc" THEN {addr} ELSE {})
UsedAddrs ==
    {b.ptr - 8 : b \in live} \cup (IF pc = "place" /\ caller = "user" THEN {addr}
                                   ELSE IF pc = "return" THEN {ptr - 8} ELSE {})

FreeChunks == {ChunkAt(a) : a \in FreeAddrs}
UsedChunks == {ChunkAt(a) : a \in UsedAddrs}

H == INSTANCE Heap WITH free <- FreeChunks, used <- UsedChunks, top <- brk, owned <- OurBytes,
                        ChunkSizes <- {ChunkSize(n) : n \in Requests}

ImplementsHeap == H!Spec
=============================================================================
