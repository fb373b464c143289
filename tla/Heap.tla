-------------------------------- MODULE Heap --------------------------------
(* What my_malloc(), my_free() and coalesce_free_list() promise              *)
(* (Lab-7-Malloc/index.html), whatever the free list looks like in memory:   *)
(* the bytes that were got from sbrk() are cut into chunks, some free, some  *)
(* handed out; a request is met from a free chunk if one is big enough, and  *)
(* the heap grows only when none is.                                         *)
EXTENDS Integers

CONSTANT ChunkSizes    \* the sizes chunks are asked for

VARIABLES free, used,   \* the chunks on the free list, and those handed out
          owned,        \* the bytes my_malloc() has got from sbrk()
          top           \* the end of the heap: sbrk(0)

vars == <<free, used, owned, top>>

Chunk == [addr : Nat, size : Nat \ {0}]

End(c) == c.addr + c.size
Bytes(c) == c.addr .. End(c) - 1
BytesOf(chunks) == UNION {Bytes(c) : c \in chunks}

Apart(c, d) == End(c) <= d.addr \/ End(d) <= c.addr
Disjoint(chunks) == \A c, d \in chunks : c # d => Apart(c, d)

Init ==
    /\ free = {}
    /\ used = {}
    /\ owned = {}
    /\ top \in Nat

\* The last n bytes of the chunk c, and what is left in front of them.
Back(c, n) == [addr |-> c.addr + c.size - n, size |-> n]
Front(c, n) == {f \in {[addr |-> c.addr, size |-> c.size - n]} : f.size > 0}

\* A request is met from a free chunk.
Carve(n) ==
    /\ n \in Nat \ {0}
    /\ \E c \in free :
          /\ c.size >= n
          /\ free' = (free \ {c}) \cup Front(c, n)
          /\ used' = used \cup {Back(c, n)}
    /\ UNCHANGED <<owned, top>>

\* No free chunk is big enough: a new one, at the end of the heap, is.
Grow(n) ==
    /\ n \in Nat \ {0}
    /\ \A c \in free : c.size < n
    /\ top' \in Nat
    /\ top' >= top + n
    /\ LET c == [addr |-> top, size |-> top' - top]
       IN  /\ owned' = owned \cup Bytes(c)
           /\ free' = free \cup {c}
    /\ UNCHANGED used

Free(c) ==
    /\ used' = used \ {c}
    /\ free' = free \cup {c}
    /\ UNCHANGED <<owned, top>>

\* Two neighbours on the free list become one chunk.
Merge(c, d) ==
    /\ End(c) = d.addr
    /\ free' = (free \ {c, d}) \cup {[addr |-> c.addr, size |-> c.size + d.size]}
    /\ UNCHANGED <<used, owned, top>>

\* Others may call sbrk() too.
OtherGrows ==
    /\ top' \in Nat
    /\ top' > top
    /\ UNCHANGED <<free, used, owned>>

Next ==
    \/ \E n \in ChunkSizes : Carve(n) \/ Grow(n)
    \/ \E c \in used : Free(c)
    \/ \E c, d \in free : Merge(c, d)
    \/ OtherGrows

Spec == Init /\ [][Next]_vars

-----------------------------------------------------------------------------

TypeOK ==
    /\ free \subseteq Chunk
    /\ used \subseteq Chunk
    /\ owned \subseteq Nat
    /\ top \in Nat

\* The chunks cut up exactly the bytes got from sbrk(): none is lost and none
\* is in two chunks, so no byte is ever handed out twice.
Tiled ==
    /\ free \cap used = {}
    /\ Disjoint(free \cup used)
    /\ BytesOf(free \cup used) = owned
=============================================================================
