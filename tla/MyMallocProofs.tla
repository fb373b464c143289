--------------------------- MODULE MyMallocProofs ---------------------------
(***************************************************************************)
(* Proofs about MyMalloc.tla, for any page, requests and foreign sbrk()     *)
(* calls: as long as every chunk on the free list has room for the three    *)
(* fields of a node, the list is linked as it should be, blocks keep their  *)
(* sizes and their data, and the allocator implements Heap.tla.             *)
(***************************************************************************)
EXTENDS MyMalloc, TLAPS

HP == INSTANCE HeapProofs WITH free <- FreeChunks, used <- UsedChunks, top <- brk, owned <- OurBytes,
                               ChunkSizes <- {ChunkSize(n) : n \in Requests}

\* A chunk on the free list holds a size and two links.  A chunk of fewer bytes,
\* from a request of up to 8 bytes or left behind by carving, has no room for
\* them: what then happens is the subject of mymalloc_small_request.cfg.
Listed == nodes \cup (IF pc = "place" THEN {addr} ELSE {})
RoomForLinks == \A a \in Listed : mem[a] >= 24

-----------------------------------------------------------------------------
(* The inductive invariant *)

Held == {b.ptr - 8 : b \in live}
Pending == IF pc = "place" THEN {addr} ELSE IF pc = "return" THEN {ptr - 8} ELSE {}
Chunks == nodes \cup Held \cup Pending

\* No chunk is two things at once.
Once ==
    /\ \A b, c \in live : b.ptr = c.ptr => b = c
    /\ nodes \cap Held = {} /\ Pending \cap (nodes \cup Held) = {}

Aligned == \A a \in Chunks : mem[a] % 8 = 0

\* The block about to be returned is as it should be.
Returning == pc = "return" => ptr # NULL /\ mem[ptr - 8] = ChunkSize(bytes)

\* The loops are at a node, or past the last one.  my_malloc() has found nothing
\* that is big enough, my_free() knows the two nodes its chunk goes between.
AtNode ==
    /\ pc \in {"fit", "place", "merge"} => tmp = NULL \/ tmp \in nodes
    /\ pc = "fit" => \A a \in nodes : tmp = NULL \/ a < tmp => mem[a] < size
    /\ pc = "place" => (last = NULL \/ last \in nodes) /\ last < addr /\ IsNext(nodes, last, tmp)

IInv ==
    /\ TypeOK
    /\ HP!IInv
    /\ Once
    /\ Aligned
    /\ Returning
    /\ AtNode
    /\ ListLinked
    /\ BlocksIntact

-----------------------------------------------------------------------------
(* Numbers and memory *)

LEMMA NullIs == NULL \in Nat /\ NULL = 0 /\ NULL % 8 = 0
  BY DEF NULL

LEMMA Bounds ==
    /\ Page \in Nat /\ Page % 8 = 0 /\ Page > 8
    /\ Bottom \in Nat /\ Bottom % 8 = 0 /\ Bottom > 0
    /\ Limit \in Nat /\ Limit % 8 = 0 /\ Bottom < Limit
    /\ Requests \subseteq Nat
    /\ \A gap \in Gaps : gap \in Nat /\ gap % 8 = 0
  BY MallocAssumption

\* Sums and differences of multiples of 8.
LEMMA Eights ==
    \A x, y \in Int : x % 8 = 0 /\ y % 8 = 0 => (x + y) % 8 = 0 /\ (x - y) % 8 = 0
  OBVIOUS

LEMMA EightDivides == 8 % 8 = 0 /\ 16 % 8 = 0 /\ \A x \in Int : x > 0 /\ x % 8 = 0 => x >= 8
  OBVIOUS

\* A chunk has room for its bookkeeping and the bytes asked for.
LEMMA ChunkSizeIs ==
    ASSUME NEW n \in Nat
    PROVE  ChunkSize(n) \in Nat /\ ChunkSize(n) % 8 = 0 /\ ChunkSize(n) >= n + 8
  BY DEF ChunkSize

LEMMA SbrkSizeIs ==
    ASSUME NEW n \in Nat, n > 0, n % 8 = 0
    PROVE  SbrkSize(n) \in Nat /\ SbrkSize(n) % 8 = 0 /\ SbrkSize(n) >= n /\ SbrkSize(n) > 0
  BY Bounds DEF SbrkSize

LEMMA StoreIs ==
    ASSUME NEW m \in [Words -> Int], NEW w \in Words, NEW v \in Int
    PROVE  /\ Store(m, w, v) \in [Words -> Int]
           /\ Store(m, w, v)[w] = v
           /\ \A u \in Words : u # w => Store(m, w, v)[u] = m[u]
<1>1. Words \cup {w} = Words
  OBVIOUS
<1>2. Store(m, w, v) = [u \in Words |-> IF u = w THEN v ELSE m[u]]
  BY <1>1, Zenon DEF Store
<1> QED
  BY <1>2

LEMMA SetIs ==
    ASSUME NEW m \in [Words -> Int], NEW a \in Int, NEW f \in {8, 16}, a # NULL => a + f \in Words,
           NEW v \in Int
    PROVE  /\ Set(m, a, f, v) \in [Words -> Int]
           /\ a # NULL => Set(m, a, f, v)[a + f] = v
           /\ \A u \in Words : a = NULL \/ u # a + f => Set(m, a, f, v)[u] = m[u]
  BY StoreIs DEF Set

-----------------------------------------------------------------------------
(* Sets of addresses in order *)

LEMMA TakenOut ==
    ASSUME NEW S, S \subseteq Nat \ {0}, NEW a \in Nat, a \in S, NEW n \in Int, NEW p \in Int,
           IsNext(S, a, n), IsPrev(S, a, p)
    PROVE  /\ IsNext(S \ {a}, p, n)
           /\ n # NULL => n \in S \ {a} /\ IsPrev(S \ {a}, n, p)
           /\ \A c \in S \cup {NULL} : \A x \in Int : c # p /\ c # a /\ IsNext(S, c, x) => IsNext(S \ {a}, c, x)
           /\ \A c \in S : \A x \in Int : c # n /\ c # a /\ IsPrev(S, c, x) => IsPrev(S \ {a}, c, x)
<1>1. \A c \in S \cup {NULL} : c \in Nat /\ (c \in S => c > NULL)
  BY NullIs
<1>2. /\ p \in S \cup {NULL} /\ p < a /\ p # a /\ \A c \in S : c <= p \/ a <= c
      /\ n = NULL => \A c \in S : c <= a
      /\ n # NULL => n \in S /\ a < n /\ a # n /\ \A c \in S : c <= a \/ n <= c
  BY <1>1 DEF IsPrev, IsNext
<1>3. IsNext(S \ {a}, p, n)
  BY <1>1, <1>2 DEF IsNext
<1>4. n # NULL => n \in S \ {a} /\ IsPrev(S \ {a}, n, p)
  BY <1>1, <1>2 DEF IsPrev
<1>5. ASSUME NEW c \in S \cup {NULL}, NEW x \in Int, c # p, c # a, IsNext(S, c, x)
      PROVE  IsNext(S \ {a}, c, x)
  <2>1. CASE x = NULL
    BY <2>1, <1>5 DEF IsNext
  <2>2. CASE x # NULL
    <3>1. x \in S /\ c < x /\ \A d \in S : d <= c \/ x <= d
      BY <1>5, <2>2 DEF IsNext
    <3>2. x # a
      BY <1>1, <1>2, <1>5, <3>1
    <3> QED
      BY <2>2, <3>1, <3>2 DEF IsNext
  <2> QED
    BY <2>1, <2>2
<1>6. ASSUME NEW c \in S, NEW x \in Int, c # n, c # a, IsPrev(S, c, x)
      PROVE  IsPrev(S \ {a}, c, x)
  <2>1. x \in S \cup {NULL} /\ x < c /\ \A d \in S : d <= x \/ c <= d
    BY <1>6 DEF IsPrev
  <2>2. x # a
    BY <1>1, <1>2, <1>6, <2>1
  <2> QED
    BY <2>1, <2>2 DEF IsPrev
<1> QED
  BY <1>3, <1>4, <1>5, <1>6

LEMMA PutIn ==
    ASSUME NEW S, S \subseteq Nat \ {0}, NEW a \in Nat \ {0}, a \notin S, NEW l \in Int, NEW t \in Int,
           l = NULL \/ l \in S, l < a, IsNext(S, l, t), t = NULL \/ a < t
    PROVE  /\ IsNext(S \cup {a}, l, a) /\ IsNext(S \cup {a}, a, t)
           /\ IsPrev(S \cup {a}, a, l)
           /\ t # NULL => IsPrev(S \cup {a}, t, a)
           /\ \A c \in S \cup {NULL} : \A x \in Int : c # l /\ IsNext(S, c, x) => IsNext(S \cup {a}, c, x)
           /\ \A c \in S : \A x \in Int : c # t /\ IsPrev(S, c, x) => IsPrev(S \cup {a}, c, x)
<1>1. \A c \in S \cup {NULL} : c \in Nat /\ (c \in S => c > NULL)
  BY NullIs
<1>2. /\ l \in S \cup {NULL} /\ l < a /\ l # a /\ a # NULL
      /\ t = NULL => \A c \in S : c <= l
      /\ t # NULL => t \in S /\ a < t /\ a # t /\ l < t /\ \A c \in S : c <= l \/ t <= c
  BY <1>1, NullIs DEF IsNext
<1>3. IsNext(S \cup {a}, l, a) /\ IsNext(S \cup {a}, a, t)
  BY <1>1, <1>2 DEF IsNext
<1>4. IsPrev(S \cup {a}, a, l) /\ (t # NULL => IsPrev(S \cup {a}, t, a))
  BY <1>1, <1>2 DEF IsPrev
<1>5. ASSUME NEW c \in S \cup {NULL}, NEW x \in Int, c # l, IsNext(S, c, x)
      PROVE  IsNext(S \cup {a}, c, x)
  <2>1. CASE x = NULL
    BY <1>1, <1>2, <1>5, <2>1 DEF IsNext
  <2>2. CASE x # NULL
    <3>1. x \in S /\ c < x /\ \A d \in S : d <= c \/ x <= d
      BY <1>5, <2>2 DEF IsNext
    <3>2. a <= c \/ x <= a
      BY <1>1, <1>2, <1>5, <3>1
    <3> QED
      BY <2>2, <3>1, <3>2 DEF IsNext
  <2> QED
    BY <2>1, <2>2
<1>6. ASSUME NEW c \in S, NEW x \in Int, c # t, IsPrev(S, c, x)
      PROVE  IsPrev(S \cup {a}, c, x)
  <2>1. x \in S \cup {NULL} /\ x < c /\ \A d \in S : d <= x \/ c <= d
    BY <1>6 DEF IsPrev
  <2>2. a <= x \/ c <= a
    BY <1>1, <1>2, <1>6, <2>1
  <2> QED
    BY <2>1, <2>2 DEF IsPrev
<1> QED
  BY <1>3, <1>4, <1>5, <1>6

-----------------------------------------------------------------------------
(* Chunks *)

LEMMA Typed ==
    ASSUME TypeOK
    PROVE  /\ mem \in [Words -> Int]
           /\ brk \in Int /\ Bottom <= brk /\ brk <= Limit /\ brk % 8 = 0
           /\ \A a \in Addresses : a \in Nat /\ a % 8 = 0 /\ (a # NULL => a \in Words /\ Bottom <= a /\ a < brk)
           /\ nodes \subseteq Addresses /\ NULL \notin nodes
           /\ {head, tmp, last, addr} \subseteq Addresses
           /\ \A b \in live : b.ptr \in Int /\ b.ptr % 8 = 0 /\ b.bytes \in Nat
           /\ ptr \in Int /\ ptr % 8 = 0
<1>1. \A a \in Addresses : a \in Nat /\ a % 8 = 0 /\ (a # NULL => a \in Words /\ Bottom <= a /\ a < brk)
  BY Bounds DEF Addresses, WordsIn, Words, NULL
<1>2. \A a \in BlockAddresses : a \in Int /\ a % 8 = 0
  BY Bounds DEF BlockAddresses, WordsIn, Words
<1>3. \A b \in live : b.ptr \in Int /\ b.ptr % 8 = 0 /\ b.bytes \in Nat
  BY <1>2, Bounds DEF TypeOK
<1>4. ptr \in Int /\ ptr % 8 = 0
  BY <1>2, NullIs DEF TypeOK
<1>5. brk \in Int /\ Bottom <= brk /\ brk <= Limit /\ brk % 8 = 0
  BY Bounds DEF TypeOK
<1> QED
  BY <1>1, <1>3, <1>4, <1>5 DEF TypeOK

\* The chunks of Heap.tla are those at these addresses.
LEMMA AllChunks ==
    ASSUME TypeOK
    PROVE  /\ FreeAddrs \cup UsedAddrs = Chunks
           /\ FreeChunks \cup UsedChunks = {ChunkAt(a) : a \in Chunks}
<1>1. FreeAddrs \cup UsedAddrs = Chunks
  <2>1. pc = "place" => caller = "my_malloc" \/ caller = "user"
    BY DEF TypeOK
  <2> QED
    BY <2>1 DEF FreeAddrs, UsedAddrs, Chunks, Held, Pending
<1>2. FreeChunks \cup UsedChunks = {ChunkAt(a) : a \in FreeAddrs \cup UsedAddrs}
  BY Zenon DEF FreeChunks, UsedChunks
<1> QED
  BY <1>1, <1>2

\* Chunks are in the heap, in what was got from sbrk(), and apart.
LEMMA Layout ==
    ASSUME IInv
    PROVE  /\ \A a \in Chunks : /\ a \in Nat /\ Bottom <= a /\ a % 8 = 0 /\ a \in Words
                                /\ mem[a] \in Nat /\ mem[a] >= 8 /\ mem[a] % 8 = 0
                                /\ a + mem[a] <= brk
                                /\ a .. a + mem[a] - 1 \subseteq OurBytes
           /\ \A a, b \in Chunks : a # b => a + mem[a] <= b \/ b + mem[b] <= a
<1>1. \A a \in Chunks : ChunkAt(a) \in HP!Chunk /\ HP!Bytes(ChunkAt(a)) \subseteq OurBytes
  <2>1. \A a \in Chunks : ChunkAt(a) \in FreeChunks \cup UsedChunks
    BY AllChunks DEF IInv
  <2>2. \A c \in FreeChunks \cup UsedChunks : c \in HP!Chunk /\ HP!Bytes(c) \subseteq OurBytes
    BY DEF IInv, HP!IInv, HP!TypeOK, HP!Tiled, HP!BytesOf
  <2> QED
    BY <2>1, <2>2
<1>2. \A b \in OurBytes : b \in Int /\ Bottom <= b /\ b < brk
  <2>1. \A b \in OurBytes : b < brk
    BY DEF IInv, HP!IInv, HP!Below
  <2>2. ASSUME NEW b \in OurBytes
        PROVE  b \in Int /\ Bottom <= b
    <3>1. PICK p \in pieces : b \in p.addr .. p.addr + p.size - 1
      BY DEF OurBytes
    <3>2. p.addr \in Int /\ Bottom <= p.addr /\ p.size \in Int
      BY Bounds DEF IInv, TypeOK, WordsIn, Words
    <3> QED
      BY <3>1, <3>2, Bounds
  <2> QED
    BY <2>1, <2>2
<1>3. ASSUME NEW a \in Chunks
      PROVE  /\ a \in Nat /\ Bottom <= a /\ a % 8 = 0 /\ a \in Words
             /\ mem[a] \in Nat /\ mem[a] >= 8 /\ mem[a] % 8 = 0
             /\ a + mem[a] <= brk
             /\ a .. a + mem[a] - 1 \subseteq OurBytes
  <2>1. a \in Nat /\ mem[a] \in Nat \ {0}
    BY <1>1 DEF ChunkAt, HP!Chunk
  <2>2. a .. a + mem[a] - 1 \subseteq OurBytes
    <3>1. ChunkAt(a).addr = a /\ ChunkAt(a).size = mem[a]
      BY DEF ChunkAt
    <3>2. HP!Bytes(ChunkAt(a)) = a .. a + mem[a] - 1
      BY <2>1, <3>1 DEF HP!Bytes, HP!End
    <3> QED
      BY <1>1, <3>2
  <2>3. Bottom <= a /\ a + mem[a] - 1 < brk
    BY <1>2, <2>1, <2>2
  <2>4. a % 8 = 0
    <3>1. TypeOK
      BY DEF IInv
    <3>2. CASE a \in nodes \cup {addr}
      BY <3>1, <3>2, Typed
    <3>3. CASE a \in Held \cup {ptr - 8}
      <4>1. PICK p \in Int : p % 8 = 0 /\ a = p - 8
        BY <3>1, <3>3, Typed DEF Held
      <4> QED
        BY <4>1
    <3> QED
      BY <3>2, <3>3 DEF Chunks, Pending
  <2>5. mem[a] >= 8 /\ mem[a] % 8 = 0
    BY <2>1, EightDivides DEF IInv, Aligned
  <2>6. a \in Words
    BY <2>1, <2>3, <2>4, Typed, Bounds DEF IInv, Words
  <2> QED
    BY <2>1, <2>2, <2>3, <2>4, <2>5, <2>6, Typed DEF IInv
<1>4. ASSUME NEW a \in Chunks, NEW b \in Chunks, a # b
      PROVE  a + mem[a] <= b \/ b + mem[b] <= a
  <2>1. ChunkAt(a) \in FreeChunks \cup UsedChunks /\ ChunkAt(b) \in FreeChunks \cup UsedChunks
    BY AllChunks DEF IInv
  <2>2. ChunkAt(a) # ChunkAt(b)
    BY <1>4 DEF ChunkAt
  <2>3. HP!Apart(ChunkAt(a), ChunkAt(b))
    BY <2>1, <2>2 DEF IInv, HP!IInv, HP!Tiled, HP!Disjoint
  <2> QED
    BY <2>3 DEF HP!Apart, HP!End, ChunkAt
<1> QED
  BY <1>3, <1>4

\* The word w is in the chunk at a.
Inside(w, a) == a <= w /\ w < a + mem[a]

LEMMA Regions ==
    ASSUME IInv, NEW w \in Int, NEW a \in Chunks, NEW b \in Chunks, Inside(w, a), Inside(w, b)
    PROVE  a = b
<1>1. a \in Int /\ b \in Int /\ mem[a] \in Int /\ mem[b] \in Int
  BY Layout
<1>2. a # b => a + mem[a] <= b \/ b + mem[b] <= a
  BY Layout
<1> QED
  BY <1>1, <1>2 DEF Inside

\* A node with room for them has its fields in words of its own.
LEMMA Fields ==
    ASSUME IInv, NEW a \in Chunks, mem[a] >= 24
    PROVE  /\ a \in Words /\ a + 8 \in Words /\ a + 16 \in Words
           /\ Inside(a, a) /\ Inside(a + 8, a) /\ Inside(a + 16, a)
<1>1. a \in Nat /\ Bottom <= a /\ a % 8 = 0 /\ mem[a] \in Nat /\ a + mem[a] <= brk /\ a \in Words
  BY Layout
<1>2. brk \in Int /\ brk <= Limit
  BY Typed DEF IInv
<1>3. a + 8 \in Words /\ a + 16 \in Words
  <2>1. (a + 8) % 8 = 0 /\ (a + 16) % 8 = 0
    BY <1>1
  <2> QED
    BY <1>1, <1>2, <2>1, Bounds DEF Words
<1> QED
  BY <1>1, <1>3 DEF Inside

\* Whatever is written to chunks that no caller holds, the blocks and the memory of
\* others are as they were.
LEMMA Frame ==
    ASSUME IInv, NEW m \in [Words -> Int], NEW W, W \subseteq Int,
           \A w \in Words : w \notin W => m[w] = mem[w],
           \A w \in W : \E a \in nodes \cup Pending : Inside(w, a)
    PROVE  /\ \A b \in live : m[b.ptr - 8] = ChunkSize(b.bytes)
           /\ \A b \in live : \A w \in WordsIn(b.ptr, b.ptr + b.bytes) : m[w] = Data
           /\ \A w \in WordsIn(Bottom, brk) : w \notin OurBytes => m[w] = Data
<1>1. ASSUME NEW b \in live, NEW w \in Words, b.ptr - 8 <= w, w < b.ptr + b.bytes
      PROVE  m[w] = mem[w]
  <2>1. b.ptr - 8 \in Held /\ b.ptr - 8 \in Chunks /\ b.ptr \in Int /\ b.bytes \in Nat
    BY Typed DEF IInv, Held, Chunks
  <2>2. mem[b.ptr - 8] = ChunkSize(b.bytes)
    BY DEF IInv, BlocksIntact, HeaderIsSize
  <2>3. ChunkSize(b.bytes) \in Nat /\ ChunkSize(b.bytes) >= b.bytes + 8
    BY <2>1, ChunkSizeIs
  <2>4. w \in Int
    BY Bounds DEF Words
  <2>5. Inside(w, b.ptr - 8)
    BY <1>1, <2>1, <2>2, <2>3, <2>4 DEF Inside
  <2>6. \A a \in nodes \cup Pending : a \in Chunks /\ a # b.ptr - 8
    BY <2>1 DEF IInv, Once, Chunks
  <2>7. w \notin W
    BY <2>1, <2>4, <2>5, <2>6, Regions
  <2> QED
    BY <2>7
<1>2. ASSUME NEW b \in live
      PROVE  /\ m[b.ptr - 8] = ChunkSize(b.bytes)
             /\ \A w \in WordsIn(b.ptr, b.ptr + b.bytes) : m[w] = Data
  <2>1. b.ptr \in Int /\ b.bytes \in Nat
    BY Typed DEF IInv
  <2>2. b.ptr - 8 \in Words
    BY Layout DEF Chunks, Held
  <2>3. m[b.ptr - 8] = mem[b.ptr - 8]
    BY <1>1, <2>1, <2>2
  <2>4. \A w \in WordsIn(b.ptr, b.ptr + b.bytes) : w \in Words /\ b.ptr - 8 <= w /\ w < b.ptr + b.bytes
    BY <2>1, Bounds DEF WordsIn, Words
  <2>5. \A w \in WordsIn(b.ptr, b.ptr + b.bytes) : m[w] = mem[w]
    BY <1>1, <2>4
  <2> QED
    BY <2>3, <2>5 DEF IInv, BlocksIntact, HeaderIsSize, DataKept
<1>3. ASSUME NEW w \in WordsIn(Bottom, brk), w \notin OurBytes
      PROVE  m[w] = Data
  <2>1. w \in Words /\ w \in Int
    BY Bounds DEF WordsIn, Words
  <2>2. \A a \in Chunks : ~Inside(w, a)
    <3> SUFFICES ASSUME NEW a \in Chunks, Inside(w, a) PROVE FALSE
      OBVIOUS
    <3>1. a \in Nat /\ mem[a] \in Nat /\ a .. a + mem[a] - 1 \subseteq OurBytes
      BY Layout
    <3>2. w \in a .. a + mem[a] - 1
      BY <2>1, <3>1 DEF Inside
    <3> QED
      BY <1>3, <3>1, <3>2
  <2>3. w \notin W
    BY <2>2 DEF Chunks
  <2> QED
    BY <1>3, <2>1, <2>3 DEF IInv, BlocksIntact, DataKept
<1> QED
  BY <1>2, <1>3

\* When headers stay as they are, and chunks where they are, nothing has happened to
\* the heap.
LEMMA Stutters ==
    ASSUME IInv, brk' = brk, pieces' = pieces, FreeAddrs' = FreeAddrs, UsedAddrs' = UsedAddrs,
           \A a \in Chunks : mem'[a] = mem[a]
    PROVE  HP!IInv' /\ UNCHANGED HP!vars
<1>1. FreeAddrs \cup UsedAddrs = Chunks
  BY AllChunks DEF IInv
<1>2. FreeChunks' = FreeChunks
  BY <1>1 DEF FreeChunks, ChunkAt
<1>3. UsedChunks' = UsedChunks
  BY <1>1 DEF UsedChunks, ChunkAt
<1>4. UNCHANGED HP!vars
  BY <1>2, <1>3 DEF HP!vars, OurBytes
<1> QED
  BY <1>4, HP!NextPreserves DEF IInv

\* The links of a node lead to nodes, head to the first of them.
LEMMA Links ==
    ASSUME IInv
    PROVE  /\ head = NULL \/ head \in nodes
           /\ \A a \in nodes : head # NULL /\ head <= a
           /\ \A a \in nodes : /\ NextOf(mem, a) = NULL \/ (NextOf(mem, a) \in nodes /\ a < NextOf(mem, a))
                               /\ PrevOf(mem, a) = NULL \/ PrevOf(mem, a) \in nodes
<1>1. \A a \in nodes : a \in Nat /\ a > NULL
  BY NullIs, Typed DEF IInv
<1>2. IsNext(nodes, NULL, head)
  BY DEF IInv, ListLinked
<1>3. (head = NULL \/ head \in nodes) /\ \A a \in nodes : head # NULL /\ head <= a
  BY <1>1, <1>2, NullIs DEF IsNext
<1>4. ASSUME NEW a \in nodes
      PROVE  /\ NextOf(mem, a) = NULL \/ (NextOf(mem, a) \in nodes /\ a < NextOf(mem, a))
             /\ PrevOf(mem, a) = NULL \/ PrevOf(mem, a) \in nodes
  <2>1. IsNext(nodes, a, NextOf(mem, a)) /\ IsPrev(nodes, a, PrevOf(mem, a))
    BY DEF IInv, ListLinked
  <2>2. \A x, y : IsNext(nodes, a, x) /\ IsPrev(nodes, a, y) =>
                     (x = NULL \/ (x \in nodes /\ a < x)) /\ (y = NULL \/ y \in nodes)
    BY DEF IsNext, IsPrev
  <2> QED
    BY <2>1, <2>2, Zenon
<1> QED
  BY <1>3, <1>4

-----------------------------------------------------------------------------
(* One lemma per action *)

\* A chunk's size is an old one or what was asked for, or the sum of two of these, or
\* their difference.
Amounts == {mem[a] : a \in Chunks} \cup (IF bytes \in Requests THEN {size, SbrkSize(size)} ELSE {})
NewSizes ==
    \A a \in Chunks' : \/ mem'[a] \in Amounts
                       \/ \E s, t \in Amounts : mem'[a] = s + t \/ (s > t /\ mem'[a] = s - t)

\* What an action keeps, and what it does to the heap.
Step == IInv' /\ [HP!Next]_HP!vars /\ NewSizes

LEMMA MallocStep ==
    ASSUME IInv, NEW n \in Requests, Malloc(n)
    PROVE  Step
<1> USE DEF IInv, Malloc, Begin, heap
<1>1. HP!IInv' /\ UNCHANGED HP!vars
  <2>1. FreeAddrs' = FreeAddrs /\ UsedAddrs' = UsedAddrs
    BY DEF FreeAddrs, UsedAddrs
  <2> QED
    BY <2>1, Stutters
<1>2. TypeOK'
  BY NullIs DEF TypeOK, Addresses, BlockAddresses
<1>3. Once' /\ Aligned'
  BY DEF Once, Aligned, Chunks, Held, Pending
<1>4. Returning' /\ AtNode'
  BY Links, Typed DEF Returning, AtNode
<1>5. ListLinked'
  BY DEF ListLinked, NextOf, PrevOf
<1>6. BlocksIntact'
  BY DEF BlocksIntact, HeaderIsSize, DataKept, OurBytes
<1>7. NewSizes
  BY DEF NewSizes, Amounts, Chunks, Held, Pending
<1> QED
  BY <1>1, <1>2, <1>3, <1>4, <1>5, <1>6, <1>7 DEF Step

LEMMA TooSmallStep ==
    ASSUME IInv, RoomForLinks, TooSmall
    PROVE  Step
<1> USE DEF IInv, TooSmall, GoOn, heap
<1>0. tmp \in nodes /\ (tmp' = NULL \/ (tmp' \in nodes /\ tmp < tmp'))
  BY Links DEF AtNode
<1>1. HP!IInv' /\ UNCHANGED HP!vars
  <2>1. FreeAddrs' = FreeAddrs /\ UsedAddrs' = UsedAddrs
    BY DEF FreeAddrs, UsedAddrs
  <2> QED
    BY <2>1, Stutters
<1>2. TypeOK'
  BY <1>0, NullIs, Typed DEF TypeOK, Addresses, BlockAddresses
<1>3. Once' /\ Aligned'
  BY DEF Once, Aligned, Chunks, Held, Pending
<1>4. Returning' /\ AtNode'
  <2>1. ASSUME NEW a \in nodes, tmp' = NULL \/ a < tmp'
        PROVE  a = tmp \/ a < tmp
    <3>1. IsNext(nodes, tmp, tmp')
      BY <1>0 DEF ListLinked
    <3> QED
      BY <1>0, <2>1, <3>1, Typed DEF IsNext
  <2>2. size' = size /\ \A a \in nodes : a = tmp \/ a < tmp => mem[a] < size
    BY <1>0 DEF AtNode, size
  <2> QED
    BY <1>0, <2>1, <2>2 DEF Returning, AtNode
<1>5. ListLinked'
  BY DEF ListLinked, NextOf, PrevOf
<1>6. BlocksIntact'
  BY DEF BlocksIntact, HeaderIsSize, DataKept, OurBytes
<1>7. NewSizes
  BY DEF NewSizes, Amounts, Chunks, Held, Pending
<1> QED
  BY <1>1, <1>2, <1>3, <1>4, <1>5, <1>6, <1>7 DEF Step

LEMMA FreeStep ==
    ASSUME IInv, NEW b \in live, Free(b)
    PROVE  Step
<1> USE DEF IInv, Free, FreeAt, Begin, heap
<1>0. /\ b.ptr - 8 \in Held /\ b.ptr - 8 \in Chunks /\ addr' = b.ptr - 8
      /\ Held' = Held \ {b.ptr - 8} /\ Pending = {} /\ Pending' = {b.ptr - 8}
  BY Typed DEF Held, Chunks, Pending, Once
<1>1. HP!IInv' /\ UNCHANGED HP!vars
  <2>1. FreeAddrs' = FreeAddrs /\ UsedAddrs' = UsedAddrs
    BY <1>0 DEF FreeAddrs, UsedAddrs, Held
  <2> QED
    BY <2>1, Stutters
<1>2. TypeOK'
  <2>1. b.ptr - 8 \in Addresses \ {NULL}
    BY <1>0, Layout, Typed, Bounds, NullIs DEF Addresses, WordsIn
  <2> QED
    BY <1>0, <2>1, NullIs DEF TypeOK, Addresses, BlockAddresses
<1>3. Once' /\ Aligned'
  BY <1>0 DEF Once, Aligned, Chunks, Pending
<1>4. Returning' /\ AtNode'
  <2>1. addr' > NULL
    BY <1>0, Layout, Bounds, NullIs
  <2> QED
    BY <2>1, Links DEF Returning, AtNode, ListLinked
<1>5. ListLinked'
  BY DEF ListLinked, NextOf, PrevOf
<1>6. BlocksIntact'
  BY DEF BlocksIntact, HeaderIsSize, DataKept, OurBytes
<1>7. NewSizes
  BY <1>0 DEF NewSizes, Amounts, Chunks
<1> QED
  BY <1>1, <1>2, <1>3, <1>4, <1>5, <1>6, <1>7 DEF Step

LEMMA BelowStep ==
    ASSUME IInv, RoomForLinks, Below
    PROVE  Step
<1> USE DEF IInv, Below, GoOn, heap
<1>0. tmp \in nodes /\ (tmp' = NULL \/ tmp' \in nodes)
  BY Links DEF AtNode
<1>1. HP!IInv' /\ UNCHANGED HP!vars
  <2>1. FreeAddrs' = FreeAddrs /\ UsedAddrs' = UsedAddrs
    BY DEF FreeAddrs, UsedAddrs
  <2> QED
    BY <2>1, Stutters
<1>2. TypeOK'
  BY <1>0, NullIs, Typed DEF TypeOK, Addresses, BlockAddresses
<1>3. Once' /\ Aligned'
  BY DEF Once, Aligned, Chunks, Held, Pending
<1>4. Returning' /\ AtNode'
  <2>1. tmp < addr
    BY <1>0, Typed DEF Once, Pending
  <2> QED
    BY <1>0, <2>1 DEF Returning, AtNode, ListLinked
<1>5. ListLinked'
  BY DEF ListLinked, NextOf, PrevOf
<1>6. BlocksIntact'
  BY DEF BlocksIntact, HeaderIsSize, DataKept, OurBytes
<1>7. NewSizes
  BY DEF NewSizes, Amounts, Chunks, Held, Pending
<1> QED
  BY <1>1, <1>2, <1>3, <1>4, <1>5, <1>6, <1>7 DEF Step

LEMMA CoalesceStep ==
    ASSUME IInv, Coalesce
    PROVE  Step
<1> USE DEF IInv, Coalesce, Begin, heap
<1>1. HP!IInv' /\ UNCHANGED HP!vars
  <2>1. FreeAddrs' = FreeAddrs /\ UsedAddrs' = UsedAddrs
    BY DEF FreeAddrs, UsedAddrs
  <2> QED
    BY <2>1, Stutters
<1>2. TypeOK'
  BY NullIs DEF TypeOK, Addresses, BlockAddresses
<1>3. Once' /\ Aligned'
  BY DEF Once, Aligned, Chunks, Held, Pending
<1>4. Returning' /\ AtNode'
  BY Links, Typed DEF Returning, AtNode
<1>5. ListLinked'
  <2>1. \A a \in nodes : head # NULL /\ ~(a < head)
    BY Links, Typed
  <2> QED
    BY <2>1 DEF ListLinked, NextOf, PrevOf
<1>6. BlocksIntact'
  BY DEF BlocksIntact, HeaderIsSize, DataKept, OurBytes
<1>7. NewSizes
  BY DEF NewSizes, Amounts, Chunks, Held, Pending
<1> QED
  BY <1>1, <1>2, <1>3, <1>4, <1>5, <1>6, <1>7 DEF Step

LEMMA NotAdjacentStep ==
    ASSUME IInv, RoomForLinks, NotAdjacent
    PROVE  Step
<1> USE DEF IInv, NotAdjacent, GoOn, heap
<1>0. tmp \in nodes /\ (tmp' = NULL \/ tmp' \in nodes)
  BY Links DEF AtNode
<1>1. HP!IInv' /\ UNCHANGED HP!vars
  <2>1. FreeAddrs' = FreeAddrs /\ UsedAddrs' = UsedAddrs
    BY DEF FreeAddrs, UsedAddrs
  <2> QED
    BY <2>1, Stutters
<1>2. TypeOK'
  BY <1>0, NullIs, Typed DEF TypeOK, Addresses, BlockAddresses
<1>3. Once' /\ Aligned'
  BY DEF Once, Aligned, Chunks, Held, Pending
<1>4. Returning' /\ AtNode'
  BY <1>0 DEF Returning, AtNode
<1>5. ListLinked'
  <2>1. ASSUME NEW a \in nodes, tmp' = NULL \/ a < tmp'
        PROVE  a = tmp \/ a < tmp
    <3>1. IsNext(nodes, tmp, tmp')
      BY <1>0 DEF ListLinked
    <3> QED
      BY <1>0, <2>1, <3>1, Typed DEF IsNext
  <2> QED
    BY <2>1 DEF ListLinked, NextOf, PrevOf, Adjacent
<1>6. BlocksIntact'
  BY DEF BlocksIntact, HeaderIsSize, DataKept, OurBytes
<1>7. NewSizes
  BY DEF NewSizes, Amounts, Chunks, Held, Pending
<1> QED
  BY <1>1, <1>2, <1>3, <1>4, <1>5, <1>6, <1>7 DEF Step

LEMMA AllMergedStep ==
    ASSUME IInv, AllMerged
    PROVE  Step
<1> USE DEF IInv, AllMerged, Done, heap
<1>1. HP!IInv' /\ UNCHANGED HP!vars
  <2>1. FreeAddrs' = FreeAddrs /\ UsedAddrs' = UsedAddrs
    BY DEF FreeAddrs, UsedAddrs
  <2> QED
    BY <2>1, Stutters
<1>2. TypeOK'
  BY NullIs DEF TypeOK, Addresses, BlockAddresses
<1>3. Once' /\ Aligned'
  BY DEF Once, Aligned, Chunks, Held, Pending
<1>4. Returning' /\ AtNode'
  BY DEF Returning, AtNode
<1>5. ListLinked'
  BY DEF ListLinked, NextOf, PrevOf
<1>6. BlocksIntact'
  BY DEF BlocksIntact, HeaderIsSize, DataKept, OurBytes
<1>7. NewSizes
  BY DEF NewSizes, Amounts, Chunks, Held, Pending
<1> QED
  BY <1>1, <1>2, <1>3, <1>4, <1>5, <1>6, <1>7 DEF Step

\* What carving writes.
LEMMA CarveWrites ==
    ASSUME IInv, Carve,
           NEW left, left = mem[tmp] - size
    PROVE  /\ tmp \in nodes /\ left \in Nat /\ left > 0 /\ left % 8 = 0 /\ left < mem[tmp]
           /\ size \in Nat /\ size >= 8 /\ left + size = mem[tmp] /\ size % 8 = 0
           /\ tmp + left \in Words /\ Inside(tmp + left, tmp) /\ Inside(tmp, tmp)
           /\ mem' \in [Words -> Int] /\ mem'[tmp] = left /\ mem'[tmp + left] = size
           /\ \A w \in Words : w \notin {tmp, tmp + left} => mem'[w] = mem[w]
<1>1. tmp \in nodes /\ tmp \in Chunks /\ bytes \in Nat
  BY Bounds DEF IInv, AtNode, TypeOK, Carve, Chunks
<1>2. size \in Nat /\ size % 8 = 0 /\ size >= 8
  BY <1>1, ChunkSizeIs DEF size
<1>3. /\ tmp \in Nat /\ Bottom <= tmp /\ tmp % 8 = 0 /\ tmp \in Words
      /\ mem[tmp] \in Nat /\ mem[tmp] % 8 = 0 /\ tmp + mem[tmp] <= brk
  BY <1>1, Layout
<1>4. left \in Nat /\ left > 0 /\ left < mem[tmp] /\ left + size = mem[tmp]
  BY <1>2, <1>3 DEF Carve
<1>5. left % 8 = 0 /\ (tmp + left) % 8 = 0
  <2>1. \A x, y, z \in Int : x % 8 = 0 /\ y % 8 = 0 /\ z % 8 = 0 =>
                             (x - y) % 8 = 0 /\ (z + (x - y)) % 8 = 0
    OBVIOUS
  <2> QED
    BY <1>2, <1>3, <2>1
<1>6. tmp + left \in Words
  BY <1>3, <1>4, <1>5, Typed, Bounds DEF IInv, Words
<1>7. mem' = Store(Store(mem, tmp, left), tmp + left, size)
  BY DEF Carve
<1> DEFINE m1 == Store(mem, tmp, left)
<1>8. /\ m1 \in [Words -> Int] /\ m1[tmp] = left
      /\ \A w \in Words : w # tmp => m1[w] = mem[w]
  <2>1. mem \in [Words -> Int] /\ left \in Int
    BY <1>4, Typed DEF IInv
  <2> QED
    BY <1>3, <2>1, StoreIs
<1>9. mem' = Store(m1, tmp + left, size)
  BY <1>7
<1> HIDE DEF m1
<1>10. /\ mem' \in [Words -> Int] /\ mem'[tmp + left] = size
       /\ \A w \in Words : w # tmp + left => mem'[w] = m1[w]
  BY <1>2, <1>6, <1>8, <1>9, StoreIs
<1>11. tmp # tmp + left
  BY <1>3, <1>4
<1>12. mem'[tmp] = left
  BY <1>3, <1>8, <1>10, <1>11
<1>13. Inside(tmp + left, tmp) /\ Inside(tmp, tmp)
  BY <1>2, <1>3, <1>4 DEF Inside
<1> QED
  BY <1>1, <1>2, <1>3, <1>4, <1>5, <1>6, <1>8, <1>10, <1>12, <1>13

LEMMA CarveStep ==
    ASSUME IInv, RoomForLinks, Carve, mem[tmp] - size >= 24
    PROVE  Step
<1> DEFINE left == mem[tmp] - size
           new == tmp + left
           W == {tmp, new}
<1>1. /\ tmp \in nodes /\ left \in Nat /\ left >= 24 /\ left % 8 = 0 /\ left < mem[tmp]
      /\ size \in Nat /\ size >= 8 /\ left + size = mem[tmp] /\ size % 8 = 0
      /\ new \in Words /\ Inside(new, tmp) /\ Inside(tmp, tmp)
      /\ mem' \in [Words -> Int] /\ mem'[tmp] = left /\ mem'[new] = size
      /\ \A w \in Words : w \notin W => mem'[w] = mem[w]
  BY CarveWrites
<1>2. /\ pc = "fit" /\ pc' = "return" /\ ptr' = new + 8
      /\ UNCHANGED <<head, brk, nodes, pieces, bytes, tmp, last, addr, caller, live>>
  BY DEF Carve
<1>3. /\ tmp \in Words /\ tmp \in Chunks /\ tmp \in Nat /\ tmp % 8 = 0 /\ Bottom <= tmp
      /\ mem[tmp] \in Nat /\ tmp + mem[tmp] <= brk
  BY <1>1, Layout DEF Chunks
<1>4. new \in Nat /\ tmp < new /\ new < brk /\ new + 8 <= brk /\ ptr' - 8 = new /\ Bottom <= new
  BY <1>1, <1>2, <1>3, Typed, Bounds DEF IInv
<1>5. new % 8 = 0
  BY <1>1, <1>3
<1> HIDE DEF left, new
<1>6. \A a \in Chunks : a # tmp => a \in Words /\ a \notin W /\ mem'[a] = mem[a]
  <2> SUFFICES ASSUME NEW a \in Chunks, a # tmp PROVE a \in Words /\ a # new
    BY <1>1
  <2>1. a \in Int /\ a \in Words /\ mem[a] >= 8 /\ mem[a] \in Nat
    BY Layout
  <2>2. Inside(a, a)
    BY <2>1 DEF Inside
  <2> QED
    BY <1>1, <1>3, <2>1, <2>2, Regions
<1>7. Held' = Held /\ Pending = {} /\ Pending' = {new} /\ Chunks = nodes \cup Held
      /\ Chunks' = nodes \cup Held \cup {new}
  BY <1>2, <1>4 DEF Held, Pending, Chunks
<1>8. new \notin nodes \cup Held
  BY <1>4, <1>6, <1>7
<1>9. FreeAddrs = nodes /\ FreeAddrs' = nodes /\ UsedAddrs = Held /\ UsedAddrs' = Held \cup {new}
  BY <1>2, <1>4 DEF FreeAddrs, UsedAddrs, Held
<1>10. FreeChunks' = (FreeChunks \ {ChunkAt(tmp)}) \cup {[addr |-> tmp, size |-> left]}
  <2>1. \A a \in nodes : a # tmp => mem'[a] = mem[a]
    BY <1>6 DEF Chunks
  <2>2. FreeChunks = {[addr |-> a, size |-> mem[a]] : a \in nodes}
    BY <1>9, Zenon DEF FreeChunks, ChunkAt
  <2>3. FreeChunks' = {[addr |-> a, size |-> mem'[a]] : a \in nodes}
    BY <1>9, Zenon DEF FreeChunks, ChunkAt
  <2> QED
    BY <1>1, <2>1, <2>2, <2>3 DEF ChunkAt
<1>11. UsedChunks' = UsedChunks \cup {[addr |-> new, size |-> size]}
  <2>1. \A a \in Held : mem'[a] = mem[a]
    BY <1>1, <1>6 DEF Chunks, IInv, Once
  <2>2. UsedChunks = {[addr |-> a, size |-> mem[a]] : a \in Held}
    BY <1>9, Zenon DEF UsedChunks, ChunkAt
  <2>3. UsedChunks' = {[addr |-> a, size |-> mem'[a]] : a \in Held \cup {new}}
    BY <1>9, Zenon DEF UsedChunks, ChunkAt
  <2> QED
    BY <1>1, <2>1, <2>2, <2>3
<1>12. HP!Carve(size)
  <2>1. ChunkAt(tmp) \in FreeChunks
    BY <1>1, <1>9 DEF FreeChunks
  <2>2. ChunkAt(tmp).addr = tmp /\ ChunkAt(tmp).size = mem[tmp]
    BY DEF ChunkAt
  <2>3. HP!Front(ChunkAt(tmp), size) = {[addr |-> tmp, size |-> left]}
    <3>1. mem[tmp] - size = left /\ left > 0
      BY <1>1, <1>3
    <3>2. HP!Front(ChunkAt(tmp), size) = {f \in {[addr |-> tmp, size |-> left]} : f.size > 0}
      BY <2>2, <3>1 DEF HP!Front
    <3> QED
      BY <3>1, <3>2
  <2>4. HP!Back(ChunkAt(tmp), size) = [addr |-> new, size |-> size]
    <3>1. tmp + mem[tmp] - size = new
      BY <1>1, <1>3 DEF new
    <3> QED
      BY <2>2, <3>1 DEF HP!Back
  <2>5. UNCHANGED <<OurBytes, brk>>
    BY <1>2 DEF OurBytes
  <2>6. size \in Nat \ {0} /\ mem[tmp] >= size
    BY <1>1, <1>3
  <2> QED
    BY <1>10, <1>11, <2>1, <2>2, <2>3, <2>4, <2>5, <2>6 DEF HP!Carve
<1>13. HP!Next
  <2>1. size \in {ChunkSize(n) : n \in Requests}
    BY <1>2 DEF size, IInv, TypeOK
  <2> QED
    BY <1>12, <2>1 DEF HP!Next
<1>14. HP!IInv'
  BY <1>13, HP!NextPreserves DEF IInv
<1>15. TypeOK'
  <2>1. new + 8 \in BlockAddresses
    <3>1. (new + 8) % 8 = 0
      BY <1>4, <1>5
    <3> QED
      BY <1>4, <3>1, Typed, Bounds DEF IInv, BlockAddresses, WordsIn, Words
  <2> QED
    BY <1>1, <1>2, <2>1 DEF IInv, TypeOK, Addresses, BlockAddresses
<1>16. Once' /\ Aligned'
  <2>1. Once'
    BY <1>2, <1>7, <1>8 DEF IInv, Once
  <2>2. \A a \in Chunks' : mem'[a] % 8 = 0
    <3> SUFFICES ASSUME NEW a \in Chunks' PROVE mem'[a] % 8 = 0
      OBVIOUS
    <3>1. CASE a = new
      BY <1>1, <3>1
    <3>2. CASE a = tmp
      BY <1>1, <3>2
    <3>3. CASE a # new /\ a # tmp
      <4>1. a \in Chunks /\ mem'[a] = mem[a]
        BY <1>6, <1>7, <3>3
      <4> QED
        BY <4>1 DEF IInv, Aligned
    <3> QED
      BY <3>1, <3>2, <3>3
  <2> QED
    BY <2>1, <2>2 DEF Aligned
<1>17. Returning' /\ AtNode'
  <2>1. ptr' # NULL /\ mem'[ptr' - 8] = ChunkSize(bytes)
    BY <1>1, <1>2, <1>4, NullIs DEF size
  <2> QED
    BY <1>2, <2>1 DEF Returning, AtNode
<1>18. ListLinked'
  <2>1. ASSUME NEW a \in nodes
        PROVE  mem'[a + 8] = mem[a + 8] /\ mem'[a + 16] = mem[a + 16]
    <3>1. a \in Chunks /\ mem[a] >= 24
      BY DEF Chunks, RoomForLinks, Listed
    <3>2. /\ a + 8 \in Words /\ a + 16 \in Words /\ Inside(a + 8, a) /\ Inside(a + 16, a)
          /\ a \in Nat
      BY <3>1, Fields, Layout
    <3>3. a + 8 \notin W /\ a + 16 \notin W
      <4>1. CASE a = tmp
        BY <1>1, <1>3, <4>1 DEF new
      <4>2. CASE a # tmp
        BY <1>1, <1>3, <3>1, <3>2, <4>2, Regions, <1>4
      <4> QED
        BY <4>1, <4>2
    <3> QED
      BY <1>1, <3>2, <3>3
  <2> QED
    BY <1>2, <2>1 DEF IInv, ListLinked, NextOf, PrevOf
<1>19. BlocksIntact'
  <2>1. W \subseteq Int /\ \A w \in W : \E a \in nodes \cup Pending : Inside(w, a)
    BY <1>1, <1>3, <1>4
  <2> HIDE DEF W
  <2>2. /\ \A b \in live : mem'[b.ptr - 8] = ChunkSize(b.bytes)
        /\ \A b \in live : \A w \in WordsIn(b.ptr, b.ptr + b.bytes) : mem'[w] = Data
        /\ \A w \in WordsIn(Bottom, brk) : w \notin OurBytes => mem'[w] = Data
    BY <1>1, <2>1, Frame
  <2> QED
    BY <1>2, <2>2 DEF BlocksIntact, HeaderIsSize, DataKept, OurBytes
<1>20. NewSizes
  <2>1. bytes \in Requests
    BY <1>2 DEF IInv, TypeOK
  <2>2. size \in Amounts /\ \A a \in Chunks : mem[a] \in Amounts
    BY <2>1 DEF Amounts
  <2>3. mem[tmp] > size /\ mem'[tmp] = mem[tmp] - size
    BY <1>1, <1>3 DEF left
  <2> QED
    BY <1>1, <1>3, <1>6, <1>7, <2>2, <2>3 DEF NewSizes
<1> QED
  BY <1>13, <1>14, <1>15, <1>16, <1>17, <1>18, <1>19, <1>20 DEF Step, IInv

-----------------------------------------------------------------------------
(* Links are written *)

\* No field of one node is a field of another.
LEMMA FieldsApart ==
    ASSUME IInv, NEW a \in Chunks, NEW b \in Chunks, mem[a] >= 24
    PROVE  /\ b # a + 8 /\ b # a + 16
           /\ mem[b] >= 24 => a + 8 # b + 16
<1>1. /\ a \in Nat /\ b \in Nat /\ mem[b] \in Nat /\ mem[b] >= 8
      /\ a + 8 \in Int /\ a + 16 \in Int
  BY Layout
<1>2. Inside(b, b) /\ (mem[b] >= 24 => Inside(b + 16, b))
  BY <1>1 DEF Inside
<1>3. Inside(a + 8, a) /\ Inside(a + 16, a)
  BY Fields
<1>4. b # a + 8
  BY <1>1, <1>2, <1>3, Regions
<1>5. b # a + 16
  BY <1>1, <1>2, <1>3, Regions
<1>6. mem[b] >= 24 => a + 8 # b + 16
  <2> SUFFICES ASSUME mem[b] >= 24, a + 8 = b + 16 PROVE FALSE
    OBVIOUS
  <2>1. a = b
    BY <1>1, <1>2, <1>3, Regions
  <2> QED
    BY <1>1, <2>1
<1> QED
  BY <1>4, <1>5, <1>6

\* When only links of chunks that no caller holds are written, sizes stay as they are,
\* and what callers and others have in memory.
LEMMA LinksOnly ==
    ASSUME IInv, NEW A, A \subseteq nodes \cup Pending, \A a \in A : mem[a] >= 24,
           NEW m \in [Words -> Int], NEW W, W \subseteq {a + 8 : a \in A} \cup {a + 16 : a \in A},
           \A w \in Words : w \notin W => m[w] = mem[w]
    PROVE  /\ \A a \in Chunks : m[a] = mem[a]
           /\ \A b \in live : m[b.ptr - 8] = ChunkSize(b.bytes)
           /\ \A b \in live : \A w \in WordsIn(b.ptr, b.ptr + b.bytes) : m[w] = Data
           /\ \A w \in WordsIn(Bottom, brk) : w \notin OurBytes => m[w] = Data
<1>1. \A a \in A : a \in Chunks /\ a \in nodes \cup Pending /\ a \in Nat
  BY Layout DEF Chunks
<1>2. \A b \in Chunks : b \in Words /\ b \notin W
  BY <1>1, Layout, FieldsApart
<1>3. \A w \in W : \E a \in nodes \cup Pending : w \in Int /\ Inside(w, a)
  <2> SUFFICES ASSUME NEW w \in W PROVE \E a \in nodes \cup Pending : w \in Int /\ Inside(w, a)
    OBVIOUS
  <2>1. PICK a \in A : w = a + 8 \/ w = a + 16
    OBVIOUS
  <2> QED
    BY <1>1, <2>1, Fields
<1>4. W \subseteq Int
  BY <1>3
<1> QED
  BY <1>2, <1>3, <1>4, Frame

\* The first node is the one with no node before it.
LEMMA HeadIsFirst ==
    ASSUME IInv, NEW a \in nodes
    PROVE  a = head <=> PrevOf(mem, a) = NULL
<1> DEFINE p == PrevOf(mem, a)
<1>1. head \in nodes /\ head <= a /\ head \in Nat /\ head > NULL /\ a \in Nat /\ a > NULL
  BY Links, Typed, NullIs DEF IInv
<1>2. IsPrev(nodes, a, p)
  BY DEF IInv, ListLinked
<1> HIDE DEF p
<1>3. p \in nodes => p \in Nat /\ head <= p
  BY Links, Typed DEF IInv
<1>4. (p = NULL \/ p \in nodes) /\ p < a /\ (head <= p \/ a <= head)
  BY <1>1, <1>2 DEF IsPrev
<1>5. p = NULL => a = head
  BY <1>1, <1>4, NullIs
<1>6. a = head => p = NULL
  BY <1>1, <1>3, <1>4, NullIs
<1> QED
  BY <1>5, <1>6 DEF p

\* What taking a node off the list writes.
LEMMA RemoveWrites ==
    ASSUME IInv, RoomForLinks, tmp \in nodes, mem' = Unlinked(mem, tmp),
           NEW n \in Int, n = NextOf(mem, tmp), NEW p \in Int, p = PrevOf(mem, tmp)
    PROVE  /\ mem' \in [Words -> Int]
           /\ n # NULL => mem'[n + 16] = p
           /\ p # NULL => mem'[p + 8] = n
           /\ \A w \in Words : /\ n = NULL \/ w # n + 16
                               /\ p = NULL \/ w # p + 8
                               => mem'[w] = mem[w]
<1>1. mem \in [Words -> Int] /\ NULL \in Int
  BY Typed, NullIs DEF IInv
<1>2. /\ n # NULL => n \in nodes /\ n \in Chunks /\ mem[n] >= 24
      /\ p # NULL => p \in nodes /\ p \in Chunks /\ mem[p] >= 24
  BY Links DEF Chunks, RoomForLinks, Listed
<1>3. (n # NULL => n + 16 \in Words) /\ (p # NULL => p + 8 \in Words)
  BY <1>2, Fields
<1>4. CASE tmp = head
  <2>1. p = NULL /\ mem' = Set(mem, n, 16, p)
    BY <1>4, HeadIsFirst DEF Unlinked
  <2> QED
    BY <1>1, <1>3, <2>1, SetIs
<1>5. CASE tmp # head
  <2>1. p # NULL /\ mem' = Set(Set(mem, p, 8, n), n, 16, p)
    BY <1>5, HeadIsFirst DEF Unlinked
  <2> DEFINE m1 == Set(mem, p, 8, n)
  <2>2. m1 \in [Words -> Int] /\ m1[p + 8] = n /\ \A w \in Words : w # p + 8 => m1[w] = mem[w]
    <3>1. p + 8 \in Words /\ 8 \in {8, 16}
      BY <1>3, <2>1
    <3>2. m1 \in [Words -> Int] /\ m1[p + 8] = n
      BY <1>1, <2>1, <3>1, SetIs
    <3>3. \A w \in Words : w # p + 8 => m1[w] = mem[w]
      BY <1>1, <2>1, <3>1, SetIs
    <3> QED
      BY <3>2, <3>3
  <2>3. mem' = Set(m1, n, 16, p)
    BY <2>1
  <2> HIDE DEF m1
  <2>4. /\ mem' \in [Words -> Int]
        /\ n # NULL => mem'[n + 16] = p
        /\ \A w \in Words : n = NULL \/ w # n + 16 => mem'[w] = m1[w]
    BY <1>3, <2>2, <2>3, SetIs
  <2>5. n # NULL => p + 8 # n + 16
    BY <1>2, <2>1, FieldsApart
  <2>6. mem'[p + 8] = n
    BY <1>3, <2>1, <2>2, <2>4, <2>5
  <2> QED
    BY <2>1, <2>2, <2>4, <2>6
<1> QED
  BY <1>4, <1>5

\* Without the node a, and with the nodes around it linked to each other, the list is
\* as it should be.
LEMMA StillLinked ==
    ASSUME IInv, RoomForLinks, NEW a \in nodes, NEW m,
           NEW n \in Int, n = NextOf(mem, a), NEW p \in Int, p = PrevOf(mem, a),
           n # NULL => m[n + 16] = p,
           p # NULL => m[p + 8] = n,
           \A c \in nodes \ {a} : /\ c # n => m[c + 16] = mem[c + 16]
                                  /\ c # p => m[c + 8] = mem[c + 8]
    PROVE  /\ IsNext(nodes \ {a}, NULL, IF a = head THEN n ELSE head)
           /\ \A c \in nodes \ {a} : /\ IsNext(nodes \ {a}, c, NextOf(m, c))
                                     /\ IsPrev(nodes \ {a}, c, PrevOf(m, c))
<1> DEFINE S == nodes \ {a}
<1>1. nodes \subseteq Nat \ {0} /\ a \in Nat /\ a # NULL /\ head \in Int
  BY Typed, NullIs DEF IInv
<1>2. IsNext(nodes, a, n) /\ IsPrev(nodes, a, p)
  BY DEF IInv, ListLinked
<1>3. /\ IsNext(S, p, n)
      /\ n # NULL => n \in S /\ IsPrev(S, n, p)
      /\ \A c \in nodes \cup {NULL} : \A x \in Int : c # p /\ c # a /\ IsNext(nodes, c, x) => IsNext(S, c, x)
      /\ \A c \in nodes : \A x \in Int : c # n /\ c # a /\ IsPrev(nodes, c, x) => IsPrev(S, c, x)
  BY <1>1, <1>2, TakenOut
<1>4. \A c \in nodes : mem[c + 8] \in Int /\ mem[c + 16] \in Int
  <2>1. \A c \in nodes : c + 8 \in Words /\ c + 16 \in Words
    BY Fields DEF RoomForLinks, Listed, Chunks
  <2> QED
    BY <2>1, Typed DEF IInv
<1> HIDE DEF S
<1>5. IsNext(S, NULL, IF a = head THEN n ELSE head)
  <2>1. a = head => p = NULL
    BY HeadIsFirst
  <2>2. a # head => p # NULL
    BY HeadIsFirst
  <2>3. IsNext(nodes, NULL, head)
    BY DEF IInv, ListLinked
  <2> QED
    BY <1>1, <1>3, <2>1, <2>2, <2>3
<1>6. ASSUME NEW c \in S
      PROVE  IsNext(S, c, m[c + 8]) /\ IsPrev(S, c, m[c + 16])
  <2>1. c \in nodes /\ c # a /\ c \in Nat /\ c # NULL
    BY <1>1, NullIs DEF S
  <2>2. IsNext(nodes, c, mem[c + 8]) /\ IsPrev(nodes, c, mem[c + 16])
    BY <2>1 DEF IInv, ListLinked, NextOf, PrevOf
  <2>3. IsNext(S, c, m[c + 8])
    <3>1. CASE c = p
      BY <1>3, <2>1, <3>1
    <3>2. CASE c # p
      BY <1>3, <1>4, <2>1, <2>2, <3>2 DEF S
    <3> QED
      BY <3>1, <3>2
  <2>4. IsPrev(S, c, m[c + 16])
    <3>1. CASE c = n
      BY <1>3, <2>1, <3>1
    <3>2. CASE c # n
      BY <1>3, <1>4, <2>1, <2>2, <3>2 DEF S
    <3> QED
      BY <3>1, <3>2
  <2> QED
    BY <2>3, <2>4
<1> QED
  BY <1>5, <1>6 DEF S, NextOf, PrevOf

LEMMA RemoveStep ==
    ASSUME IInv, RoomForLinks, Remove
    PROVE  Step
<1> DEFINE n == NextOf(mem, tmp)
           p == PrevOf(mem, tmp)
           A == {n, p} \ {NULL}
           W == {a + 8 : a \in A} \cup {a + 16 : a \in A}
<1>1. /\ pc = "fit" /\ pc' = "return" /\ tmp # NULL /\ mem[tmp] = size /\ ptr' = tmp + 8
      /\ mem' = Unlinked(mem, tmp) /\ nodes' = nodes \ {tmp}
      /\ head' = IF tmp = head THEN n ELSE head
      /\ UNCHANGED <<brk, pieces, bytes, tmp, last, addr, caller, live>>
  BY DEF Remove
<1>2. /\ tmp \in nodes /\ tmp \in Chunks /\ tmp \in Words /\ tmp \in Nat /\ Bottom <= tmp /\ tmp % 8 = 0
      /\ mem[tmp] \in Nat /\ mem[tmp] >= 24 /\ tmp + mem[tmp] <= brk /\ tmp < brk
      /\ tmp + 8 - 8 = tmp
  BY <1>1, Layout, Typed DEF IInv, AtNode, RoomForLinks, Listed, Chunks
<1>3. /\ n = NULL \/ n \in nodes
      /\ p = NULL \/ p \in nodes
  BY <1>2, Links
<1>4. n \in Int /\ p \in Int /\ n # tmp /\ p # tmp
  <2>1. IsNext(nodes, tmp, n) /\ IsPrev(nodes, tmp, p)
    BY <1>2 DEF IInv, ListLinked
  <2>2. n \in Int /\ p \in Int
    BY <1>3, NullIs, Typed DEF IInv
  <2> HIDE DEF n, p
  <2>3. n # NULL => tmp < n
    BY <2>1 DEF IsNext
  <2>4. p < tmp
    BY <2>1 DEF IsPrev
  <2> QED
    BY <1>1, <1>2, <2>2, <2>3, <2>4
<1>5. /\ mem' \in [Words -> Int]
      /\ n # NULL => mem'[n + 16] = p
      /\ p # NULL => mem'[p + 8] = n
      /\ \A w \in Words : /\ n = NULL \/ w # n + 16
                          /\ p = NULL \/ w # p + 8
                          => mem'[w] = mem[w]
  BY <1>1, <1>2, <1>4, RemoveWrites
<1>6. A \subseteq nodes /\ \A a \in A : mem[a] >= 24
  BY <1>3 DEF RoomForLinks, Listed
<1>7. \A w \in Words : w \notin W => mem'[w] = mem[w]
  BY <1>5
<1> HIDE DEF n, p, W, A
<1>8. /\ \A a \in Chunks : mem'[a] = mem[a]
      /\ \A b \in live : mem'[b.ptr - 8] = ChunkSize(b.bytes)
      /\ \A b \in live : \A w \in WordsIn(b.ptr, b.ptr + b.bytes) : mem'[w] = Data
      /\ \A w \in WordsIn(Bottom, brk) : w \notin OurBytes => mem'[w] = Data
  <2>1. W \subseteq {a + 8 : a \in A} \cup {a + 16 : a \in A}
    BY DEF W
  <2> QED
    BY <1>5, <1>6, <1>7, <2>1, LinksOnly
<1>9. /\ Held' = Held /\ Pending = {} /\ Pending' = {tmp} /\ Chunks = nodes \cup Held
      /\ Chunks' = Chunks /\ tmp \notin Held
  <2>1. Held' = Held /\ Pending = {}
    BY <1>1 DEF Held, Pending
  <2>2. Pending' = {tmp}
    BY <1>1, <1>2 DEF Pending
  <2>3. tmp \notin Held
    BY <1>2 DEF IInv, Once
  <2> QED
    BY <1>1, <1>2, <2>1, <2>2, <2>3 DEF Chunks
<1>10. FreeAddrs = nodes /\ FreeAddrs' = nodes \ {tmp} /\ UsedAddrs = Held /\ UsedAddrs' = Held \cup {tmp}
  BY <1>1, <1>2 DEF FreeAddrs, UsedAddrs, Held
<1>11. FreeChunks' = FreeChunks \ {ChunkAt(tmp)}
  <2>1. FreeChunks = {[addr |-> a, size |-> mem[a]] : a \in nodes}
    BY <1>10, Zenon DEF FreeChunks, ChunkAt
  <2>2. FreeChunks' = {[addr |-> a, size |-> mem'[a]] : a \in nodes \ {tmp}}
    BY <1>10, Zenon DEF FreeChunks, ChunkAt
  <2>3. \A a \in nodes : mem'[a] = mem[a]
    BY <1>8, <1>9
  <2>4. ChunkAt(tmp) = [addr |-> tmp, size |-> mem[tmp]] /\ tmp \in nodes
    BY <1>2 DEF ChunkAt
  <2>5. FreeChunks' = {[addr |-> a, size |-> mem[a]] : a \in nodes \ {tmp}}
    BY <2>2, <2>3
  <2>6. \A a, b : [addr |-> a, size |-> mem[a]] = [addr |-> b, size |-> mem[b]] => a = b
    OBVIOUS
  <2> QED
    BY <2>1, <2>4, <2>5, <2>6
<1>12. UsedChunks' = UsedChunks \cup {ChunkAt(tmp)}
  <2>1. UsedChunks = {[addr |-> a, size |-> mem[a]] : a \in Held}
    BY <1>10, Zenon DEF UsedChunks, ChunkAt
  <2>2. UsedChunks' = {[addr |-> a, size |-> mem'[a]] : a \in Held \cup {tmp}}
    BY <1>10, Zenon DEF UsedChunks, ChunkAt
  <2> QED
    BY <1>2, <1>8, <1>9, <2>1, <2>2 DEF ChunkAt
<1>13. HP!Carve(size)
  <2>1. ChunkAt(tmp) \in FreeChunks
    BY <1>2, <1>10 DEF FreeChunks
  <2>2. ChunkAt(tmp) = [addr |-> tmp, size |-> size]
    BY <1>1 DEF ChunkAt
  <2>3. size \in Nat \ {0} /\ size - size = 0 /\ tmp + size - size = tmp
    BY <1>1, <1>2
  <2>4. HP!Front(ChunkAt(tmp), size) = {} /\ HP!Back(ChunkAt(tmp), size) = ChunkAt(tmp)
    BY <2>2, <2>3 DEF HP!Front, HP!Back
  <2>5. UNCHANGED <<OurBytes, brk>>
    BY <1>1 DEF OurBytes
  <2>6. ChunkAt(tmp).size >= size
    BY <2>2, <2>3
  <2>7. /\ FreeChunks' = (FreeChunks \ {ChunkAt(tmp)}) \cup HP!Front(ChunkAt(tmp), size)
        /\ UsedChunks' = UsedChunks \cup {HP!Back(ChunkAt(tmp), size)}
    BY <1>11, <1>12, <2>4
  <2> QED
    BY <2>1, <2>3, <2>5, <2>6, <2>7 DEF HP!Carve
<1>14. HP!Next
  <2>1. size \in {ChunkSize(k) : k \in Requests}
    BY <1>1 DEF size, IInv, TypeOK
  <2> QED
    BY <1>13, <2>1 DEF HP!Next
<1>15. HP!IInv'
  BY <1>14, HP!NextPreserves DEF IInv
<1>16. TypeOK'
  <2>1. tmp + 8 \in BlockAddresses
    <3>1. (tmp + 8) % 8 = 0
      BY <1>2
    <3> QED
      BY <1>2, <3>1, Typed, Bounds DEF IInv, BlockAddresses, WordsIn, Words
  <2>2. head' \in Addresses
    BY <1>1, <1>3, Typed, NullIs DEF IInv, Addresses
  <2> QED
    BY <1>1, <1>5, <2>1, <2>2 DEF IInv, TypeOK, Addresses, BlockAddresses
<1>17. Once' /\ Aligned'
  <2>1. Once'
    BY <1>1, <1>9 DEF IInv, Once
  <2> QED
    BY <1>8, <1>9, <2>1 DEF IInv, Aligned
<1>18. Returning' /\ AtNode'
  <2>1. tmp + 8 # NULL /\ mem'[ptr' - 8] = ChunkSize(bytes)
    BY <1>1, <1>2, <1>8, NullIs DEF size
  <2> QED
    BY <1>1, <2>1 DEF Returning, AtNode
<1>19. ListLinked'
  <2>1. ASSUME NEW c \in nodes \ {tmp}
        PROVE  /\ c # n => mem'[c + 16] = mem[c + 16]
               /\ c # p => mem'[c + 8] = mem[c + 8]
    <3>1. c \in Chunks /\ mem[c] >= 24 /\ c \in Nat
      BY Layout DEF Chunks, RoomForLinks, Listed
    <3>2. c + 8 \in Words /\ c + 16 \in Words
      BY <3>1, Fields
    <3>3. /\ n # NULL => n \in Chunks /\ mem[n] >= 24
          /\ p # NULL => p \in Chunks /\ mem[p] >= 24
      BY <1>3 DEF Chunks, RoomForLinks, Listed
    <3>4. /\ n # NULL => c + 8 # n + 16
          /\ p # NULL => c + 16 # p + 8
      BY <3>1, <3>3, FieldsApart
    <3>5. c # n => c + 16 # n + 16
      BY <1>4, <3>1
    <3>6. c # p => c + 8 # p + 8
      BY <1>4, <3>1
    <3> QED
      BY <1>5, <3>2, <3>4, <3>5, <3>6
  <2>2. /\ IsNext(nodes \ {tmp}, NULL, IF tmp = head THEN n ELSE head)
        /\ \A c \in nodes \ {tmp} : /\ IsNext(nodes \ {tmp}, c, NextOf(mem', c))
                                    /\ IsPrev(nodes \ {tmp}, c, PrevOf(mem', c))
    <3>1. n = NextOf(mem, tmp) /\ p = PrevOf(mem, tmp)
      BY DEF n, p
    <3> QED
      BY <1>2, <1>4, <1>5, <2>1, <3>1, StillLinked
  <2> QED
    BY <1>1, <2>2 DEF ListLinked
<1>20. BlocksIntact'
  BY <1>1, <1>8 DEF BlocksIntact, HeaderIsSize, DataKept, OurBytes
<1>21. NewSizes
  BY <1>8, <1>9 DEF NewSizes, Amounts
<1> QED
  BY <1>14, <1>15, <1>16, <1>17, <1>18, <1>19, <1>20, <1>21 DEF Step, IInv

-----------------------------------------------------------------------------
(* The heap grows *)

\* A block is in its chunk, behind the size.
LEMMA BlockWords ==
    ASSUME IInv, NEW b \in live
    PROVE  /\ b.ptr - 8 \in Chunks
           /\ \A w \in WordsIn(b.ptr, b.ptr + b.bytes) : w \in Words /\ w # b.ptr - 8 /\ w < brk
<1>1. b.ptr - 8 \in Chunks /\ b.ptr \in Int /\ b.bytes \in Nat
  BY Typed DEF IInv, Held, Chunks
<1>2. mem[b.ptr - 8] = ChunkSize(b.bytes)
  BY DEF IInv, BlocksIntact, HeaderIsSize
<1>3. ChunkSize(b.bytes) \in Nat /\ ChunkSize(b.bytes) >= b.bytes + 8
  BY <1>1, ChunkSizeIs
<1>4. b.ptr - 8 + mem[b.ptr - 8] <= brk
  BY <1>1, Layout
<1>5. brk \in Int
  BY Typed DEF IInv
<1> QED
  BY <1>1, <1>2, <1>3, <1>4, <1>5, Bounds DEF WordsIn, Words

LEMMA SbrkStep ==
    ASSUME IInv, RoomForLinks, Sbrk
    PROVE  Step
<1> DEFINE n == SbrkSize(size)
           new == [addr |-> brk, size |-> n]
<1>1. /\ pc = "fit" /\ tmp = NULL /\ brk + n <= Limit /\ brk' = brk + n
      /\ pieces' = pieces \cup {new} /\ mem' = Store(mem, brk, n)
      /\ addr' = brk /\ caller' = "my_malloc" /\ pc' = "place" /\ tmp' = head' /\ last' = NULL
      /\ UNCHANGED <<head, nodes, bytes, ptr, live>>
  BY DEF Sbrk, Begin
<1>2. bytes \in Requests /\ bytes \in Nat
  BY <1>1, Bounds DEF IInv, TypeOK
<1>3. size \in Nat /\ size % 8 = 0 /\ size > 0
  BY <1>2, ChunkSizeIs DEF size
<1>4. n \in Nat /\ n % 8 = 0 /\ n >= size /\ n > 0
  BY <1>3, SbrkSizeIs
<1> HIDE DEF n
<1>5. brk \in Nat /\ brk % 8 = 0 /\ Bottom <= brk /\ brk < Limit /\ brk # NULL
  BY <1>1, <1>4, Typed, Bounds, NullIs DEF IInv
<1>6. brk \in Words /\ brk \in WordsIn(Bottom, brk + n)
  BY <1>4, <1>5, Bounds DEF Words, WordsIn
<1>7. mem' \in [Words -> Int] /\ mem'[brk] = n /\ \A w \in Words : w # brk => mem'[w] = mem[w]
  BY <1>1, <1>4, <1>6, Typed, StoreIs DEF IInv
<1>8. \A a \in Chunks : a \in Words /\ a # brk /\ mem'[a] = mem[a]
  <2> SUFFICES ASSUME NEW a \in Chunks PROVE a \in Words /\ a # brk
    BY <1>7
  <2>1. a \in Words /\ a \in Nat /\ mem[a] \in Nat /\ mem[a] >= 8 /\ a + mem[a] <= brk
    BY Layout
  <2> QED
    BY <1>5, <2>1
<1>9. Held' = Held /\ Pending = {} /\ Pending' = {brk} /\ Chunks = nodes \cup Held
      /\ Chunks' = nodes \cup Held \cup {brk}
  BY <1>1 DEF Held, Pending, Chunks
<1>10. FreeAddrs = nodes /\ FreeAddrs' = nodes \cup {brk} /\ UsedAddrs = Held /\ UsedAddrs' = Held
  BY <1>1 DEF FreeAddrs, UsedAddrs, Held
<1>11. FreeChunks' = FreeChunks \cup {new}
  <2>1. FreeChunks = {[addr |-> a, size |-> mem[a]] : a \in nodes}
    BY <1>10, Zenon DEF FreeChunks, ChunkAt
  <2>2. FreeChunks' = {[addr |-> a, size |-> mem'[a]] : a \in nodes \cup {brk}}
    BY <1>10, Zenon DEF FreeChunks, ChunkAt
  <2> QED
    BY <1>7, <1>8, <1>9, <2>1, <2>2
<1>12. UsedChunks' = UsedChunks
  <2>1. UsedChunks = {[addr |-> a, size |-> mem[a]] : a \in Held}
    BY <1>10, Zenon DEF UsedChunks, ChunkAt
  <2>2. UsedChunks' = {[addr |-> a, size |-> mem'[a]] : a \in Held}
    BY <1>10, Zenon DEF UsedChunks, ChunkAt
  <2> QED
    BY <1>8, <1>9, <2>1, <2>2
<1>13. OurBytes' = OurBytes \cup (brk .. brk + n - 1)
  <2>1. new.addr .. new.addr + new.size - 1 = brk .. brk + n - 1
    OBVIOUS
  <2> HIDE DEF new
  <2> QED
    BY <1>1, <2>1 DEF OurBytes
<1>14. HP!Grow(size)
  <2>1. \A c \in FreeChunks : c.size < size
    <3>1. \A a \in nodes : mem[a] < size
      BY <1>1 DEF IInv, AtNode
    <3> QED
      BY <1>10, <3>1 DEF FreeChunks, ChunkAt
  <2>2. brk' - brk = n /\ brk' \in Nat /\ brk' >= brk + size
    BY <1>1, <1>3, <1>4, <1>5
  <2>3. new = [addr |-> brk, size |-> brk' - brk]
    BY <2>2
  <2>4. HP!Bytes(new) = brk .. brk + n - 1
    BY <1>4, <1>5 DEF HP!Bytes, HP!End
  <2> HIDE DEF new
  <2>5. OurBytes' = OurBytes \cup HP!Bytes(new)
    BY <1>13, <2>4
  <2> QED
    BY <1>3, <1>11, <1>12, <2>1, <2>2, <2>3, <2>5 DEF HP!Grow
<1>15. HP!Next
  <2>1. size \in {ChunkSize(k) : k \in Requests}
    BY <1>2 DEF size
  <2> QED
    BY <1>14, <2>1 DEF HP!Next
<1>16. HP!IInv'
  BY <1>15, HP!NextPreserves DEF IInv
<1>17. TypeOK'
  <2>1. brk + n \in Bottom .. Limit /\ (brk + n) % 8 = 0
    BY <1>1, <1>4, <1>5, Bounds
  <2>2. WordsIn(Bottom, brk) \subseteq WordsIn(Bottom, brk + n)
        /\ WordsIn(Bottom, brk + 8) \subseteq WordsIn(Bottom, brk + n + 8)
    BY <1>4, <1>5, Bounds DEF WordsIn, Words
  <2>3. Addresses' = {NULL} \cup WordsIn(Bottom, brk + n) /\ BlockAddresses' = WordsIn(Bottom, brk + n + 8)
    BY <1>1 DEF Addresses, BlockAddresses
  <2>4. new \in [addr : WordsIn(Bottom, brk + n), size : Nat \ {0}]
    BY <1>4, <1>6
  <2>5. pieces' \subseteq [addr : WordsIn(Bottom, brk'), size : Nat \ {0}]
    <3>1. pieces \subseteq [addr : WordsIn(Bottom, brk + n), size : Nat \ {0}]
      BY <2>2 DEF IInv, TypeOK
    <3> HIDE DEF new
    <3> QED
      BY <1>1, <2>4, <3>1
  <2>6. live' \subseteq [ptr : BlockAddresses', bytes : Requests]
    BY <1>1, <2>2, <2>3 DEF IInv, TypeOK, BlockAddresses
  <2>7. nodes' \subseteq Addresses' \ {NULL} /\ {head', tmp', last', addr'} \subseteq Addresses'
        /\ ptr' \in {NULL} \cup BlockAddresses'
    BY <1>1, <1>6, <2>2, <2>3 DEF IInv, TypeOK, Addresses, BlockAddresses
  <2> QED
    BY <1>1, <1>2, <1>5, <1>7, <2>1, <2>5, <2>6, <2>7 DEF TypeOK
<1>18. Once' /\ Aligned'
  <2>1. brk \notin nodes \cup Held
    BY <1>8, <1>9
  <2>2. Once'
    BY <1>1, <1>9, <2>1 DEF IInv, Once
  <2>3. \A a \in Chunks' : mem'[a] % 8 = 0
    BY <1>4, <1>7, <1>8, <1>9 DEF IInv, Aligned
  <2> QED
    BY <2>2, <2>3 DEF Aligned
<1>19. Returning' /\ AtNode'
  <2>1. NULL < brk /\ IsNext(nodes, NULL, head)
    BY <1>5, Bounds, NullIs DEF IInv, ListLinked
  <2> QED
    BY <1>1, <2>1, Links DEF Returning, AtNode
<1>20. ListLinked'
  <2>1. ASSUME NEW a \in nodes
        PROVE  mem'[a + 8] = mem[a + 8] /\ mem'[a + 16] = mem[a + 16]
    <3>1. a \in Chunks /\ mem[a] >= 24 /\ a \in Nat /\ mem[a] \in Nat /\ a + mem[a] <= brk
      BY Layout DEF RoomForLinks, Listed, Chunks
    <3>2. a + 8 \in Words /\ a + 16 \in Words
      BY <3>1, Fields
    <3> QED
      BY <1>5, <1>7, <3>1, <3>2
  <2> QED
    BY <1>1, <2>1 DEF IInv, ListLinked, NextOf, PrevOf
<1>21. BlocksIntact'
  <2>1. HeaderIsSize'
    BY <1>1, <1>8, BlockWords DEF IInv, BlocksIntact, HeaderIsSize
  <2>2. ASSUME NEW b \in live, NEW w \in WordsIn(b.ptr, b.ptr + b.bytes)
        PROVE  mem'[w] = Data
    <3>1. w \in Words /\ w \in Int /\ w < brk
      BY BlockWords, Bounds DEF Words
    <3>2. mem'[w] = mem[w]
      BY <1>5, <1>7, <3>1
    <3> QED
      BY <3>2 DEF IInv, BlocksIntact, DataKept
  <2>3. ASSUME NEW w \in WordsIn(Bottom, brk + n), w \notin OurBytes'
        PROVE  mem'[w] = Data
    <3>1. w \in Words /\ w \in Int /\ Bottom <= w /\ w < brk + n
      BY Bounds DEF WordsIn, Words
    <3>2. w < brk /\ w \notin OurBytes
      BY <1>4, <1>5, <1>13, <2>3, <3>1
    <3>3. w \in WordsIn(Bottom, brk)
      BY <3>1, <3>2 DEF WordsIn
    <3>4. mem'[w] = mem[w]
      BY <1>5, <1>7, <3>1, <3>2
    <3> QED
      BY <3>2, <3>3, <3>4 DEF IInv, BlocksIntact, DataKept
  <2> QED
    BY <1>1, <2>1, <2>2, <2>3 DEF BlocksIntact, DataKept
<1>22. NewSizes
  BY <1>2, <1>7, <1>8, <1>9 DEF NewSizes, Amounts, n
<1> QED
  BY <1>15, <1>16, <1>17, <1>18, <1>19, <1>20, <1>21, <1>22 DEF Step, IInv

-----------------------------------------------------------------------------
(* Memory is filled *)

LEMMA FilledIs ==
    ASSUME NEW m \in [Words -> Int], NEW W, W \subseteq Words
    PROVE  /\ Filled(m, W) \in [Words -> Int]
           /\ \A w \in Words : Filled(m, W)[w] = IF w \in W THEN Data ELSE m[w]
<1>1. Filled(m, W) = [w \in Words |-> IF w \in W THEN Data ELSE m[w]]
  BY DEF Filled
<1>2. Data \in Int
  BY DEF Data
<1> QED
  BY <1>1, <1>2

LEMMA GiveStep ==
    ASSUME IInv, RoomForLinks, Give
    PROVE  Step
<1> DEFINE c == ptr - 8
           W == WordsIn(ptr, ptr + bytes)
           new == [ptr |-> ptr, bytes |-> bytes]
<1>1. /\ pc = "return" /\ mem' = Filled(mem, W) /\ live' = live \cup {new} /\ ptr' = NULL
      /\ pc' = "idle" /\ tmp' = NULL /\ last' = NULL /\ addr' = NULL /\ bytes' = 0 /\ caller' = "user"
      /\ UNCHANGED <<head, brk, nodes, pieces>>
  BY DEF Give, Done
<1>2. ptr # NULL /\ mem[c] = ChunkSize(bytes) /\ ptr \in Int /\ bytes \in Requests /\ bytes \in Nat
  BY <1>1, Typed, Bounds DEF IInv, TypeOK, Returning
<1>3. Pending = {c} /\ c \in Chunks /\ c \in Words /\ c \in Int /\ c \notin nodes \cup Held
  <2>1. Pending = {c} /\ c \in Chunks
    BY <1>1 DEF Pending, Chunks
  <2> HIDE DEF c
  <2> QED
    BY <2>1, Layout DEF IInv, Once
<1>4. ChunkSize(bytes) \in Nat /\ ChunkSize(bytes) >= bytes + 8
  BY <1>2, ChunkSizeIs
<1>5. W \subseteq Words /\ \A w \in W : w \in Int /\ ptr <= w /\ w < ptr + bytes
  BY <1>2, Bounds DEF WordsIn, Words
<1>6. \A w \in W : Inside(w, c) /\ w # c
  BY <1>2, <1>4, <1>5 DEF Inside
<1> HIDE DEF c, W
<1>7. mem' \in [Words -> Int] /\ \A w \in Words : mem'[w] = IF w \in W THEN Data ELSE mem[w]
  BY <1>1, <1>5, FilledIs, Typed DEF IInv
<1>8. \A a \in Chunks : a \in Words /\ mem'[a] = mem[a]
  <2> SUFFICES ASSUME NEW a \in Chunks, a \in W PROVE FALSE
    BY <1>7, Layout
  <2>1. a \in Int /\ Inside(a, a)
    BY Layout DEF Inside
  <2>2. a = c
    BY <1>3, <1>6, <2>1, Regions
  <2> QED
    BY <1>6, <2>2
<1>9. Held' = Held \cup {c} /\ Pending' = {} /\ Chunks' = Chunks
  <2>1. Held' = Held \cup {c}
    <3>1. new.ptr = ptr
      OBVIOUS
    <3> HIDE DEF new
    <3> QED
      BY <1>1, <3>1 DEF Held, c
  <2> QED
    BY <1>1, <1>3, <2>1 DEF Pending, Chunks
<1>10. HP!IInv' /\ UNCHANGED HP!vars
  <2>1. FreeAddrs' = FreeAddrs
    BY <1>1 DEF FreeAddrs
  <2>2. UsedAddrs' = UsedAddrs
    <3>1. UsedAddrs = Held \cup {c}
      BY <1>1 DEF UsedAddrs, Held, c
    <3>2. UsedAddrs' = Held'
      BY <1>1 DEF UsedAddrs, Held
    <3> QED
      BY <1>9, <3>1, <3>2
  <2> QED
    BY <1>1, <1>8, <2>1, <2>2, Stutters
<1>11. TypeOK'
  <2>1. new \in [ptr : BlockAddresses, bytes : Requests]
    BY <1>2 DEF IInv, TypeOK
  <2>2. live' \subseteq [ptr : BlockAddresses, bytes : Requests]
    <3> HIDE DEF new
    <3> QED
      BY <1>1, <2>1 DEF IInv, TypeOK
  <2> QED
    BY <1>1, <1>7, <2>2, NullIs DEF IInv, TypeOK, Addresses, BlockAddresses
<1>12. Once' /\ Aligned'
  <2>1. \A b \in live : b.ptr # new.ptr
    BY <1>3 DEF Held, c
  <2>2. \A b, d \in live' : b.ptr = d.ptr => b = d
    <3> HIDE DEF new
    <3> QED
      BY <1>1, <2>1 DEF IInv, Once
  <2>3. Once'
    BY <1>1, <1>3, <1>9, <2>2 DEF IInv, Once
  <2> QED
    BY <1>8, <1>9, <2>3 DEF IInv, Aligned
<1>13. Returning' /\ AtNode'
  BY <1>1 DEF Returning, AtNode
<1>14. ListLinked'
  <2>1. ASSUME NEW a \in nodes
        PROVE  mem'[a + 8] = mem[a + 8] /\ mem'[a + 16] = mem[a + 16]
    <3>1. a \in Chunks /\ mem[a] >= 24 /\ a # c
      BY <1>3 DEF RoomForLinks, Listed, Chunks
    <3>2. /\ a + 8 \in Words /\ a + 16 \in Words /\ Inside(a + 8, a) /\ Inside(a + 16, a)
      BY <3>1, Fields
    <3>3. a + 8 \notin W /\ a + 16 \notin W
      BY <1>3, <1>5, <1>6, <3>1, <3>2, Regions
    <3> QED
      BY <1>7, <3>2, <3>3
  <2> QED
    BY <1>1, <2>1 DEF IInv, ListLinked, NextOf, PrevOf
<1>15. BlocksIntact'
  <2>1. /\ \A b \in live : mem'[b.ptr - 8] = ChunkSize(b.bytes)
        /\ \A b \in live : \A w \in WordsIn(b.ptr, b.ptr + b.bytes) : mem'[w] = Data
        /\ \A w \in WordsIn(Bottom, brk) : w \notin OurBytes => mem'[w] = Data
    <3>1. W \subseteq Int /\ \A w \in Words : w \notin W => mem'[w] = mem[w]
      BY <1>5, <1>7
    <3>2. \A w \in W : \E a \in nodes \cup Pending : Inside(w, a)
      BY <1>3, <1>6
    <3> QED
      BY <1>7, <3>1, <3>2, Frame
  <2>2. /\ mem'[new.ptr - 8] = ChunkSize(new.bytes)
        /\ \A w \in WordsIn(new.ptr, new.ptr + new.bytes) : mem'[w] = Data
    BY <1>2, <1>3, <1>5, <1>7, <1>8 DEF c, W
  <2> HIDE DEF new
  <2> QED
    BY <1>1, <2>1, <2>2 DEF BlocksIntact, HeaderIsSize, DataKept, OurBytes
<1>16. NewSizes
  BY <1>8, <1>9 DEF NewSizes, Amounts
<1> QED
  BY <1>10, <1>11, <1>12, <1>13, <1>14, <1>15, <1>16 DEF Step, IInv

LEMMA OtherSbrkStep ==
    ASSUME IInv, RoomForLinks, NEW gap \in Gaps, OtherSbrk(gap)
    PROVE  Step
<1> DEFINE W == WordsIn(brk, brk + gap)
<1>1. /\ pc = "idle" /\ brk + gap <= Limit /\ brk' = brk + gap /\ mem' = Filled(mem, W)
      /\ UNCHANGED <<head, nodes, pieces, pc, bytes, tmp, last, addr, caller, ptr, live>>
  BY DEF OtherSbrk, locals
<1>2. gap \in Nat /\ gap % 8 = 0 /\ brk \in Nat /\ brk % 8 = 0 /\ Bottom <= brk
  BY Typed, Bounds DEF IInv
<1>3. W \subseteq Words /\ \A w \in W : w \in Int /\ brk <= w
  BY <1>2, Bounds DEF WordsIn, Words
<1>4. mem' \in [Words -> Int] /\ \A w \in Words : mem'[w] = IF w \in W THEN Data ELSE mem[w]
  BY <1>1, <1>3, FilledIs, Typed DEF IInv
<1>5. \A w \in Words : w < brk => mem'[w] = mem[w]
  BY <1>2, <1>3, <1>4, Bounds DEF Words
<1>6. \A a \in Chunks : a \in Words /\ mem'[a] = mem[a]
  <2> SUFFICES ASSUME NEW a \in Chunks PROVE a \in Words /\ a < brk
    BY <1>5
  <2>1. a \in Nat /\ a \in Words /\ mem[a] \in Nat /\ mem[a] >= 8 /\ a + mem[a] <= brk
    BY Layout
  <2> QED
    BY <1>2, <2>1
<1>7. Held' = Held /\ Pending' = Pending /\ Chunks' = Chunks
  BY <1>1 DEF Held, Pending, Chunks
<1>8. FreeAddrs' = FreeAddrs /\ UsedAddrs' = UsedAddrs
  BY <1>1 DEF FreeAddrs, UsedAddrs
<1>9. HP!IInv' /\ [HP!Next]_HP!vars
  <2>1. CASE gap = 0
    <3>1. brk' = brk
      BY <1>1, <1>2, <2>1
    <3> QED
      BY <1>1, <1>6, <1>8, <3>1, Stutters
  <2>2. CASE gap # 0
    <3>1. FreeAddrs \cup UsedAddrs = Chunks
      BY AllChunks DEF IInv
    <3>2. FreeChunks' = FreeChunks /\ UsedChunks' = UsedChunks
      BY <1>6, <1>8, <3>1 DEF FreeChunks, UsedChunks, ChunkAt
    <3>3. brk' \in Nat /\ brk' > brk
      BY <1>1, <1>2, <2>2
    <3>4. HP!OtherGrows
      BY <1>1, <3>2, <3>3 DEF HP!OtherGrows, OurBytes
    <3>5. HP!Next
      BY <3>4 DEF HP!Next
    <3> QED
      BY <3>5, HP!NextPreserves DEF IInv
  <2> QED
    BY <2>1, <2>2
<1> HIDE DEF W
<1>10. TypeOK'
  <2>1. brk + gap \in Bottom .. Limit /\ (brk + gap) % 8 = 0
    BY <1>1, <1>2, Bounds
  <2>2. WordsIn(Bottom, brk) \subseteq WordsIn(Bottom, brk + gap)
        /\ WordsIn(Bottom, brk + 8) \subseteq WordsIn(Bottom, brk + gap + 8)
    BY <1>2, Bounds DEF WordsIn, Words
  <2>3. Addresses' = {NULL} \cup WordsIn(Bottom, brk + gap) /\ BlockAddresses' = WordsIn(Bottom, brk + gap + 8)
    BY <1>1 DEF Addresses, BlockAddresses
  <2>4. pieces' \subseteq [addr : WordsIn(Bottom, brk'), size : Nat \ {0}]
    BY <1>1, <2>2 DEF IInv, TypeOK
  <2>5. live' \subseteq [ptr : BlockAddresses', bytes : Requests]
    BY <1>1, <2>2, <2>3 DEF IInv, TypeOK, BlockAddresses
  <2>6. nodes' \subseteq Addresses' \ {NULL} /\ {head', tmp', last', addr'} \subseteq Addresses'
        /\ ptr' \in {NULL} \cup BlockAddresses'
    BY <1>1, <2>2, <2>3 DEF IInv, TypeOK, Addresses, BlockAddresses
  <2>7. brk' \in Bottom .. Limit /\ brk' % 8 = 0
    BY <1>1, <2>1
  <2> QED
    BY <1>1, <1>4, <2>4, <2>5, <2>6, <2>7 DEF IInv, TypeOK
<1>11. Once' /\ Aligned'
  BY <1>1, <1>6, <1>7 DEF IInv, Once, Aligned
<1>12. Returning' /\ AtNode'
  BY <1>1 DEF Returning, AtNode
<1>13. ListLinked'
  <2>1. ASSUME NEW a \in nodes
        PROVE  mem'[a + 8] = mem[a + 8] /\ mem'[a + 16] = mem[a + 16]
    <3>1. a \in Chunks /\ mem[a] >= 24 /\ a \in Nat /\ mem[a] \in Nat /\ a + mem[a] <= brk
      BY Layout DEF RoomForLinks, Listed, Chunks
    <3>2. a + 8 \in Words /\ a + 16 \in Words /\ a + 8 < brk /\ a + 16 < brk
      BY <1>2, <3>1, Fields
    <3> QED
      BY <1>5, <3>2
  <2> QED
    BY <1>1, <2>1 DEF IInv, ListLinked, NextOf, PrevOf
<1>14. BlocksIntact'
  <2>1. HeaderIsSize'
    BY <1>1, <1>6, BlockWords DEF IInv, BlocksIntact, HeaderIsSize
  <2>2. ASSUME NEW b \in live, NEW w \in WordsIn(b.ptr, b.ptr + b.bytes)
        PROVE  mem'[w] = Data
    <3>1. mem'[w] = mem[w]
      BY <1>5, BlockWords
    <3> QED
      BY <3>1 DEF IInv, BlocksIntact, DataKept
  <2>3. ASSUME NEW w \in WordsIn(Bottom, brk + gap), w \notin OurBytes
        PROVE  mem'[w] = Data
    <3>1. w \in Words /\ w \in Int /\ Bottom <= w /\ w < brk + gap
      BY Bounds DEF WordsIn, Words
    <3>2. CASE w < brk
      <4>1. w \in WordsIn(Bottom, brk) /\ mem'[w] = mem[w]
        BY <1>5, <3>1, <3>2 DEF WordsIn
      <4> QED
        BY <2>3, <4>1 DEF IInv, BlocksIntact, DataKept
    <3>3. CASE ~(w < brk)
      <4>1. w \in W
        BY <1>2, <3>1, <3>3 DEF W, WordsIn
      <4> QED
        BY <1>4, <3>1, <4>1
    <3> QED
      BY <3>2, <3>3
  <2> QED
    BY <1>1, <2>1, <2>2, <2>3 DEF BlocksIntact, DataKept, OurBytes
<1>15. NewSizes
  BY <1>6, <1>7 DEF NewSizes, Amounts
<1> QED
  BY <1>9, <1>10, <1>11, <1>12, <1>13, <1>14, <1>15 DEF Step, IInv

-----------------------------------------------------------------------------
(* A chunk goes onto the list *)

\* What putting the chunk on the list writes.  Its links are in it, as it has room for
\* them.
LEMMA InsertWrites ==
    ASSUME IInv, RoomForLinks, Insert
    PROVE  /\ addr \in Chunks /\ Pending = {addr} /\ addr # NULL /\ addr \notin nodes \cup Held
           /\ mem[addr] >= 24
           /\ tmp \in Int /\ (tmp = NULL \/ tmp \in nodes)
           /\ last \in Int /\ (last = NULL \/ last \in nodes)
           /\ mem' \in [Words -> Int]
           /\ mem'[addr + 8] = tmp /\ mem'[addr + 16] = last
           /\ last # NULL => mem'[last + 8] = addr
           /\ tmp # NULL => mem'[tmp + 16] = addr
           /\ \A w \in Words : /\ w # addr + 8 /\ w # addr + 16
                               /\ last = NULL \/ w # last + 8
                               /\ tmp = NULL \/ w # tmp + 16
                               => mem'[w] = mem[w]
<1> DEFINE m1 == Set(mem, last, 8, addr)
           m2 == Store(m1, addr + 16, last)
           m3 == Store(m2, addr + 8, tmp)
<1>1. /\ pc = "place" /\ (tmp = NULL \/ addr < tmp) /\ nodes' = nodes \cup {addr}
      /\ mem' = Set(m3, tmp, 16, addr)
  BY DEF Insert
<1>2. /\ Pending = {addr} /\ addr \in Chunks /\ addr # NULL /\ addr \notin nodes \cup Held
  BY <1>1 DEF Pending, Chunks, IInv, TypeOK, Once
<1>3. /\ tmp \in Int /\ (tmp = NULL \/ (tmp \in nodes /\ tmp \in Chunks /\ mem[tmp] >= 24))
      /\ last \in Int /\ (last = NULL \/ (last \in nodes /\ last \in Chunks /\ mem[last] >= 24))
      /\ mem \in [Words -> Int]
  BY <1>1, Typed, NullIs DEF IInv, AtNode, RoomForLinks, Listed, Chunks
<1>4. addr \in Int /\ addr % 8 = 0 /\ addr \in Words /\ Bottom <= addr /\ addr < Limit
  <2>1. addr \in Nat /\ addr \in Words /\ addr % 8 = 0 /\ Bottom <= addr
        /\ mem[addr] \in Nat /\ mem[addr] >= 8 /\ addr + mem[addr] <= brk
    BY <1>2, Layout
  <2>2. brk \in Int /\ brk <= Limit
    BY Typed DEF IInv
  <2> QED
    BY <2>1, <2>2, Bounds
<1>5. addr + 8 \in Words
  <2>1. (addr + 8) % 8 = 0
    BY <1>4
  <2> QED
    BY <1>4, <2>1, Bounds DEF Words
<1>6. last # NULL => last + 8 \in Words
  BY <1>3, Fields
<1>7. tmp # NULL => tmp + 16 \in Words
  BY <1>3, Fields
<1>8. addr + 16 \in Words
  <2>1. (addr + 16) % 8 = 0 /\ Limit % 8 = 0 /\ Limit \in Int
    BY <1>4, Bounds
  <2>2. \A x, y \in Int : x % 8 = 0 /\ y % 8 = 0 /\ x < y => x + 8 <= y
    OBVIOUS
  <2>3. addr + 8 <= Limit
    BY <1>4, <2>1, <2>2
  <2> QED
    BY <1>4, <2>1, <2>3, Bounds DEF Words
<1>9. /\ m1 \in [Words -> Int]
      /\ last # NULL => m1[last + 8] = addr
      /\ \A w \in Words : last = NULL \/ w # last + 8 => m1[w] = mem[w]
  <2>1. 8 \in {8, 16}
    OBVIOUS
  <2> QED
    BY <1>3, <1>4, <1>6, <2>1, SetIs
<1> HIDE DEF m1
<1>10. /\ m2 \in [Words -> Int] /\ m2[addr + 16] = last
       /\ \A w \in Words : w # addr + 16 => m2[w] = m1[w]
  BY <1>3, <1>8, <1>9, StoreIs
<1> HIDE DEF m2
<1>11. /\ m3 \in [Words -> Int] /\ m3[addr + 8] = tmp
       /\ \A w \in Words : w # addr + 8 => m3[w] = m2[w]
  BY <1>3, <1>5, <1>10, StoreIs
<1> HIDE DEF m3
<1>12. /\ mem' \in [Words -> Int]
       /\ tmp # NULL => mem'[tmp + 16] = addr
       /\ \A w \in Words : tmp = NULL \/ w # tmp + 16 => mem'[w] = m3[w]
  <2>1. 16 \in {8, 16}
    OBVIOUS
  <2> QED
    <3>1. mem' = Set(m3, tmp, 16, addr)
      BY <1>1
    <3>2. m3 \in [Words -> Int] /\ tmp \in Int /\ addr \in Int
      BY <1>3, <1>4, <1>11
    <3>3. mem' \in [Words -> Int]
      BY <1>7, <2>1, <3>1, <3>2, SetIs
    <3>4. tmp # NULL => mem'[tmp + 16] = addr
      BY <1>7, <2>1, <3>1, <3>2, SetIs
    <3>5. \A w \in Words : tmp = NULL \/ w # tmp + 16 => mem'[w] = m3[w]
      BY <1>7, <2>1, <3>1, <3>2, SetIs
    <3> QED
      BY <3>3, <3>4, <3>5
<1>13. \A w \in Words : /\ w # addr + 8 /\ w # addr + 16
                        /\ last = NULL \/ w # last + 8
                        /\ tmp = NULL \/ w # tmp + 16
                        => mem'[w] = mem[w]
  BY <1>9, <1>10, <1>11, <1>12
<1>14. mem[addr] >= 24
  BY <1>1 DEF RoomForLinks, Listed
<1>15. mem'[addr + 8] = tmp
  <2>1. tmp # NULL => addr + 8 # tmp + 16
    BY <1>2, <1>3, <1>14, FieldsApart
  <2> QED
    BY <1>5, <1>11, <1>12, <2>1
<1>16. mem'[addr + 16] = last
  <2>1. addr + 16 # addr + 8
    BY <1>4
  <2>2. tmp # NULL => addr + 16 # tmp + 16
    BY <1>2, <1>3, <1>4
  <2> QED
    BY <1>8, <1>10, <1>11, <1>12, <2>1, <2>2
<1>17. last # NULL => mem'[last + 8] = addr
  <2> SUFFICES ASSUME last # NULL PROVE mem'[last + 8] = addr
    OBVIOUS
  <2>1. last + 8 # addr + 16 /\ (tmp # NULL => last + 8 # tmp + 16)
    BY <1>2, <1>3, <1>14, FieldsApart
  <2>2. last + 8 # addr + 8
    BY <1>2, <1>3, <1>4
  <2> QED
    BY <1>6, <1>9, <1>10, <1>11, <1>12, <2>1, <2>2
<1> QED
  BY <1>2, <1>3, <1>12, <1>13, <1>14, <1>15, <1>16, <1>17

LEMMA InsertStep ==
    ASSUME IInv, RoomForLinks, Insert
    PROVE  Step
<1> DEFINE S == nodes \cup {addr}
           A == {addr, last, tmp} \ {NULL}
           W == {a + 8 : a \in A} \cup {a + 16 : a \in A}
           h == IF last = NULL THEN addr ELSE head
<1>1. /\ addr \in Chunks /\ Pending = {addr} /\ addr # NULL /\ addr \notin nodes \cup Held
      /\ mem[addr] >= 24
      /\ tmp \in Int /\ (tmp = NULL \/ tmp \in nodes)
      /\ last \in Int /\ (last = NULL \/ last \in nodes)
      /\ mem' \in [Words -> Int]
      /\ mem'[addr + 8] = tmp /\ mem'[addr + 16] = last
      /\ last # NULL => mem'[last + 8] = addr
      /\ tmp # NULL => mem'[tmp + 16] = addr
      /\ \A w \in Words : /\ w # addr + 8 /\ w # addr + 16
                          /\ last = NULL \/ w # last + 8
                          /\ tmp = NULL \/ w # tmp + 16
                          => mem'[w] = mem[w]
  BY InsertWrites
<1>2. /\ pc = "place" /\ (tmp = NULL \/ addr < tmp) /\ nodes' = S /\ head' = h
      /\ UNCHANGED <<brk, pieces, ptr, live>>
      /\ addr' = NULL /\ last' = NULL /\ caller' = "user"
      /\ caller = "user" => pc' = "idle" /\ tmp' = NULL /\ bytes' = 0
      /\ caller # "user" => pc' = "fit" /\ tmp' = head' /\ bytes' = bytes
  BY DEF Insert, Done, Begin
<1>3. A \subseteq nodes \cup Pending /\ A \subseteq Chunks /\ \A a \in A : mem[a] >= 24
  BY <1>1 DEF RoomForLinks, Listed, Chunks
<1>4. \A w \in Words : w \notin W => mem'[w] = mem[w]
  BY <1>1
<1> HIDE DEF W, A, S, h
<1>5. /\ \A a \in Chunks : mem'[a] = mem[a]
      /\ \A b \in live : mem'[b.ptr - 8] = ChunkSize(b.bytes)
      /\ \A b \in live : \A w \in WordsIn(b.ptr, b.ptr + b.bytes) : mem'[w] = Data
      /\ \A w \in WordsIn(Bottom, brk) : w \notin OurBytes => mem'[w] = Data
  <2>1. W \subseteq {a + 8 : a \in A} \cup {a + 16 : a \in A}
    BY DEF W
  <2>2. mem' \in [Words -> Int] /\ A \subseteq nodes \cup Pending
    BY <1>1, <1>3
  <2> QED
    BY <1>3, <1>4, <2>1, <2>2, LinksOnly
<1>6. /\ Held' = Held /\ Pending' = {} /\ Chunks' = Chunks
      /\ FreeAddrs' = S /\ UsedAddrs' = Held
  <2>1. pc' \in {"idle", "fit"} /\ live' = live
    BY <1>2
  <2>2. Held' = Held /\ Pending' = {}
    BY <2>1 DEF Held, Pending
  <2>3. Chunks' = Chunks
    BY <1>1, <1>2, <2>2 DEF Chunks, S
  <2> QED
    BY <1>2, <2>1, <2>2, <2>3 DEF FreeAddrs, UsedAddrs, Held
<1>7. HP!IInv' /\ [HP!Next]_HP!vars
  <2>1. CASE caller = "user"
    <3>1. FreeAddrs = nodes /\ UsedAddrs = Held \cup {addr}
      BY <1>2, <2>1 DEF FreeAddrs, UsedAddrs, Held
    <3>2. FreeChunks' = FreeChunks \cup {ChunkAt(addr)}
      <4>1. FreeChunks = {[addr |-> a, size |-> mem[a]] : a \in nodes}
        BY <3>1, Zenon DEF FreeChunks, ChunkAt
      <4>2. FreeChunks' = {[addr |-> a, size |-> mem'[a]] : a \in S}
        BY <1>6, Zenon DEF FreeChunks, ChunkAt
      <4> QED
        BY <1>1, <1>5, <4>1, <4>2 DEF ChunkAt, S, Chunks
    <3>3. UsedChunks' = UsedChunks \ {ChunkAt(addr)} /\ ChunkAt(addr) \in UsedChunks
      <4>1. UsedChunks = {[addr |-> a, size |-> mem[a]] : a \in Held \cup {addr}}
        BY <3>1, Zenon DEF UsedChunks, ChunkAt
      <4>2. UsedChunks' = {[addr |-> a, size |-> mem'[a]] : a \in Held}
        BY <1>6, Zenon DEF UsedChunks, ChunkAt
      <4> QED
        BY <1>1, <1>5, <4>1, <4>2 DEF ChunkAt, Chunks
    <3>4. HP!Free(ChunkAt(addr))
      BY <1>2, <3>2, <3>3 DEF HP!Free, OurBytes
    <3>5. HP!Next
      BY <3>3, <3>4 DEF HP!Next
    <3> QED
      BY <3>5, HP!NextPreserves DEF IInv
  <2>2. CASE caller # "user"
    <3>1. caller = "my_malloc"
      BY <2>2 DEF IInv, TypeOK
    <3>2. FreeAddrs' = FreeAddrs /\ UsedAddrs' = UsedAddrs
      BY <1>2, <1>6, <3>1 DEF FreeAddrs, UsedAddrs, Held, S
    <3> QED
      BY <1>2, <1>5, <3>2, Stutters
  <2> QED
    BY <2>1, <2>2
<1>8. IsNext(S, NULL, h) /\ \A a \in S : IsNext(S, a, mem'[a + 8]) /\ IsPrev(S, a, mem'[a + 16])
  <2>1. nodes \subseteq Nat \ {0} /\ addr \in Nat \ {0} /\ head \in Int
    BY <1>1, Layout, Typed, NullIs DEF IInv
  <2>2. IsNext(nodes, last, tmp) /\ last < addr /\ addr \notin nodes
    BY <1>1, <1>2 DEF IInv, AtNode
  <2>3. /\ IsNext(S, last, addr) /\ IsNext(S, addr, tmp)
        /\ IsPrev(S, addr, last)
        /\ tmp # NULL => IsPrev(S, tmp, addr)
        /\ \A c \in nodes \cup {NULL} : \A x \in Int : c # last /\ IsNext(nodes, c, x) => IsNext(S, c, x)
        /\ \A c \in nodes : \A x \in Int : c # tmp /\ IsPrev(nodes, c, x) => IsPrev(S, c, x)
    <3>1. /\ last \in Int /\ tmp \in Int /\ (last = NULL \/ last \in nodes)
          /\ tmp = NULL \/ addr < tmp
      BY <1>1, <1>2
    <3> QED
      BY <2>1, <2>2, <3>1, PutIn DEF S
  <2>4. IsNext(S, NULL, h)
    <3>1. CASE last = NULL
      BY <2>3, <3>1 DEF h
    <3>2. CASE last # NULL
      <4>1. IsNext(nodes, NULL, head)
        BY DEF IInv, ListLinked
      <4> QED
        BY <2>1, <2>3, <3>2, <4>1 DEF h
    <3> QED
      BY <3>1, <3>2
  <2>5. ASSUME NEW a \in nodes
        PROVE  IsNext(S, a, mem'[a + 8]) /\ IsPrev(S, a, mem'[a + 16])
    <3>1. a \in Chunks /\ mem[a] >= 24 /\ a \in Nat /\ a # addr /\ a # NULL
      BY <2>1, <2>2, NullIs DEF Chunks, RoomForLinks, Listed
    <3>2. a + 8 \in Words /\ a + 16 \in Words
      BY <3>1, Fields
    <3>3. mem[a + 8] \in Int /\ mem[a + 16] \in Int
      BY <3>2, Typed DEF IInv
    <3>4. IsNext(nodes, a, mem[a + 8]) /\ IsPrev(nodes, a, mem[a + 16])
      BY DEF IInv, ListLinked, NextOf, PrevOf
    <3>5. /\ a + 8 # addr + 16 /\ a + 16 # addr + 8
          /\ tmp # NULL => a + 8 # tmp + 16
          /\ last # NULL => a + 16 # last + 8
      BY <1>1, <3>1, FieldsApart DEF Chunks, RoomForLinks, Listed
    <3>6. a + 8 # addr + 8 /\ a + 16 # addr + 16
      BY <2>1, <3>1
    <3>7. a # last => IsNext(S, a, mem'[a + 8])
      <4>1. a # last => a + 8 # last + 8
        BY <1>1, <3>1
      <4>2. a # last => mem'[a + 8] = mem[a + 8]
        BY <1>1, <3>2, <3>5, <3>6, <4>1
      <4> QED
        BY <2>3, <3>3, <3>4, <4>2
    <3>8. a # tmp => IsPrev(S, a, mem'[a + 16])
      <4>1. a # tmp => a + 16 # tmp + 16
        BY <1>1, <3>1
      <4>2. a # tmp => mem'[a + 16] = mem[a + 16]
        BY <1>1, <3>2, <3>5, <3>6, <4>1
      <4> QED
        BY <2>3, <3>3, <3>4, <4>2
    <3>9. a = last => IsNext(S, a, mem'[a + 8])
      BY <1>1, <2>3, <3>1
    <3>10. a = tmp => IsPrev(S, a, mem'[a + 16])
      BY <1>1, <2>3, <3>1
    <3> QED
      BY <3>7, <3>8, <3>9, <3>10
  <2> QED
    BY <1>1, <2>3, <2>4, <2>5 DEF S
<1>9. h \in S /\ \A a \in S : h <= a /\ a \in Int /\ h \in Int
  <2>1. S \subseteq Nat /\ addr \in S /\ (\A a \in S : a > NULL) /\ h \in Int
    BY <1>1, Layout, Typed, NullIs DEF IInv, S, h
  <2>2. h = NULL => \A c \in S : c <= NULL
    BY <1>8 DEF IsNext
  <2>3. h # NULL => h \in S /\ \A c \in S : c <= NULL \/ h <= c
    BY <1>8 DEF IsNext
  <2> QED
    BY <2>1, <2>2, <2>3, NullIs
<1>10. TypeOK'
  <2>1. h \in Addresses /\ S \subseteq Addresses \ {NULL}
    BY <1>1, <1>9 DEF S, IInv, TypeOK
  <2>2. /\ pc' \in {"idle", "fit"} /\ (pc' = "fit" => bytes' \in Requests)
        /\ tmp' \in {NULL, head'}
    BY <1>2 DEF IInv, TypeOK
  <2> QED
    BY <1>1, <1>2, <2>1, <2>2, NullIs DEF IInv, TypeOK, Addresses, BlockAddresses
<1>11. Once' /\ Aligned'
  <2>1. Once'
    BY <1>1, <1>2, <1>6 DEF IInv, Once, S
  <2> QED
    BY <1>5, <1>6, <2>1 DEF IInv, Aligned
<1>12. Returning' /\ AtNode'
  <2>1. pc' \in {"idle", "fit"} /\ (pc' = "fit" => tmp' = h)
    BY <1>2
  <2>2. h # NULL /\ \A a \in S : ~(a < h)
    BY <1>1, <1>9, Layout, Typed DEF IInv, S
  <2> QED
    BY <1>2, <1>9, <2>1, <2>2 DEF Returning, AtNode
<1>13. ListLinked'
  <2>1. pc' # "merge"
    BY <1>2
  <2> QED
    BY <1>2, <1>8, <2>1 DEF ListLinked, NextOf, PrevOf
<1>14. BlocksIntact'
  BY <1>2, <1>5 DEF BlocksIntact, HeaderIsSize, DataKept, OurBytes
<1>15. NewSizes
  BY <1>5, <1>6 DEF NewSizes, Amounts
<1> QED
  BY <1>7, <1>10, <1>11, <1>12, <1>13, <1>14, <1>15 DEF Step, IInv

-----------------------------------------------------------------------------
(* Two chunks become one *)

\* The node behind the one the loop is at, and what merging the two writes.
LEMMA MergeWrites ==
    ASSUME IInv, RoomForLinks, Merge,
           NEW next \in Int, next = NextOf(mem, tmp), NEW after \in Int, after = NextOf(mem, next)
    PROVE  /\ tmp \in nodes /\ next \in nodes /\ tmp < next /\ tmp + mem[tmp] = next
           /\ PrevOf(mem, next) = tmp
           /\ after = NULL \/ (after \in nodes /\ after # next /\ after # tmp)
           /\ mem' \in [Words -> Int]
           /\ mem'[tmp] = mem[tmp] + mem[next] /\ mem'[tmp + 8] = after
           /\ after # NULL => mem'[after + 16] = tmp
           /\ \A w \in Words : /\ w # tmp /\ w # tmp + 8
                               /\ after = NULL \/ w # after + 16
                               => mem'[w] = mem[w]
<1> DEFINE sum == mem[tmp] + mem[next]
           m1 == Store(mem, tmp, sum)
           m2 == Store(m1, tmp + 8, after)
<1>1. /\ tmp \in nodes /\ tmp + mem[tmp] = next /\ mem' = Set(m2, after, 16, tmp)
  BY DEF Merge, Adjacent, IInv, AtNode
<1>2. /\ tmp \in Chunks /\ tmp \in Nat /\ tmp > NULL /\ mem[tmp] \in Nat /\ mem[tmp] >= 24
      /\ tmp \in Words /\ tmp + 8 \in Words
  BY <1>1, Layout, Fields, Bounds, NullIs DEF Chunks, RoomForLinks, Listed
<1>3. next # NULL /\ tmp < next
  BY <1>1, <1>2, NullIs
<1>4. next \in nodes /\ next \in Chunks /\ mem[next] >= 24 /\ mem[next] \in Nat
  BY <1>1, <1>3, Links, Layout DEF Chunks, RoomForLinks, Listed
<1>5. after = NULL \/ (after \in nodes /\ next < after)
  BY <1>4, Links
<1>6. after # NULL => /\ after # next /\ after # tmp /\ after \in Chunks /\ mem[after] >= 24
                      /\ after + 16 \in Words
  BY <1>2, <1>3, <1>5, Fields DEF Chunks, RoomForLinks, Listed
<1>7. PrevOf(mem, next) = tmp
  <2> DEFINE p == PrevOf(mem, next)
  <2>1. IsPrev(nodes, next, p) /\ IsNext(nodes, tmp, next)
    BY <1>1, <1>4 DEF IInv, ListLinked
  <2>2. p \in Int /\ (p = NULL \/ p \in nodes)
    <3>1. p = NULL \/ p \in nodes
      BY <1>4, Links
    <3> HIDE DEF p
    <3> QED
      BY <3>1, Typed, NullIs DEF IInv
  <2> HIDE DEF p
  <2>3. p < next /\ (tmp <= p \/ next <= tmp)
    BY <1>1, <2>1 DEF IsPrev
  <2>4. p \in nodes => p <= tmp \/ next <= p
    BY <1>3, <2>1 DEF IsNext
  <2>5. p = tmp
    BY <1>2, <1>3, <2>2, <2>3, <2>4, NullIs
  <2> QED
    BY <2>5 DEF p
<1>8. /\ m1 \in [Words -> Int] /\ m1[tmp] = sum
      /\ \A w \in Words : w # tmp => m1[w] = mem[w]
  <2>1. mem \in [Words -> Int] /\ sum \in Int
    BY <1>2, <1>4, Typed DEF IInv
  <2> HIDE DEF sum
  <2> QED
    BY <1>2, <2>1, StoreIs
<1> HIDE DEF m1
<1>9. /\ m2 \in [Words -> Int] /\ m2[tmp + 8] = after
      /\ \A w \in Words : w # tmp + 8 => m2[w] = m1[w]
  BY <1>2, <1>8, StoreIs
<1> HIDE DEF m2
<1>10. /\ mem' \in [Words -> Int]
       /\ after # NULL => mem'[after + 16] = tmp
       /\ \A w \in Words : after = NULL \/ w # after + 16 => mem'[w] = m2[w]
  <2>1. mem' = Set(m2, after, 16, tmp) /\ 16 \in {8, 16} /\ tmp \in Int
    BY <1>1, <1>2
  <2>2. mem' \in [Words -> Int]
    BY <1>6, <1>9, <2>1, SetIs
  <2>3. after # NULL => mem'[after + 16] = tmp
    BY <1>6, <1>9, <2>1, SetIs
  <2>4. \A w \in Words : after = NULL \/ w # after + 16 => mem'[w] = m2[w]
    BY <1>6, <1>9, <2>1, SetIs
  <2> QED
    BY <2>2, <2>3, <2>4
<1>11. /\ tmp # tmp + 8
       /\ after # NULL => tmp # after + 16 /\ tmp + 8 # after + 16
  BY <1>2, <1>6, FieldsApart
<1>12. mem'[tmp] = sum /\ mem'[tmp + 8] = after
  BY <1>2, <1>8, <1>9, <1>10, <1>11
<1>13. \A w \in Words : /\ w # tmp /\ w # tmp + 8
                        /\ after = NULL \/ w # after + 16
                        => mem'[w] = mem[w]
  BY <1>8, <1>9, <1>10
<1> QED
  BY <1>1, <1>3, <1>4, <1>5, <1>6, <1>7, <1>10, <1>12, <1>13

LEMMA MergeStep ==
    ASSUME IInv, RoomForLinks, Merge
    PROVE  Step
<1> DEFINE next == NextOf(mem, tmp)
           after == NextOf(mem, next)
           W == {tmp, tmp + 8} \cup (IF after = NULL THEN {} ELSE {after + 16})
           sum == mem[tmp] + mem[next]
<1>1. /\ pc = "merge" /\ nodes' = nodes \ {next}
      /\ UNCHANGED <<head, brk, pieces, pc, bytes, tmp, last, addr, caller, ptr, live>>
  BY DEF Merge, locals
<1>2. next \in Int /\ after \in Int
  <2>1. tmp \in nodes /\ tmp + mem[tmp] = next
    BY DEF Merge, Adjacent, IInv, AtNode
  <2>2. next \in nodes
    <3>1. tmp \in Nat /\ tmp > NULL /\ mem[tmp] \in Nat
      BY <2>1, Layout, Bounds, NullIs DEF Chunks
    <3>2. next # NULL
      BY <2>1, <3>1, NullIs
    <3> QED
      BY <2>1, <3>2, Links
  <2>3. next = NULL \/ next \in nodes
    BY <2>1, Links
  <2>4. after = NULL \/ after \in nodes
    BY <2>2, Links
  <2> HIDE DEF next, after
  <2> QED
    BY <2>3, <2>4, NullIs, Typed DEF IInv
<1>3. /\ tmp \in nodes /\ next \in nodes /\ tmp < next /\ tmp + mem[tmp] = next
      /\ PrevOf(mem, next) = tmp
      /\ after = NULL \/ (after \in nodes /\ after # next /\ after # tmp)
      /\ mem' \in [Words -> Int]
      /\ mem'[tmp] = sum /\ mem'[tmp + 8] = after
      /\ after # NULL => mem'[after + 16] = tmp
      /\ \A w \in Words : /\ w # tmp /\ w # tmp + 8
                          /\ after = NULL \/ w # after + 16
                          => mem'[w] = mem[w]
  BY <1>2, MergeWrites
<1> HIDE DEF next, after
<1>4. /\ tmp \in Chunks /\ tmp \in Nat /\ tmp > NULL /\ mem[tmp] \in Nat /\ mem[tmp] >= 24
      /\ next \in Chunks /\ mem[next] \in Nat /\ mem[next] >= 24
      /\ after # NULL => after \in Chunks /\ mem[after] >= 24
      /\ tmp # next
  BY <1>2, <1>3, Layout, Bounds, NullIs DEF Chunks, RoomForLinks, Listed
<1>5. sum \in Nat /\ sum % 8 = 0
  <2>1. mem[tmp] % 8 = 0 /\ mem[next] % 8 = 0
    BY <1>4, Layout
  <2> QED
    BY <1>4, <2>1
<1> HIDE DEF sum
<1>6. \A a \in Chunks : a \in Words /\ (a # tmp => mem'[a] = mem[a])
  <2> SUFFICES ASSUME NEW a \in Chunks
               PROVE  a \in Words /\ a # tmp + 8 /\ (after # NULL => a # after + 16)
    BY <1>3
  <2> QED
    BY <1>4, Layout, FieldsApart
<1>7. /\ \A b \in live : mem'[b.ptr - 8] = ChunkSize(b.bytes)
      /\ \A b \in live : \A w \in WordsIn(b.ptr, b.ptr + b.bytes) : mem'[w] = Data
      /\ \A w \in WordsIn(Bottom, brk) : w \notin OurBytes => mem'[w] = Data
  <2>1. W \subseteq Int
    BY <1>2, <1>4
  <2>2. \A w \in W : \E a \in nodes \cup Pending : Inside(w, a)
    <3>1. Inside(tmp, tmp) /\ Inside(tmp + 8, tmp)
      BY <1>4, Fields
    <3>2. after # NULL => Inside(after + 16, after) /\ after \in nodes
      BY <1>3, <1>4, Fields
    <3> QED
      BY <1>3, <3>1, <3>2
  <2>3. \A w \in Words : w \notin W => mem'[w] = mem[w]
    BY <1>3
  <2>4. mem' \in [Words -> Int]
    BY <1>3
  <2> HIDE DEF W
  <2> QED
    BY <2>1, <2>2, <2>3, <2>4, Frame
<1>8. /\ Held' = Held /\ Pending = {} /\ Pending' = {} /\ Chunks' \subseteq Chunks
      /\ FreeAddrs = nodes /\ FreeAddrs' = nodes \ {next} /\ UsedAddrs = Held /\ UsedAddrs' = Held
  <2>1. Held' = Held /\ Pending = {} /\ Pending' = {}
    BY <1>1 DEF Held, Pending
  <2> QED
    BY <1>1, <2>1 DEF Chunks, FreeAddrs, UsedAddrs, Held
<1>9. FreeChunks' = (FreeChunks \ {ChunkAt(tmp), ChunkAt(next)}) \cup {[addr |-> tmp, size |-> sum]}
  <2>1. \A a \in nodes : a # tmp => mem'[a] = mem[a]
    BY <1>6 DEF Chunks
  <2>2. FreeChunks = {[addr |-> a, size |-> mem[a]] : a \in nodes}
    BY <1>8, Zenon DEF FreeChunks, ChunkAt
  <2>3. FreeChunks' = {[addr |-> a, size |-> mem'[a]] : a \in nodes \ {next}}
    BY <1>8, Zenon DEF FreeChunks, ChunkAt
  <2> QED
    BY <1>3, <1>4, <2>1, <2>2, <2>3 DEF ChunkAt
<1>10. UsedChunks' = UsedChunks
  <2>1. \A a \in Held : mem'[a] = mem[a]
    BY <1>3, <1>6 DEF Chunks, IInv, Once
  <2>2. UsedChunks = {[addr |-> a, size |-> mem[a]] : a \in Held}
    BY <1>8, Zenon DEF UsedChunks, ChunkAt
  <2>3. UsedChunks' = {[addr |-> a, size |-> mem'[a]] : a \in Held}
    BY <1>8, Zenon DEF UsedChunks, ChunkAt
  <2> QED
    BY <2>1, <2>2, <2>3
<1>11. HP!Merge(ChunkAt(tmp), ChunkAt(next))
  <2>1. ChunkAt(tmp) = [addr |-> tmp, size |-> mem[tmp]] /\ ChunkAt(next) = [addr |-> next, size |-> mem[next]]
    BY DEF ChunkAt
  <2>2. HP!End(ChunkAt(tmp)) = ChunkAt(next).addr
    BY <1>3, <2>1 DEF HP!End
  <2>3. [addr |-> ChunkAt(tmp).addr, size |-> ChunkAt(tmp).size + ChunkAt(next).size]
           = [addr |-> tmp, size |-> sum]
    BY <2>1 DEF sum
  <2>4. UNCHANGED <<UsedChunks, OurBytes, brk>>
    BY <1>1, <1>10 DEF OurBytes
  <2> QED
    BY <1>9, <2>2, <2>3, <2>4 DEF HP!Merge
<1>12. HP!Next
  <2>1. ChunkAt(tmp) \in FreeChunks /\ ChunkAt(next) \in FreeChunks
    BY <1>3, <1>8 DEF FreeChunks
  <2> QED
    BY <1>11, <2>1 DEF HP!Next
<1>13. HP!IInv'
  BY <1>12, HP!NextPreserves DEF IInv
<1>14. TypeOK'
  BY <1>1, <1>3 DEF IInv, TypeOK, Addresses, BlockAddresses
<1>15. Once' /\ Aligned'
  <2>1. Once'
    BY <1>1, <1>8 DEF IInv, Once
  <2>2. \A a \in Chunks' : mem'[a] % 8 = 0
    BY <1>3, <1>5, <1>6, <1>8 DEF IInv, Aligned
  <2> QED
    BY <2>1, <2>2 DEF Aligned
<1>16. Returning' /\ AtNode'
  BY <1>1, <1>3, <1>4 DEF Returning, AtNode
<1>17. ListLinked'
  <2>1. ASSUME NEW c \in nodes
        PROVE  /\ c # after => mem'[c + 16] = mem[c + 16]
               /\ c # tmp => mem'[c + 8] = mem[c + 8] /\ mem'[c] = mem[c]
    <3>1. c \in Chunks /\ mem[c] >= 24 /\ c \in Nat
      BY Layout DEF Chunks, RoomForLinks, Listed
    <3>2. c + 8 \in Words /\ c + 16 \in Words
      BY <3>1, Fields
    <3>3. /\ after # NULL => c + 8 # after + 16
          /\ c + 16 # tmp + 8 /\ tmp # c + 8 /\ tmp # c + 16
      BY <1>4, <3>1, FieldsApart
    <3>4. (c # after => c + 16 # after + 16) /\ (c # tmp => c + 8 # tmp + 8)
      BY <1>2, <1>4, <3>1
    <3> QED
      BY <1>3, <1>6, <3>1, <3>2, <3>3, <3>4
  <2>2. next # head
    BY <1>3, <1>4, HeadIsFirst
  <2>3. /\ IsNext(nodes \ {next}, NULL, IF next = head THEN after ELSE head)
        /\ \A c \in nodes \ {next} : /\ IsNext(nodes \ {next}, c, NextOf(mem', c))
                                     /\ IsPrev(nodes \ {next}, c, PrevOf(mem', c))
    <3>1. after = NextOf(mem, next) /\ tmp = PrevOf(mem, next) /\ tmp \in Int
      BY <1>3, <1>4 DEF after
    <3>2. after # NULL => mem'[after + 16] = tmp
      BY <1>3
    <3>3. tmp # NULL => mem'[tmp + 8] = after
      BY <1>3
    <3>4. \A c \in nodes \ {next} : /\ c # after => mem'[c + 16] = mem[c + 16]
                                    /\ c # tmp => mem'[c + 8] = mem[c + 8]
      BY <2>1
    <3>5. next \in nodes /\ after \in Int
      BY <1>2, <1>3
    <3> QED
      BY <3>1, <3>2, <3>3, <3>4, <3>5, StillLinked
  <2>4. ASSUME NEW a \in nodes \ {next}, tmp = NULL \/ a < tmp
        PROVE  a + mem'[a] # NextOf(mem', a)
    <3>1. a # tmp /\ a < tmp
      BY <1>4, <2>4, NullIs
    <3>2. mem'[a] = mem[a] /\ NextOf(mem', a) = NextOf(mem, a)
      BY <2>1, <3>1 DEF NextOf
    <3>3. a + mem[a] # NextOf(mem, a)
      BY <1>1, <3>1 DEF IInv, ListLinked
    <3> QED
      BY <3>2, <3>3
  <2> QED
    BY <1>1, <2>2, <2>3, <2>4 DEF ListLinked
<1>18. BlocksIntact'
  BY <1>1, <1>7 DEF BlocksIntact, HeaderIsSize, DataKept, OurBytes
<1>19. NewSizes
  <2>1. \A a \in Chunks : mem[a] \in Amounts
    BY DEF Amounts
  <2>2. mem'[tmp] = mem[tmp] + mem[next]
    BY <1>3 DEF sum
  <2> QED
    BY <1>4, <1>6, <1>8, <2>1, <2>2 DEF NewSizes
<1> QED
  BY <1>12, <1>13, <1>14, <1>15, <1>16, <1>17, <1>18, <1>19 DEF Step, IInv

-----------------------------------------------------------------------------
(* All together *)

LEMMA InitIs == Init => IInv /\ HP!Init
<1> SUFFICES ASSUME Init PROVE IInv /\ HP!Init
  OBVIOUS
<1>1. Chunks = {} /\ FreeChunks = {} /\ UsedChunks = {} /\ OurBytes = {}
  BY DEF Init, Chunks, Held, Pending, FreeChunks, FreeAddrs, UsedChunks, UsedAddrs, OurBytes
<1>2. HP!Init
  BY <1>1, Bounds DEF Init, HP!Init
<1>3. HP!IInv
  BY <1>2, HP!InitEstablishes
<1>4. TypeOK
  BY Bounds, NullIs DEF Init, TypeOK, Addresses
<1>5. Once /\ Aligned /\ Returning /\ AtNode
  BY <1>1 DEF Init, Once, Aligned, Returning, AtNode, Held, Pending
<1>6. ListLinked
  BY DEF Init, ListLinked, IsNext
<1>7. BlocksIntact
  <2>1. WordsIn(Bottom, brk) = {}
    BY Bounds DEF Init, WordsIn, Words
  <2> QED
    BY <2>1 DEF Init, BlocksIntact, HeaderIsSize, DataKept
<1> QED
  BY <1>2, <1>3, <1>4, <1>5, <1>6, <1>7 DEF IInv

\* Nothing happens when nothing changes.
LEMMA StutterStep ==
    ASSUME IInv, UNCHANGED vars
    PROVE  Step
<1> USE DEF vars, heap, locals
<1>1. Chunks' = Chunks /\ FreeAddrs' = FreeAddrs /\ UsedAddrs' = UsedAddrs
  BY DEF Chunks, Held, Pending, FreeAddrs, UsedAddrs
<1>2. HP!IInv' /\ UNCHANGED HP!vars
  BY <1>1, Stutters
<1>3. TypeOK'
  BY DEF IInv, TypeOK, Addresses, BlockAddresses
<1>4. Once' /\ Aligned' /\ Returning' /\ AtNode'
  BY <1>1 DEF IInv, Once, Aligned, Returning, AtNode, Held, Pending, size
<1>5. ListLinked' /\ BlocksIntact'
  BY DEF IInv, ListLinked, NextOf, PrevOf, BlocksIntact, HeaderIsSize, DataKept, OurBytes
<1>6. NewSizes
  BY <1>1 DEF NewSizes, Amounts
<1> QED
  BY <1>2, <1>3, <1>4, <1>5, <1>6 DEF Step, IInv

\* Every step but one: carving may leave too little.
LEMMA NextStep ==
    ASSUME IInv, RoomForLinks, [Next]_vars, Carve => mem[tmp] - size >= 24
    PROVE  Step
<1>1. CASE Calls
  BY <1>1, MallocStep, FreeStep, CoalesceStep, OtherSbrkStep DEF Calls
<1>2. CASE Loops
  BY <1>2, TooSmallStep, CarveStep, RemoveStep, SbrkStep, BelowStep, InsertStep, MergeStep,
     NotAdjacentStep, AllMergedStep DEF Loops
<1>3. CASE Give
  BY <1>3, GiveStep
<1>4. CASE UNCHANGED vars
  BY <1>4, StutterStep
<1> QED
  BY <1>1, <1>2, <1>3, <1>4 DEF Next

\* When there is room afterwards, carving has left enough.
LEMMA CarvingLeavesRoom ==
    ASSUME IInv, RoomForLinks', Carve
    PROVE  mem[tmp] - size >= 24
<1> DEFINE left == mem[tmp] - size
<1>1. tmp \in nodes /\ mem'[tmp] = left
  BY CarveWrites
<1>2. nodes' = nodes
  BY DEF Carve
<1> HIDE DEF left
<1>3. left >= 24
  BY <1>1, <1>2 DEF RoomForLinks, Listed
<1> QED
  BY <1>3 DEF left

LEMMA Preserved ==
    ASSUME IInv, RoomForLinks, RoomForLinks', [Next]_vars
    PROVE  IInv' /\ [HP!Next]_HP!vars
BY NextStep, CarvingLeavesRoom DEF Step

-----------------------------------------------------------------------------
(* The theorems *)

\* While chunks on the free list have room for their links, the invariant is inductive.
THEOREM MallocInvariant == Spec /\ []RoomForLinks => []IInv
BY InitIs, Preserved, PTL DEF Spec

\* Pointers are aligned, and lead to where there is something.
THEOREM TypeCorrect == Spec /\ []RoomForLinks => []TypeOK
BY MallocInvariant, PTL DEF IInv

\* What callers rely on: the size in front of a block and the bytes in it stay as they
\* are until it is freed, and the memory of others is left alone.
THEOREM BlocksStayIntact == Spec /\ []RoomForLinks => []BlocksIntact
BY MallocInvariant, PTL DEF IInv

\* The free list is in order and linked both ways, before and after every turn of each
\* of the loops, and coalesce_free_list() leaves no neighbours behind it.
THEOREM ListStaysLinked == Spec /\ []RoomForLinks => []ListLinked
BY MallocInvariant, PTL DEF IInv

\* The allocator implements Heap.tla, and so, by the theorems about that, cuts up what it
\* got from sbrk() without losing a byte or handing one out twice.
THEOREM MallocImplementsHeap == Spec /\ []RoomForLinks => ImplementsHeap
<1>1. HP!Init => H!Init
  BY Zenon DEF HP!Init, H!Init
<1>2. [HP!Next]_HP!vars => [H!Next]_H!vars
  BY Zenon DEF HP!Next, HP!vars, HP!Carve, HP!Grow, HP!Free, HP!Merge, HP!OtherGrows,
               HP!Back, HP!Front, HP!Bytes, HP!End, H!Next, H!vars, H!Carve, H!Grow, H!Free,
               H!Merge, H!OtherGrows, H!Back, H!Front, H!Bytes, H!End
<1> QED
  BY <1>1, <1>2, InitIs, Preserved, MallocInvariant, PTL DEF Spec, ImplementsHeap, H!Spec

\* There is room for the links in every run of the program, without any further
\* assumption, when callers only ask for sizes of a set that is closed under the sums and
\* differences of its members, none of them below 24: multiples of 24 or of 32, say, the
\* page among them.
THEOREM RoomIsLeft ==
    ASSUME NEW CONSTANT Sizes, Sizes \subseteq Nat, \A s \in Sizes : s >= 24,
           \A s, t \in Sizes : s + t \in Sizes /\ (s > t => s - t \in Sizes),
           Page \in Sizes, \A n \in Requests : ChunkSize(n) \in Sizes
    PROVE  Spec => []RoomForLinks
<1> DEFINE InSizes == \A a \in Chunks : mem[a] \in Sizes
<1>1. Init => IInv /\ InSizes
  <2>1. Init => Chunks = {}
    BY DEF Init, Chunks, Held, Pending
  <2> QED
    BY <2>1, InitIs
<1>2. IInv /\ InSizes => RoomForLinks
  BY DEF RoomForLinks, Listed, Chunks, Pending
<1>3. ASSUME IInv, InSizes, [Next]_vars
      PROVE  IInv' /\ InSizes'
  <2>1. \A a \in Chunks : mem[a] \in Sizes
    BY <1>3
  <2>2. bytes \in Requests => size \in Sizes /\ SbrkSize(size) \in Sizes
    BY DEF size, SbrkSize
  <2>3. Carve => mem[tmp] - size >= 24
    <3> SUFFICES ASSUME Carve PROVE mem[tmp] - size >= 24
      OBVIOUS
    <3>1. tmp \in Chunks /\ bytes \in Requests /\ mem[tmp] > size
      BY <1>3 DEF Carve, IInv, TypeOK, AtNode, Chunks
    <3>2. mem[tmp] - size \in Sizes
      BY <2>1, <2>2, <3>1
    <3> QED
      BY <3>2
  <2>4. Step
    BY <1>2, <1>3, <2>3, NextStep
  <2>5. Amounts \subseteq Sizes
    BY <2>1, <2>2 DEF Amounts
  <2>6. \A a \in Chunks' : mem'[a] \in Sizes
    BY <2>4, <2>5 DEF Step, NewSizes
  <2> QED
    BY <2>4, <2>6 DEF Step
<1> HIDE DEF InSizes
<1> QED
  BY <1>1, <1>2, <1>3, PTL DEF Spec
=============================================================================
