----------------------------- MODULE HeapProofs -----------------------------
(* However requests, frees, merges and the sbrk() calls of others        *)
(* alternate, the chunks tile what was got from sbrk(): no byte is lost and  *)
(* none is handed out twice.                                                 *)
EXTENDS Heap, TLAPS

\* What is owned ends before the heap does.
Below == \A b \in owned : b < top

IInv == TypeOK /\ Tiled /\ Below

-----------------------------------------------------------------------------
(* Cutting a chunk in two *)

\* The two parts of a chunk that is carved are chunks, apart, and cover it.
LEMMA CutInTwo ==
    ASSUME NEW c \in Chunk, NEW n \in Nat \ {0}, c.size >= n
    PROVE  /\ Back(c, n) \in Chunk
           /\ Front(c, n) \subseteq Chunk
           /\ Back(c, n) \notin Front(c, n)
           /\ \A f \in Front(c, n) : Apart(f, Back(c, n)) /\ Apart(Back(c, n), f)
           /\ BytesOf(Front(c, n) \cup {Back(c, n)}) = Bytes(c)
<1> DEFINE f == [addr |-> c.addr, size |-> c.size - n]
           b == Back(c, n)
<1>1. c.addr \in Nat /\ c.size \in Nat /\ c.size - n \in Nat
  BY DEF Chunk
<1>2. b \in Chunk /\ b.addr = c.addr + c.size - n /\ b.size = n
  BY <1>1 DEF Back, Chunk
<1>3. f.addr = c.addr /\ f.size = c.size - n /\ (f.size > 0 => f \in Chunk)
  BY <1>1 DEF Chunk
<1>4. Front(c, n) = IF f.size > 0 THEN {f} ELSE {}
  BY DEF Front
<1>5. Bytes(b) = c.addr + c.size - n .. c.addr + c.size - 1
  BY <1>1, <1>2 DEF Bytes, End
<1>6. Bytes(f) = c.addr .. c.addr + c.size - n - 1
  BY <1>1, <1>3 DEF Bytes, End
<1>7. Bytes(c) = c.addr .. c.addr + c.size - 1
  BY <1>1 DEF Bytes, End
<1>8. Apart(f, b) /\ Apart(b, f)
  BY <1>1, <1>2, <1>3 DEF Apart, End
<1>9. b \notin Front(c, n)
  BY <1>1, <1>2, <1>3, <1>4
<1> HIDE DEF f, b
<1>10. CASE f.size > 0
  <2>1. Bytes(f) \cup Bytes(b) = Bytes(c)
    BY <1>1, <1>5, <1>6, <1>7
  <2>2. BytesOf({f} \cup {b}) = Bytes(f) \cup Bytes(b)
    BY DEF BytesOf
  <2> QED
    BY <1>2, <1>3, <1>4, <1>8, <1>9, <1>10, <2>1, <2>2 DEF b
<1>11. CASE ~(f.size > 0)
  <2>1. c.size = n
    BY <1>1, <1>3, <1>11
  <2>2. Bytes(b) = Bytes(c)
    BY <1>1, <1>5, <1>7, <2>1
  <2>3. BytesOf({} \cup {b}) = Bytes(b)
    BY DEF BytesOf
  <2> QED
    BY <1>2, <1>4, <1>8, <1>9, <1>11, <2>2, <2>3 DEF b
<1> QED
  BY <1>10, <1>11

\* A part of a chunk is apart from whatever the chunk is apart from.
LEMMA PartsStayApart ==
    ASSUME NEW c \in Chunk, NEW d \in Chunk, NEW n \in Nat \ {0}, c.size >= n,
           Apart(c, d)
    PROVE  \A p \in Front(c, n) \cup {Back(c, n)} :
              Apart(p, d) /\ Apart(d, p) /\ p # d
<1> SUFFICES ASSUME NEW p \in Front(c, n) \cup {Back(c, n)}
             PROVE  Apart(p, d) /\ Apart(d, p) /\ p # d
  OBVIOUS
<1>1. c.addr \in Nat /\ c.size \in Nat /\ d.addr \in Nat /\ d.size \in Nat \ {0}
  BY DEF Chunk
<1>2. /\ p.addr >= c.addr /\ p.addr + p.size <= c.addr + c.size
      /\ p.size > 0 /\ p.addr \in Nat /\ p.size \in Nat
  BY <1>1 DEF Front, Back
<1> QED
  BY <1>1, <1>2 DEF Apart, End

\* Replacing a chunk by its two parts keeps a tiling one.
LEMMA Replace ==
    ASSUME NEW S, S \subseteq Chunk, Disjoint(S),
           NEW c \in S, NEW n \in Nat \ {0}, c.size >= n,
           NEW P, P = Front(c, n) \cup {Back(c, n)}
    PROVE  /\ P \cap (S \ {c}) = {}
           /\ Disjoint((S \ {c}) \cup P)
           /\ BytesOf((S \ {c}) \cup P) = BytesOf(S)
<1>1. \A d \in S \ {c} : \A p \in P : Apart(p, d) /\ Apart(d, p) /\ p # d
  BY PartsStayApart DEF Disjoint
<1>2. \A p, q \in P : p # q => Apart(p, q)
  <2>1. \A f, g \in Front(c, n) : f = g
    BY DEF Front
  <2> QED
    BY <2>1, CutInTwo
<1>3. BytesOf((S \ {c}) \cup P) = BytesOf(S \ {c}) \cup BytesOf(P)
  BY DEF BytesOf
<1>4. BytesOf(S) = BytesOf(S \ {c}) \cup Bytes(c)
  BY DEF BytesOf
<1>5. BytesOf(P) = Bytes(c)
  BY CutInTwo
<1>6. Disjoint((S \ {c}) \cup P)
  BY <1>1, <1>2 DEF Disjoint
<1> QED
  BY <1>1, <1>3, <1>4, <1>5, <1>6

\* Chunks are apart when they share no byte, and only then.
LEMMA ApartIsNoSharedByte ==
    ASSUME NEW c \in Chunk, NEW d \in Chunk
    PROVE  Apart(c, d) <=> Bytes(c) \cap Bytes(d) = {}
<1>1. c.addr \in Nat /\ c.size \in Nat \ {0} /\ d.addr \in Nat /\ d.size \in Nat \ {0}
  BY DEF Chunk
<1>2. ASSUME Apart(c, d) PROVE Bytes(c) \cap Bytes(d) = {}
  BY <1>1, <1>2 DEF Apart, Bytes, End
<1>3. ASSUME ~Apart(c, d) PROVE Bytes(c) \cap Bytes(d) # {}
  <2>1. CASE c.addr <= d.addr
    <3> d.addr \in Bytes(c) /\ d.addr \in Bytes(d)
      BY <1>1, <1>3, <2>1 DEF Apart, Bytes, End
    <3> QED  OBVIOUS
  <2>2. CASE d.addr <= c.addr
    <3> c.addr \in Bytes(c) /\ c.addr \in Bytes(d)
      BY <1>1, <1>3, <2>2 DEF Apart, Bytes, End
    <3> QED  OBVIOUS
  <2> QED
    BY <1>1, <2>1, <2>2
<1> QED
  BY <1>2, <1>3

\* A chunk has a byte.
LEMMA FirstByte == ASSUME NEW c \in Chunk PROVE c.addr \in Bytes(c)
<1>1. c.addr \in Nat /\ c.size \in Nat \ {0}
  BY DEF Chunk
<1> QED
  BY <1>1 DEF Bytes, End

-----------------------------------------------------------------------------
(* One lemma per action *)

LEMMA CarvePreserves ==
    ASSUME IInv, NEW n, Carve(n)
    PROVE  IInv'
<1>1. PICK c \in free :
          /\ c.size >= n
          /\ free' = (free \ {c}) \cup Front(c, n)
          /\ used' = used \cup {Back(c, n)}
  BY DEF Carve
<1> DEFINE S == free \cup used
           P == Front(c, n) \cup {Back(c, n)}
<1>2. n \in Nat \ {0} /\ owned' = owned /\ top' = top
  BY DEF Carve
<1>3. S \subseteq Chunk /\ c \in S /\ Disjoint(S) /\ free \cap used = {} /\ BytesOf(S) = owned
  BY DEF IInv, TypeOK, Tiled
<1>4. /\ P \cap (S \ {c}) = {}
      /\ Disjoint((S \ {c}) \cup P)
      /\ BytesOf((S \ {c}) \cup P) = BytesOf(S)
  <2>1. P = Front(c, n) \cup {Back(c, n)}
    OBVIOUS
  <2> HIDE DEF S, P
  <2> QED
    BY <1>1, <1>2, <1>3, <2>1, Replace
<1>5. free' \cup used' = (S \ {c}) \cup P
  BY <1>1, <1>3
<1>6. free' \cap used' = {}
  <2>1. Back(c, n) \notin Front(c, n)
    BY <1>1, <1>2, <1>3, CutInTwo
  <2> QED
    BY <1>1, <1>3, <1>4, <2>1
<1>7. TypeOK'
  <2>1. P \subseteq Chunk
    BY <1>1, <1>2, <1>3, CutInTwo
  <2> QED
    BY <1>1, <1>2, <2>1 DEF IInv, TypeOK
<1>8. Tiled'
  <2> HIDE DEF S, P
  <2> QED
    BY <1>2, <1>3, <1>4, <1>5, <1>6 DEF Tiled
<1> QED
  BY <1>2, <1>7, <1>8 DEF IInv, Below

LEMMA GrowPreserves ==
    ASSUME IInv, NEW n, Grow(n)
    PROVE  IInv'
<1> DEFINE c == [addr |-> top, size |-> top' - top]
           S == free \cup used
<1>1. /\ n \in Nat \ {0} /\ top' \in Nat /\ top' >= top + n
      /\ owned' = owned \cup Bytes(c)
      /\ free' = free \cup {c} /\ used' = used
  BY DEF Grow
<1>2. /\ S \subseteq Chunk /\ Disjoint(S) /\ free \cap used = {} /\ BytesOf(S) = owned
      /\ top \in Nat /\ Below
  BY DEF IInv, TypeOK, Tiled
<1>3. c \in Chunk /\ c.addr = top /\ c.size = top' - top /\ c.size >= n /\ End(c) = top'
  <2>0. n \in Nat \ {0} /\ top' \in Nat /\ top' >= top + n /\ top \in Nat
    BY <1>1, <1>2
  <2>1. top' - top \in Nat \ {0} /\ top' - top >= n /\ top + (top' - top) = top'
    <3>1. \A t, u \in Nat : \A k \in Nat \ {0} :
             u >= t + k => u - t \in Nat \ {0} /\ u - t >= k /\ t + (u - t) = u
      OBVIOUS
    <3> QED
      BY <2>0, <3>1
  <2>2. c.addr = top /\ c.size = top' - top
    OBVIOUS
  <2>3. c \in Chunk
    BY <1>2, <2>1 DEF Chunk
  <2> QED
    BY <2>1, <2>2, <2>3 DEF End
<1> HIDE DEF c
<1>4. \A b \in Bytes(c) : b \in Nat /\ top <= b /\ b < top'
  <2>1. Bytes(c) = top .. top' - 1
    BY <1>3 DEF Bytes
  <2> QED
    BY <1>1, <1>2, <2>1
<1>5. \A d \in S : Apart(c, d) /\ Apart(d, c)
  <2> SUFFICES ASSUME NEW d \in S PROVE Apart(c, d) /\ Apart(d, c)
    OBVIOUS
  <2>1. \A b \in Bytes(d) : b \in owned
    BY <1>2 DEF BytesOf
  <2>2. Bytes(c) \cap Bytes(d) = {}
    <3> SUFFICES ASSUME NEW b \in Bytes(c), b \in Bytes(d) PROVE FALSE
      OBVIOUS
    <3> b < top
      BY <1>2, <2>1 DEF Below
    <3> QED
      BY <1>2, <1>4
  <2>3. d \in Chunk
    BY <1>2
  <2> QED
    BY <1>3, <2>2, <2>3, ApartIsNoSharedByte
<1>6. c \notin S
  <2> SUFFICES ASSUME c \in S PROVE FALSE
    OBVIOUS
  <2>1. c.addr \in owned
    BY <1>2, <1>3, FirstByte DEF BytesOf
  <2> QED
    BY <1>2, <1>3, <2>1 DEF Below
<1>7. Disjoint(S \cup {c}) /\ BytesOf(S \cup {c}) = owned'
  <2>1. BytesOf(S \cup {c}) = BytesOf(S) \cup Bytes(c)
    BY DEF BytesOf
  <2>2. Disjoint(S \cup {c})
    BY <1>2, <1>5 DEF Disjoint
  <2> QED
    BY <1>1, <1>2, <2>1, <2>2
<1>8. free' \cup used' = S \cup {c} /\ free' \cap used' = {}
  BY <1>1, <1>2, <1>6
<1>9. TypeOK'
  BY <1>1, <1>2, <1>3, <1>4 DEF IInv, TypeOK
<1>10. Tiled'
  <2> HIDE DEF S
  <2> QED
    BY <1>7, <1>8 DEF Tiled
<1>11. Below'
  <2>1. owned \subseteq Nat
    BY DEF IInv, TypeOK
  <2> QED
    BY <1>1, <1>2, <1>4, <2>1 DEF Below
<1> QED
  BY <1>9, <1>10, <1>11 DEF IInv

LEMMA FreePreserves ==
    ASSUME IInv, NEW c \in used, Free(c)
    PROVE  IInv'
<1>1. free' \cup used' = free \cup used /\ free' \cap used' = {}
  BY DEF IInv, Tiled, Free
<1> QED
  BY <1>1 DEF IInv, TypeOK, Tiled, Below, Free

\* A chunk and the one that begins where it ends are, together, a chunk.
LEMMA JoinTwo ==
    ASSUME NEW c \in Chunk, NEW d \in Chunk, End(c) = d.addr,
           NEW e, e = [addr |-> c.addr, size |-> c.size + d.size]
    PROVE  e \in Chunk /\ Bytes(e) = Bytes(c) \cup Bytes(d) /\ c # d
<1>1. c.addr \in Nat /\ c.size \in Nat \ {0} /\ d.addr \in Nat /\ d.size \in Nat \ {0}
      /\ d.addr = c.addr + c.size
  BY DEF Chunk, End
<1>2. e.addr = c.addr /\ e.size = c.size + d.size /\ e \in Chunk
  BY <1>1 DEF Chunk
<1>3. /\ Bytes(e) = c.addr .. c.addr + c.size + d.size - 1
      /\ Bytes(c) = c.addr .. c.addr + c.size - 1
      /\ Bytes(d) = c.addr + c.size .. c.addr + c.size + d.size - 1
  BY <1>1, <1>2 DEF Bytes, End
<1>4. \A k, l \in Nat : \A m, n \in Nat \ {0} :
         l = k + m => k .. k + m + n - 1 = (k .. k + m - 1) \cup (l .. l + n - 1)
  OBVIOUS
<1>5. Bytes(e) = Bytes(c) \cup Bytes(d)
  BY <1>1, <1>3, <1>4
<1>6. c # d
  BY <1>1
<1> QED
  BY <1>2, <1>5, <1>6

LEMMA MergePreserves ==
    ASSUME IInv, NEW c \in free, NEW d \in free, Merge(c, d)
    PROVE  IInv'
<1> DEFINE e == [addr |-> c.addr, size |-> c.size + d.size]
           R == (free \cup used) \ {c, d}
<1>1. /\ free' = (free \ {c, d}) \cup {e} /\ used' = used /\ owned' = owned /\ top' = top
      /\ End(c) = d.addr
  BY DEF Merge
<1>2. /\ free \subseteq Chunk /\ used \subseteq Chunk /\ Disjoint(free \cup used)
      /\ free \cap used = {} /\ BytesOf(free \cup used) = owned
  BY DEF IInv, TypeOK, Tiled
<1>3. e \in Chunk /\ Bytes(e) = Bytes(c) \cup Bytes(d)
  BY <1>1, <1>2, JoinTwo
<1> HIDE DEF e
<1>4. ASSUME NEW x \in R
      PROVE  Apart(e, x) /\ Apart(x, e) /\ x # e
  <2>1. x \in Chunk /\ c \in Chunk /\ d \in Chunk /\ Apart(c, x) /\ Apart(d, x)
    BY <1>2 DEF Disjoint
  <2>2. Bytes(e) \cap Bytes(x) = {}
    BY <1>3, <2>1, ApartIsNoSharedByte
  <2> QED
    BY <1>3, <2>1, <2>2, ApartIsNoSharedByte, FirstByte
<1>5. free' \cup used' = R \cup {e} /\ free' \cap used' = {}
  <2>1. c \notin used /\ d \notin used /\ used \subseteq R
    BY <1>2
  <2>2. e \notin used
    BY <1>4, <2>1
  <2>3. free' \cup used' = R \cup {e}
    BY <1>1, <2>1
  <2> QED
    BY <1>1, <1>2, <2>2, <2>3
<1>6. Disjoint(R \cup {e})
  BY <1>2, <1>4 DEF Disjoint
<1>7. BytesOf(R \cup {e}) = owned
  <2>1. BytesOf(R \cup {e}) = BytesOf(R) \cup Bytes(e)
    BY DEF BytesOf
  <2>2. BytesOf(free \cup used) = BytesOf(R) \cup Bytes(c) \cup Bytes(d)
    BY DEF BytesOf
  <2> QED
    BY <1>2, <1>3, <2>1, <2>2
<1>8. Tiled'
  <2> HIDE DEF R
  <2> QED
    BY <1>1, <1>5, <1>6, <1>7 DEF Tiled
<1> QED
  BY <1>1, <1>2, <1>3, <1>8 DEF IInv, TypeOK, Below

-----------------------------------------------------------------------------

LEMMA InitEstablishes == Init => IInv
  BY DEF Init, IInv, TypeOK, Tiled, Below, Disjoint, BytesOf

LEMMA NextPreserves ==
    ASSUME IInv, [Next]_vars
    PROVE  IInv'
<1>1. CASE \E n \in ChunkSizes : Carve(n) \/ Grow(n)
  BY <1>1, CarvePreserves, GrowPreserves
<1>2. CASE \E c \in used : Free(c)
  BY <1>2, FreePreserves
<1>3. CASE \E c, d \in free : Merge(c, d)
  BY <1>3, MergePreserves
<1>4. CASE OtherGrows
  <2>1. \A b \in owned : b \in Nat
    BY DEF IInv, TypeOK
  <2> QED
    BY <1>4, <2>1 DEF OtherGrows, IInv, TypeOK, Tiled, Below
<1>5. CASE UNCHANGED vars
  BY <1>5 DEF vars, IInv, TypeOK, Tiled, Below
<1> QED
  BY <1>1, <1>2, <1>3, <1>4, <1>5 DEF Next

\* The tiling, with the types and the end of the heap it rests on, is
\* inductive.
THEOREM Invariant == Spec => []IInv
BY InitEstablishes, NextPreserves, PTL DEF Spec

\* The chunks my_malloc() hands out and keeps cut up the bytes it got from
\* sbrk(): none is lost, and no byte is handed out twice.
THEOREM NoByteLost == Spec => []Tiled
BY Invariant, PTL DEF IInv

\* A byte of a block handed out is a byte got from sbrk(), and of no other.
THEOREM BlocksAreApart ==
    Spec => [](\A c, d \in used : c # d => Bytes(c) \cap Bytes(d) = {})
<1>1. IInv => \A c, d \in used : c # d => Bytes(c) \cap Bytes(d) = {}
  BY ApartIsNoSharedByte DEF IInv, TypeOK, Tiled, Disjoint
<1> QED
  BY <1>1, Invariant, PTL
=============================================================================
