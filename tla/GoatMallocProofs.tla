-------------------------- MODULE GoatMallocProofs --------------------------
(***************************************************************************)
(* Proofs about GoatMalloc, for every page, header and request size, as    *)
(* long as no call splits a chunk in the middle of the list: the list      *)
(* tiles the arena, the client's chunks are kept, coalescing is complete   *)
(* and walloc is first fit.                                                *)
(***************************************************************************)
EXTENDS GoatMalloc, TLAPS

\* There is an arena exactly while allocator is initialised, and walloc is
\* called only then.
ArenaExists ==
  /\ Initialised => head = 0
  /\ ~Initialised => chunks = {} /\ live = {} /\ ~Searching

\* No chunk reaches beyond the arena.
InArena == \A c \in chunks : End(c) <= totalAllocatedSize

\* While walloc searches, no chunk before the one it is at is good enough, and
\* the client's call is still one that splits no chunk in the middle.
SearchedInOrder ==
  Searching =>
    /\ SplitsLastOnly(request)
    /\ \A c \in chunks : c < temp => ~Fits(c, request)

\* ArenaTiled alone is not inductive: what a free does to the list depends on
\* who is free, and what a split does on where the search stands.
IInv ==
  /\ TypeOK
  /\ ArenaExists
  /\ ArenaTiled
  /\ InArena
  /\ LiveChunksKept
  /\ Coalesced
  /\ SearchedInOrder

USE DEF NULL, ERR_OUT_OF_MEMORY, ERR_UNINITIALIZED, Addresses, End, node_t,
        chunks
-----------------------------------------------------------------------------
(* Facts about the list. *)

\* What a header holds, and that a chunk ends after it begins.
LEMMA ChunkType ==
  ASSUME TypeOK, NEW c \in chunks
  PROVE  /\ c \in 0 .. MaxArena - 1 /\ MaxArena \in Nat
         /\ node[c] \in node_t /\ node[c].size \in Nat
         /\ node[c].is_free \in {0, 1}
         /\ node[c].fwd \in Int /\ node[c].bwd \in Int
         /\ End(c) \in Nat /\ c < End(c)
         /\ StructSize \in Nat \ {0}
  BY SizesAssumption DEF TypeOK

\* Chunks lie one after the other: where one is, no other begins.
LEMMA NothingInside ==
  ASSUME IInv, Initialised, NEW c \in chunks, NEW d \in chunks
  PROVE  /\ c < d => End(c) <= d
         /\ ~(c < d /\ d < End(c))
         /\ c < d \/ c = d \/ d < c
  BY ChunkType DEF IInv, ArenaTiled

\* The chunk before one, and the chunk after it.
LEMMA Neighbours ==
  ASSUME IInv, Initialised, NEW c \in chunks
  PROVE  /\ node[c].fwd # NULL => /\ node[c].fwd \in chunks
                                  /\ node[c].fwd = End(c)
                                  /\ node[node[c].fwd].bwd = c
         /\ node[c].fwd = NULL => End(c) = totalAllocatedSize
         /\ node[c].bwd # NULL => /\ node[c].bwd \in chunks
                                  /\ c = End(node[c].bwd)
                                  /\ node[node[c].bwd].fwd = c
  BY ChunkType DEF IInv, ArenaTiled

\* The chunk with no fwd is the last one of the arena.
LEMMA LastChunk ==
  ASSUME IInv, Initialised, NEW t \in chunks, node[t].fwd = NULL,
         NEW c \in chunks, c # t
  PROVE  End(c) <= t /\ c < t
  <1>1. End(t) = totalAllocatedSize /\ End(c) <= totalAllocatedSize
    BY Neighbours DEF IInv, InArena
  <1> QED  BY <1>1, ChunkType, NothingInside DEF IInv
-----------------------------------------------------------------------------
(* init and destroy. *)

LEMMA InitIInv == Init => IInv
  BY SizesAssumption
     DEF Init, IInv, TypeOK, ArenaExists, ArenaTiled, InArena, LiveChunksKept,
         Coalesced, SearchedInOrder, Initialised, Searching

LEMMA InitArenaIInv ==
  ASSUME IInv, NEW size \in InitSizes, InitArena(size)
  PROVE  IInv'
  <1>. DEFINE n == ArenaSize(size)
              first == [size |-> n - StructSize, is_free |-> 1,
                        fwd |-> NULL, bwd |-> NULL]
  <1>1. n \in PageSize .. MaxArena /\ n > StructSize /\ n \in Nat
        /\ StructSize \in Nat \ {0}
    BY SizesAssumption
  <1>2. /\ node' = [a \in {0} |-> first]
        /\ chunks' = {0}
        /\ totalAllocatedSize' = n /\ head' = 0 /\ statusno' = 0
        /\ UNCHANGED <<temp, request, live>>
    BY DEF InitArena, search
  <1>. HIDE DEF n
  <1>3. first \in node_t /\ node'[0] = first
    BY <1>1, <1>2
  <1>4. live' = {} /\ temp' = NULL
    BY <1>2 DEF IInv, ArenaExists, InitArena, Searching
  <1>5. TypeOK'
    BY <1>1, <1>2, <1>3, <1>4, SizesAssumption DEF IInv, TypeOK
  <1>6. ArenaExists' /\ InArena' /\ SearchedInOrder'
    BY <1>1, <1>2, <1>3, <1>4
       DEF ArenaExists, InArena, SearchedInOrder, Searching, Initialised
  <1>7. ArenaTiled' /\ LiveChunksKept' /\ Coalesced'
    BY <1>1, <1>2, <1>3, <1>4 DEF ArenaTiled, LiveChunksKept, Coalesced
  <1> QED  BY <1>5, <1>6, <1>7 DEF IInv

LEMMA DestroyIInv == ASSUME IInv, Destroy PROVE IInv'
  <1>1. chunks' = {} /\ live' = {} /\ UNCHANGED <<temp, request>>
        /\ node' = [a \in {} |-> 0]
    BY DEF Destroy, search
  <1> QED
    BY <1>1, SizesAssumption
       DEF Destroy, Idle, IInv, TypeOK, ArenaExists, ArenaTiled, InArena,
           LiveChunksKept, Coalesced, SearchedInOrder, Initialised, Searching
-----------------------------------------------------------------------------
(* walloc. *)

LEMMA WallocCallIInv ==
  ASSUME ~MiddleSplits, IInv, NEW n \in RequestSizes, WallocCall(n)
  PROVE  IInv'
  <1>1. UNCHANGED <<statusno, head, totalAllocatedSize, node, live>>
        /\ temp' = 0 /\ request' = n /\ n \in Nat /\ SplitsLastOnly(n)
        /\ Initialised
    BY SizesAssumption DEF WallocCall, arena, Idle, IInv, ArenaExists
  <1>2. 0 \in chunks
    BY <1>1 DEF IInv, ArenaExists, ArenaTiled
  <1>3. TypeOK'
    BY <1>1, <1>2 DEF IInv, TypeOK
  <1>4. ArenaExists' /\ ArenaTiled' /\ InArena' /\ LiveChunksKept' /\ Coalesced'
    BY <1>1 DEF IInv, ArenaExists, ArenaTiled, InArena, LiveChunksKept,
                Coalesced, Initialised, Searching
  <1>5. SearchedInOrder'
    BY <1>1 DEF IInv, TypeOK, SearchedInOrder, SplitsLastOnly, Fits, Splits
  <1> QED  BY <1>3, <1>4, <1>5 DEF IInv

LEMMA WallocNextIInv == ASSUME IInv, WallocNext PROVE IInv'
  <1>1. UNCHANGED <<statusno, head, totalAllocatedSize, node, request, live>>
        /\ temp' = node[temp].fwd
    BY DEF WallocNext, arena
  <1>2. /\ Initialised /\ temp \in chunks
        /\ temp' \in chunks /\ temp' = End(temp)
    BY <1>1 DEF WallocNext, Searching, IInv, ArenaExists, ArenaTiled, TypeOK
  <1>3. TypeOK'
    BY <1>1, <1>2 DEF IInv, TypeOK
  <1>4. ArenaExists' /\ ArenaTiled' /\ InArena' /\ LiveChunksKept' /\ Coalesced'
    BY <1>1, <1>2 DEF IInv, ArenaExists, ArenaTiled, InArena, LiveChunksKept,
                Coalesced, Initialised, Searching
  <1>5. ASSUME NEW c \in chunks, c < temp' PROVE ~Fits(c, request)
    <2>1. c < temp \/ c = temp
      <3>1. /\ temp < c => End(temp) <= c
            /\ c < temp \/ c = temp \/ temp < c
        BY <1>2, NothingInside
      <3>2. c \in Nat /\ temp' \in Nat /\ c < temp' /\ temp' = End(temp)
        BY <1>2, <1>5, ChunkType DEF IInv
      <3>. HIDE DEF End
      <3> QED  BY <3>1, <3>2
    <2> QED  BY <2>1 DEF WallocNext, IInv, SearchedInOrder
  <1>6. SearchedInOrder'
    BY <1>1, <1>2, <1>5
       DEF WallocNext, IInv, SearchedInOrder, SplitsLastOnly, Fits, Splits
  <1> QED  BY <1>3, <1>4, <1>6 DEF IInv

LEMMA WallocFailsIInv == ASSUME IInv, WallocFails PROVE IInv'
  BY DEF WallocFails, IInv, TypeOK, ArenaExists, ArenaTiled, InArena,
         LiveChunksKept, Coalesced, SearchedInOrder, Initialised, Searching

LEMMA WallocWholeIInv == ASSUME IInv, WallocWhole PROVE IInv'
  <1>. USE SizesAssumption DEF IInv
  <1>1. /\ Initialised /\ temp \in chunks
        /\ node[temp].is_free = 1
    BY DEF WallocWhole, Fits, Searching, ArenaExists, TypeOK
  <1>2. /\ chunks' = chunks
        /\ \A c \in chunks :
             /\ node'[c].size = node[c].size
             /\ node'[c].fwd = node[c].fwd
             /\ node'[c].bwd = node[c].bwd
             /\ node'[c].is_free = IF c = temp THEN 0 ELSE node[c].is_free
        /\ node' \in [chunks -> node_t]
    BY <1>1 DEF WallocWhole, TypeOK
  <1>3. /\ UNCHANGED <<statusno, head, totalAllocatedSize>>
        /\ live' = live \cup {temp} /\ temp' = NULL /\ request' = 0
    BY DEF WallocWhole, WallocReturns, arena
  <1>4. TypeOK' /\ ArenaExists' /\ InArena' /\ SearchedInOrder'
    BY <1>1, <1>2, <1>3
       DEF TypeOK, ArenaExists, InArena, SearchedInOrder, Initialised, Searching
  <1>5. ArenaTiled'
    BY <1>1, <1>2, <1>3 DEF ArenaTiled, Initialised
  <1>6. \A c \in chunks : End(c)' = End(c)
    BY <1>2
  <1>7. LiveChunksKept'
    <2>1. live' = {c \in chunks' : node'[c].is_free = 0}
      BY <1>1, <1>2, <1>3 DEF LiveChunksKept
    <2>2. \A c, d \in chunks : c # d => End(c) <= d \/ End(d) <= c
      BY <1>1, NothingInside
    <2>3. live' \subseteq chunks
      BY <1>2, <2>1
    <2>. HIDE DEF End
    <2> QED  BY <1>2, <1>6, <2>1, <2>2, <2>3 DEF LiveChunksKept
  <1>8. Coalesced'
    <2>1. \A c \in chunks : node[c].is_free = 0 => node'[c].is_free = 0
      BY <1>2
    <2>. HIDE DEF End
    <2> QED  BY <1>2, <1>6, <2>1 DEF Coalesced
  <1> QED  BY <1>4, <1>5, <1>7, <1>8

\* The split chunk is the last one: what is behind it is the rest.
LEMMA WallocSplitIInv == ASSUME IInv, WallocSplit PROVE IInv'
  <1>. USE SizesAssumption DEF IInv
  <1>. SUFFICES ASSUME NEW t, t = temp,
                       NEW new, new = t + StructSize + request,
                       NEW rest, rest = node[t].size - request - StructSize
                PROVE  IInv'
    OBVIOUS
  <1>1. /\ Initialised /\ t \in chunks /\ t \in Nat /\ request \in Nat
        /\ node[t].is_free = 1 /\ node[t].fwd = NULL
        /\ node[t].size \in Nat /\ node[t].size > request + StructSize
    <2>1. Initialised /\ t \in chunks /\ request \in Nat
      BY DEF WallocSplit, Searching, ArenaExists, TypeOK
    <2>2. t \in Nat /\ node[t].size \in Nat
      BY <2>1, ChunkType
    <2>3. /\ node[t].is_free = 1
          /\ node[t].size - request > StructSize
          /\ node[t].fwd = NULL
      BY <2>1 DEF WallocSplit, Fits, Splits, SearchedInOrder, SplitsLastOnly
    <2> QED  BY <2>1, <2>2, <2>3
  <1>2. /\ End(t) = totalAllocatedSize /\ new + StructSize + rest = End(t)
        /\ rest \in Nat \ {0} /\ new \in Nat /\ t < new /\ new < End(t)
        /\ totalAllocatedSize \in 0 .. MaxArena
    BY <1>1, Neighbours DEF TypeOK
  <1>3. \A c \in chunks : c # t => End(c) <= t /\ c < t
    BY <1>1, LastChunk
  <1>4. new \notin chunks
    BY <1>1, <1>2, <1>3
  <1>5. /\ chunks' = chunks \cup {new}
        /\ node' = [a \in chunks \cup {new} |->
             IF a = t
             THEN [node[a] EXCEPT !.size = request, !.is_free = 0, !.fwd = new]
             ELSE IF a = new
             THEN [size |-> rest, is_free |-> 1, fwd |-> NULL, bwd |-> t]
             ELSE node[a]]
    BY <1>1 DEF WallocSplit
  <1>6. /\ UNCHANGED <<statusno, head, totalAllocatedSize>>
        /\ live' = live \cup {t} /\ temp' = NULL /\ request' = 0
    BY DEF WallocSplit, WallocReturns, arena
  <1>7. /\ node'[t] = [node[t] EXCEPT !.size = request, !.is_free = 0, !.fwd = new]
        /\ node'[new] = [size |-> rest, is_free |-> 1, fwd |-> NULL, bwd |-> t]
        /\ \A c \in chunks : c # t => node'[c] = node[c] /\ c # new
    BY <1>1, <1>2, <1>4, <1>5
  <1>8. TypeOK'
    <2>1. new \in Addresses /\ t \in Addresses
      BY <1>1, <1>2, ChunkType
    <2>2. node'[t] \in node_t
      BY <1>1, <1>7, <2>1, ChunkType
    <2>3. node'[new] \in node_t
      BY <1>2, <1>7, <2>1
    <2>4. ASSUME NEW c \in chunks' PROVE node'[c] \in node_t
      <3>1. CASE c = t  BY <2>2, <3>1
      <3>2. CASE c = new  BY <2>3, <3>2
      <3>3. CASE c # t /\ c # new
        <4>1. c \in chunks /\ node'[c] = node[c]
          BY <1>5, <1>7, <3>3
        <4> QED  BY <4>1, ChunkType
      <3> QED  BY <3>1, <3>2, <3>3
    <2>5. node' \in [chunks' -> node_t]
      <3>1. node' = [c \in chunks' |-> node'[c]]
        BY <1>5
      <3>. HIDE DEF node_t, chunks
      <3> QED  BY <2>4, <3>1
    <2>6. chunks' \subseteq Addresses
      BY <1>5, <2>1, ChunkType
    <2>7. live' \subseteq chunks'
      BY <1>1, <1>5, <1>6 DEF TypeOK
    <2> QED  BY <1>6, <2>5, <2>6, <2>7 DEF TypeOK
  <1>9. ArenaExists' /\ SearchedInOrder'
    BY <1>1, <1>6 DEF ArenaExists, SearchedInOrder, Initialised, Searching
  <1>10. /\ chunks' = chunks \cup {new}
         /\ \A c \in chunks : c # t => node'[c] = node[c]
         /\ node'[t].size = request
         /\ node'[t].fwd = new /\ node'[t].is_free = 0
         /\ node'[t].bwd = node[t].bwd
         /\ node'[new].size = rest /\ node'[new].is_free = 1
         /\ node'[new].fwd = NULL /\ node'[new].bwd = t
    <2>1. chunks' = chunks \cup {new} /\ \A c \in chunks : c # t => node'[c] = node[c]
      BY <1>5, <1>7
    <2>2. /\ node'[t].size = request
          /\ node'[t].fwd = new /\ node'[t].is_free = 0
          /\ node'[t].bwd = node[t].bwd
      BY <1>1, <1>7, ChunkType
    <2>3. /\ node'[new].size = rest /\ node'[new].is_free = 1
          /\ node'[new].fwd = NULL /\ node'[new].bwd = t
      BY <1>7
    <2> QED  BY <2>1, <2>2, <2>3
  <1>16. /\ End(t) = totalAllocatedSize
         /\ t + StructSize + node'[t].size = new
         /\ new + StructSize + node'[new].size = totalAllocatedSize
         /\ new # t /\ new # NULL /\ t # NULL
    BY <1>1, <1>2, <1>10
  <1>11. InArena'
    <2>. SUFFICES ASSUME NEW c \in chunks' PROVE End(c)' <= totalAllocatedSize
      BY <1>6 DEF InArena
    <2>1. CASE c = t  BY <1>2, <1>16, <2>1
    <2>2. CASE c = new  BY <1>2, <1>16, <2>2
    <2>3. CASE c # t /\ c # new  BY <1>10, <2>3 DEF InArena
    <2> QED  BY <2>1, <2>2, <2>3
  <1>12. ASSUME NEW c \in chunks', NEW d \in chunks', c < d PROVE (End(c) <= d)'
    <2>1. CASE c = t
      <3>1. d = new
        BY <1>3, <1>10, <1>12, <1>1, <2>1, ChunkType
      <3> QED  BY <1>2, <1>16, <2>1, <3>1
    <2>2. CASE c = new
      BY <1>2, <1>3, <1>10, <1>12, <1>1, <2>2, ChunkType
    <2>3. CASE c # t /\ c # new
      <3>1. c \in chunks /\ End(c)' = End(c) /\ End(c) <= t
        BY <1>3, <1>10, <2>3
      <3>2. CASE d = new
        BY <1>2, <1>1, <3>1, <3>2, ChunkType
      <3>3. CASE d # new
        BY <1>1, <1>10, <1>12, <3>1, <3>3, NothingInside
      <3> QED  BY <3>2, <3>3
    <2> QED  BY <2>1, <2>2, <2>3
  <1>17. ASSUME NEW c \in chunks, c # t
         PROVE  /\ node[c].fwd # NULL /\ node[c].fwd \in chunks
                /\ node[c].fwd = End(c)
                /\ node[node[c].fwd].bwd = c
                /\ node[c].bwd # t
                /\ node[c].bwd # NULL => /\ node[c].bwd \in chunks
                                         /\ node[node[c].bwd].fwd = c
    <2>1. node[c].fwd # NULL
      BY <1>1, <1>2, <1>3, <1>17, Neighbours, ChunkType
    <2> QED  BY <1>1, <1>3, <1>17, <2>1, Neighbours, ChunkType
  <1>13. ArenaTiled'
    <2>1. head' = 0 /\ 0 \in chunks' /\ Initialised'
      BY <1>1, <1>6, <1>10 DEF ArenaExists, ArenaTiled, Initialised
    <2>2. \A c \in chunks : node[c].bwd = NULL <=> c = 0
      BY <1>1 DEF ArenaTiled, ArenaExists
    <2>. SUFFICES ASSUME NEW c \in chunks'
                  PROVE  /\ node'[c].fwd = NULL => End(c)' = totalAllocatedSize
                         /\ node'[c].fwd # NULL => /\ node'[c].fwd = End(c)'
                                                   /\ node'[c].fwd \in chunks'
                                                   /\ node'[node'[c].fwd].bwd = c
                         /\ node'[c].bwd = NULL <=> c = 0
                         /\ node'[c].bwd # NULL => /\ node'[c].bwd \in chunks'
                                                   /\ node'[node'[c].bwd].fwd = c
      BY <1>6, <1>12, <2>1 DEF ArenaTiled
    <2>3. CASE c = new
      BY <1>1, <1>2, <1>10, <1>16, <2>3
    <2>4. CASE c = t
      <3>1. node[t].bwd # NULL => /\ node[t].bwd \in chunks
                                 /\ node[t].bwd # t /\ node[node[t].bwd].fwd = t
        BY <1>1, Neighbours, ChunkType
      <3> QED  BY <1>1, <1>10, <1>16, <2>2, <2>4, <3>1
    <2>5. CASE c # t /\ c # new
      BY <1>1, <1>10, <1>17, <2>2, <2>5
    <2> QED  BY <2>3, <2>4, <2>5
  <1>14. LiveChunksKept'
    <2>1. live' = {c \in chunks' : node'[c].is_free = 0}
      BY <1>1, <1>4, <1>6, <1>10 DEF LiveChunksKept
    <2>2. \A c, d \in chunks' : c < d \/ c = d \/ d < c
      BY <1>1, <1>2, <1>10, ChunkType
    <2> QED  BY <1>12, <2>1, <2>2 DEF LiveChunksKept
  <1>15. Coalesced'
    <2>. SUFFICES ASSUME NEW c \in chunks', NEW d \in chunks', End(c)' = d
                  PROVE  node'[c].is_free = 0 \/ node'[d].is_free = 0
      BY DEF Coalesced
    <2>1. CASE c = t  BY <1>10, <2>1
    <2>2. CASE c = new
      BY <1>2, <1>3, <1>10, <1>16, <1>1, <2>2, ChunkType
    <2>3. CASE c # t /\ c # new
      <3>1. c \in chunks /\ End(c) = d /\ End(c) <= t
        BY <1>3, <1>10, <2>3
      <3>2. d \in chunks
        BY <1>2, <1>1, <1>10, <3>1, ChunkType
      <3>3. node[c].is_free = 0 \/ node[d].is_free = 0
        BY <3>1, <3>2 DEF Coalesced
      <3> QED  BY <1>10, <2>3, <3>1, <3>2, <3>3
    <2> QED  BY <2>1, <2>2, <2>3
  <1> QED  BY <1>8, <1>9, <1>11, <1>13, <1>14, <1>15
-----------------------------------------------------------------------------
(* wfree. *)

\* What the four cases of wfree have in common: into becomes one free chunk
\* that ends where gone ends, and its neighbours are taken.
LEMMA CoalesceIInv ==
  ASSUME IInv, NEW c \in live, WfreeCall(c),
         NEW into \in chunks, NEW gone \in SUBSET chunks, into \notin gone,
         NEW next \in chunks \cup {NULL}, next \notin gone, next # into,
         NEW size \in Nat,
         gone = {d \in chunks : into < d /\ d < into + StructSize + size},
         IF next = NULL THEN into + StructSize + size = totalAllocatedSize
                        ELSE into + StructSize + size = next,
         c \in gone \cup {into},
         \A d \in gone \cup {into} : d # c => node[d].is_free = 1,
         next # NULL => node[next].is_free = 0,
         node[into].bwd # NULL => node[node[into].bwd].is_free = 0,
         Coalesce(into, gone, next, size)
  PROVE  IInv'
  <1>. USE SizesAssumption DEF IInv
  <1>. DEFINE e == into + StructSize + size
  <1>1. /\ Initialised /\ temp = NULL
        /\ UNCHANGED <<statusno, head, totalAllocatedSize, temp, request>>
        /\ live' = live \ {c}
    BY DEF WfreeCall, Idle, Searching, arena, search
  <1>2. /\ chunks' = chunks \ gone
        /\ node'[into] = [size |-> size, is_free |-> 1, fwd |-> next,
                          bwd |-> node[into].bwd]
        /\ next # NULL => node'[next] = [node[next] EXCEPT !.bwd = into]
        /\ \A d \in chunks \ gone : d # into /\ d # next => node'[d] = node[d]
    <2>1. node' = [a \in chunks \ gone |->
            IF a = into
            THEN [node[a] EXCEPT !.size = size, !.is_free = 1, !.fwd = next]
            ELSE IF a = next THEN [node[a] EXCEPT !.bwd = into] ELSE node[a]]
      BY DEF Coalesce
    <2>2. node'[into] = [node[into] EXCEPT !.size = size, !.is_free = 1, !.fwd = next]
      BY <2>1
    <2>3. node[into] \in node_t
      BY DEF TypeOK
    <2>4. node'[into] = [size |-> size, is_free |-> 1, fwd |-> next,
                         bwd |-> node[into].bwd]
      BY <2>2, <2>3
    <2>5. /\ chunks' = chunks \ gone
          /\ next # NULL => node'[next] = [node[next] EXCEPT !.bwd = into]
          /\ \A d \in chunks \ gone : d # into /\ d # next => node'[d] = node[d]
      BY <2>1
    <2> QED  BY <2>4, <2>5
  <1>3. /\ into \in Nat /\ e \in Nat /\ into < e /\ e <= totalAllocatedSize
        /\ End(into)' = e
        /\ totalAllocatedSize \in Nat
    BY <1>1, <1>2 DEF TypeOK, InArena
  <1>4. \A d \in chunks \ gone : d # into => d \in Nat /\ End(d)' = End(d)
    BY <1>2 DEF TypeOK
  <1>5. \A d \in chunks \ gone : d < into \/ d = into \/ e <= d
    BY <1>3 DEF TypeOK
  <1>6. TypeOK'
    <2>1. \A d \in chunks' : node'[d] \in node_t
      <3>1. into \in Addresses /\ next \in Addresses \cup {NULL}
        BY ChunkType
      <3> QED  BY <1>2, <3>1, ChunkType
    <2>2. live' \subseteq chunks'
      BY <1>1, <1>2 DEF TypeOK, LiveChunksKept
    <2>3. node' \in [chunks' -> node_t]
      BY <2>1 DEF Coalesce
    <2> QED  BY <1>1, <1>2, <2>2, <2>3 DEF TypeOK
  <1>. HIDE DEF e
  <1>7. ArenaExists' /\ SearchedInOrder'
    BY <1>1 DEF ArenaExists, SearchedInOrder, Initialised, Searching
  <1>8. InArena'
    BY <1>1, <1>2, <1>3, <1>4 DEF InArena
  <1>9. \A d1, d2 \in chunks' : d1 < d2 => (End(d1) <= d2)'
    <2>. SUFFICES ASSUME NEW d1 \in chunks', NEW d2 \in chunks', d1 < d2
                  PROVE  End(d1)' <= d2
      OBVIOUS
    <2>1. CASE d1 = into
      BY <2>1, <1>2, <1>3, <1>5, ChunkType
    <2>2. CASE d1 # into
      <3>1. d1 \in chunks /\ d2 \in chunks /\ d1 \notin gone
        BY <1>2
      <3>2. End(d1)' = End(d1)
        BY <1>4, <2>2, <3>1
      <3>3. End(d1) <= d2
        BY <1>1, <3>1, NothingInside
      <3> QED  BY <3>2, <3>3
    <2> QED  BY <2>1, <2>2
  <1>10. ASSUME NEW d \in chunks', d # into
         PROVE  /\ node[d].fwd \notin gone
                /\ node[d].bwd # NULL /\ d # next =>
                     node[d].bwd \notin gone \cup {into}
                /\ d = next => node[d].bwd \in gone \cup {into}
                /\ End(d) <= into \/ e <= d
    <2>1. d \in chunks /\ d \notin gone /\ d \in Nat /\ d < End(d)
      BY <1>2, <1>10, ChunkType
    <2>2. d < into \/ e <= d
      BY <1>5, <1>10, <2>1
    <2>3. End(d) <= into \/ e <= d
      BY <1>1, <2>1, <2>2, NothingInside
    <2>4. \A g \in gone : into < g /\ g < e /\ g \in Nat /\ g \in chunks
      BY ChunkType DEF e
    <2>5. node[d].fwd \notin gone
      <3>. SUFFICES ASSUME node[d].fwd \in gone PROVE FALSE
        OBVIOUS
      <3>1. node[d].fwd # NULL /\ node[d].fwd = End(d)
        BY <1>1, <1>3, <2>1, <2>4, Neighbours
      <3> QED  BY <1>3, <2>1, <2>3, <2>4, <3>1
    <2>6. ASSUME node[d].bwd \in gone \cup {into} PROVE d = next
      <3>1. /\ node[d].bwd \in chunks /\ node[d].bwd \in Nat
            /\ into <= node[d].bwd /\ node[d].bwd < e
            /\ End(node[d].bwd) = d /\ node[d].bwd < d
        BY <1>1, <1>3, <2>1, <2>4, <2>6, Neighbours, ChunkType
      <3>2. e <= d
        BY <1>3, <2>1, <2>3, <3>1, ChunkType
      <3>3. next # NULL /\ next = e
        <4>1. End(d) <= totalAllocatedSize /\ d < End(d) /\ End(d) \in Nat
          BY <2>1, ChunkType DEF InArena
        <4> QED  BY <1>3, <2>1, <3>2, <4>1 DEF e
      <3>4. ~(next < d)
        BY <1>1, <2>1, <3>1, <3>3, NothingInside
      <3> QED  BY <1>3, <2>1, <3>2, <3>3, <3>4
    <2>7. ASSUME d = next PROVE node[d].bwd \in gone \cup {into}
      <3>1. d = e /\ d # NULL /\ into < d
        BY <1>3, <2>1, <2>7 DEF e
      <3>2. node[d].bwd # NULL
        BY <1>1, <1>3, <2>1, <3>1, ChunkType DEF ArenaTiled, ArenaExists
      <3>3. /\ node[d].bwd \in chunks /\ End(node[d].bwd) = d
            /\ node[d].bwd < d /\ node[d].bwd \in Nat
        BY <1>1, <2>1, <3>2, Neighbours, ChunkType
      <3>4. ~(node[d].bwd < into)
        BY <1>1, <1>3, <3>1, <3>3, NothingInside
      <3> QED  BY <1>3, <3>1, <3>3, <3>4 DEF e
    <2> QED  BY <2>3, <2>5, <2>6, <2>7
  <1>11. ArenaTiled'
    <2>1. head' = 0 /\ 0 \in chunks' /\ Initialised'
      BY <1>1, <1>2, <1>3 DEF ArenaExists, ArenaTiled, Initialised
    <2>2. \A d \in chunks : node[d].bwd = NULL <=> d = 0
      BY <1>1 DEF ArenaTiled, ArenaExists
    <2>3. next # NULL => next \in chunks' /\ node'[next].bwd = into
                         /\ node'[next].fwd = node[next].fwd
      BY <1>2, ChunkType
    <2>. SUFFICES ASSUME NEW d \in chunks'
                  PROVE  /\ node'[d].fwd = NULL => End(d)' = totalAllocatedSize
                         /\ node'[d].fwd # NULL => /\ node'[d].fwd = End(d)'
                                                   /\ node'[d].fwd \in chunks'
                                                   /\ node'[node'[d].fwd].bwd = d
                         /\ node'[d].bwd = NULL <=> d = 0
                         /\ node'[d].bwd # NULL => /\ node'[d].bwd \in chunks'
                                                   /\ node'[node'[d].bwd].fwd = d
      BY <1>1, <1>9, <2>1 DEF ArenaTiled
    <2>4. CASE d = into
      <3>1. /\ node'[d].fwd = next /\ node'[d].bwd = node[d].bwd
            /\ node[d].bwd # NULL => /\ node[d].bwd \in chunks
                                     /\ node[node[d].bwd].fwd = d
                                     /\ node[d].bwd < into
        BY <1>1, <1>2, <2>4, Neighbours, ChunkType
      <3>2. node[d].bwd # NULL => /\ node[d].bwd \in chunks'
                                 /\ node'[node[d].bwd].fwd = d
        BY <1>2, <1>3, <2>3, <2>4, <3>1, ChunkType
      <3> QED  BY <1>3, <2>2, <2>3, <2>4, <3>1, <3>2 DEF e
    <2>5. CASE d # into
      <3>1. /\ d \in chunks /\ d \notin gone /\ node'[d].fwd = node[d].fwd
            /\ d # next => node'[d].bwd = node[d].bwd
            /\ d = next => node'[d].bwd = into
            /\ End(d)' = End(d)
        BY <1>2, <1>4, <2>3, <2>5
      <3>2. node[d].fwd # NULL =>
              /\ node[d].fwd = End(d) /\ node[d].fwd \in chunks'
              /\ node'[node[d].fwd].bwd = d
        <4>. SUFFICES ASSUME node[d].fwd # NULL
                      PROVE  /\ node[d].fwd = End(d) /\ node[d].fwd \in chunks'
                             /\ node'[node[d].fwd].bwd = d
          OBVIOUS
        <4>1. /\ node[d].fwd = End(d) /\ node[d].fwd \in chunks'
              /\ node[node[d].fwd].bwd = d
          BY <1>1, <1>2, <1>10, <2>5, <3>1, Neighbours
        <4>2. node[d].fwd # next
          BY <1>2, <1>10, <2>3, <2>5, <3>1, <4>1
        <4> QED  BY <1>2, <4>1, <4>2
      <3>3. CASE d = next
        BY <1>1, <1>2, <1>3, <2>2, <2>5, <3>1, <3>2, <3>3, ChunkType, Neighbours
      <3>4. CASE d # next
        <4>1. node[d].bwd # NULL =>
                /\ node[d].bwd \in chunks' /\ node[d].bwd # into
                /\ node[node[d].bwd].fwd = d
          BY <1>1, <1>2, <1>10, <2>5, <3>1, <3>4, Neighbours
        <4>2. node[d].bwd # NULL => node'[node[d].bwd].fwd = d
          BY <1>2, <2>3, <4>1
        <4> QED  BY <1>1, <2>2, <3>1, <3>2, <3>4, <4>1, <4>2, Neighbours
      <3> QED  BY <3>3, <3>4
    <2> QED  BY <2>4, <2>5
  <1>12. LiveChunksKept'
    BY <1>1, <1>2, <1>9, <1>3, <1>4 DEF LiveChunksKept, TypeOK
  <1>13. Coalesced'
    <2>. SUFFICES ASSUME NEW d1 \in chunks', NEW d2 \in chunks', End(d1)' = d2
                  PROVE  node'[d1].is_free = 0 \/ node'[d2].is_free = 0
      BY DEF Coalesced
    <2>1. ASSUME NEW d \in chunks'
          PROVE  /\ d \in chunks /\ d \notin gone
                 /\ d # into => node'[d].is_free = node[d].is_free
      BY <1>2, ChunkType
    <2>2. CASE d1 = into
      <3>1. d2 = e /\ d2 # into /\ d2 \in chunks /\ d2 < totalAllocatedSize
        BY <1>3, <2>1, <2>2, ChunkType DEF InArena
      <3>2. d2 = next
        BY <1>3, <3>1 DEF e
      <3> QED  BY <2>1, <3>1, <3>2, ChunkType
    <2>3. CASE d1 # into
      <3>1. d1 \in chunks /\ d1 \notin gone /\ d2 \in chunks
        BY <2>1
      <3>4. End(d1)' = End(d1)
        BY <1>4, <2>3, <3>1
      <3>5. End(d1) = d2
        BY <3>4
      <3>2. CASE d2 = into
        <4>1. node[into].bwd = d1
          <5>1. node[d1].fwd # NULL
            <6>1. End(into) <= totalAllocatedSize /\ into < End(into)
              BY ChunkType DEF InArena
            <6> QED  BY <1>1, <1>3, <3>1, <3>2, <3>5, <6>1, Neighbours, ChunkType
          <5> QED  BY <1>1, <3>1, <3>2, <3>5, <5>1, Neighbours
        <4>2. node[d1].is_free = 0
          BY <3>1, <4>1, ChunkType
        <4> QED  BY <2>1, <2>3, <4>2
      <3>3. CASE d2 # into
        BY <2>1, <2>3, <3>1, <3>5, <3>3 DEF Coalesced
      <3> QED  BY <3>2, <3>3
    <2> QED  BY <2>2, <2>3
  <1> QED  BY <1>6, <1>7, <1>8, <1>11, <1>12, <1>13

\* What the pointers of a chunk the client holds lead to.
LEMMA LiveChunk ==
  ASSUME IInv, NEW c \in live, WfreeCall(c)
  PROVE  /\ Initialised /\ c \in chunks /\ c \in Nat
         /\ node[c].is_free = 0 /\ node[c].size \in Nat
         /\ \A d \in chunks : MayBeKept(d) <=> node[d].is_free = 0
         /\ \A d \in chunks : d # NULL
         /\ MayBeKept(NULL) /\ ~MayBeFree(NULL)
         /\ \A d \in chunks : MayBeFree(d) <=> node[d].is_free = 1
  BY DEF IInv, LiveChunksKept, WfreeCall, Idle, TypeOK, MayBeKept, MayBeFree

LEMMA WfreeBothIInv ==
  ASSUME IInv, NEW c \in live, WfreeBoth(c)
  PROVE  IInv'
  <1>. USE SizesAssumption
  <1>. DEFINE b    == node[c].bwd
              f    == node[c].fwd
              next == node[f].fwd
              size == node[b].size + node[c].size + node[f].size + 2 * StructSize
              gone == {c, f}
  <1>1. WfreeCall(c) /\ MayBeFree(b) /\ MayBeFree(f)
        /\ Coalesce(b, gone, next, size)
    BY DEF WfreeBoth
  <1>2. /\ b \in chunks /\ node[b].is_free = 1 /\ c = End(b)
        /\ f \in chunks /\ node[f].is_free = 1 /\ f = End(c)
    BY <1>1, LiveChunk, Neighbours DEF MayBeFree
  <1>3. /\ b \in Nat /\ c \in Nat /\ f \in Nat /\ b < c /\ c < f
        /\ node[b].size \in Nat /\ node[c].size \in Nat /\ node[f].size \in Nat
    BY <1>1, <1>2, LiveChunk DEF IInv, TypeOK
  <1>4. size \in Nat /\ b + StructSize + size = End(f)
    BY <1>2, <1>3
  <1>5. gone = {d \in chunks : b < d /\ d < End(f)}
    BY <1>1, <1>2, <1>3, LiveChunk, NothingInside DEF IInv
  <1>6. /\ next \in chunks \cup {NULL}
        /\ next # NULL => End(f) = next /\ node[next].is_free = 0
        /\ next = NULL => End(f) = totalAllocatedSize
    BY <1>1, <1>2, LiveChunk, Neighbours DEF IInv, Coalesced, TypeOK
  <1>7. next \notin gone /\ next # b
    BY <1>3, <1>6
  <1>8. node[b].bwd # NULL => node[node[b].bwd].is_free = 0
    BY <1>1, <1>2, LiveChunk, Neighbours DEF IInv, Coalesced, TypeOK
  <1>. HIDE DEF b, f, next, size, gone, chunks, End, node_t, NULL
  <1>9. gone \in SUBSET chunks /\ b \notin gone /\ c \in gone \cup {b}
        /\ \A d \in gone \cup {b} : d # c => node[d].is_free = 1
    BY <1>1, <1>2, <1>3, LiveChunk DEF gone
  <1> QED  BY <1>1, <1>2, <1>4, <1>5, <1>6, <1>7, <1>8, <1>9, CoalesceIInv

LEMMA WfreeBwdIInv ==
  ASSUME IInv, NEW c \in live, WfreeBwd(c)
  PROVE  IInv'
  <1>. USE SizesAssumption
  <1>. DEFINE b    == node[c].bwd
              next == node[c].fwd
              size == node[b].size + node[c].size + StructSize
              gone == {c}
  <1>1. WfreeCall(c) /\ MayBeFree(b) /\ MayBeKept(next)
        /\ Coalesce(b, gone, next, size)
    BY DEF WfreeBwd
  <1>2. b \in chunks /\ node[b].is_free = 1 /\ c = End(b)
    BY <1>1, LiveChunk, Neighbours DEF MayBeFree
  <1>3. /\ b \in Nat /\ c \in Nat /\ b < c
        /\ node[b].size \in Nat /\ node[c].size \in Nat
    BY <1>1, <1>2, LiveChunk DEF IInv, TypeOK
  <1>4. size \in Nat /\ b + StructSize + size = End(c)
    BY <1>2, <1>3
  <1>5. gone = {d \in chunks : b < d /\ d < End(c)}
    BY <1>1, <1>2, <1>3, LiveChunk, NothingInside DEF IInv
  <1>6. /\ next \in chunks \cup {NULL}
        /\ next # NULL => End(c) = next /\ node[next].is_free = 0
        /\ next = NULL => End(c) = totalAllocatedSize
    BY <1>1, <1>2, LiveChunk, Neighbours
  <1>7. next \notin gone /\ next # b
    BY <1>3, <1>6
  <1>8. node[b].bwd # NULL => node[node[b].bwd].is_free = 0
    BY <1>1, <1>2, LiveChunk, Neighbours DEF IInv, Coalesced, TypeOK
  <1>. HIDE DEF b, next, size, gone, chunks, End, node_t, NULL
  <1>9. gone \in SUBSET chunks /\ b \notin gone /\ c \in gone \cup {b}
        /\ \A d \in gone \cup {b} : d # c => node[d].is_free = 1
    BY <1>1, <1>2, <1>3, LiveChunk DEF gone
  <1> QED  BY <1>1, <1>2, <1>4, <1>5, <1>6, <1>7, <1>8, <1>9, CoalesceIInv

LEMMA WfreeFwdIInv ==
  ASSUME IInv, NEW c \in live, WfreeFwd(c)
  PROVE  IInv'
  <1>. USE SizesAssumption
  <1>. DEFINE f    == node[c].fwd
              next == node[f].fwd
              size == node[c].size + node[f].size + StructSize
              gone == {f}
  <1>1. WfreeCall(c) /\ MayBeKept(node[c].bwd) /\ MayBeFree(f)
        /\ Coalesce(c, gone, next, size)
    BY DEF WfreeFwd
  <1>2. f \in chunks /\ node[f].is_free = 1 /\ f = End(c)
    BY <1>1, LiveChunk, Neighbours DEF MayBeFree
  <1>3. /\ c \in Nat /\ f \in Nat /\ c < f
        /\ node[c].size \in Nat /\ node[f].size \in Nat
    BY <1>1, <1>2, LiveChunk DEF IInv, TypeOK
  <1>4. size \in Nat /\ c + StructSize + size = End(f)
    BY <1>2, <1>3
  <1>5. gone = {d \in chunks : c < d /\ d < End(f)}
    BY <1>1, <1>2, <1>3, LiveChunk, NothingInside DEF IInv
  <1>6. /\ next \in chunks \cup {NULL}
        /\ next # NULL => End(f) = next /\ node[next].is_free = 0
        /\ next = NULL => End(f) = totalAllocatedSize
    BY <1>1, <1>2, LiveChunk, Neighbours DEF IInv, Coalesced, TypeOK
  <1>7. next \notin gone /\ next # c
    BY <1>3, <1>6
  <1>8. node[c].bwd # NULL => node[node[c].bwd].is_free = 0
    BY <1>1, LiveChunk, Neighbours
  <1>. HIDE DEF f, next, size, gone, chunks, End, node_t, NULL
  <1>9. gone \in SUBSET chunks /\ c \notin gone /\ c \in gone \cup {c}
        /\ \A d \in gone \cup {c} : d # c => node[d].is_free = 1
    BY <1>1, <1>2, <1>3, LiveChunk DEF gone
  <1>10. c \in chunks
    BY <1>1, LiveChunk
  <1> QED  BY <1>1, <1>4, <1>5, <1>6, <1>7, <1>8, <1>9, <1>10, CoalesceIInv

\* Case 4 swallows nothing: it is the same step with no chunk gone.
LEMMA WfreeAloneIInv ==
  ASSUME IInv, NEW c \in live, WfreeAlone(c)
  PROVE  IInv'
  <1>. USE SizesAssumption
  <1>. DEFINE next == node[c].fwd
              size == node[c].size
  <1>1. WfreeCall(c) /\ MayBeKept(node[c].bwd) /\ MayBeKept(next)
        /\ node' = [node EXCEPT ![c].is_free = 1]
    BY DEF WfreeAlone
  <1>2. c \in chunks /\ c \in Nat /\ size \in Nat /\ Initialised
    BY <1>1, LiveChunk
  <1>3. {} = {d \in chunks : c < d /\ d < End(c)}
    BY <1>2 DEF IInv, TypeOK, ArenaTiled
  <1>4. /\ next \in chunks \cup {NULL}
        /\ next # NULL => End(c) = next /\ node[next].is_free = 0
        /\ next = NULL => End(c) = totalAllocatedSize
        /\ next # NULL => node[next].bwd = c
    BY <1>1, <1>2, LiveChunk, Neighbours DEF IInv, ArenaTiled
  <1>5. next # c
    BY <1>2, <1>4
  <1>6. node[c].bwd # NULL => node[node[c].bwd].is_free = 0
    BY <1>1, LiveChunk, Neighbours
  <1>7. Coalesce(c, {}, next, size)
    <2>. DEFINE merged(a) ==
           IF a = c
           THEN [node[a] EXCEPT !.size = size, !.is_free = 1, !.fwd = next]
           ELSE IF a = next THEN [node[a] EXCEPT !.bwd = c] ELSE node[a]
    <2>1. [node[c] EXCEPT !.size = size, !.is_free = 1, !.fwd = next]
            = [node[c] EXCEPT !.is_free = 1]
      BY <1>2, ChunkType DEF IInv
    <2>2. next # NULL => [node[next] EXCEPT !.bwd = c] = node[next]
      BY <1>4, ChunkType DEF IInv
    <2>3. node' = [a \in chunks |-> IF a = c THEN [node[c] EXCEPT !.is_free = 1]
                                    ELSE node[a]]
      BY <1>1, <1>2 DEF IInv, TypeOK
    <2>4. ASSUME NEW a \in chunks
          PROVE  (IF a = c THEN [node[c] EXCEPT !.is_free = 1] ELSE node[a])
                   = merged(a)
      <3>1. CASE a = c  BY <2>1, <3>1
      <3>2. CASE a # c /\ a = next
        BY <2>2, <3>2, ChunkType DEF IInv
      <3>3. CASE a # c /\ a # next  BY <3>3
      <3> QED  BY <3>1, <3>2, <3>3
    <2>5. chunks \ {} = chunks
      OBVIOUS
    <2>. HIDE DEF merged
    <2>6. node' = [a \in chunks \ {} |-> merged(a)]
      BY <2>3, <2>4, <2>5
    <2> QED  BY <2>6 DEF Coalesce, merged
  <1>8. c + StructSize + size = End(c)
    OBVIOUS
  <1>. HIDE DEF next, size, chunks, End, node_t, NULL
  <1> QED  BY <1>1, <1>2, <1>3, <1>4, <1>5, <1>6, <1>7, <1>8, CoalesceIInv
-----------------------------------------------------------------------------
LEMMA NextIInv == ASSUME ~MiddleSplits, IInv, [Next]_vars PROVE IInv'
  <1>1. CASE \E size \in InitSizes : InitArena(size)  BY <1>1, InitArenaIInv
  <1>2. CASE Destroy  BY <1>2, DestroyIInv
  <1>3. CASE \E n \in RequestSizes : WallocCall(n)  BY <1>3, WallocCallIInv
  <1>4. CASE Search
    BY <1>4, WallocNextIInv, WallocFailsIInv, WallocWholeIInv, WallocSplitIInv
       DEF Search
  <1>5. CASE \E c \in live : Wfree(c)
    BY <1>5, WfreeBothIInv, WfreeBwdIInv, WfreeFwdIInv, WfreeAloneIInv DEF Wfree
  <1>6. CASE UNCHANGED vars
    BY <1>6 DEF vars, IInv, TypeOK, ArenaExists, ArenaTiled, InArena,
                LiveChunksKept, Coalesced, SearchedInOrder, SplitsLastOnly,
                Fits, Splits, Initialised, Searching
  <1> QED  BY <1>1, <1>2, <1>3, <1>4, <1>5, <1>6 DEF Next

\* For every page, header and request size: the inductive invariant of an
\* allocator whose client never has a chunk in the middle of the list split.
THEOREM Invariance == ASSUME ~MiddleSplits PROVE Spec => []IInv
  BY InitIInv, NextIInv, PTL DEF Spec

\* As long as no call splits a chunk in the middle, the variables keep the types
\* the code gives them, and no size wraps below zero.
THEOREM TypeCorrect == ASSUME ~MiddleSplits PROVE Spec => []TypeOK
  BY Invariance, PTL DEF IInv

\* walloc's split and the four cases of wfree keep the list a tiling of the
\* arena, the same in both directions.
THEOREM Tiling == ASSUME ~MiddleSplits PROVE Spec => []ArenaTiled
  BY Invariance, PTL DEF IInv

\* No byte the client holds is ever in another chunk.
THEOREM Kept == ASSUME ~MiddleSplits PROVE Spec => []LiveChunksKept
  BY Invariance, PTL DEF IInv

\* wfree's four cases leave no two free chunks next to each other.
THEOREM CompleteCoalescing == ASSUME ~MiddleSplits PROVE Spec => []Coalesced
  BY Invariance, PTL DEF IInv

\* walloc takes the first chunk of the arena that fits, in the order of the
\* addresses, and fails only if none does.
THEOREM FirstFitSearch == ASSUME ~MiddleSplits PROVE Spec => FirstFit
  <1>. DEFINE Step == /\ WallocWhole \/ WallocSplit =>
                            \A c \in chunks : c < temp => ~Fits(c, request)
                      /\ WallocFails => \A c \in chunks : ~Fits(c, request)
  <1>1. IInv /\ [Next]_vars => [Step]_vars
    <2>. SUFFICES ASSUME IInv PROVE Step
      OBVIOUS
    <2>1. ASSUME WallocWhole \/ WallocSplit, NEW c \in chunks, c < temp
          PROVE  ~Fits(c, request)
      BY <2>1 DEF WallocWhole, WallocSplit, IInv, SearchedInOrder
    <2>2. ASSUME WallocFails, NEW c \in chunks PROVE ~Fits(c, request)
      <3>1. /\ Initialised /\ temp \in chunks /\ node[temp].fwd = NULL
            /\ ~Fits(temp, request) /\ Searching
        BY <2>2 DEF WallocFails, Searching, IInv, TypeOK, ArenaExists
      <3>2. c < temp \/ c = temp
        BY <3>1, LastChunk
      <3> QED  BY <3>1, <3>2 DEF IInv, SearchedInOrder
    <2> QED  BY <2>1, <2>2
  <1> QED  BY <1>1, Invariance, PTL DEF Spec, FirstFit

\* No call interrupts walloc's search, and every turn of its loop ends it or
\* moves it on to a later chunk of the same arena: it cannot turn for ever.
SearchMovesOn ==
  [][Searching =>
       /\ Search
       /\ totalAllocatedSize' = totalAllocatedSize
       /\ ~Searching' \/ (temp < temp' /\ temp' < totalAllocatedSize)]_vars

\* What is behind SearchEnds, as long as no call splits a chunk in the middle:
\* the address of the chunk walloc is at grows with every turn of its loop, and
\* the arena bounds it.
THEOREM SearchGoesForward == ASSUME ~MiddleSplits PROVE Spec => SearchMovesOn
  <1>. DEFINE Step ==
         Searching =>
           /\ Search
           /\ totalAllocatedSize' = totalAllocatedSize
           /\ ~Searching' \/ (temp < temp' /\ temp' < totalAllocatedSize)
  <1>1. IInv /\ [Next]_vars => [Step]_vars
    <2>. SUFFICES ASSUME IInv, Next, Searching PROVE Step
      OBVIOUS
    <2>1. Initialised /\ temp \in chunks
      BY DEF IInv, ArenaExists, TypeOK, Searching
    <2>2. Search
      BY <2>1 DEF Next, InitArena, Destroy, WallocCall, Wfree, WfreeBoth,
                  WfreeBwd, WfreeFwd, WfreeAlone, WfreeCall, Idle
    <2>3. totalAllocatedSize' = totalAllocatedSize
      BY <2>2 DEF Search, WallocNext, WallocFails, WallocWhole, WallocSplit,
                  WallocReturns, arena
    <2>4. CASE WallocNext
      <3>1. temp' \in chunks /\ temp' = End(temp)
        BY <2>1, <2>4, Neighbours DEF WallocNext
      <3>2. temp < End(temp) /\ temp' < End(temp')
        BY <2>1, <3>1, ChunkType DEF IInv
      <3>3. End(temp') <= totalAllocatedSize
        BY <3>1 DEF IInv, InArena
      <3>4. temp' \in Int /\ totalAllocatedSize \in Int /\ End(temp') \in Int
        BY <3>1, ChunkType DEF IInv, TypeOK
      <3>. HIDE DEF End
      <3>5. temp < temp' /\ temp' < totalAllocatedSize
        BY <3>1, <3>2, <3>3, <3>4
      <3> QED  BY <2>2, <2>3, <3>5
    <2>5. CASE WallocFails \/ WallocWhole \/ WallocSplit
      <3>1. ~Searching'
        BY <2>5 DEF WallocFails, WallocWhole, WallocSplit, WallocReturns, Searching
      <3> QED  BY <2>2, <2>3, <3>1
    <2> QED  BY <2>2, <2>4, <2>5 DEF Search
  <1> QED  BY <1>1, Invariance, PTL DEF Spec, SearchMovesOn
=============================================================================
