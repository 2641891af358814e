------------------------------ MODULE GoatMalloc ----------------------------
(***************************************************************************)
(* The allocator of Project 3, goatmalloc.c: init maps an arena, walloc    *)
(* and wfree keep in it a doubly linked list of chunks, each one a header  *)
(* (a node_t) followed by its bytes, and destroy unmaps it.                *)
(*                                                                         *)
(* An address is an offset in the arena, and node maps the address of each *)
(* chunk to its header; what the bytes between headers hold is left out.   *)
(* The client is single threaded and obeys the interface: it initialises   *)
(* an arena only when there is none, and frees once what it was given.     *)
(***************************************************************************)
EXTENDS Integers

CONSTANTS
  PageSize,          \* getpagesize()
  StructSize,        \* sizeof(node_t)
  InitSizes,         \* the sizes the client asks of init
  RequestSizes,      \* the sizes the client asks of walloc
  MaxArena,          \* the largest arena those sizes lead to
  MiddleSplits       \* may the client's calls split a chunk that has a fwd?

NULL == -1

ERR_OUT_OF_MEMORY == -1
ERR_UNINITIALIZED == -5

\* allocatedSize: the size in bytes, rounded up to whole pages.
ArenaSize(size) == ((size + PageSize - 1) \div PageSize) * PageSize

ASSUME SizesAssumption ==
  /\ StructSize \in Nat \ {0}
  /\ PageSize \in Nat /\ PageSize > StructSize
  /\ MaxArena \in Nat
  /\ RequestSizes \subseteq Nat
  /\ \A size \in InitSizes :
       size \in Nat \ {0} /\ ArenaSize(size) \in PageSize .. MaxArena
  /\ MiddleSplits \in BOOLEAN

Addresses == 0 .. MaxArena - 1

VARIABLES
  statusno, head, totalAllocatedSize,
  node,              \* the header of each chunk
  temp, request,     \* walloc's search: the chunk it is at, the size it needs
  live               \* the chunks whose bytes the client holds

vars == <<statusno, head, totalAllocatedSize, node, temp, request, live>>

arena  == <<statusno, head, totalAllocatedSize>>
search == <<temp, request>>

node_t == [size : Nat, is_free : {0, 1},
           fwd : Addresses \cup {NULL}, bwd : Addresses \cup {NULL}]

chunks == DOMAIN node

\* Where a chunk ends, and the next header or the end of the arena is.
End(c) == c + StructSize + node[c].size

TypeOK ==
  /\ statusno \in {0, ERR_OUT_OF_MEMORY, ERR_UNINITIALIZED}
  /\ head \in {0, NULL}
  /\ totalAllocatedSize \in 0 .. MaxArena
  /\ chunks \subseteq Addresses
  /\ node \in [chunks -> node_t]
  /\ temp \in chunks \cup {NULL}
  /\ request \in Nat
  /\ live \subseteq chunks

Initialised == statusno # ERR_UNINITIALIZED

\* walloc is in its search loop; no other call is possible then.
Searching == temp # NULL

Idle == Initialised /\ ~Searching
-----------------------------------------------------------------------------
Init ==
  /\ statusno = ERR_UNINITIALIZED
  /\ head = NULL
  /\ totalAllocatedSize = 0
  /\ node = [a \in {} |-> 0]
  /\ temp = NULL
  /\ request = 0
  /\ live = {}

\* init: the whole arena is one free chunk.
InitArena(size) ==
  /\ ~Initialised
  /\ totalAllocatedSize' = ArenaSize(size)
  /\ head' = 0
  /\ node' = [a \in {0} |-> [size |-> ArenaSize(size) - StructSize,
                            is_free |-> 1, fwd |-> NULL, bwd |-> NULL]]
  /\ statusno' = 0
  /\ UNCHANGED <<search, live>>

\* destroy: the chunks the client still holds are unmapped with the arena.
Destroy ==
  /\ Idle
  /\ totalAllocatedSize' = 0
  /\ head' = NULL
  /\ statusno' = ERR_UNINITIALIZED
  /\ node' = [a \in {} |-> 0]
  /\ live' = {}
  /\ UNCHANGED search

-----------------------------------------------------------------------------
(* walloc: first fit, one chunk of the list at a time. *)

Fits(c, n) == node[c].size >= n /\ node[c].is_free = 1

\* Mutant: the room the new header takes is forgotten.
SplitsAnyRest(c, n) == node[c].size - n > 0

\* Line 195: is there room for another header, and at least one byte?
Splits(c, n) == node[c].size - n > StructSize

\* A call that cannot split a chunk in the middle of the list.
SplitsLastOnly(n) ==
  \A c \in chunks : Fits(c, n) /\ Splits(c, n) => node[c].fwd = NULL

\* Mutant: the search starts after the head.
WallocCallAfterHead(n) ==
  /\ Idle
  /\ MiddleSplits \/ SplitsLastOnly(n)
  /\ temp' = IF node[head].fwd # NULL THEN node[head].fwd ELSE head
  /\ request' = n
  /\ UNCHANGED <<arena, node, live>>

WallocCall(n) ==
  /\ Idle
  /\ MiddleSplits \/ SplitsLastOnly(n)
  /\ temp' = head
  /\ request' = n
  /\ UNCHANGED <<arena, node, live>>

WallocNext ==
  /\ Searching
  /\ ~Fits(temp, request)
  /\ node[temp].fwd # NULL
  /\ temp' = node[temp].fwd
  /\ UNCHANGED <<arena, node, request, live>>

\* Mutant: the search starts again at the end of the list.
WallocFailsNever ==
  /\ Searching
  /\ ~Fits(temp, request)
  /\ node[temp].fwd = NULL
  /\ temp' = head
  /\ UNCHANGED <<arena, request, node, live>>

\* walloc returns NULL.
WallocFails ==
  /\ Searching
  /\ ~Fits(temp, request)
  /\ node[temp].fwd = NULL
  /\ statusno' = ERR_OUT_OF_MEMORY
  /\ temp' = NULL
  /\ request' = 0
  /\ UNCHANGED <<head, totalAllocatedSize, node, live>>

\* walloc returns the bytes of the chunk it has found.
WallocReturns ==
  /\ live' = live \cup {temp}
  /\ temp' = NULL
  /\ request' = 0
  /\ UNCHANGED arena

WallocWhole ==
  /\ Searching
  /\ Fits(temp, request)
  /\ ~Splits(temp, request)
  /\ node' = [node EXCEPT ![temp].is_free = 0]
  /\ WallocReturns

\* The rest of the chunk becomes a new free chunk.  The chunk after it, if
\* there is one, keeps its bwd.
WallocSplit ==
  /\ Searching
  /\ Fits(temp, request)
  /\ Splits(temp, request)
  /\ LET new == temp + StructSize + request
     IN  node' = [a \in chunks \cup {new} |->
           IF a = temp
           THEN [node[a] EXCEPT !.size = request, !.is_free = 0, !.fwd = new]
           ELSE IF a = new
           THEN [size |-> node[temp].size - request - StructSize, is_free |-> 1,
                 fwd |-> node[temp].fwd, bwd |-> temp]
           ELSE node[a]]
  /\ WallocReturns

-----------------------------------------------------------------------------
(* wfree: mark the chunk free, and coalesce it with its free neighbours. *)

\* is_free, read through a pointer that may be NULL.  A pointer to a header
\* that has been swallowed by another chunk reads what that chunk holds.
MayBeFree(c) == c # NULL /\ (c \in chunks => node[c].is_free = 1)
MayBeKept(c) == c = NULL \/ (c \in chunks => node[c].is_free = 0)

WfreeCall(c) ==
  /\ Idle
  /\ c \in live
  /\ live' = live \ {c}
  /\ UNCHANGED <<arena, search>>

\* Mutant: lines 125-128, 135-138 and 146-149 dropped.
CoalesceForward(into, gone, next, size) ==
  node' = [a \in chunks \ gone |->
    IF a = into THEN [node[a] EXCEPT !.size = size, !.is_free = 1, !.fwd = next]
    ELSE node[a]]

\* The chunk at into becomes free and swallows the chunks in gone; next becomes
\* its fwd, and has it as its bwd.
Coalesce(into, gone, next, size) ==
  node' = [a \in chunks \ gone |->
    IF a = into THEN [node[a] EXCEPT !.size = size, !.is_free = 1, !.fwd = next]
    ELSE IF a = next THEN [node[a] EXCEPT !.bwd = into]
    ELSE node[a]]

\* Mutant: case 1 missing, so that case 2 is taken for it.
WfreeBothAsBwd(c) ==
  LET bwdNode == node[c].bwd
  IN  /\ WfreeCall(c)
      /\ MayBeFree(bwdNode) /\ MayBeFree(node[c].fwd)
      /\ Coalesce(bwdNode, {c}, node[c].fwd,
           node[bwdNode].size + node[c].size + StructSize)

WfreeBoth(c) ==
  LET bwdNode == node[c].bwd
      fwdNode == node[c].fwd
  IN  /\ WfreeCall(c)
      /\ MayBeFree(bwdNode) /\ MayBeFree(fwdNode)
      /\ Coalesce(bwdNode, {c, fwdNode}, node[fwdNode].fwd,
           node[bwdNode].size + node[c].size + node[fwdNode].size
             + 2 * StructSize)

WfreeBwd(c) ==
  LET bwdNode == node[c].bwd
  IN  /\ WfreeCall(c)
      /\ MayBeFree(bwdNode) /\ MayBeKept(node[c].fwd)
      /\ Coalesce(bwdNode, {c}, node[c].fwd,
           node[bwdNode].size + node[c].size + StructSize)

\* Mutant: the two headers of case 1 counted in case 3.
WfreeFwdTwoHeaders(c) ==
  LET fwdNode == node[c].fwd
  IN  /\ WfreeCall(c)
      /\ MayBeKept(node[c].bwd) /\ MayBeFree(fwdNode)
      /\ Coalesce(c, {fwdNode}, node[fwdNode].fwd,
           node[c].size + node[fwdNode].size + 2 * StructSize)

WfreeFwd(c) ==
  LET fwdNode == node[c].fwd
  IN  /\ WfreeCall(c)
      /\ MayBeKept(node[c].bwd) /\ MayBeFree(fwdNode)
      /\ Coalesce(c, {fwdNode}, node[fwdNode].fwd,
           node[c].size + node[fwdNode].size + StructSize)

WfreeAlone(c) ==
  /\ WfreeCall(c)
  /\ MayBeKept(node[c].bwd) /\ MayBeKept(node[c].fwd)
  /\ node' = [node EXCEPT ![c].is_free = 1]

Wfree(c) == WfreeBoth(c) \/ WfreeBwd(c) \/ WfreeFwd(c) \/ WfreeAlone(c)
-----------------------------------------------------------------------------
Search == WallocNext \/ WallocFails \/ WallocWhole \/ WallocSplit

Next ==
  \/ \E size \in InitSizes : InitArena(size)
  \/ Destroy
  \/ \E n \in RequestSizes : WallocCall(n)
  \/ Search
  \/ \E c \in live : Wfree(c)

Spec == Init /\ [][Next]_vars

\* walloc runs until it returns.
FairSpec == Spec /\ WF_vars(Search)
-----------------------------------------------------------------------------
(* What must hold. *)

\* The list goes over the whole arena, in the order of the addresses, with no
\* gap and no overlap, and backwards as it goes forwards.
ArenaTiled ==
  Initialised =>
    /\ head \in chunks
    /\ \A c \in chunks :
         /\ node[c].fwd = NULL => End(c) = totalAllocatedSize
         /\ node[c].fwd # NULL => /\ node[c].fwd = End(c)
                                  /\ node[c].fwd \in chunks
                                  /\ node[node[c].fwd].bwd = c
         /\ node[c].bwd = NULL <=> c = head
         /\ node[c].bwd # NULL => /\ node[c].bwd \in chunks
                                  /\ node[node[c].bwd].fwd = c
    /\ \A c, d \in chunks : c < d => End(c) <= d

\* What the client holds is what the list says is taken: the bytes of two
\* allocations, or of an allocation and of a free chunk, are never the same.
LiveChunksKept ==
  /\ live = {c \in chunks : node[c].is_free = 0}
  /\ \A c \in live, d \in chunks : c # d => End(c) <= d \/ End(d) <= c

\* Coalescing is complete: two chunks next to each other are never both free.
Coalesced ==
  \A c, d \in chunks : End(c) = d => node[c].is_free = 0 \/ node[d].is_free = 0

\* walloc takes the first chunk of the arena that is free and large enough, and
\* fails only when there is none.
FirstFit ==
  [][/\ WallocWhole \/ WallocSplit =>
          \A c \in chunks : c < temp => ~Fits(c, request)
     /\ WallocFails => \A c \in chunks : ~Fits(c, request)]_vars

\* walloc always returns: its loop does not run in a circle.
SearchEnds == Searching ~> ~Searching

\* goatmalloc.h:21-22, "size represents the number of bytes available for
\* allocation": none of the bytes of a free chunk are held by the client.
FreeBytesAvailable ==
  \A c \in chunks, d \in live :
    node[c].is_free = 1 => End(c) <= d \/ End(d) <= c
=============================================================================
