------------------------------ MODULE ObjectPool ------------------------------
(***************************************************************************)
(* knet::ObjectPool (object_pool.h): the free list behind operator new and *)
(* operator delete of ClientSocket.                                        *)
(*                                                                         *)
(* A pool of PoolSize nodes is threaded through m_next from m_header.  An  *)
(* Alloc on an empty list takes a block from the heap; such a block goes   *)
(* back to the heap, never into the list.  Alloc, and the part of Free     *)
(* that touches the list, hold m_mutex, so each is one action; blocks are  *)
(* freed by any thread, in any order, but only by the shared_ptr that owns *)
(* them.                                                                   *)
(***************************************************************************)
EXTENDS Integers, FiniteSets

CONSTANTS PoolSize,   \* the template argument
          Heap,       \* addresses the operating system may return
          NULL        \* nullptr

Nodes == 0 .. PoolSize - 1   \* m_id of the nodes of the pool

ASSUME ObjectPoolAssumption == /\ PoolSize \in Nat \ {0}
                               /\ NULL \notin Nodes \cup Heap
                               /\ Nodes \cap Heap = {}

Blocks == Nodes \cup Heap

VARIABLES m_header,
          m_next, m_ref, m_inPool,   \* the ObjectNode before each block
          owners                     \* history: Allocs that returned the block
                                     \* less the Frees of it

poolVars == <<m_header, m_next, m_ref, m_inPool, owners>>

Live == {b \in Blocks : owners[b] > 0}

PoolTypeOK == /\ m_header \in Nodes \cup {NULL}
              /\ m_next \in [Blocks -> Nodes \cup {NULL}]
              /\ m_ref \in [Blocks -> Nat]
              /\ m_inPool \in [Blocks -> BOOLEAN]
              /\ owners \in [Blocks -> Nat]

\* InitPool's loop links every node to the one behind it.
InitNext == [b \in Blocks |-> IF b \in Nodes /\ b + 1 \in Nodes THEN b + 1 ELSE NULL]

\* InitPool.  What a heap address holds before new is written by Alloc.
InitPool == /\ m_header = 0
            /\ m_next = InitNext
            /\ m_ref = [b \in Blocks |-> 0]
            /\ m_inPool = [b \in Blocks |-> b \in Nodes]
            /\ owners = [b \in Blocks |-> 0]

\* Bug: the header does not move on.
BugAllocNode == /\ m_header # NULL
                /\ m_ref' = [m_ref EXCEPT ![m_header] = 1]
                /\ owners' = [owners EXCEPT ![m_header] = @ + 1]
                /\ UNCHANGED <<m_header, m_next, m_inPool>>

\* Alloc from the pool.
AllocNode == /\ m_header # NULL
             /\ m_header' = m_next[m_header]
             /\ m_ref' = [m_ref EXCEPT ![m_header] = @ + 1]
             /\ owners' = [owners EXCEPT ![m_header] = @ + 1]
             /\ UNCHANGED <<m_next, m_inPool>>

\* Alloc from the heap, at an address the system has not given out.
AllocHeap(h) == /\ m_header = NULL
                /\ h \notin Live
                /\ m_inPool' = [m_inPool EXCEPT ![h] = FALSE]
                /\ m_ref' = [m_ref EXCEPT ![h] = 1]
                /\ m_next' = [m_next EXCEPT ![h] = NULL]
                /\ owners' = [owners EXCEPT ![h] = @ + 1]
                /\ UNCHANGED m_header

\* Bug: m_ref is compared, and not decremented.
BugRelease(b) == /\ m_ref' = m_ref
                 /\ owners' = [owners EXCEPT ![b] = @ - 1]

\* An owner of b gives it up: --block->m_ref.
Release(b) == /\ m_ref' = [m_ref EXCEPT ![b] = @ - 1]
              /\ owners' = [owners EXCEPT ![b] = @ - 1]

\* Bug: m_header is written before the link is read from it.
BugFreeNode(b) == /\ b \in Live /\ m_inPool[b]
                  /\ Release(b)
                  /\ m_header' = b
                  /\ m_next' = [m_next EXCEPT ![b] = b]
                  /\ UNCHANGED m_inPool

\* Free of a node of the pool: the last reference puts it back on the list.
FreeNode(b) == /\ b \in Live /\ m_inPool[b]
               /\ Release(b)
               /\ IF m_ref[b] - 1 # 0
                  THEN UNCHANGED <<m_header, m_next>>
                  ELSE /\ m_next' = [m_next EXCEPT ![b] = m_header]
                       /\ m_header' = b
               /\ UNCHANGED m_inPool

\* Free of a heap block: the last reference deletes it.
FreeHeap(b) == /\ b \in Live /\ ~m_inPool[b]
               /\ Release(b)
               /\ UNCHANGED <<m_header, m_next, m_inPool>>

PoolNext == \/ AllocNode
            \/ \E h \in Heap : AllocHeap(h)
            \/ \E b \in Blocks : FreeNode(b) \/ FreeHeap(b)

PoolSpec == InitPool /\ [][PoolNext]_poolVars

-----------------------------------------------------------------------------
(***************************************************************************)
(* Properties.                                                             *)
(***************************************************************************)

\* The k-th link from m_header.
Link == LET follow[k \in 0 .. PoolSize] ==
              IF k = 0 THEN m_header
              ELSE IF follow[k-1] = NULL THEN NULL ELSE m_next[follow[k-1]]
        IN  follow

\* The free list ends, and holds exactly the pool's nodes nobody owns: no node
\* is lost, none is both free and owned, and no order of frees makes a cycle.
FreeListExact == /\ Link[PoolSize] = NULL
                 /\ {Link[k] : k \in 0 .. PoolSize} \ {NULL} = Nodes \ Live

\* The assertions of Alloc (the header's m_ref is 0) and of Free (a block that
\* is freed has m_ref > 0) never fail.
AssertsHold == /\ m_header # NULL => m_ref[m_header] = 0
               /\ \A b \in Live : m_ref[b] > 0

Store == INSTANCE BlockStore

\* A block, from the pool or from the heap, has one owner at a time.
ImplementsStore == Store!StoreSpec
=============================================================================
