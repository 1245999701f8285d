------------------------------ MODULE OSALQueue ------------------------------
(***************************************************************************)
(* The OSAL queue of the camera HAL (hardware/camera/OSAL_Queue.c): a ring *)
(* of maxElem - 1 heap nodes, a read and a write pointer and an element    *)
(* count.  A null data pointer marks a free node.  Every operation runs    *)
(* with the queue's own mutex held, so each one is a single action.        *)
(***************************************************************************)
EXTENDS Integers, FiniteSets

CONSTANTS Items,      \* elements inserted with OSAL_Queue
          SetItems,   \* elements inserted with OSAL_QueueSetElem
          NULL,       \* the null pointer
          maxElem     \* the maxQueueElem argument of OSAL_QueueCreate

ASSUME QueueAssumption ==
  /\ maxElem \in Nat /\ maxElem >= 2
  /\ NULL \notin Items \cup SetItems
  /\ {"ok", "full", "error"} \cap (Items \cup SetItems \cup {NULL}) = {}

VARIABLES created,    \* OSAL_QueueCreate succeeded and the queue is not terminated
          alloc,      \* the heap nodes of this queue that are not freed
          data,       \* node -> element or NULL
          first,      \* the node OSAL_Dequeue reads
          last,       \* the node OSAL_Queue writes
          numElem,
          ret         \* the return value of the last call

vars == <<created, alloc, data, first, last, numElem, ret>>

Elems == Items \cup SetItems

\* OSAL_QueueCreate allocates one node and then maxElem - 2 more.
NodeCount == maxElem - 1
Nodes == 0 .. NodeCount - 1

\* The ring: the last node links back to the first.
qNext(n) == IF n = NodeCount - 1 THEN 0 ELSE n + 1

\* The node reached from n in k steps, for k <= NodeCount.
Hop(n, k) == IF n + k < NodeCount THEN n + k ELSE n + k - NodeCount

Init ==
  /\ created = FALSE /\ alloc = {}
  /\ data = [n \in Nodes |-> NULL]
  /\ first = 0 /\ last = 0 /\ numElem = 0
  /\ ret = NULL

OSAL_QueueCreate ==
  /\ ~created
  /\ created' = TRUE /\ alloc' = Nodes
  /\ data' = [n \in Nodes |-> NULL]
  /\ first' = 0 /\ last' = 0 /\ numElem' = 0
  /\ ret' = "ok"

\* malloc fails on some node: the nodes allocated so far are freed again.
OSAL_QueueCreateFails ==
  /\ ~created
  /\ alloc' = {} /\ ret' = "error"
  /\ UNCHANGED <<created, data, first, last, numElem>>

\* Mutant: the last node is forgotten.
TerminateForgetsLast ==
  /\ created
  /\ created' = FALSE
  /\ alloc' = alloc \ {Hop(first, k) : k \in 0 .. maxElem - 3}
  /\ data' = [n \in Nodes |-> NULL]
  /\ first' = 0 /\ last' = 0 /\ numElem' = 0
  /\ ret' = "ok"

\* maxElem - 2 nodes are freed walking from first, then the one reached last.
OSAL_QueueTerminate ==
  /\ created
  /\ created' = FALSE
  /\ alloc' = alloc \ {Hop(first, k) : k \in 0 .. maxElem - 2}
  /\ data' = [n \in Nodes |-> NULL]
  /\ first' = 0 /\ last' = 0 /\ numElem' = 0
  /\ ret' = "ok"

\* Mutant: the count is tested two too early.
IsFullEarly == data[last] # NULL \/ numElem >= maxElem - 2

IsFull == data[last] # NULL \/ numElem >= maxElem

Enqueue(d) ==
  /\ data' = [data EXCEPT ![last] = d]
  /\ last' = qNext(last)
  /\ numElem' = numElem + 1
  /\ ret' = "ok"
  /\ UNCHANGED <<created, alloc, first>>

Reject ==
  /\ ret' = "full"
  /\ UNCHANGED <<created, alloc, data, first, last, numElem>>

OSAL_Queue(d) ==
  /\ created
  /\ \/ IsFull /\ Reject
     \/ ~IsFull /\ Enqueue(d)

\* The loop over numElem elements compares d with the nodes at first and last
\* on every turn: neither pointer is advanced.
SameElem(d) == numElem > 0 /\ (data[first] = d \/ data[last] = d)

OSAL_QueueSetElem(d) ==
  /\ created
  /\ \/ IsFull /\ Reject
     \/ /\ ~IsFull /\ SameElem(d)
        /\ ret' = "ok"
        /\ UNCHANGED <<created, alloc, data, first, last, numElem>>
     \/ ~IsFull /\ ~SameElem(d) /\ Enqueue(d)

\* Mutant: the node that was read is not marked free.
DequeueKeepsData ==
  /\ created
  /\ \/ /\ data[first] = NULL \/ numElem <= 0
        /\ ret' = NULL
        /\ UNCHANGED <<created, alloc, data, first, last, numElem>>
     \/ /\ data[first] # NULL /\ numElem > 0
        /\ ret' = data[first]
        /\ first' = qNext(first)
        /\ numElem' = numElem - 1
        /\ UNCHANGED <<created, alloc, data, last>>

OSAL_Dequeue ==
  /\ created
  /\ \/ /\ data[first] = NULL \/ numElem <= 0
        /\ ret' = NULL
        /\ UNCHANGED <<created, alloc, data, first, last, numElem>>
     \/ /\ data[first] # NULL /\ numElem > 0
        /\ ret' = data[first]
        /\ data' = [data EXCEPT ![first] = NULL]
        /\ first' = qNext(first)
        /\ numElem' = numElem - 1
        /\ UNCHANGED <<created, alloc, last>>

Next ==
  \/ OSAL_QueueCreate \/ OSAL_QueueCreateFails \/ OSAL_QueueTerminate
  \/ \E d \in Items : OSAL_Queue(d)
  \/ \E d \in SetItems : OSAL_QueueSetElem(d)
  \/ OSAL_Dequeue

Spec == Init /\ [][Next]_vars
-----------------------------------------------------------------------------
\* Type invariant.
TypeOK ==
  /\ created \in BOOLEAN
  /\ alloc \in SUBSET Nodes
  /\ data \in [Nodes -> Elems \cup {NULL}]
  /\ first \in Nodes /\ last \in Nodes
  /\ numElem \in 0 .. NodeCount
  /\ ret \in Elems \cup {NULL, "ok", "full", "error"}

\* The count, the two pointers and the null marks tell the same story: the
\* occupied nodes are exactly the numElem nodes from first, and last is the
\* node after them (OSAL_Queue.c keeps all four and tests two of them).
RingConsistent ==
  /\ last = Hop(first, numElem)
  /\ \A k \in 0 .. NodeCount - 1 :
       data[Hop(first, k)] # NULL <=> k < numElem

\* OSAL_QueueTerminate and the error path of OSAL_QueueCreate free every node
\* of the ring, wherever first stands when the queue is torn down.
NoLeak == ~created => alloc = {}

\* The contents, oldest first.
Contents == [i \in 1 .. numElem |-> data[Hop(first, i - 1)]]

Fifo == INSTANCE BoundedFifo WITH open <- created, q <- Contents,
                                  result <- ret, Capacity <- NodeCount

\* The ring implements a bounded FIFO of capacity maxElem - 1 (not maxElem):
\* elements leave in the order they entered, none is lost or duplicated, and
\* an insertion is refused exactly when the ring is full.
ImplementsFifo == Fifo!Spec

\* OSAL_Queue.c:169 promises of OSAL_QueueSetElem that "if there is an same
\* elem, do not in queue anyway".
NoDuplicateSetElem ==
  \A d \in SetItems : Cardinality({n \in Nodes : data[n] = d}) <= 1
=============================================================================
