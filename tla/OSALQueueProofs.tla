--------------------------- MODULE OSALQueueProofs ---------------------------
(***************************************************************************)
(* Proofs about the OSAL queue, for every ring size and every set of       *)
(* elements: its representation invariant, the absence of leaks, and that  *)
(* it implements a bounded FIFO.                                           *)
(***************************************************************************)
EXTENDS OSALQueue, SequenceTheorems, TLAPS

\* The inductive invariant: types, agreement of the four pieces of the
\* representation, every node allocated while the queue exists.
IInv ==
  /\ TypeOK
  /\ RingConsistent
  /\ NoLeak
  /\ created => alloc = Nodes

-----------------------------------------------------------------------------
\* Moving first by one node turns the k-th node into the (k+1)-th, and the
\* NodeCount nodes from any node are the whole ring.
LEMMA HopNext ==
  ASSUME NEW n \in Nodes, NEW k \in 0 .. NodeCount - 1
  PROVE  /\ Hop(n, k) \in Nodes
         /\ qNext(n) \in Nodes
         /\ Hop(n, 0) = n
         /\ Hop(n, NodeCount) = n
         /\ qNext(Hop(n, k)) = Hop(n, k + 1)
         /\ Hop(qNext(n), k) = Hop(n, k + 1)
BY QueueAssumption DEF Hop, qNext, Nodes, NodeCount

\* Within one turn of the ring, different hops reach different nodes.
LEMMA HopInjective ==
  ASSUME NEW n \in Nodes, NEW j \in 0 .. NodeCount - 1, NEW k \in 0 .. NodeCount - 1,
         Hop(n, j) = Hop(n, k)
  PROVE  j = k
BY QueueAssumption DEF Hop, Nodes, NodeCount

\* Every node is reached within one turn.
LEMMA HopCovers ==
  ASSUME NEW n \in Nodes, NEW m \in Nodes
  PROVE  \E k \in 0 .. NodeCount - 1 : Hop(n, k) = m
<1>1. CASE m >= n
  <2>1. m - n \in 0 .. NodeCount - 1 /\ Hop(n, m - n) = m
    BY <1>1, QueueAssumption DEF Hop, Nodes, NodeCount
  <2> QED BY <2>1
<1>2. CASE m < n
  <2>1. m - n + NodeCount \in 0 .. NodeCount - 1 /\ Hop(n, m - n + NodeCount) = m
    BY <1>2, QueueAssumption DEF Hop, Nodes, NodeCount
  <2> QED BY <2>1
<1> QED BY <1>1, <1>2 DEF Nodes

\* NodeCount is a positive natural number.
LEMMA NodeCountPos == NodeCount \in Nat /\ NodeCount >= 1 /\ 0 \in Nodes
BY QueueAssumption DEF NodeCount, Nodes

\* When the representation is consistent, the null mark at last alone decides
\* whether the ring is full, and the null mark at first whether it is empty.
LEMMA FullEmpty ==
  ASSUME TypeOK, RingConsistent
  PROVE  /\ IsFull <=> numElem = NodeCount
         /\ data[first] = NULL <=> numElem = 0
<1> USE NodeCountPos, QueueAssumption DEF TypeOK, RingConsistent
<1>1. data[Hop(first, 0)] # NULL <=> 0 < numElem
  OBVIOUS
<1>2. data[first] = NULL <=> numElem = 0
  BY <1>1, HopNext
<1>3. CASE numElem = NodeCount
  <2>1. last = first BY <1>3, HopNext
  <2> QED BY <1>2, <1>3, <2>1 DEF IsFull, NodeCount
<1>4. CASE numElem # NodeCount
  <2>1. numElem \in 0 .. NodeCount - 1 BY <1>4
  <2>2. data[Hop(first, numElem)] = NULL BY <2>1
  <2>3. data[last] = NULL BY <2>2
  <2>4. ~(numElem >= maxElem) BY <2>1 DEF NodeCount
  <2>5. ~IsFull BY <2>3, <2>4 DEF IsFull
  <2> QED BY <1>2, <1>4, <2>5
<1> QED BY <1>2, <1>3, <1>4
-----------------------------------------------------------------------------
\* The inductive invariant holds initially.
LEMMA InitIInv == Init => IInv
<1> SUFFICES ASSUME Init PROVE IInv OBVIOUS
<1> USE NodeCountPos DEF Init
<1>1. TypeOK
  <2>1. data \in [Nodes -> Elems \cup {NULL}] BY Zenon
  <2>2. created \in BOOLEAN BY Zenon
  <2> QED BY <2>1, <2>2 DEF TypeOK
<1>2. RingConsistent BY HopNext DEF RingConsistent
<1> QED BY <1>1, <1>2 DEF IInv, NoLeak

\* An insertion into a ring that is not full keeps the representation consistent.
LEMMA EnqueueIInv ==
  ASSUME IInv, NEW d \in Elems, created, ~IsFull, Enqueue(d)
  PROVE  IInv'
<1> USE NodeCountPos, QueueAssumption DEF IInv
<1>1. numElem \in 0 .. NodeCount - 1
  BY FullEmpty DEF TypeOK
<1>2. TypeOK'
  BY <1>1, HopNext DEF TypeOK, Enqueue, Elems
<1>3. last' = Hop(first', numElem')
  BY <1>1, HopNext DEF TypeOK, RingConsistent, Enqueue
<1>4. ASSUME NEW k \in 0 .. NodeCount - 1
      PROVE  data'[Hop(first', k)] # NULL <=> k < numElem'
  <2>1. Hop(first, k) \in Nodes BY HopNext DEF TypeOK
  <2>2. CASE k = numElem
    <3>1. data'[Hop(first, k)] = d BY <2>1, <2>2 DEF TypeOK, RingConsistent, Enqueue
    <3> QED BY <3>1, <2>2, <1>1 DEF Enqueue, Elems
  <2>3. CASE k # numElem
    <3>1. Hop(first, k) # last BY <2>3, <1>1, HopInjective DEF TypeOK, RingConsistent
    <3>2. data'[Hop(first, k)] = data[Hop(first, k)] BY <3>1, <2>1 DEF TypeOK, Enqueue
    <3> QED BY <3>2, <2>3, <1>1 DEF RingConsistent, Enqueue
  <2> QED BY <2>2, <2>3
<1>5. RingConsistent' BY <1>3, <1>4 DEF RingConsistent
<1> QED BY <1>2, <1>5 DEF NoLeak, Enqueue

\* A removal from a ring that is not empty keeps the representation consistent.
LEMMA DequeueIInv ==
  ASSUME IInv, OSAL_Dequeue
  PROVE  IInv'
<1> USE NodeCountPos, QueueAssumption DEF IInv
<1>1. CASE data[first] = NULL \/ numElem <= 0
  <2>1. UNCHANGED <<created, alloc, data, first, last, numElem>> /\ ret' = NULL
    <3>1. ~(data[first] # NULL /\ numElem > 0) BY <1>1 DEF TypeOK
    <3> QED BY <3>1, Zenon DEF OSAL_Dequeue
  <2> QED BY <2>1 DEF TypeOK, RingConsistent, NoLeak
<1>2. CASE data[first] # NULL /\ numElem > 0
  <2>1. /\ ret' = data[first]
        /\ data' = [data EXCEPT ![first] = NULL]
        /\ first' = qNext(first)
        /\ numElem' = numElem - 1
        /\ UNCHANGED <<created, alloc, last>>
    <3>1. ~(data[first] = NULL \/ numElem <= 0) BY <1>2 DEF TypeOK
    <3> QED BY <3>1, Zenon DEF OSAL_Dequeue
  <2>2. TypeOK' BY <2>1, <1>2, HopNext DEF TypeOK
  <2>3. Hop(first', numElem') = Hop(first, numElem)
    <3>1. numElem - 1 \in 0 .. NodeCount - 1 BY <1>2 DEF TypeOK
    <3>2. Hop(qNext(first), numElem - 1) = Hop(first, (numElem - 1) + 1)
      BY <3>1, HopNext DEF TypeOK
    <3> QED BY <3>2, <2>1 DEF TypeOK
  <2>4. ASSUME NEW k \in 0 .. NodeCount - 1
        PROVE  data'[Hop(first', k)] # NULL <=> k < numElem'
    <3>1. Hop(first', k) = Hop(first, k + 1) /\ Hop(first, k + 1) \in Nodes
      <4>1. Hop(qNext(first), k) = Hop(first, k + 1) BY HopNext DEF TypeOK
      <4>2. Hop(qNext(first), k) \in Nodes BY HopNext DEF TypeOK
      <4> QED BY <4>1, <4>2, <2>1
    <3>2. CASE k = NodeCount - 1
      <4>1. Hop(first', k) = first BY <3>1, <3>2, HopNext DEF TypeOK
      <4>2. data'[first] = NULL BY <2>1 DEF TypeOK
      <4> QED BY <4>1, <4>2, <2>1, <3>2 DEF TypeOK
    <3>3. CASE k # NodeCount - 1
      <4>1. k + 1 \in 0 .. NodeCount - 1 BY <3>3
      <4>2. Hop(first, k + 1) # first
        BY <4>1, HopInjective, HopNext DEF TypeOK
      <4>3. data'[Hop(first', k)] = data[Hop(first, k + 1)]
        BY <4>2, <3>1, <2>1 DEF TypeOK
      <4> QED BY <4>1, <4>3, <2>1 DEF RingConsistent, TypeOK
    <3> QED BY <3>2, <3>3
  <2>5. RingConsistent' BY <2>1, <2>3, <2>4 DEF RingConsistent
  <2> QED BY <2>1, <2>2, <2>5 DEF NoLeak
<1> QED BY <1>1, <1>2 DEF TypeOK

\* Every step of the queue keeps the inductive invariant.
LEMMA NextIInv == IInv /\ [Next]_vars => IInv'
<1> SUFFICES ASSUME IInv, [Next]_vars PROVE IInv'
  OBVIOUS
<1> USE NodeCountPos, QueueAssumption
<1>1. CASE OSAL_QueueCreate
  <2> USE <1>1 DEF OSAL_QueueCreate
  <2>1. data' \in [Nodes -> Elems \cup {NULL}] /\ created' \in BOOLEAN BY Zenon
  <2>2. TypeOK' BY <2>1 DEF TypeOK
  <2>3. RingConsistent' BY HopNext DEF RingConsistent
  <2> QED BY <2>2, <2>3 DEF IInv, NoLeak
<1>2. CASE OSAL_QueueCreateFails
  BY <1>2 DEF OSAL_QueueCreateFails, IInv, TypeOK, RingConsistent, NoLeak
<1>3. CASE OSAL_QueueTerminate
  <2> USE <1>3 DEF OSAL_QueueTerminate
  <2>1. data' \in [Nodes -> Elems \cup {NULL}] /\ created' \in BOOLEAN BY Zenon
  <2>2. \A m \in Nodes : m \in {Hop(first, k) : k \in 0 .. maxElem - 2}
    BY HopCovers DEF IInv, TypeOK, NodeCount
  <2>3. alloc' = {} BY <2>2 DEF IInv, TypeOK
  <2>4. TypeOK' BY <2>1, <2>3 DEF TypeOK
  <2>5. RingConsistent' BY HopNext DEF RingConsistent
  <2> QED BY <2>3, <2>4, <2>5 DEF IInv, NoLeak
<1>4. ASSUME NEW d \in Items, OSAL_Queue(d) PROVE IInv'
  <2>1. CASE Reject BY <2>1 DEF Reject, IInv, TypeOK, RingConsistent, NoLeak
  <2>2. CASE created /\ ~IsFull /\ Enqueue(d) BY <2>2, EnqueueIInv DEF Elems
  <2> QED BY <1>4, <2>1, <2>2 DEF OSAL_Queue
<1>5. ASSUME NEW d \in SetItems, OSAL_QueueSetElem(d) PROVE IInv'
  <2>1. CASE Reject BY <2>1 DEF Reject, IInv, TypeOK, RingConsistent, NoLeak
  <2>2. CASE created /\ ~IsFull /\ Enqueue(d) BY <2>2, EnqueueIInv DEF Elems
  <2>3. CASE ret' = "ok" /\ UNCHANGED <<created, alloc, data, first, last, numElem>>
    BY <2>3 DEF IInv, TypeOK, RingConsistent, NoLeak
  <2> QED BY <1>5, <2>1, <2>2, <2>3 DEF OSAL_QueueSetElem
<1>6. CASE OSAL_Dequeue BY <1>6, DequeueIInv
<1>7. CASE UNCHANGED vars
  BY <1>7 DEF vars, IInv, TypeOK, RingConsistent, NoLeak
<1> QED BY <1>1, <1>2, <1>3, <1>4, <1>5, <1>6, <1>7 DEF Next

\* For every ring size the representation stays consistent, well typed and
\* free of leaks, through any sequence of queue operations.
THEOREM QueueInvariant == Spec => []IInv
BY InitIInv, NextIInv, PTL DEF Spec

\* OSAL_QueueCreate, OSAL_QueueTerminate, OSAL_Queue, OSAL_QueueSetElem and
\* OSAL_Dequeue keep the count, the pointers and the null marks in agreement.
THEOREM QueueConsistent == Spec => []RingConsistent
<1>1. IInv => RingConsistent BY DEF IInv
<1> QED BY <1>1, QueueInvariant, PTL

\* Tearing the queue down frees every node it allocated.
THEOREM QueueNoLeak == Spec => []NoLeak
<1>1. IInv => NoLeak BY DEF IInv
<1> QED BY <1>1, QueueInvariant, PTL
-----------------------------------------------------------------------------
(* The ring implements a bounded FIFO. *)

\* The m elements of the ring D from the node f.
Listed(D, f, m) == [i \in 1 .. m |-> D[Hop(f, i - 1)]]

\* In a consistent ring they are a sequence of m elements.
LEMMA ListedSeq ==
  ASSUME NEW D \in [Nodes -> Elems \cup {NULL}], NEW f \in Nodes, NEW m \in 0 .. NodeCount,
         \A k \in 0 .. NodeCount - 1 : D[Hop(f, k)] # NULL <=> k < m
  PROVE  /\ Listed(D, f, m) \in Seq(Elems) /\ Len(Listed(D, f, m)) = m
         /\ \A i \in 1 .. m : Listed(D, f, m)[i] = D[Hop(f, i - 1)]
         /\ Listed(D, f, m) = <<>> <=> m = 0
<1> USE NodeCountPos, QueueAssumption
<1>1. \A i \in 1 .. m : D[Hop(f, i - 1)] \in Elems
  <2>1. SUFFICES ASSUME NEW i \in 1 .. m PROVE D[Hop(f, i - 1)] \in Elems
    OBVIOUS
  <2>2. i - 1 \in 0 .. NodeCount - 1 /\ i - 1 < m OBVIOUS
  <2>3. Hop(f, i - 1) \in Nodes BY <2>2, HopNext
  <2>4. D[Hop(f, i - 1)] # NULL BY <2>2
  <2> QED BY <2>3, <2>4
<1>2. Listed(D, f, m) \in [1 .. m -> Elems] BY <1>1 DEF Listed
<1>3. Listed(D, f, m) \in Seq(Elems) /\ Len(Listed(D, f, m)) = m BY <1>2
<1>4. Listed(D, f, m) = <<>> <=> m = 0 BY <1>3, EmptySeq
<1>5. \A i \in 1 .. m : Listed(D, f, m)[i] = D[Hop(f, i - 1)] BY DEF Listed
<1> QED BY <1>3, <1>4, <1>5

\* The contents before and after a step, as such a list.
LEMMA ContentsSeq ==
  ASSUME IInv, IInv'
  PROVE  /\ Contents \in Seq(Elems) /\ Len(Contents) = numElem
         /\ \A i \in 1 .. numElem : Contents[i] = data[Hop(first, i - 1)]
         /\ Contents = <<>> <=> numElem = 0
         /\ Contents' \in Seq(Elems) /\ Len(Contents') = numElem'
         /\ \A i \in 1 .. numElem' : Contents'[i] = data'[Hop(first', i - 1)]
         /\ Contents' = <<>> <=> numElem' = 0
<1>1. Contents = Listed(data, first, numElem) /\ Contents' = Listed(data', first', numElem')
  BY DEF Contents, Listed
<1>2. /\ data \in [Nodes -> Elems \cup {NULL}] /\ first \in Nodes /\ numElem \in 0 .. NodeCount
      /\ \A k \in 0 .. NodeCount - 1 : data[Hop(first, k)] # NULL <=> k < numElem
  BY DEF IInv, TypeOK, RingConsistent
<1>3. /\ data' \in [Nodes -> Elems \cup {NULL}] /\ first' \in Nodes /\ numElem' \in 0 .. NodeCount
      /\ \A k \in 0 .. NodeCount - 1 : data'[Hop(first', k)] # NULL <=> k < numElem'
  BY DEF IInv, TypeOK, RingConsistent
<1>4. /\ Contents \in Seq(Elems) /\ Len(Contents) = numElem
      /\ \A i \in 1 .. numElem : Contents[i] = data[Hop(first, i - 1)]
      /\ Contents = <<>> <=> numElem = 0
  BY <1>1, <1>2, ListedSeq
<1>5. /\ Contents' \in Seq(Elems) /\ Len(Contents') = numElem'
      /\ \A i \in 1 .. numElem' : Contents'[i] = data'[Hop(first', i - 1)]
      /\ Contents' = <<>> <=> numElem' = 0
  BY <1>1, <1>3, ListedSeq
<1> QED BY <1>4, <1>5

\* An insertion appends to the contents.
LEMMA EnqueueAppends ==
  ASSUME IInv, NEW d \in Elems, created, ~IsFull, Enqueue(d)
  PROVE  Contents' = Append(Contents, d)
<1> USE NodeCountPos, QueueAssumption
<1>1. IInv' BY EnqueueIInv
<1>2. TypeOK /\ RingConsistent BY DEF IInv
<1>3. numElem \in 0 .. NodeCount - 1 /\ numElem' = numElem + 1 /\ first' = first
  BY <1>2, FullEmpty DEF TypeOK, Enqueue
<1>4. /\ Contents \in Seq(Elems) /\ Len(Contents) = numElem
      /\ \A i \in 1 .. numElem : Contents[i] = data[Hop(first, i - 1)]
  BY <1>1, ContentsSeq
<1>5. /\ Contents' \in Seq(Elems) /\ Len(Contents') = numElem + 1
      /\ \A i \in 1 .. numElem + 1 : Contents'[i] = data'[Hop(first, i - 1)]
  BY <1>1, <1>3, ContentsSeq
<1>6. ASSUME NEW i \in 1 .. numElem + 1 PROVE Contents'[i] = Append(Contents, d)[i]
  <2>1. i - 1 \in 0 .. NodeCount - 1 BY <1>3
  <2>2. Hop(first, i - 1) \in Nodes BY <1>2, <2>1, HopNext DEF TypeOK
  <2>3. CASE i = numElem + 1
    <3>1. Hop(first, i - 1) = last BY <1>2, <1>3, <2>3 DEF RingConsistent
    <3>2. data'[Hop(first, i - 1)] = d BY <1>2, <2>2, <3>1 DEF Enqueue, TypeOK
    <3> QED BY <1>4, <1>5, <2>3, <3>2
  <2>4. CASE i # numElem + 1
    <3>1. Hop(first, i - 1) # last
      BY <1>2, <1>3, <2>1, <2>4, HopInjective DEF RingConsistent, TypeOK
    <3>2. data'[Hop(first, i - 1)] = data[Hop(first, i - 1)] BY <1>2, <2>2, <3>1 DEF Enqueue, TypeOK
    <3>3. i \in 1 .. numElem BY <1>3, <2>4
    <3> QED BY <1>4, <1>5, <3>2, <3>3
  <2> QED BY <2>3, <2>4
<1>7. Append(Contents, d) \in Seq(Elems) /\ Len(Append(Contents, d)) = numElem + 1
  BY <1>4
<1> QED BY <1>5, <1>6, <1>7, SeqEqual

\* A removal takes the head.
LEMMA DequeueTakes ==
  ASSUME IInv, OSAL_Dequeue, numElem > 0
  PROVE  Contents # <<>> /\ Contents' = Tail(Contents) /\ ret' = Head(Contents) /\ UNCHANGED created
<1> USE NodeCountPos, QueueAssumption
<1>1. IInv' BY DequeueIInv
<1>2. TypeOK /\ RingConsistent BY DEF IInv
<1>3. data[first] # NULL /\ numElem \in Nat BY <1>2, FullEmpty DEF TypeOK
<1>4. /\ ret' = data[first] /\ data' = [data EXCEPT ![first] = NULL] /\ first' = qNext(first)
      /\ numElem' = numElem - 1 /\ UNCHANGED created
  <2>1. ~(data[first] = NULL \/ numElem <= 0) BY <1>3
  <2> QED BY <2>1, Zenon DEF OSAL_Dequeue
<1>5. /\ Contents \in Seq(Elems) /\ Len(Contents) = numElem
      /\ \A i \in 1 .. numElem : Contents[i] = data[Hop(first, i - 1)]
  BY <1>1, ContentsSeq
<1>6. /\ Contents' \in Seq(Elems) /\ Len(Contents') = numElem - 1
      /\ \A i \in 1 .. numElem - 1 : Contents'[i] = data'[Hop(qNext(first), i - 1)]
  BY <1>1, <1>4, ContentsSeq
<1>7. Contents # <<>> BY <1>3, <1>5
<1>8. Head(Contents) = data[first]
  <2>1. Hop(first, 0) = first BY <1>2, HopNext DEF TypeOK
  <2>2. 1 \in 1 .. numElem /\ 1 - 1 = 0 BY <1>3
  <2>3. Contents[1] = data[Hop(first, 0)] BY <1>5, <2>2
  <2> QED BY <1>5, <1>7, <2>1, <2>3
<1>9. Tail(Contents) \in Seq(Elems) /\ Len(Tail(Contents)) = numElem - 1
      /\ \A i \in 1 .. numElem - 1 : Tail(Contents)[i] = Contents[i + 1]
  BY <1>3, <1>5, <1>7, HeadTailProperties
<1>10. ASSUME NEW i \in 1 .. numElem - 1 PROVE Contents'[i] = Tail(Contents)[i]
  <2>1. i - 1 \in 0 .. NodeCount - 1 /\ i \in 0 .. NodeCount - 1 /\ i + 1 \in 1 .. numElem /\ (i - 1) + 1 = i
        /\ (i + 1) - 1 = i /\ i # 0
    BY <1>2, <1>3 DEF TypeOK
  <2>2. Hop(qNext(first), i - 1) = Hop(first, (i - 1) + 1) BY <1>2, <2>1, HopNext DEF TypeOK
  <2>3. Hop(first, i) \in Nodes BY <1>2, <2>1, HopNext DEF TypeOK
  <2>4. Hop(first, i) # first
    <3>1. Hop(first, 0) = first /\ 0 \in 0 .. NodeCount - 1 BY <1>2, HopNext DEF TypeOK
    <3> QED BY <1>2, <2>1, <3>1, HopInjective DEF TypeOK
  <2>5. data'[Hop(first, i)] = data[Hop(first, i)] BY <1>2, <1>4, <2>3, <2>4 DEF TypeOK
  <2>6. Contents'[i] = data[Hop(first, i)] BY <1>6, <2>1, <2>2, <2>5
  <2>7. Contents[i + 1] = data[Hop(first, i)]
    <3>1. Contents[i + 1] = data[Hop(first, (i + 1) - 1)] BY <1>5, <2>1
    <3> QED BY <2>1, <3>1
  <2> QED BY <1>9, <2>6, <2>7
<1>11. Contents' = Tail(Contents) BY <1>6, <1>9, <1>10, SeqEqual
<1> QED BY <1>4, <1>7, <1>8, <1>11

\* Every step of the ring is a step of the FIFO or leaves it alone.
LEMMA FifoStep == IInv /\ [Next]_vars => [Fifo!Next]_(Fifo!fifoVars)
<1> SUFFICES ASSUME IInv, [Next]_vars PROVE Fifo!Next \/ UNCHANGED Fifo!fifoVars
  OBVIOUS
<1> USE NodeCountPos, QueueAssumption
<1>1. IInv' BY NextIInv
<1>2. TypeOK /\ RingConsistent BY DEF IInv
<1>3. /\ Contents \in Seq(Elems) /\ Len(Contents) = numElem
      /\ \A i \in 1 .. numElem : Contents[i] = data[Hop(first, i - 1)]
      /\ Contents = <<>> <=> numElem = 0
      /\ Contents' = <<>> <=> numElem' = 0
  BY <1>1, ContentsSeq
<1>4. UNCHANGED <<data, first, numElem>> => Contents' = Contents BY DEF Contents, Hop
<1>5. (IsFull <=> numElem = NodeCount) /\ (data[first] = NULL <=> numElem = 0)
  BY <1>2, FullEmpty
<1>6. CASE OSAL_QueueCreate
  <2>1. Fifo!Open BY <1>3, <1>6 DEF OSAL_QueueCreate, Fifo!Open
  <2> QED BY <2>1 DEF Fifo!Next
<1>7. CASE OSAL_QueueCreateFails
  <2>1. Fifo!OpenFails BY <1>4, <1>7 DEF OSAL_QueueCreateFails, Fifo!OpenFails
  <2> QED BY <2>1 DEF Fifo!Next
<1>8. CASE OSAL_QueueTerminate
  <2>1. Fifo!Close BY <1>3, <1>8 DEF OSAL_QueueTerminate, Fifo!Close
  <2> QED BY <2>1 DEF Fifo!Next
<1>9. ASSUME created, IsFull, Reject PROVE Fifo!Next
  <2>1. Fifo!PutFull BY <1>3, <1>4, <1>5, <1>9 DEF Reject, Fifo!PutFull
  <2> QED BY <2>1 DEF Fifo!Next
<1>10. ASSUME NEW d \in Elems, created, ~IsFull, Enqueue(d) PROVE Fifo!Next
  <2>1. Contents' = Append(Contents, d) BY <1>10, EnqueueAppends
  <2>2. Len(Contents) < NodeCount BY <1>2, <1>3, <1>5, <1>10 DEF TypeOK
  <2>3. Fifo!Put(d) BY <1>10, <2>1, <2>2 DEF Enqueue, Fifo!Put
  <2> QED BY <2>3 DEF Fifo!Next
<1>11. ASSUME NEW d \in Items, OSAL_Queue(d) PROVE Fifo!Next
  BY <1>9, <1>10, <1>11 DEF OSAL_Queue, Elems
<1>12. ASSUME NEW d \in SetItems, OSAL_QueueSetElem(d) PROVE Fifo!Next
  <2>1. CASE ~IsFull /\ SameElem(d) /\ ret' = "ok" /\ UNCHANGED <<created, alloc, data, first, last, numElem>>
    <3>1. data[last] # d BY <2>1 DEF IsFull
    <3>2. data[first] = d /\ numElem > 0 BY <2>1, <3>1 DEF SameElem
    <3>3. Hop(first, 0) = first BY <1>2, HopNext DEF TypeOK
    <3>4. 1 \in 1 .. Len(Contents) /\ 1 - 1 = 0 BY <1>2, <1>3, <3>2 DEF TypeOK
    <3>5. Contents[1] = d BY <1>3, <3>2, <3>3, <3>4
    <3>6. Contents' = Contents BY <1>4, <2>1
    <3>7. Fifo!PutKnown(d) BY <1>12, <2>1, <3>4, <3>5, <3>6 DEF Fifo!PutKnown, OSAL_QueueSetElem
    <3> QED BY <3>7 DEF Fifo!Next, Elems
  <2>2. CASE IsFull /\ Reject BY <1>9, <1>12, <2>2 DEF OSAL_QueueSetElem
  <2>3. CASE ~IsFull /\ Enqueue(d) BY <1>10, <1>12, <2>3 DEF OSAL_QueueSetElem, Elems
  <2> QED BY <1>12, <2>1, <2>2, <2>3 DEF OSAL_QueueSetElem
<1>13. CASE OSAL_Dequeue
  <2>1. CASE numElem > 0
    <3>1. Contents # <<>> /\ Contents' = Tail(Contents) /\ ret' = Head(Contents) /\ UNCHANGED created
      BY <1>13, <2>1, DequeueTakes
    <3>2. Fifo!Get BY <1>13, <3>1 DEF Fifo!Get, OSAL_Dequeue
    <3> QED BY <3>2 DEF Fifo!Next
  <2>2. CASE ~(numElem > 0)
    <3>1. numElem = 0 BY <1>2, <2>2 DEF TypeOK
    <3>2. ret' = NULL /\ UNCHANGED <<created, data, first, numElem>> BY <1>13, <2>2, Zenon DEF OSAL_Dequeue
    <3>3. Fifo!GetEmpty BY <1>3, <1>4, <1>13, <3>1, <3>2 DEF Fifo!GetEmpty, OSAL_Dequeue
    <3> QED BY <3>3 DEF Fifo!Next
  <2> QED BY <2>1, <2>2
<1>14. CASE UNCHANGED vars BY <1>4, <1>14 DEF vars, Fifo!fifoVars
<1> QED BY <1>6, <1>7, <1>8, <1>11, <1>12, <1>13, <1>14 DEF Next

\* The ring of heap nodes, the two pointers, the count and the null marks implement
\* a first-in first-out queue of maxElem - 1 places, for every maxElem and all elements.
THEOREM QueueIsFifo == Spec => ImplementsFifo
<1>1. Init => Fifo!Init
  <2>1. SUFFICES ASSUME Init PROVE Contents = <<>> BY DEF Init, Fifo!Init
  <2>2. numElem = 0 BY <2>1 DEF Init
  <2> QED BY <2>2 DEF Contents
<1>2. IInv /\ [Next]_vars => [Fifo!Next]_(Fifo!fifoVars) BY FifoStep
<1> QED BY <1>1, <1>2, QueueInvariant, PTL DEF Spec, ImplementsFifo, Fifo!Spec
=============================================================================
