----------------------------- MODULE BoundedFifo -----------------------------
(***************************************************************************)
(* What the camera HAL expects of an OSAL queue: a first-in first-out      *)
(* queue of non-null elements with a fixed capacity, whose operations are  *)
(* atomic and report success, "full" or "empty".                           *)
(***************************************************************************)
EXTENDS Naturals, Sequences

CONSTANTS Elems,      \* the elements (non-null pointers)
          NULL,       \* the null pointer, returned by Get on an empty queue
          Capacity    \* how many elements fit

VARIABLES open,       \* the queue exists
          q,          \* its contents, oldest first
          result      \* what the last operation returned

fifoVars == <<open, q, result>>

Init == open = FALSE /\ q = <<>> /\ result = NULL

Open == /\ ~open
        /\ open' = TRUE /\ q' = <<>> /\ result' = "ok"

OpenFails == /\ ~open
             /\ result' = "error"
             /\ UNCHANGED <<open, q>>

Put(d) == /\ open
          /\ Len(q) < Capacity
          /\ q' = Append(q, d) /\ result' = "ok"
          /\ UNCHANGED open

PutFull == /\ open
           /\ Len(q) = Capacity
           /\ result' = "full"
           /\ UNCHANGED <<open, q>>

\* A put that is suppressed because the element is already waiting.
PutKnown(d) == /\ open
               /\ \E i \in 1 .. Len(q) : q[i] = d
               /\ result' = "ok"
               /\ UNCHANGED <<open, q>>

Get == /\ open
       /\ q # <<>>
       /\ q' = Tail(q) /\ result' = Head(q)
       /\ UNCHANGED open

GetEmpty == /\ open
            /\ q = <<>>
            /\ result' = NULL
            /\ UNCHANGED <<open, q>>

Close == /\ open
         /\ open' = FALSE /\ q' = <<>> /\ result' = "ok"

Next == \/ Open \/ OpenFails \/ Close
        \/ PutFull \/ Get \/ GetEmpty
        \/ \E d \in Elems : Put(d) \/ PutKnown(d)

Spec == Init /\ [][Next]_fifoVars
=============================================================================
