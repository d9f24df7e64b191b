----------------------------- MODULE FifoQueue -----------------------------
(***************************************************************************)
(* What a single-producer single-consumer FIFO promises to its two         *)
(* threads: a sequence of whole elements, appended at one end and removed  *)
(* at the other, each operation in one step.                               *)
(*                                                                         *)
(* CircularFifo is shown to implement this specification.                  *)
(***************************************************************************)
EXTENDS Naturals, Sequences

CONSTANTS
  Size,       (* how many elements the queue holds                         *)
  Element,    (* the messages                                              *)
  NoElement   (* "nothing": no element offered, none delivered yet         *)

VARIABLES
  queue,      (* the elements not yet popped, oldest first                 *)
  offered,    (* the argument of the push in progress, or NoElement        *)
  delivered   (* what the last successful pop returned, or NoElement       *)

absVars == <<queue, offered, delivered>>

AbsInit ==
  /\ queue = <<>>
  /\ offered = NoElement
  /\ delivered = NoElement

Offer(e) ==
  /\ offered = NoElement
  /\ offered' = e
  /\ UNCHANGED <<queue, delivered>>

(* The element offered, whole and unchanged, becomes the newest one.       *)
Enqueue ==
  /\ offered # NoElement
  /\ Len(queue) < Size
  /\ queue' = Append(queue, offered)
  /\ offered' = NoElement
  /\ UNCHANGED delivered

(* The queue may be too full for the element offered: nothing changes but  *)
(* that the push is over.                                                  *)
Refuse ==
  /\ offered # NoElement
  /\ offered' = NoElement
  /\ UNCHANGED <<queue, delivered>>

Dequeue ==
  /\ queue # <<>>
  /\ delivered' = Head(queue)
  /\ queue' = Tail(queue)
  /\ UNCHANGED offered

AbsNext ==
  \/ \E e \in Element : Offer(e)
  \/ Enqueue
  \/ Refuse
  \/ Dequeue

AbsSpec == AbsInit /\ [][AbsNext]_absVars
============================================================================
