---------------------------- MODULE CircularFifo ----------------------------
(***************************************************************************)
(* CircularFifo<Element, Size> (core/circularFIFO.hpp): the lock-free ring *)
(* between the emulation thread and the GS thread.  One thread pushes, one *)
(* pops, with no lock.  Each function is split at every access to what the *)
(* two threads share:                                                      *)
(*                                                                         *)
(*   - an element is several words, so copying one into a slot (or out of  *)
(*     it) is not atomic: the slot is torn from WriteSlot to WroteSlot,    *)
(*     and an element is read between PopCheck and ReadSlot;               *)
(*   - an acquire load of the other thread's index may return an older     *)
(*     value of it, though never one older than the same thread has        *)
(*     already seen.  What was written before the index it returns is      *)
(*     visible, because that index was stored with release.                *)
(***************************************************************************)
EXTENDS Integers, Sequences

CONSTANTS
  Size,       (* the template's Size: elements the FIFO can hold           *)
  Element,    (* the template's Element: the messages                      *)
  NoElement   (* the content of a slot that is unwritten or half written   *)

ASSUME SizeAssumption == Size \in Nat \ {0}
ASSUME NoElementAssumption == NoElement \notin Element

Capacity == Size + 1

Index == 0 .. Size

VARIABLES
  tail, head,       (* _tail and _head                                     *)
  array,            (* _array                                              *)
  headSeen,         (* the last _head the producer loaded                  *)
  tailSeen,         (* the last _tail the consumer loaded                  *)
  push,             (* the producer: where it is in push, and its item     *)
  pop,              (* the consumer: where it is in pop, and its copy      *)
  delivered         (* what the last successful pop handed to its caller   *)

producerVars == <<tail, headSeen, push>>
consumerVars == <<head, tailSeen, pop, delivered>>
vars == <<producerVars, consumerVars, array>>

(* increment *)
Increment(idx) == (idx + 1) % Capacity

(* How many slots lie from index i up to index j around the ring.          *)
Distance(i, j) == IF i <= j THEN j - i ELSE j - i + Capacity

(* The slot i places after index h around the ring.                        *)
SlotAfter(h, i) == IF h + i <= Size THEN h + i ELSE h + i - Capacity

Init ==
  /\ tail = 0 /\ head = 0
  /\ array = [i \in Index |-> NoElement]
  /\ headSeen = 0 /\ tailSeen = 0
  /\ push = [at |-> "idle", item |-> NoElement]
  /\ pop = [at |-> "idle", item |-> NoElement]
  /\ delivered = NoElement

-----------------------------------------------------------------------------
(* push *)

(* The caller's message.                                                   *)
PushCall(e) ==
  /\ push.at = "idle"
  /\ push' = [at |-> "check", item |-> e]
  /\ UNCHANGED <<tail, headSeen, consumerVars, array>>

(* The values an acquire load of _head may return.                         *)
HeadLoads == {h \in Index : Distance(headSeen, h) <= Distance(headSeen, head)}

(* next_tail != _head: there is room.                                      *)
PushHasRoom(h) ==
  /\ push.at = "check"
  /\ h \in HeadLoads
  /\ Increment(tail) # h
  /\ headSeen' = h
  /\ push' = [push EXCEPT !.at = "write"]
  /\ UNCHANGED <<tail, consumerVars, array>>

(* The else branch: Errors::die("FIFO FULL!") throws, the message is lost. *)
PushFull(h) ==
  /\ push.at = "check"
  /\ h \in HeadLoads
  /\ Increment(tail) = h
  /\ headSeen' = h
  /\ push' = [at |-> "idle", item |-> NoElement]
  /\ UNCHANGED <<tail, consumerVars, array>>

(* Mutant: the message is written to the slot after _tail.                 *)
WroteNextSlot ==
  /\ push.at = "wrote"
  /\ array' = [array EXCEPT ![Increment(tail)] = push.item]
  /\ push' = [push EXCEPT !.at = "publish"]
  /\ UNCHANGED <<tail, headSeen, consumerVars>>

(* _array[current_tail] = item, first and last word.                       *)
WriteSlot ==
  /\ push.at = "write"
  /\ array' = [array EXCEPT ![tail] = NoElement]
  /\ push' = [push EXCEPT !.at = "wrote"]
  /\ UNCHANGED <<tail, headSeen, consumerVars>>

WroteSlot ==
  /\ push.at = "wrote"
  /\ array' = [array EXCEPT ![tail] = push.item]
  /\ push' = [push EXCEPT !.at = "publish"]
  /\ UNCHANGED <<tail, headSeen, consumerVars>>

(* _tail.store(next_tail, release)                                         *)
Publish ==
  /\ push.at = "publish"
  /\ tail' = Increment(tail)
  /\ push' = [at |-> "idle", item |-> NoElement]
  /\ UNCHANGED <<headSeen, consumerVars, array>>

-----------------------------------------------------------------------------
(* pop *)

(* The values an acquire load of _tail may return.                         *)
TailLoads == {t \in Index : Distance(tailSeen, t) <= Distance(tailSeen, tail)}

(* current_head == _tail: return false.                                    *)
PopEmpty(t) ==
  /\ pop.at = "idle"
  /\ t \in TailLoads
  /\ head = t
  /\ tailSeen' = t
  /\ UNCHANGED <<head, pop, delivered, producerVars, array>>

PopCheck(t) ==
  /\ pop.at = "idle"
  /\ t \in TailLoads
  /\ head # t
  /\ tailSeen' = t
  /\ pop' = [at |-> "read", item |-> array[head]]
  /\ UNCHANGED <<head, delivered, producerVars, array>>

(* item = _array[current_head], last word: a slot that changed since the   *)
(* first word was read yields a torn element.                              *)
ReadSlot ==
  /\ pop.at = "read"
  /\ pop' = [at |-> "release",
             item |-> IF array[head] = pop.item THEN pop.item ELSE NoElement]
  /\ UNCHANGED <<head, tailSeen, delivered, producerVars, array>>

(* _head.store(increment(current_head), release); return true.             *)
Release ==
  /\ pop.at = "release"
  /\ head' = Increment(head)
  /\ delivered' = pop.item
  /\ pop' = [at |-> "idle", item |-> NoElement]
  /\ UNCHANGED <<tailSeen, producerVars, array>>

-----------------------------------------------------------------------------
Producer ==
  \/ \E e \in Element : PushCall(e)
  \/ \E h \in Index : PushHasRoom(h) \/ PushFull(h)
  \/ WriteSlot
  \/ WroteSlot
  \/ Publish

Consumer ==
  \/ \E t \in Index : PopEmpty(t) \/ PopCheck(t)
  \/ ReadSlot
  \/ Release

Next == Producer \/ Consumer

Spec == Init /\ [][Next]_vars

-----------------------------------------------------------------------------
(* Properties *)

TypeOK ==
  /\ tail \in Index /\ head \in Index
  /\ headSeen \in Index /\ tailSeen \in Index
  /\ array \in [Index -> Element \cup {NoElement}]
  /\ push \in [at : {"idle", "check", "write", "wrote", "publish"},
               item : Element \cup {NoElement}]
  /\ pop \in [at : {"idle", "read", "release"},
              item : Element \cup {NoElement}]
  /\ delivered \in Element \cup {NoElement}

(* The slots that hold a message published and not yet consumed.           *)
Live == {i \in Index : Distance(head, i) < Distance(head, tail)}

(* The GS thread reads a message out of a slot with no lock: while it      *)
(* does, the emulation thread must be writing another slot.                *)
NoSlotRace ==
  ~ (push.at \in {"write", "wrote", "publish"} /\ pop.at # "idle"
       /\ tail = head)

(* Every message between _head and _tail is whole, whatever the producer   *)
(* is doing: the release store of _tail comes after the copy.              *)
PublishedWhole == \A i \in Live : array[i] \in Element

(* The indices each thread has seen are never ahead of the other thread    *)
(* and never more than the ring behind it: going round the ring one meets  *)
(* headSeen, _head, tailSeen and _tail in this order.                      *)
SeenInOrder ==
  /\ Distance(headSeen, tail) = Distance(headSeen, head) + Distance(head, tail)
  /\ Distance(head, tail) = Distance(head, tailSeen) + Distance(tailSeen, tail)

(* A producer past its check has left one slot free before the consumer's; *)
(* a consumer past its check owns _head's slot, which still holds the      *)
(* message it is copying.                                                  *)
PushState ==
  /\ push.at # "idle" <=> push.item \in Element
  /\ push.at \in {"write", "wrote", "publish"} => Increment(tail) # headSeen
  /\ push.at = "publish" => array[tail] = push.item

PopState ==
  pop.at # "idle" => head # tailSeen /\ array[head] = pop.item

(* The inductive invariant.                                                *)
IInv == TypeOK /\ SeenInOrder /\ PublishedWhole /\ PushState /\ PopState

(* push and pop are a queue: each message that push accepted is popped     *)
(* once, whole and in order.                                               *)
queueContents ==
  [i \in 1 .. Distance(head, tail) |-> array[SlotAfter(head, i - 1)]]

Queue == INSTANCE FifoQueue WITH
           queue <- queueContents, offered <- push.item

ImplementsQueue == Queue!AbsSpec
=============================================================================
