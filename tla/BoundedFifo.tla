---------------------------- MODULE BoundedFifo ----------------------------
(***************************************************************************)
(* What a RingBuffer promises to the one thread that pushes into it and    *)
(* the one thread that pops from it: a first-in first-out queue that holds *)
(* at most Capacity items.  Every call takes effect in a single instant    *)
(* between its invocation and its return; a push is refused only in an     *)
(* instant at which the queue is full, a pop comes back empty only in an   *)
(* instant at which the queue is empty.                                    *)
(***************************************************************************)
EXTENDS Naturals, Sequences

CONSTANTS Items,      \* what can be pushed
          Capacity,   \* how many items the queue holds
          NoItem      \* std::nullopt, and "no argument"

VARIABLES queue,      \* the items pushed and not yet popped, oldest first
          arg,        \* the argument of the push in progress, else NoItem
          pushed,     \* the result of the last push
          popped      \* the result of the last pop

vars == <<queue, arg, pushed, popped>>

Init == /\ queue = <<>>
        /\ arg = NoItem
        /\ pushed = FALSE
        /\ popped = NoItem

(* The producer calls push(item). *)
CallPush(item) == /\ arg = NoItem
                  /\ arg' = item
                  /\ UNCHANGED <<queue, pushed, popped>>

(* The push in progress appends its item and returns true. *)
Push == /\ arg # NoItem
        /\ Len(queue) < Capacity
        /\ queue' = Append(queue, arg)
        /\ arg' = NoItem
        /\ pushed' = TRUE
        /\ UNCHANGED popped

(* The push in progress finds the queue full and returns false. *)
RefusePush == /\ arg # NoItem
              /\ Len(queue) = Capacity
              /\ arg' = NoItem
              /\ pushed' = FALSE
              /\ UNCHANGED <<queue, popped>>

(* A pop takes the oldest item. *)
Pop == /\ queue # <<>>
       /\ popped' = Head(queue)
       /\ queue' = Tail(queue)
       /\ UNCHANGED <<arg, pushed>>

(* A pop finds the queue empty. *)
PopEmpty == /\ queue = <<>>
            /\ popped' = NoItem
            /\ UNCHANGED <<queue, arg, pushed>>

Next == \/ \E item \in Items : CallPush(item)
        \/ Push
        \/ RefusePush
        \/ Pop
        \/ PopEmpty

Spec == Init /\ [][Next]_vars
=============================================================================
