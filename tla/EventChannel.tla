---------------------------- MODULE EventChannel ----------------------------
(***************************************************************************)
(* What the result event sink and the logger promise their callers: a      *)
(* channel that delivers the events put into it in order, each at most     *)
(* once, and that loses an event only while it is closed.                  *)
(*                                                                         *)
(* Events are numbered in the order in which they are put.                 *)
(***************************************************************************)
EXTENDS Integers, Sequences

VARIABLES
  open,      \* nothing may be lost
  put,       \* the number of events put
  pending,   \* events still to be delivered
  received   \* events delivered

vars == <<open, put, pending, received>>

Init ==
  /\ open = FALSE
  /\ put = 0
  /\ pending = <<>>
  /\ received = <<>>

Open ==
  /\ ~ open
  /\ open' = TRUE
  /\ UNCHANGED <<put, pending, received>>

Close ==
  /\ open
  /\ open' = FALSE
  /\ UNCHANGED <<put, pending, received>>

Put ==
  /\ put' = put + 1
  /\ pending' = Append(pending, put')
  /\ UNCHANGED <<open, received>>

Deliver ==
  /\ pending # <<>>
  /\ received' = Append(received, Head(pending))
  /\ pending' = Tail(pending)
  /\ UNCHANGED <<open, put>>

(* A closed channel may give up its first event, or all of them.           *)
Drop ==
  /\ ~ open
  /\ pending # <<>>
  /\ pending' \in {Tail(pending), <<>>}
  /\ UNCHANGED <<open, put, received>>

Next == Open \/ Close \/ Put \/ Deliver \/ Drop

Spec == Init /\ [][Next]_vars

(* The reader gets the events in the order in which they were put, and     *)
(* none of them twice.                                                     *)
InOrder == \A i, j \in DOMAIN received : i < j => received[i] < received[j]
=============================================================================
