------------------------------ MODULE Channel ------------------------------
(***************************************************************************)
(* What the broker and a subscriber promise together: every event that was *)
(* put on the subscriber's queue is heard, in that order and none skipped. *)
(* A redelivered event may be heard again right after the first time,      *)
(* which is a stutter here.  EventBus.tla implements it twice.             *)
(***************************************************************************)
EXTENDS Integers, Sequences

CONSTANT Events

VARIABLES
    sent,   \* the events put on the queue so far
    heard   \* the events the subscriber has written down so far

Init == sent = <<>> /\ heard = <<>>

Send ==
    /\ \E e \in Events : sent' = Append(sent, e)
    /\ UNCHANGED heard

Hear ==
    /\ Len(heard) < Len(sent)
    /\ heard' = Append(heard, sent[Len(heard) + 1])
    /\ UNCHANGED sent

Next == Send \/ Hear

Spec == Init /\ [][Next]_<<sent, heard>>

=============================================================================
