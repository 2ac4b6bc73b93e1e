------------------------------ MODULE Channel ------------------------------
(***************************************************************************)
(* What a message pool with its queue promises: a bounded first-in         *)
(* first-out channel.  A message is refused when the channel is full, and  *)
(* one that was taken in comes out once, in order and unchanged.           *)
(***************************************************************************)
EXTENDS Naturals, Sequences

CONSTANTS Message, Capacity, None

VARIABLES
  chan,      (* messages in the channel, oldest first                      *)
  out        (* the message the receiver took last, None before the first  *)

Init == chan = <<>> /\ out = None

Send(m) == /\ Len(chan) < Capacity
           /\ chan' = Append(chan, m)
           /\ UNCHANGED out

Receive == /\ chan # <<>>
           /\ out' = Head(chan)
           /\ chan' = Tail(chan)

Next == (\E m \in Message : Send(m)) \/ Receive

Spec == Init /\ [][Next]_<<chan, out>>

=============================================================================
