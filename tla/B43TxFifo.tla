------------------------------ MODULE B43TxFifo ------------------------------
(***************************************************************************)
(* What a transmit ring promises to the driver above it: frames posted are  *)
(* transmitted in order and once each, the memory of a frame is released    *)
(* only after it was transmitted or when the ring is torn down, and a frame *)
(* the ring refuses is released without being transmitted.                 *)
(***************************************************************************)
EXTENDS Sequences, Functions

CONSTANT Frames

VARIABLES
  queue,     \* posted and not yet transmitted, oldest first
  sent,      \* transmitted, in order
  released   \* the frames whose memory was given back

vars == <<queue, sent, released>>

Init ==
  /\ queue = <<>>
  /\ sent = <<>>
  /\ released = {}

Unknown(m) == m \notin Range(queue) \cup Range(sent) \cup released

Post(m) ==
  /\ Unknown(m)
  /\ queue' = Append(queue, m)
  /\ UNCHANGED <<sent, released>>

Refuse(m) ==
  /\ Unknown(m)
  /\ released' = released \cup {m}
  /\ UNCHANGED <<queue, sent>>

Transmit ==
  /\ queue # <<>>
  /\ sent' = Append(sent, Head(queue))
  /\ queue' = Tail(queue)
  /\ UNCHANGED released

Release(m) ==
  /\ m \in Range(sent) \ released
  /\ released' = released \cup {m}
  /\ UNCHANGED <<queue, sent>>

TearDown ==
  /\ released' = released \cup Range(queue) \cup Range(sent)
  /\ queue' = <<>>
  /\ UNCHANGED sent

Next ==
  \/ \E m \in Frames : Post(m) \/ Refuse(m) \/ Release(m)
  \/ Transmit
  \/ TearDown

Spec == Init /\ [][Next]_vars

=============================================================================
