----------------------------- MODULE SerialLine -----------------------------
(***************************************************************************)
(* What a user of the serial port is promised: two bounded first-in        *)
(* first-out queues, one from the program to the terminal and one back.    *)
(* Nothing that was accepted is lost, repeated or overtaken.               *)
(*                                                                         *)
(* JtagUart implements it with a ring buffer of the driver and a queue of  *)
(* the device in each direction.                                           *)
(***************************************************************************)
EXTENDS Naturals, Sequences

CONSTANTS Char, Capacity

VARIABLES outgoing, incoming

Init == outgoing = <<>> /\ incoming = <<>>

\* write() takes in some characters, behind those it took before.
Accept == /\ outgoing' \in Seq(Char)
          /\ Len(outgoing') \in Len(outgoing) + 1 .. Capacity
          /\ SubSeq(outgoing', 1, Len(outgoing)) = outgoing
          /\ UNCHANGED incoming

\* The terminal gets the oldest one.
Deliver == /\ outgoing # <<>>
           /\ outgoing' = Tail(outgoing)
           /\ UNCHANGED incoming

\* A key is typed at the terminal.
Typed == /\ \E c \in Char : incoming' = Append(incoming, c)
         /\ Len(incoming') <= Capacity
         /\ UNCHANGED outgoing

\* read() hands over some of the oldest.
HandOver == /\ \E n \in 1 .. Len(incoming) :
                 incoming' = SubSeq(incoming, n + 1, Len(incoming))
            /\ UNCHANGED outgoing

Next == Accept \/ Deliver \/ Typed \/ HandOver

Spec == Init /\ [][Next]_<<outgoing, incoming>>

=============================================================================
