------------------------------- MODULE MCJtag -------------------------------
(* The serial port on small instances, for TLC.  One direction with two        *)
(* characters, so that an order can be told, or both directions with one.      *)
EXTENDS JtagUart

CONSTANTS a, b

Out == [clock |-> FALSE, max |-> 3, nb |-> BOOLEAN, tx |-> {a, b}, rx |-> {}]
In  == [clock |-> FALSE, max |-> 3, nb |-> {FALSE}, tx |-> {}, rx |-> {a, b}]
Both == [clock |-> FALSE, max |-> 1, nb |-> {FALSE}, tx |-> {a}, rx |-> {a}]

\* The clock matters to waiting calls.
OutTimed == [clock |-> TRUE, max |-> 1, nb |-> {FALSE}, tx |-> {a}, rx |-> {}]
InTimed  == [clock |-> TRUE, max |-> 1, nb |-> BOOLEAN, tx |-> {}, rx |-> {a}]
OutLong  == [clock |-> FALSE, max |-> 3, nb |-> BOOLEAN, tx |-> {a}, rx |-> {}]

SafetySettings == {Out, In, Both, OutTimed, InTimed}
LiveSettings   == {OutTimed, InTimed, OutLong}

=============================================================================
