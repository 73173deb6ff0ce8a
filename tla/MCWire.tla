------------------------------- MODULE MCWire --------------------------------
(* Instances of Wire for TLC. *)
EXTENDS Wire

\* An unflagged type and one with NLA_F_NESTED set.
MCTypes == {3, 32771}

\* Lengths below the header, at it, with every padding, up to the end of the
\* largest buffer and past it.
MCLens == {0, 3, 4, 5, 7, 8, 9, 12, 15, 16, 65535}
=============================================================================
