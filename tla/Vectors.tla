-------------------------------- MODULE Vectors --------------------------------
(* Vec::remove of the standard library, for sequences counted from 1.      *)
EXTENDS Integers, Sequences

\* The elements behind position i move up by one.
RemoveAt(s, i) == [j \in 1..(Len(s) - 1) |-> IF j < i THEN s[j] ELSE s[j + 1]]
===============================================================================
