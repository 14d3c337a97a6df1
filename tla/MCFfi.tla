-------------------------------- MODULE MCFfi --------------------------------
(* Small instances of Ffi for TLC. *)
EXTENDS Scans

CONSTANTS t1, t2

MCThread == {t1, t2}
OneAdmin == {t1}

Row(rtt, errors) == [ZeroMetric EXCEPT !.rtt = rtt, !.recent_errors = errors]

\* Not measured; with an RTT and an error; beyond u64::MAX with its error.
SomeRows == {Row(0, 0), Row(300, 1), Row(U64Max, 1)}
==============================================================================
