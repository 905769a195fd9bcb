------------------------- MODULE MCResultSetFetch -------------------------
(* Instances of ResultSetFetch for TLC. *)
EXTENDS ResultSetFetch

\* Every fault the specification knows.
EveryFault == AllFaults
=============================================================================
