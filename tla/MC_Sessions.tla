----------------------------- MODULE MC_Sessions -----------------------------
(* Small instances of Sessions for TLC. *)
EXTENDS Sessions

Budget(t, c, f) == [turns |-> t, natives |-> 0, crashes |-> c, faults |-> f]

\* A restart and a fault within two turns, one of them within three, or four turns
\* without either.
TroubledOrLong == {Budget(2, 1, 1), Budget(3, 1, 0), Budget(3, 0, 1), Budget(4, 0, 0)}
===============================================================================
