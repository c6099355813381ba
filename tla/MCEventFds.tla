------------------------------ MODULE MCEventFds ------------------------------
(***************************************************************************)
(* Instantiates EventFds for TLC: two worker threads, and descriptor       *)
(* numbers enough for both to hold a kqueue and a channel (six), with one  *)
(* more so that numbers are reused in different orders.                    *)
(***************************************************************************)
EXTENDS EventFds, TLC

CONSTANTS w1, w2

MCFds == 3..9

\* The threads run the same code, so states that differ by a renaming of
\* them are equivalent.
MCSymmetry == Permutations({w1, w2})

=============================================================================
