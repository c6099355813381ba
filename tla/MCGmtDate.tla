------------------------------ MODULE MCGmtDate ------------------------------
(***************************************************************************)
(* Instantiates GmtDate for TLC: three times, among them a leap day and    *)
(* the last second of a year, so that two cache slots must evict.          *)
(***************************************************************************)
EXTENDS GmtDate, TLC

CONSTANTS w1, w2

\* 2010-06-23 22:12:01 (the time of the spec's example), 2000-02-29
\* 00:00:00 and 1999-12-31 23:59:59 UTC.
MCDates == {1277331121, 951782400, 946684799}

\* The workers run the same code on their own caches: any permutation of
\* them maps behaviours to behaviours.
MCSymmetry == Permutations({w1, w2})

====
