-------------------------------- MODULE MCIov --------------------------------
(***************************************************************************)
(* Instantiates Iov for TLC: one constant string (s1) and two allocated    *)
(* buffers (d1, d2), entries of one or two bytes, so that a partial write  *)
(* can stop inside an entry or cross from one entry into the next.         *)
(***************************************************************************)
EXTENDS Iov

CONSTANTS s1, d1, d2

=============================================================================
