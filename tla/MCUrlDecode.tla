----------------------------- MODULE MCUrlDecode -----------------------------
(***************************************************************************)
(* Instantiates UrlDecode for TLC: '%', the digits '0' and '4', the        *)
(* letters 'a', 'F' and 'G' (hex in either case, and not hex), every URI   *)
(* of up to five characters: escapes at the start, middle and end, cut     *)
(* short, back to back, and invalid.                                       *)
(***************************************************************************)
EXTENDS UrlDecode

MCAlphabet == {37, 48, 52, 97, 70, 71}

=============================================================================
