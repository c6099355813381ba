------------------------------ MODULE UrlDecode ------------------------------
(***************************************************************************)
(* mk_utils_url_decode and mk_utils_hex2int (mk_utils.c), one loop         *)
(* iteration per step.  Characters are their ASCII codes, so that the      *)
(* arithmetic of hex2int (c - 0x57, c - 0x37, c - 0x30) is the code's.     *)
(* The URI is any sequence over a small alphabet up to a length bound.     *)
(***************************************************************************)
EXTENDS Integers, Sequences, SequencesExt

CONSTANTS
  Alphabet,   \* the character codes a URI is made of
  MaxLen      \* the longest URI

PCT == 37     \* '%'
NUL == 0

ASSUME Alphabet \subseteq 1..127 /\ PCT \in Alphabet

VARIABLES
  uri,        \* uri.data[0 .. uri.len-1]
  i,          \* the loop index, 1-based
  buf,        \* buf[0 .. buf_idx-1]
  pc          \* "search", "loop", or the value returned: "buf" or "null"

vars == <<uri, i, buf, pc>>

-----------------------------------------------------------------------------

(* mk_utils_hex2int(hex, len): digits are read while the character is not *)
(* NUL and fewer than len were read; any other character returns -1.       *)
RECURSIVE Hex2IntFromSwapped(_, _, _)
\* Mutant: the offsets of the two letter ranges are swapped.
Hex2IntFromSwapped(s, len, res) ==
  IF s = << >> \/ Head(s) = NUL \/ len = 0 THEN res
  ELSE LET c == Head(s)
           d == CASE c >= 97 /\ c <= 102 -> c - 55
                  [] c >= 65 /\ c <= 70  -> c - 87
                  [] c >= 48 /\ c <= 57  -> c - 48
                  [] OTHER               -> -1
       IN  IF d = -1 THEN -1 ELSE Hex2IntFromSwapped(Tail(s), len - 1, res * 16 + d)

RECURSIVE Hex2IntFrom(_, _, _)
Hex2IntFrom(s, len, res) ==
  IF s = << >> \/ Head(s) = NUL \/ len = 0 THEN res
  ELSE LET c == Head(s)
           d == CASE c >= 97 /\ c <= 102 -> c - 87
                  [] c >= 65 /\ c <= 70  -> c - 55
                  [] c >= 48 /\ c <= 57  -> c - 48
                  [] OTHER               -> -1
       IN  IF d = -1 THEN -1 ELSE Hex2IntFrom(Tail(s), len - 1, res * 16 + d)

\* The final (res < 0) test cannot hold for two digits.
Hex2Int(s, len) == Hex2IntFrom(s, len, 0)

\* mk_string_char_search(uri.data, '%', uri.len): the first index, or 0.
CharSearch(s, c) == IF Contains(s, c) THEN SelectInSeq(s, LAMBDA x : x = c) ELSE 0

Init ==
  /\ uri \in BoundedSeq(Alphabet, MaxLen)
  /\ i = 0
  /\ buf = << >>
  /\ pc = "search"

(* No '%': NULL (the caller keeps the URI).  Otherwise the characters      *)
(* before the first '%' are copied and the loop starts there.              *)
Search ==
  /\ pc = "search"
  /\ IF CharSearch(uri, PCT) = 0
     THEN /\ pc' = "null"
          /\ UNCHANGED <<i, buf>>
     ELSE /\ i' = CharSearch(uri, PCT)
          /\ buf' = SubSeq(uri, 1, CharSearch(uri, PCT) - 1)
          /\ pc' = "loop"
  /\ UNCHANGED uri

\* Mutant: an escape is decoded when one character follows the '%'.
StepShortEscape ==
  /\ pc = "loop"
  /\ i <= Len(uri)
  /\ IF uri[i] = PCT /\ i + 1 <= Len(uri)
     THEN LET h == Hex2Int(<<uri[i + 1], IF i + 2 <= Len(uri) THEN uri[i + 2] ELSE NUL>>, 2)
          IN  IF h # -1
              THEN /\ buf' = Append(buf, h) /\ i' = i + 3 /\ pc' = pc
              ELSE /\ pc' = "null" /\ UNCHANGED <<i, buf>>
     ELSE /\ buf' = Append(buf, uri[i]) /\ i' = i + 1 /\ pc' = pc
  /\ UNCHANGED uri

(* One iteration of the while loop: a '%' with two characters after it     *)
(* (i + 2 < uri.len, 0-based) is decoded by hex2int, failing the whole     *)
(* decode (free, NULL) when they are not hex; any other character is       *)
(* copied.                                                                 *)
Step ==
  /\ pc = "loop"
  /\ i <= Len(uri)
  /\ IF uri[i] = PCT /\ i + 2 <= Len(uri)
     THEN LET h == Hex2Int(<<uri[i + 1], uri[i + 2]>>, 2) IN
          IF h # -1
          THEN /\ buf' = Append(buf, h) /\ i' = i + 3 /\ pc' = pc
          ELSE /\ pc' = "null" /\ UNCHANGED <<i, buf>>
     ELSE /\ buf' = Append(buf, uri[i]) /\ i' = i + 1 /\ pc' = pc
  /\ UNCHANGED uri

\* The loop ends: buf[buf_idx] = '\0' and buf is returned.
Done ==
  /\ pc = "loop"
  /\ i > Len(uri)
  /\ pc' = "buf"
  /\ UNCHANGED <<uri, i, buf>>

Next == Search \/ Step \/ Done

Spec == Init /\ [][Next]_vars

-----------------------------------------------------------------------------

TypeOK ==
  /\ uri \in BoundedSeq(Alphabet, MaxLen)
  /\ i \in 0..MaxLen + 1
  /\ buf \in Seq(0..255)
  /\ pc \in {"search", "loop", "buf", "null"}

IsHex(c) == c \in (48..57) \cup (65..70) \cup (97..102)
HexVal(c) == CASE c \in 48..57 -> c - 48 [] c \in 65..70 -> c - 55
               [] c \in 97..102 -> c - 87

(* Percent-decoding (RFC 3986, 2.1), as the reference: "%" HEXDIG HEXDIG   *)
(* is the octet 16 * hi + lo; a '%' followed by two characters that are    *)
(* not both hex digits makes the URI invalid; a '%' with fewer than two    *)
(* characters after it, and every other character, stands for itself.     *)
Invalid == <<-1>>

RECURSIVE PercentDecode(_)
PercentDecode(s) ==
  IF s = << >> THEN << >>
  ELSE IF Head(s) = PCT /\ Len(s) >= 3
  THEN IF IsHex(s[2]) /\ IsHex(s[3])
       THEN LET rest == PercentDecode(SubSeq(s, 4, Len(s))) IN
            IF rest = Invalid THEN rest
            ELSE <<16 * HexVal(s[2]) + HexVal(s[3])>> \o rest
       ELSE Invalid
  ELSE LET rest == PercentDecode(Tail(s)) IN
       IF rest = Invalid THEN rest ELSE <<Head(s)>> \o rest

(* mk_utils_url_decode returns the percent-decoding of the URI when it has *)
(* a '%' and the URI is valid, NULL when it is invalid, and NULL (keep the *)
(* URI as it is) when it has no '%': every byte of the buffer, in order,   *)
(* whatever the positions of the escapes.                                  *)
DecodeMatchesReference ==
  /\ pc = "buf" => buf = PercentDecode(uri) /\ Contains(uri, PCT)
  /\ pc = "null" => \/ PercentDecode(uri) = Invalid
                    \/ ~Contains(uri, PCT)

=============================================================================
