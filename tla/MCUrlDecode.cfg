\* Every URI of at most five characters over '%', '0', '4', 'a', 'F', 'G'.
CONSTANTS
  Alphabet <- MCAlphabet
  MaxLen = 5

SPECIFICATION Spec

\* mk_utils_url_decode returns once it reaches "buf" or "null".
CHECK_DEADLOCK FALSE

INVARIANT TypeOK
INVARIANT DecodeMatchesReference
