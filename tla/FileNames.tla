------------------------------ MODULE FileNames ------------------------------
(***************************************************************************)
(* How an entry name becomes a file name (end of src/src/keystore.rs).     *)
(* Names are sequences of characters.                                      *)
(***************************************************************************)
EXTENDS Naturals, Sequences

CONSTANTS
  Allowed,  \* letters, digits, the dash, the dot and the underscore
  Special,  \* any other character
  Hex       \* the code of such a character, in hexadecimal digits

Underscore == "_"

(* Digits are letters or digits, and no two characters have the same code. *)
ASSUME FileNamesAssumption ==
  /\ Underscore \in Allowed /\ Allowed \cap Special = {}
  /\ \A c \in Special : Hex[c] \in Seq(Allowed \ {Underscore})
  /\ \A c, d \in Special : Hex[c] = Hex[d] => c = d

Encoded(c) == IF c \in Allowed THEN <<c>> ELSE <<Underscore>> \o Hex[c] \o <<Underscore>>

(* The output before each character and behind the last. *)
Sanitize(name) ==
  LET out[i \in 0..Len(name)] == IF i = 0 THEN <<>> ELSE out[i - 1] \o Encoded(name[i])
  IN  out[Len(name)]

SanitizeLegacy(name) ==
  [i \in DOMAIN name |-> IF name[i] \in Allowed THEN name[i] ELSE Underscore]
=============================================================================
