------------------------------ MODULE MCKeystore ------------------------------
(* The names of the comment at sanitize_filename, and the name that one of  *)
(* them is encoded to.                                                      *)
EXTENDS Keystore, FileNames, TLC

CONSTANTS slash, underscore, escaped  \* "a/b", "a_b", "a_2f_b"

MCNames == {slash, underscore, escaped}
MCHex == "/" :> <<"2", "f">>
Spelling == slash :> <<"a", "/", "b">>
              @@ underscore :> <<"a", "_", "b">>
              @@ escaped :> <<"a", "_", "2", "f", "_", "b">>
Named(spelling) == CHOOSE n \in MCNames : Spelling[n] = spelling
MCFileOf == [n \in MCNames |-> Named(Sanitize(Spelling[n]))]
MCLegacyOf == [n \in MCNames |-> Named(SanitizeLegacy(Spelling[n]))]

(* A listed stem typed back leads to the same file: what NamesAssumption    *)
(* asks of the encodings, over every name of up to four characters.         *)
ASSUME StemsAreFixed ==
  \A len \in 0..4 : \A name \in [1..len -> Allowed \cup Special] :
    \A stem \in {Sanitize(name), SanitizeLegacy(name)} :
      Sanitize(stem) = stem /\ SanitizeLegacy(stem) = stem
=============================================================================
