--------------------------------- MODULE Totp ---------------------------------
(***************************************************************************)
(* What becomes of a typed TOTP secret (src/src/totp.rs): it is resolved   *)
(* into key bytes and parameters, written into the entry's payload, and    *)
(* read back from there when a code is asked for.  The code itself, an     *)
(* HMAC of the time, is left out.                                          *)
(*                                                                         *)
(* A character is its base32 value, in either case, or one of three others;*)
(* as raw bytes a text stands for itself.                                  *)
(***************************************************************************)
EXTENDS Integers, Sequences, FiniteSetsExt

Pad == 32
Space == 33
Other == 34
Chars == 0..Other

CONSTANTS
  Typed,      \* texts typed or found in a URI
  Parameters, \* algorithms, digits and periods of a form, an option or a URI
  Error

Algorithms == <<"sha1", "sha256", "sha512">>

(* Digits are those of a u8, periods of a u32. *)
ASSUME TotpAssumption ==
  /\ Typed \subseteq Seq(Chars) /\ Error \notin Seq(Nat)
  /\ \A p \in Parameters :
       /\ p = [algorithm |-> p.algorithm, digits |-> p.digits, period |-> p.period]
       /\ p.algorithm \in {"sha1", "sha256", "sha512"} /\ p.digits \in Nat /\ p.period \in Nat

(* A URI in capitals, in small letters or mixed; "none" is a bare secret,  *)
(* whose parameters come from beside it.                                   *)
Inputs == [scheme : {"none", "small", "capital", "mixed"}, type : {"totp", "hotp"},
           text : Typed, params : Parameters, raw : BOOLEAN]

NoInput == [scheme |-> "none", type |-> "totp", text |-> <<>>, raw |-> FALSE,
            params |-> [algorithm |-> "sha1", digits |-> 6, period |-> 30]]

VARIABLES
  input,   \* what the user typed
  stage,   \* how far it came
  secret,  \* key bytes
  params,  \* [algorithm, digits, period]
  payload  \* the entry before it is encrypted

totpVars == <<input, stage, secret, params, payload>>

TotpInit ==
  /\ input = NoInput /\ stage = "asked" /\ secret = <<>>
  /\ params = <<>> /\ payload = <<>>

-----------------------------------------------------------------------------
(* decode_base32, or Error *)

(* Mutant: six characters pass for three bytes. *)
BadLengthFew(n) == n % 8 \in {1, 3}

BadLength(n) == n % 8 \in {1, 3, 6}

(* Sixteen bits of the accumulator: those above are not looked at again.   *)
Shifted(acc, value) == (acc * 32 + value) % 65536

Byte(acc, bits) == (acc \div 2^bits) % 256

Take(s, value) ==
  LET acc == Shifted(s.acc, value)
      bits == s.bits + 5
  IN  IF bits >= 8
        THEN [acc |-> acc, bits |-> bits - 8, out |-> Append(s.out, Byte(acc, bits - 8))]
        ELSE [acc |-> acc, bits |-> bits, out |-> s.out]

(* The accumulator before each character and behind the last. *)
Scan(data) ==
  LET s[i \in 0..Len(data)] ==
        IF i = 0 THEN [acc |-> 0, bits |-> 0, out |-> <<>>] ELSE Take(s[i - 1], data[i])
  IN  s

(* What is left of a text if only the characters of S are kept. *)
Kept(text, S) ==
  LET s[i \in 0..Len(text)] ==
        IF i = 0 THEN <<>> ELSE IF text[i] \in S THEN Append(s[i - 1], text[i]) ELSE s[i - 1]
  IN  s[Len(text)]

decode_base32(text) ==
  LET chars == Kept(text, Chars \ {Space})
      pads == {i \in 1..Len(chars) : chars[i] = Pad}
      start == IF pads = {} THEN Len(chars) ELSE Min(pads) - 1
      data == SubSeq(chars, 1, start)
      end == Scan(data)[start]
  IN  IF \/ data = <<>> \/ BadLength(start)
         \/ \E i \in start + 1..Len(chars) : chars[i] # Pad
         \/ \E i \in 1..start : data[i] > 31
         \/ end.acc % 2^end.bits # 0
        THEN Error ELSE end.out

looks_like_base32(text) ==
  /\ \A i \in 1..Len(text) : text[i] \in 0..33
  /\ \E i \in 1..Len(text) : text[i] # Space

decode_secret(text, raw) ==
  IF ~raw /\ looks_like_base32(text) THEN decode_base32(text) ELSE text

(* TotpParams::validate *)
Valid(p) == p.digits \in 6..8 /\ p.period \in 1..3600

(* parse_otpauth_uri: the prefix in one case or the other. *)
parse_otpauth_uri(in) ==
  LET bytes == decode_base32(in.text) IN
  IF in.scheme = "mixed" \/ in.type # "totp" \/ bytes = Error \/ ~Valid(in.params)
    THEN Error ELSE bytes

(* Mutant: the prefix as parse_otpauth_uri has it. *)
is_otpauth_uri_exact(in) == in.scheme \in {"small", "capital"}

is_otpauth_uri(in) == in.scheme # "none"

(* A URI that is not taken for one is the text of a bare secret, and no    *)
(* base32.                                                                 *)
resolve_secret(in) ==
  IF is_otpauth_uri(in) THEN parse_otpauth_uri(in)
  ELSE IF in.scheme = "none" THEN decode_secret(in.text, in.raw)
  ELSE <<Other>> \o in.text

-----------------------------------------------------------------------------
Type ==
  /\ stage = "asked"
  /\ input' \in Inputs /\ stage' = "typed"
  /\ UNCHANGED <<secret, params, payload>>

(* A form or an option is checked before, a URI while it is parsed. *)
Resolve ==
  /\ stage = "typed"
  /\ LET bytes == resolve_secret(input) IN
     IF bytes = Error \/ ~Valid(input.params)
       THEN stage' = "refused" /\ UNCHANGED <<secret, params>>
       ELSE stage' = "resolved" /\ secret' = bytes /\ params' = input.params
  /\ UNCHANGED <<input, payload>>

to_byte(algorithm) == (CHOOSE i \in 1..3 : Algorithms[i] = algorithm) - 1

(* Mutant: one byte for the period. *)
PeriodBytesOne(n) == <<n % 256, 0, 0, 0>>

(* to_le_bytes of a u32; the period is below 2^16 here. *)
PeriodBytes(n) == <<n % 256, n \div 256, 0, 0>>

(* encode_entry.  The magic prefix, the same for all, is left out. *)
Store ==
  /\ stage = "resolved"
  /\ IF Valid(params) /\ secret # <<>>
       THEN /\ payload' = <<to_byte(params.algorithm), params.digits>> \o PeriodBytes(params.period) \o secret
            /\ stage' = "stored"
       ELSE stage' = "refused" /\ UNCHANGED payload
  /\ UNCHANGED <<input, secret, params>>

(* What a command that did not type it starts from: the payload. *)
Forget ==
  /\ stage = "stored"
  /\ secret' = <<>> /\ params' = <<>> /\ stage' = "at rest"
  /\ UNCHANGED <<input, payload>>

(* decode_entry *)
Show ==
  /\ stage = "at rest"
  /\ LET p == [algorithm |-> Algorithms[payload[1] + 1], digits |-> payload[2],
               period |-> payload[3] + 256 * payload[4]]
     IN  IF Len(payload) < 7 \/ ~Valid(p)
           THEN stage' = "refused" /\ UNCHANGED <<secret, params>>
           ELSE /\ stage' = "shown" /\ params' = p
                /\ secret' = SubSeq(payload, 7, Len(payload))
  /\ UNCHANGED <<input, payload>>

TotpNext == Type \/ Resolve \/ Store \/ Forget \/ Show

TotpSpec == TotpInit /\ [][TotpNext]_totpVars

-----------------------------------------------------------------------------
(* RFC 4648 by its bits: eight of each byte, five of each character, zeros  *)
(* at the end, as many characters as it takes and nothing but paddings     *)
(* behind them.                                                            *)
Bit(word, width, i) == (word[(i \div width) + 1] \div 2^(width - 1 - (i % width))) % 2
Bits(word, width, i) == IF i < width * Len(word) THEN Bit(word, width, i) ELSE 0

Encodes(text, bytes) ==
  LET chars == Kept(text, Chars \ {Space})
      n == (8 * Len(bytes) + 4) \div 5
  IN  /\ bytes # <<>> /\ n <= Len(chars)
      /\ \A i \in 1..n : chars[i] <= 31
      /\ \A i \in n + 1..Len(chars) : chars[i] = Pad
      /\ \A i \in 0..5 * n - 1 : Bits(chars, 5, i) = Bits(bytes, 8, i)

(* The bytes a word of five-bit values is the only candidate for. *)
Octet(word, k) ==
  LET b(j) == Bits(word, 5, 8 * (k - 1) + j)
  IN  128 * b(0) + 64 * b(1) + 32 * b(2) + 16 * b(3) + 8 * b(4) + 4 * b(5) + 2 * b(6) + b(7)
Bytes(word) == [k \in 1..(5 * Len(word)) \div 8 |-> Octet(word, k)]

ReadAsBase32 ==
  /\ Valid(input.params)
  /\ \/ input.scheme = "none" /\ ~input.raw /\ looks_like_base32(input.text)
     \/ input.scheme = "small" /\ input.type = "totp"

(* A secret read as base32 gives the bytes it is the encoding of, and is    *)
(* refused if it is nobody's: no two bytes strings are typed alike, and a   *)
(* mistyped end is noticed (totp.rs 196-208, 338-390 against RFC 4648).     *)
Base32IsCanonical ==
  ReadAsBase32 =>
    /\ stage = "resolved" => Encodes(input.text, secret)
    /\ stage = "refused" =>
         ~Encodes(input.text, Bytes(Kept(input.text, 0..31)))

(* What was typed is what codes are made from, through the bytes of the     *)
(* payload, and nothing but an empty secret is lost on the way (95-148).    *)
EntryKeepsCode ==
  /\ stage = "shown" => secret = resolve_secret(input) /\ params = input.params
  /\ stage = "refused" /\ Valid(input.params) =>
       resolve_secret(input) \in {Error, <<>>}

(* A URI, however it is written, is parsed or refused: its text never       *)
(* becomes the key of an entry (225-243).                                   *)
UriIsNeverAKey ==
  stage # "asked" /\ input.scheme # "none" /\ secret # <<>> =>
    input.type = "totp" /\ Encodes(input.text, secret)
=============================================================================
