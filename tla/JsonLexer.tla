------------------------------- MODULE JsonLexer -------------------------------
(***************************************************************************)
(* The lexer of the JSON library that MaskConfig parses the configuration  *)
(* with, as an automaton over bytes: a state l is a record, and the label  *)
(* l.at says which get() of the source it stands at.  Scan(l, c) is what   *)
(* the lexer does with byte c; it puts a finished token into l.token, and  *)
(* l.again says that the byte is read again by the next scan (unget).      *)
(*                                                                         *)
(* Numbers keep their width: MaxUnsigned and MaxSigned stand for 2^64 - 1  *)
(* and 2^63 - 1, MaxExp for the decimal exponent a double cannot reach.  A *)
(* floating-point value is its exact decimal.                              *)
(***************************************************************************)
EXTENDS Integers, Sequences, SequencesExt

CONSTANTS MaxUnsigned, MaxSigned, MaxExp

ASSUME NumberAssumption ==
  MaxUnsigned \in Nat /\ MaxSigned \in Nat /\ MaxExp \in Nat

EOF == -1
Quote == 34
Backslash == 92
Minus == 45
Dot == 46
Digits == 48..57
Ee == {69, 101}
Space == {32, 9, 10, 13}

-----------------------------------------------------------------------------
(* Values.                                                                 *)

Null == [type |-> "null"]
Boolean(b) == [type |-> "boolean", bool |-> b]
Unsigned(n) == [type |-> "unsigned", num |-> n]
Integer(n) == [type |-> "integer", num |-> n]
Text(s) == [type |-> "string", text |-> s]

\* 0.d1d2d3... * 10^exp, with d1 and the last digit not 0.
Float(neg, digits, exp) ==
  [type |-> "float", neg |-> neg, digits |-> digits, exp |-> exp]

Zeros(n) == [i \in 1..n |-> 0]

\* The decimal of an integer part, a fraction and an exponent.
Decimal(neg, whole, fraction, exp) ==
  LET all == whole \o fraction
      some == {i \in DOMAIN all : all[i] # 0}
  IN IF some = {} THEN Float(neg, <<>>, 0)
     ELSE LET first == CHOOSE i \in some : \A j \in some : i <= j
              last == CHOOSE i \in some : \A j \in some : j <= i
          IN Float(neg, SubSeq(all, first, last), Len(whole) - (first - 1) + exp)

IsFinite(v) == v.exp <= MaxExp

\* Of a sequence of digits: its value.
Number(digits) ==
  LET read[i \in 0..Len(digits)] == IF i = 0 THEN 0 ELSE 10 * read[i - 1] + digits[i]
  IN read[Len(digits)]
DigitsOf(bytes) == [i \in DOMAIN bytes |-> bytes[i] - 48]

-----------------------------------------------------------------------------
(* The state.                                                              *)

None == [type |-> "none"]
NoToken == [kind |-> "none", value |-> None]
Token(kind, value) == [kind |-> kind, value |-> value]

LexerInit ==
  [at |-> "bom", buffer |-> <<>>, need |-> <<>>, codepoint |-> 0, high |-> 0,
   type |-> "unsigned", token |-> NoToken, again |-> FALSE]

Goto(l, label) == [l EXCEPT !.at = label]
Add(l, bytes) == [l EXCEPT !.buffer = @ \o bytes]
Reset(l) == [l EXCEPT !.buffer = <<>>]
Done(l, kind, value) == [l EXCEPT !.at = "scan", !.token = Token(kind, value)]
Fail(l) == [l EXCEPT !.at = "failed", !.token = Token("parse_error", None)]

-----------------------------------------------------------------------------
(* Strings.                                                                *)

ControlBytes == 0..31
PlainBytes == (32..127) \ {Quote, Backslash}

\* Faulty variant: the second byte of E0, ED, F0 and F4 would be any
\* continuation byte.
LooseRanges(c) ==
  CASE c \in 194..223 -> << <<128, 191>> >>
    [] c \in 224..239 -> << <<128, 191>>, <<128, 191>> >>
    [] c \in 240..244 -> << <<128, 191>>, <<128, 191>>, <<128, 191>> >>
    [] OTHER -> <<>>

\* The ranges of the bytes that must follow lead byte c; none: ill-formed.
Ranges(c) ==
  CASE c \in 194..223 -> << <<128, 191>> >>
    [] c = 224 -> << <<160, 191>>, <<128, 191>> >>
    [] c \in (225..236) \cup {238, 239} -> << <<128, 191>>, <<128, 191>> >>
    [] c = 237 -> << <<128, 159>>, <<128, 191>> >>
    [] c = 240 -> << <<144, 191>>, <<128, 191>>, <<128, 191>> >>
    [] c \in 241..243 -> << <<128, 191>>, <<128, 191>>, <<128, 191>> >>
    [] c = 244 -> << <<128, 143>>, <<128, 191>>, <<128, 191>> >>
    [] OTHER -> <<>>

ScanString(l, c) ==
  CASE c = EOF -> Fail(l)
    [] c = Quote -> Done(l, "value_string", Text(l.buffer))
    [] c = Backslash -> Goto(l, "escape")
    [] c \in ControlBytes -> Fail(l)
    [] c \in PlainBytes -> Add(l, <<c>>)
    [] c > 127 -> IF Ranges(c) = <<>> THEN Fail(l)
                  ELSE [Goto(Add(l, <<c>>), "range") EXCEPT !.need = Ranges(c)]

NextByteInRange(l, c) ==
  IF c \notin Head(l.need)[1]..Head(l.need)[2] THEN Fail(l)
  ELSE [Goto(Add(l, <<c>>), IF Len(l.need) = 1 THEN "string" ELSE "range")
          EXCEPT !.need = Tail(l.need)]

\* The byte a backslash and c stand for.
Escapes == [c \in {34, 92, 47, 98, 102, 110, 114, 116} |->
              CASE c = 98 -> 8 [] c = 102 -> 12 [] c = 110 -> 10 [] c = 114 -> 13
                [] c = 116 -> 9 [] OTHER -> c]

Hex4(l) == [Goto(l, "hex") EXCEPT !.codepoint = 0, !.need = <<1, 2, 3, 4>>]

ScanEscape(l, c) ==
  CASE c \in DOMAIN Escapes -> Goto(Add(l, <<Escapes[c]>>), "string")
    [] c = 117 -> Hex4([l EXCEPT !.high = 0])
    [] OTHER -> Fail(l)

HexDigit(c) == CASE c \in 48..57 -> c - 48
                 [] c \in 65..70 -> c - 55
                 [] c \in 97..102 -> c - 87
                 [] OTHER -> -1

\* The bytes of a code point.
Utf8(cp) ==
  LET Cont(k) == 128 + ((cp \div k) % 64)
  IN CASE cp < 128 -> <<cp>>
       [] cp >= 128 /\ cp < 2048 -> <<192 + cp \div 64, Cont(1)>>
       [] cp >= 2048 /\ cp < 65536 -> <<224 + cp \div 4096, Cont(64), Cont(1)>>
       [] OTHER -> <<240 + cp \div 262144, Cont(4096), Cont(64), Cont(1)>>

HighSurrogates == 55296..56319
LowSurrogates == 56320..57343

\* Four hex digits were read: a surrogate pair is one code point, and no
\* surrogate goes alone.
ScanCodepoint(l, cp) ==
  IF l.high # 0
    THEN IF cp \in LowSurrogates
           THEN Goto(Add(l, Utf8((l.high - 55296) * 1024 + (cp - 56320) + 65536)),
                     "string")
           ELSE Fail(l)
  ELSE CASE cp \in HighSurrogates -> [Goto(l, "surrogate") EXCEPT !.high = cp]
         [] cp \in LowSurrogates -> Fail(l)
         [] OTHER -> Goto(Add(l, Utf8(cp)), "string")

GetCodepoint(l, c) ==
  LET cp == 16 * l.codepoint + HexDigit(c)
      read == [l EXCEPT !.codepoint = cp, !.need = Tail(@)]
  IN CASE HexDigit(c) = -1 -> Fail(l)
       [] HexDigit(c) # -1 /\ Len(l.need) > 1 -> read
       [] OTHER -> ScanCodepoint(read, cp)

\* The backslash and the u between the two halves of a pair.
ScanSurrogate(l, c) == IF c = Backslash THEN Goto(l, "surrogate u") ELSE Fail(l)
ScanSurrogateU(l, c) == IF c = 117 THEN Hex4(l) ELSE Fail(l)

-----------------------------------------------------------------------------
(* Numbers: one operator per label of scan_number.                         *)

Float1(l) == [l EXCEPT !.type = "float"]

\* Where the exponent and the fraction of a number's bytes begin.
Part(bytes, set) == SelectInSeq(bytes, LAMBDA b : b \in set)

\* strtod of a number that was checked.
Strtod(bytes) ==
  LET neg == bytes[1] = Minus
      e == Part(bytes, Ee)
      mantissa == SubSeq(bytes, IF neg THEN 2 ELSE 1,
                         IF e = 0 THEN Len(bytes) ELSE e - 1)
      dot == Part(mantissa, {Dot})
      power == IF e = 0 THEN <<48>> ELSE SubSeq(bytes, e + 1, Len(bytes))
      signed == power[1] \in {43, Minus}
      size == Number(DigitsOf(IF signed THEN Tail(power) ELSE power))
  IN Decimal(neg,
             DigitsOf(IF dot = 0 THEN mantissa ELSE SubSeq(mantissa, 1, dot - 1)),
             DigitsOf(IF dot = 0 THEN <<>>
                      ELSE SubSeq(mantissa, dot + 1, Len(mantissa))),
             IF power[1] = Minus THEN -size ELSE size)

\* scan_number_done: an integer that fits, or else a float.
Convert(l) ==
  LET neg == l.buffer[1] = Minus
      n == Number(DigitsOf(IF neg THEN Tail(l.buffer) ELSE l.buffer))
  IN CASE l.type = "unsigned" /\ n <= MaxUnsigned ->
            Token("value_unsigned", Unsigned(n))
       [] l.type = "integer" /\ n <= MaxSigned + 1 ->
            Token("value_integer", Integer(-n))
       [] OTHER -> Token("value_float", Strtod(l.buffer))

NumberDone(l) == [l EXCEPT !.at = "scan", !.token = Convert(l), !.again = TRUE]

NumberInit(l, c) ==
  LET new == [Add(Reset(l), <<c>>) EXCEPT !.type = "unsigned"]
  IN CASE c = Minus -> Goto(new, "minus")
       [] c = 48 -> Goto(new, "zero")
       [] OTHER -> Goto(new, "any1")

NumberMinus(l, c) ==
  LET new == [Add(l, <<c>>) EXCEPT !.type = "integer"]
  IN CASE c = 48 -> Goto(new, "zero")
       [] c \in Digits \ {48} -> Goto(new, "any1")
       [] OTHER -> Fail(l)

NumberZero(l, c) ==
  CASE c = Dot -> Goto(Add(l, <<Dot>>), "decimal1")
    [] c \in Ee -> Goto(Add(l, <<c>>), "exponent")
    [] OTHER -> NumberDone(l)

NumberAny1(l, c) ==
  CASE c \in Digits -> Add(l, <<c>>)
    [] c = Dot -> Goto(Add(l, <<Dot>>), "decimal1")
    [] c \in Ee -> Goto(Add(l, <<c>>), "exponent")
    [] OTHER -> NumberDone(l)

NumberDecimal1(l, c) ==
  IF c \in Digits THEN Goto(Add(Float1(l), <<c>>), "decimal2") ELSE Fail(l)

NumberDecimal2(l, c) ==
  CASE c \in Digits -> Add(l, <<c>>)
    [] c \in Ee -> Goto(Add(l, <<c>>), "exponent")
    [] OTHER -> NumberDone(l)

NumberExponent(l, c) ==
  CASE c \in {43, Minus} -> Goto(Add(Float1(l), <<c>>), "sign")
    [] c \in Digits -> Goto(Add(Float1(l), <<c>>), "any2")
    [] OTHER -> Fail(l)

NumberSign(l, c) ==
  IF c \in Digits THEN Goto(Add(l, <<c>>), "any2") ELSE Fail(l)

NumberAny2(l, c) == IF c \in Digits THEN Add(l, <<c>>) ELSE NumberDone(l)

-----------------------------------------------------------------------------
(* Literals and the scanner.                                               *)

Literals == [c \in {116, 102, 110} |->
               CASE c = 116 -> <<114, 117, 101>> [] c = 102 -> <<97, 108, 115, 101>>
                 [] c = 110 -> <<117, 108, 108>>]

ScanLiteral(l, c) ==
  IF c # Head(l.need) THEN Fail(l)
  ELSE IF Len(l.need) > 1 THEN [l EXCEPT !.need = Tail(@)]
  ELSE CASE l.codepoint = 116 -> Done(l, "literal_true", Boolean(TRUE))
         [] l.codepoint = 102 -> Done(l, "literal_false", Boolean(FALSE))
         [] l.codepoint = 110 -> Done(l, "literal_null", Null)

Structural == [c \in {91, 93, 123, 125, 58, 44} |->
                 CASE c = 91 -> "begin_array" [] c = 93 -> "end_array"
                   [] c = 123 -> "begin_object" [] c = 125 -> "end_object"
                   [] c = 58 -> "name_separator" [] c = 44 -> "value_separator"]

\* scan() from the first byte that is not white space; a NUL ends the input.
ScanToken(l, c) ==
  CASE c \in Space -> l
    [] c \in DOMAIN Structural -> Done(l, Structural[c], None)
    [] c \in DOMAIN Literals ->
         [Goto(l, "literal") EXCEPT !.need = Literals[c], !.codepoint = c]
    [] c = Quote -> Goto(Reset(l), "string")
    [] c \in Digits \cup {Minus} -> NumberInit(l, c)
    [] c \in {0, EOF} -> Done(l, "end_of_input", None)
    [] OTHER -> Fail(l)

\* skip_bom: the first byte is read again unless it begins the mark.
SkipBom(l, c) == IF c = 239 THEN Goto(l, "bom2") ELSE ScanToken(Goto(l, "scan"), c)
SkipBom2(l, c) == IF c = 187 THEN Goto(l, "bom3") ELSE Fail(l)
SkipBom3(l, c) == IF c = 191 THEN Goto(l, "scan") ELSE Fail(l)

Scan(l, c) ==
  CASE l.at = "bom" -> SkipBom(l, c)
    [] l.at = "bom2" -> SkipBom2(l, c)
    [] l.at = "bom3" -> SkipBom3(l, c)
    [] l.at = "scan" -> ScanToken(l, c)
    [] l.at = "literal" -> ScanLiteral(l, c)
    [] l.at = "string" -> ScanString(l, c)
    [] l.at = "range" -> NextByteInRange(l, c)
    [] l.at = "escape" -> ScanEscape(l, c)
    [] l.at = "hex" -> GetCodepoint(l, c)
    [] l.at = "surrogate" -> ScanSurrogate(l, c)
    [] l.at = "surrogate u" -> ScanSurrogateU(l, c)
    [] l.at = "minus" -> NumberMinus(l, c)
    [] l.at = "zero" -> NumberZero(l, c)
    [] l.at = "any1" -> NumberAny1(l, c)
    [] l.at = "decimal1" -> NumberDecimal1(l, c)
    [] l.at = "decimal2" -> NumberDecimal2(l, c)
    [] l.at = "exponent" -> NumberExponent(l, c)
    [] l.at = "sign" -> NumberSign(l, c)
    [] l.at = "any2" -> NumberAny2(l, c)
=============================================================================
