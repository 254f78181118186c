------------------------------- MODULE JsonDump -------------------------------
(***************************************************************************)
(* The serializer of the JSON library (dump): compact or pretty, as UTF-8  *)
(* or as ASCII, and with one of three answers to bytes that are no UTF-8.  *)
(* Thrown in the output says that dump threw there, which is an abort in   *)
(* Firefox.                                                                *)
(***************************************************************************)
EXTENDS JsonValue

Thrown == -1

-----------------------------------------------------------------------------
(* decode: a table-driven automaton for UTF-8.                             *)

\* The type of a byte (the first 256 entries of utf8d).
ByteType(b) ==
  CASE b \in 0..127 -> 0
    [] b \in 128..143 -> 1
    [] b \in 144..159 -> 9
    [] b \in 160..191 -> 7
    [] b \in {192, 193} \cup (245..255) -> 8
    [] b \in 194..223 -> 2
    [] b = 224 -> 10
    [] b \in (225..236) \cup {238, 239} -> 3
    [] b = 237 -> 4
    [] b = 240 -> 11
    [] b \in 241..243 -> 6
    [] b = 244 -> 5

\* The rows s0 to s8 of utf8d that do not reject, as pairs of a byte type and
\* the next state; state 0 accepts, state 1 rejects.
Rows == (0 :> {<<0, 0>>, <<2, 2>>, <<3, 3>>, <<4, 5>>, <<5, 8>>, <<6, 7>>,
               <<10, 4>>, <<11, 6>>})
     @@ (1 :> {})
     @@ (2 :> {<<1, 0>>, <<7, 0>>, <<9, 0>>})
     @@ (3 :> {<<1, 2>>, <<7, 2>>, <<9, 2>>})
     @@ (4 :> {<<7, 2>>})
     @@ (5 :> {<<1, 2>>, <<9, 2>>})
     @@ (6 :> {<<7, 3>>, <<9, 3>>})
     @@ (7 :> {<<1, 3>>, <<7, 3>>, <<9, 3>>})
     @@ (8 :> {<<1, 3>>})

NextState(state, b) ==
  LET hits == {r \in Rows[state] : r[1] = ByteType(b)}
  IN IF hits = {} THEN 1 ELSE (CHOOSE r \in hits : TRUE)[2]

\* The bits of a first byte that belong to the code point: 0xff >> type.
Masked(b) == b % (IF ByteType(b) >= 8 THEN 1
                  ELSE 2 ^ (8 - ByteType(b)))

Decode(d, b) ==
  [state |-> NextState(d.state, b),
   codepoint |-> IF d.state # 0 THEN (b % 64) + d.codepoint * 64 ELSE Masked(b)]

-----------------------------------------------------------------------------
(* dump_escaped.                                                           *)

Handlers == {"strict", "replace", "ignore"}

HexOf(n) == IF n < 10 THEN 48 + n ELSE 87 + n
\* "\u%04x"
Escaped(n) == <<Backslash, 117, HexOf(n \div 4096), HexOf((n \div 256) % 16),
                HexOf((n \div 16) % 16), HexOf(n % 16)>>

Shorts == (8 :> 98) @@ (9 :> 116) @@ (10 :> 110) @@ (12 :> 102) @@ (13 :> 114)
            @@ (Quote :> Quote) @@ (Backslash :> Backslash)

\* Faulty variant: the high half of a pair would be off by 0x40.
CharacterOffset(cp, b, ascii) ==
  CASE cp \in DOMAIN Shorts -> <<Backslash, Shorts[cp]>>
    [] cp \notin DOMAIN Shorts /\ (cp <= 31 \/ (ascii /\ cp >= 127)) ->
         IF cp <= 65535 THEN Escaped(cp)
         ELSE Escaped(55296 + cp \div 1024) \o Escaped(56320 + (cp % 1024))
    [] OTHER -> <<b>>

\* A complete code point cp that ends with byte b; the bytes before b were
\* written when they were read, unless all is escaped.
Character(cp, b, ascii) ==
  CASE cp \in DOMAIN Shorts -> <<Backslash, Shorts[cp]>>
    [] cp \notin DOMAIN Shorts /\ (cp <= 31 \/ (ascii /\ cp >= 127)) ->
         IF cp <= 65535 THEN Escaped(cp)
         ELSE Escaped(55232 + cp \div 1024) \o Escaped(56320 + (cp % 1024))
    [] OTHER -> <<b>>

Replacement(ascii) == IF ascii THEN Escaped(65533) ELSE <<239, 191, 189>>

\* d: the decoder, the output, how much of it is whole, and the bytes since.
EscapeInit ==
  [state |-> 0, codepoint |-> 0, out |-> <<>>, accepted |-> 0, undumped |-> 0]

Accept(d, out) ==
  [d EXCEPT !.out = out, !.accepted = Len(out), !.undumped = 0]

\* An ill-formed byte: what was begun is dropped, and replaced or not.
Reject(d, ascii, handler) ==
  LET kept == SubSeq(d.out, 1, d.accepted)
  IN CASE handler = "strict" -> Accept(d, Append(d.out, Thrown))
       [] handler = "ignore" -> [Accept(d, kept) EXCEPT !.state = 0]
       [] handler = "replace" ->
            [Accept(d, kept \o Replacement(ascii)) EXCEPT !.state = 0]

\* One byte; a byte that cannot continue a sequence is read again alone.
RECURSIVE EscapeByte(_, _, _, _)
EscapeByte(d, b, ascii, handler) ==
  LET next == Decode(d, b)
      read == [d EXCEPT !.state = next.state, !.codepoint = next.codepoint]
  IN CASE next.state = 0 ->
            Accept(read, d.out \o Character(next.codepoint, b, ascii))
       [] next.state = 1 ->
            IF handler # "strict" /\ d.undumped > 0
              THEN EscapeByte(Reject(d, ascii, handler), b, ascii, handler)
              ELSE Reject(read, ascii, handler)
       [] OTHER ->
            [read EXCEPT !.out = IF ascii THEN @ ELSE Append(@, b),
                         !.undumped = @ + 1]

\* The end of the string, which may be in the middle of a character.
EscapeEnd(d, ascii, handler) ==
  IF d.state = 0 THEN d.out ELSE Reject(d, ascii, handler).out

DumpEscaped(s, ascii, handler) ==
  EscapeEnd(FoldLeft(LAMBDA d, b : IF Contains(d.out, Thrown) THEN d
                                   ELSE EscapeByte(d, b, ascii, handler),
                     EscapeInit, s),
            ascii, handler)

-----------------------------------------------------------------------------
(* Numbers.                                                                *)

DigitBytes(digits) == [i \in DOMAIN digits |-> 48 + digits[i]]

\* append_exponent: a sign and at least two digits.
AppendExponent(e) ==
  LET abs == IF e < 0 THEN -e ELSE e
  IN <<IF e < 0 THEN Minus ELSE 43>>
       \o (IF abs < 10 THEN <<48>> ELSE <<>>) \o DumpInteger(abs)

MinExponent == -4
MaxExponent == 15

\* format_buffer: digits * 10^(n - k), where the decimal point is at n.
FormatBuffer(digits, n) ==
  LET k == Len(digits)
      text == DigitBytes(digits)
      zeros(m) == DigitBytes(Zeros(m))
  IN CASE k <= n /\ n <= MaxExponent -> text \o zeros(n - k) \o <<Dot, 48>>
       [] 0 < n /\ n < k /\ n <= MaxExponent ->
            SubSeq(text, 1, n) \o <<Dot>> \o SubSeq(text, n + 1, k)
       [] MinExponent < n /\ n <= 0 -> <<48, Dot>> \o zeros(-n) \o text
       [] OTHER -> <<text[1]>> \o (IF k = 1 THEN <<>> ELSE <<Dot>> \o Tail(text))
                     \o <<101>> \o AppendExponent(n - 1)

\* dump_float and to_chars; the digits are those Grisu finds.
DumpFloat(v) ==
  (IF v.neg THEN <<Minus>> ELSE <<>>)
    \o (IF v.digits = <<>> THEN <<48, Dot, 48>> ELSE FormatBuffer(v.digits, v.exp))

-----------------------------------------------------------------------------
(* dump.                                                                   *)

Join(parts, separator) ==
  IF parts = <<>> THEN <<>>
  ELSE FoldLeft(LAMBDA all, part : all \o separator \o part, Head(parts), Tail(parts))

\* The elements of a container between its brackets; an empty one is short.
Layout(open, close, parts, f, indent) ==
  LET line(n) == <<10>> \o [i \in 1..n |-> 32]
  IN CASE parts = <<>> -> <<open, close>>
       [] parts # <<>> /\ f.pretty ->
            <<open>> \o line(indent + f.step)
              \o Join(parts, <<44>> \o line(indent + f.step))
              \o line(indent) \o <<close>>
       [] OTHER -> <<open>> \o Join(parts, <<44>>) \o <<close>>

\* f: the flags of dump, [pretty, step, ascii, handler].
RECURSIVE DumpAt(_, _, _)
DumpAt(v, f, indent) ==
  LET Quoted(s) == <<Quote>> \o DumpEscaped(s, f.ascii, f.handler) \o <<Quote>>
      Inner(w) == DumpAt(w, f, indent + f.step)
      colon == IF f.pretty THEN <<58, 32>> ELSE <<58>>
      keys == Keys(v.map)
  IN CASE v.type = "object" ->
            Layout(123, 125,
                   [i \in DOMAIN keys |->
                      Quoted(keys[i]) \o colon \o Inner(v.map[keys[i]])], f, indent)
       [] v.type = "array" ->
            Layout(91, 93, [i \in DOMAIN v.items |-> Inner(v.items[i])], f, indent)
       [] v.type = "string" -> Quoted(v.text)
       [] v.type = "boolean" -> IF v.bool THEN <<116, 114, 117, 101>>
                                ELSE <<102, 97, 108, 115, 101>>
       [] v.type \in {"unsigned", "integer"} -> DumpInteger(v.num)
       [] v.type = "float" -> DumpFloat(v)
       [] v.type = "null" -> <<110, 117, 108, 108>>

Compact == [pretty |-> FALSE, step |-> 0, ascii |-> FALSE, handler |-> "strict"]
Dump(v, f) == DumpAt(v, f, 0)
=============================================================================
