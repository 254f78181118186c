------------------------------- MODULE JsonInput -------------------------------
(***************************************************************************)
(* The input of wide characters: an adapter that hands the bytes of UTF-8  *)
(* to the lexer, one character at a time.  Fill takes what is left of the  *)
(* string and returns the bytes of its next character and the rest.  What  *)
(* is no character is handed on as it is, for the lexer to refuse.         *)
(***************************************************************************)
EXTENDS JsonParser

AtEnd == [bytes |-> <<EOF>>, rest |-> <<>>]

FillUtf32(units) ==
  IF units = <<>> THEN AtEnd
  ELSE [bytes |-> IF Head(units) <= 1114111 THEN Utf8(Head(units)) ELSE <<Head(units)>>,
        rest |-> Tail(units)]

\* A surrogate makes a pair with whatever follows it, and alone at the end it
\* is handed on as it is.
FillUtf16(units) ==
  IF units = <<>> THEN AtEnd
  ELSE LET wc == Head(units)
           surrogate == wc \in HighSurrogates \cup LowSurrogates
           Pair(wc2) == 65536 + 1024 * (wc % 1024) + (wc2 % 1024)
       IN CASE ~surrogate -> [bytes |-> Utf8(wc), rest |-> Tail(units)]
            [] surrogate /\ Len(units) > 1 ->
                 [bytes |-> Utf8(Pair(units[2])), rest |-> Tail(Tail(units))]
            [] OTHER -> [bytes |-> <<wc>>, rest |-> <<>>]

\* get_character: the next byte, from a buffer that is filled when it is used up.
WideInput(units) == [rest |-> units, buffer |-> <<>>, index |-> 0]
GetCharacter(in, Fill(_)) ==
  IF in.index < Len(in.buffer) THEN [in EXCEPT !.index = @ + 1]
  ELSE LET next == Fill(in.rest) IN [rest |-> next.rest, buffer |-> next.bytes, index |-> 1]

\* All bytes up to the end.
Bytes(Fill(_), units) ==
  LET more[in \in [rest : Seq(Int), buffer : Seq(Int), index : Nat]] ==
        LET got == GetCharacter(in, Fill)
            byte == got.buffer[got.index]
        IN IF byte = EOF THEN <<>> ELSE <<byte>> \o more[got]
  IN more[WideInput(units)]
=============================================================================
