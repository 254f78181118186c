------------------------------ MODULE JsonParser ------------------------------
(***************************************************************************)
(* The parser of the JSON library (sax_parse_internal) with the handler    *)
(* that builds the value (json_sax_dom_parser), as an automaton over the   *)
(* tokens of JsonLexer: p.at is where in the loop the parser asks for its  *)
(* next token.  accept() is the same automaton with a handler that builds  *)
(* nothing (json_sax_acceptor).                                            *)
(*                                                                         *)
(* An object is a function of its keys; a node under construction is an    *)
(* element of refs and joins its parent when it is complete.               *)
(***************************************************************************)
EXTENDS JsonLexer

ParserInit ==
  [l |-> LexerInit, at |-> "value", states |-> <<>>, refs |-> <<>>,
   root |-> Null]

Array(items) == [type |-> "array", items |-> items]
Object(map) == [type |-> "object", map |-> map]
EmptyMap == [k \in {} |-> Null]
With(map, key, v) == [k \in DOMAIN map \cup {key} |-> IF k = key THEN v ELSE map[k]]

ParseError(p) == [p EXCEPT !.at = "error"]

-----------------------------------------------------------------------------
(* json_sax_dom_parser.                                                    *)

\* The value becomes the root, the array's next element, or the value of the
\* key that was read last, whatever that key had.
HandleValue(p, v) ==
  IF p.refs = <<>> THEN [p EXCEPT !.root = v]
  ELSE LET top == Last(p.refs)
           n == Len(p.refs)
       IN IF top.node.type = "array"
            THEN [p EXCEPT !.refs[n].node.items = Append(@, v)]
            ELSE [p EXCEPT !.refs[n].node.map = With(@, top.key, v)]

StartContainer(p, node) ==
  [p EXCEPT !.refs = Append(@, [node |-> node, key |-> <<>>])]

\* key(): a null at the key, and the place of the next value.
Key(p, key) ==
  LET n == Len(p.refs)
      map == Last(p.refs).node.map
  IN [p EXCEPT !.refs[n].key = key,
               !.refs[n].node.map = IF key \in DOMAIN map THEN map ELSE With(map, key, Null)]

EndContainer(p) ==
  HandleValue([p EXCEPT !.refs = Front(@)], Last(p.refs).node)

-----------------------------------------------------------------------------
(* sax_parse_internal.                                                     *)

\* A value is complete: the state evaluation of the enclosing container.
AfterValue(p) ==
  [p EXCEPT !.at = IF p.states = <<>> THEN "end"
                   ELSE IF Last(p.states) = "array" THEN "array" ELSE "object"]

Scalars == {"literal_true", "literal_false", "literal_null", "value_string",
            "value_unsigned", "value_integer"}

ParseValue(p, t) ==
  CASE t.kind = "begin_object" ->
         [StartContainer(p, Object(EmptyMap)) EXCEPT !.at = "first key"]
    [] t.kind = "begin_array" ->
         [StartContainer(p, Array(<<>>)) EXCEPT !.at = "first element"]
    [] t.kind \in Scalars -> AfterValue(HandleValue(p, t.value))
    [] t.kind = "value_float" ->
         IF IsFinite(t.value) THEN AfterValue(HandleValue(p, t.value))
                              ELSE ParseError(p)
    [] OTHER -> ParseError(p)

ParseFirstKey(p, t) ==
  CASE t.kind = "end_object" -> AfterValue(EndContainer(p))
    [] t.kind = "value_string" ->
         [Key(p, t.value.text) EXCEPT !.at = "first colon"]
    [] OTHER -> ParseError(p)

ParseFirstColon(p, t) ==
  IF t.kind = "name_separator"
    THEN [p EXCEPT !.states = Append(@, "object"), !.at = "value"]
    ELSE ParseError(p)

ParseFirstElement(p, t) ==
  IF t.kind = "end_array" THEN AfterValue(EndContainer(p))
  ELSE ParseValue([p EXCEPT !.states = Append(@, "array")], t)

Leave(p) == AfterValue([EndContainer(p) EXCEPT !.states = Front(@)])

ParseArray(p, t) ==
  CASE t.kind = "value_separator" -> [p EXCEPT !.at = "value"]
    [] t.kind = "end_array" -> Leave(p)
    [] OTHER -> ParseError(p)

ParseObject(p, t) ==
  CASE t.kind = "value_separator" -> [p EXCEPT !.at = "key"]
    [] t.kind = "end_object" -> Leave(p)
    [] OTHER -> ParseError(p)

ParseKey(p, t) ==
  IF t.kind = "value_string" THEN [Key(p, t.value.text) EXCEPT !.at = "colon"]
  ELSE ParseError(p)

ParseColon(p, t) ==
  IF t.kind = "name_separator" THEN [p EXCEPT !.at = "value"] ELSE ParseError(p)

\* strict: nothing but the end may follow the value.
ParseEnd(p, t) ==
  IF t.kind = "end_of_input" THEN [p EXCEPT !.at = "accepted"]
  ELSE ParseError(p)

Parse(p, t) ==
  IF t.kind = "parse_error" THEN ParseError(p)
  ELSE CASE p.at = "value" -> ParseValue(p, t)
         [] p.at = "first key" -> ParseFirstKey(p, t)
         [] p.at = "first colon" -> ParseFirstColon(p, t)
         [] p.at = "first element" -> ParseFirstElement(p, t)
         [] p.at = "array" -> ParseArray(p, t)
         [] p.at = "object" -> ParseObject(p, t)
         [] p.at = "key" -> ParseKey(p, t)
         [] p.at = "colon" -> ParseColon(p, t)
         [] p.at = "end" -> ParseEnd(p, t)

Stopped(p) == p.at \in {"accepted", "error"}

\* get_token: the token of the lexer, if it has one, goes to the parser.
GetToken(p) ==
  IF p.l.token = NoToken THEN p
  ELSE Parse([p EXCEPT !.l.token = NoToken], p.l.token)

\* A byte for the lexer, and its token for the parser.
Offer(p, c) == GetToken([p EXCEPT !.l = Scan(@, c)])

\* The byte once more if the lexer put it back.
OfferAgain(p, c) ==
  IF p.l.again /\ ~Stopped(p) THEN Offer([p EXCEPT !.l.again = FALSE], c) ELSE p

Feed(p, c) == IF Stopped(p) THEN p ELSE OfferAgain(Offer(p, c), c)

\* A whole text and its end.
ParseText(bytes) ==
  LET read[i \in 0..Len(bytes)] ==
        IF i = 0 THEN ParserInit ELSE Feed(read[i - 1], bytes[i])
  IN Feed(read[Len(bytes)], EOF)

\* accept: every call of its handler lets the parser go on.
Accepts(bytes) == ParseText(bytes).at = "accepted"
=============================================================================
