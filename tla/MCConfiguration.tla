--------------------------- MODULE MCConfiguration ---------------------------
(* Finite instances of Configuration.                                        *)
EXTENDS Configuration

\* The bytes of a printable text; ' stands for a quotation mark.
Printable == " !'#$%&_()*+,-./0123456789:;<=>?@ABCDEFGHIJKLMNOPQRSTUVWXYZ[?]^_?abcdefghijklmnopqrstuvwxyz{|}~"
CodeOf(c) == 31 + CHOOSE i \in 1..Len(Printable) : SubSeq(Printable, i, i) = c
B(s) == [i \in 1..Len(s) |-> CodeOf(SubSeq(s, i, i))]
BytesOf(s) == {B(s)[i] : i \in 1..Len(s)}
Bs == <<92>>

\* One byte of each class that the automaton tells apart where it stands.
MCMenu(p) ==
  CASE p.l.at = "bom" -> BytesOf("{[' t1-.") \cup {239}
    [] p.l.at = "bom2" -> {187, 191}
    [] p.l.at = "bom3" -> {187, 191}
    [] p.l.at = "scan" -> BytesOf("{}[]:,' n0-")
    [] p.l.at = "literal" -> {Head(p.l.need), 120}
    [] p.l.at = "string" -> BytesOf("a'") \cup {92, 31, 127, 128, 194}
    [] p.l.at = "range" -> {127, 128, 191, 192}
    [] p.l.at = "escape" -> BytesOf("nu'x")
    [] p.l.at = "hex" -> BytesOf("0Dg")
    [] p.l.at \in {"surrogate", "surrogate u"} -> {}
    [] OTHER -> BytesOf("01.e-,] ")

U(hex) == Bs \o B("u") \o B(hex)
Q2(bytes) == B("'") \o bytes \o B("'")

\* Around the edges of every range of well-formed UTF-8.
Sequences8 ==
  {<<a, b>> : a \in {193, 194, 223}, b \in {127, 128, 191, 192}}
    \cup {<<a, b, 128>> : a \in {224, 225, 236, 237, 238, 239}, b \in {128, 159, 160, 191}}
    \cup {<<a, b, 128, 191>> : a \in {240, 241, 243, 244, 245}, b \in {128, 143, 144, 191}}
    \cup {<<225, 128, 192>>, <<241, 128, 192, 128>>, <<241, 128, 128, 127>>, <<224, 160>>}

MCTexts == {Q2(s) : s \in Sequences8} \cup {
  Q2(U("D834") \o U("DD1E")), Q2(U("D834") \o U("0041")), Q2(U("D834") \o B("x")),
  Q2(U("DD1E")), Q2(U("00e9") \o U("FFFF") \o U("000A")), Q2(U("D834") \o Bs \o B("n")),
  Q2(<<240, 144, 128, 128, 195, 169, 127>>),
  B("[-1.25e-3,0.5E+1,1e15,1e16,12.5e-7,-0,-0.0]"), B("[1e18]"), B("[63,64,-32,-33,99]"),
  B("{'a':1,'b':[true,{}],'a':2}"), B("{'a':1,}"), B("[1,]"), B("{'a' 1}"), B("{1:1}"), B("[]]"),
  B("{'a':64,'b':15,'c':16,'d':-8,'e':1.0,'f':true,'g':'t','h':-9,'i':32,'j':[],'k':{'a':5,'z':6}}"),
  B("{'webGl:parameters':{'03':8,'15':-3,'16':1,'3':7,'7':'x','8':null},'webGl2:parameters':{'3':true,'0':[1]}}"),
  B("{'webGl:parameters':5,'voices':['N',{'lang':'e','name':'n','voiceUri':'u','isDefault':true,'isLocalService':false}]}"),
  B("{'voices':[{'lang':0.1}]}"),
  B("{'fonts':'Arial','webGl:shaderPrecisionFormats':{'0,0':{'rangeMin':'x','rangeMax':true,'precision':1.5}}}"),
  B("{'fonts':['Arial'],'navigator.platform':'Win32','webGl:shaderPrecisionFormats':{'1,2':{'rangeMin':1,'rangeMax':2,'precision':3},'1,3':{}}}") }

MCVoiceFields == [f \in {B("lang"), B("name"), B("voiceUri"), B("isDefault"), B("isLocalService")} |->
                    IF f \in {B("isDefault"), B("isLocalService")} THEN "boolean" ELSE "string"]
MCExtents == <<B("rangeMin"), B("rangeMax"), B("precision")>>
MCGl == B("webGl:parameters")
MCGl2 == B("webGl2:parameters")
MCFormats == B("webGl:shaderPrecisionFormats")
MCFormats2 == B("webGl2:shaderPrecisionFormats")
MCVoices == B("voices")
MCFonts == B("fonts")
MCPlatform == B("navigator.platform")
MCWindows == B("Win32")
MCMacOS == B("MacIntel")
MCLinux == B("Linux")

\* All keys collide on the last slot but one; the enums on the last.
MCHash(key) == 14 + (Len(key) % 2)
MCHashEnum(pname) == 15 + 16 * (pname % 2)

MCChunks == {0, 3}
MCOtherKeys == {B("zz"), B("03"), <<>>, MCGl, MCGl2}
MCEndings == {B("'"), B("]"), B("0"), B("1]"), B("a'"), B(":1}"), B("':1}"), B("}"), <<128>> \o B("'")}
MCLayouts == {
  Compact,
  [pretty |-> TRUE, step |-> 2, ascii |-> FALSE, handler |-> "replace"],
  [pretty |-> FALSE, step |-> 0, ascii |-> TRUE, handler |-> "ignore"] }
MCDocuments == {B(s) : s \in {
  "null", "true", "[]", "{}", "7", "-8", "0.5", "'x'", "[1,2,[3]]", "[[],{},4,5,6]", "{'a':1,'b':[true,{}]}",
  "{'a':{'a':null,'k':2},'b':null}", "{'k':{'a':6},'~1':{'':0},'/~':[0]}", "{'webGl:parameters':{'03':9},'a':null}" }}
MCPointers == {B(s) : s \in {
  "", "/", "/0", "/1", "/2/0", "/-", "/b/0", "/b/-", "/b/1/a", "/a", "/a/a", "/k/a", "/01", "/99", "/~01", "/~1~0/0", "/~2", "a" }}
MCEdges == {32, 127, 128, 2047, 2048, 55295, 57344, 65535, 65536, 1114111}
MCSizes == {0, 1, 8, 15, 16, 23, 24, 31, 32, 127, 128, 255, 256, 32767, 32768, 65535, 65536, 2147483646}
MCWord == [w \in {"op", "path", "value", "from", "add", "remove", "replace", "move", "copy", "test"} |-> B(w)]
MCBias == 16

\* 2/pi in 67 bits, below the zeros of its integer part.
TwoByPi == <<3, 3, 0, 1, 1, 2, 2, 2, 0, 0, 2, 0, 2, 0, 3, 1, 2, 0, 3, 1, 3, 2, 1, 0,
             0, 3, 0, 3, 3, 1, 1, 0, 1, 1>>
MCTwoByPi == [i \in 0..43 |-> IF i < Len(TwoByPi) THEN TwoByPi[i + 1] ELSE 0]
MCExponents == 4..31
=============================================================================
