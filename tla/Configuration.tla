----------------------------- MODULE Configuration -----------------------------
(***************************************************************************)
(* The mask configuration from end to end: MaskConfig reads its text, the  *)
(* grammar says which texts it must accept, and the log line about a voice *)
(* that is skipped prints a number of the configuration, digit by digit.   *)
(* Under a Windows identity, Math.pow, sin, cos and tan are those of the   *)
(* Windows CRT.                                                            *)
(***************************************************************************)
EXTENDS MaskConfig, JsonLaws

CONSTANTS
  P, Q, ExponentBias,   \* the widths of Grisu
  MaxExponentBits,  \* the exponents E of the floats a voice may hold
  Endings,          \* what might follow a text that was refused
  Layouts,          \* the flags dump is called with
  ExpBits, MantBits, TinyPower, HugePower, LogOff, TableBits, Up, Down,
  WordBits, ByteBits, TrigBits, TopBits, FirstByte, Precision, TWOBYPI,
  Exponents         \* the exponents of the arguments that are reduced by them

ASSUME WidthAssumption ==
  /\ P \in Nat /\ Q \in Nat /\ P > 1 /\ Q >= P + 3
  /\ ExponentBias \in Int

Grammar == INSTANCE JsonGrammar
Shortest == INSTANCE Grisu
Pow == INSTANCE UcrtMathPow
Trig == INSTANCE UcrtMathTrig

VARIABLE number     \* the conversion of a number to digits

allVars == <<vars, number>>

ConfigurationInit == Init /\ number = Shortest!Idle

\* voice.dump() reaches a float of a voice that is skipped, which may have any
\* bits E and F.
DumpVoice ==
  /\ phase = "ready"
  /\ \E voice \in SkippedVoices : \E v \in Range(Elements(voice)) : IsNumberFloat(v)
  /\ \E E \in 0..MaxExponentBits, F \in 0..(2^(P - 1) - 1) :
       /\ E > 0 \/ F > 0
       /\ number' = Shortest!Scale(E, F)
  /\ phase' = "printing"
  /\ UNCHANGED <<env, chunk, slot, reader, rest, config, index>>

DigitGen ==
  /\ number.at \in {"integral", "fraction", "round"}
  /\ number' = Shortest!Step(number)
  /\ UNCHANGED vars

ConfigurationNext ==
  \/ Next /\ UNCHANGED number
  \/ DumpVoice
  \/ DigitGen

ConfigurationSpec == ConfigurationInit /\ [][ConfigurationNext]_allVars

-----------------------------------------------------------------------------
(* Properties.                                                             *)

Numeral == Digits \cup Ee \cup {Dot, Minus, 43}

\* LoadJson accepts exactly the JSON texts.  The text it joins from the
\* variables is the one the launcher wrote, however it was cut; it becomes a
\* configuration if and only if the grammar derives it; and where the reader
\* stops at a byte, no ending could have made the text valid.  A number is
\* the one that its digits spell, whichever type it was given.
AcceptsGrammar ==
  LET text == ConfigText(env)
  IN /\ JoinsText
     /\ phase = "loaded" =>
          /\ text # <<>> /\ Grammar!IsJson(text) <=> Accepts(text)
          /\ IsNumber(config) =>
               SameFloat(GetAsDouble(config),
                         Strtod(SelectSeq(text, LAMBDA b : b \in Numeral)))
     /\ phase = "launch" /\ reader.at = "error" =>
          \A ending \in Endings : ~Grammar!IsJson(text \o ending)

\* Whatever was parsed can be printed: dump never throws on it, with any
\* flags, and what it prints is read back as an equal value.  This is what
\* lets MVoices log a voice in a process that aborts on an exception.
DumpRoundTrip ==
  phase = "loaded" =>
    \A f \in Layouts :
      LET again == ParseText(Dump(config, f))
      IN /\ ~Contains(Dump(config, f), Thrown)
         /\ again.at = "accepted"
         /\ Equal(again.root, config)

\* The operations on documents keep their laws on whatever was parsed (the cut
\* into chunks makes no difference to it): a patch made by diff turns one
\* document into the other, flatten is undone by unflatten, and pointers,
\* modifiers and the order agree with each other.  An ordered map and an input
\* of wide characters make no difference but the order, and the binary formats
\* read back what they write.
DocumentsTransform ==
  phase = "loaded" /\ chunk = 0 /\ config # Null =>
    /\ FlattenRestores(config)
    /\ ModifiersAgree(config)
    /\ \A p \in Resolvable : PointersAgree(config, p)
    /\ \A t \in Targets :
         /\ PatchOfDiff(config, t) /\ UpdatesAgree(config, t) /\ OrderIsTotal(config, t)
         /\ ListsAndLifetimes(config, t) /\ OrderIsKept(config, t)
    /\ BinaryReadsBack(config)
    /\ config = EmptyArray => SizesReadBack /\ WideInputsReadAlike

\* A page of a Windows identity is served the CRT's functions, and around the
\* polynomials they are right for every operand: pow keeps the special cases of
\* IEEE 754, its operands reach the logarithm reduced, its result gets the scale
\* and the sign of the power and is rounded once where it is subnormal; a large
\* argument of sin, cos and tan is reduced to its quadrant and the rest of it,
\* and the quadrant turns the kernel and its sign.
MathOfWindows ==
  phase = "ready" /\ chunk = 0 /\ GetSpoofedOS = "Windows" =>
    /\ \A x, y \in 0..(Pow!Word - 1) : Pow!PowerIsIEEE(x, y)
    /\ \A odd \in BOOLEAN : Pow!ScaleIsPower(odd)
    /\ Pow!SubnormalsRoundedOnce
    /\ \A m \in 2^TrigBits..(2^(TrigBits + 1) - 1) : Trig!LargeReduced(Exponents, m)
    /\ Trig!QuadrantsAgree

\* The digits of a printed number read back as that number, however the
\* reader breaks ties; they are no more than max_digits10, and the assertions
\* of grisu2_digit_gen hold at every digit.
DigitsReadBack ==
  /\ number # Shortest!Idle => Shortest!Asserted(number)
  /\ number.at = "done" => Shortest!ReadsBack(number)
=============================================================================
