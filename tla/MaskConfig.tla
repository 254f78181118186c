------------------------------ MODULE MaskConfig ------------------------------
(***************************************************************************)
(* The mask configuration: the launcher writes a JSON text into numbered   *)
(* environment variables; the browser joins and parses them once, indexes  *)
(* the keys once, and answers every spoofed getter from the index.         *)
(*                                                                         *)
(* The text is revealed byte by byte (Menu), so that the reader's first    *)
(* error ends it.  Names of keys and platforms are short byte strings.     *)
(***************************************************************************)
EXTENDS JsonValue

CONSTANTS
  Menu(_), MaxLength,    \* the next bytes to choose from, and how many
  Texts,                 \* whole texts
  MaxVariables,          \* CAMOU_CONFIG_1 .. CAMOU_CONFIG_n
  ChunkSizes,            \* how many characters fit a variable; 0: uncut
  Hash(_), HashEnum(_),  \* of a key, and of a WebGL enum
  Free, Unset,           \* an unused slot; a variable that is not set
  GlParameters, Gl2Parameters, GlFormats, Gl2Formats, Voices, VoiceFields,
  Extents, Fonts, Platform, Windows, MacOS, Linux,
  OtherKeys              \* looked up whether they are there or not

ASSUME ConfigAssumption ==
  /\ MaxVariables \in Nat \ {0, 1}
  /\ Texts \cup OtherKeys \cup {GlParameters, Gl2Parameters} \subseteq Seq(0..255)
  /\ \A n \in 0..MaxUint32 : HashEnum(n) \in Nat

ASSUME NamesAssumption ==
  /\ {GlFormats, Gl2Formats, Voices, Fonts, Platform} \subseteq Seq(0..255)
  /\ \A f \in DOMAIN VoiceFields : VoiceFields[f] \in {"string", "boolean"}
  /\ DOMAIN VoiceFields # {} /\ DOMAIN Extents # {}

Index == INSTANCE FlatIndex

VARIABLES
  phase,     \* "launch", "loaded", "ready", or "printing" a skipped voice
  env,       \* the variables, and CAMOU_CONFIG
  chunk,     \* the launcher's chunk_size
  slot,      \* the variable it writes to; 0 is CAMOU_CONFIG
  reader,    \* the parser of the bytes so far
  rest,      \* of a text that was chosen whole
  config,    \* GetJson()
  index      \* GetIndex()

vars == <<phase, env, chunk, slot, reader, rest, config, index>>

-----------------------------------------------------------------------------
(* LoadJson.                                                               *)

\* get_env_utf8 of each name, until one is not set.
Numbered(e) ==
  LET missing == {i \in 1..MaxVariables : e[i] = Unset}
      n == IF missing = {} THEN MaxVariables
           ELSE (CHOOSE i \in missing : \A j \in missing : i <= j) - 1
  IN FlattenSeq([i \in 1..n |-> e[i]])

ConfigText(e) ==
  IF Numbered(e) # <<>> \/ e[0] = Unset THEN Numbered(e) ELSE e[0]

\* No text, or none that is accepted, is a null.
Parsed(p) == IF p.at = "accepted" THEN p.root ELSE Null
LoadJson(e) == IF ConfigText(e) = <<>> THEN Null ELSE Parsed(ParseText(ConfigText(e)))

-----------------------------------------------------------------------------
(* GetIndex.                                                               *)

NoIndex == [top |-> Index!NoTable, tables |-> EmptyMap, byName |-> Index!NoTable,
            gl |-> Index!NoTable, gl2 |-> Index!NoTable]

IndexObject(obj) ==
  Index!Filled(Size(obj),
    [n \in 1..Size(obj) |->
       Index!Entry(Hash(KeyAt(obj, n - 1)), KeyAt(obj, n - 1), Deref(obj, n - 1))])

\* ParseEnum: the canonical decimal of a 32-bit number.
IsEnum(key) ==
  /\ Len(key) \in 1..CountDigits(MaxUint32)
  /\ Len(key) > 1 => key[1] # 48
  /\ \A i \in DOMAIN key : key[i] \in Digits
  /\ Number(DigitsOf(key)) <= MaxUint32

EnumOf(key) == Number(DigitsOf(key))

EnumIndex(table) ==
  Index!Filled(Size(table),
    [n \in 1..Size(table) |->
       LET key == KeyAt(table, n - 1)
       IN IF IsEnum(key)
            THEN Index!Entry(HashEnum(EnumOf(key)), EnumOf(key), Deref(table, n - 1))
            ELSE Index!NoEntry])

\* The objects directly under the top level, by key.
Tables(data) == {k \in DOMAIN data.map : IsObject(data.map[k])}

IndexByName(data) ==
  Index!Filled(Cardinality(Tables(data)),
    [n \in 1..Size(data) |->
       LET key == KeyAt(data, n - 1)
       IN IF key \in Tables(data) THEN Index!Entry(Hash(key), key, key) ELSE Index!NoEntry])

GetIndex(data) ==
  IF ~IsObject(data) THEN NoIndex
  ELSE LET top == IndexObject(data)
           Params(name) ==
             LET found == Index!Find(top, Hash(name), name)
             IN IF found # Free /\ IsObject(found.value)
                  THEN EnumIndex(found.value) ELSE Index!NoTable
       IN [top |-> top, tables |-> [k \in Tables(data) |-> IndexObject(data.map[k])],
           byName |-> IndexByName(data),
           gl |-> Params(GlParameters), gl2 |-> Params(Gl2Parameters)]

-----------------------------------------------------------------------------
(* Lookups: a value, or None.                                              *)

ValueOf(found) == IF found = Free THEN None ELSE found.value

\* Find(key) and Find(obj, key): the top level and the objects under it by
\* their indexes, any other object by its own lookup.
Find(key) == ValueOf(Index!Find(index.top, Hash(key), key))
FindInTable(k, key) == ValueOf(Index!Find(index.tables[k], Hash(key), key))
FindInObject(obj, key) ==
  IF ~IsObject(obj) THEN None
  ELSE LET it == FindKey(obj, key) IN IF it = End(obj) THEN None ELSE Deref(obj, it)
HasKey(key, data) ==
  (IF data = config THEN Find(key) ELSE FindInObject(data, key)) # None

FindNested(domain, key) ==
  LET table == Index!Find(index.byName, Hash(domain), domain)
  IN IF table = Free THEN None ELSE FindInTable(table.value, key)

FindGLParam(pname, webGl2) ==
  ValueOf(Index!Find(IF webGl2 THEN index.gl2 ELSE index.gl, HashEnum(pname), pname))

-----------------------------------------------------------------------------
(* Getters: a value, None, or Throw.                                       *)

Having(value, Get(_)) == IF value = None THEN None ELSE Get(value)

GetString(key) == Having(Find(key), GetAsString)

GetStringList(key) ==
  LET items == IF Find(key) = None THEN <<>> ELSE Elements(Find(key))
      texts == [i \in DOMAIN items |-> GetAsString(items[i])]
  IN IF \E i \in DOMAIN texts : IsThrow(texts[i]) THEN Throw
     ELSE Array(texts)

Lower(bytes) == [i \in DOMAIN bytes |-> IF bytes[i] \in 65..90 THEN bytes[i] + 32 ELSE bytes[i]]

FontAllowlist ==
  LET list == GetStringList(Fonts)
  IN IF IsThrow(list) THEN Throw
     ELSE Array([i \in DOMAIN list.items |-> Text(Lower(list.items[i].text))])

IsFontAllowed(family) ==
  FontAllowlist.items = <<>> \/ Contains(FontAllowlist.items, Text(family))

GetUintImpl(key, Get(_)) ==
  LET value == Find(key)
  IN IF value # None /\ IsNumberUnsigned(value) THEN Get(value) ELSE None

GetUint64(key) == GetUintImpl(key, GetAsUint64)
GetUint32(key) == GetUintImpl(key, GetAsUint32)

GetInt32(key) ==
  LET value == Find(key)
  IN IF value # None /\ IsNumberInteger(value) THEN GetAsInt32(value) ELSE None

\* An integer becomes a double by way of a signed integer.
GetDouble(key) ==
  LET value == Find(key)
  IN CASE value = None -> None
       [] IsNumberFloat(value) -> value
       [] IsNumberInteger(value) -> AsFloat(GetAsInt64(value).num)
       [] OTHER -> None

\* Faulty variant: any value but false would be true.
GetTruth(key) ==
  LET value == Find(key)
  IN IF value = None THEN None ELSE Boolean(value # Boolean(FALSE))

GetOptionalBool(key) ==
  LET value == Find(key)
  IN IF value # None /\ IsBoolean(value) THEN GetAsBool(value) ELSE None

GetBool(key) == GetOptionalBool(key) = Boolean(TRUE)

SpoofedOSFor(platform) ==
  IF platform = Windows THEN "Windows"
  ELSE IF platform = MacOS THEN "MacOS"
  ELSE IF IsPrefix(Linux, platform) THEN "Linux"
  ELSE "Other"

GetSpoofedOS ==
  LET platform == GetString(Platform)
  IN CASE platform = None -> "None"
       [] platform = Throw -> "Throw"
       [] OTHER -> SpoofedOSFor(platform.text)

SpoofedEphemeralPorts(os) ==
  CASE os \in {"Windows", "MacOS"} -> <<49152, 65535>>
    [] os = "Linux" -> <<32768, 60999>>
    [] OTHER -> <<>>

GetRect(left, top, width, height) ==
  LET Or0(v) == IF v = None THEN Unsigned(0) ELSE v
  IN IF GetUint32(width) = None \/ GetUint32(height) = None THEN None
     ELSE Array(<<Or0(GetUint32(left)), Or0(GetUint32(top)), GetUint32(width),
                  GetUint32(height)>>)

GLParam(pname, webGl2) ==
  LET value == FindGLParam(pname, webGl2)
  IN CASE value = None -> None
       [] value.type = "null" -> value
       [] IsNumberInteger(value) -> GetAsInt64(value)
       [] value.type \in {"boolean", "float", "string"} -> value
       [] OTHER -> None

MParamGL(pname, default, webGl2) ==
  LET value == FindGLParam(pname, webGl2)
  IN IF value = None THEN default ELSE GetAsInt32(value)

MShaderData(shaderType, precisionType, webGl2) ==
  LET name == DumpInteger(shaderType) \o <<44>> \o DumpInteger(precisionType)
      data == FindNested(IF webGl2 THEN Gl2Formats ELSE GlFormats, name)
  IN IF data = None \/ \E i \in DOMAIN Extents : ~HasMember(data, Extents[i]) THEN None
     ELSE Array([i \in DOMAIN Extents |-> GetAsInt32(Member(data, Extents[i]))])

\* A voice that is no object, or lacks a field, is dumped to the log and skipped.
CompleteVoice(v) == \A f \in DOMAIN VoiceFields : HasMember(v, f)

\* The fields of a voice, each of its type.
VoiceOf(v) ==
  Object([f \in DOMAIN VoiceFields |->
            IF VoiceFields[f] = "string" THEN GetAsString(Member(v, f))
                                         ELSE GetAsBool(Member(v, f))])

MVoices ==
  IF ~HasMember(config, Voices) \/ ~IsArray(Member(config, Voices)) THEN None
  ELSE LET voices == Elements(Member(config, Voices))
           listed[n \in 0..Len(voices)] ==
             IF n = 0 THEN <<>>
             ELSE IF CompleteVoice(voices[n]) THEN Append(listed[n - 1], VoiceOf(voices[n]))
             ELSE listed[n - 1]
       IN Array(listed[Len(voices)])

SkippedVoices ==
  IF MVoices = None THEN {}
  ELSE {v \in Range(Elements(Member(config, Voices))) : ~CompleteVoice(v)}

-----------------------------------------------------------------------------
(* The launch, the parse and the index.                                    *)

\* The launcher writes from CAMOU_CONFIG_1 on; older ones wrote all of
\* it to CAMOU_CONFIG.
\* A variable of an earlier launch may be left behind a gap.
Init ==
  /\ phase = "launch"
  /\ chunk \in ChunkSizes
  /\ slot = IF chunk = 0 THEN 0 ELSE 1
  /\ \E stray \in {Unset, <<Quote>>} :
       env = [i \in 0..MaxVariables |-> IF i = MaxVariables THEN stray ELSE Unset]
  /\ rest \in Texts \cup {<<>>}
  /\ reader = ParserInit
  /\ config = Null
  /\ index = NoIndex

\* A chunk has chunk_size characters: the bytes that continue one stay with it.
Continues(c) == c \in 128..191

Full(bytes, c) ==
  /\ bytes # Unset /\ ~Continues(c)
  /\ Len(SelectSeq(bytes, LAMBDA b : ~Continues(b))) = chunk

Put(c) ==
  LET s == IF slot > 0 /\ Full(env[slot], c) THEN slot + 1 ELSE slot
  IN /\ s < MaxVariables - 1
     /\ slot' = s
     /\ env' = [env EXCEPT ![s] = IF @ = Unset THEN <<c>> ELSE Append(@, c)]
     /\ reader' = Feed(reader, c)

Write(c) ==
  /\ phase = "launch" /\ ~Stopped(reader)
  /\ \/ /\ rest # <<>> /\ c = Head(rest)
        /\ rest' = Tail(rest)
     \/ /\ rest = <<>> /\ c \in Menu(reader) /\ Len(ConfigText(env)) < MaxLength
        /\ UNCHANGED rest
  /\ Put(c)
  /\ UNCHANGED <<phase, chunk, config, index>>

\* GetJson, once.
Load ==
  /\ phase = "launch" /\ (rest = <<>> \/ Stopped(reader))
  /\ phase' = "loaded"
  /\ config' = LoadJson(env)
  /\ UNCHANGED <<env, chunk, slot, reader, rest, index>>

\* GetIndex, once.
BuildIndex ==
  /\ phase = "loaded"
  /\ phase' = "ready"
  /\ index' = GetIndex(config)
  /\ UNCHANGED <<env, chunk, slot, reader, rest, config>>

Next ==
  \/ \E c \in 0..255 : Write(c)
  \/ Load
  \/ BuildIndex

Spec == Init /\ [][Next]_vars

-----------------------------------------------------------------------------
(* Properties.                                                             *)

\* The configuration is what the reader accepts of the bytes that the launcher
\* wrote: however they were cut they are joined again in their order, and a
\* variable that an earlier launch left behind a gap is not read.
JoinsText ==
  phase # "launch" =>
    config = IF ConfigText(env) = <<>> THEN Null ELSE Parsed(Feed(reader, EOF))

\* The value under a key of an object, by the object alone.
Plain(obj, key) ==
  IF IsObject(obj) /\ key \in DOMAIN obj.map THEN obj.map[key] ELSE None

NestedKeys == IF IsObject(config)
                THEN UNION {DOMAIN config.map[k].map : k \in Tables(config)} ELSE {}
Names == OtherKeys \cup NestedKeys \cup (IF IsObject(config) THEN DOMAIN config.map ELSE {})

\* Every index agrees with the object it indexes, for every key and whatever
\* the hashes collide on: the top level, each table by address and by name, and
\* the WebGL tables by number, where a number stands for the canonical spelling
\* only ("the string lookup they replace matched exactly that spelling").
LookupsAgree ==
  phase = "ready" =>
    /\ \A key \in Names :
         /\ Find(key) = Plain(config, key)
         /\ \A domain \in Names :
              FindNested(domain, key) = Plain(Plain(config, domain), key)
    /\ IsObject(config) =>
         \A k \in Tables(config), key \in Names :
           FindInTable(k, key) = Plain(config.map[k], key)
    /\ \A pname \in 0..MaxUint32, webGl2 \in BOOLEAN :
         FindGLParam(pname, webGl2) =
           Plain(Plain(config, IF webGl2 THEN Gl2Parameters ELSE GlParameters),
                 DumpInteger(pname))

SameNumber(served, value) == IsNumber(served) /\ NumbersEqual(served, value)

ServesNumbers(key) ==
  LET value == Plain(config, key)
      numeric == value # None /\ IsNumber(value)
      whole == value # None /\ IsNumberInteger(value)
  IN /\ \A w \in {<<GetUint64(key), MaxUnsigned>>, <<GetUint32(key), MaxUint32>>} :
          /\ w[1] # None <=> value # None /\ IsNumberUnsigned(value)
          /\ w[1] # None /\ value.num <= w[2] => w[1] = value
     /\ GetInt32(key) # None <=> whole
     /\ whole /\ value.num \in (-MaxInt32 - 1)..MaxInt32 => SameNumber(GetInt32(key), value)
     /\ GetDouble(key) # None <=> numeric
     /\ numeric /\ (whole => value.num <= MaxSigned) => SameNumber(GetDouble(key), value)

\* A parameter that is set is served as it is, unless it is no scalar.
ServesParameter(pname, webGl2) ==
  LET value == FindGLParam(pname, webGl2)
      served == GLParam(pname, webGl2)
  IN /\ served = None <=> value = None \/ IsArray(value) \/ IsObject(value)
     /\ served # None /\ IsNumber(value) /\ (IsNumberInteger(value) => value.num <= MaxSigned) =>
          SameNumber(served, value)
     /\ served # None /\ ~IsNumber(value) => served = value
     /\ value = None => MParamGL(pname, Null, webGl2) = Null

\* The voices with all five fields, in their order, and no other.
ServesVoices ==
  MVoices # None =>
    LET given == Elements(config.map[Voices])
        whole == {i \in DOMAIN given : IsObject(given[i])
                                        /\ DOMAIN VoiceFields \subseteq DOMAIN given[i].map}
        Place(i) == Cardinality({j \in whole : j <= i})
    IN /\ Len(MVoices.items) = Cardinality(whole)
       /\ \A i \in whole, f \in DOMAIN VoiceFields :
            LET field == MVoices.items[Place(i)].map[f]
            IN IF given[i].map[f].type = VoiceFields[f] THEN field = given[i].map[f]
               ELSE IsThrow(field)

\* The list of fonts, in lower case; a single text is its own list.
ServesFonts ==
  LET given == Elements(Plain(config, Fonts))
  IN IF Plain(config, Fonts) = None THEN FontAllowlist = Array(<<>>)
     ELSE /\ IsThrow(FontAllowlist) <=> \E i \in DOMAIN given : ~IsString(given[i])
          /\ ~IsThrow(FontAllowlist) =>
               \A i \in DOMAIN given : IsFontAllowed(Lower(given[i].text))

\* A format is served when it has its three members; one that is no number
\* stops the process.
ServesFormat(shaderType, precisionType, webGl2) ==
  LET table == Plain(config, IF webGl2 THEN Gl2Formats ELSE GlFormats)
      data == Plain(table, DumpInteger(shaderType) \o <<44>> \o DumpInteger(precisionType))
      format == MShaderData(shaderType, precisionType, webGl2)
  IN /\ format # None <=> IsObject(data) /\ Range(Extents) \subseteq DOMAIN data.map
     /\ format # None =>
          \A i \in DOMAIN Extents :
            LET given == data.map[Extents[i]]
            IN /\ IsThrow(format.items[i]) <=> ~IsNumber(given) /\ ~IsBoolean(given)
               /\ IsNumberInteger(given) /\ given.num \in (-MaxInt32 - 1)..MaxInt32 =>
                    SameNumber(format.items[i], given)

\* What a typed getter serves: nothing for a key that is not set or holds
\* another type, so that a mistyped key does not stop the browser or show as
\* another value, and the very value of the text where the type can hold it;
\* the getters without a type check throw for another type, and for no other
\* reason.  The range of ports follows the platform, and fonts any case.
GettersServe ==
  phase = "ready" =>
    /\ \A key \in Names :
         /\ ServesNumbers(key)
         /\ GetBool(key) <=> Plain(config, key) = Boolean(TRUE)
         /\ HasKey(key, config) <=> Plain(config, key) # None
         /\ LET rect == GetRect(key, Fonts, key, Voices)
            IN rect # None <=> GetUint32(key) # None /\ GetUint32(Voices) # None
    /\ \A pname \in 0..MaxUint32, webGl2 \in BOOLEAN : ServesParameter(pname, webGl2)
    /\ ServesVoices
    /\ ServesFonts
    /\ SpoofedEphemeralPorts(GetSpoofedOS) # <<>> <=>
         LET platform == Plain(config, Platform)
         IN platform # None /\ IsString(platform)
              /\ (platform.text \in {Windows, MacOS} \/ IsPrefix(Linux, platform.text))
    /\ \A shaderType \in 0..1, precisionType \in 0..3, webGl2 \in BOOLEAN :
         ServesFormat(shaderType, precisionType, webGl2)
=============================================================================
