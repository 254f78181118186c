SPECIFICATION ConfigurationSpec
CONSTANTS
  MaxUnsigned = 63
  MaxSigned = 31
  MaxUint32 = 15
  MaxInt32 = 7
  MaxExp = 17
  MaxLength = 4
  MaxVariables = 50
  Free = Free
  Unset = Unset
  P = 5
  Q = 15
  ExponentBias = 16
  MaxExponentBits = 24
  Menu <- MCMenu
  Texts <- MCTexts
  ChunkSizes <- MCChunks
  Hash <- MCHash
  HashEnum <- MCHashEnum
  GlParameters <- MCGl
  Gl2Parameters <- MCGl2
  GlFormats <- MCFormats
  Gl2Formats <- MCFormats2
  Voices <- MCVoices
  VoiceFields <- MCVoiceFields
  Extents <- MCExtents
  Fonts <- MCFonts
  Platform <- MCPlatform
  Windows <- MCWindows
  MacOS <- MCMacOS
  Linux <- MCLinux
  OtherKeys <- MCOtherKeys
  Endings <- MCEndings
  Layouts <- MCLayouts
  Documents <- MCDocuments
  Pointers <- MCPointers
  Edges <- MCEdges
  Sizes <- MCSizes
  Keyword <- MCWord
  ExpBits = 5
  MantBits = 2
  TinyPower = 8
  HugePower = 7
  LogOff = 57
  TableBits = 1
  Up = 13
  Down = 14
  WordBits = 16
  ByteBits = 2
  TrigBits = 7
  TopBits = 4
  FirstByte = 15
  Precision = 28
  TWOBYPI <- MCTwoByPi
  Exponents <- MCExponents
INVARIANTS AcceptsGrammar DumpRoundTrip LookupsAgree GettersServe DigitsReadBack DocumentsTransform MathOfWindows
CHECK_DEADLOCK FALSE
