CONSTANTS
  Nodes <- MCNodes
  Declarations <- MCDeclarations
  Channels <- MCChannels
  InitFile <- MCInitFile
  MaxDeclarations = 3
  MaxHandles = 2
  Modulus = 4096
SPECIFICATION CreationSpec
INVARIANTS SlotsFit OrderDoesNotMatter ObtainedAsDeclared InitValueIsGiven
PROPERTIES HandleFitsWhenGiven
CHECK_DEADLOCK FALSE
