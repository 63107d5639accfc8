SPECIFICATION ProgramSpec
CHECK_DEADLOCK FALSE
CONSTANTS
  Users = {a}
  Byte = 16
  Code <- MCCode
  Float32bits <- MCFloat32bits
  Names <- MCNames
  Tags <- MCTags
  Values <- MCValues
  Announced <- MCAnnounced
  Faults = {}
  Kinds = {"example"}
  CommandLines <- MCCommandLines
  Spells <- MCSpells
  SpellsReal <- MCSpellsReal
  RegisterTag <- MCRegisterTag
  ExampleTags <- MCExampleTags
INVARIANTS RealReadBack
