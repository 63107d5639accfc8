SPECIFICATION ProgramSpec
CHECK_DEADLOCK FALSE
CONSTANTS
  Users = {a}
  Byte = 16
  Code <- MCCode
  Float32bits <- MCFloat32bits
  Names <- MCNames
  Tags <- MCTags
  Values <- MCValues
  Announced <- MCAnnounced
  Faults = {"refuse", "lost", "cut", "lie"}
  Kinds = {"any", "example", "tool"}
  CommandLines <- MCCommandLines
  Spells <- MCSpells
  SpellsReal <- MCSpellsReal
  RegisterTag <- MCRegisterTag
  ExampleTags <- MCExampleTags
INVARIANTS TypeOK Understood StringWhole UtilAgrees WritesWhatItSays
PROPERTY KeepsStore
