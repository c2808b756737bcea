CONSTANTS
  Device = {"sd"}
  Name = {"game", "games", "x"}
  Short = {"x"}
  Inside <- MCInside
  StartOf <- MCStartOf
  EndOf <- MCEndOf
  Session = {s1, s2}
  Arg <- MCArg
  Password = {pw}
  Offset = {1}
  Folders <- MCFolders
  Renames = {"sd"}
  MaxCommands = 3
SYMMETRY Slots
SPECIFICATION Spec
INVARIANTS TypeOK OnlyProven StaysWhereTold ActsWhereNamed RenamesWhatWasNamed
