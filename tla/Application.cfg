\* Two USB ports, two slots.
SPECIFICATION ProgramSpec
CONSTANTS
  Connections = 2
  Port = {1, 2}
INVARIANTS
  NoMountOutlivesFsa
  ReleasedAtReturn
