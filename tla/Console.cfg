\* Two callers (the event loop and a transfer thread) and two lines a screen.
CONSTANTS
  Thread = {loop, transfer}
  Line = {l1, l2, l3, l4, l5, l6}
  TvLines = 2
  DrcLines = 2
  Null = Null
SPECIFICATION Spec
INVARIANT LinesAlive
