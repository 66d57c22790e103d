SPECIFICATION Spec
CONSTANTS
  Passes = {p1, p2}
  Accepts = {a1, a2}
  Cels = {c1}
  FLOOR = 1
  WINDOW = 2
  KeepAnswers = {"on", "off", "unreachable"}
INVARIANTS TypeOK ProposedOnce AcceptedHasRule
PROPERTY PassesAreSpaced
