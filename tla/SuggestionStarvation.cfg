SPECIFICATION FairSpec
CONSTANTS
  Passes = {p1}
  Accepts = {}
  Cels = {c1}
  FLOOR = 1
  WINDOW = 2
  KeepAnswers = {"on"}
PROPERTY AnalysisRecurs
