\* Up to four of seven templates and two skills per search; files of two, three
\* and two lines; two corpora with up to two chunks each and a budget of three.
SPECIFICATION Spec
CONSTANTS
  w1 = w1
  w2 = w2
  Words = {w1, w2}
  Registries <- MCRegistries
  Skills <- MCSkills
  MaxAgents = 2
  MinScore = 1
  MaxCore = 2
  h1 = h1
  h2 = h2
  Titles = {h1, h2}
  MaxLines <- MCLines
  a = a
  b = b
  c = c
  Corpora <- MCCorpora
  Texts = {a, b, c}
  MaxScore = 1
  MaxHits = 2
  TopK = 2
  MaxCost = 2
  MaxBudget = 3
INVARIANTS
  NamesAreDistinct
  BestAgentsWin
  RecallIsBest
PROPERTIES
  LayersAreExact
\* A selection ends.
CHECK_DEADLOCK FALSE
