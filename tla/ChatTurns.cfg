\* Three turns of two texts, on both wires, with and without analytics.
SPECIFICATION Spec
CONSTANTS
  MaxTurns = 3
  MaxTexts = 2
  Framings = {TRUE, FALSE}
  Analytics = {TRUE, FALSE}
INVARIANTS
  OneOpenTurn
  AnsweredInFull
PROPERTIES
  ConversationStays
