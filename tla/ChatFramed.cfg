\* The wire as the SSE library frames it.
SPECIFICATION Spec
CONSTANTS
  MaxTurns = 1
  MaxTexts = 1
  Framings = {TRUE}
  Analytics = {FALSE}
INVARIANT CompletedIsReported
