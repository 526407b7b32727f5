\* A message of each platform and one to Teams that names no place to reply, or three tool calls on jobs with short, long and
\* blank names.
SPECIFICATION Spec
CONSTANTS
  telegramText = telegramText
  slackText = slackText
  teamsText = teamsText
  teamsBare = teamsBare
  report = report
  tail = tail
  Messages = {telegramText, slackText, teamsText, teamsBare}
  Unaddressed = {teamsBare}
  Platform <- MCPlatform
  MaxDeliveries = 2
  MaxParts = 2
  MaxTrouble = 2
  Stems = {report}
  Tails = {tail}
  HermesJobs = {}
  MaxCalls = 3
  MaxTasks = 1
  MaxLosses = 1
INVARIANTS
  
  ScheduledRuns
  DeletedIsGone
PROPERTIES
  AnswerComes
\* The deliveries and calls of the bound may be used up.
CHECK_DEADLOCK FALSE
