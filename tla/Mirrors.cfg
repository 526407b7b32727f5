\* Two assignments each of two agents among two processes and one lost or late
\* request; two tokens and three signing keys over seven units of time.
SPECIFICATION MirrorsSpec
CONSTANTS
  a1 = a1
  a2 = a2
  p1 = p1
  p2 = p2
  Agents = {a1, a2}
  Processes = {p1, p2}
  MaxAttempts = 2
  MaxFaults = 1
  short = short
  long = long
  Tokens = {short, long}
  Expiry <- MCExpiry
  TokenTtl = 2
  KeysTtl = 3
  Timeout = 1
  MaxNow = 7
  MaxKey = 2
  MaxAsked = 2
INVARIANTS
  AnswersAreTrue
  OutcomeIsReadable
  ExpiredTokensFade
  KeysFollowRotation
\* The attempts and the time of the bound may be used up.
CHECK_DEADLOCK FALSE
