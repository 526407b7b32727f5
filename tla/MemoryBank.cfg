\* Two users with a session each, two turns each, three calls that overlap.
SPECIFICATION Spec
CONSTANTS
  ann = ann
  bob = bob
  chat1 = chat1
  chat2 = chat2
  Users = {ann, bob}
  Sessions = {chat1, chat2}
  Owner <- MCOwner
  Fields = {name, role}
  MaxTurns = 2
  MaxCalls = 3
INVARIANTS
  ClearedStaysGone
  ToldIsTrue
  ProfileIsFresh
\* The calls and turns of the bound may be used up.
CHECK_DEADLOCK FALSE
