----------------------------- MODULE MCInbound -----------------------------
(* The messages of Inbound and their platforms, for TLC.                   *)
EXTENDS Inbound

CONSTANTS telegramText, slackText, teamsText, teamsBare, report, tail

MCPlatform ==
  [m \in Messages |->
    CASE m = slackText -> "slack" [] m \in {teamsText, teamsBare} -> "teams" [] OTHER -> "telegram"]
=============================================================================
