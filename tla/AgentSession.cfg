\* The session under digest authentication, which is the default, with no retry
\* beyond the one after a failed attempt and two answers of the ACS that leave
\* a task or a fault behind; fairness of the agent's own steps.
CONSTANTS
  AgentStarted = TRUE
  MaxSessionRetry = 0
  AcsAuth = TRUE
  MaxReplies = 2
  MaxWakes = 1

SPECIFICATION FairSpec
CHECK_DEADLOCK FALSE
INVARIANTS TypeOK NoHandshakeOnDangling AnswersInStep ConnectsBounded
  CompletedOnce EventWakesAgent
PROPERTIES AcceptedTasksRun RequestServed
