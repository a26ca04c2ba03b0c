\* Messages typed while others wait in the send queue.
CONSTANTS
  MaxLines = 3
  Senders <- MCSenders
  Teams <- MCTeams
  Msgs <- MCSingleLine
  MaxRepeats = 1
  MaxTyped = 5
  MaxCommands = 4
  MaxListed = 4
  MaxPresses = 5
SPECIFICATION Spec
INVARIANT SentInOrder
