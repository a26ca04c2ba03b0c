\* Three ring slots (64 in the code), repeats up to one, five typed or pasted
\* messages: enough to wrap the ring, fill the send queue and drop a fourth
\* waiting message.  Tab completion over 1 to 4 commands (3 is not a power
\* of two, so the size_t wrap of a backward scan is computed as in the
\* code) and up to four listed players, for every run of up to five presses.
CONSTANTS
  MaxLines = 3
  Senders <- MCSenders
  Teams <- MCTeams
  Msgs <- MCSingleLine
  MaxRepeats = 1
  MaxTyped = 5
  MaxCommands = 4
  MaxListed = 4
  MaxPresses = 5
SPECIFICATION Spec
INVARIANT TypeOK
PROPERTY ChatShowsLatest
INVARIANT CommandCompletionCycles
INVARIANT NameCompletionCycles
