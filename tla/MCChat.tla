------------------------------- MODULE MCChat -------------------------------
(* Model values and bounds for checking Chat with TLC.                     *)
EXTENDS Chat, ChatCompletion

\* The server (SERVER_MSG) and one player.
MCSenders == {-1, 0}

\* All chat only: the sender already tells lines with the same text apart.
MCTeams == {0}

\* One single-line text: lines from the same sender repeat, lines from the
\* server and the player differ.
MCSingleLine == {<<"a">>}

\* The inputs of the completion checks below, evaluated once at start-up.
CommandCompletionCorrect ==
  \A n \in 1 .. MaxCommands : \A M \in SUBSET (0 .. n - 1) :
    \A keys \in Presses :
      CommandPicks(n, M, keys)
        = RefPicks(SetToSortSeq(M, LAMBDA a, b : a < b), keys)

NameCompletionCorrect ==
  \A P \in 0 .. MaxListed : \A score \in [1 .. P -> {NoMatch, 0, 1}] :
    \A active \in SUBSET (1 .. P) : \A keys \in Presses :
      NamePicks(score, active, keys)
        = RefPicks(SetToSortSeq({p \in active : score[p] # NoMatch},
                                LAMBDA a, b : score[a] < score[b]
                                              \/ (score[a] = score[b] /\ a < b)),
                   keys)

(* Command completion cycles: whenever the chat input is open (OnInput     *)
(* returns at line 240 otherwise), for every number of commands, every set *)
(* of them matching the word and every run of Tab and Shift+Tab presses,   *)
(* the doubled-list search of OnInput (with its size_t index arithmetic)   *)
(* inserts the matching commands in m_vCommands order, cyclically, forward *)
(* for Tab and backward for Shift+Tab.                                     *)
CommandCompletionCycles == open => CommandCompletionCorrect

(* Name completion cycles: whenever the chat input is open, for every set  *)
(* of players, every offset of the word in their names and every set of   *)
(* them still active, the list built on the first Tab and the skip loop    *)
(* insert the active matching players best match first (ties in name       *)
(* order), cyclically, forward for Tab and backward for Shift+Tab, and     *)
(* never a player who left.                                                *)
NameCompletionCycles == open => NameCompletionCorrect
=============================================================================
