--------------------------- MODULE ChatCompletion ---------------------------
(***************************************************************************)
(* Tab completion in the chat input (CChat::OnInput, chat.cpp 288-436).    *)
(* Tab and Shift+Tab cycle through the chat commands that start with the   *)
(* word under the cursor, or through the players whose name contains it.   *)
(* The cursor of the cycle is m_CompletionChosen with m_CompletionUsed;    *)
(* EnableMode and any other key reset it to -1 and FALSE.                  *)
(*                                                                         *)
(* The text is abstracted away: what a word matches is given, a command    *)
(* as the set of indices of m_vCommands whose name starts with it, a       *)
(* player as the offset of the first match in the name (the score), and    *)
(* the inserted text is left out.  A press returns the command index or    *)
(* the list position it inserts, or None.                                  *)
(***************************************************************************)
EXTENDS Integers, Sequences, SequencesExt

CONSTANTS
  MaxCommands,   \* bound on m_vCommands.size()
  MaxListed,     \* bound on the players of m_apInfoByName
  MaxPresses     \* bound on the Tab presses of one completion

None == -1

\* The cursor after EnableMode or a key other than Tab and Shift.
Fresh == [chosen |-> -1, used |-> FALSE]

\* size_t arithmetic: a negative int converted to size_t is 2^64 + x.
Pow64Mod(n) == LET p32 == ((65536 % n) * (65536 % n)) % n IN (p32 * p32) % n
USizeMod(x, n) == IF x >= 0 THEN x % n ELSE (Pow64Mod(n) + x) % n

-----------------------------------------------------------------------------
(***************************************************************************)
(* Commands (lines 333-367).                                               *)
(***************************************************************************)

\* A plausible slip: Shift steps back on the first press too.
StepChosenShiftAlways(s, shift) == IF shift THEN s.chosen - 1 ELSE s.chosen + 1

\* The new m_CompletionChosen before the search (lines 337-341): Shift
\* steps back only once the cycle is in use, Tab always steps forward.
StepChosen(s, shift) ==
  CASE shift /\ s.used -> s.chosen - 1
    [] ~shift          -> s.chosen + 1
    [] OTHER           -> s.chosen

(* The loop of lines 345-366 over the doubled list of 2 * NumCommands      *)
(* positions from m_CompletionChosen, forward for Tab and backward for     *)
(* Shift: the first position whose command starts with the word.  Both   *)
(* Index expressions are size_t arithmetic.                                *)
RECURSIVE CommandScan(_, _, _, _, _)
CommandScan(c, n, shift, M, i) ==
  IF i = 2 * n THEN None
  ELSE LET st  == IF shift THEN ((c - i + 2 * n) % (2 * n)) \div n
                           ELSE ((c + i) % (2 * n)) \div n
           idx == IF shift THEN USizeMod(c - i + n, n) ELSE (c + i) % n
       IN  IF idx \in M THEN idx + st * n
           ELSE CommandScan(c, n, shift, M, i + 1)

(* One press on a '/' word with n >= 1 commands of which those in M match: *)
(* the new cursor and the index of the command inserted.                   *)
CommandTab(s, n, M, shift) ==
  LET c == USizeMod(StepChosen(s, shift) + 2 * n, 2 * n)
      r == CommandScan(c, n, shift, M, 0)
  IN  [chosen |-> IF r = None THEN c ELSE r, used |-> TRUE,
       pick |-> IF r = None THEN None ELSE r % n]

-----------------------------------------------------------------------------
(***************************************************************************)
(* Player names (lines 305-328 and 375-407).                               *)
(***************************************************************************)

NoMatch == -1

\* A plausible slip: the list is left in name order, not sorted by score.
CompletionListUnsorted(score) ==
  SetToSortSeq({p \in DOMAIN score : score[p] # NoMatch}, LAMBDA a, b : a < b)

(* The completion list built on the first press (lines 305-328): the       *)
(* players of m_apInfoByName (in name order) whose name contains the word, *)
(* stable_sort-ed by score, the offset of the match in the name.           *)
CompletionList(score) ==
  SetToSortSeq({p \in DOMAIN score : score[p] # NoMatch},
               LAMBDA a, b : score[a] < score[b]
                             \/ (score[a] = score[b] /\ a < b))

(* The loop of lines 384-406 over the L list positions: step the cursor   *)
(* (Shift only once the cycle is in use), wrap it into 0 .. L-1, and stop *)
(* at the first position whose client is still active; a player who left   *)
(* is skipped.  With an empty list nothing changes.                        *)
RECURSIVE NameScan(_, _, _, _, _)
NameScan(s, L, active, shift, i) ==
  IF i = L THEN [s EXCEPT !.pick = None]
  ELSE LET c1 == StepChosen(s, shift)
           c  == (IF c1 < 0 THEN c1 + L ELSE c1) % L
       IN  IF c \in active THEN [chosen |-> c, used |-> TRUE, pick |-> c]
           ELSE NameScan([chosen |-> c, used |-> TRUE, pick |-> None],
                         L, active, shift, i + 1)

NameTab(s, L, active, shift) ==
  NameScan([chosen |-> s.chosen, used |-> s.used, pick |-> None],
           L, active, shift, 0)

-----------------------------------------------------------------------------
(***************************************************************************)
(* What Tab promises: a cursor over the matches in their order, the first *)
(* Tab on the first match, the first Shift+Tab on the last one, each next *)
(* press on the next (previous) one, cyclically.                           *)
(***************************************************************************)

RefStep(q, len, shift) ==
  CASE len = 0            -> q
    [] q = None /\ shift  -> len - 1
    [] q = None           -> 0
    [] shift              -> (q - 1 + len) % len
    [] OTHER              -> (q + 1) % len

\* The matches a run of presses reaches, None while there is none.
RefPicks(order, keys) ==
  LET f(acc, shift) ==
        LET q == RefStep(acc.q, Len(order), shift)
        IN  [q |-> q, picks |-> Append(acc.picks,
                                       IF q = None THEN None ELSE order[q + 1])]
  IN  FoldLeft(f, [q |-> None, picks |-> <<>>], keys).picks

\* Every run of at most MaxPresses presses of Tab (FALSE) or Shift+Tab.
Presses == UNION {[1 .. k -> BOOLEAN] : k \in 1 .. MaxPresses}

CommandPicks(n, M, keys) ==
  LET f(acc, shift) ==
        LET r == CommandTab(acc.s, n, M, shift)
        IN  [s |-> [chosen |-> r.chosen, used |-> r.used],
             picks |-> Append(acc.picks, r.pick)]
  IN  FoldLeft(f, [s |-> Fresh, picks |-> <<>>], keys).picks

NamePicks(score, active, keys) ==
  LET list == CompletionList(score)
      live == {i \in 0 .. Len(list) - 1 : list[i + 1] \in active}
      f(acc, shift) ==
        LET r == NameTab(acc.s, Len(list), live, shift)
        IN  [s |-> [chosen |-> r.chosen, used |-> r.used],
             picks |-> Append(acc.picks,
                              IF r.pick = None THEN None ELSE list[r.pick + 1])]
  IN  FoldLeft(f, [s |-> Fresh, picks |-> <<>>], keys).picks

=============================================================================
