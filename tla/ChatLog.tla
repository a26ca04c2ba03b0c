------------------------------ MODULE ChatLog ------------------------------
(***************************************************************************)
(* What the chat promises to show: the MaxLines newest lines, newest       *)
(* first.  Every line of an incoming message is either a repeat of the     *)
(* newest line (same sender, same team, same text), which counts one more  *)
(* repetition, or a new newest line that pushes the oldest one out.  Reset *)
(* empties the window.                                                     *)
(***************************************************************************)
EXTENDS Integers, Sequences, SequencesExt

CONSTANTS
  MaxLines,   \* lines kept
  Senders,    \* client ids, SERVER_MSG and CLIENT_MSG
  Teams,      \* team numbers of a line
  Msgs        \* the messages that arrive, as sequences of lines of text

VARIABLE shown

\* An unused line: no text.
EmptyLine == [client |-> 0, team |-> 0, text |-> "", repeats |-> 0]

\* One line of a message arriving at the window s.
AddOne(s, cid, team, t) ==
  IF s[1].client = cid /\ s[1].team = team /\ s[1].text = t
  THEN [s EXCEPT ![1].repeats = @ + 1]
  ELSE <<[client |-> cid, team |-> team, text |-> t, repeats |-> 0]>>
         \o SubSeq(s, 1, MaxLines - 1)

\* A whole message, line after line.
AddMessage(s, cid, team, msg) ==
  FoldLeft(LAMBDA acc, t : AddOne(acc, cid, team, t), s, msg)

Init == shown = [i \in 1 .. MaxLines |-> EmptyLine]

Add == \E cid \in Senders, team \in Teams, msg \in Msgs :
         shown' = AddMessage(shown, cid, team, msg)

Clear == shown' = [i \in 1 .. MaxLines |-> EmptyLine]

Spec == Init /\ [][Add \/ Clear]_shown
=============================================================================
