------------------------------- MODULE Chat -------------------------------
(***************************************************************************)
(* The client chat, CChat (src/game/client/components/chat.cpp): the ring  *)
(* of MAX_LINES received lines that AddLine writes and OnPrepareLines and  *)
(* OnRender read newest first, and the rate-limited sending of the local   *)
(* player's messages: Enter (OnInput) and SayChat send at once when the    *)
(* last message went out more than a second ago, queue up to three more    *)
(* in m_History otherwise, and OnRender sends the queued ones one per      *)
(* second.                                                                 *)
(*                                                                         *)
(* Time is abstracted to one flag, cool: m_LastChatSend + time_freq() <    *)
(* time().  Texts are model values; a message is a sequence of lines, the *)
(* result of AddLine's split on '\n' after trimming.                       *)
(***************************************************************************)
EXTENDS Integers, Sequences, SequencesExt

CONSTANTS
  MaxLines,     \* MAX_LINES, the size of m_aLines
  Senders,      \* client ids of lines: SERVER_MSG = -1, CLIENT_MSG = -2, players
  Teams,        \* team numbers of lines: 0 all, 1 team, 2 and 3 whispers
  Msgs,         \* incoming messages, as sequences of non-empty lines
  MaxRepeats,   \* bound on m_TimesRepeated
  MaxTyped      \* bound on the messages the local player types

\* CChat::OnInput and SayChat queue at most three messages.
MaxPending == 3

VARIABLES
  lines,      \* m_aLines: client, team, text and repeat count of each slot
  current,    \* m_CurrentLine, the newest slot
  history,    \* m_History: the entries sent or queued, oldest first
  pending,    \* m_PendingChatCounter
  cool,       \* m_LastChatSend + time_freq() < time()
  open,       \* m_Mode != MODE_NONE: the chat input is active
  typed,      \* ghost: messages typed so far, each one's id
  accepted,   \* ghost: non-blank messages taken for sending, in order
  sent        \* ghost: the messages Say sent to the server, in order

vars == <<lines, current, history, pending, cool, open, typed, accepted,
          sent>>

Slots == 0 .. MaxLines - 1
Texts == UNION {Range(m) : m \in Msgs}

\* A line whose text is empty: what Reset leaves in a slot.
EmptyLine == [client |-> 0, team |-> 0, text |-> "", repeats |-> 0]
LineRec == [client : Senders \cup {0}, team : Teams \cup {0},
            text : Texts \cup {""}, repeats : 0 .. MaxRepeats]

\* An m_History entry: the id of the typed message and whether the text is
\* only whitespace (Say sends nothing for it).
Entry == [id : 0 .. MaxTyped - 1, blank : BOOLEAN]

TypeOK ==
  /\ lines \in [Slots -> LineRec]
  /\ current \in Slots
  /\ history \in Seq(Entry)
  /\ pending \in 0 .. MaxPending
  /\ cool \in BOOLEAN
  /\ open \in BOOLEAN
  /\ typed \in 0 .. MaxTyped
  /\ accepted \in Seq(0 .. MaxTyped - 1)
  /\ sent \in Seq(0 .. MaxTyped - 1)

Init ==
  /\ lines = [i \in Slots |-> EmptyLine]
  /\ current = 0
  /\ history = <<>>
  /\ pending = 0
  /\ cool = TRUE
  /\ open = FALSE
  /\ typed = 0
  /\ accepted = <<>>
  /\ sent = <<>>

-----------------------------------------------------------------------------
(***************************************************************************)
(* The received lines.                                                     *)
(***************************************************************************)

\* A plausible slip: the slot taken for a new line keeps its old
\* m_TimesRepeated (the reset of line 767 missing).
RECURSIVE AddLinesKeepRepeats(_, _, _, _, _)
AddLinesKeepRepeats(ring, cur, cid, team, msg) ==
  IF msg = <<>> THEN [lines |-> ring, current |-> cur]
  ELSE IF /\ ring[cur].team = team /\ ring[cur].client = cid
          /\ ring[cur].text = Head(msg)
  THEN [lines |-> [ring EXCEPT ![cur].repeats = @ + 1], current |-> cur]
  ELSE LET n == (cur + 1) % MaxLines IN
       AddLinesKeepRepeats(
         [ring EXCEPT ![n] = [client |-> cid, team |-> team,
                              text |-> Head(msg), repeats |-> ring[n].repeats]],
         n, cid, team, Tail(msg))

(* The loop of AddLine over the lines of one message (chat.cpp 734-853): a *)
(* line equal to the newest one (same team number, client id and text)     *)
(* increments its m_TimesRepeated and returns from AddLine; any other line *)
(* advances m_CurrentLine modulo MAX_LINES and overwrites that slot.       *)
RECURSIVE AddLines(_, _, _, _, _)
AddLines(ring, cur, cid, team, msg) ==
  IF msg = <<>> THEN [lines |-> ring, current |-> cur]
  ELSE IF /\ ring[cur].team = team /\ ring[cur].client = cid
          /\ ring[cur].text = Head(msg)
  THEN [lines |-> [ring EXCEPT ![cur].repeats = @ + 1], current |-> cur]
  ELSE LET n == (cur + 1) % MaxLines IN
       AddLines([ring EXCEPT ![n] = [client |-> cid, team |-> team,
                                     text |-> Head(msg), repeats |-> 0]],
                n, cid, team, Tail(msg))

(* CChat::AddLine (656-853) for a message that passes the filters of lines *)
(* 658-664 (a filtered or empty message returns before any change).  The   *)
(* sound and the console echo at the end leave the ring alone.            *)
AddLine(cid, team, msg) ==
  LET r == AddLines(lines, current, cid, team, msg) IN
  /\ \A i \in Slots : r.lines[i].repeats <= MaxRepeats
  /\ lines' = r.lines
  /\ current' = r.current
  /\ UNCHANGED <<history, pending, cool, open, typed, accepted, sent>>

-----------------------------------------------------------------------------
(***************************************************************************)
(* The local player's messages.                                            *)
(***************************************************************************)

\* Say (1333-1346): whitespace-only text is dropped; anything else is sent
\* and stamps m_LastChatSend.
SaySent(e) == IF e.blank THEN sent ELSE Append(sent, e.id)
SayCool(e) == IF e.blank THEN cool ELSE FALSE

\* A plausible slip: the queue takes a message whatever the number waiting.
SubmitNoQueueLimit(blank) ==
  LET e == [id |-> typed, blank |-> blank] IN
  /\ typed < MaxTyped
  /\ typed' = typed + 1
  /\ history' = Append(history, e)
  /\ accepted' = IF blank THEN accepted ELSE Append(accepted, e.id)
  /\ IF cool
     THEN sent' = SaySent(e) /\ cool' = SayCool(e) /\ UNCHANGED pending
     ELSE pending' = pending + 1 /\ UNCHANGED <<sent, cool>>

(* The queueing shared by Enter (OnInput 262-281) and SayChat (1348-1372):  *)
(* send now if the cooldown is over, else queue while fewer than three     *)
(* wait; either way the text goes into m_History.  A fourth waiting        *)
(* message is dropped.                                                     *)
Submit(blank) ==
  LET e == [id |-> typed, blank |-> blank] IN
  /\ typed < MaxTyped
  /\ typed' = typed + 1
  /\ IF cool \/ pending < MaxPending
     THEN /\ history' = Append(history, e)
          /\ accepted' = IF blank THEN accepted ELSE Append(accepted, e.id)
     ELSE UNCHANGED <<history, accepted>>
  /\ IF cool
     THEN sent' = SaySent(e) /\ cool' = SayCool(e) /\ UNCHANGED pending
     ELSE /\ pending' = IF pending < MaxPending THEN pending + 1 ELSE pending
          /\ UNCHANGED <<sent, cool>>

\* Enter in OnInput (253-285) with text in the input: submit it and close
\* the input (DisableMode).
Enter(blank) ==
  /\ open
  /\ Submit(blank)
  /\ open' = FALSE
  /\ UNCHANGED <<lines, current>>

\* SayChat as the input's clipboard-line callback (40, 1348-1372): a pasted
\* line is submitted and the input stays open.
SayChat(blank) ==
  /\ open
  /\ Submit(blank)
  /\ UNCHANGED <<lines, current, open>>

\* The console commands say and say_team (155-163) call Say directly:
\* no queue, no history, but m_LastChatSend is stamped.
ConSay(blank) ==
  /\ cool' = IF blank THEN cool ELSE FALSE
  /\ UNCHANGED <<lines, current, history, pending, open, typed, accepted,
                 sent>>

\* EnableMode (527-545), from the chat or chat team binds (ConChat,
\* 165-177): open the input if it is closed.
EnableMode ==
  /\ ~open
  /\ open' = TRUE
  /\ UNCHANGED <<lines, current, history, pending, cool, typed, accepted,
                 sent>>

\* Escape, or Enter on an empty input, in OnInput (243-251, 284):
\* DisableMode (546-553).
DisableMode ==
  /\ open
  /\ open' = FALSE
  /\ UNCHANGED <<lines, current, history, pending, cool, typed, accepted,
                 sent>>

(* The start of OnRender (1178-1191): once the cooldown is over, walk back *)
(* from the last m_History entry m_PendingChatCounter - 1 steps, Say that  *)
(* entry and count one pending message less.                               *)
Flush ==
  LET e == history[Len(history) - pending + 1] IN
  /\ pending > 0 /\ cool
  /\ sent' = SaySent(e) /\ cool' = SayCool(e)
  /\ pending' = pending - 1
  /\ UNCHANGED <<lines, current, history, open, typed, accepted>>

\* A second passes.
Wait ==
  /\ ~cool
  /\ cool' = TRUE
  /\ UNCHANGED <<lines, current, history, pending, open, typed, accepted,
                 sent>>

(* CChat::Reset (107-142), on connecting and disconnecting: the lines lose *)
(* their text and repeat count, m_CurrentLine and m_PendingChatCounter go  *)
(* to 0 and m_LastChatSend to 0, the input closes; m_History is kept.      *)
Reset ==
  /\ lines' = [i \in Slots |-> [lines[i] EXCEPT !.text = "", !.repeats = 0]]
  /\ current' = 0
  /\ pending' = 0
  /\ cool' = TRUE
  /\ open' = FALSE
  /\ UNCHANGED <<history, typed, accepted, sent>>

Next ==
  \/ \E cid \in Senders, team \in Teams, msg \in Msgs : AddLine(cid, team, msg)
  \/ \E blank \in BOOLEAN : Enter(blank) \/ SayChat(blank) \/ ConSay(blank)
  \/ EnableMode
  \/ DisableMode
  \/ Flush
  \/ Wait
  \/ Reset

Spec == Init /\ [][Next]_vars

-----------------------------------------------------------------------------
\* The window OnPrepareLines and OnRender draw: slot (m_CurrentLine - i +
\* MAX_LINES) % MAX_LINES for i = 0, 1, ..., a slot with no text shown as
\* an empty line.
View ==
  [i \in 1 .. MaxLines |->
     LET l == lines[(current - (i - 1) + MaxLines) % MaxLines] IN
     IF l.text = "" THEN EmptyLine ELSE l]

Log == INSTANCE ChatLog WITH shown <- View

(* The ring read newest first behaves as the window of ChatLog: the        *)
(* MaxLines newest lines with their repeat counts, whatever the wrap of    *)
(* m_CurrentLine, the repeats and the resets.                              *)
ChatShowsLatest == Log!Spec

(* Messages reach the server in the order they were typed, each once: the *)
(* sent sequence is always a prefix of the accepted one.                  *)
SentInOrder == sent = SubSeq(accepted, 1, Len(sent))
=============================================================================
