----------------------------- MODULE Assistant -----------------------------
(***************************************************************************)
(* The assistant: the chats in the database (store/chat.go), the pages and *)
(* the message form (web/handlers_assistant.go), and the loop in which a   *)
(* language model calls tools on the configuration (ai/agent.go, the       *)
(* registry of ai/tools.go).  A message is answered by one turn, a request *)
(* of its own; the model may answer anything, and the operators edit the   *)
(* configuration meanwhile.                                                *)
(*                                                                         *)
(* Of the configuration only whether it passes the check matters here;     *)
(* what the tools do to it is in Topology.                                 *)
(***************************************************************************)
EXTENDS Integers, Sequences

CONSTANTS
  Users,        \* operators with a chat of their own
  Turns,        \* messages sent: each is one turn
  MaxChats,     \* bound: conversations ever created
  MaxCalls,     \* bound: tool calls in one answer of the model
  MaxSteps      \* answers the model may give in one turn

ASSUME BoundsAssumption ==
  MaxChats \in Nat /\ MaxCalls \in Nat \ {0} /\ MaxSteps \in Nat \ {0}

VARIABLES
  configured,   \* the assistant is enabled and has a key that decrypts
  sound,        \* the configuration in the database passes the check
  chats,        \* table ai_conversations: owner and title by id
  opened,       \* its AUTOINCREMENT counter
  messages,     \* table ai_messages: the rows of each conversation, by their ids
  turn,         \* turn[t]: the local state of the request
  mixed         \* history: chats where turns overlapped, a message or a title was lost

vars == <<configured, sound, chats, opened, messages, turn, mixed>>

ChatIds == 1..MaxChats
NewTitle == "New conversation"

\* A message stands for the title made of it; one that reads as the default title
\* is left out.
ASSUME TitlesAssumption == NewTitle \notin Turns

\* The tools offered to the model: those that only read, and those that change
\* the configuration.
ReadTools == {"get_overview", "list_backends", "list_frontends", "validate_config"}
ChangeTools ==
  {"create_backend", "add_server", "create_frontend", "add_bind", "set_default_backend",
   "add_route", "add_acl", "add_rule", "create_error_page", "create_snippet",
   "delete_backend", "delete_frontend"}
Unknown == "no_such_tool"
Mutates(tool) == tool \in ChangeTools

\* A call stands for the kind of step it is.
Kind(tool) == CASE Mutates(tool) -> "change" [] tool = "validate_config" -> "validate"
                [] OTHER -> "context"
Kinds == {Kind(tool) : tool \in ReadTools \cup ChangeTools \cup {Unknown}}

\* What the database keeps of an answer, changed and valid, and history: whether the
\* turn touched the configuration, and after its last check (late), whether the model
\* asked for a check itself, whether others edited since the last check began
\* (disturbed), and whether the configuration was good when the turn was over.
Reply == [changed : BOOLEAN, valid : BOOLEAN, touched : BOOLEAN, late : BOOLEAN,
          asked : BOOLEAN, disturbed : BOOLEAN, good : BOOLEAN]
NoReply == [changed |-> FALSE, valid |-> TRUE, touched |-> FALSE, late |-> FALSE,
            asked |-> FALSE, disturbed |-> FALSE, good |-> FALSE]
\* The configuration as a check has it: it is read, and the file made of it passes or not.
Images == {"none", "reading", "sound", "broken"}
Chat == [user : Users, title : Turns \cup {NewTitle}]
Message == [role : {"user", "assistant"}, turn : Turns, reply : Reply]
Turn == [pc : {"new", "config", "history", "model", "tools", "net", "storeUser", "storeReply",
               "title", "done"},
         chat : ChatIds \cup {0}, untitled : BOOLEAN, steps : 0..MaxSteps, calls : 0..MaxCalls,
         kinds : SUBSET Kinds, image : Images, result : Reply]
NewTurn == [pc |-> "new", chat |-> 0, untitled |-> FALSE, steps |-> 0, calls |-> 0,
            kinds |-> {}, image |-> "none", result |-> NoReply]

Goto(t, pc) == turn' = [turn EXCEPT ![t].pc = pc]
End(t) == turn' = [turn EXCEPT ![t] = [NewTurn EXCEPT !.pc = "done"]]

-----------------------------------------------------------------------------
(* Conversations.                                                          *)

CreateConversation(u) ==
  /\ opened < MaxChats /\ opened' = opened + 1
  /\ chats' = [c \in DOMAIN chats \cup {opened + 1} |->
                 IF c \in DOMAIN chats THEN chats[c] ELSE [user |-> u, title |-> NewTitle]]
  /\ messages' = [c \in DOMAIN messages \cup {opened + 1} |->
                    IF c \in DOMAIN messages THEN messages[c] ELSE <<>>]
  /\ UNCHANGED <<configured, sound, turn, mixed>>

HandleAssistantNew(u) == CreateConversation(u)

ListConversations(u) == {c \in DOMAIN chats : chats[c].user = u}

\* The page opens a conversation for an operator who has none.
HandleAssistant(u) == configured /\ ListConversations(u) = {} /\ CreateConversation(u)

Cascaded(c) == [d \in DOMAIN messages \ {c} |-> messages[d]]

HandleAssistantDelete(u, c) ==
  /\ c \in ListConversations(u)
  /\ chats' = [d \in DOMAIN chats \ {c} |-> chats[d]]
  /\ messages' = Cascaded(c)
  /\ UNCHANGED <<configured, sound, opened, turn, mixed>>

HandleAISettingsSave ==
  /\ configured' = ~configured
  /\ UNCHANGED <<sound, chats, opened, messages, turn, mixed>>

-----------------------------------------------------------------------------
(* A message: the conversation, the settings, the history.                 *)

Active(t) == turn[t].pc \notin {"new", "done"}

GetConversation(t, u, c) ==
  /\ turn[t].pc = "new"
  /\ c \in ListConversations(u)
  /\ mixed' = IF \E s \in Turns : Active(s) /\ turn[s].chat = c THEN mixed \cup {c} ELSE mixed
  /\ turn' = [turn EXCEPT ![t] = [NewTurn EXCEPT !.pc = "config", !.chat = c,
                                                 !.untitled = chats[c].title = NewTitle]]
  /\ UNCHANGED <<configured, sound, chats, opened, messages>>

LoadAIConfig(t) ==
  /\ turn[t].pc = "config"
  /\ IF configured THEN Goto(t, "history") ELSE End(t)
  /\ UNCHANGED <<configured, sound, chats, opened, messages, mixed>>

\* The model sees the messages stored so far: a turn that is still in flight in
\* the same chat is not among them.
BuildTranscript(t) ==
  /\ turn[t].pc = "history"
  /\ Goto(t, "model")
  /\ UNCHANGED <<configured, sound, chats, opened, messages, mixed>>

-----------------------------------------------------------------------------
(* Agent.Run.                                                              *)

\* Mutant: one answer too many.
OneMore(r) == r.steps <= MaxSteps

StepsLeft(r) == r.steps < MaxSteps

\* The call of the model fails or takes too long: the turn ends with an error and
\* nothing is stored, whatever its tools have changed.
ModelFails(t) ==
  /\ turn[t].pc = "model" /\ StepsLeft(turn[t])
  /\ End(t)
  /\ UNCHANGED <<configured, sound, chats, opened, messages, mixed>>

ModelAnswers(t) ==
  /\ turn[t].pc = "model" /\ StepsLeft(turn[t])
  /\ \E calls \in 0..MaxCalls :
       turn' = [turn EXCEPT ![t].pc = IF calls = 0 THEN "net" ELSE "tools",
                            ![t].calls = calls, ![t].steps = @ + 1]
  /\ UNCHANGED <<configured, sound, chats, opened, messages, mixed>>

StepsSpent(t) ==
  /\ turn[t].pc = "model" /\ ~StepsLeft(turn[t])
  /\ Goto(t, "net")
  /\ UNCHANGED <<configured, sound, chats, opened, messages, mixed>>

\* An edit disturbs the other turns at work.
AtWork(r) == r.pc \in {"model", "tools", "net"}

Disturbed(r) == IF AtWork(r) THEN [r EXCEPT !.result.disturbed = TRUE] ELSE r

\* Mutant: any step is taken for a validation.
AnyStep(r) == r.kinds # {}

ValidatedInSteps(r) == "validate" \in r.kinds

\* The safety net: a turn that changed something and has no validation among its
\* steps is checked before it ends.
Unchecked(r) == r.result.changed /\ ~ValidatedInSteps(r)

\* PreviewConfig, for validate_config or for the net.  It reads the tables one
\* query after the other, renders them, and then runs haproxy -c on the file: if
\* others edit while it reads, the file is of no one moment, and may pass or not.
BeginPreview(t) ==
  LET r == turn[t] IN
  /\ r.image = "none" /\ (r.pc = "tools" \/ (r.pc = "net" /\ Unchecked(r)))
  /\ turn' = [turn EXCEPT ![t].image = "reading", ![t].result.disturbed = FALSE]
  /\ UNCHANGED <<configured, sound, chats, opened, messages, mixed>>

Render(t) ==
  LET r == turn[t] IN
  /\ r.image = "reading"
  /\ \E passes \in IF r.result.disturbed THEN BOOLEAN ELSE {sound} :
       turn' = [turn EXCEPT ![t].image = IF passes THEN "sound" ELSE "broken"]
  /\ UNCHANGED <<configured, sound, chats, opened, messages, mixed>>

\* Mutant: only the last call counts.
LastChanged(r, kind) == kind = "change"

Changed(r, kind) == r.result.changed \/ kind = "change"

\* The call is among the steps; after the last one the model is asked again.
Called(r, kind) ==
  [r EXCEPT !.calls = @ - 1, !.kinds = @ \cup {kind},
            !.pc = IF r.calls = 1 THEN "model" ELSE "tools"]

\* Registry.Call: a tool that fails has changed nothing, and one whose arguments do
\* not parse is not run; a validation is a step of its kind even then.
ToolFails(t, kind) ==
  /\ turn[t].pc = "tools" /\ turn[t].image = "none"
  /\ turn' = [turn EXCEPT ![t] = Called(turn[t], kind)]
  /\ UNCHANGED <<configured, sound, chats, opened, messages, mixed>>

\* The preview is made, or not, and the file passes or not: else it is invalid.
Checked(r, ran) == [r EXCEPT !.image = "none", !.result.valid = r.image = "sound" /\ ran,
                             !.result.late = FALSE]

ToolWorks(t, kind) ==
  LET r == turn[t]
      step == [Called(r, kind) EXCEPT !.result.changed = Changed(r, kind)]
  IN
  /\ r.pc = "tools"
  /\ \/ /\ kind = "context" /\ r.image = "none"
        /\ turn' = [turn EXCEPT ![t] = step] /\ UNCHANGED sound
     \/ /\ kind = "validate" /\ r.image \in {"sound", "broken"}
        /\ \E ran \in BOOLEAN : turn' = [turn EXCEPT ![t] = Checked(step, ran)]
        /\ UNCHANGED sound
     \/ /\ kind = "change" /\ r.image = "none"
        /\ turn' = [s \in Turns |-> IF s = t THEN [step EXCEPT !.result.touched = TRUE,
                                                              !.result.late = TRUE]
                                    ELSE Disturbed(turn[s])]
        /\ sound' \in BOOLEAN
  /\ UNCHANGED <<configured, chats, opened, messages, mixed>>

\* The turn is over: its answer is settled, whatever happens to the configuration
\* from here on.
SafetyNet(t) ==
  LET r == turn[t]
      asked == "validate" \in r.kinds
      Over(s) == [NewTurn EXCEPT !.pc = "storeUser", !.chat = s.chat, !.untitled = s.untitled,
                    !.result = [s.result EXCEPT !.good = sound, !.asked = asked]]
  IN
  /\ r.pc = "net"
  /\ \/ ~Unchecked(r) /\ turn' = [turn EXCEPT ![t] = Over(r)]
     \/ /\ Unchecked(r) /\ r.image \in {"sound", "broken"}
        /\ \E ran \in BOOLEAN : turn' = [turn EXCEPT ![t] = Over(Checked(r, ran))]
  /\ UNCHANGED <<configured, sound, chats, opened, messages, mixed>>

-----------------------------------------------------------------------------
(* What is kept of the turn: two messages and the title.                   *)

\* The foreign key refuses a message of a conversation that is gone, and the
\* call may fail: the handler logs it and goes on.
AddChatMessage(t, role, next) ==
  LET c == turn[t].chat  r == turn[t].result IN
  /\ \/ /\ c \in DOMAIN chats
        /\ messages' = [messages EXCEPT ![c] = Append(@,
               [role |-> role, turn |-> t, reply |-> IF role = "user" THEN NoReply ELSE r])]
        /\ UNCHANGED mixed
     \/ UNCHANGED messages /\ mixed' = mixed \cup {c}
  /\ turn' = [turn EXCEPT ![t].pc = next]
  /\ UNCHANGED <<configured, sound, chats, opened>>

\* Mutant: the answer goes first.
AnswerFirst == [storeUser |-> "assistant", storeReply |-> "user"]

RoleOf == [storeUser |-> "user", storeReply |-> "assistant"]

StoreUser(t) ==
  turn[t].pc = "storeUser" /\ AddChatMessage(t, RoleOf["storeUser"], "storeReply")
StoreReply(t) ==
  turn[t].pc = "storeReply" /\ AddChatMessage(t, RoleOf["storeReply"], "title")

\* Only a conversation that was new when the turn began is named after it; the
\* error of the update is dropped.
SetConversationTitle(t) ==
  LET r == turn[t] IN
  /\ r.pc = "title"
  /\ \/ /\ chats' = IF r.untitled /\ r.chat \in DOMAIN chats
                    THEN [chats EXCEPT ![r.chat].title = t] ELSE chats
        /\ UNCHANGED mixed
     \/ r.untitled /\ mixed' = mixed \cup {r.chat} /\ UNCHANGED chats
  /\ End(t)
  /\ UNCHANGED <<configured, sound, opened, messages>>

TurnStep(t) ==
  \/ \E u \in Users, c \in ChatIds : GetConversation(t, u, c)
  \/ LoadAIConfig(t) \/ BuildTranscript(t)
  \/ ModelFails(t) \/ ModelAnswers(t) \/ StepsSpent(t)
  \/ \E kind \in Kinds : ToolFails(t, kind) \/ ToolWorks(t, kind)
  \/ BeginPreview(t) \/ Render(t) \/ SafetyNet(t)
  \/ StoreUser(t) \/ StoreReply(t) \/ SetConversationTitle(t)

\* The forms of the panel, in the hands of the operators.
OperatorEdits ==
  /\ sound' \in BOOLEAN
  /\ turn' = [s \in Turns |-> Disturbed(turn[s])]
  /\ UNCHANGED <<configured, chats, opened, messages, mixed>>

Init ==
  /\ configured \in BOOLEAN /\ sound \in BOOLEAN
  /\ chats = <<>> /\ opened = 0 /\ messages = <<>>   \* no rows
  /\ turn = [t \in Turns |-> NewTurn] /\ mixed = {}

Next ==
  \/ \E u \in Users : HandleAssistantNew(u) \/ HandleAssistant(u)
  \/ \E u \in Users, c \in ChatIds : HandleAssistantDelete(u, c)
  \/ HandleAISettingsSave \/ OperatorEdits
  \/ \E t \in Turns : TurnStep(t)

Spec == Init /\ [][Next]_vars

-----------------------------------------------------------------------------
\* Rows have their shape, messages belong to a conversation that exists, and no turn
\* asks the model more often than MaxSteps.
TypeOK ==
  /\ configured \in BOOLEAN /\ sound \in BOOLEAN
  /\ opened \in 0..MaxChats /\ DOMAIN chats \subseteq 1..opened
  /\ chats \in [DOMAIN chats -> Chat] /\ messages \in [DOMAIN chats -> Seq(Message)]
  /\ turn \in [Turns -> Turn] /\ mixed \subseteq ChatIds

Stored == UNION {{messages[c][k] : k \in DOMAIN messages[c]} : c \in DOMAIN messages}
Answers == {m \in Stored : m.role = "assistant"}

\* An answer that does not say it changed anything comes from a turn that left
\* the configuration alone, however many tools it called and whichever failed.
ChangesAreTold == \A m \in Answers : m.reply.touched => m.reply.changed

\* "If the agent made changes but never validated, the controller validates itself
\* before reporting" (README.md:145): when an answer says changed and valid, and
\* nobody else has edited since the last check began, the configuration passes; but
\* for one whose model called validate_config and changed something without a check
\* after it.
ReadyWasChecked ==
  \A m \in Answers :
    m.reply.changed /\ m.reply.valid /\ ~m.reply.disturbed =>
      m.reply.good \/ (m.reply.asked /\ m.reply.late)

\* "So you are never told a broken configuration is ready" (README.md:146, agent.go:139):
\* the same, without the exception.  The code does not give it.
NeverToldBroken ==
  \A m \in Answers : m.reply.changed /\ m.reply.valid /\ ~m.reply.disturbed => m.reply.good

\* The history the next turn reads is question and answer in turn, named after
\* its first question, as long as no two turns overlapped in the chat and neither
\* a message nor the title was lost.
TurnsStayTogether ==
  \A c \in DOMAIN chats \ mixed :
    LET log == messages[c] IN
    /\ \A k \in DOMAIN log : log[k].role = IF k % 2 = 1 THEN "user" ELSE "assistant"
    /\ \A k \in DOMAIN log : k % 2 = 0 => log[k].turn = log[k - 1].turn
    /\ chats[c].title # NewTitle => log # <<>> /\ log[1].turn = chats[c].title
=============================================================================
