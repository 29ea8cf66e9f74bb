-------------------------- MODULE AssistantProofs --------------------------
(***************************************************************************)
(* What holds of the assistant for any operators, any messages and any     *)
(* bounds.  The invariant says of each turn what its answer will be able   *)
(* to claim, and of each conversation that turns did not share how far its *)
(* log and its title have come.                                            *)
(***************************************************************************)
EXTENDS Assistant, TLAPS

-----------------------------------------------------------------------------
(* The inductive invariant.                                                *)

Answering == {"storeUser", "storeReply", "title"}
Stores == {"storeReply", "title"}

\* What a turn may claim, given whether the configuration is good: one that has not
\* reached the model, or has ended, knows of nothing; a change is always told.  At
\* work, an undisturbed turn that says valid, and has changed nothing since its last
\* check, is right, and so is the check that is about to end; the net checks what
\* no step has validated.  An answer is as it will be told.
Fresh(r) == r.kinds = {} /\ ~r.result.changed /\ ~r.result.touched /\ ~r.result.late

Ready(q) == q.changed /\ q.valid /\ ~q.disturbed => q.good \/ (q.asked /\ q.late)

Honest(r, good) ==
  /\ r.pc \in {"new", "config", "history", "done"} => Fresh(r)
  /\ r.pc \notin {"tools", "net"} => r.image = "none"
  /\ r.pc = "tools" => r.calls > 0
  /\ r.result.touched => r.result.changed
  /\ AtWork(r) /\ r.result.changed /\ r.result.valid =>
       r.result.late \/ r.result.disturbed \/ r.image # "none" \/ good
  /\ r.image = "sound" => r.result.disturbed \/ good
  /\ r.pc = "net" /\ r.image # "none" => Unchecked(r)
  /\ r.pc \in Answering => Ready(r.result)

TurnsAreHonest == \A t \in Turns : Honest(turn[t], sound)

\* Who is at work in a conversation: one turn at a time, unless it is mixed; and no
\* turn is in a conversation that is still to be created.
WorksIn(r, c) == r.pc \notin {"new", "done"} /\ r.chat = c

ChatsAreKnown ==
  \A t \in Turns : /\ turn[t].chat <= opened
                   /\ turn[t].chat = 0 => turn[t].pc \in {"new", "done"}

AloneInChat ==
  \A c \in ChatIds \ mixed : \A s, t \in Turns : WorksIn(turn[s], c) /\ WorksIn(turn[t], c) => s = t

\* The log of a conversation alternates; it ends with a question only while the
\* turn that asked it stores its answer.
Alternates(log) ==
  /\ \A k \in DOMAIN log : log[k].role = IF k % 2 = 1 THEN "user" ELSE "assistant"
  /\ \A k \in DOMAIN log : k % 2 = 0 => log[k].turn = log[k - 1].turn

HalfStored(t, log) == Len(log) % 2 = 1 /\ log[Len(log)].turn = t

LogFine(c, log, tr) ==
  /\ Alternates(log)
  /\ Len(log) % 2 = 1 => \E t \in Turns : WorksIn(tr[t], c) /\ tr[t].pc = "storeReply"
  /\ \A t \in Turns : WorksIn(tr[t], c) /\ tr[t].pc = "storeReply" => HalfStored(t, log)

LogsAlternate == \A c \in DOMAIN chats \ mixed : LogFine(c, messages[c], turn)

\* The title is that of the first question, or still to be set by the turn that
\* asked it; a turn knows whether its conversation has one.
TitleFine(c, title, log, tr) ==
  /\ title # NewTitle => log # <<>> /\ log[1].turn = title
  /\ title = NewTitle /\ log # <<>> =>
       \E t \in Turns : WorksIn(tr[t], c) /\ tr[t].pc \in Stores /\ log[1].turn = t
  /\ \A t \in Turns : WorksIn(tr[t], c) =>
       /\ tr[t].untitled = (title = NewTitle)
       /\ tr[t].pc \in Stores => log # <<>>

TitlesFollow ==
  \A c \in DOMAIN chats \ mixed : TitleFine(c, chats[c].title, messages[c], turn)

IInv ==
  /\ TypeOK /\ TurnsAreHonest /\ ChangesAreTold /\ ReadyWasChecked
  /\ ChatsAreKnown /\ AloneInChat /\ LogsAlternate /\ TitlesFollow


-----------------------------------------------------------------------------
(* The record of a turn.                                                   *)

LEMMA TurnFields ==
  ASSUME NEW r \in Turn
  PROVE  /\ r.chat \in ChatIds \cup {0} /\ r.untitled \in BOOLEAN /\ r.steps \in 0..MaxSteps
         /\ r.calls \in 0..MaxCalls /\ r.kinds \subseteq Kinds /\ r.image \in Images
         /\ r.result \in Reply
BY DEF Turn

LEMMA ReplyFields ==
  ASSUME NEW q \in Reply
  PROVE  /\ q.changed \in BOOLEAN /\ q.valid \in BOOLEAN /\ q.touched \in BOOLEAN
         /\ q.late \in BOOLEAN /\ q.asked \in BOOLEAN /\ q.disturbed \in BOOLEAN
         /\ q.good \in BOOLEAN
BY DEF Reply

\* A turn is begun, and ended, with an empty record.
LEMMA NewTurnType ==
  /\ NoReply \in Reply /\ NewTurn \in Turn /\ [NewTurn EXCEPT !.pc = "done"] \in Turn
<1>1. NoReply \in Reply BY DEF NoReply, Reply
<1>2. NewTurn \in Turn
  BY <1>1, BoundsAssumption DEF NewTurn, Turn, Images
<1>3. [NewTurn EXCEPT !.pc = "done"] \in Turn
  BY <1>2 DEF Turn
<1> QED BY <1>1, <1>2, <1>3

\* What is known of a turn that goes on with p, and of one whose image and result
\* become i and q.
LEMMA GoesOn ==
  ASSUME NEW r \in Turn,
         NEW p \in {"new", "config", "history", "model", "tools", "net", "storeUser", "storeReply",
                    "title", "done"}
  PROVE  LET s == [r EXCEPT !.pc = p] IN
         /\ s \in Turn /\ s.pc = p /\ s.chat = r.chat /\ s.untitled = r.untitled
         /\ s.kinds = r.kinds /\ s.image = r.image /\ s.result = r.result
BY Zenon DEF Turn

LEMMA Concludes ==
  ASSUME NEW r \in Turn, NEW i \in Images, NEW q \in Reply
  PROVE  LET s == [r EXCEPT !.image = i, !.result = q] IN
         /\ s \in Turn /\ s.pc = r.pc /\ s.chat = r.chat /\ s.untitled = r.untitled
         /\ s.kinds = r.kinds /\ s.calls = r.calls /\ s.image = i /\ s.result = q
BY Zenon DEF Turn

\* What others see of an edit.
LEMMA ReplyDisturbed ==
  ASSUME NEW q \in Reply, NEW b \in BOOLEAN
  PROVE  LET w == [q EXCEPT !.disturbed = b] IN
         /\ w \in Reply /\ w.disturbed = b /\ w.changed = q.changed /\ w.valid = q.valid
         /\ w.touched = q.touched /\ w.late = q.late
BY Zenon DEF Reply

\* A turn that does not act is no less honest after an edit, whatever has become of
\* the configuration.
LEMMA DisturbedTurn ==
  ASSUME NEW r \in Turn, NEW good \in BOOLEAN, NEW old \in BOOLEAN, Honest(r, old)
  PROVE  LET s == Disturbed(r) IN
         /\ s \in Turn /\ s.pc = r.pc /\ s.chat = r.chat /\ s.untitled = r.untitled
         /\ Honest(s, good)
<1> DEFINE q == [r.result EXCEPT !.disturbed = TRUE]
           s == [r EXCEPT !.image = r.image, !.result = q]
<1>1. CASE AtWork(r)
  <2>1. r.result \in Reply /\ r.image \in Images BY TurnFields
  <2>2. Disturbed(r) = s
    <3>1. Disturbed(r) = [r EXCEPT !.result = q] BY <1>1, Zenon DEF Disturbed
    <3>2. s = [r EXCEPT !.result = q]
      <4> HIDE DEF q
      <4> QED BY DEF Turn
    <3> QED BY <3>1, <3>2
  <2>3. /\ q \in Reply /\ q.disturbed = TRUE /\ q.changed = r.result.changed
        /\ q.valid = r.result.valid /\ q.touched = r.result.touched /\ q.late = r.result.late
    BY <2>1, ReplyDisturbed, Zenon
  <2> HIDE DEF q
  <2>4. /\ s \in Turn /\ s.pc = r.pc /\ s.chat = r.chat /\ s.untitled = r.untitled
        /\ s.kinds = r.kinds /\ s.calls = r.calls /\ s.image = r.image /\ s.result = q
    BY <2>1, <2>3, Concludes, Zenon
  <2> HIDE DEF s
  <2>5. Honest(s, good)
    BY <1>1, <2>3, <2>4 DEF Honest, AtWork, Answering, Fresh, Unchecked, ValidatedInSteps
  <2> QED BY <2>2, <2>4, <2>5, Zenon
<1>2. CASE ~AtWork(r)
  <2>1. Disturbed(r) = r BY <1>2, Zenon DEF Disturbed
  <2>2. Honest(r, good) BY <1>2 DEF Honest, AtWork
  <2> QED BY <2>1, <2>2, Zenon
<1> QED BY <1>1, <1>2

-----------------------------------------------------------------------------
(* What becomes of the turns in a step.                                    *)

\* A turn goes on as far as the conversations can tell, or gives up before it has
\* stored anything.
GoesOnQuietly(r, s) ==
  /\ s.chat = r.chat /\ s.untitled = r.untitled
  /\ s.pc \in {"new", "done"} <=> r.pc \in {"new", "done"}
  /\ s.pc = "storeReply" <=> r.pc = "storeReply"
  /\ s.pc \in Stores <=> r.pc \in Stores

GivesUp(r, s) == r.pc \notin Stores /\ s.pc \in {"new", "done"} /\ s.chat = 0

Quietly == \A t \in Turns : GoesOnQuietly(turn[t], turn'[t]) \/ GivesUp(turn[t], turn'[t])

\* The turns after a step of turn t alone.
LEMMA OneTurn ==
  ASSUME turn \in [Turns -> Turn], TurnsAreHonest, NEW t \in Turns, NEW r \in Turn,
         Honest(r, sound), turn' = [turn EXCEPT ![t] = r], sound' = sound
  PROVE  /\ turn' \in [Turns -> Turn] /\ TurnsAreHonest' /\ turn'[t] = r
         /\ \A s \in Turns \ {t} : turn'[s] = turn[s]
         /\ GoesOnQuietly(turn[t], r) \/ GivesUp(turn[t], r) => Quietly
<1>1. /\ turn' \in [Turns -> Turn] /\ turn'[t] = r /\ \A s \in Turns \ {t} : turn'[s] = turn[s]
  OBVIOUS
<1>2. TurnsAreHonest' BY <1>1 DEF TurnsAreHonest
<1>3. ASSUME NEW s \in Turns, turn'[s] = turn[s] PROVE GoesOnQuietly(turn[s], turn'[s])
  BY <1>3 DEF GoesOnQuietly
<1>4. GoesOnQuietly(turn[t], r) \/ GivesUp(turn[t], r) => Quietly
  BY <1>1, <1>3, Zenon DEF Quietly
<1> QED BY <1>1, <1>2, <1>4

\* The turns after a change by turn t.
LEMMA AllTurns ==
  ASSUME turn \in [Turns -> Turn], TurnsAreHonest, sound \in BOOLEAN, sound' \in BOOLEAN,
         NEW t \in Turns, NEW r \in Turn, Honest(r, sound'), GoesOnQuietly(turn[t], r),
         turn' = [s \in Turns |-> IF s = t THEN r ELSE Disturbed(turn[s])]
  PROVE  turn' \in [Turns -> Turn] /\ TurnsAreHonest' /\ Quietly
<1>1. \A s \in Turns : turn[s] \in Turn /\ Honest(turn[s], sound)
  BY Zenon DEF TurnsAreHonest
<1>2. ASSUME NEW s \in Turns
      PROVE  turn'[s] \in Turn /\ Honest(turn'[s], sound') /\ GoesOnQuietly(turn[s], turn'[s])
  <2>1. CASE s = t BY <2>1, Zenon
  <2>2. CASE s # t
    <3>1. turn'[s] = Disturbed(turn[s]) BY <2>2, Zenon
    <3>2. /\ turn'[s] \in Turn /\ turn'[s].pc = turn[s].pc /\ turn'[s].chat = turn[s].chat
          /\ turn'[s].untitled = turn[s].untitled /\ Honest(turn'[s], sound')
      BY <1>1, <3>1, DisturbedTurn, Zenon
    <3> QED BY <3>2, Zenon DEF GoesOnQuietly
  <2> QED BY <2>1, <2>2
<1>3. turn' \in [Turns -> Turn]
  <2>1. turn' = [s \in Turns |-> turn'[s]] BY Zenon
  <2> QED BY <2>1, <1>2, Zenon
<1> QED BY <1>2, <1>3, Zenon DEF TurnsAreHonest, Quietly

-----------------------------------------------------------------------------
(* The conversations in a step that stores nothing.                        *)

ChatsSound == ChatsAreKnown /\ AloneInChat /\ LogsAlternate /\ TitlesFollow

\* Rows may go, and conversations may become mixed.
RowsKept ==
  /\ DOMAIN chats' \subseteq DOMAIN chats /\ DOMAIN messages' = DOMAIN chats'
  /\ \A c \in DOMAIN chats' : chats'[c] = chats[c] /\ messages'[c] = messages[c]
  /\ mixed \subseteq mixed' /\ mixed' \subseteq ChatIds
  /\ opened \in Nat /\ opened' = opened

LEMMA QuietKeepsChats ==
  ASSUME ChatsSound, RowsKept, Quietly, DOMAIN chats \subseteq ChatIds
  PROVE  ChatsSound'
<1> USE DEF RowsKept
<1>1. ASSUME NEW t \in Turns, NEW c \in ChatIds, WorksIn(turn'[t], c)
      PROVE  /\ WorksIn(turn[t], c) /\ turn'[t].untitled = turn[t].untitled
             /\ turn'[t].pc = "storeReply" <=> turn[t].pc = "storeReply"
             /\ turn'[t].pc \in Stores <=> turn[t].pc \in Stores
  BY <1>1 DEF Quietly, GoesOnQuietly, GivesUp, WorksIn
<1>2. ASSUME NEW t \in Turns, NEW c \in ChatIds, WorksIn(turn[t], c), turn[t].pc \in Stores
      PROVE  /\ WorksIn(turn'[t], c) /\ turn'[t].pc \in Stores
             /\ turn[t].pc = "storeReply" => turn'[t].pc = "storeReply"
  BY <1>2 DEF Quietly, GoesOnQuietly, GivesUp, WorksIn
<1>3. ChatsAreKnown'
  BY DEF ChatsSound, ChatsAreKnown, Quietly, GoesOnQuietly, GivesUp
<1>4. AloneInChat'
  <2> SUFFICES ASSUME NEW c \in ChatIds \ mixed', NEW s \in Turns, NEW t \in Turns,
                      WorksIn(turn'[s], c), WorksIn(turn'[t], c)
               PROVE  s = t
    BY DEF AloneInChat
  <2> QED BY <1>1, Zenon DEF ChatsSound, AloneInChat
<1>5. LogsAlternate'
  <2> SUFFICES ASSUME NEW c \in DOMAIN chats' \ mixed'
               PROVE  /\ Alternates(messages'[c])
                      /\ Len(messages'[c]) % 2 = 1 =>
                           \E t \in Turns : WorksIn(turn'[t], c) /\ turn'[t].pc = "storeReply"
                      /\ \A t \in Turns : WorksIn(turn'[t], c) /\ turn'[t].pc = "storeReply" =>
                           HalfStored(t, messages'[c])
    BY Zenon DEF LogsAlternate, LogFine
  <2>1. c \in DOMAIN chats \ mixed /\ c \in ChatIds /\ messages'[c] = messages[c] OBVIOUS
  <2>2. /\ Alternates(messages[c])
        /\ Len(messages[c]) % 2 = 1 => \E t \in Turns : WorksIn(turn[t], c) /\ turn[t].pc = "storeReply"
        /\ \A t \in Turns : WorksIn(turn[t], c) /\ turn[t].pc = "storeReply" => HalfStored(t, messages[c])
    BY <2>1, Zenon DEF ChatsSound, LogsAlternate, LogFine
  <2>3. \A t \in Turns : turn[t].pc = "storeReply" => turn[t].pc \in Stores BY DEF Stores
  <2>4. Len(messages[c]) % 2 = 1 => \E t \in Turns : WorksIn(turn'[t], c) /\ turn'[t].pc = "storeReply"
    <3>1. SUFFICES ASSUME Len(messages[c]) % 2 = 1
                   PROVE  \E t \in Turns : WorksIn(turn'[t], c) /\ turn'[t].pc = "storeReply"
      OBVIOUS
    <3>2. PICK t \in Turns : WorksIn(turn[t], c) /\ turn[t].pc = "storeReply" BY <2>2, <3>1
    <3>3. WorksIn(turn'[t], c) /\ turn'[t].pc = "storeReply" BY <1>2, <2>1, <2>3, <3>2, Zenon
    <3> QED BY <3>3, Zenon
  <2>5. \A t \in Turns : WorksIn(turn'[t], c) /\ turn'[t].pc = "storeReply" => HalfStored(t, messages[c])
    BY <1>1, <2>1, <2>2, Zenon
  <2> QED BY <2>1, <2>2, <2>4, <2>5, Zenon
<1>6. TitlesFollow'
  <2> SUFFICES ASSUME NEW c \in DOMAIN chats' \ mixed'
               PROVE  /\ chats'[c].title # NewTitle =>
                           messages'[c] # <<>> /\ messages'[c][1].turn = chats'[c].title
                      /\ chats'[c].title = NewTitle /\ messages'[c] # <<>> =>
                           \E t \in Turns : /\ WorksIn(turn'[t], c) /\ turn'[t].pc \in Stores
                                            /\ messages'[c][1].turn = t
                      /\ \A t \in Turns : WorksIn(turn'[t], c) =>
                           /\ turn'[t].untitled = (chats'[c].title = NewTitle)
                           /\ turn'[t].pc \in Stores => messages'[c] # <<>>
    BY Zenon DEF TitlesFollow, TitleFine
  <2>1. c \in DOMAIN chats \ mixed /\ c \in ChatIds /\ messages'[c] = messages[c]
        /\ chats'[c] = chats[c]
    OBVIOUS
  <2>2. /\ chats[c].title # NewTitle =>
             messages[c] # <<>> /\ messages[c][1].turn = chats[c].title
        /\ chats[c].title = NewTitle /\ messages[c] # <<>> =>
             \E t \in Turns : WorksIn(turn[t], c) /\ turn[t].pc \in Stores /\ messages[c][1].turn = t
        /\ \A t \in Turns : WorksIn(turn[t], c) =>
             /\ turn[t].untitled = (chats[c].title = NewTitle)
             /\ turn[t].pc \in Stores => messages[c] # <<>>
    BY <2>1, Zenon DEF ChatsSound, TitlesFollow, TitleFine
  <2>3. chats[c].title = NewTitle /\ messages[c] # <<>> =>
           \E t \in Turns : WorksIn(turn'[t], c) /\ turn'[t].pc \in Stores /\ messages[c][1].turn = t
    <3>1. SUFFICES ASSUME chats[c].title = NewTitle, messages[c] # <<>>
                   PROVE  \E t \in Turns : /\ WorksIn(turn'[t], c) /\ turn'[t].pc \in Stores
                                            /\ messages[c][1].turn = t
      OBVIOUS
    <3>2. PICK t \in Turns : WorksIn(turn[t], c) /\ turn[t].pc \in Stores /\ messages[c][1].turn = t
      BY <2>2, <3>1, Zenon
    <3>3. WorksIn(turn'[t], c) /\ turn'[t].pc \in Stores BY <1>2, <2>1, <3>2, Zenon
    <3> QED BY <3>2, <3>3, Zenon
  <2>4. \A t \in Turns : WorksIn(turn'[t], c) =>
           /\ turn'[t].untitled = (chats[c].title = NewTitle)
           /\ turn'[t].pc \in Stores => messages[c] # <<>>
    BY <1>1, <2>1, <2>2, Zenon
  <2> QED BY <2>1, <2>2, <2>3, <2>4, Zenon
<1> QED BY <1>3, <1>4, <1>5, <1>6 DEF ChatsSound

\* The answers in the database.
AnswersSound == ChangesAreTold /\ ReadyWasChecked

StoredIn(ms) == UNION {{ms[c][k] : k \in DOMAIN ms[c]} : c \in DOMAIN ms}

LEMMA StoredAre ==
  ASSUME NEW ms, NEW m
  PROVE  m \in StoredIn(ms) <=> \E c \in DOMAIN ms : \E k \in DOMAIN ms[c] : m = ms[c][k]
<1> DEFINE Log(c) == {ms[c][k] : k \in DOMAIN ms[c]}
<1>1. \A c : m \in Log(c) <=> \E k \in DOMAIN ms[c] : m = ms[c][k] BY SMT
<1>2. StoredIn(ms) = UNION {Log(c) : c \in DOMAIN ms} BY Zenon DEF StoredIn
<1> HIDE DEF Log
<1>3. m \in StoredIn(ms) <=> \E c \in DOMAIN ms : m \in Log(c) BY <1>2, SMT
<1> QED BY <1>1, <1>3, Zenon

LEMMA StoredNext ==
  ASSUME NEW m \in Stored'
  PROVE  \E c \in DOMAIN messages' : \E k \in DOMAIN messages'[c] : m = messages'[c][k]
<1>1. Stored' = StoredIn(messages') BY DEF Stored, StoredIn
<1> QED BY <1>1, StoredAre

LEMMA RowsKeepAnswers ==
  ASSUME RowsKept, DOMAIN messages = DOMAIN chats, AnswersSound
  PROVE  AnswersSound'
<1>1. Stored' \subseteq Stored
  <2> SUFFICES ASSUME NEW m \in Stored' PROVE m \in Stored OBVIOUS
  <2>1. Stored' = StoredIn(messages') /\ Stored = StoredIn(messages) BY DEF Stored, StoredIn
  <2>2. PICK c \in DOMAIN messages' : \E k \in DOMAIN messages'[c] : m = messages'[c][k]
    BY <2>1, StoredAre
  <2>3. c \in DOMAIN messages /\ messages'[c] = messages[c] BY DEF RowsKept
  <2> QED BY <2>1, <2>2, <2>3, StoredAre, Zenon
<1> QED BY <1>1 DEF AnswersSound, ChangesAreTold, ReadyWasChecked, Ready, Answers

-----------------------------------------------------------------------------
(* Steps that store nothing.                                               *)

LEMMA Typed ==
  ASSUME TypeOK
  PROVE  /\ opened \in Nat /\ DOMAIN chats \subseteq ChatIds /\ DOMAIN messages = DOMAIN chats
         /\ mixed \subseteq ChatIds /\ turn \in [Turns -> Turn] /\ sound \in BOOLEAN
         /\ configured \in BOOLEAN /\ opened \in 0..MaxChats
BY BoundsAssumption DEF TypeOK, ChatIds

LEMMA QuietStep ==
  ASSUME IInv, turn' \in [Turns -> Turn], TurnsAreHonest', Quietly,
         configured' \in BOOLEAN, sound' \in BOOLEAN, UNCHANGED <<chats, opened, messages, mixed>>
  PROVE  IInv'
<1>1. TypeOK /\ ChatsSound /\ AnswersSound BY DEF IInv, ChatsSound, AnswersSound
<1>2. RowsKept BY <1>1, Typed DEF RowsKept
<1>3. ChatsSound' BY <1>1, <1>2, Typed, QuietKeepsChats
<1>4. AnswersSound' BY <1>1, <1>2, Typed, RowsKeepAnswers
<1>5. TypeOK' BY <1>1 DEF TypeOK
<1> QED BY <1>3, <1>4, <1>5 DEF IInv, ChatsSound, AnswersSound

\* A step of turn t alone, to r.
LEMMA QuietTurn ==
  ASSUME IInv, NEW t \in Turns, NEW r \in Turn, Honest(r, sound),
         GoesOnQuietly(turn[t], r) \/ GivesUp(turn[t], r),
         turn' = [turn EXCEPT ![t] = r],
         UNCHANGED <<configured, sound, chats, opened, messages, mixed>>
  PROVE  IInv'
<1>1. TypeOK /\ TurnsAreHonest BY DEF IInv
<1>2. turn' \in [Turns -> Turn] /\ TurnsAreHonest' /\ Quietly BY <1>1, Typed, OneTurn
<1> QED BY <1>1, <1>2, Typed, QuietStep

\* What the invariant says of one turn.
LEMMA AboutTurn ==
  ASSUME IInv, NEW t \in Turns
  PROVE  turn[t] \in Turn /\ Honest(turn[t], sound) /\ sound \in BOOLEAN
BY Typed DEF IInv, TurnsAreHonest

LEMMA SavesSettings == ASSUME IInv, HandleAISettingsSave PROVE IInv'
<1>1. TypeOK /\ TurnsAreHonest BY DEF IInv
<1>2. turn' = turn /\ sound' = sound /\ configured' \in BOOLEAN
      /\ UNCHANGED <<chats, opened, messages, mixed>>
  BY DEF HandleAISettingsSave
<1>3. TurnsAreHonest' BY <1>1, <1>2 DEF TurnsAreHonest
<1>4. Quietly BY <1>2 DEF Quietly, GoesOnQuietly
<1> QED BY <1>1, <1>2, <1>3, <1>4, Typed, QuietStep

\* The operators' edits are seen by every turn.
LEMMA EditsAreSeen == ASSUME IInv, OperatorEdits PROVE IInv'
<1>1. TypeOK /\ TurnsAreHonest BY DEF IInv
<1>2. sound' \in BOOLEAN /\ UNCHANGED <<configured, chats, opened, messages, mixed>>
  BY DEF OperatorEdits
<1>3. turn' = [s \in Turns |-> Disturbed(turn[s])] BY DEF OperatorEdits
<1>4. ASSUME NEW s \in Turns
      PROVE  turn'[s] \in Turn /\ Honest(turn'[s], sound') /\ GoesOnQuietly(turn[s], turn'[s])
  <2>1. turn[s] \in Turn /\ Honest(turn[s], sound) /\ sound \in BOOLEAN BY AboutTurn
  <2>2. turn'[s] = Disturbed(turn[s]) BY <1>3, Zenon
  <2>3. /\ turn'[s] \in Turn /\ turn'[s].pc = turn[s].pc /\ turn'[s].chat = turn[s].chat
        /\ turn'[s].untitled = turn[s].untitled /\ Honest(turn'[s], sound')
    BY <1>2, <2>1, <2>2, DisturbedTurn, Zenon
  <2> QED BY <2>3, Zenon DEF GoesOnQuietly
<1>5. turn' \in [Turns -> Turn]
  <2>1. turn' = [s \in Turns |-> turn'[s]] BY <1>3, Zenon
  <2> QED BY <2>1, <1>4, Zenon
<1>6. TurnsAreHonest' /\ Quietly BY <1>4 DEF TurnsAreHonest, Quietly
<1> QED BY <1>1, <1>2, <1>5, <1>6, Typed, QuietStep

\* The end of a turn that has stored nothing.
LEMMA Ending ==
  ASSUME IInv, NEW t \in Turns, turn[t].pc \notin Stores, End(t),
         UNCHANGED <<configured, sound, chats, opened, messages, mixed>>
  PROVE  IInv'
<1> DEFINE r == [NewTurn EXCEPT !.pc = "done"]
<1>1. r \in Turn /\ turn' = [turn EXCEPT ![t] = r] BY NewTurnType DEF End
<1>2. /\ r.pc = "done" /\ r.chat = 0 /\ r.kinds = {} /\ r.image = "none"
      /\ r.result = NoReply
  BY DEF NewTurn
<1> HIDE DEF r
<1>3. Honest(r, sound) BY <1>2 DEF Honest, Fresh, NoReply, AtWork, Answering
<1>4. GivesUp(turn[t], r) BY <1>2 DEF GivesUp
<1> QED BY <1>1, <1>3, <1>4, QuietTurn

\* A turn that goes on without a change of what it has told.
LEMMA Going ==
  ASSUME IInv, NEW t \in Turns,
         NEW p \in {"new", "config", "history", "model", "tools", "net", "storeUser", "storeReply",
                    "title", "done"},
         turn[t].pc \in {"config", "history", "model"}, p \in {"history", "model", "net"},
         turn[t].pc = "config" <=> p = "history",
         Goto(t, p), UNCHANGED <<configured, sound, chats, opened, messages, mixed>>
  PROVE  IInv'
<1> DEFINE r == [turn[t] EXCEPT !.pc = p]
<1>1. turn[t] \in Turn /\ Honest(turn[t], sound) BY AboutTurn
<1>2. turn' = [turn EXCEPT ![t] = r] BY DEF Goto
<1>3. /\ r \in Turn /\ r.pc = p /\ r.chat = turn[t].chat /\ r.untitled = turn[t].untitled
      /\ r.kinds = turn[t].kinds /\ r.image = turn[t].image /\ r.result = turn[t].result
  BY <1>1, GoesOn, Zenon
<1> HIDE DEF r
<1>4. Honest(r, sound) BY <1>1, <1>3 DEF Honest, Fresh, AtWork, Answering
<1>5. GoesOnQuietly(turn[t], r) BY <1>3 DEF GoesOnQuietly, Stores
<1> QED BY <1>2, <1>3, <1>4, <1>5, QuietTurn

LEMMA ConfigIsLoaded == ASSUME IInv, NEW t \in Turns, LoadAIConfig(t) PROVE IInv'
<1>1. CASE configured BY <1>1, Going DEF LoadAIConfig
<1>2. CASE ~configured BY <1>2, Ending DEF LoadAIConfig, Stores
<1> QED BY <1>1, <1>2

LEMMA TranscriptIsBuilt == ASSUME IInv, NEW t \in Turns, BuildTranscript(t) PROVE IInv'
BY Going DEF BuildTranscript

LEMMA ModelMayFail == ASSUME IInv, NEW t \in Turns, ModelFails(t) PROVE IInv'
BY Ending DEF ModelFails, Stores

LEMMA StepsMayBeSpent == ASSUME IInv, NEW t \in Turns, StepsSpent(t) PROVE IInv'
BY Going DEF StepsSpent

\* Its answer is counted, and the tools it calls are to be run.
LEMMA ModelsAnswer == ASSUME IInv, NEW t \in Turns, ModelAnswers(t) PROVE IInv'
<1>1. turn[t] \in Turn /\ Honest(turn[t], sound) /\ turn[t].pc = "model"
      /\ turn[t].steps \in 0..MaxSteps /\ turn[t].steps < MaxSteps
  BY AboutTurn, TurnFields DEF ModelAnswers, StepsLeft
<1>2. PICK calls \in 0..MaxCalls :
        turn' = [turn EXCEPT ![t].pc = IF calls = 0 THEN "net" ELSE "tools",
                             ![t].calls = calls, ![t].steps = @ + 1]
  BY DEF ModelAnswers
<1> DEFINE p == IF calls = 0 THEN "net" ELSE "tools"
           n == turn[t].steps + 1
           r == [turn[t] EXCEPT !.pc = p, !.calls = calls, !.steps = n]
<1>3. turn' = [turn EXCEPT ![t] = r] BY <1>1, <1>2, Typed DEF IInv
<1>4. p \in {"net", "tools"} /\ n \in 0..MaxSteps BY <1>1, BoundsAssumption
<1> HIDE DEF p, n
<1>5. /\ r \in Turn /\ r.pc = p /\ r.chat = turn[t].chat /\ r.untitled = turn[t].untitled
      /\ r.kinds = turn[t].kinds /\ r.calls = calls /\ r.image = turn[t].image
      /\ r.result = turn[t].result
  BY <1>1, <1>4 DEF Turn
<1> HIDE DEF r
<1>6. Honest(r, sound) BY <1>1, <1>4, <1>5 DEF p, Honest, Fresh, AtWork, Answering
<1>7. GoesOnQuietly(turn[t], r) BY <1>1, <1>4, <1>5 DEF GoesOnQuietly, Stores
<1> QED BY <1>3, <1>5, <1>6, <1>7, QuietTurn DEF ModelAnswers

\* A reply after a check, and one whose turn is over.
LEMMA ReplyChecked ==
  ASSUME NEW q \in Reply, NEW v \in BOOLEAN
  PROVE  LET w == [q EXCEPT !.valid = v, !.late = FALSE] IN
         /\ w \in Reply /\ w.valid = v /\ w.late = FALSE /\ w.changed = q.changed
         /\ w.touched = q.touched /\ w.disturbed = q.disturbed
BY Zenon DEF Reply

LEMMA ReplySettled ==
  ASSUME NEW q \in Reply, NEW g \in BOOLEAN, NEW a \in BOOLEAN
  PROVE  LET w == [q EXCEPT !.good = g, !.asked = a] IN
         /\ w \in Reply /\ w.good = g /\ w.asked = a /\ w.changed = q.changed
         /\ w.valid = q.valid /\ w.touched = q.touched /\ w.late = q.late
         /\ w.disturbed = q.disturbed
BY Zenon DEF Reply

\* Checked, as a change of the image and of the result.
CheckedReply(r, ran) == [r.result EXCEPT !.valid = r.image = "sound" /\ ran, !.late = FALSE]

LEMMA CheckedTurn ==
  ASSUME NEW r \in Turn, NEW ran \in BOOLEAN
  PROVE  LET w == CheckedReply(r, ran)  s == Checked(r, ran) IN
         /\ w \in Reply /\ w.valid = (r.image = "sound" /\ ran) /\ w.late = FALSE
         /\ w.changed = r.result.changed /\ w.touched = r.result.touched
         /\ w.disturbed = r.result.disturbed
         /\ s \in Turn /\ s.pc = r.pc /\ s.chat = r.chat /\ s.untitled = r.untitled
         /\ s.kinds = r.kinds /\ s.calls = r.calls /\ s.image = "none" /\ s.result = w
<1> DEFINE v == r.image = "sound" /\ ran
           w == [r.result EXCEPT !.valid = v, !.late = FALSE]
           s == [r EXCEPT !.image = "none", !.result = w]
<1>1. r.result \in Reply /\ v \in BOOLEAN BY TurnFields
<1>2. CheckedReply(r, ran) = w BY Zenon DEF CheckedReply
<1>3. Checked(r, ran) = s BY DEF Checked, Turn
<1> HIDE DEF v
<1>4. /\ w \in Reply /\ w.valid = v /\ w.late = FALSE /\ w.changed = r.result.changed
      /\ w.touched = r.result.touched /\ w.disturbed = r.result.disturbed
  BY <1>1, ReplyChecked, Zenon
<1> HIDE DEF w
<1>5. /\ s \in Turn /\ s.pc = r.pc /\ s.chat = r.chat /\ s.untitled = r.untitled
      /\ s.kinds = r.kinds /\ s.calls = r.calls /\ s.image = "none" /\ s.result = w
  <2>1. "none" \in Images BY DEF Images
  <2> QED BY <1>4, <2>1, Concludes, Zenon
<1> HIDE DEF s
<1> QED BY <1>2, <1>3, <1>4, <1>5, Zenon DEF v

\* A check begins: what others did before does not matter any more.
LEMMA PreviewBegins == ASSUME IInv, NEW t \in Turns, BeginPreview(t) PROVE IInv'
<1> DEFINE q == [turn[t].result EXCEPT !.disturbed = FALSE]
           r == [turn[t] EXCEPT !.image = "reading", !.result = q]
<1>1. /\ turn[t] \in Turn /\ Honest(turn[t], sound) /\ turn[t].image = "none"
      /\ turn[t].pc = "tools" \/ (turn[t].pc = "net" /\ Unchecked(turn[t]))
      /\ turn[t].result \in Reply /\ "reading" \in Images
  BY AboutTurn, TurnFields DEF BeginPreview, Images
<1>2. turn' = [turn EXCEPT ![t] = r]
  <2>1. turn' = [turn EXCEPT ![t].image = "reading", ![t].result.disturbed = FALSE]
    BY DEF BeginPreview
  <2> QED BY <1>1, <2>1, Typed DEF IInv, Turn
<1>3. /\ q \in Reply /\ q.disturbed = FALSE /\ q.changed = turn[t].result.changed
      /\ q.valid = turn[t].result.valid /\ q.touched = turn[t].result.touched
  BY <1>1, ReplyDisturbed, Zenon
<1> HIDE DEF q
<1>4. /\ r \in Turn /\ r.pc = turn[t].pc /\ r.chat = turn[t].chat
      /\ r.untitled = turn[t].untitled /\ r.kinds = turn[t].kinds /\ r.calls = turn[t].calls
      /\ r.image = "reading" /\ r.result = q
  BY <1>1, <1>3, Concludes, Zenon
<1> HIDE DEF r
<1>5. Honest(r, sound)
  BY <1>1, <1>3, <1>4 DEF Honest, Fresh, AtWork, Answering, Unchecked, ValidatedInSteps
<1>6. GoesOnQuietly(turn[t], r) BY <1>1, <1>4 DEF GoesOnQuietly, Stores
<1> QED BY <1>2, <1>4, <1>5, <1>6, QuietTurn DEF BeginPreview

\* The file is made: of the configuration, if nobody has edited meanwhile.
LEMMA Rendered == ASSUME IInv, NEW t \in Turns, Render(t) PROVE IInv'
<1>1. /\ turn[t] \in Turn /\ Honest(turn[t], sound) /\ turn[t].image = "reading"
      /\ turn[t].result \in Reply /\ sound \in BOOLEAN
  BY AboutTurn, TurnFields DEF Render
<1>2. PICK passes \in IF turn[t].result.disturbed THEN BOOLEAN ELSE {sound} :
        turn' = [turn EXCEPT ![t].image = IF passes THEN "sound" ELSE "broken"]
  BY DEF Render
<1> DEFINE i == IF passes THEN "sound" ELSE "broken"
           w == turn[t].result
           r == [turn[t] EXCEPT !.image = i, !.result = w]
<1>3. turn' = [turn EXCEPT ![t] = r]
  <2>1. turn' = [turn EXCEPT ![t].image = i] BY <1>2
  <2> HIDE DEF i
  <2>2. r = [turn[t] EXCEPT !.image = i] BY <1>1 DEF Turn
  <2> QED BY <2>1, <2>2
<1>4. i \in Images /\ i # "none" /\ (i = "sound" => turn[t].result.disturbed \/ sound)
  BY <1>1, <1>2 DEF Images
<1>5. w \in Reply /\ w = turn[t].result BY <1>1
<1> HIDE DEF i, w
<1>6. /\ r \in Turn /\ r.pc = turn[t].pc /\ r.chat = turn[t].chat
      /\ r.untitled = turn[t].untitled /\ r.kinds = turn[t].kinds /\ r.calls = turn[t].calls
      /\ r.image = i /\ r.result = w
  <2>1. turn[t] \in Turn /\ i \in Images /\ w \in Reply BY <1>1, <1>4, <1>5
  <2> QED BY <2>1, Zenon DEF Turn
<1> HIDE DEF r
<1>7. Honest(r, sound)
  BY <1>1, <1>4, <1>5, <1>6 DEF Honest, Fresh, AtWork, Answering, Unchecked, ValidatedInSteps
<1>8. GoesOnQuietly(turn[t], r) BY <1>1, <1>6 DEF GoesOnQuietly, Stores
<1> QED BY <1>3, <1>6, <1>7, <1>8, QuietTurn DEF Render

\* The answer of a turn that is over, before and after its history is settled.
SettledReply(q, a) == [q EXCEPT !.good = sound, !.asked = a]
SettledTurn(t, w) ==
  [NewTurn EXCEPT !.pc = "storeUser", !.chat = turn[t].chat, !.untitled = turn[t].untitled,
     !.result = w]

LEMMA Settles ==
  ASSUME IInv, NEW t \in Turns, turn[t].pc = "net", NEW q \in Reply, NEW a \in BOOLEAN,
         q.touched => q.changed,
         q.changed /\ q.valid => q.disturbed \/ sound \/ (a /\ q.late),
         turn' = [turn EXCEPT ![t] = SettledTurn(t, SettledReply(q, a))],
         UNCHANGED <<configured, sound, chats, opened, messages, mixed>>
  PROVE  IInv'
<1> DEFINE w == [q EXCEPT !.good = sound, !.asked = a]
           r == SettledTurn(t, w)
<1>1. turn[t] \in Turn /\ Honest(turn[t], sound) /\ sound \in BOOLEAN BY AboutTurn
<1>2. /\ w \in Reply /\ w.good = sound /\ w.asked = a /\ w.changed = q.changed
      /\ w.valid = q.valid /\ w.touched = q.touched /\ w.late = q.late
      /\ w.disturbed = q.disturbed
  <2>1. q \in Reply /\ sound \in BOOLEAN /\ a \in BOOLEAN BY <1>1
  <2> QED BY <2>1, Zenon DEF Reply
<1>9. SettledReply(q, a) = w BY DEF SettledReply
<1> HIDE DEF w
<1>3. turn[t].chat \in ChatIds \cup {0} /\ turn[t].untitled \in BOOLEAN BY <1>1, TurnFields
<1>4. /\ r \in Turn /\ r.pc = "storeUser" /\ r.chat = turn[t].chat
      /\ r.untitled = turn[t].untitled /\ r.kinds = {} /\ r.image = "none" /\ r.result = w
  <2>1. /\ r = [pc |-> "storeUser", chat |-> turn[t].chat, untitled |-> turn[t].untitled,
                 steps |-> 0, calls |-> 0, kinds |-> {}, image |-> "none", result |-> w]
        /\ 0 \in 0..MaxSteps /\ 0 \in 0..MaxCalls /\ "none" \in Images
    <3>1. r = [[[[NewTurn EXCEPT !.pc = "storeUser"] EXCEPT !.chat = turn[t].chat]
                  EXCEPT !.untitled = turn[t].untitled] EXCEPT !.result = w]
      BY DEF SettledTurn
    <3>2. /\ 0 \in 0..MaxSteps /\ 0 \in 0..MaxCalls /\ "none" \in Images
      BY BoundsAssumption DEF Images
    <3> HIDE DEF r
    <3> QED BY <3>1, <3>2 DEF NewTurn
  <2> HIDE DEF r
  <2> QED BY <1>2, <1>3, <2>1 DEF Turn
<1> HIDE DEF r
<1>5. Ready(w) BY <1>2, Zenon DEF Ready
<1>6. Honest(r, sound) BY <1>2, <1>4, <1>5 DEF Honest, AtWork
<1>7. GoesOnQuietly(turn[t], r) BY <1>4 DEF GoesOnQuietly, Stores
<1>8. turn' = [turn EXCEPT ![t] = r] BY <1>9 DEF r
<1> QED BY <1>4, <1>6, <1>7, <1>8, QuietTurn

LEMMA TheSafetyNet == ASSUME IInv, NEW t \in Turns, SafetyNet(t) PROVE IInv'
<1> DEFINE a == ("validate" \in turn[t].kinds)
<1>1. turn[t] \in Turn /\ Honest(turn[t], sound) /\ turn[t].pc = "net" /\ sound \in BOOLEAN
      /\ turn[t].result \in Reply
  BY AboutTurn, TurnFields DEF SafetyNet
<1>5. a \in BOOLEAN OBVIOUS
<1>2. CASE ~Unchecked(turn[t]) /\ turn' = [turn EXCEPT ![t] =
             SettledTurn(t, SettledReply(turn[t].result, a))]
  <2> DEFINE q == turn[t].result
  <2>1. q.changed => a BY <1>2, Zenon DEF Unchecked, ValidatedInSteps
  <2>2. turn[t].image = "none" BY <1>1, <1>2 DEF Honest
  <2>3. q.touched => q.changed BY <1>1 DEF Honest
  <2>4. q.changed /\ q.valid => q.disturbed \/ sound \/ q.late
    BY <1>1, <2>2 DEF Honest, AtWork
  <2>5. turn[t].pc = "net" /\ q \in Reply /\ a \in BOOLEAN BY <1>1, <1>5
  <2>6. UNCHANGED <<configured, sound, chats, opened, messages, mixed>> BY DEF SafetyNet
  <2>7. turn' = [turn EXCEPT ![t] = SettledTurn(t, SettledReply(q, a))] BY <1>2
  <2> HIDE DEF q, a
  <2> QED BY <2>1, <2>3, <2>4, <2>5, <2>6, <2>7, Settles
<1>3. ASSUME NEW ran \in BOOLEAN, Unchecked(turn[t]),
             turn' = [turn EXCEPT ![t] =
               SettledTurn(t, SettledReply(CheckedReply(turn[t], ran), a))]
      PROVE  IInv'
  <2> DEFINE q == CheckedReply(turn[t], ran)
  <2>1. /\ q \in Reply /\ q.valid = (turn[t].image = "sound" /\ ran)
        /\ q.changed = turn[t].result.changed /\ q.touched = turn[t].result.touched
        /\ q.disturbed = turn[t].result.disturbed
    BY <1>1, CheckedTurn, Zenon
  <2>2. turn' = [turn EXCEPT ![t] = SettledTurn(t, SettledReply(q, a))] BY <1>3
  <2> HIDE DEF q, a
  <2>3. q.touched => q.changed BY <1>1, <2>1 DEF Honest
  <2>4. q.changed /\ q.valid => q.disturbed \/ sound BY <1>1, <2>1 DEF Honest
  <2>5. UNCHANGED <<configured, sound, chats, opened, messages, mixed>> BY DEF SafetyNet
  <2> QED BY <1>1, <1>5, <2>1, <2>2, <2>3, <2>4, <2>5, Settles
<1>4. \/ ~Unchecked(turn[t]) /\ turn' = [turn EXCEPT ![t] =
            SettledTurn(t, SettledReply(turn[t].result, a))]
      \/ /\ Unchecked(turn[t])
         /\ \E ran \in BOOLEAN : turn' = [turn EXCEPT ![t] =
               SettledTurn(t, SettledReply(CheckedReply(turn[t], ran), a))]
  <2>1. ASSUME NEW ran \in BOOLEAN
        PROVE  LET s == Checked(turn[t], ran) IN
               /\ s.chat = turn[t].chat /\ s.untitled = turn[t].untitled
               /\ s.result = CheckedReply(turn[t], ran)
    BY <1>1, CheckedTurn, Zenon
  <2> QED BY <2>1, Zenon DEF SafetyNet, SettledTurn, SettledReply
<1> QED BY <1>2, <1>3, <1>4, Zenon

-----------------------------------------------------------------------------
(* The tools.                                                              *)

LEMMA CalledType ==
  ASSUME IInv, NEW t \in Turns, turn[t].pc = "tools", NEW kind \in Kinds
  PROVE  LET s == Called(turn[t], kind) IN
         /\ s \in Turn /\ s.pc \in {"model", "tools"} /\ s.kinds = turn[t].kinds \cup {kind}
         /\ s.result = turn[t].result /\ (s.pc = "tools" => s.calls > 0)
         /\ s.image = turn[t].image /\ s.chat = turn[t].chat /\ s.untitled = turn[t].untitled
<1> DEFINE n == turn[t].calls - 1
           ks == turn[t].kinds \cup {kind}
           p == IF turn[t].calls = 1 THEN "model" ELSE "tools"
           s == [turn[t] EXCEPT !.calls = n, !.kinds = ks, !.pc = p]
<1>1. turn[t] \in Turn /\ turn[t].calls > 0 /\ turn[t].calls \in 0..MaxCalls
      /\ turn[t].kinds \subseteq Kinds
  BY AboutTurn, TurnFields DEF Honest
<1> HIDE DEF Kinds
<1>2. n \in 0..MaxCalls /\ ks \subseteq Kinds /\ p \in {"model", "tools"}
      /\ (p = "tools" => n > 0)
  BY <1>1, BoundsAssumption
<1>3. s = Called(turn[t], kind) BY Zenon DEF Called
<1> HIDE DEF n, ks, p
<1>4. /\ s \in Turn /\ s.pc = p /\ s.chat = turn[t].chat /\ s.untitled = turn[t].untitled
      /\ s.kinds = ks /\ s.calls = n /\ s.image = turn[t].image /\ s.result = turn[t].result
  BY <1>1, <1>2 DEF Turn
<1> HIDE DEF s
<1> QED BY <1>2, <1>3, <1>4 DEF ks

\* A turn after a call, with no check under way and the result q.
After(t, kind, q) == [Called(turn[t], kind) EXCEPT !.image = "none", !.result = q]

LEMMA CallDone ==
  ASSUME IInv, NEW t \in Turns, turn[t].pc = "tools", NEW kind \in Kinds, NEW q \in Reply
  PROVE  LET r == After(t, kind, q) IN
         /\ r \in Turn /\ r.pc \in {"model", "tools"} /\ r.kinds = turn[t].kinds \cup {kind}
         /\ r.image = "none" /\ r.result = q /\ (r.pc = "tools" => r.calls > 0)
         /\ GoesOnQuietly(turn[t], r)
<1> DEFINE s == Called(turn[t], kind)
           r == [s EXCEPT !.image = "none", !.result = q]
<1>1. /\ s \in Turn /\ s.pc \in {"model", "tools"} /\ s.kinds = turn[t].kinds \cup {kind}
      /\ (s.pc = "tools" => s.calls > 0)
      /\ s.chat = turn[t].chat /\ s.untitled = turn[t].untitled
  BY CalledType, Zenon
<1> HIDE DEF s
<1>2. /\ r \in Turn /\ r.pc = s.pc /\ r.chat = s.chat /\ r.untitled = s.untitled
      /\ r.kinds = s.kinds /\ r.calls = s.calls /\ r.image = "none" /\ r.result = q
  <2>1. "none" \in Images BY DEF Images
  <2> QED BY <1>1, <2>1, Concludes, Zenon
<1> HIDE DEF r
<1>3. GoesOnQuietly(turn[t], r) BY <1>1, <1>2 DEF GoesOnQuietly, Stores
<1>4. /\ r \in Turn /\ r.pc \in {"model", "tools"} /\ r.kinds = turn[t].kinds \cup {kind}
      /\ r.image = "none" /\ r.result = q /\ (r.pc = "tools" => r.calls > 0)
  BY <1>1, <1>2
<1> QED BY <1>3, <1>4, Zenon DEF r, s, After

\* What makes a turn after a call honest.
LEMMA HonestAfter ==
  ASSUME IInv, NEW t \in Turns, turn[t].pc = "tools", NEW kind \in Kinds, NEW q \in Reply,
         NEW good \in BOOLEAN, q.touched => q.changed,
         q.changed /\ q.valid => q.late \/ q.disturbed \/ good
  PROVE  Honest(After(t, kind, q), good)
<1> DEFINE r == After(t, kind, q)
<1>1. r.pc \in {"model", "tools"} /\ r.image = "none" /\ r.result = q
      /\ (r.pc = "tools" => r.calls > 0)
  BY CallDone, Zenon
<1> HIDE DEF r
<1>2. Honest(r, good) BY <1>1 DEF Honest, Answering
<1> QED BY <1>2 DEF r

\* A call that leaves the configuration alone.
LEMMA CallKeeps ==
  ASSUME IInv, NEW t \in Turns, turn[t].pc = "tools", NEW kind \in Kinds, NEW q \in Reply,
         q.touched => q.changed, q.changed /\ q.valid => q.late \/ q.disturbed \/ sound,
         turn' = [turn EXCEPT ![t] = After(t, kind, q)],
         UNCHANGED <<configured, sound, chats, opened, messages, mixed>>
  PROVE  IInv'
<1>1. sound \in BOOLEAN BY AboutTurn
<1>2. Honest(After(t, kind, q), sound) BY <1>1, HonestAfter
<1>3. After(t, kind, q) \in Turn /\ GoesOnQuietly(turn[t], After(t, kind, q))
  BY CallDone, Zenon
<1> QED BY <1>2, <1>3, QuietTurn

\* Called, as a change of the result alone.
LEMMA AfterCall ==
  ASSUME IInv, NEW t \in Turns, turn[t].pc = "tools", NEW kind \in Kinds,
         turn[t].image = "none"
  PROVE  /\ Called(turn[t], kind) = After(t, kind, turn[t].result)
         /\ \A q : [Called(turn[t], kind) EXCEPT !.result = q] = After(t, kind, q)
<1> DEFINE s == Called(turn[t], kind)
<1>1. s \in Turn /\ s.result = turn[t].result /\ s.image = "none" BY CalledType, Zenon
<1> HIDE DEF s
<1>2. s = [s EXCEPT !.image = "none", !.result = turn[t].result] BY <1>1 DEF Turn
<1>3. \A q : [s EXCEPT !.result = q] = [s EXCEPT !.image = "none", !.result = q]
  BY <1>1 DEF Turn
<1> QED BY <1>2, <1>3 DEF s, After

\* The same, for a result given.
LEMMA AfterCallWith ==
  ASSUME IInv, NEW t \in Turns, turn[t].pc = "tools", NEW kind \in Kinds,
         turn[t].image = "none", NEW q
  PROVE  [Called(turn[t], kind) EXCEPT !.result = q] = After(t, kind, q)
BY AfterCall

\* A tool that fails has changed nothing.
LEMMA ToolsFail == ASSUME IInv, NEW t \in Turns, NEW kind \in Kinds, ToolFails(t, kind) PROVE IInv'
<1> DEFINE q == turn[t].result
<1>1. /\ turn[t] \in Turn /\ Honest(turn[t], sound) /\ turn[t].pc = "tools"
      /\ turn[t].image = "none" /\ q \in Reply
  BY AboutTurn, TurnFields DEF ToolFails
<1>2. (q.touched => q.changed) /\ (q.changed /\ q.valid => q.late \/ q.disturbed \/ sound)
  BY <1>1 DEF Honest, AtWork
<1>3. turn' = [turn EXCEPT ![t] = After(t, kind, q)]
  BY <1>1, AfterCall, Zenon DEF ToolFails
<1> HIDE DEF q
<1> QED BY <1>1, <1>2, <1>3, CallKeeps DEF ToolFails

\* What a reply becomes: the change is told; a change comes after the last check.
LEMMA ReplyTold ==
  ASSUME NEW q \in Reply, NEW b \in BOOLEAN
  PROVE  LET w == [q EXCEPT !.changed = b] IN
         /\ w \in Reply /\ w.changed = b /\ w.valid = q.valid /\ w.touched = q.touched
         /\ w.late = q.late /\ w.disturbed = q.disturbed
BY Zenon DEF Reply

LEMMA ReplyTouched ==
  ASSUME NEW q \in Reply, NEW b \in BOOLEAN
  PROVE  LET w == [q EXCEPT !.touched = TRUE, !.late = b] IN
         /\ w \in Reply /\ w.late = b /\ w.changed = q.changed
BY Zenon DEF Reply

LEMMA ToolsWork == ASSUME IInv, NEW t \in Turns, NEW kind \in Kinds, ToolWorks(t, kind) PROVE IInv'
<1> DEFINE s == Called(turn[t], kind)
           res == turn[t].result
           ch == Changed(turn[t], kind)
           told == [res EXCEPT !.changed = ch]
           step == [Called(turn[t], kind) EXCEPT !.result.changed = Changed(turn[t], kind)]
<1>1. /\ turn[t] \in Turn /\ Honest(turn[t], sound) /\ turn[t].pc = "tools"
      /\ sound \in BOOLEAN /\ res \in Reply /\ res.changed \in BOOLEAN
      /\ TypeOK /\ TurnsAreHonest
  BY AboutTurn, TurnFields, ReplyFields DEF ToolWorks, IInv
<1>2. s \in Turn /\ s.result = res /\ s.image = turn[t].image BY <1>1, CalledType, Zenon
<1>3. ch \in BOOLEAN /\ (ch <=> res.changed \/ kind = "change") BY <1>1 DEF Changed
<1>4. /\ told \in Reply /\ told.changed = ch /\ told.valid = res.valid
      /\ told.touched = res.touched /\ told.late = res.late /\ told.disturbed = res.disturbed
  <2> HIDE DEF ch, res
  <2> QED BY <1>1, <1>3, ReplyTold, Zenon
<1>5. UNCHANGED <<configured, chats, opened, messages, mixed>> BY DEF ToolWorks
<1>6. \/ /\ kind = "context" /\ turn[t].image = "none"
         /\ turn' = [turn EXCEPT ![t] = step] /\ UNCHANGED sound
      \/ /\ kind = "validate" /\ UNCHANGED sound
         /\ \E ran \in BOOLEAN : turn' = [turn EXCEPT ![t] = Checked(step, ran)]
      \/ /\ kind = "change" /\ turn[t].image = "none" /\ sound' \in BOOLEAN
         /\ turn' = [x \in Turns |-> IF x = t THEN [step EXCEPT !.result.touched = TRUE,
                                                                !.result.late = TRUE]
                                     ELSE Disturbed(turn[x])]
  BY Zenon DEF ToolWorks
<1>7. step = [s EXCEPT !.result = told] BY <1>2, Zenon
<1>8. told.touched => told.changed BY <1>1, <1>3, <1>4 DEF Honest
\* A tool that only reads.
<1>9. CASE kind = "context" /\ turn[t].image = "none"
           /\ turn' = [turn EXCEPT ![t] = step] /\ UNCHANGED sound
  <2>1. told.changed /\ told.valid => told.late \/ told.disturbed \/ sound
    BY <1>1, <1>3, <1>4, <1>9 DEF Honest, AtWork
  <2>2. step = After(t, kind, told)
    <3> HIDE DEF told, step
    <3> QED BY <1>1, <1>7, <1>9, AfterCallWith DEF s
  <2>3. turn' = [turn EXCEPT ![t] = After(t, kind, told)] BY <1>9, <2>2, Zenon
  <2> HIDE DEF told, step
  <2> QED BY <1>1, <1>4, <1>5, <1>8, <1>9, <2>1, <2>3, CallKeeps
\* A validation.
<1>10. ASSUME NEW ran \in BOOLEAN, turn' = [turn EXCEPT ![t] = Checked(step, ran)],
              UNCHANGED sound, kind = "validate"
       PROVE  IInv'
  <2> DEFINE v == turn[t].image = "sound" /\ ran
             q == [told EXCEPT !.valid = v, !.late = FALSE]
  <2>1. v \in BOOLEAN OBVIOUS
  <2>2. Checked(step, ran) = After(t, kind, q)
    <3>1. /\ step.image = turn[t].image /\ step.result = told
          /\ [step EXCEPT !.image = "none", !.result = q]
               = [s EXCEPT !.image = "none", !.result = q]
      <4> HIDE DEF told, q, s, step
      <4> QED BY <1>2, <1>7 DEF Turn
    <3>2. Checked(step, ran) = [step EXCEPT !.image = "none", !.result = q]
      <4>1. Checked(step, ran) = [step EXCEPT !.image = "none",
               !.result = [step.result EXCEPT !.valid = v, !.late = FALSE]]
        <5>1. step \in Turn /\ step.result \in Reply /\ step.image = turn[t].image
          <6>1. step = [s EXCEPT !.image = turn[t].image, !.result = told]
            <7> HIDE DEF told, s, step
            <7> QED BY <1>2, <1>7 DEF Turn
          <6> DEFINE i == turn[t].image
          <6>2. i \in Images BY <1>1, TurnFields
          <6>3. s \in Turn /\ told \in Reply /\ step = [s EXCEPT !.image = i, !.result = told]
            BY <1>2, <1>4, <6>1
          <6> HIDE DEF told, s, step, i
          <6>4. step \in Turn /\ step.result = told /\ step.image = i
            BY <6>2, <6>3, Concludes, Zenon
          <6> QED BY <6>3, <6>4 DEF i
        <5> HIDE DEF step
        <5> QED BY <5>1 DEF Checked, Turn
      <4> HIDE DEF told, step, v
      <4> QED BY <3>1, <4>1
    <3> HIDE DEF q, s, step
    <3> QED BY <3>1, <3>2 DEF After, s
  <2>3. /\ q \in Reply /\ q.valid = v /\ q.changed = told.changed /\ q.touched = told.touched
        /\ q.disturbed = told.disturbed
    <3> HIDE DEF v, told
    <3> QED BY <1>4, <2>1, ReplyChecked, Zenon
  <2>4. q.changed /\ q.valid => q.late \/ q.disturbed \/ sound
    <3> HIDE DEF q, told, ch
    <3> QED BY <1>1, <1>4, <2>3 DEF Honest
  <2>5. turn' = [turn EXCEPT ![t] = After(t, kind, q)] BY <1>10, <2>2, Zenon
  <2> HIDE DEF q, told, step
  <2> QED BY <1>1, <1>5, <1>8, <1>10, <2>3, <2>4, <2>5, CallKeeps
\* A change.
<1>11. CASE /\ kind = "change" /\ turn[t].image = "none" /\ sound' \in BOOLEAN
            /\ turn' = [x \in Turns |-> IF x = t THEN [step EXCEPT !.result.touched = TRUE,
                                                                   !.result.late = TRUE]
                                        ELSE Disturbed(turn[x])]
  <2> DEFINE q == [told EXCEPT !.touched = TRUE, !.late = TRUE]
             r == After(t, kind, q)
  <2>1. [step EXCEPT !.result.touched = TRUE, !.result.late = TRUE] = r
    <3>1. [step EXCEPT !.result.touched = TRUE, !.result.late = TRUE] = [s EXCEPT !.result = q]
      <4> HIDE DEF s, step
      <4> QED BY <1>2, <1>4, <1>7 DEF Turn, Reply
    <3> HIDE DEF q, step
    <3>2. [s EXCEPT !.result = q] = r BY <1>1, <1>11, AfterCallWith
    <3> QED BY <3>1, <3>2
  <2>2. q \in Reply /\ q.late = TRUE /\ q.changed = told.changed
    <3> HIDE DEF told
    <3> QED BY <1>4, ReplyTouched, Zenon
  <2>3. q.changed BY <1>3, <1>4, <1>11, <2>2, Zenon
  <2> HIDE DEF q
  <2>4. Honest(r, sound') BY <1>1, <1>11, <2>2, <2>3, HonestAfter
  <2>5. r \in Turn /\ GoesOnQuietly(turn[t], r) BY <1>1, <2>2, CallDone, Zenon
  <2> HIDE DEF r
  <2>6. turn' = [x \in Turns |-> IF x = t THEN r ELSE Disturbed(turn[x])]
    BY <1>11, <2>1, Zenon
  <2>7. turn' \in [Turns -> Turn] /\ TurnsAreHonest' /\ Quietly
    BY <1>1, <1>11, <2>4, <2>5, <2>6, AllTurns, Typed
  <2> QED BY <1>1, <1>5, <1>11, <2>7, Typed, QuietStep
<1> QED BY <1>6, <1>9, <1>10, <1>11, Zenon

-----------------------------------------------------------------------------
(* Conversations come and go.                                              *)

LEMMA Deleted ==
  ASSUME IInv, NEW u, NEW c, HandleAssistantDelete(u, c)
  PROVE  IInv'
<1>1. TypeOK /\ TurnsAreHonest /\ ChatsSound /\ AnswersSound
  BY DEF IInv, ChatsSound, AnswersSound
<1>2. /\ chats' = [d \in DOMAIN chats \ {c} |-> chats[d]]
      /\ messages' = [d \in DOMAIN messages \ {c} |-> messages[d]]
      /\ UNCHANGED <<configured, sound, opened, turn, mixed>>
  BY DEF HandleAssistantDelete, Cascaded
<1>3. RowsKept BY <1>1, <1>2, Typed DEF RowsKept
<1>4. Quietly BY <1>2 DEF Quietly, GoesOnQuietly
<1>5. ChatsSound' BY <1>1, <1>3, <1>4, Typed, QuietKeepsChats
<1>6. AnswersSound' BY <1>1, <1>3, Typed, RowsKeepAnswers
<1>7. TurnsAreHonest' BY <1>1, <1>2 DEF TurnsAreHonest
<1>8. TypeOK'
  <2>1. /\ DOMAIN chats' \subseteq 1..opened' /\ chats' \in [DOMAIN chats' -> Chat]
        /\ messages' \in [DOMAIN chats' -> Seq(Message)]
    <3> HIDE DEF Chat, Message
    <3> QED BY <1>1, <1>2 DEF TypeOK
  <2> QED BY <1>1, <1>2, <2>1 DEF TypeOK
<1> QED BY <1>5, <1>6, <1>7, <1>8 DEF IInv, ChatsSound, AnswersSound

\* The conversations that a step of turn t does not touch.
LEMMA OtherChats ==
  ASSUME ChatsSound, NEW t \in Turns, NEW d \in DOMAIN chats, d \notin mixed,
         messages'[d] = messages[d], chats'[d].title = chats[d].title,
         \A s \in Turns \ {t} : turn'[s] = turn[s],
         ~WorksIn(turn[t], d), ~WorksIn(turn'[t], d)
  PROVE  LogFine(d, messages'[d], turn') /\ TitleFine(d, chats'[d].title, messages'[d], turn')
<1>1. LogFine(d, messages[d], turn) /\ TitleFine(d, chats[d].title, messages[d], turn)
  BY DEF ChatsSound, LogsAlternate, TitlesFollow
<1>2. \A s \in Turns : /\ WorksIn(turn[s], d) => turn'[s] = turn[s]
                       /\ WorksIn(turn'[s], d) => turn'[s] = turn[s]
  OBVIOUS
<1> DEFINE log == messages[d]
           title == chats[d].title
<1>3. LogFine(d, log, turn')
  <2>1. Len(log) % 2 = 1 => \E s \in Turns : WorksIn(turn'[s], d) /\ turn'[s].pc = "storeReply"
    <3>1. SUFFICES ASSUME Len(log) % 2 = 1
                   PROVE  \E s \in Turns : WorksIn(turn'[s], d) /\ turn'[s].pc = "storeReply"
      OBVIOUS
    <3>2. PICK s \in Turns : WorksIn(turn[s], d) /\ turn[s].pc = "storeReply"
      BY <1>1, <3>1 DEF LogFine
    <3> QED BY <1>2, <3>2
  <2>2. \A s \in Turns : WorksIn(turn'[s], d) /\ turn'[s].pc = "storeReply" => HalfStored(s, log)
    BY <1>1, <1>2, Zenon DEF LogFine
  <2> QED BY <1>1, <2>1, <2>2, Zenon DEF LogFine
<1>4. TitleFine(d, title, log, turn')
  <2>1. title = NewTitle /\ log # <<>> =>
          \E s \in Turns : WorksIn(turn'[s], d) /\ turn'[s].pc \in Stores /\ log[1].turn = s
    <3>1. SUFFICES ASSUME title = NewTitle, log # <<>>
                   PROVE  \E s \in Turns : /\ WorksIn(turn'[s], d) /\ turn'[s].pc \in Stores
                                           /\ log[1].turn = s
      OBVIOUS
    <3>2. PICK s \in Turns : WorksIn(turn[s], d) /\ turn[s].pc \in Stores /\ log[1].turn = s
      BY <1>1, <3>1 DEF TitleFine
    <3> QED BY <1>2, <3>2
  <2>2. \A s \in Turns : WorksIn(turn'[s], d) =>
          /\ turn'[s].untitled = (title = NewTitle)
          /\ turn'[s].pc \in Stores => log # <<>>
    BY <1>1, <1>2, Zenon DEF TitleFine
  <2> QED BY <1>1, <2>1, <2>2, Zenon DEF TitleFine
<1> QED BY <1>3, <1>4

\* A conversation is created under an id no turn works in: it has no title of its own
\* and no messages.
LEMMA Created ==
  ASSUME IInv, NEW u \in Users, CreateConversation(u)
  PROVE  IInv'
<1> DEFINE n == opened + 1
<1>1. TypeOK /\ TurnsAreHonest /\ ChatsSound /\ AnswersSound
  BY DEF IInv, ChatsSound, AnswersSound
<1>2. /\ chats' = [c \in DOMAIN chats \cup {n} |->
                     IF c \in DOMAIN chats THEN chats[c] ELSE [user |-> u, title |-> NewTitle]]
      /\ messages' = [c \in DOMAIN messages \cup {n} |->
                        IF c \in DOMAIN messages THEN messages[c] ELSE <<>>]
      /\ opened < MaxChats /\ opened' = n /\ UNCHANGED <<configured, sound, turn, mixed>>
  BY DEF CreateConversation
<1>3. n \notin DOMAIN chats /\ n \in Nat /\ n \in ChatIds /\ opened \in Nat
  BY <1>1, <1>2, Typed, BoundsAssumption DEF TypeOK, ChatIds
<1> HIDE DEF n
<1>4. /\ DOMAIN chats' = DOMAIN chats \cup {n} /\ DOMAIN messages' = DOMAIN chats'
      /\ \A c \in DOMAIN chats : chats'[c] = chats[c] /\ messages'[c] = messages[c]
      /\ chats'[n].title = NewTitle /\ messages'[n] = <<>>
  BY <1>1, <1>2, <1>3, Typed
<1>5. TypeOK'
  <2>1. opened' \in 0..MaxChats /\ DOMAIN chats' \subseteq 1..opened'
    BY <1>1, <1>2, <1>3, <1>4, BoundsAssumption DEF TypeOK, n
  <2>2. chats' \in [DOMAIN chats' -> Chat]
    <3>1. [user |-> u, title |-> NewTitle] \in Chat BY DEF Chat
    <3>2. \A c \in DOMAIN chats : chats[c] \in Chat BY <1>1 DEF TypeOK
    <3> HIDE DEF Chat
    <3> QED BY <1>2, <1>4, <3>1, <3>2
  <2>3. messages' \in [DOMAIN chats' -> Seq(Message)]
    <3>1. \A c \in DOMAIN messages : messages[c] \in Seq(Message) BY <1>1 DEF TypeOK
    <3>2. <<>> \in Seq(Message) OBVIOUS
    <3> HIDE DEF Message
    <3> QED BY <1>2, <1>4, <3>1, <3>2
  <2> QED BY <1>1, <1>2, <2>1, <2>2, <2>3 DEF TypeOK
<1>6. TurnsAreHonest' BY <1>1, <1>2 DEF TurnsAreHonest
<1>7. ChatsAreKnown'
  <2>1. \A t \in Turns : turn[t].chat \in ChatIds \cup {0} /\ turn[t].chat <= opened
    BY <1>1, Typed, TurnFields DEF ChatsSound, ChatsAreKnown
  <2> QED BY <1>1, <1>2, <1>3, <2>1 DEF ChatsSound, ChatsAreKnown, n, ChatIds
<1>8. AloneInChat' BY <1>1, <1>2 DEF ChatsSound, AloneInChat
<1>9. \A t \in Turns : ~WorksIn(turn[t], n)
  BY <1>1, <1>3 DEF ChatsSound, ChatsAreKnown, WorksIn, n
<1>10. LogFine(n, <<>>, turn) /\ TitleFine(n, NewTitle, <<>>, turn)
  BY <1>9 DEF LogFine, TitleFine, Alternates
<1>11. LogsAlternate' BY <1>1, <1>2, <1>4, <1>10, Zenon DEF ChatsSound, LogsAlternate
<1>12. TitlesFollow' BY <1>1, <1>2, <1>4, <1>10, Zenon DEF ChatsSound, TitlesFollow
<1>13. AnswersSound'
  <2>1. Stored' \subseteq Stored
    <3> SUFFICES ASSUME NEW m \in Stored' PROVE m \in Stored OBVIOUS
    <3>1. Stored' = StoredIn(messages') /\ Stored = StoredIn(messages) BY DEF Stored, StoredIn
    <3>2. PICK c \in DOMAIN messages' : \E k \in DOMAIN messages'[c] : m = messages'[c][k]
      BY <3>1, StoredAre
    <3>3. c # n BY <1>4, <3>2
    <3>4. c \in DOMAIN messages /\ messages'[c] = messages[c] BY <1>1, <1>4, <3>3, Typed
    <3> QED BY <3>1, <3>2, <3>4, StoredAre, Zenon
  <2> QED BY <1>1, <2>1 DEF AnswersSound, ChangesAreTold, ReadyWasChecked, Ready, Answers
<1> QED BY <1>5, <1>6, <1>7, <1>8, <1>11, <1>12, <1>13 DEF IInv, ChatsSound, AnswersSound

\* The invariant after a step of turn t in its conversation c: what is said of c and of
\* the rest of the state.
LEMMA InOneChat ==
  ASSUME IInv, NEW t \in Turns, NEW c \in ChatIds, TypeOK', TurnsAreHonest', AnswersSound',
         DOMAIN chats' = DOMAIN chats, opened' = opened, mixed \subseteq mixed',
         turn'[t].chat \in {0, c}, turn'[t].chat = 0 => turn'[t].pc \in {"new", "done"},
         c <= opened,
         \A s \in Turns \ {t} : turn'[s] = turn[s],
         \A d \in DOMAIN chats \ {c} : chats'[d] = chats[d] /\ messages'[d] = messages[d],
         ~WorksIn(turn[t], c) => turn[t].pc \in {"new", "done"},
         c \notin mixed' => \A s \in Turns \ {t} : ~WorksIn(turn[s], c),
         c \in DOMAIN chats \ mixed' => /\ LogFine(c, messages'[c], turn')
                                        /\ TitleFine(c, chats'[c].title, messages'[c], turn')
  PROVE  IInv'
<1>1. TypeOK /\ ChatsSound /\ DOMAIN chats \subseteq ChatIds /\ opened \in Nat
  BY Typed DEF IInv, ChatsSound
<1>2. \A d \in ChatIds : d # c => ~WorksIn(turn[t], d) /\ ~WorksIn(turn'[t], d)
  BY DEF WorksIn, ChatIds
<1>3. ChatsAreKnown' BY <1>1 DEF ChatsSound, ChatsAreKnown
<1>4. AloneInChat'
  <2> SUFFICES ASSUME NEW d \in ChatIds \ mixed', NEW r \in Turns, NEW s \in Turns,
                      WorksIn(turn'[r], d), WorksIn(turn'[s], d)
               PROVE  r = s
    BY DEF AloneInChat
  <2>1. CASE d = c BY <2>1
  <2>2. CASE d # c
    <3>1. r # t /\ s # t BY <1>2, <2>2
    <3> QED BY <1>1, <3>1 DEF ChatsSound, AloneInChat
  <2> QED BY <2>1, <2>2
<1>5. ASSUME NEW d \in DOMAIN chats' \ mixed'
      PROVE  LogFine(d, messages'[d], turn') /\ TitleFine(d, chats'[d].title, messages'[d], turn')
  <2>1. CASE d = c BY <2>1
  <2>2. CASE d # c
    <3>1. d \in DOMAIN chats /\ d \notin mixed /\ messages'[d] = messages[d]
          /\ chats'[d].title = chats[d].title /\ ~WorksIn(turn[t], d) /\ ~WorksIn(turn'[t], d)
      BY <1>1, <1>2, <2>2
    <3> QED BY <1>1, <3>1, OtherChats
  <2> QED BY <2>1, <2>2
<1> QED BY <1>3, <1>4, <1>5, Zenon DEF IInv, AnswersSound, LogsAlternate, TitlesFollow

\* A turn begins in a conversation that has a title or no messages; with another turn
\* at work in it the conversation is mixed.
LEMMA TurnBegins ==
  ASSUME IInv, NEW t \in Turns, NEW u \in Users, NEW c \in ChatIds, GetConversation(t, u, c)
  PROVE  IInv'
<1> DEFINE b == (chats[c].title = NewTitle)
           r == [NewTurn EXCEPT !.pc = "config", !.chat = c, !.untitled = b]
<1>1. TypeOK /\ TurnsAreHonest /\ ChatsSound /\ AnswersSound
  BY DEF IInv, ChatsSound, AnswersSound
<1>2. /\ turn[t].pc = "new" /\ c \in DOMAIN chats /\ turn' = [turn EXCEPT ![t] = r]
      /\ UNCHANGED <<configured, sound, chats, opened, messages>>
      /\ mixed' = IF \E s \in Turns : Active(s) /\ turn[s].chat = c THEN mixed \cup {c} ELSE mixed
  BY DEF GetConversation, ListConversations
<1>3. b \in BOOLEAN /\ c # 0 BY DEF ChatIds
<1>4. /\ r \in Turn /\ r.pc = "config" /\ r.chat = c /\ r.untitled = b /\ r.kinds = {} /\ r.image = "none"
      /\ r.result = NoReply
  <2> HIDE DEF b
  <2> QED BY <1>3, NewTurnType DEF Turn, NewTurn
<1> HIDE DEF r, b
<1>5. Honest(r, sound) BY <1>4 DEF Honest, Fresh, NoReply, AtWork, Answering
<1>6. turn' \in [Turns -> Turn] /\ TurnsAreHonest' /\ turn'[t] = r
      /\ \A s \in Turns \ {t} : turn'[s] = turn[s]
  BY <1>1, <1>2, <1>4, <1>5, Typed, OneTurn
<1>7. mixed \subseteq mixed' /\ mixed' \subseteq ChatIds BY <1>1, <1>2, Typed
<1>8. TypeOK' BY <1>1, <1>2, <1>6, <1>7 DEF TypeOK
<1>9. AnswersSound'
  BY <1>1, <1>2 DEF AnswersSound, ChangesAreTold, ReadyWasChecked, Ready, Answers, Stored
<1>10. c \notin mixed' => c \notin mixed /\ \A s \in Turns : ~WorksIn(turn[s], c)
  BY <1>2 DEF WorksIn, Active
<1>11. c <= opened BY <1>1, <1>2 DEF TypeOK
<1>12. ASSUME c \notin mixed'
       PROVE  LogFine(c, messages[c], turn') /\ TitleFine(c, chats[c].title, messages[c], turn')
  <2>1. LogFine(c, messages[c], turn) /\ TitleFine(c, chats[c].title, messages[c], turn)
    BY <1>1, <1>2, <1>10, <1>12 DEF ChatsSound, LogsAlternate, TitlesFollow
  <2>2. \A s \in Turns : WorksIn(turn'[s], c) => s = t BY <1>6, <1>10, <1>12
  <2>3. turn'[t].pc = "config" /\ turn'[t].untitled = b BY <1>4, <1>6
  <2>4. Len(messages[c]) % 2 # 1 BY <1>10, <1>12, <2>1 DEF LogFine
  <2>5. LogFine(c, messages[c], turn')
    BY <2>1, <2>2, <2>3, <2>4 DEF LogFine
  <2>6. chats[c].title = NewTitle => messages[c] = <<>> BY <1>10, <1>12, <2>1, Zenon DEF TitleFine
  <2>7. TitleFine(c, chats[c].title, messages[c], turn')
    BY <2>1, <2>2, <2>3, <2>6 DEF TitleFine, b, Stores
  <2> QED BY <2>5, <2>7
<1>13. turn'[t].chat = c BY <1>4, <1>6
<1> QED
  BY <1>2, <1>3, <1>6, <1>7, <1>8, <1>9, <1>10, <1>11, <1>12, <1>13, InOneChat

-----------------------------------------------------------------------------
(* A message is stored.                                                    *)

\* One more row at the end of a log.
LEMMA Appended ==
  ASSUME NEW log \in Seq(Message), NEW m \in Message
  PROVE  LET new == Append(log, m) IN
         /\ new \in Seq(Message) /\ new # <<>> /\ Len(new) = Len(log) + 1
         /\ new[Len(new)] = m /\ DOMAIN new = 1..(Len(log) + 1) /\ DOMAIN log = 1..Len(log)
         /\ \A k \in DOMAIN log : new[k] = log[k]
         /\ log # <<>> => new[1] = log[1]
         /\ log = <<>> => new[1] = m
<1> DEFINE new == Append(log, m)
<1>1. /\ new \in Seq(Message) /\ Len(new) = Len(log) + 1 /\ new[Len(new)] = m
      /\ Len(log) \in Nat /\ DOMAIN log = 1..Len(log)
  OBVIOUS
<1>2. DOMAIN new = 1..(Len(log) + 1) /\ \A k \in DOMAIN log : new[k] = log[k] OBVIOUS
<1>3. log # <<>> => 1 \in DOMAIN log OBVIOUS
<1>4. log = <<>> => Len(log) = 0 OBVIOUS
<1>5. Len(<<>>) = 0 OBVIOUS
<1> HIDE DEF new
<1>6. new # <<>> BY <1>1, <1>5
<1> QED BY <1>1, <1>2, <1>3, <1>4, <1>6 DEF new

LEMMA Parity ==
  ASSUME NEW n \in Nat
  PROVE  /\ (n + 1) % 2 = 1 <=> n % 2 # 1
         /\ (n + 1) % 2 = 0 <=> n % 2 = 1
         /\ n % 2 = 1 => n # 0
OBVIOUS

LEMMA QuestionFollows ==
  ASSUME NEW log \in Seq(Message), NEW m \in Message, Alternates(log), Len(log) % 2 # 1,
         m.role = "user"
  PROVE  Alternates(Append(log, m)) /\ HalfStored(m.turn, Append(log, m))
<1> DEFINE new == Append(log, m)
<1>1. /\ new \in Seq(Message) /\ Len(new) = Len(log) + 1 /\ new[Len(new)] = m
      /\ DOMAIN new = 1..(Len(log) + 1) /\ DOMAIN log = 1..Len(log)
      /\ \A k \in DOMAIN log : new[k] = log[k]
  BY Appended
<1>2. Len(log) \in Nat /\ Len(new) % 2 = 1 BY <1>1, Parity
<1> HIDE DEF new
<1>3. ASSUME NEW k \in DOMAIN new
      PROVE  /\ new[k].role = IF k % 2 = 1 THEN "user" ELSE "assistant"
             /\ k % 2 = 0 => new[k].turn = new[k - 1].turn
  <2>1. CASE k = Len(new) BY <1>1, <1>2, <2>1
  <2>2. CASE k # Len(new)
    <3>1. k \in DOMAIN log BY <1>1, <1>2, <2>2
    <3>2. k % 2 = 0 => k - 1 \in DOMAIN log BY <1>1, <1>2, <3>1
    <3> QED BY <1>1, <3>1, <3>2 DEF Alternates
  <2> QED BY <2>1, <2>2
<1>4. Alternates(new) BY <1>3 DEF Alternates
<1> QED BY <1>1, <1>2, <1>4 DEF HalfStored, new

LEMMA AnswerFollows ==
  ASSUME NEW log \in Seq(Message), NEW m \in Message, Alternates(log), HalfStored(m.turn, log),
         m.role = "assistant"
  PROVE  Alternates(Append(log, m)) /\ Len(Append(log, m)) % 2 # 1
<1> DEFINE new == Append(log, m)
<1>1. /\ new \in Seq(Message) /\ Len(new) = Len(log) + 1 /\ new[Len(new)] = m
      /\ DOMAIN new = 1..(Len(log) + 1) /\ DOMAIN log = 1..Len(log)
      /\ \A k \in DOMAIN log : new[k] = log[k]
  BY Appended
<1>2. Len(log) \in Nat /\ Len(log) % 2 = 1 /\ log[Len(log)].turn = m.turn BY DEF HalfStored
<1>3. Len(new) % 2 = 0 /\ Len(log) # 0 BY <1>1, <1>2, Parity
<1> HIDE DEF new
<1>4. ASSUME NEW k \in DOMAIN new
      PROVE  /\ new[k].role = IF k % 2 = 1 THEN "user" ELSE "assistant"
             /\ k % 2 = 0 => new[k].turn = new[k - 1].turn
  <2>1. CASE k = Len(new)
    <3>1. k - 1 = Len(log) /\ Len(log) \in DOMAIN log BY <1>1, <1>2, <1>3, <2>1
    <3> QED BY <1>1, <1>2, <1>3, <2>1, <3>1
  <2>2. CASE k # Len(new)
    <3>1. k \in DOMAIN log BY <1>1, <1>2, <2>2
    <3>2. k % 2 = 0 => k - 1 \in DOMAIN log BY <1>1, <1>2, <3>1
    <3> QED BY <1>1, <3>1, <3>2 DEF Alternates
  <2> QED BY <2>1, <2>2
<1>5. Alternates(new) BY <1>4 DEF Alternates
<1> QED BY <1>3, <1>5 DEF new

\* A row that may be stored for a turn: a question, or an answer as the turn has it.
RowOf(t, role) ==
  [role |-> role, turn |-> t, reply |-> IF role = "user" THEN NoReply ELSE turn[t].result]

LEMMA RowType ==
  ASSUME IInv, NEW t \in Turns, NEW role \in {"user", "assistant"}, turn[t].pc \in Answering
  PROVE  LET m == RowOf(t, role) IN
         /\ m \in Message /\ m.role = role /\ m.turn = t
         /\ m.role = "assistant" =>
              /\ m.reply.touched => m.reply.changed
              /\ Ready(m.reply)
<1>1. turn[t].result \in Reply /\ Honest(turn[t], sound) BY AboutTurn, TurnFields
<1> DEFINE q == IF role = "user" THEN NoReply ELSE turn[t].result
<1>2. q \in Reply BY <1>1, NewTurnType
<1>3. RowOf(t, role) = [role |-> role, turn |-> t, reply |-> q] BY Zenon DEF RowOf
<1>4. role = "assistant" =>
        /\ q.touched => q.changed
        /\ Ready(q)
  BY <1>1 DEF Honest
<1> HIDE DEF q
<1>5. [role |-> role, turn |-> t, reply |-> q] \in Message BY <1>2 DEF Message
<1> QED BY <1>3, <1>4, <1>5

\* The answers after one more row.
LEMMA AnswersAfter ==
  ASSUME AnswersSound, NEW c \in DOMAIN messages, NEW m \in Message, TypeOK,
         m.role = "assistant" =>
              /\ m.reply.touched => m.reply.changed
              /\ Ready(m.reply),
         messages' = [messages EXCEPT ![c] = Append(@, m)]
  PROVE  AnswersSound'
<1>1. Stored' \subseteq Stored \cup {m}
  <2> SUFFICES ASSUME NEW x \in Stored', x # m PROVE x \in Stored OBVIOUS
  <2>1. Stored' = StoredIn(messages') /\ Stored = StoredIn(messages) BY DEF Stored, StoredIn
  <2>2. PICK d \in DOMAIN messages' : \E k \in DOMAIN messages'[d] : x = messages'[d][k]
    BY StoredNext
  <2>3. d \in DOMAIN messages /\ messages[c] \in Seq(Message) BY Typed DEF TypeOK
  <2>4. CASE d # c
    <3>1. messages'[d] = messages[d] BY <2>3, <2>4
    <3> QED BY <2>1, <2>2, <2>3, <3>1, StoredAre, Zenon
  <2>5. CASE d = c
    <3> DEFINE log == messages[c]
               new == Append(log, m)
    <3>1. messages'[d] = new BY <2>5
    <3>2. PICK k \in DOMAIN new : x = new[k] BY <2>2, <3>1
    <3>3. /\ new[Len(new)] = m /\ DOMAIN new = 1..(Len(log) + 1) /\ DOMAIN log = 1..Len(log)
          /\ \A i \in DOMAIN log : new[i] = log[i]
          /\ Len(new) = Len(log) + 1 /\ Len(log) \in Nat
      BY <2>3, Appended
    <3> HIDE DEF new
    <3>4. k \in DOMAIN log BY <3>2, <3>3
    <3>5. x = log[k] BY <3>2, <3>3, <3>4
    <3> QED BY <2>1, <2>3, <3>4, <3>5, StoredAre, Zenon
  <2> QED BY <2>4, <2>5
<1> QED BY <1>1 DEF AnswersSound, ChangesAreTold, ReadyWasChecked, Ready, Answers

\* What both stores do: the row is added or lost, and the turn goes on.
LEMMA Stores2 ==
  ASSUME IInv, NEW t \in Turns, NEW role \in {"user", "assistant"},
         NEW next \in {"storeReply", "title"}, turn[t].pc \in {"storeUser", "storeReply"},
         AddChatMessage(t, role, next)
  PROVE  LET c == turn[t].chat  m == RowOf(t, role) IN
         /\ c \in ChatIds /\ c <= opened /\ WorksIn(turn[t], c)
         /\ TypeOK' /\ TurnsAreHonest' /\ AnswersSound'
         /\ DOMAIN chats' = DOMAIN chats /\ chats' = chats /\ opened' = opened
         /\ mixed \subseteq mixed'
         /\ \A s \in Turns \ {t} : turn'[s] = turn[s]
         /\ turn'[t].chat = c /\ turn'[t].pc = next /\ turn'[t].untitled = turn[t].untitled
         /\ \/ /\ c \in DOMAIN chats /\ messages[c] \in Seq(Message)
               /\ messages'[c] = Append(messages[c], m)
               /\ \A d \in DOMAIN chats \ {c} : messages'[d] = messages[d]
            \/ messages' = messages /\ c \in mixed'
<1> DEFINE c == turn[t].chat
           m == RowOf(t, role)
           r == [turn[t] EXCEPT !.pc = next]
<1>1. TypeOK /\ TurnsAreHonest /\ ChatsSound /\ AnswersSound
  BY DEF IInv, ChatsSound, AnswersSound
<1>2. turn[t] \in Turn /\ Honest(turn[t], sound) BY AboutTurn
<1>3. c \in ChatIds /\ c <= opened /\ WorksIn(turn[t], c)
  BY <1>1, <1>2, TurnFields DEF ChatsSound, ChatsAreKnown, WorksIn
<1>4. /\ m \in Message /\ m.role = role /\ m.turn = t
      /\ m.role = "assistant" =>
           /\ m.reply.touched => m.reply.changed
           /\ Ready(m.reply)
  BY RowType DEF Answering
<1>5. /\ \/ /\ c \in DOMAIN chats /\ messages' = [messages EXCEPT ![c] = Append(@, m)]
            /\ UNCHANGED mixed
         \/ UNCHANGED messages /\ mixed' = mixed \cup {c}
      /\ turn' = [turn EXCEPT ![t] = r]
      /\ UNCHANGED <<configured, sound, chats, opened>>
  BY Zenon DEF AddChatMessage, RowOf
<1>6. /\ r \in Turn /\ r.pc = next /\ r.chat = turn[t].chat /\ r.untitled = turn[t].untitled
      /\ r.kinds = turn[t].kinds /\ r.image = turn[t].image /\ r.result = turn[t].result
  <2>1. next \in {"new", "config", "history", "model", "tools", "net", "storeUser", "storeReply",
                  "title", "done"}
    OBVIOUS
  <2> QED BY <1>2, <2>1, GoesOn, Zenon
<1> HIDE DEF r, m
<1>7. Honest(r, sound) BY <1>2, <1>6 DEF Honest, AtWork, Answering
<1>8. /\ turn' \in [Turns -> Turn] /\ TurnsAreHonest' /\ turn'[t] = r
      /\ \A s \in Turns \ {t} : turn'[s] = turn[s]
  BY <1>1, <1>5, <1>6, <1>7, Typed, OneTurn
<1>9. CASE /\ c \in DOMAIN chats /\ messages' = [messages EXCEPT ![c] = Append(@, m)]
           /\ UNCHANGED mixed
  <2>1. messages \in [DOMAIN chats -> Seq(Message)] /\ messages[c] \in Seq(Message)
    BY <1>1, <1>9 DEF TypeOK
  <2>2. Append(messages[c], m) \in Seq(Message) BY <1>4, <2>1, Appended, Zenon
  <2>3. messages' \in [DOMAIN chats -> Seq(Message)] /\ messages'[c] = Append(messages[c], m)
        /\ \A d \in DOMAIN chats \ {c} : messages'[d] = messages[d]
    BY <1>9, <2>1, <2>2, Zenon
  <2>4. TypeOK' BY <1>1, <1>5, <1>8, <1>9, <2>3 DEF TypeOK
  <2>5. AnswersSound' BY <1>1, <1>4, <1>9, <2>1, AnswersAfter
  <2> QED BY <1>3, <1>5, <1>6, <1>8, <1>9, <2>1, <2>3, <2>4, <2>5 DEF m
<1>10. CASE UNCHANGED messages /\ mixed' = mixed \cup {c}
  <2>1. TypeOK' BY <1>1, <1>3, <1>5, <1>8, <1>10 DEF TypeOK
  <2>2. AnswersSound'
    BY <1>1, <1>10 DEF AnswersSound, ChangesAreTold, ReadyWasChecked, Ready, Answers, Stored
  <2> QED BY <1>3, <1>5, <1>6, <1>8, <1>10, <2>1, <2>2
<1> QED BY <1>5, <1>9, <1>10

\* Alone in a conversation that is not mixed.
LEMMA Alone ==
  ASSUME IInv, NEW t \in Turns, NEW c \in ChatIds \ mixed, WorksIn(turn[t], c)
  PROVE  \A s \in Turns \ {t} : ~WorksIn(turn[s], c)
BY DEF IInv, AloneInChat

LEMMA QuestionStored ==
  ASSUME IInv, NEW t \in Turns, StoreUser(t)
  PROVE  IInv'
<1> DEFINE c == turn[t].chat
           m == RowOf(t, "user")
           log == messages[c]
           new == Append(log, m)
<1>1. turn[t].pc = "storeUser" /\ AddChatMessage(t, "user", "storeReply")
  BY DEF StoreUser, RoleOf
<1>2. /\ c \in ChatIds /\ c <= opened /\ WorksIn(turn[t], c)
      /\ TypeOK' /\ TurnsAreHonest' /\ AnswersSound'
      /\ DOMAIN chats' = DOMAIN chats /\ chats' = chats /\ opened' = opened
      /\ mixed \subseteq mixed'
      /\ \A s \in Turns \ {t} : turn'[s] = turn[s]
      /\ turn'[t].chat = c /\ turn'[t].pc = "storeReply" /\ turn'[t].untitled = turn[t].untitled
      /\ \/ /\ c \in DOMAIN chats /\ log \in Seq(Message) /\ messages'[c] = new
            /\ \A d \in DOMAIN chats \ {c} : messages'[d] = messages[d]
         \/ messages' = messages /\ c \in mixed'
  BY <1>1, Stores2
<1>3. m \in Message /\ m.role = "user" /\ m.turn = t BY <1>1, RowType DEF Answering
<1> HIDE DEF m
<1>4. c \notin mixed' => \A s \in Turns \ {t} : ~WorksIn(turn[s], c) BY <1>2, Alone
<1>5. ASSUME c \in DOMAIN chats \ mixed'
      PROVE  /\ LogFine(c, messages'[c], turn')
             /\ TitleFine(c, chats'[c].title, messages'[c], turn')
  <2>1. c \notin mixed /\ log \in Seq(Message) /\ messages'[c] = new BY <1>2, <1>5
  <2>2. LogFine(c, log, turn) /\ TitleFine(c, chats[c].title, log, turn)
    BY <1>5, <2>1 DEF IInv, LogsAlternate, TitlesFollow
  <2>3. \A s \in Turns : WorksIn(turn[s], c) => s = t BY <1>4, <1>5
  <2>4. \A s \in Turns : WorksIn(turn'[s], c) => s = t BY <1>2, <2>3
  <2>5. Alternates(log) /\ Len(log) % 2 # 1 BY <1>1, <2>2, <2>3 DEF LogFine
  <2>6. Alternates(new) /\ HalfStored(t, new)
    <3>1. Alternates(new) /\ HalfStored(m.turn, new) BY <1>3, <2>1, <2>5, QuestionFollows
    <3> QED BY <1>3, <3>1
  <2>7. new # <<>> /\ (log # <<>> => new[1] = log[1]) /\ (log = <<>> => new[1] = m)
    BY <1>3, <2>1, Appended
  <2> DEFINE title == chats[c].title
  <2>8. title = NewTitle => log = <<>>
    BY <1>1, <2>2, <2>3, Zenon DEF TitleFine, Stores
  <2> HIDE DEF new, log
  <2>9. WorksIn(turn'[t], c) BY <1>2 DEF WorksIn
  <2>10. LogFine(c, new, turn') BY <1>2, <2>4, <2>6, <2>9 DEF LogFine
  <2>11. TitleFine(c, title, new, turn')
    BY <1>2, <1>3, <2>2, <2>4, <2>7, <2>8, <2>9 DEF TitleFine, Stores
  <2> QED BY <1>2, <2>1, <2>10, <2>11
<1> QED BY <1>2, <1>4, <1>5, InOneChat DEF ChatIds

LEMMA AnswerStored ==
  ASSUME IInv, NEW t \in Turns, StoreReply(t)
  PROVE  IInv'
<1> DEFINE c == turn[t].chat
           m == RowOf(t, "assistant")
           log == messages[c]
           new == Append(log, m)
<1>1. turn[t].pc = "storeReply" /\ AddChatMessage(t, "assistant", "title")
  BY DEF StoreReply, RoleOf
<1>2. /\ c \in ChatIds /\ c <= opened /\ WorksIn(turn[t], c)
      /\ TypeOK' /\ TurnsAreHonest' /\ AnswersSound'
      /\ DOMAIN chats' = DOMAIN chats /\ chats' = chats /\ opened' = opened
      /\ mixed \subseteq mixed'
      /\ \A s \in Turns \ {t} : turn'[s] = turn[s]
      /\ turn'[t].chat = c /\ turn'[t].pc = "title" /\ turn'[t].untitled = turn[t].untitled
      /\ \/ /\ c \in DOMAIN chats /\ log \in Seq(Message) /\ messages'[c] = new
            /\ \A d \in DOMAIN chats \ {c} : messages'[d] = messages[d]
         \/ messages' = messages /\ c \in mixed'
  BY <1>1, Stores2
<1>3. m \in Message /\ m.role = "assistant" /\ m.turn = t BY <1>1, RowType DEF Answering
<1> HIDE DEF m
<1>4. c \notin mixed' => \A s \in Turns \ {t} : ~WorksIn(turn[s], c) BY <1>2, Alone
<1>5. ASSUME c \in DOMAIN chats \ mixed'
      PROVE  /\ LogFine(c, messages'[c], turn')
             /\ TitleFine(c, chats'[c].title, messages'[c], turn')
  <2>1. c \notin mixed /\ log \in Seq(Message) /\ messages'[c] = new BY <1>2, <1>5
  <2>2. LogFine(c, log, turn) /\ TitleFine(c, chats[c].title, log, turn)
    BY <1>5, <2>1 DEF IInv, LogsAlternate, TitlesFollow
  <2>3. \A s \in Turns : WorksIn(turn[s], c) => s = t BY <1>4, <1>5
  <2>4. \A s \in Turns : WorksIn(turn'[s], c) => s = t BY <1>2, <2>3
  <2>5. Alternates(log) /\ HalfStored(t, log) BY <1>1, <1>2, <2>2 DEF LogFine
  <2>6. Alternates(new) /\ Len(new) % 2 # 1
    <3>1. HalfStored(m.turn, log) BY <1>3, <2>5
    <3> QED BY <1>3, <2>1, <2>5, <3>1, AnswerFollows
  <2>7. new # <<>> /\ (log # <<>> => new[1] = log[1]) BY <1>3, <2>1, Appended
  <2> DEFINE title == chats[c].title
  <2>8. log # <<>> BY <1>1, <1>2, <2>2 DEF TitleFine, Stores
  <2>9. title = NewTitle => log[1].turn = t
    BY <2>2, <2>3, <2>8, Zenon DEF TitleFine
  <2> HIDE DEF new, log
  <2>10. WorksIn(turn'[t], c) BY <1>2 DEF WorksIn
  <2>11. LogFine(c, new, turn') BY <1>2, <2>4, <2>6 DEF LogFine
  <2>12. TitleFine(c, title, new, turn')
    BY <1>2, <2>2, <2>4, <2>7, <2>8, <2>9, <2>10 DEF TitleFine, Stores
  <2> QED BY <1>2, <2>1, <2>11, <2>12
<1> QED BY <1>2, <1>4, <1>5, InOneChat DEF ChatIds

\* The title is set, or lost with the conversation or by the database; the turn ends.
LEMMA TitleSet ==
  ASSUME IInv, NEW t \in Turns, SetConversationTitle(t)
  PROVE  IInv'
<1> DEFINE c == turn[t].chat
           r == [NewTurn EXCEPT !.pc = "done"]
           log == messages[c]
<1>1. TypeOK /\ TurnsAreHonest /\ ChatsSound /\ AnswersSound
  BY DEF IInv, ChatsSound, AnswersSound
<1>2. turn[t] \in Turn /\ Honest(turn[t], sound) BY AboutTurn
<1>3. /\ turn[t].pc = "title" /\ turn' = [turn EXCEPT ![t] = r]
      /\ \/ /\ chats' = IF turn[t].untitled /\ c \in DOMAIN chats
                        THEN [chats EXCEPT ![c].title = t] ELSE chats
            /\ UNCHANGED mixed
         \/ turn[t].untitled /\ mixed' = mixed \cup {c} /\ UNCHANGED chats
      /\ UNCHANGED <<configured, sound, opened, messages>>
  BY DEF SetConversationTitle, End
<1>4. c \in ChatIds /\ c <= opened /\ WorksIn(turn[t], c)
  BY <1>1, <1>2, <1>3, TurnFields DEF ChatsSound, ChatsAreKnown, WorksIn
<1>5. /\ r \in Turn /\ r.pc = "done" /\ r.chat = 0 /\ r.kinds = {} /\ r.image = "none"
      /\ r.result = NoReply
  BY NewTurnType DEF NewTurn
<1> HIDE DEF r
<1>6. Honest(r, sound) BY <1>5 DEF Honest, Fresh, NoReply, AtWork, Answering
<1>7. /\ turn' \in [Turns -> Turn] /\ TurnsAreHonest' /\ turn'[t] = r
      /\ \A s \in Turns \ {t} : turn'[s] = turn[s]
  BY <1>1, <1>3, <1>5, <1>6, Typed, OneTurn
<1>8. mixed \subseteq mixed' /\ mixed' \subseteq ChatIds BY <1>1, <1>3, <1>4, Typed
<1>9. /\ DOMAIN chats' = DOMAIN chats /\ chats' \in [DOMAIN chats -> Chat]
      /\ \A d \in DOMAIN chats \ {c} : chats'[d] = chats[d]
      /\ c \in DOMAIN chats \ mixed' =>
           chats'[c].title = IF turn[t].untitled THEN t ELSE chats[c].title
  <2>1. chats \in [DOMAIN chats -> Chat] BY <1>1 DEF TypeOK
  <2>2. CASE chats' = [chats EXCEPT ![c].title = t] /\ c \in DOMAIN chats /\ turn[t].untitled
    <3> DEFINE row == [chats[c] EXCEPT !.title = t]
    <3>1. row \in Chat /\ row.title = t BY <2>1, <2>2 DEF Chat
    <3>2. chats' = [chats EXCEPT ![c] = row] BY <2>2, Zenon
    <3> HIDE DEF row, Chat
    <3> QED BY <2>1, <2>2, <3>1, <3>2
  <2>3. CASE chats' = chats /\ (turn[t].untitled => c \notin DOMAIN chats \/ c \in mixed')
    BY <2>1, <2>3
  <2> QED BY <1>3, <2>2, <2>3
<1>10. TypeOK' BY <1>1, <1>3, <1>7, <1>8, <1>9 DEF TypeOK
<1>11. AnswersSound'
  BY <1>1, <1>3 DEF AnswersSound, ChangesAreTold, ReadyWasChecked, Ready, Answers, Stored
<1>12. c \notin mixed' => \A s \in Turns \ {t} : ~WorksIn(turn[s], c) BY <1>4, <1>8, Alone
<1>13. ASSUME c \in DOMAIN chats \ mixed'
       PROVE  LogFine(c, log, turn') /\ TitleFine(c, chats'[c].title, log, turn')
  <2>1. LogFine(c, log, turn) /\ TitleFine(c, chats[c].title, log, turn)
    BY <1>1, <1>8, <1>13 DEF ChatsSound, LogsAlternate, TitlesFollow
  <2>2. \A s \in Turns : WorksIn(turn[s], c) => s = t BY <1>12, <1>13
  <2>3. \A s \in Turns : ~WorksIn(turn'[s], c) BY <1>5, <1>7, <2>2 DEF WorksIn
  <2>4. Len(log) % 2 # 1 BY <1>3, <2>1, <2>2 DEF LogFine
  <2>5. LogFine(c, log, turn') BY <2>1, <2>3, <2>4 DEF LogFine
  <2> DEFINE title == chats[c].title
             title2 == chats'[c].title
  <2>6. log # <<>> /\ turn[t].untitled = (title = NewTitle)
    BY <1>3, <1>4, <2>1 DEF TitleFine, Stores
  <2>7. title = NewTitle => log[1].turn = t BY <2>1, <2>2, <2>6, Zenon DEF TitleFine
  <2>8. title # NewTitle => log[1].turn = title BY <2>1 DEF TitleFine
  <2>9. title2 = IF title = NewTitle THEN t ELSE title BY <1>9, <1>13, <2>6
  <2>10. t # NewTitle BY TitlesAssumption
  <2>11. title2 # NewTitle /\ log[1].turn = title2
    <3> HIDE DEF title, title2, log
    <3> QED BY <2>7, <2>8, <2>9, <2>10
  <2>12. TitleFine(c, title2, log, turn')
    <3> HIDE DEF title, title2, log
    <3> QED BY <2>3, <2>6, <2>11 DEF TitleFine
  <2> QED BY <2>5, <2>12
<1> QED
  BY <1>3, <1>4, <1>5, <1>7, <1>8, <1>9, <1>10, <1>11, <1>12, <1>13, InOneChat

-----------------------------------------------------------------------------
(* The invariant holds.                                                    *)

LEMMA InitIInv == Init => IInv
<1> SUFFICES ASSUME Init PROVE IInv OBVIOUS
<1>1. DOMAIN chats = {} /\ DOMAIN messages = {} /\ chats = <<>> /\ messages = <<>> BY DEF Init
<1>2. \A t \in Turns : turn[t] = NewTurn BY DEF Init
<1>3. TypeOK
  <2>1. turn \in [Turns -> Turn] BY NewTurnType DEF Init
  <2>2. chats \in [DOMAIN chats -> Chat] /\ messages \in [DOMAIN chats -> Seq(Message)]
    <3> HIDE DEF Chat, Message
    <3> QED BY <1>1
  <2> QED BY <1>1, <2>1, <2>2, BoundsAssumption DEF Init, TypeOK
<1>4. /\ NewTurn.pc = "new" /\ NewTurn.chat = 0 /\ NewTurn.kinds = {}
      /\ NewTurn.image = "none" /\ NewTurn.result = NoReply
  BY DEF NewTurn
<1>5. TurnsAreHonest BY <1>2, <1>4 DEF TurnsAreHonest, Honest, Fresh, NoReply, AtWork, Answering
<1>6. Stored = {}
  <2> SUFFICES ASSUME NEW m \in Stored PROVE FALSE OBVIOUS
  <2>1. Stored = StoredIn(messages) BY DEF Stored, StoredIn
  <2>2. \E c \in DOMAIN messages : \E k \in DOMAIN messages[c] : m = messages[c][k]
    BY <2>1, StoredAre
  <2> QED BY <1>1, <2>2
<1>7. ChangesAreTold /\ ReadyWasChecked BY <1>6 DEF ChangesAreTold, ReadyWasChecked, Answers
<1>8. ChatsAreKnown BY <1>2, <1>4 DEF ChatsAreKnown, Init
<1>9. AloneInChat BY <1>2, <1>4 DEF AloneInChat, WorksIn
<1>10. LogsAlternate /\ TitlesFollow BY <1>1 DEF LogsAlternate, TitlesFollow
<1> QED BY <1>3, <1>5, <1>7, <1>8, <1>9, <1>10 DEF IInv

LEMMA TurnStepIInv ==
  ASSUME IInv, NEW t \in Turns, TurnStep(t)
  PROVE  IInv'
<1>1. CASE \E u \in Users, c \in ChatIds : GetConversation(t, u, c) BY <1>1, TurnBegins
<1>2. CASE LoadAIConfig(t) BY <1>2, ConfigIsLoaded
<1>3. CASE BuildTranscript(t) BY <1>3, TranscriptIsBuilt
<1>4. CASE ModelFails(t) BY <1>4, ModelMayFail
<1>5. CASE ModelAnswers(t) BY <1>5, ModelsAnswer
<1>6. CASE StepsSpent(t) BY <1>6, StepsMayBeSpent
<1>7. CASE \E kind \in Kinds : ToolFails(t, kind) \/ ToolWorks(t, kind)
  BY <1>7, ToolsFail, ToolsWork, Zenon
<1>8. CASE BeginPreview(t) \/ Render(t) BY <1>8, PreviewBegins, Rendered
<1>9. CASE SafetyNet(t) BY <1>9, TheSafetyNet
<1>10. CASE StoreUser(t) BY <1>10, QuestionStored
<1>11. CASE StoreReply(t) BY <1>11, AnswerStored
<1>12. CASE SetConversationTitle(t) BY <1>12, TitleSet
<1> QED
  BY <1>1, <1>2, <1>3, <1>4, <1>5, <1>6, <1>7, <1>8, <1>9, <1>10, <1>11, <1>12, Zenon DEF TurnStep

LEMMA NextIInv == IInv /\ [Next]_vars => IInv'
<1> SUFFICES ASSUME IInv, [Next]_vars PROVE IInv' OBVIOUS
<1>1. CASE \E u \in Users : HandleAssistantNew(u) \/ HandleAssistant(u)
  BY <1>1, Created DEF HandleAssistantNew, HandleAssistant
<1>2. CASE \E u \in Users, c \in ChatIds : HandleAssistantDelete(u, c) BY <1>2, Deleted
<1>3. CASE HandleAISettingsSave BY <1>3, SavesSettings
<1>4. CASE OperatorEdits BY <1>4, EditsAreSeen
<1>5. CASE \E t \in Turns : TurnStep(t) BY <1>5, TurnStepIInv
<1>6. CASE UNCHANGED vars
  <2>1. UNCHANGED <<configured, sound, chats, opened, messages, turn, mixed>> BY <1>6 DEF vars
  <2>2. TypeOK /\ TurnsAreHonest BY DEF IInv
  <2>3. TurnsAreHonest' BY <2>1, <2>2 DEF TurnsAreHonest
  <2>4. Quietly BY <2>1 DEF Quietly, GoesOnQuietly
  <2> QED BY <2>1, <2>2, <2>3, <2>4, Typed, QuietStep
<1> QED BY <1>1, <1>2, <1>3, <1>4, <1>5, <1>6, Zenon DEF Next

-----------------------------------------------------------------------------
(* The theorems.                                                           *)

\* In every reachable state turns claim no more than they know, and the conversations
\* that turns did not share are as far as their turns are.
THEOREM InductiveInvariant == Spec => []IInv
BY InitIInv, NextIInv, PTL DEF Spec

\* The tables and the turns keep their shape: a message belongs to a conversation that
\* exists, and no turn asks the model more often than it may (agent.go:80).
THEOREM TypeCorrect == Spec => []TypeOK
<1>1. IInv => TypeOK BY DEF IInv
<1> QED BY <1>1, InductiveInvariant, PTL

\* However many tools a turn calls and whichever fail, an answer that does not say it
\* changed anything comes from a turn that left the configuration alone (agent.go:113).
THEOREM AnswersTellChanges == Spec => []ChangesAreTold
<1>1. IInv => ChangesAreTold BY DEF IInv
<1> QED BY <1>1, InductiveInvariant, PTL

\* An answer that says changed and valid, while nobody else has edited since the last
\* check began, goes with a configuration that passes; but for a turn whose model asked
\* for a check itself and that changed something with no check after it (agent.go:139).
THEOREM ReadyAnswersWereChecked == Spec => []ReadyWasChecked
<1>1. IInv => ReadyWasChecked BY DEF IInv
<1> QED BY <1>1, InductiveInvariant, PTL

\* The log of a conversation that turns did not share is question and answer in turn,
\* and its title is its first question's (handlers_assistant.go:222).
THEOREM LogsStayTogether == Spec => []TurnsStayTogether
<1>1. IInv => TurnsStayTogether
  BY Zenon DEF IInv, TurnsStayTogether, LogsAlternate, TitlesFollow, LogFine, TitleFine, Alternates
<1> QED BY <1>1, InductiveInvariant, PTL
=============================================================================
