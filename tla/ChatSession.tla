---------------------------- MODULE ChatSession ----------------------------
(***************************************************************************)
(* One chat session of rag-service and the requests that talk in it:       *)
(* StreamChat of internal/logic/chat_logic.go with its limiter and turn    *)
(* cap, StreamAnswer of internal/orchestrator/pipeline.go with its         *)
(* fallbacks, the tables of repo/chat.go, and the events the gateway's     *)
(* handleChatSSE hands to the browser.  Every repository call is a         *)
(* transaction and an action, and so is every event.                       *)
(* A text is the sequence of its pieces; a model that streams nothing may  *)
(* still return a whole answer.  Progress events are left out.             *)
(***************************************************************************)
EXTENDS Integers, FiniteSets, SequencesExt

CONSTANTS
  Chats,       \* requests to StreamChat, each served once
  Users,       \* users of the tenant
  Owner,       \* the user the session belongs to
  MaxTurns,    \* ChatLogic.maxTurns
  PromptRows,  \* rows of the history that a prompt quotes: 6 in the code
  Burst,       \* size of the limiter's bucket
  Earlier,     \* bound: earlier questions, none answered, a session starts with
  MaxRefills,  \* bound: tokens the bucket regains
  MaxPieces,   \* bound: pieces of a streamed answer
  MaxFaults    \* bound: failing calls

\* A request stands for its question, and for the title cut from it; a question
\* that reads like the default title, New Chat, is left out.
ASSUME ChatAssumption ==
  /\ IsFiniteSet(Chats) /\ "default" \notin Chats /\ "earlier" \notin Chats
  /\ Owner \in Users
  /\ MaxTurns \in Nat \ {0} /\ PromptRows \in Nat \ {0} /\ Burst \in Nat \ {0}
  /\ Earlier \in 0..2 * MaxTurns
  /\ MaxRefills \in Nat /\ MaxPieces \in Nat /\ MaxFaults \in Nat

VARIABLES
  session,   \* chat_sessions: existence and title
  messages,  \* chat_messages of the session, in created_at order
  chat,      \* the requests: sender, position and locals
  events,    \* what each request's browser has been sent
  gone,      \* requests whose context is cancelled: the browser has left
  bucket,    \* tokens of the tenant's rate.Limiter; it is created full
  refills, faults,
  crowd      \* history: the most requests that were served at one time

vars == <<session, messages, chat, events, gone, bucket, refills, faults, crowd>>

Fresh(user) ==
  [user |-> user, at |-> "idle", title |-> "default", history |-> <<>>,
   text |-> <<>>, answer |-> <<>>, error |-> FALSE]

Question(c) == [role |-> "user", of |-> c, text |-> <<>>]

\* CreateSession without a title of the user's: New Chat.  Requests that failed
\* behind their question have left it there, and the title as it is.
Init ==
  /\ session = [state |-> "live", title |-> "default"]
  /\ \E n \in 0..Earlier : messages = [i \in 1..n |-> Question("earlier")]
  /\ \E user \in [Chats -> Users] : chat = [c \in Chats |-> Fresh(user[c])]
  /\ events = [c \in Chats |-> <<>>]
  /\ gone = {}
  /\ bucket = Burst /\ refills = 0 /\ faults = 0
  /\ crowd = 0

Pieces == {"piece", "whole", "offtopic", "noresults"}
Message == [role : {"user", "assistant"}, of : Chats \cup {"earlier"}, text : Seq(Pieces)]
Codes == {"empty_message", "rate_limited", "session_limit", "internal"}
Event == [type : {"token"}, text : Seq(Pieces)] \cup [type : {"citations"}]
           \cup [type : {"done"}, reason : {"stop", "error"}]
           \cup [type : {"error"}, code : Codes]
Places == {"idle", "verify", "count", "ask", "history", "retrieve", "guardrail",
           "synthesis", "smalltalk", "citations", "answer", "store", "title",
           "done", "ended"}
Request == [user : Users, at : Places, title : {"default"} \cup Chats,
            history : Seq(Message), text : Seq(Pieces), answer : Seq(Pieces),
            error : BOOLEAN]

\* One type invariant for the tables, the requests and the streams.
TypeOK ==
  /\ session \in [state : {"live", "deleted"}, title : {"default"} \cup Chats]
  /\ messages \in Seq(Message)
  /\ chat \in [Chats -> Request]
  /\ events \in [Chats -> Seq(Event)]
  /\ gone \subseteq Chats
  /\ bucket \in 0..Burst /\ refills \in 0..MaxRefills /\ faults \in 0..MaxFaults
  /\ crowd \in Nat

Live == session.state = "live"
Serving(c) == chat[c].at \notin {"idle", "ended"}
Served == {c \in Chats : Serving(c)}

\* A call fails because its context is cancelled, or for a reason of its own.
Fails(c) == IF c \in gone THEN faults' = faults
                          ELSE faults < MaxFaults /\ faults' = faults + 1
Works(c) == c \notin gone /\ faults' = faults

Goes(c, new) == chat' = [chat EXCEPT ![c] = new]
To(c, place) == Goes(c, [chat[c] EXCEPT !.at = place])
Ends(c) == Goes(c, [Fresh(chat[c].user) EXCEPT !.at = "ended"])
Send(c, event) ==
  events' = IF c \in gone THEN events ELSE [events EXCEPT ![c] = Append(@, event)]

\* The handler returns an error: one that is meant for users becomes an event,
\* another a status, of which the gateway makes an event.
Return(c, code) ==
  /\ Ends(c)
  /\ Send(c, [type |-> "error", code |-> code])

Database == <<session, messages>>
Limiter  == <<bucket, refills>>

(***************************************************************************)
(* The limiter.                                                            *)
(***************************************************************************)
\* Mutant: the question and the answer each take one.
TakeTwo(tokens) == tokens - 2

\* Mutant: every request gets a limiter of its own.
TakeFromNew(tokens) == tokens

Take(tokens) == tokens - 1

Refill ==
  /\ bucket < Burst /\ refills < MaxRefills
  /\ bucket' = bucket + 1 /\ refills' = refills + 1
  /\ UNCHANGED <<Database, chat, events, gone, faults, crowd>>

(***************************************************************************)
(* StreamChat, up to the pipeline.                                         *)
(***************************************************************************)
StartChat(c) ==
  /\ chat[c].at = "idle"
  /\ \/ Return(c, "empty_message") /\ UNCHANGED <<bucket, crowd>>
     \/ bucket = 0 /\ Return(c, "rate_limited") /\ UNCHANGED <<bucket, crowd>>
     \/ /\ bucket > 0 /\ bucket' = Take(bucket) /\ To(c, "verify") /\ UNCHANGED events
        /\ LET served == Cardinality(Served \cup {c})
           IN  crowd' = IF served > crowd THEN served ELSE crowd
  /\ UNCHANGED <<Database, gone, refills, faults>>

\* Mutant: the session of another user of the tenant is found too.
FoundByAnyone(c) == Live

\* A session that is not found is a status like any other for the gateway.
FoundFor(c) == Live /\ chat[c].user = Owner

GetChatSessionByID(c) ==
  /\ chat[c].at = "verify" /\ Works(c)
  /\ IF FoundFor(c)
       THEN Goes(c, [chat[c] EXCEPT !.at = "count", !.title = session.title])
            /\ UNCHANGED events
       ELSE Return(c, "internal")
  /\ UNCHANGED <<Database, gone, Limiter, crowd>>

\* Mutant: off by one.
AboveLimit(existing) == existing > 2 * MaxTurns

LimitReached(existing) == existing >= 2 * MaxTurns

CountChatMessages(c) ==
  /\ chat[c].at = "count" /\ Works(c)
  /\ IF LimitReached(Len(messages)) THEN Return(c, "session_limit")
                                    ELSE To(c, "ask") /\ UNCHANGED events
  /\ UNCHANGED <<Database, gone, Limiter, crowd>>

\* Mutant: nothing refuses a message of a deleted session.
StoredAnyway == TRUE

\* The foreign key of chat_messages.
Storable == Live

AppendChatMessage(c, role, text, then) ==
  /\ Works(c)
  /\ IF Storable
       THEN /\ messages' = Append(messages, [role |-> role, of |-> c, text |-> text])
            /\ To(c, then) /\ UNCHANGED events
       ELSE Return(c, "internal") /\ UNCHANGED messages
  /\ UNCHANGED <<session, gone, Limiter, crowd>>

\* Mutant: the question names the session before it is answered.
PersistAndTitle(c) ==
  /\ chat[c].at = "ask" /\ Works(c) /\ Live
  /\ messages' = Append(messages, Question(c))
  /\ session' = IF chat[c].title = "default" THEN [session EXCEPT !.title = c] ELSE session
  /\ To(c, "history")
  /\ UNCHANGED <<events, gone, Limiter, crowd>>

PersistQuestion(c) ==
  chat[c].at = "ask" /\ AppendChatMessage(c, "user", <<>>, "history")

\* The last n rows.
LastRows(rows, n) ==
  SubSeq(rows, 1 + IF Len(rows) > n THEN Len(rows) - n ELSE 0, Len(rows))

\* LoadRecentChatMessages, the repository's clamp of 50 being above its limit.
Recent(rows) == LastRows(rows, 2 * MaxTurns)

\* The rows but the question itself, which the pipeline gets as the query.
Without(rows, c) ==
  LET own == {i \in DOMAIN rows : rows[i].of = c}
  IN  IF own = {} THEN rows ELSE RemoveAt(rows, CHOOSE i \in own : TRUE)

\* Mutant: the first rows are quoted.
PromptedFirst(rows) ==
  SubSeq(rows, 1, IF Len(rows) > PromptRows THEN PromptRows ELSE Len(rows))

\* What each prompt of the pipeline quotes of the history.
Prompted(rows) == LastRows(rows, PromptRows)

\* The history that is loaded, and cut where a prompt is built from it.
LoadHistory(c) ==
  /\ chat[c].at = "history" /\ Works(c)
  /\ Goes(c, [chat[c] EXCEPT !.at = "retrieve",
                !.history = Prompted(Without(Recent(messages), c))])
  /\ UNCHANGED <<Database, events, gone, Limiter, crowd>>

\* Mutant: a failing insert of the answer is not noticed.
CallFailsEarly(c) ==
  /\ chat[c].at \in {"verify", "count", "ask", "history"}
  /\ Fails(c)
  /\ Return(c, "internal")
  /\ UNCHANGED <<Database, gone, Limiter, crowd>>

\* A repository call fails, up to the insert of the answer.
CallFails(c) ==
  /\ chat[c].at \in {"verify", "count", "ask", "history", "store"}
  /\ Fails(c)
  /\ Return(c, "internal")
  /\ UNCHANGED <<Database, gone, Limiter, crowd>>

(***************************************************************************)
(* StreamAnswer.  The analysis never fails: it falls back to the question. *)
(***************************************************************************)
\* Searches that fail count as searches without a result.
Retrieve(c) ==
  /\ chat[c].at = "retrieve"
  /\ \/ c \notin gone /\ To(c, "synthesis")
     \/ Goes(c, [chat[c] EXCEPT !.at = "guardrail", !.error = TRUE])
  /\ UNCHANGED <<Database, events, gone, Limiter, faults, crowd>>

\* A fallback that answers takes the error of the retrieval back.
ClearError(c, new) == [new EXCEPT !.error = FALSE]

\* Off topic: a fixed answer.  Otherwise, or if the check fails: small talk.
Guardrail(c) ==
  /\ chat[c].at = "guardrail"
  /\ \/ /\ c \notin gone
        /\ Goes(c, ClearError(c, [chat[c] EXCEPT !.at = "citations",
                                                 !.answer = <<"offtopic">>]))
     \/ Goes(c, ClearError(c, [chat[c] EXCEPT !.at = "smalltalk"]))
  /\ UNCHANGED <<Database, events, gone, Limiter, faults, crowd>>

Token(c) ==
  /\ chat[c].at \in {"synthesis", "smalltalk"}
  /\ c \notin gone /\ Len(chat[c].text) < MaxPieces
  /\ Goes(c, [chat[c] EXCEPT !.text = Append(@, "piece")])
  /\ Send(c, [type |-> "token", text |-> <<"piece">>])
  /\ UNCHANGED <<Database, gone, Limiter, faults, crowd>>

Answers(c, answer) == Goes(c, [chat[c] EXCEPT !.at = "citations", !.answer = answer])

\* The stream ends; without pieces the returned content counts.
Synthesis(c) ==
  /\ chat[c].at = "synthesis"
  /\ \/ /\ Works(c) /\ UNCHANGED events
        /\ IF chat[c].text # <<>> THEN Answers(c, chat[c].text)
                                  ELSE \E whole \in {<<>>, <<"whole">>} : Answers(c, whole)
     \/ Fails(c) /\ Return(c, "internal")
  /\ UNCHANGED <<Database, gone, Limiter, crowd>>

\* The fallback answers something in every case.
SmallTalk(c) ==
  /\ chat[c].at = "smalltalk"
  /\ \/ /\ Works(c)
        /\ IF chat[c].text # <<>> THEN Answers(c, chat[c].text)
           ELSE \E whole \in {<<"noresults">>, <<"whole">>} : Answers(c, whole)
     \/ Fails(c) /\ Answers(c, <<"noresults">>)
  /\ UNCHANGED <<Database, events, gone, Limiter, crowd>>

(***************************************************************************)
(* StreamChat, from the citations on.                                      *)
(***************************************************************************)
\* Mutant: no citations event for an answer without a search result.
CitationsIfFound(c) ==
  /\ chat[c].at = "citations"
  /\ To(c, "answer")
  /\ IF chat[c].answer \in {<<"offtopic">>, <<"noresults">>}
       THEN UNCHANGED events ELSE Send(c, [type |-> "citations"])
  /\ UNCHANGED <<Database, gone, Limiter, faults, crowd>>

SendCitations(c) ==
  /\ chat[c].at = "citations"
  /\ IF c \in gone THEN Return(c, "internal")
                   ELSE To(c, "answer") /\ Send(c, [type |-> "citations"])
  /\ UNCHANGED <<Database, gone, Limiter, faults, crowd>>

\* Mutant: what the pipeline returned, also where something else was streamed.
PipelineAnswer(text, answer) == answer

StoredAnswer(text, answer) == IF text # <<>> THEN text ELSE answer

SendAnswer(c) ==
  /\ chat[c].at = "answer"
  /\ LET answer == StoredAnswer(chat[c].text, chat[c].answer)
     IN  IF chat[c].text = <<>> /\ answer # <<>>
           THEN IF c \in gone THEN Return(c, "internal")
                ELSE /\ Goes(c, [chat[c] EXCEPT !.at = "store", !.answer = answer])
                     /\ Send(c, [type |-> "token", text |-> answer])
           ELSE /\ Goes(c, [chat[c] EXCEPT !.at = "store", !.answer = answer])
                /\ UNCHANGED events
  /\ UNCHANGED <<Database, gone, Limiter, faults, crowd>>

\* Mutant: done is on its way before the answer is stored.
DoneAtOnce(c) ==
  /\ chat[c].at = "store" /\ To(c, "done")
  /\ UNCHANGED <<Database, events, gone, Limiter, faults, crowd>>

PersistAnswer(c) ==
  chat[c].at = "store" /\ AppendChatMessage(c, "assistant", chat[c].answer, "title")

Untitled(c) == chat[c].title = "default"

\* An error is logged only.
TouchChatSession(c) ==
  /\ chat[c].at = "title"
  /\ \/ Works(c) /\ session' = IF Live /\ Untitled(c)
                                 THEN [session EXCEPT !.title = c] ELSE session
     \/ Untitled(c) /\ Fails(c) /\ UNCHANGED session
     \/ ~Untitled(c) /\ UNCHANGED <<session, faults>>
  /\ To(c, "done")
  /\ UNCHANGED <<messages, events, gone, Limiter, crowd>>

SendDone(c) ==
  /\ chat[c].at = "done"
  /\ Ends(c)
  /\ Send(c, [type |-> "done", reason |-> IF chat[c].error THEN "error" ELSE "stop"])
  /\ UNCHANGED <<Database, gone, Limiter, faults, crowd>>

(***************************************************************************)
(* The user.                                                               *)
(***************************************************************************)
Leave(c) ==
  /\ Serving(c) /\ c \notin gone
  /\ gone' = gone \cup {c}
  /\ UNCHANGED <<Database, chat, events, Limiter, faults, crowd>>

DeleteSession ==
  /\ Live
  /\ session' = [session EXCEPT !.state = "deleted"]
  /\ messages' = <<>>
  /\ UNCHANGED <<chat, events, gone, Limiter, faults, crowd>>

Serve(c) ==
  \/ GetChatSessionByID(c) \/ CountChatMessages(c) \/ PersistQuestion(c)
  \/ LoadHistory(c) \/ CallFails(c)
  \/ Retrieve(c) \/ Guardrail(c) \/ Token(c) \/ Synthesis(c) \/ SmallTalk(c)
  \/ SendCitations(c) \/ SendAnswer(c) \/ PersistAnswer(c)
  \/ TouchChatSession(c) \/ SendDone(c)

Next ==
  \/ \E c \in Chats : StartChat(c) \/ Serve(c) \/ Leave(c)
  \/ Refill
  \/ DeleteSession

Spec == Init /\ [][Next]_vars

\* A request in progress is served; nobody has to send one.
FairSpec == Spec /\ \A c \in Chats : WF_vars(Serve(c))

(***************************************************************************)
(* What must hold.                                                         *)
(***************************************************************************)
Sent(c, type) == {i \in DOMAIN events[c] : events[c][i].type = type}
Said(c, role) == {i \in DOMAIN messages : messages[i].of = c /\ messages[i].role = role}
Accepted == {c \in Chats : chat[c].at # "idle" /\
               \A i \in Sent(c, "error") :
                 events[c][i].code \notin {"empty_message", "rate_limited"}}

\* The cap, as the comment on it states it: rows are counted before the question
\* is stored "so the cap is never exceeded even by one row".
CapNeverExceeded == Len(messages) <= 2 * MaxTurns

\* By how much it is exceeded: a turn is let in below the cap and stores two
\* rows, so one turn goes one row over, and each turn served beside it two more.
RowsOverCap ==
  Len(messages) <= 2 * MaxTurns + (IF crowd = 0 THEN 0 ELSE 2 * crowd - 1)

\* The text a browser was shown: its token events, one after the other.
Shown(es) ==
  LET shown[k \in 0..Len(es)] ==
        IF k = 0 THEN <<>>
        ELSE IF es[k].type = "token" THEN shown[k - 1] \o es[k].text ELSE shown[k - 1]
  IN  shown[Len(es)]

\* What is stored as the answer is what the browser was sent, also where a
\* stream broke off and the pipeline fell back to a fixed answer.
StoredIsStreamed ==
  \A c \in Chats : \A i \in Said(c, "assistant") : messages[i].text = Shown(events[c])

\* A browser that reads done finds the question and, behind it, its answer,
\* unless the session is deleted; and the turn was no error.
DoneMeansStored ==
  \A c \in Chats : \A i \in Sent(c, "done") :
    /\ events[c][i].reason = "stop"
    /\ Live => \E q \in Said(c, "user"), a \in Said(c, "assistant") : q < a

\* A browser that stays reads exactly one last event, done or error, and the
\* citations exactly once before done.
StreamEndsOnce ==
  \A c \in Chats :
    LET last == Sent(c, "done") \cup Sent(c, "error")
    IN  /\ last \subseteq {Len(events[c])}
        /\ chat[c].at = "ended" /\ c \notin gone => last # {}
        /\ Sent(c, "done") # {} => Cardinality(Sent(c, "citations")) = 1

\* The prompts of a turn quote the rows right before its question: all of them,
\* or the last few, never the question itself, a row left out or one out of order.
\* Turns that overlap are outside: they see rows behind their question, and that
\* of a turn that goes on may push theirs out of what is loaded.
HistoryIsWhole ==
  crowd <= 1 => \A c \in Chats : \A q \in Said(c, "user") :
    chat[c].at \notin {"history", "ended"} =>
      LET n == IF q - 1 < PromptRows THEN q - 1 ELSE PromptRows
      IN  chat[c].history = [i \in 1..n |-> messages[q - 1 - n + i]]

\* Only the owner's questions and their answers are in the session.
OwnerOnly ==
  \A i \in DOMAIN messages : messages[i].of \in Chats => chat[messages[i].of].user = Owner

\* A session without a name takes it from a turn that was answered, never from
\* a question whose answer failed; and from the first one, unless a call of that
\* turn failed or its browser left (an error of TouchChatSession is logged only).
NamedByFirstAnswer ==
  crowd <= 1 /\ Live /\ session.title \in Chats =>
    /\ Said(session.title, "assistant") # {}
    /\ faults = 0 /\ gone = {} =>
         \A i \in Said(session.title, "assistant"), c \in Chats :
           \A j \in Said(c, "assistant") : i <= j

\* Deletion wins over the turns that are still going on.
DeletedIsEmpty == ~Live => messages = <<>>

\* The limiter lets a burst pass, and one request for every token regained.
PaceKept == Cardinality(Accepted) <= Burst + refills

\* A request that was accepted is served to its end.
ChatEnds == \A c \in Chats : Serving(c) ~> chat[c].at = "ended"

\* A turn ends, and its browser is told how: once, and with done only when the
\* question and its answer are stored.
TurnsEnd == [](DoneMeansStored /\ StreamEndsOnce) /\ ChatEnds

\* The conversation is whole: a prompt quotes its end, only its owner takes part,
\* it bears the name of its first answer, and it goes as one.
ConversationIsWhole == HistoryIsWhole /\ OwnerOnly /\ NamedByFirstAnswer /\ DeletedIsEmpty

\* The two limits of a chat: by how much the session's cap is exceeded, however
\* many turns are served at once, and the tenant's pace.
LimitsHold == RowsOverCap /\ PaceKept
=============================================================================
