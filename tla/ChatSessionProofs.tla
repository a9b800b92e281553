------------------------- MODULE ChatSessionProofs -------------------------
(***************************************************************************)
(* Proofs about ChatSession: its type invariant, the two limits, what the  *)
(* conversation is, how the stream of a turn ends, and that the answer     *)
(* that is stored is the one that was streamed.                            *)
(***************************************************************************)
EXTENDS ChatSession, FiniteSetTheorems, SequenceTheorems, NumberInduction

-----------------------------------------------------------------------------
(***************************************************************************)
(* Records: one field changes, the others stay.                            *)
(***************************************************************************)
LEMMA RequestFields ==
  ASSUME NEW r \in Request
  PROVE  /\ r.user \in Users /\ r.at \in Places /\ r.title \in {"default"} \cup Chats
         /\ r.history \in Seq(Message) /\ r.text \in Seq(Pieces)
         /\ r.answer \in Seq(Pieces) /\ r.error \in BOOLEAN
BY DEF Request

LEMMA SetAt ==
  ASSUME NEW r \in Request, NEW p \in Places
  PROVE  LET n == [r EXCEPT !.at = p]
         IN  /\ n \in Request /\ n.at = p /\ n.user = r.user /\ n.title = r.title
             /\ n.history = r.history /\ n.text = r.text /\ n.answer = r.answer
             /\ n.error = r.error
BY DEF Request

LEMMA SetTitle ==
  ASSUME NEW r \in Request, NEW t \in {"default"} \cup Chats
  PROVE  LET n == [r EXCEPT !.title = t]
         IN  /\ n \in Request /\ n.at = r.at /\ n.user = r.user /\ n.title = t
             /\ n.history = r.history /\ n.text = r.text /\ n.answer = r.answer
             /\ n.error = r.error
BY DEF Request

LEMMA SetHistory ==
  ASSUME NEW r \in Request, NEW h \in Seq(Message)
  PROVE  LET n == [r EXCEPT !.history = h]
         IN  /\ n \in Request /\ n.at = r.at /\ n.user = r.user /\ n.title = r.title
             /\ n.history = h /\ n.text = r.text /\ n.answer = r.answer
             /\ n.error = r.error
BY DEF Request

LEMMA SetText ==
  ASSUME NEW r \in Request, NEW x \in Seq(Pieces)
  PROVE  LET n == [r EXCEPT !.text = x]
         IN  /\ n \in Request /\ n.at = r.at /\ n.user = r.user /\ n.title = r.title
             /\ n.history = r.history /\ n.text = x /\ n.answer = r.answer
             /\ n.error = r.error
BY DEF Request

LEMMA SetAnswer ==
  ASSUME NEW r \in Request, NEW x \in Seq(Pieces)
  PROVE  LET n == [r EXCEPT !.answer = x]
         IN  /\ n \in Request /\ n.at = r.at /\ n.user = r.user /\ n.title = r.title
             /\ n.history = r.history /\ n.text = r.text /\ n.answer = x
             /\ n.error = r.error
BY DEF Request

LEMMA SetError ==
  ASSUME NEW r \in Request, NEW b \in BOOLEAN
  PROVE  LET n == [r EXCEPT !.error = b]
         IN  /\ n \in Request /\ n.at = r.at /\ n.user = r.user /\ n.title = r.title
             /\ n.history = r.history /\ n.text = r.text /\ n.answer = r.answer
             /\ n.error = b
BY Zenon DEF Request

LEMMA FreshFields ==
  ASSUME NEW u \in Users
  PROVE  LET n == Fresh(u)
         IN  /\ n \in Request /\ n.at = "idle" /\ n.user = u /\ n.title = "default"
             /\ n.history = <<>> /\ n.text = <<>> /\ n.answer = <<>> /\ n.error = FALSE
BY DEF Fresh, Request, Places

(***************************************************************************)
(* A request goes to a new record, and the others stay where they are.     *)
(***************************************************************************)
LEMMA GoesTo ==
  ASSUME TypeOK, NEW c \in Chats, NEW n \in Request, Goes(c, n)
  PROVE  /\ chat' \in [Chats -> Request]
         /\ chat'[c] = n
         /\ \A d \in Chats : d # c => chat'[d] = chat[d]
BY DEF TypeOK, Goes

LEMMA Sends ==
  ASSUME TypeOK, NEW c \in Chats, NEW e \in Event, Send(c, e)
  PROVE  /\ events' \in [Chats -> Seq(Event)]
         /\ c \in gone => events'[c] = events[c]
         /\ c \notin gone => events'[c] = Append(events[c], e)
         /\ \A d \in Chats : d # c => events'[d] = events[d]
<1>1. events \in [Chats -> Seq(Event)]
  BY DEF TypeOK
<1>2. CASE c \in gone
  BY <1>1, <1>2 DEF Send
<1>3. CASE c \notin gone
  <2> DEFINE es == Append(events[c], e)
  <2>1. es \in Seq(Event)
    BY <1>1
  <2>2. events' = [events EXCEPT ![c] = es]
    BY <1>3 DEF Send
  <2> HIDE DEF es
  <2>3. events' \in [Chats -> Seq(Event)] /\ events'[c] = es
        /\ \A d \in Chats : d # c => events'[d] = events[d]
    BY <1>1, <2>1, <2>2
  <2> QED
    BY <1>3, <2>3 DEF es
<1> QED
  BY <1>2, <1>3

LEMMA EventTypes ==
  /\ \A x \in Codes : [type |-> "error", code |-> x] \in Event
  /\ \A x \in {"stop", "error"} : [type |-> "done", reason |-> x] \in Event
  /\ \A x \in Seq(Pieces) : [type |-> "token", text |-> x] \in Event
  /\ [type |-> "citations"] \in Event
BY DEF Event

-----------------------------------------------------------------------------
(***************************************************************************)
(* The steps of one request, by what they do: the records they leave are   *)
(* well formed, and the other requests are not touched.                    *)
(***************************************************************************)
Answering == {"retrieve", "guardrail", "synthesis", "smalltalk"}
Breakable == Places \ {"idle", "title", "done", "ended"}

Tells(c, e) == IF c \in gone THEN events'[c] = events[c]
                             ELSE events'[c] = Append(events[c], e)
Quiet(c) == events'[c] = events[c]
Over(c) == chat'[c].at = "ended" /\ chat'[c].error = FALSE
Says(c, x) == Tells(c, [type |-> "token", text |-> x])
Wordless(c) == chat'[c].text = chat[c].text /\ chat'[c].answer = chat[c].answer
Passes(c, p, q) ==
  /\ chat[c].at = p /\ chat'[c].at = q
  /\ chat'[c].title = chat[c].title /\ chat'[c].history = chat[c].history
  /\ chat'[c].error = chat[c].error /\ Wordless(c)

Alone(c) ==
  /\ chat' \in [Chats -> Request] /\ events' \in [Chats -> Seq(Event)]
  /\ chat'[c].user = chat[c].user
  /\ \A d \in Chats : d # c => chat'[d] = chat[d] /\ events'[d] = events[d]

Refuses(c) ==
  /\ chat[c].at = "idle" /\ Over(c) /\ UNCHANGED <<Database, Limiter, crowd>>
  /\ \E x \in {"empty_message", "rate_limited"} : Tells(c, [type |-> "error", code |-> x])
Accepts(c) ==
  /\ Passes(c, "idle", "verify") /\ Quiet(c) /\ UNCHANGED <<Database, refills>>
  /\ bucket > 0 /\ bucket' = bucket - 1
  /\ LET served == Cardinality(Served \cup {c})
     IN  crowd' = IF served > crowd THEN served ELSE crowd
Breaks(c) ==
  /\ chat[c].at \in Breakable /\ Over(c) /\ UNCHANGED <<Database, Limiter, crowd>>
  /\ \E x \in {"session_limit", "internal"} :
       Tells(c, [type |-> "error", code |-> x])
Finds(c) ==
  /\ chat[c].at = "verify" /\ chat'[c].at = "count" /\ chat'[c].title = session.title
  /\ chat'[c].error = chat[c].error /\ Wordless(c)
  /\ Live /\ chat[c].user = Owner
  /\ Quiet(c) /\ UNCHANGED <<Database, Limiter, crowd>>
Counts(c) ==
  /\ Passes(c, "count", "ask") /\ Len(messages) < 2 * MaxTurns
  /\ Quiet(c) /\ UNCHANGED <<Database, Limiter, crowd>>
Asks(c) ==
  /\ Passes(c, "ask", "history") /\ Live
  /\ messages' = Append(messages, [role |-> "user", of |-> c, text |-> <<>>])
  /\ Quiet(c) /\ UNCHANGED <<session, Limiter, crowd>>
Loads(c) ==
  /\ chat[c].at = "history" /\ chat'[c].at = "retrieve"
  /\ chat'[c].title = chat[c].title /\ chat'[c].error = chat[c].error
  /\ chat'[c].history = Prompted(Without(Recent(messages), c)) /\ Wordless(c)
  /\ Quiet(c) /\ UNCHANGED <<Database, Limiter, crowd>>
Thinks(c) ==
  /\ chat[c].at \in Answering /\ chat'[c].at \in (Answering \ {"retrieve"}) \cup {"citations"}
  /\ chat'[c].at = "guardrail" => chat[c].at = "retrieve"
  /\ chat'[c].title = chat[c].title /\ chat'[c].history = chat[c].history
  /\ chat'[c].error => \/ chat'[c].at = "guardrail"
                       \/ chat[c].error /\ chat[c].at # "guardrail"
  /\ \/ Quiet(c) /\ chat'[c].text = chat[c].text
     \/ /\ Says(c, <<"piece">>) /\ chat'[c].text = Append(chat[c].text, "piece")
        /\ c \notin gone /\ chat[c].at \in {"synthesis", "smalltalk"}
  /\ UNCHANGED <<Database, Limiter, crowd>>
Cites(c) ==
  /\ Passes(c, "citations", "answer") /\ c \notin gone
  /\ Tells(c, [type |-> "citations"]) /\ UNCHANGED <<Database, Limiter, crowd>>
Shows(c) ==
  LET answer == StoredAnswer(chat[c].text, chat[c].answer)
  IN  /\ chat[c].at = "answer" /\ chat'[c].at = "store"
      /\ chat'[c].title = chat[c].title /\ chat'[c].history = chat[c].history
      /\ chat'[c].error = chat[c].error
      /\ chat'[c].text = chat[c].text /\ chat'[c].answer = answer
      /\ IF chat[c].text = <<>> /\ answer # <<>> THEN c \notin gone /\ Says(c, answer)
                                               ELSE Quiet(c)
      /\ UNCHANGED <<Database, Limiter, crowd>>
Stores(c) ==
  /\ Passes(c, "store", "title") /\ Live
  /\ messages' = Append(messages, [role |-> "assistant", of |-> c, text |-> chat[c].answer])
  /\ Quiet(c) /\ UNCHANGED <<session, Limiter, crowd>>
Titles(c) ==
  /\ Passes(c, "title", "done")
  /\ \/ Live /\ Untitled(c) /\ session' = [session EXCEPT !.title = c]
     \/ session' = session /\ (Live /\ Untitled(c) => c \in gone \/ faults' # 0)
  /\ Quiet(c) /\ UNCHANGED <<messages, Limiter, crowd>>
Finishes(c) ==
  /\ chat[c].at = "done" /\ Over(c)
  /\ Tells(c, [type |-> "done", reason |-> IF chat[c].error THEN "error" ELSE "stop"])
  /\ UNCHANGED <<Database, Limiter, crowd>>

LEMMA SmallTypes ==
  ASSUME TypeOK
  PROVE  /\ bucket \in Nat /\ refills \in Nat /\ faults \in Nat
         /\ \A c \in Chats : /\ chat[c] \in Request /\ chat[c].user \in Users
                             /\ events[c] \in Seq(Event)
BY ChatAssumption DEF TypeOK, Request

\* The record of a request changes, and its browser is told nothing.
LEMMA SilentStep ==
  ASSUME TypeOK, NEW c \in Chats, NEW n \in Request, Goes(c, n), n.user = chat[c].user,
         UNCHANGED events
  PROVE  Alone(c) /\ chat'[c] = n /\ Quiet(c)
<1>1. events' = events /\ events \in [Chats -> Seq(Event)]
  BY DEF TypeOK
<1> QED
  BY <1>1, GoesTo DEF Alone, Quiet

\* The record changes, and its browser gets an event.
LEMMA TellingStep ==
  ASSUME TypeOK, NEW c \in Chats, NEW n \in Request, Goes(c, n), n.user = chat[c].user,
         NEW e \in Event, Send(c, e)
  PROVE  Alone(c) /\ chat'[c] = n /\ Tells(c, e)
BY GoesTo, Sends DEF Alone, Tells

\* A request moves to its next place.
LEMMA ToPlace ==
  ASSUME TypeOK, NEW c \in Chats, NEW p \in Places, To(c, p)
  PROVE  LET n == [chat[c] EXCEPT !.at = p]
         IN  /\ n \in Request /\ Goes(c, n) /\ n.user = chat[c].user /\ n.at = p
             /\ n.title = chat[c].title /\ n.history = chat[c].history
             /\ n.error = chat[c].error /\ n.text = chat[c].text
             /\ n.answer = chat[c].answer
BY SmallTypes, SetAt DEF To

LEMMA EndsAt ==
  ASSUME TypeOK, NEW c \in Chats, Ends(c)
  PROVE  \E n \in Request : /\ Goes(c, n) /\ n.user = chat[c].user /\ n.at = "ended"
                            /\ n.error = FALSE
<1> DEFINE f == Fresh(chat[c].user)
           n == [f EXCEPT !.at = "ended"]
<1>1. f \in Request /\ f.user = chat[c].user /\ f.error = FALSE
  BY SmallTypes, FreshFields
<1>2. Goes(c, n)
  BY DEF Ends
<1> HIDE DEF f
<1>3. n \in Request /\ n.user = f.user /\ n.at = "ended" /\ n.error = f.error
  BY <1>1, SetAt DEF Places
<1> QED
  BY <1>1, <1>2, <1>3

LEMMA Returns ==
  ASSUME TypeOK, NEW c \in Chats, NEW x \in Codes, Return(c, x)
  PROVE  Alone(c) /\ Over(c) /\ Tells(c, [type |-> "error", code |-> x])
<1>1. PICK n \in Request : /\ Goes(c, n) /\ n.user = chat[c].user /\ n.at = "ended"
                           /\ n.error = FALSE
  BY EndsAt DEF Return
<1> DEFINE e == [type |-> "error", code |-> x]
<1>2. Send(c, e) /\ e \in Event
  BY EventTypes DEF Return
<1> HIDE DEF e
<1>3. Alone(c) /\ chat'[c] = n /\ Tells(c, e)
  BY <1>1, <1>2, TellingStep
<1> QED
  BY <1>1, <1>3 DEF Over, e

\* A repository call or a model call that fails.
LEMMA BreakTurn ==
  ASSUME TypeOK, NEW c \in Chats, chat[c].at \in Breakable,
         NEW x \in {"session_limit", "internal"}, Return(c, x),
         UNCHANGED <<Database, Limiter, crowd>>
  PROVE  Alone(c) /\ Breaks(c)
<1>1. Alone(c) /\ Over(c) /\ Tells(c, [type |-> "error", code |-> x])
  BY Returns DEF Codes
<1> QED
  BY <1>1 DEF Breaks

\* A step of a request that only moves on, telling its browser nothing.
LEMMA PassTurn ==
  ASSUME TypeOK, NEW c \in Chats, NEW q \in Places, To(c, q), UNCHANGED events
  PROVE  Alone(c) /\ Passes(c, chat[c].at, q) /\ Quiet(c)
<1> DEFINE n == [chat[c] EXCEPT !.at = q]
<1>1. /\ n \in Request /\ Goes(c, n) /\ n.user = chat[c].user /\ n.at = q
      /\ n.title = chat[c].title /\ n.history = chat[c].history /\ n.error = chat[c].error
      /\ n.text = chat[c].text /\ n.answer = chat[c].answer
  BY ToPlace
<1> HIDE DEF n
<1>2. Alone(c) /\ chat'[c] = n /\ Quiet(c)
  BY <1>1, SilentStep
<1> QED
  BY <1>1, <1>2 DEF Passes, Wordless

\* The same, with an event.
LEMMA PassTelling ==
  ASSUME TypeOK, NEW c \in Chats, NEW q \in Places, To(c, q), NEW e \in Event, Send(c, e)
  PROVE  Alone(c) /\ Passes(c, chat[c].at, q) /\ Tells(c, e)
<1> DEFINE n == [chat[c] EXCEPT !.at = q]
<1>1. /\ n \in Request /\ Goes(c, n) /\ n.user = chat[c].user /\ n.at = q
      /\ n.title = chat[c].title /\ n.history = chat[c].history /\ n.error = chat[c].error
      /\ n.text = chat[c].text /\ n.answer = chat[c].answer
  BY ToPlace
<1> HIDE DEF n
<1>2. Alone(c) /\ chat'[c] = n /\ Tells(c, e)
  BY <1>1, TellingStep
<1> QED
  BY <1>1, <1>2 DEF Passes, Wordless

(***************************************************************************)
(* Every step of a request is one of them.                                 *)
(***************************************************************************)
LEMMA StartTurn ==
  ASSUME TypeOK, NEW c \in Chats, StartChat(c)
  PROVE  Alone(c) /\ (Refuses(c) \/ Accepts(c))
<1>1. chat[c].at = "idle" /\ UNCHANGED <<Database, refills>>
  BY DEF StartChat
<1>2. ASSUME NEW x \in {"empty_message", "rate_limited"}, Return(c, x), UNCHANGED <<bucket, crowd>>
      PROVE  Alone(c) /\ Refuses(c)
  <2>1. Alone(c) /\ Over(c) /\ Tells(c, [type |-> "error", code |-> x])
    BY <1>2, Returns DEF Codes
  <2> QED
    BY <1>1, <1>2, <2>1 DEF Refuses, Limiter
<1>3. CASE /\ bucket > 0 /\ bucket' = Take(bucket) /\ To(c, "verify") /\ UNCHANGED events
           /\ LET served == Cardinality(Served \cup {c})
              IN  crowd' = IF served > crowd THEN served ELSE crowd
  <2>1. "verify" \in Places
    BY DEF Places
  <2>2. Alone(c) /\ Passes(c, chat[c].at, "verify") /\ Quiet(c)
    BY <1>3, <2>1, PassTurn
  <2> QED
    BY <1>1, <1>3, <2>2 DEF Accepts, Take
<1> QED
  BY <1>2, <1>3 DEF StartChat


LEMMA EarlyTurn ==
  ASSUME TypeOK, NEW c \in Chats,
         \/ GetChatSessionByID(c) \/ CountChatMessages(c) \/ PersistQuestion(c) \/ CallFails(c)
  PROVE  Alone(c) /\ (Finds(c) \/ Counts(c) \/ Asks(c) \/ Breaks(c))
<1>0. /\ {"count", "ask", "history"} \subseteq Places
      /\ {"verify", "count", "ask", "history", "store"} \subseteq Breakable
  BY DEF Places, Breakable
<1>1. CASE GetChatSessionByID(c)
  <2>1. UNCHANGED <<Database, Limiter, crowd>> /\ chat[c].at = "verify"
    BY <1>1 DEF GetChatSessionByID
  <2>2. CASE FoundFor(c)
    <3> DEFINE r == [chat[c] EXCEPT !.at = "count"]
               n == [r EXCEPT !.title = session.title]
    <3>1. Goes(c, n) /\ UNCHANGED events
      BY <1>1, <2>2 DEF GetChatSessionByID
    <3>2. session.title \in {"default"} \cup Chats
      BY DEF TypeOK
    <3>3. r \in Request /\ r.at = "count" /\ r.user = chat[c].user /\ r.error = chat[c].error
          /\ r.text = chat[c].text /\ r.answer = chat[c].answer
      BY <1>0, SmallTypes, SetAt
    <3> HIDE DEF r
    <3>4. n \in Request /\ n.at = "count" /\ n.user = chat[c].user
          /\ n.title = session.title /\ n.error = chat[c].error
          /\ n.text = chat[c].text /\ n.answer = chat[c].answer
      BY <3>2, <3>3, SetTitle
    <3> HIDE DEF n
    <3>5. Alone(c) /\ chat'[c] = n /\ Quiet(c)
      BY <3>1, <3>4, SilentStep
    <3> QED
      BY <2>1, <2>2, <3>4, <3>5 DEF Finds, FoundFor, Wordless
  <2>3. CASE ~FoundFor(c)
    BY <1>0, <1>1, <2>1, <2>3, BreakTurn DEF GetChatSessionByID
  <2> QED
    BY <2>2, <2>3
<1>2. CASE CountChatMessages(c)
  <2>1. UNCHANGED <<Database, Limiter, crowd>> /\ chat[c].at = "count"
    BY <1>2 DEF CountChatMessages
  <2>2. CASE LimitReached(Len(messages))
    BY <1>0, <1>2, <2>1, <2>2, BreakTurn DEF CountChatMessages
  <2>3. CASE ~LimitReached(Len(messages))
    <3>1. Len(messages) < 2 * MaxTurns
      BY <2>3, ChatAssumption DEF LimitReached, TypeOK
    <3>2. To(c, "ask") /\ UNCHANGED events
      BY <1>2, <2>3 DEF CountChatMessages
    <3>3. Alone(c) /\ Passes(c, chat[c].at, "ask") /\ Quiet(c)
      BY <1>0, <3>2, PassTurn
    <3> QED
      BY <2>1, <3>1, <3>3 DEF Counts
  <2> QED
    BY <2>2, <2>3
<1>3. CASE PersistQuestion(c)
  <2>1. UNCHANGED <<session, Limiter, crowd>> /\ chat[c].at = "ask"
    BY <1>3 DEF PersistQuestion, AppendChatMessage
  <2>2. CASE ~Live
    <3>1. Return(c, "internal") /\ UNCHANGED messages
      BY <1>3, <2>2 DEF PersistQuestion, AppendChatMessage, Storable
    <3> QED
      BY <1>0, <2>1, <3>1, BreakTurn DEF Database
  <2>3. CASE Live
    <3>1. /\ messages' = Append(messages, [role |-> "user", of |-> c, text |-> <<>>])
          /\ To(c, "history") /\ UNCHANGED events
      BY <1>3, <2>3 DEF PersistQuestion, AppendChatMessage, Storable
    <3>2. Alone(c) /\ Passes(c, chat[c].at, "history") /\ Quiet(c)
      BY <1>0, <3>1, PassTurn
    <3> QED
      BY <2>1, <2>3, <3>1, <3>2 DEF Asks
  <2> QED
    BY <2>2, <2>3
<1>4. CASE CallFails(c)
  BY <1>0, <1>4, BreakTurn DEF CallFails
<1> QED
  BY <1>1, <1>2, <1>3, <1>4

(***************************************************************************)
(* The history is a part of the rows, in their order.                      *)
(***************************************************************************)
LEMMA FirstOfLast ==
  ASSUME NEW n \in Nat, NEW k \in Nat, NEW l \in Nat, l = IF n < k THEN n ELSE k
  PROVE  1 + (IF n > k THEN n - k ELSE 0) = n - l + 1
<1>1. CASE n > k
  BY <1>1
<1>2. CASE ~(n > k)
  <2>1. l = n
    BY <1>2
  <2> QED
    BY <1>2, <2>1
<1> QED
  BY <1>1, <1>2

LEMMA LastRowsAre ==
  ASSUME NEW rows \in Seq(Message), NEW k \in Nat, NEW l \in Nat,
         l = IF Len(rows) < k THEN Len(rows) ELSE k
  PROVE  /\ LastRows(rows, k) \in Seq(Message)
         /\ Len(rows) <= k => LastRows(rows, k) = rows
         /\ LastRows(rows, k) = [i \in 1..l |-> rows[Len(rows) - l + i]]
<1> DEFINE n == Len(rows)
           m == n - l + 1
           s == SubSeq(rows, m, n)
<1>0. n \in Nat
  OBVIOUS
<1>1. LastRows(rows, k) = s
  <2>1. 1 + (IF n > k THEN n - k ELSE 0) = m
    BY <1>0, FirstOfLast
  <2>2. LastRows(rows, k) = SubSeq(rows, 1 + (IF n > k THEN n - k ELSE 0), n)
    BY DEF LastRows
  <2> HIDE DEF m
  <2> QED
    BY <2>1, <2>2
<1>2. m \in Int /\ m >= 1 /\ (n <= k => m = 1) /\ n - m + 1 = l
  BY <1>0
<1>3. \A i \in m..n : rows[i] \in Message
  BY <1>0, <1>2
<1>4. /\ s \in Seq(Message) /\ Len(s) = l
      /\ \A i \in 1..l : s[i] = rows[m + i - 1]
  <2>1. (IF m <= n THEN n - m + 1 ELSE 0) = l
    BY <1>0, <1>2
  <2> HIDE DEF m
  <2> QED
    BY <1>0, <1>2, <1>3, <2>1, SubSeqProperties
<1>5. n <= k => s = rows
  BY <1>2, SubSeqFull
<1>6. s = [i \in 1..l |-> rows[n - l + i]]
  <2>1. \A i \in 1..l : m + i - 1 = n - l + i
    BY <1>0
  <2>2. \A i \in 1..l : s[i] = rows[n - l + i]
    BY <1>4, <2>1
  <2> HIDE DEF s
  <2>3. s = [i \in 1..l |-> s[i]]
    BY <1>4
  <2> QED
    BY <2>2, <2>3
<1> QED
  BY <1>1, <1>4, <1>5, <1>6

LEMMA RecentRows ==
  ASSUME NEW rows \in Seq(Message)
  PROVE  /\ Recent(rows) \in Seq(Message) /\ Prompted(rows) \in Seq(Message)
         /\ Len(rows) <= 2 * MaxTurns => Recent(rows) = rows
<1>1. 2 * MaxTurns \in Nat /\ PromptRows \in Nat /\ Len(rows) \in Nat
  BY ChatAssumption
<1>2. ASSUME NEW k \in Nat
      PROVE  LastRows(rows, k) \in Seq(Message) /\ (Len(rows) <= k => LastRows(rows, k) = rows)
  <2> DEFINE l == IF Len(rows) < k THEN Len(rows) ELSE k
  <2>1. l \in Nat
    BY <1>1
  <2> QED
    BY <2>1, LastRowsAre
<1> QED
  BY <1>1, <1>2 DEF Recent, Prompted

LEMMA WithoutRows ==
  ASSUME NEW rows \in Seq(Message), NEW c \in Chats
  PROVE  Without(rows, c) \in Seq(Message)
<1> DEFINE own == {i \in DOMAIN rows : rows[i].of = c}
<1>1. CASE own = {}
  BY <1>1 DEF Without
<1>2. CASE own # {}
  <2> DEFINE k == CHOOSE i \in own : TRUE
  <2>1. k \in 1..Len(rows)
    BY <1>2
  <2>2. Without(rows, c) = SubSeq(rows, 1, k - 1) \o SubSeq(rows, k + 1, Len(rows))
    BY <1>2 DEF Without, RemoveAt
  <2> HIDE DEF k
  <2>3. SubSeq(rows, 1, k - 1) \in Seq(Message) /\ SubSeq(rows, k + 1, Len(rows)) \in Seq(Message)
    BY <2>1, SubSeqProperties
  <2> QED
    BY <2>2, <2>3, ConcatProperties
<1> QED
  BY <1>1, <1>2

LEMMA HistoryTurn ==
  ASSUME TypeOK, NEW c \in Chats, LoadHistory(c)
  PROVE  Alone(c) /\ Loads(c)
<1> DEFINE h == Prompted(Without(Recent(messages), c))
           r == [chat[c] EXCEPT !.at = "retrieve"]
           n == [r EXCEPT !.history = h]
<1>1. Goes(c, n) /\ UNCHANGED <<events, Database, Limiter, crowd>> /\ chat[c].at = "history"
  BY DEF LoadHistory
<1>2. h \in Seq(Message)
  BY RecentRows, WithoutRows DEF TypeOK
<1>3. "retrieve" \in Places
  BY DEF Places
<1> HIDE DEF h
<1>4. /\ r \in Request /\ r.at = "retrieve" /\ r.user = chat[c].user
      /\ r.title = chat[c].title /\ r.error = chat[c].error
      /\ r.text = chat[c].text /\ r.answer = chat[c].answer
  BY <1>3, SmallTypes, SetAt
<1> HIDE DEF r
<1>5. /\ n \in Request /\ n.at = "retrieve" /\ n.user = chat[c].user /\ n.history = h
      /\ n.title = chat[c].title /\ n.error = chat[c].error
      /\ n.text = chat[c].text /\ n.answer = chat[c].answer
  BY <1>2, <1>4, SetHistory
<1> HIDE DEF n
<1>6. Alone(c) /\ chat'[c] = n /\ Quiet(c)
  BY <1>1, <1>5, SilentStep
<1> QED
  BY <1>1, <1>5, <1>6 DEF Loads, Wordless, h

\* What a step of the pipeline needs to be one that only thinks.
LEMMA ThinkTurn ==
  ASSUME TypeOK, NEW c \in Chats, NEW n \in Request, Goes(c, n), UNCHANGED events,
         n.user = chat[c].user, n.title = chat[c].title, n.history = chat[c].history,
         n.text = chat[c].text, chat[c].at \in Answering,
         n.at \in (Answering \ {"retrieve"}) \cup {"citations"},
         n.at = "guardrail" => chat[c].at = "retrieve",
         n.error => n.at = "guardrail" \/ (chat[c].error /\ chat[c].at # "guardrail"),
         UNCHANGED <<Database, Limiter, crowd>>
  PROVE  Alone(c) /\ Thinks(c)
<1>1. Alone(c) /\ chat'[c] = n /\ Quiet(c)
  BY SilentStep
<1> QED
  BY <1>1 DEF Thinks

LEMMA SearchTurn ==
  ASSUME TypeOK, NEW c \in Chats, Retrieve(c)
  PROVE  Alone(c) /\ Thinks(c)
<1> DEFINE r == [chat[c] EXCEPT !.at = "guardrail"]
           n == [r EXCEPT !.error = TRUE]
<1>1. UNCHANGED <<events, Database, Limiter, crowd>> /\ chat[c].at = "retrieve"
  BY DEF Retrieve
<1>2. {"synthesis", "guardrail"} \subseteq Places /\ "retrieve" \in Answering
      /\ {"synthesis", "guardrail"} \subseteq (Answering \ {"retrieve"}) \cup {"citations"}
  BY DEF Places, Answering
<1>3. CASE To(c, "synthesis")
  <2> DEFINE m == [chat[c] EXCEPT !.at = "synthesis"]
  <2>1. /\ m \in Request /\ Goes(c, m) /\ m.user = chat[c].user /\ m.at = "synthesis"
        /\ m.title = chat[c].title /\ m.history = chat[c].history
        /\ m.error = chat[c].error /\ m.text = chat[c].text
    BY <1>2, <1>3, ToPlace
  <2> HIDE DEF m
  <2>2. chat[c].at \in Answering /\ chat[c].at # "guardrail" /\ m.at # "guardrail"
        /\ m.at \in (Answering \ {"retrieve"}) \cup {"citations"}
    BY <1>1, <1>2, <2>1
  <2> QED
    BY <1>1, <2>1, <2>2, ThinkTurn
<1>4. CASE Goes(c, n)
  <2>1. /\ r \in Request /\ r.at = "guardrail" /\ r.user = chat[c].user
        /\ r.title = chat[c].title /\ r.history = chat[c].history /\ r.text = chat[c].text
    BY <1>2, SmallTypes, SetAt
  <2> HIDE DEF r
  <2>2. /\ n \in Request /\ n.at = "guardrail" /\ n.user = chat[c].user
        /\ n.title = chat[c].title /\ n.history = chat[c].history /\ n.text = chat[c].text
    BY <2>1, SetError
  <2> HIDE DEF n
  <2>3. chat[c].at \in Answering /\ n.at \in (Answering \ {"retrieve"}) \cup {"citations"}
    BY <1>1, <1>2, <2>2
  <2> QED
    BY <1>1, <1>4, <2>2, <2>3, ThinkTurn
<1> QED
  BY <1>3, <1>4 DEF Retrieve

LEMMA TextTypes ==
  /\ <<"piece">> \in Seq(Pieces) /\ <<"whole">> \in Seq(Pieces)
  /\ <<"offtopic">> \in Seq(Pieces) /\ <<"noresults">> \in Seq(Pieces)
  /\ <<>> \in Seq(Pieces)
BY DEF Pieces

LEMMA GuardTurn ==
  ASSUME TypeOK, NEW c \in Chats, Guardrail(c)
  PROVE  Alone(c) /\ Thinks(c)
<1>1. UNCHANGED <<events, Database, Limiter, crowd>> /\ chat[c].at = "guardrail"
  BY DEF Guardrail
<1>2. {"citations", "smalltalk"} \subseteq Places /\ "guardrail" \in Answering
      /\ {"citations", "smalltalk"} \subseteq (Answering \ {"retrieve"}) \cup {"citations"}
  BY DEF Places, Answering
<1>3. CASE Goes(c, ClearError(c, [chat[c] EXCEPT !.at = "citations", !.answer = <<"offtopic">>]))
  <2> DEFINE r == [chat[c] EXCEPT !.at = "citations"]
             m == [r EXCEPT !.answer = <<"offtopic">>]
             n == [m EXCEPT !.error = FALSE]
  <2>0. Goes(c, n)
    BY <1>3 DEF ClearError
  <2>1. /\ r \in Request /\ r.at = "citations" /\ r.user = chat[c].user
        /\ r.title = chat[c].title /\ r.history = chat[c].history /\ r.text = chat[c].text
    BY <1>2, SmallTypes, SetAt
  <2> HIDE DEF r
  <2>2. /\ m \in Request /\ m.at = "citations" /\ m.user = chat[c].user
        /\ m.title = chat[c].title /\ m.history = chat[c].history /\ m.text = chat[c].text
    BY <2>1, SetAnswer, TextTypes
  <2> HIDE DEF m
  <2>3. /\ n \in Request /\ n.at = "citations" /\ n.user = chat[c].user /\ ~n.error
        /\ n.title = chat[c].title /\ n.history = chat[c].history /\ n.text = chat[c].text
    BY <2>2, SetError
  <2> HIDE DEF n
  <2>4. chat[c].at \in Answering /\ n.at \in (Answering \ {"retrieve"}) \cup {"citations"}
        /\ n.at # "guardrail"
    BY <1>1, <1>2, <2>3
  <2> QED
    BY <1>1, <2>0, <2>3, <2>4, ThinkTurn
<1>4. CASE Goes(c, ClearError(c, [chat[c] EXCEPT !.at = "smalltalk"]))
  <2> DEFINE r == [chat[c] EXCEPT !.at = "smalltalk"]
             n == [r EXCEPT !.error = FALSE]
  <2>0. Goes(c, n)
    BY <1>4 DEF ClearError
  <2>1. /\ r \in Request /\ r.at = "smalltalk" /\ r.user = chat[c].user
        /\ r.title = chat[c].title /\ r.history = chat[c].history /\ r.text = chat[c].text
    BY <1>2, SmallTypes, SetAt
  <2> HIDE DEF r
  <2>2. /\ n \in Request /\ n.at = "smalltalk" /\ n.user = chat[c].user /\ ~n.error
        /\ n.title = chat[c].title /\ n.history = chat[c].history /\ n.text = chat[c].text
    BY <2>1, SetError
  <2> HIDE DEF n
  <2>3. chat[c].at \in Answering /\ n.at \in (Answering \ {"retrieve"}) \cup {"citations"}
        /\ n.at # "guardrail"
    BY <1>1, <1>2, <2>2
  <2> QED
    BY <1>1, <2>0, <2>2, <2>3, ThinkTurn
<1> QED
  BY <1>3, <1>4 DEF Guardrail

LEMMA TokenTurn ==
  ASSUME TypeOK, NEW c \in Chats, Token(c)
  PROVE  Alone(c) /\ Thinks(c)
<1> DEFINE x == Append(chat[c].text, "piece")
           n == [chat[c] EXCEPT !.text = x]
           e == [type |-> "token", text |-> <<"piece">>]
<1>1. /\ UNCHANGED <<Database, Limiter, crowd>> /\ c \notin gone
      /\ chat[c].at \in {"synthesis", "smalltalk"} /\ Goes(c, n) /\ Send(c, e)
  BY DEF Token
<1>2. x \in Seq(Pieces)
  <2>1. chat[c].text \in Seq(Pieces) /\ "piece" \in Pieces
    BY SmallTypes, RequestFields DEF Pieces
  <2> QED
    BY <2>1
<1>3. e \in Event
  BY EventTypes, TextTypes
<1> HIDE DEF x, e
<1>4. /\ n \in Request /\ n.at = chat[c].at /\ n.user = chat[c].user /\ n.text = x
      /\ n.title = chat[c].title /\ n.history = chat[c].history /\ n.error = chat[c].error
  BY <1>2, SmallTypes, SetText
<1> HIDE DEF n
<1>5. Alone(c) /\ chat'[c] = n /\ Tells(c, e)
  BY <1>1, <1>3, <1>4, TellingStep
<1> QED
  BY <1>1, <1>4, <1>5 DEF Thinks, Says, Answering, x, e

\* The end of a model's stream.
LEMMA AnswersTurn ==
  ASSUME TypeOK, NEW c \in Chats, chat[c].at \in {"synthesis", "smalltalk"},
         NEW x \in Seq(Pieces), Answers(c, x), UNCHANGED <<events, Database, Limiter, crowd>>
  PROVE  Alone(c) /\ Thinks(c)
<1> DEFINE r == [chat[c] EXCEPT !.at = "citations"]
           n == [r EXCEPT !.answer = x]
<1>1. Goes(c, n) /\ "citations" \in Places
  BY DEF Answers, Places
<1>2. /\ r \in Request /\ r.at = "citations" /\ r.user = chat[c].user /\ r.text = chat[c].text
      /\ r.title = chat[c].title /\ r.history = chat[c].history /\ r.error = chat[c].error
  BY <1>1, SmallTypes, SetAt
<1> HIDE DEF r
<1>3. /\ n \in Request /\ n.at = "citations" /\ n.user = chat[c].user /\ n.text = chat[c].text
      /\ n.title = chat[c].title /\ n.history = chat[c].history /\ n.error = chat[c].error
  BY <1>2, SetAnswer
<1> HIDE DEF n
<1>4. chat[c].at \in Answering /\ chat[c].at # "guardrail" /\ n.at # "guardrail"
      /\ n.at \in (Answering \ {"retrieve"}) \cup {"citations"}
  BY <1>3 DEF Answering
<1> QED
  BY <1>1, <1>3, <1>4, ThinkTurn

LEMMA StreamTurn ==
  ASSUME TypeOK, NEW c \in Chats, Synthesis(c) \/ SmallTalk(c)
  PROVE  Alone(c) /\ (Thinks(c) \/ Breaks(c))
<1>1. UNCHANGED <<Database, Limiter, crowd>> /\ chat[c].at \in {"synthesis", "smalltalk"}
  BY DEF Synthesis, SmallTalk
<1>2. chat[c].text \in Seq(Pieces)
  BY SmallTypes, RequestFields
<1>3. CASE Return(c, "internal")
  <2>1. chat[c].at \in Breakable
    BY <1>1 DEF Breakable, Places
  <2> QED
    BY <1>1, <1>3, <2>1, BreakTurn
<1>4. CASE UNCHANGED events /\ \E x \in {chat[c].text, <<>>, <<"whole">>, <<"noresults">>} : Answers(c, x)
  BY <1>1, <1>2, <1>4, AnswersTurn, TextTypes
<1> QED
  BY <1>3, <1>4 DEF Synthesis, SmallTalk

LEMMA LateTurn ==
  ASSUME TypeOK, NEW c \in Chats, SendCitations(c) \/ SendAnswer(c) \/ PersistAnswer(c)
  PROVE  Alone(c) /\ (Cites(c) \/ Shows(c) \/ Stores(c) \/ Breaks(c))
<1>0. {"answer", "store", "title"} \subseteq Places
      /\ {"citations", "answer", "store"} \subseteq Breakable
  BY DEF Places, Breakable
<1>1. CASE SendCitations(c)
  <2>1. UNCHANGED <<Database, Limiter, crowd>> /\ chat[c].at = "citations"
    BY <1>1 DEF SendCitations
  <2>2. CASE c \in gone
    BY <1>0, <1>1, <2>1, <2>2, BreakTurn DEF SendCitations
  <2>3. CASE c \notin gone
    <3>1. To(c, "answer") /\ Send(c, [type |-> "citations"])
      BY <1>1, <2>3 DEF SendCitations
    <3>2. Alone(c) /\ Passes(c, chat[c].at, "answer") /\ Tells(c, [type |-> "citations"])
      BY <1>0, <3>1, EventTypes, PassTelling
    <3> QED
      BY <2>1, <2>3, <3>2 DEF Cites
  <2> QED
    BY <2>2, <2>3
<1>2. CASE SendAnswer(c)
  <2> DEFINE answer == StoredAnswer(chat[c].text, chat[c].answer)
             r == [chat[c] EXCEPT !.at = "store"]
             n == [r EXCEPT !.answer = answer]
             e == [type |-> "token", text |-> answer]
  <2>1. UNCHANGED <<Database, Limiter, crowd>> /\ chat[c].at = "answer"
    BY <1>2 DEF SendAnswer
  <2>2. answer \in Seq(Pieces)
    BY SmallTypes, RequestFields DEF StoredAnswer
  <2>3. IF chat[c].text = <<>> /\ answer # <<>>
          THEN IF c \in gone THEN Return(c, "internal") ELSE Goes(c, n) /\ Send(c, e)
          ELSE Goes(c, n) /\ UNCHANGED events
    BY <1>2 DEF SendAnswer
  <2>4. e \in Event
    BY <2>2, EventTypes
  <2> HIDE DEF answer
  <2>5. /\ r \in Request /\ r.at = "store" /\ r.user = chat[c].user /\ r.text = chat[c].text
        /\ r.title = chat[c].title /\ r.history = chat[c].history /\ r.error = chat[c].error
    BY <1>0, SmallTypes, SetAt
  <2> HIDE DEF r
  <2>6. /\ n \in Request /\ n.at = "store" /\ n.user = chat[c].user /\ n.text = chat[c].text
        /\ n.title = chat[c].title /\ n.history = chat[c].history /\ n.error = chat[c].error
        /\ n.answer = answer
    BY <2>2, <2>5, SetAnswer
  <2> HIDE DEF n, e
  <2>7. CASE chat[c].text = <<>> /\ answer # <<>> /\ c \in gone
    BY <1>0, <2>1, <2>3, <2>7, BreakTurn
  <2>8. CASE chat[c].text = <<>> /\ answer # <<>> /\ c \notin gone
    <3>1. Alone(c) /\ chat'[c] = n /\ Tells(c, e)
      BY <2>3, <2>4, <2>6, <2>8, TellingStep
    <3> QED
      BY <2>1, <2>6, <2>8, <3>1 DEF Shows, Says, answer, e
  <2>9. CASE ~(chat[c].text = <<>> /\ answer # <<>>)
    <3>1. Alone(c) /\ chat'[c] = n /\ Quiet(c)
      BY <2>3, <2>6, <2>9, SilentStep
    <3> QED
      BY <2>1, <2>6, <2>9, <3>1 DEF Shows, answer
  <2> QED
    BY <2>7, <2>8, <2>9
<1>3. CASE PersistAnswer(c)
  <2>1. UNCHANGED <<session, Limiter, crowd>> /\ chat[c].at = "store"
    BY <1>3 DEF PersistAnswer, AppendChatMessage
  <2>2. CASE ~Live
    <3>1. Return(c, "internal") /\ UNCHANGED messages
      BY <1>3, <2>2 DEF PersistAnswer, AppendChatMessage, Storable
    <3> QED
      BY <1>0, <2>1, <3>1, BreakTurn DEF Database
  <2>3. CASE Live
    <3>1. /\ messages' = Append(messages, [role |-> "assistant", of |-> c,
                                           text |-> chat[c].answer])
          /\ To(c, "title") /\ UNCHANGED events
      BY <1>3, <2>3 DEF PersistAnswer, AppendChatMessage, Storable
    <3>2. Alone(c) /\ Passes(c, chat[c].at, "title") /\ Quiet(c)
      BY <1>0, <3>1, PassTurn
    <3> QED
      BY <2>1, <2>3, <3>1, <3>2 DEF Stores
  <2> QED
    BY <2>2, <2>3
<1> QED
  BY <1>1, <1>2, <1>3

LEMMA LastTurn ==
  ASSUME TypeOK, NEW c \in Chats, TouchChatSession(c) \/ SendDone(c)
  PROVE  Alone(c) /\ (Titles(c) \/ Finishes(c))
<1>1. CASE TouchChatSession(c)
  <2>1. UNCHANGED <<messages, Limiter, crowd>> /\ chat[c].at = "title"
        /\ To(c, "done") /\ UNCHANGED events
    BY <1>1 DEF TouchChatSession
  <2>2. Alone(c) /\ Passes(c, chat[c].at, "done") /\ Quiet(c)
    BY <2>1, PassTurn DEF Places
  <2>3. Fails(c) => c \in gone \/ faults' # 0
    BY SmallTypes DEF Fails
  <2>4. \/ Live /\ Untitled(c) /\ session' = [session EXCEPT !.title = c]
        \/ session' = session /\ (Live /\ Untitled(c) => c \in gone \/ faults' # 0)
    BY <1>1, <2>3 DEF TouchChatSession
  <2> QED
    BY <2>1, <2>2, <2>4 DEF Titles
<1>2. CASE SendDone(c)
  <2> DEFINE x == IF chat[c].error THEN "error" ELSE "stop"
             e == [type |-> "done", reason |-> x]
  <2>1. UNCHANGED <<Database, Limiter, crowd>> /\ chat[c].at = "done" /\ Ends(c) /\ Send(c, e)
    BY <1>2 DEF SendDone, Limiter
  <2>2. x \in {"stop", "error"}
    OBVIOUS
  <2> HIDE DEF x
  <2>3. e \in Event
    BY <2>2, EventTypes
  <2> HIDE DEF e
  <2>4. PICK n \in Request : /\ Goes(c, n) /\ n.user = chat[c].user /\ n.at = "ended"
                             /\ n.error = FALSE
    BY <2>1, EndsAt
  <2>5. Alone(c) /\ chat'[c] = n /\ Tells(c, e)
    BY <2>1, <2>3, <2>4, TellingStep
  <2> QED
    BY <2>1, <2>4, <2>5 DEF Finishes, Over, e, x
<1> QED
  BY <1>1, <1>2

(***************************************************************************)
(* Every step of the system: a turn of one request, or what happens beside *)
(* the requests.                                                           *)
(***************************************************************************)
Starts(c) == Refuses(c) \/ Accepts(c)
GoesOn(c) ==
  \/ Breaks(c) \/ Finds(c) \/ Counts(c) \/ Asks(c)
  \/ Loads(c) \/ Thinks(c) \/ Cites(c) \/ Shows(c) \/ Stores(c) \/ Titles(c)
  \/ Finishes(c)

Leaves ==
  /\ UNCHANGED <<Database, chat, events, Limiter, faults, crowd>>
  /\ \E c \in Chats : Serving(c) /\ gone' = gone \cup {c}
Deletes ==
  /\ Live /\ session' = [session EXCEPT !.state = "deleted"] /\ messages' = <<>>
  /\ UNCHANGED <<chat, events, gone, Limiter, faults, crowd>>
Regains ==
  /\ bucket < Burst /\ refills < MaxRefills
  /\ bucket' = bucket + 1 /\ refills' = refills + 1
  /\ UNCHANGED <<Database, chat, events, gone, faults, crowd>>

LEMMA StepKinds ==
  ASSUME TypeOK, [Next]_vars
  PROVE  \/ \E c \in Chats : /\ Alone(c) /\ (Starts(c) \/ GoesOn(c)) /\ gone' = gone
                             /\ faults' \in 0..MaxFaults /\ faults' >= faults
         \/ Leaves \/ Deletes \/ Regains \/ UNCHANGED vars
<1>1. CASE UNCHANGED vars
  BY <1>1
<1>2. CASE Refill
  BY <1>2 DEF Refill, Regains
<1>3. CASE DeleteSession
  BY <1>3 DEF DeleteSession, Deletes
<1>4. ASSUME NEW c \in Chats, Leave(c) PROVE Leaves
  BY <1>4 DEF Leave, Leaves
<1>5. ASSUME NEW c \in Chats, StartChat(c)
      PROVE  /\ Alone(c) /\ Starts(c) /\ gone' = gone
             /\ faults' \in 0..MaxFaults /\ faults' >= faults
  <2>1. gone' = gone /\ faults' = faults
    BY <1>5 DEF StartChat
  <2>2. faults' \in 0..MaxFaults /\ faults' >= faults
    BY <2>1, SmallTypes DEF TypeOK
  <2> QED
    BY <1>5, <2>1, <2>2, StartTurn DEF Starts
<1>6. ASSUME NEW c \in Chats, Serve(c)
      PROVE  /\ Alone(c) /\ GoesOn(c) /\ gone' = gone
             /\ faults' \in 0..MaxFaults /\ faults' >= faults
  <2>1. gone' = gone
    BY <1>6 DEF Serve, GetChatSessionByID, CountChatMessages, PersistQuestion, LoadHistory,
         CallFails, Retrieve, Guardrail, Token, Synthesis, SmallTalk, SendCitations,
         SendAnswer, PersistAnswer, TouchChatSession, SendDone, AppendChatMessage
  <2>2. faults' = faults \/ Fails(c)
    BY <1>6 DEF Serve, GetChatSessionByID, CountChatMessages, PersistQuestion, LoadHistory,
         CallFails, Retrieve, Guardrail, Token, Synthesis, SmallTalk, SendCitations,
         SendAnswer, PersistAnswer, TouchChatSession, SendDone, AppendChatMessage, Works
  <2>3. faults' \in 0..MaxFaults /\ faults' >= faults
    BY <2>2, SmallTypes, ChatAssumption DEF TypeOK, Fails
  <2>4. Alone(c) /\ GoesOn(c)
    BY <1>6, EarlyTurn, HistoryTurn, SearchTurn, GuardTurn, TokenTurn, StreamTurn, LateTurn,
       LastTurn DEF Serve, GoesOn
  <2> QED
    BY <2>1, <2>3, <2>4
<1> QED
  BY <1>1, <1>2, <1>3, <1>4, <1>5, <1>6 DEF Next

-----------------------------------------------------------------------------
LEMMA RowTypes ==
  /\ \A c \in Chats : [role |-> "user", of |-> c, text |-> <<>>] \in Message
  /\ \A c \in Chats, x \in Seq(Pieces) : [role |-> "assistant", of |-> c, text |-> x] \in Message
  /\ Question("earlier") \in Message
BY DEF Message, Question

\* The rows the session starts with.
LEMMA InitRows ==
  ASSUME Init
  PROVE  /\ messages \in Seq(Message) /\ Len(messages) <= 2 * MaxTurns
         /\ \A i \in DOMAIN messages : messages[i].of = "earlier"
         /\ \A c \in Chats, role \in {"user", "assistant"} : Said(c, role) = {}
<1>1. PICK n \in 0..Earlier : messages = [i \in 1..n |-> Question("earlier")]
  BY DEF Init
<1>2. n \in Nat /\ n <= 2 * MaxTurns
  BY ChatAssumption
<1>3. messages \in Seq(Message) /\ Len(messages) = n
  BY <1>1, <1>2, RowTypes
<1>4. \A i \in DOMAIN messages : messages[i].of = "earlier"
  BY <1>1 DEF Question
<1> QED
  BY <1>2, <1>3, <1>4, ChatAssumption DEF Said

LEMMA InitTypeOK == ASSUME Init PROVE TypeOK
<1>1. PICK user \in [Chats -> Users] : chat = [c \in Chats |-> Fresh(user[c])]
  BY DEF Init
<1>2. chat \in [Chats -> Request]
  <2>1. \A c \in Chats : Fresh(user[c]) \in Request
    BY FreshFields
  <2> QED
    BY <1>1, <2>1
<1>3. /\ session = [state |-> "live", title |-> "default"]
      /\ events = [c \in Chats |-> <<>>] /\ gone = {} /\ crowd = 0
  BY DEF Init
<1>4. bucket \in 0..Burst /\ refills \in 0..MaxRefills /\ faults \in 0..MaxFaults
  BY ChatAssumption DEF Init
<1>5. session \in [state : {"live", "deleted"}, title : {"default"} \cup Chats]
  BY <1>3
<1>6. messages \in Seq(Message)
  BY InitRows
<1>7. events \in [Chats -> Seq(Event)]
  <2>1. <<>> \in Seq(Event)
    OBVIOUS
  <2> QED
    BY <1>3, <2>1
<1> QED
  BY <1>2, <1>3, <1>4, <1>5, <1>6, <1>7 DEF TypeOK

\* How many requests are served at once, before and with one more.
LEMMA ServedCount ==
  ASSUME NEW c \in Chats
  PROVE  /\ IsFiniteSet(Served) /\ Cardinality(Served) \in Nat
         /\ IsFiniteSet(Served \cup {c}) /\ Cardinality(Served \cup {c}) \in Nat
<1>1. Served \subseteq Chats /\ Served \cup {c} \subseteq Chats
  BY DEF Served
<1> QED
  BY <1>1, ChatAssumption, FS_Subset, FS_CardinalityType

LEMMA NextTypeOK == ASSUME TypeOK, [Next]_vars PROVE TypeOK'
<1>1. ASSUME NEW c \in Chats, Alone(c), Starts(c) \/ GoesOn(c), gone' = gone,
             faults' \in 0..MaxFaults
      PROVE  TypeOK'
  <2>1. chat' \in [Chats -> Request] /\ events' \in [Chats -> Seq(Event)]
    BY <1>1 DEF Alone
  <2>2. session' \in [state : {"live", "deleted"}, title : {"default"} \cup Chats]
    <3>1. session' = session \/ session' = [session EXCEPT !.title = c]
      BY <1>1 DEF Starts, GoesOn, Refuses, Accepts, Breaks, Finds, Counts, Asks, Loads,
         Thinks, Cites, Shows, Stores, Titles, Finishes, Database
    <3> QED
      BY <3>1 DEF TypeOK
  <2>3. messages' \in Seq(Message)
    <3>1. \/ messages' = messages
          \/ messages' = Append(messages, [role |-> "user", of |-> c, text |-> <<>>])
          \/ messages' = Append(messages, [role |-> "assistant", of |-> c,
                                           text |-> chat[c].answer])
      BY <1>1 DEF Starts, GoesOn, Refuses, Accepts, Breaks, Finds, Counts, Asks, Loads,
         Thinks, Cites, Shows, Stores, Titles, Finishes, Database
    <3>2. chat[c].answer \in Seq(Pieces)
      BY SmallTypes, RequestFields
    <3>3. ASSUME NEW m \in Message PROVE Append(messages, m) \in Seq(Message)
      BY <3>3 DEF TypeOK
    <3> QED
      BY <3>1, <3>2, <3>3, RowTypes DEF TypeOK
  <2>4. bucket' \in 0..Burst /\ refills' = refills
    <3>1. UNCHANGED Limiter \/ (bucket > 0 /\ bucket' = bucket - 1 /\ refills' = refills)
      BY <1>1 DEF Starts, GoesOn, Refuses, Accepts, Breaks, Finds, Counts, Asks, Loads,
         Thinks, Cites, Shows, Stores, Titles, Finishes
    <3> QED
      BY <3>1, ChatAssumption DEF TypeOK, Limiter
  <2>5. crowd' \in Nat
    <3>1. crowd' = crowd \/ crowd' = Cardinality(Served \cup {c})
      BY <1>1 DEF Starts, GoesOn, Refuses, Accepts, Breaks, Finds, Counts, Asks, Loads,
         Thinks, Cites, Shows, Stores, Titles, Finishes
    <3> QED
      BY <3>1, ServedCount DEF TypeOK
  <2> QED
    BY <1>1, <2>1, <2>2, <2>3, <2>4, <2>5 DEF TypeOK
<1>2. CASE Leaves
  BY <1>2 DEF Leaves, TypeOK, Database, Limiter, Serving
<1>3. CASE Deletes
  <2>1. session' \in [state : {"live", "deleted"}, title : {"default"} \cup Chats]
    BY <1>3 DEF Deletes, TypeOK
  <2> QED
    BY <1>3, <2>1 DEF Deletes, TypeOK, Limiter
<1>4. CASE Regains
  <2>1. bucket' \in 0..Burst /\ refills' \in 0..MaxRefills
    BY <1>4, ChatAssumption DEF Regains, TypeOK
  <2> QED
    BY <1>4, <2>1 DEF Regains, TypeOK, Database
<1>5. CASE UNCHANGED vars
  BY <1>5 DEF vars, TypeOK
<1> QED
  BY <1>1, <1>2, <1>3, <1>4, <1>5, StepKinds

(***************************************************************************)
(* The tables, the requests and the streams have their types in every      *)
(* reachable state, for any number of requests and any limits.             *)
(***************************************************************************)
THEOREM TypeCorrect == Spec => []TypeOK
<1> QED
  BY InitTypeOK, NextTypeOK, PTL DEF Spec

-----------------------------------------------------------------------------
(***************************************************************************)
(* Sequences that grow at their end.                                       *)
(***************************************************************************)
LEMMA SaidAppend ==
  ASSUME TypeOK, NEW m \in Message, messages' = Append(messages, m)
  PROVE  /\ Len(messages') = Len(messages) + 1
         /\ \A c \in Chats : \A role \in {"user", "assistant"} :
              Said(c, role)' = IF m.of = c /\ m.role = role
                                 THEN Said(c, role) \cup {Len(messages) + 1}
                                 ELSE Said(c, role)
         /\ \A i \in 1..Len(messages) : messages'[i] = messages[i]
         /\ messages'[Len(messages) + 1] = m
<1>1. messages \in Seq(Message) /\ Len(messages) \in Nat
  BY DEF TypeOK
<1>2. /\ Len(messages') = Len(messages) + 1 /\ DOMAIN messages' = 1..Len(messages) + 1
      /\ \A i \in 1..Len(messages) : messages'[i] = messages[i]
      /\ messages'[Len(messages) + 1] = m
  BY <1>1
<1>3. DOMAIN messages = 1..Len(messages)
  BY <1>1
<1>4. DOMAIN messages' = DOMAIN messages \cup {Len(messages) + 1}
  BY <1>1, <1>2, <1>3
<1>5. ASSUME NEW c \in Chats, NEW role \in {"user", "assistant"}
      PROVE  Said(c, role)' = IF m.of = c /\ m.role = role
                                THEN Said(c, role) \cup {Len(messages) + 1}
                                ELSE Said(c, role)
  BY <1>2, <1>3, <1>4 DEF Said
<1> QED
  BY <1>2, <1>5

LEMMA SaidSame ==
  ASSUME UNCHANGED messages
  PROVE  \A c, role : Said(c, role)' = Said(c, role)
BY DEF Said

LEMMA SentAppend ==
  ASSUME TypeOK, NEW c \in Chats, NEW e \in Event, events'[c] = Append(events[c], e)
  PROVE  /\ Len(events'[c]) = Len(events[c]) + 1
         /\ \A type \in {"token", "citations", "done", "error"} :
              Sent(c, type)' = IF e.type = type THEN Sent(c, type) \cup {Len(events[c]) + 1}
                                                ELSE Sent(c, type)
         /\ \A i \in 1..Len(events[c]) : events'[c][i] = events[c][i]
         /\ events'[c][Len(events[c]) + 1] = e
<1>1. events[c] \in Seq(Event) /\ Len(events[c]) \in Nat
  BY SmallTypes
<1> DEFINE es == events[c]
           fs == events'[c]
<1>2. /\ Len(fs) = Len(es) + 1 /\ DOMAIN fs = 1..Len(es) + 1 /\ DOMAIN es = 1..Len(es)
      /\ \A i \in 1..Len(es) : fs[i] = es[i]
      /\ fs[Len(es) + 1] = e
  BY <1>1
<1>3. DOMAIN fs = DOMAIN es \cup {Len(es) + 1}
  BY <1>1, <1>2
<1>4. ASSUME NEW type \in {"token", "citations", "done", "error"}
      PROVE  Sent(c, type)' = IF e.type = type THEN Sent(c, type) \cup {Len(es) + 1}
                                               ELSE Sent(c, type)
  <2>1. Sent(c, type)' = {i \in DOMAIN fs : fs[i].type = type}
    BY DEF Sent
  <2>2. Sent(c, type) = {i \in DOMAIN es : es[i].type = type}
    BY DEF Sent
  <2> HIDE DEF es, fs
  <2> QED
    BY <1>2, <1>3, <2>1, <2>2
<1> QED
  BY <1>2, <1>4

LEMMA SentSame ==
  ASSUME NEW c, events'[c] = events[c]
  PROVE  \A type : Sent(c, type)' = Sent(c, type)
BY DEF Sent

\* Nobody's messages grow but those of the request that takes its turn.
LEMMA OthersSaid ==
  ASSUME TypeOK, NEW c \in Chats, Starts(c) \/ GoesOn(c), NEW d \in Chats, d # c,
         NEW role \in {"user", "assistant"}
  PROVE  Said(d, role)' = Said(d, role)
<1>1. \/ messages' = messages
      \/ messages' = Append(messages, [role |-> "user", of |-> c, text |-> <<>>])
      \/ messages' = Append(messages, [role |-> "assistant", of |-> c, text |-> chat[c].answer])
  BY DEF Starts, GoesOn, Refuses, Accepts, Breaks, Finds, Counts, Asks, Loads,
     Thinks, Cites, Shows, Stores, Titles, Finishes, Database
<1>2. [role |-> "user", of |-> c, text |-> <<>>] \in Message
      /\ [role |-> "assistant", of |-> c, text |-> chat[c].answer] \in Message
  BY SmallTypes, RequestFields, RowTypes
<1>3. CASE messages' = messages
  BY <1>3, SaidSame
<1>4. ASSUME NEW m \in Message, m.of = c, messages' = Append(messages, m)
      PROVE  Said(d, role)' = Said(d, role)
  BY <1>4, SaidAppend
<1> QED
  BY <1>1, <1>2, <1>3, <1>4

-----------------------------------------------------------------------------
(***************************************************************************)
(* What one request knows of its own rows.  Until its question is stored   *)
(* it has none; until its answer is stored, no answer; never two of a kind.*)
(* Only a request of the owner passes the lookup of the session.           *)
(***************************************************************************)
Early == {"idle", "verify", "count", "ask"}
Writing == {"history", "retrieve", "guardrail", "synthesis", "smalltalk", "citations",
            "answer", "store"}

Own(c) ==
  /\ chat[c].at = "idle" => events[c] = <<>> /\ c \notin gone
  /\ chat[c].at \notin {"idle", "verify", "ended"} => chat[c].user = Owner
  /\ chat[c].error = TRUE => chat[c].at = "guardrail"
  /\ chat[c].at \in Early => Said(c, "user") = {}
  /\ chat[c].at \in Early \cup Writing => Said(c, "assistant") = {}
  /\ \A i, j \in Said(c, "user") : i = j
  /\ \A i, j \in Said(c, "assistant") : i = j

OwnInv == \A c \in Chats : Own(c)

\* The rows of the request that takes a turn: a question, an answer, or as before.
LEMMA OwnSaid ==
  ASSUME TypeOK, NEW c \in Chats, Starts(c) \/ GoesOn(c)
  PROVE  /\ Asks(c) => /\ Said(c, "user")' = Said(c, "user") \cup {Len(messages) + 1}
                       /\ Said(c, "assistant")' = Said(c, "assistant")
         /\ Stores(c) => /\ Said(c, "assistant")' = Said(c, "assistant") \cup {Len(messages) + 1}
                         /\ Said(c, "user")' = Said(c, "user")
         /\ ~Asks(c) /\ ~Stores(c) => messages' = messages
<1>1. [role |-> "user", of |-> c, text |-> <<>>] \in Message
      /\ [role |-> "assistant", of |-> c, text |-> chat[c].answer] \in Message
  BY SmallTypes, RequestFields, RowTypes
<1>2. CASE Asks(c)
  <2> DEFINE m == [role |-> "user", of |-> c, text |-> <<>>]
  <2>1. m \in Message /\ messages' = Append(messages, m) /\ m.of = c /\ m.role = "user"
    BY <1>1, <1>2 DEF Asks
  <2> HIDE DEF m
  <2>2. ~Stores(c)
    BY <1>2 DEF Asks, Stores, Passes
  <2> QED
    BY <1>2, <2>1, <2>2, SaidAppend
<1>3. CASE Stores(c)
  <2> DEFINE m == [role |-> "assistant", of |-> c, text |-> chat[c].answer]
  <2>1. m \in Message /\ messages' = Append(messages, m) /\ m.of = c /\ m.role = "assistant"
    BY <1>1, <1>3 DEF Stores
  <2> HIDE DEF m
  <2>2. ~Asks(c)
    BY <1>3 DEF Asks, Stores, Passes
  <2> QED
    BY <1>3, <2>1, <2>2, SaidAppend
<1>4. CASE ~Asks(c) /\ ~Stores(c)
  BY <1>4 DEF Starts, GoesOn, Refuses, Accepts, Breaks, Finds, Counts, Loads,
     Thinks, Cites, Shows, Titles, Finishes, Database
<1> QED
  BY <1>2, <1>3, <1>4

LEMMA InitOwn == ASSUME Init PROVE OwnInv
<1>1. PICK user \in [Chats -> Users] : chat = [c \in Chats |-> Fresh(user[c])]
  BY DEF Init
<1>2. ASSUME NEW c \in Chats PROVE Own(c)
  <2>1. chat[c].at = "idle" /\ chat[c].error = FALSE
    BY <1>1 DEF Fresh
  <2>2. events[c] = <<>> /\ c \notin gone
    BY DEF Init
  <2>3. Said(c, "user") = {} /\ Said(c, "assistant") = {}
    BY InitRows
  <2> QED
    BY <2>1, <2>2, <2>3 DEF Own
<1> QED
  BY <1>2 DEF OwnInv

LEMMA TurnOwn ==
  ASSUME TypeOK, NEW c \in Chats, Own(c), Alone(c), Starts(c) \/ GoesOn(c), gone' = gone
  PROVE  Own(c)'
<1>1. chat'[c].user = chat[c].user
  BY DEF Alone
<1>2. CASE Refuses(c) \/ Breaks(c) \/ Finishes(c)
  <2>1. chat'[c].at = "ended" /\ chat'[c].error = FALSE
    BY <1>2 DEF Refuses, Breaks, Finishes, Over
  <2>2. UNCHANGED messages
    BY <1>2 DEF Refuses, Breaks, Finishes, Database
  <2>3. Said(c, "user")' = Said(c, "user") /\ Said(c, "assistant")' = Said(c, "assistant")
    BY <2>2, SaidSame
  <2> QED
    BY <2>1, <2>3 DEF Own, Early, Writing
<1>3. CASE Asks(c)
  <2>1. chat[c].at = "ask" /\ chat'[c].at = "history" /\ chat'[c].error = chat[c].error
    BY <1>3 DEF Asks, Passes
  <2>2. Said(c, "user")' = Said(c, "user") \cup {Len(messages) + 1}
        /\ Said(c, "assistant")' = Said(c, "assistant")
    BY <1>3, OwnSaid
  <2>3. Said(c, "user") = {} /\ Said(c, "assistant") = {}
    BY <2>1 DEF Own, Early
  <2>4. chat[c].error # TRUE
    BY <2>1 DEF Own
  <2> QED
    BY <1>1, <2>1, <2>2, <2>3, <2>4 DEF Own, Early, Writing
<1>4. CASE Stores(c)
  <2>1. chat[c].at = "store" /\ chat'[c].at = "title" /\ chat'[c].error = chat[c].error
    BY <1>4 DEF Stores, Passes
  <2>2. Said(c, "assistant")' = Said(c, "assistant") \cup {Len(messages) + 1}
        /\ Said(c, "user")' = Said(c, "user")
    BY <1>4, OwnSaid
  <2>3. Said(c, "assistant") = {}
    BY <2>1 DEF Own, Writing
  <2>4. chat[c].error # TRUE
    BY <2>1 DEF Own
  <2> QED
    BY <1>1, <2>1, <2>2, <2>3, <2>4 DEF Own, Early, Writing
<1>5. CASE Accepts(c) \/ Finds(c) \/ Counts(c)
  <2>1. UNCHANGED messages
    BY <1>5 DEF Accepts, Finds, Counts, Database
  <2>2. Said(c, "user")' = Said(c, "user") /\ Said(c, "assistant")' = Said(c, "assistant")
    BY <2>1, SaidSame
  <2>3. /\ chat'[c].error = chat[c].error
        /\ \/ chat[c].at = "idle" /\ chat'[c].at = "verify"
           \/ chat[c].at = "verify" /\ chat'[c].at = "count" /\ chat[c].user = Owner
           \/ chat[c].at = "count" /\ chat'[c].at = "ask"
    BY <1>5 DEF Accepts, Finds, Counts, Passes
  <2> QED
    BY <1>1, <2>2, <2>3 DEF Own, Early, Writing
<1>6. CASE Loads(c) \/ Cites(c) \/ Shows(c) \/ Titles(c)
  <2>1. UNCHANGED messages
    BY <1>6 DEF Loads, Cites, Shows, Titles, Database
  <2>2. Said(c, "user")' = Said(c, "user") /\ Said(c, "assistant")' = Said(c, "assistant")
    BY <2>1, SaidSame
  <2>3. /\ chat'[c].error = chat[c].error
        /\ \/ chat[c].at = "history" /\ chat'[c].at = "retrieve"
           \/ chat[c].at = "citations" /\ chat'[c].at = "answer"
           \/ chat[c].at = "answer" /\ chat'[c].at = "store"
           \/ chat[c].at = "title" /\ chat'[c].at = "done"
    BY <1>6 DEF Loads, Cites, Shows, Titles, Passes
  <2> QED
    BY <1>1, <2>2, <2>3 DEF Own, Early, Writing
<1>7. CASE Thinks(c)
  <2>1. UNCHANGED messages
    BY <1>7 DEF Thinks, Database
  <2>2. Said(c, "user")' = Said(c, "user") /\ Said(c, "assistant")' = Said(c, "assistant")
    BY <2>1, SaidSame
  <2>3. chat[c].at \in Answering /\ chat'[c].at \in (Answering \ {"retrieve"}) \cup {"citations"}
    BY <1>7 DEF Thinks
  <2>4. chat'[c].error = TRUE => chat'[c].at = "guardrail" \/ (chat[c].error = TRUE /\ chat[c].at # "guardrail")
    BY <1>7 DEF Thinks
  <2>5. chat'[c].error = TRUE => chat'[c].at = "guardrail"
    BY <2>4 DEF Own
  <2> QED
    BY <1>1, <2>2, <2>3, <2>5 DEF Own, Early, Writing, Answering
<1> QED
  BY <1>2, <1>3, <1>4, <1>5, <1>6, <1>7 DEF Starts, GoesOn

LEMMA NextOwn == ASSUME TypeOK, OwnInv, [Next]_vars PROVE OwnInv'
<1>1. ASSUME NEW c \in Chats, Alone(c), Starts(c) \/ GoesOn(c), gone' = gone,
             NEW d \in Chats
      PROVE  Own(d)'
  <2>1. CASE d = c
    BY <1>1, <2>1, TurnOwn DEF OwnInv
  <2>2. CASE d # c
    <3>1. chat'[d] = chat[d] /\ events'[d] = events[d]
      BY <1>1, <2>2 DEF Alone
    <3>2. Said(d, "user")' = Said(d, "user") /\ Said(d, "assistant")' = Said(d, "assistant")
      BY <1>1, <2>2, OthersSaid
    <3> QED
      BY <1>1, <3>1, <3>2 DEF OwnInv, Own
  <2> QED
    BY <2>1, <2>2
<1>2. CASE Leaves
  <2>1. PICK c \in Chats : Serving(c) /\ gone' = gone \cup {c}
    BY <1>2 DEF Leaves
  <2>2. UNCHANGED <<messages, chat, events>>
    BY <1>2 DEF Leaves, Database
  <2>3. ASSUME NEW d \in Chats PROVE Own(d)'
    <3>1. Said(d, "user")' = Said(d, "user") /\ Said(d, "assistant")' = Said(d, "assistant")
      BY <2>2, SaidSame
    <3>2. chat'[d].at = "idle" => d \notin gone'
      BY <2>1, <2>2 DEF OwnInv, Own, Serving
    <3> QED
      BY <2>2, <3>1, <3>2 DEF OwnInv, Own
  <2> QED
    BY <2>3 DEF OwnInv
<1>3. CASE Deletes
  <2>1. UNCHANGED <<chat, events, gone>> /\ messages' = <<>>
    BY <1>3 DEF Deletes
  <2>2. \A d, role : Said(d, role)' = {}
    BY <2>1 DEF Said
  <2> QED
    BY <2>1, <2>2 DEF OwnInv, Own
<1>4. CASE Regains \/ UNCHANGED vars
  <2>1. UNCHANGED <<messages, chat, events, gone>>
    BY <1>4 DEF Regains, vars, Database
  <2> QED
    BY <2>1 DEF OwnInv, Own, Said
<1> QED
  BY <1>1, <1>2, <1>3, <1>4, StepKinds DEF OwnInv

-----------------------------------------------------------------------------
(***************************************************************************)
(* The database: only the owner's rows, and none of a deleted session.     *)
(***************************************************************************)
DataInv == OwnerOnly /\ DeletedIsEmpty

LEMMA NextData ==
  ASSUME TypeOK, OwnInv, DataInv, [Next]_vars
  PROVE  DataInv'
<1>1. ASSUME NEW c \in Chats, Alone(c), Starts(c) \/ GoesOn(c)
      PROVE  DataInv'
  <2>1. \A d \in Chats : chat'[d].user = chat[d].user
    BY <1>1 DEF Alone
  <2>2. session'.state = session.state
    <3>1. session' = session \/ session' = [session EXCEPT !.title = c]
      BY <1>1 DEF Starts, GoesOn, Refuses, Accepts, Breaks, Finds, Counts, Asks, Loads,
         Thinks, Cites, Shows, Stores, Titles, Finishes, Database
    <3> QED
      BY <3>1 DEF TypeOK
  <2>4. CASE UNCHANGED messages
    BY <2>1, <2>2, <2>4 DEF DataInv, OwnerOnly, DeletedIsEmpty, Live
  <2>5. CASE Asks(c) \/ Stores(c)
    <3>1. PICK m \in Message : m.of = c /\ messages' = Append(messages, m)
      <4>1. [role |-> "user", of |-> c, text |-> <<>>] \in Message
            /\ [role |-> "assistant", of |-> c, text |-> chat[c].answer] \in Message
        BY SmallTypes, RequestFields, RowTypes
      <4> QED
        BY <2>5, <4>1 DEF Asks, Stores
    <3>2. Live /\ chat[c].at \in {"ask", "store"}
      BY <2>5 DEF Asks, Stores, Passes
    <3>3. chat[c].user = Owner
      BY <3>2 DEF OwnInv, Own
    <3>4. /\ DOMAIN messages' = DOMAIN messages \cup {Len(messages) + 1}
          /\ \A i \in DOMAIN messages : messages'[i] = messages[i]
          /\ messages'[Len(messages) + 1] = m
      BY <3>1 DEF TypeOK
    <3>5. ASSUME NEW i \in DOMAIN messages', messages'[i].of \in Chats
          PROVE  chat'[messages'[i].of].user = Owner
      <4>1. CASE i \in DOMAIN messages
        BY <2>1, <3>4, <3>5, <4>1 DEF DataInv, OwnerOnly
      <4>2. CASE i = Len(messages) + 1
        BY <2>1, <3>1, <3>3, <3>4, <4>2
      <4> QED
        BY <3>4, <3>5, <4>1, <4>2
    <3>6. Live'
      BY <2>2, <3>2 DEF Live
    <3> QED
      BY <3>5, <3>6 DEF DataInv, OwnerOnly, DeletedIsEmpty
  <2> QED
    BY <1>1, <2>4, <2>5, OwnSaid
<1>2. CASE Deletes
  <2>1. messages' = <<>>
    BY <1>2 DEF Deletes
  <2> QED
    BY <2>1 DEF DataInv, OwnerOnly, DeletedIsEmpty
<1>3. CASE Leaves \/ Regains \/ UNCHANGED vars
  <2>1. UNCHANGED <<session, messages, chat>>
    BY <1>3 DEF Leaves, Regains, vars, Database
  <2> QED
    BY <2>1 DEF DataInv, OwnerOnly, DeletedIsEmpty, Live
<1> QED
  BY <1>1, <1>2, <1>3, StepKinds

-----------------------------------------------------------------------------
(***************************************************************************)
(* The limiter.  A request counts as accepted from the token it took on;   *)
(* the first event of a refused one says so, and says so for ever.         *)
(***************************************************************************)
Refused(c) == \E i \in Sent(c, "error") : events[c][i].code \in {"empty_message", "rate_limited"}
PaceInv ==
  /\ IsFiniteSet(Accepted)
  /\ Cardinality(Accepted) + bucket <= Burst + refills

LEMMA AcceptedIs == Accepted = {c \in Chats : chat[c].at # "idle" /\ ~Refused(c)}
BY DEF Accepted, Refused

\* What a browser was sent stays where it is.
LEMMA EventsStay ==
  ASSUME TypeOK, NEW c \in Chats, NEW e \in Event, Tells(c, e) \/ Quiet(c)
  PROVE  /\ \A type : Sent(c, type) \subseteq Sent(c, type)'
         /\ \A i \in DOMAIN events[c] : events'[c][i] = events[c][i]
<1>1. CASE events'[c] = events[c]
  BY <1>1 DEF Sent
<1>2. CASE events'[c] = Append(events[c], e)
  <2> DEFINE es == events[c]
             fs == events'[c]
  <2>1. es \in Seq(Event)
    BY SmallTypes
  <2>2. DOMAIN es \subseteq DOMAIN fs /\ \A i \in DOMAIN es : fs[i] = es[i]
    BY <1>2, <2>1
  <2>3. \A type : Sent(c, type) = {i \in DOMAIN es : es[i].type = type}
    BY DEF Sent
  <2>4. \A type : Sent(c, type)' = {i \in DOMAIN fs : fs[i].type = type}
    BY DEF Sent
  <2> HIDE DEF es, fs
  <2>5. \A type : Sent(c, type) \subseteq Sent(c, type)'
    BY <2>2, <2>3, <2>4
  <2> QED
    BY <2>2, <2>5 DEF es, fs
<1> QED
  BY <1>1, <1>2 DEF Tells, Quiet

LEMMA TurnTells ==
  ASSUME TypeOK, NEW c \in Chats, Starts(c) \/ GoesOn(c)
  PROVE  \E e \in Event : Tells(c, e) \/ Quiet(c)
<1>1. chat[c].error \in BOOLEAN
  BY SmallTypes, RequestFields
<1>2. CASE Refuses(c) \/ Breaks(c)
  BY <1>2, EventTypes DEF Refuses, Breaks, Codes
<1>3. CASE Cites(c)
  BY <1>3, EventTypes DEF Cites
<1>4. CASE Finishes(c)
  BY <1>4, EventTypes DEF Finishes
<1>5. CASE Thinks(c)
  <2>1. <<"piece">> \in Seq(Pieces)
    BY DEF Pieces
  <2> QED
    BY <1>5, <2>1, EventTypes DEF Thinks, Says
<1>6. CASE Shows(c)
  <2>1. StoredAnswer(chat[c].text, chat[c].answer) \in Seq(Pieces)
    BY SmallTypes, RequestFields DEF StoredAnswer
  <2> QED
    BY <1>6, <2>1, EventTypes DEF Shows, Says
<1>7. CASE Quiet(c)
  BY <1>7, EventTypes
<1> QED
  BY <1>2, <1>3, <1>4, <1>5, <1>6, <1>7
  DEF Starts, GoesOn, Accepts, Finds, Counts, Asks, Loads, Stores, Titles

LEMMA RefusedStays ==
  ASSUME TypeOK, NEW c \in Chats, Starts(c) \/ GoesOn(c), Refused(c)
  PROVE  Refused(c)'
<1>1. PICK e \in Event : Tells(c, e) \/ Quiet(c)
  BY TurnTells
<1>2. PICK i \in Sent(c, "error") : events[c][i].code \in {"empty_message", "rate_limited"}
  BY DEF Refused
<1>3. i \in Sent(c, "error")' /\ events'[c][i] = events[c][i]
  BY <1>1, <1>2, EventsStay DEF Sent
<1> QED
  BY <1>2, <1>3 DEF Refused

LEMMA RefusingIs ==
  ASSUME TypeOK, OwnInv, NEW c \in Chats, Refuses(c)
  PROVE  Refused(c)'
<1>1. PICK x \in {"empty_message", "rate_limited"} : Tells(c, [type |-> "error", code |-> x])
  BY DEF Refuses
<1> DEFINE e == [type |-> "error", code |-> x]
<1>2. e \in Event /\ e.type = "error" /\ e.code = x
  BY <1>1, EventTypes DEF Codes
<1>3. c \notin gone
  BY DEF Refuses, OwnInv, Own
<1>4. events'[c] = Append(events[c], e)
  BY <1>1, <1>3 DEF Tells
<1> HIDE DEF e
<1>5. Sent(c, "error")' = Sent(c, "error") \cup {Len(events[c]) + 1}
      /\ events'[c][Len(events[c]) + 1] = e
  BY <1>2, <1>4, SentAppend
<1> QED
  BY <1>2, <1>5 DEF Refused

LEMMA NextPace ==
  ASSUME TypeOK, OwnInv, PaceInv, [Next]_vars
  PROVE  PaceInv'
<1>1. ASSUME NEW c \in Chats, Alone(c), Starts(c) \/ GoesOn(c)
      PROVE  PaceInv'
  <2>1. Accepted' = {d \in Chats : chat'[d].at # "idle" /\ ~Refused(d)'}
    BY DEF Accepted, Refused
  <2>2. \A d \in Chats : d # c => chat'[d] = chat[d] /\ (Refused(d)' <=> Refused(d))
    BY <1>1 DEF Alone, Refused, Sent
  <2>3. bucket \in Nat /\ refills \in Nat /\ Cardinality(Accepted) \in Nat /\ Burst \in Nat
    BY SmallTypes, FS_CardinalityType, ChatAssumption DEF PaceInv
  <2>4. CASE Accepts(c)
    <3>1. Accepted' \subseteq Accepted \cup {c}
      BY <2>1, <2>2, AcceptedIs
    <3>2. IsFiniteSet(Accepted \cup {c}) /\ Cardinality(Accepted \cup {c}) <= Cardinality(Accepted) + 1
      <4>1. c \notin Accepted
        BY <2>4 DEF Accepts, Passes, Accepted
      <4>2. Cardinality(Accepted \cup {c}) = Cardinality(Accepted) + 1
        BY <4>1, FS_AddElement DEF PaceInv
      <4>3. IsFiniteSet(Accepted \cup {c})
        BY FS_AddElement DEF PaceInv
      <4> QED
        BY <2>3, <4>2, <4>3
    <3>3. IsFiniteSet(Accepted') /\ Cardinality(Accepted') <= Cardinality(Accepted \cup {c})
      BY <3>1, <3>2, FS_Subset
    <3>4. bucket' = bucket - 1 /\ refills' = refills
      BY <2>4 DEF Accepts
    <3>5. Cardinality(Accepted') \in Nat /\ Cardinality(Accepted \cup {c}) \in Nat
      BY <3>2, <3>3, FS_CardinalityType
    <3> QED
      BY <2>3, <3>2, <3>3, <3>4, <3>5 DEF PaceInv
  <2>5. CASE Refuses(c) \/ GoesOn(c)
    <3>1. Accepted' \subseteq Accepted
      <4>1. CASE Refuses(c)
        BY <2>1, <2>2, <4>1, AcceptedIs, RefusingIs
      <4>2. CASE GoesOn(c)
        <5>1. chat[c].at # "idle"
          BY <4>2 DEF GoesOn, Breaks, Finds, Counts, Asks, Loads, Thinks, Cites, Shows, Stores,
             Titles, Finishes, Passes, Breakable, Answering
        <5>2. Refused(c) => Refused(c)'
          BY <4>2, RefusedStays
        <5> QED
          BY <2>1, <2>2, <5>1, <5>2, AcceptedIs
      <4> QED
        BY <2>5, <4>1, <4>2
    <3>2. IsFiniteSet(Accepted') /\ Cardinality(Accepted') <= Cardinality(Accepted)
      BY <3>1, FS_Subset DEF PaceInv
    <3>3. bucket' = bucket /\ refills' = refills
      BY <2>5 DEF Refuses, GoesOn, Breaks, Finds, Counts, Asks, Loads, Thinks, Cites, Shows,
         Stores, Titles, Finishes, Limiter
    <3>4. Cardinality(Accepted') \in Nat
      BY <3>2, FS_CardinalityType
    <3> QED
      BY <2>3, <3>2, <3>3, <3>4 DEF PaceInv
  <2> QED
    BY <1>1, <2>4, <2>5 DEF Starts
<1>2. CASE Leaves \/ Deletes \/ UNCHANGED vars
  <2>1. UNCHANGED <<chat, events, bucket, refills>>
    BY <1>2 DEF Leaves, Deletes, vars, Limiter
  <2>2. Accepted' = Accepted
    BY <2>1 DEF Accepted, Sent
  <2> QED
    BY <2>1, <2>2 DEF PaceInv
<1>3. CASE Regains
  <2>1. UNCHANGED <<chat, events>> /\ bucket' = bucket + 1 /\ refills' = refills + 1
    BY <1>3 DEF Regains
  <2>2. Accepted' = Accepted
    BY <2>1 DEF Accepted, Sent
  <2>3. bucket \in Nat /\ refills \in Nat /\ Cardinality(Accepted) \in Nat /\ Burst \in Nat
    BY SmallTypes, FS_CardinalityType, ChatAssumption DEF PaceInv
  <2> QED
    BY <2>1, <2>2, <2>3 DEF PaceInv
<1> QED
  BY <1>1, <1>2, <1>3, StepKinds

LEMMA InitDataPace == ASSUME Init PROVE DataInv /\ PaceInv
<1>1. session.state = "live" /\ bucket = Burst /\ refills = 0
  BY DEF Init
<1>2. DataInv
  BY <1>1, InitRows, ChatAssumption DEF DataInv, OwnerOnly, DeletedIsEmpty, Live
<1>3. PICK user \in [Chats -> Users] : chat = [c \in Chats |-> Fresh(user[c])]
  BY DEF Init
<1>4. \A c \in Chats : chat[c].at = "idle"
  BY <1>3 DEF Fresh
<1>5. Accepted = {}
  BY <1>4 DEF Accepted
<1>6. IsFiniteSet(Accepted) /\ Cardinality(Accepted) = 0
  BY <1>5, FS_EmptySet
<1> QED
  BY <1>1, <1>2, <1>6, ChatAssumption DEF PaceInv

LEMMA PaceBounds == ASSUME TypeOK, PaceInv PROVE PaceKept
<1>1. bucket \in Nat /\ refills \in Nat /\ Cardinality(Accepted) \in Nat /\ Burst \in Nat
  BY SmallTypes, FS_CardinalityType, ChatAssumption DEF PaceInv
<1> QED
  BY <1>1 DEF PaceInv, PaceKept

-----------------------------------------------------------------------------
(***************************************************************************)
(* The stream of a request.  Nothing that ends it is sent before the       *)
(* request has ended, the citations go out on the step to "answer", and    *)
(* the one event that ends it is the last.                                 *)
(***************************************************************************)
Cited == {"answer", "store", "title", "done"}

Stream(c) ==
  /\ chat[c].at # "ended" => Sent(c, "done") = {} /\ Sent(c, "error") = {}
  /\ Sent(c, "done") \subseteq {Len(events[c])}
  /\ Sent(c, "error") \subseteq {Len(events[c])}
  /\ chat[c].at = "ended" /\ c \notin gone => Sent(c, "done") \cup Sent(c, "error") # {}
  /\ chat[c].at \in Cited \/ Sent(c, "done") # {} => \E k \in Nat : Sent(c, "citations") = {k}
  /\ chat[c].at \notin Cited \cup {"ended"} => Sent(c, "citations") = {}
  /\ \A i \in Sent(c, "done") : events[c][i].reason = "stop"

StreamInv == \A c \in Chats : Stream(c)

LEMMA InitStream == ASSUME Init PROVE StreamInv
<1>1. PICK user \in [Chats -> Users] : chat = [c \in Chats |-> Fresh(user[c])]
  BY DEF Init
<1>2. ASSUME NEW c \in Chats PROVE Stream(c)
  <2>1. chat[c].at = "idle"
    BY <1>1 DEF Fresh
  <2>2. events[c] = <<>>
    BY DEF Init
  <2>3. \A type : Sent(c, type) = {}
    BY <2>2 DEF Sent
  <2> QED
    BY <2>1, <2>3 DEF Stream, Cited
<1> QED
  BY <1>2 DEF StreamInv

\* The last event of a request that ends: nothing ended the stream before.
LEMMA LastEvent ==
  ASSUME TypeOK, NEW c \in Chats, Stream(c), chat[c].at # "ended", chat'[c].at = "ended",
         NEW e \in Event, Tells(c, e), e.type \in {"done", "error"},
         e.type = "done" => chat[c].at = "done" /\ e.reason = "stop",
         gone' = gone
  PROVE  Stream(c)'
<1>1. Sent(c, "done") = {} /\ Sent(c, "error") = {}
  BY DEF Stream
<1>2. CASE c \in gone
  <2>1. events'[c] = events[c]
    BY <1>2 DEF Tells
  <2>2. Sent(c, "done")' = {} /\ Sent(c, "error")' = {}
    BY <1>1, <2>1, SentSame
  <2> QED
    BY <1>2, <2>2 DEF Stream, Cited
<1>3. CASE c \notin gone
  <2>1. events'[c] = Append(events[c], e)
    BY <1>3 DEF Tells
  <2>2. /\ Len(events'[c]) = Len(events[c]) + 1
        /\ \A type \in {"token", "citations", "done", "error"} :
             Sent(c, type)' = IF e.type = type THEN Sent(c, type) \cup {Len(events[c]) + 1}
                                               ELSE Sent(c, type)
        /\ events'[c][Len(events[c]) + 1] = e
    BY <2>1, SentAppend
  <2>3. Sent(c, "citations")' = Sent(c, "citations")
    BY <2>2
  <2>4. CASE e.type = "done"
    <3>1. Sent(c, "done")' = {Len(events'[c])} /\ Sent(c, "error")' = {}
      BY <1>1, <2>2, <2>4
    <3>2. \E k \in Nat : Sent(c, "citations") = {k}
      BY <2>4 DEF Stream, Cited
    <3>3. \A i \in Sent(c, "done")' : events'[c][i].reason = "stop"
      BY <2>2, <2>4, <3>1
    <3> QED
      BY <2>3, <3>1, <3>2, <3>3 DEF Stream, Cited
  <2>5. CASE e.type = "error"
    <3>1. Sent(c, "error")' = {Len(events'[c])} /\ Sent(c, "done")' = {}
      BY <1>1, <2>2, <2>5
    <3> QED
      BY <3>1 DEF Stream, Cited
  <2> QED
    BY <2>4, <2>5
<1> QED
  BY <1>2, <1>3

LEMMA TurnStream ==
  ASSUME TypeOK, NEW c \in Chats, Own(c), Stream(c), Alone(c), Starts(c) \/ GoesOn(c),
         gone' = gone
  PROVE  Stream(c)'
<1>1. CASE Refuses(c) \/ Breaks(c)
  <2>1. PICK x \in Codes : Tells(c, [type |-> "error", code |-> x])
    BY <1>1 DEF Refuses, Breaks, Codes
  <2>2. chat[c].at # "ended" /\ chat'[c].at = "ended"
    BY <1>1 DEF Refuses, Breaks, Over, Breakable
  <2> DEFINE e == [type |-> "error", code |-> x]
  <2>3. e \in Event /\ e.type = "error" /\ Tells(c, e)
    BY <2>1, EventTypes
  <2> HIDE DEF e
  <2> QED
    BY <2>2, <2>3, LastEvent
<1>2. CASE Finishes(c)
  <2> DEFINE e == [type |-> "done", reason |-> IF chat[c].error THEN "error" ELSE "stop"]
  <2>1. chat[c].at = "done" /\ chat'[c].at = "ended" /\ Tells(c, e)
    BY <1>2 DEF Finishes, Over
  <2>2. chat[c].error \in BOOLEAN
    BY SmallTypes, RequestFields
  <2>3. ~chat[c].error
    BY <2>1, <2>2 DEF Own
  <2>4. e = [type |-> "done", reason |-> "stop"]
    BY <2>3
  <2>5. e \in Event /\ e.type = "done" /\ e.reason = "stop"
    BY <2>4, EventTypes
  <2> HIDE DEF e
  <2> QED
    BY <2>1, <2>5, LastEvent
<1>3. CASE Cites(c)
  <2> DEFINE e == [type |-> "citations"]
  <2>1. /\ chat[c].at = "citations" /\ chat'[c].at = "answer"
        /\ events'[c] = Append(events[c], e)
    BY <1>3 DEF Cites, Passes, Tells
  <2>2. e \in Event /\ e.type = "citations"
    BY EventTypes
  <2> HIDE DEF e
  <2>3. \A type \in {"token", "citations", "done", "error"} :
             Sent(c, type)' = IF e.type = type THEN Sent(c, type) \cup {Len(events[c]) + 1}
                                               ELSE Sent(c, type)
    BY <2>1, <2>2, SentAppend
  <2>4. Sent(c, "done") = {} /\ Sent(c, "error") = {} /\ Sent(c, "citations") = {}
    BY <2>1 DEF Stream, Cited
  <2>5. Sent(c, "done")' = {} /\ Sent(c, "error")' = {}
        /\ Sent(c, "citations")' = {Len(events[c]) + 1}
    BY <2>2, <2>3, <2>4
  <2>6. Len(events[c]) + 1 \in Nat
    BY SmallTypes
  <2> QED
    BY <2>1, <2>5, <2>6 DEF Stream, Cited
<1>4. ASSUME chat[c].at # "ended", chat'[c].at # "ended",
             chat'[c].at \in Cited <=> chat[c].at \in Cited,
             \/ Quiet(c)
             \/ \E x \in Seq(Pieces) : Says(c, x)
      PROVE  Stream(c)'
  <2>1. Sent(c, "done")' = Sent(c, "done") /\ Sent(c, "error")' = Sent(c, "error")
        /\ Sent(c, "citations")' = Sent(c, "citations")
    <3>1. CASE events'[c] = events[c]
      BY <3>1, SentSame
    <3>2. ASSUME NEW x \in Seq(Pieces), events'[c] = Append(events[c], [type |-> "token", text |-> x])
          PROVE  Sent(c, "done")' = Sent(c, "done") /\ Sent(c, "error")' = Sent(c, "error")
                 /\ Sent(c, "citations")' = Sent(c, "citations")
      <4> DEFINE e == [type |-> "token", text |-> x]
      <4>1. e \in Event /\ e.type = "token" /\ events'[c] = Append(events[c], e)
        BY <3>2, EventTypes
      <4> HIDE DEF e
      <4>2. \A type \in {"token", "citations", "done", "error"} :
               Sent(c, type)' = IF e.type = type THEN Sent(c, type) \cup {Len(events[c]) + 1}
                                                 ELSE Sent(c, type)
        BY <4>1, SentAppend
      <4> QED
        BY <4>1, <4>2
    <3>3. \/ events'[c] = events[c]
          \/ \E x \in Seq(Pieces) : events'[c] = Append(events[c], [type |-> "token", text |-> x])
      BY <1>4 DEF Says, Tells, Quiet
    <3> QED
      BY <3>1, <3>2, <3>3
  <2>2. Sent(c, "done") = {} /\ Sent(c, "error") = {}
    BY <1>4 DEF Stream
  <2> QED
    BY <1>4, <2>1, <2>2 DEF Stream
<1>5. CASE Accepts(c) \/ Finds(c) \/ Counts(c) \/ Asks(c) \/ Loads(c) \/ Stores(c) \/ Titles(c)
  <2>1. Quiet(c)
    BY <1>5 DEF Accepts, Finds, Counts, Asks, Loads, Stores, Titles
  <2>2. \/ chat[c].at = "idle" /\ chat'[c].at = "verify"
        \/ chat[c].at = "verify" /\ chat'[c].at = "count"
        \/ chat[c].at = "count" /\ chat'[c].at = "ask"
        \/ chat[c].at = "ask" /\ chat'[c].at = "history"
        \/ chat[c].at = "history" /\ chat'[c].at = "retrieve"
        \/ chat[c].at = "store" /\ chat'[c].at = "title"
        \/ chat[c].at = "title" /\ chat'[c].at = "done"
    BY <1>5 DEF Accepts, Finds, Counts, Asks, Loads, Stores, Titles, Passes
  <2>3. chat[c].at # "ended" /\ chat'[c].at # "ended"
        /\ (chat'[c].at \in Cited <=> chat[c].at \in Cited)
    BY <2>2 DEF Cited
  <2> QED
    BY <1>4, <2>1, <2>3
<1>6. CASE Thinks(c)
  <2>1. chat[c].at # "ended" /\ chat'[c].at # "ended"
        /\ (chat'[c].at \in Cited <=> chat[c].at \in Cited)
    BY <1>6 DEF Thinks, Answering, Cited
  <2>2. <<"piece">> \in Seq(Pieces)
    BY DEF Pieces
  <2>3. Quiet(c) \/ Says(c, <<"piece">>)
    BY <1>6 DEF Thinks
  <2> QED
    BY <1>4, <2>1, <2>2, <2>3
<1>7. CASE Shows(c)
  <2>1. chat[c].at # "ended" /\ chat'[c].at # "ended"
        /\ (chat'[c].at \in Cited <=> chat[c].at \in Cited)
    BY <1>7 DEF Shows, Cited
  <2>2. StoredAnswer(chat[c].text, chat[c].answer) \in Seq(Pieces)
    BY SmallTypes, RequestFields DEF StoredAnswer
  <2>3. Quiet(c) \/ Says(c, StoredAnswer(chat[c].text, chat[c].answer))
    BY <1>7 DEF Shows
  <2> QED
    BY <1>4, <2>1, <2>2, <2>3
<1> QED
  BY <1>1, <1>2, <1>3, <1>5, <1>6, <1>7 DEF Starts, GoesOn

LEMMA NextStream == ASSUME TypeOK, OwnInv, StreamInv, [Next]_vars PROVE StreamInv'
<1>1. ASSUME NEW c \in Chats, Alone(c), Starts(c) \/ GoesOn(c), gone' = gone,
             NEW d \in Chats
      PROVE  Stream(d)'
  <2>1. CASE d = c
    BY <1>1, <2>1, TurnStream DEF OwnInv, StreamInv
  <2>2. CASE d # c
    <3>1. chat'[d] = chat[d] /\ events'[d] = events[d]
      BY <1>1, <2>2 DEF Alone
    <3>2. \A type : Sent(d, type)' = Sent(d, type)
      BY <3>1, SentSame
    <3> QED
      BY <1>1, <3>1, <3>2 DEF StreamInv, Stream
  <2> QED
    BY <2>1, <2>2
<1>2. CASE Leaves
  <2>1. gone \subseteq gone' /\ UNCHANGED <<chat, events>>
    BY <1>2 DEF Leaves
  <2>2. \A d \in Chats : \A type : Sent(d, type)' = Sent(d, type)
    BY <2>1 DEF Sent
  <2> QED
    BY <2>1, <2>2 DEF StreamInv, Stream
<1>3. CASE Deletes \/ Regains \/ UNCHANGED vars
  <2>1. UNCHANGED <<chat, events, gone>>
    BY <1>3 DEF Deletes, Regains, vars
  <2>2. \A d \in Chats : \A type : Sent(d, type)' = Sent(d, type)
    BY <2>1 DEF Sent
  <2> QED
    BY <2>1, <2>2 DEF StreamInv, Stream
<1> QED
  BY <1>1, <1>2, <1>3, StepKinds DEF StreamInv

LEMMA StreamEnds == ASSUME TypeOK, StreamInv PROVE StreamEndsOnce
<1>1. ASSUME NEW c \in Chats, Sent(c, "done") # {}
      PROVE  Cardinality(Sent(c, "citations")) = 1
  BY <1>1, FS_Singleton DEF StreamInv, Stream
<1> QED
  BY <1>1 DEF StreamInv, Stream, StreamEndsOnce

-----------------------------------------------------------------------------
(***************************************************************************)
(* What is stored: from its insert to the done event, in a session that    *)
(* lives, a question is there and its answer behind it.                    *)
(***************************************************************************)
Answered(c) == \E q \in Said(c, "user"), a \in Said(c, "assistant") : q < a
Stored(c) ==
  Live => /\ chat[c].at \in Writing => Said(c, "user") # {}
          /\ chat[c].at \in {"title", "done"} \/ Sent(c, "done") # {} => Answered(c)
StoredInv == \A c \in Chats : Stored(c)

LEMMA LivesOn ==
  ASSUME TypeOK, NEW c \in Chats, Starts(c) \/ GoesOn(c)
  PROVE  Live' <=> Live
<1>1. session' = session \/ session' = [session EXCEPT !.title = c]
  BY DEF Starts, GoesOn, Refuses, Accepts, Breaks, Finds, Counts, Asks, Loads,
     Thinks, Cites, Shows, Stores, Titles, Finishes, Database
<1> QED
  BY <1>1 DEF Live, TypeOK

LEMMA TurnStored ==
  ASSUME TypeOK, NEW c \in Chats, Own(c), Stream(c), Stored(c), Alone(c),
         Starts(c) \/ GoesOn(c), gone' = gone
  PROVE  Stored(c)'
<1> SUFFICES ASSUME Live, Live' PROVE Stored(c)'
  BY LivesOn DEF Stored
<1>1. CASE Asks(c)
  <2>1. chat[c].at = "ask" /\ chat'[c].at = "history" /\ Quiet(c)
    BY <1>1 DEF Asks, Passes
  <2>2. Said(c, "user")' = Said(c, "user") \cup {Len(messages) + 1}
    BY <1>1, OwnSaid
  <2>3. Sent(c, "done")' = {}
    BY <2>1, SentSame DEF Stream, Quiet
  <2> QED
    BY <2>1, <2>2, <2>3 DEF Stored, Writing
<1>2. CASE Stores(c)
  <2>1. chat[c].at = "store" /\ chat'[c].at = "title"
    BY <1>2 DEF Stores, Passes
  <2>2. /\ Said(c, "assistant")' = Said(c, "assistant") \cup {Len(messages) + 1}
        /\ Said(c, "user")' = Said(c, "user")
    BY <1>2, OwnSaid
  <2>3. PICK q \in Said(c, "user") : TRUE
    BY <2>1 DEF Stored, Writing
  <2>4. q < Len(messages) + 1
    <3>1. messages \in Seq(Message) /\ q \in DOMAIN messages
      BY DEF Said, TypeOK
    <3> QED
      BY <3>1
  <2>5. Answered(c)'
    BY <2>2, <2>4 DEF Answered
  <2> QED
    BY <2>1, <2>5 DEF Stored, Writing
<1>3. ASSUME UNCHANGED messages,
             chat'[c].at \in Writing => chat[c].at \in Writing,
             chat'[c].at \in {"title", "done"} \/ Sent(c, "done")' # {} =>
               chat[c].at \in {"title", "done"} \/ Sent(c, "done") # {}
      PROVE  Stored(c)'
  <2>1. \A role : Said(c, role)' = Said(c, role)
    BY <1>3, SaidSame
  <2>2. Answered(c) => Answered(c)'
    BY <2>1 DEF Answered
  <2> QED
    BY <1>3, <2>1, <2>2 DEF Stored
<1>4. CASE Finishes(c)
  BY <1>3, <1>4 DEF Finishes, Over, Writing, Database
<1>5. CASE Refuses(c) \/ Breaks(c)
  <2>1. PICK x \in Codes : Tells(c, [type |-> "error", code |-> x])
    BY <1>5 DEF Refuses, Breaks, Codes
  <2>2. chat'[c].at = "ended" /\ UNCHANGED messages
    BY <1>5 DEF Refuses, Breaks, Over, Database
  <2> DEFINE e == [type |-> "error", code |-> x]
  <2>3. e \in Event /\ e.type = "error" /\ Tells(c, e)
    BY <2>1, EventTypes
  <2> HIDE DEF e
  <2>4. Sent(c, "done")' = Sent(c, "done")
    <3>1. CASE events'[c] = events[c]
      BY <3>1, SentSame
    <3>2. CASE events'[c] = Append(events[c], e)
      <4>1. Sent(c, "done")' = IF e.type = "done" THEN Sent(c, "done") \cup {Len(events[c]) + 1}
                                                  ELSE Sent(c, "done")
        BY <2>3, <3>2, SentAppend
      <4> QED
        BY <2>3, <4>1
    <3> QED
      BY <2>3, <3>1, <3>2 DEF Tells
  <2> QED
    BY <1>3, <2>2, <2>4 DEF Writing
<1>6. ASSUME UNCHANGED messages, chat[c].at # "ended", chat'[c].at # "ended",
             chat'[c].at \in Writing => chat[c].at \in Writing,
             chat'[c].at \in {"title", "done"} => chat[c].at \in {"title", "done"}
      PROVE  Stored(c)'
  <2>1. Stream(c)'
    BY TurnStream
  <2>2. Sent(c, "done")' = {}
    BY <1>6, <2>1 DEF Stream
  <2> QED
    BY <1>3, <1>6, <2>2
<1>7. CASE Accepts(c) \/ Finds(c) \/ Counts(c) \/ Loads(c) \/ Cites(c) \/ Shows(c) \/ Titles(c)
  <2>1. \/ chat[c].at = "idle" /\ chat'[c].at = "verify"
        \/ chat[c].at = "verify" /\ chat'[c].at = "count"
        \/ chat[c].at = "count" /\ chat'[c].at = "ask"
        \/ chat[c].at = "history" /\ chat'[c].at = "retrieve"
        \/ chat[c].at = "citations" /\ chat'[c].at = "answer"
        \/ chat[c].at = "answer" /\ chat'[c].at = "store"
        \/ chat[c].at = "title" /\ chat'[c].at = "done"
    BY <1>7 DEF Accepts, Finds, Counts, Loads, Cites, Shows, Titles, Passes
  <2>2. UNCHANGED messages
    BY <1>7 DEF Accepts, Finds, Counts, Loads, Cites, Shows, Titles, Database
  <2> QED
    BY <1>6, <2>1, <2>2 DEF Writing
<1>8. CASE Thinks(c)
  <2>1. UNCHANGED messages
    BY <1>8 DEF Thinks, Database
  <2>2. chat[c].at \in Answering /\ chat'[c].at \in (Answering \ {"retrieve"}) \cup {"citations"}
    BY <1>8 DEF Thinks
  <2> QED
    BY <1>6, <2>1, <2>2 DEF Writing, Answering
<1> QED
  BY <1>1, <1>2, <1>4, <1>5, <1>7, <1>8 DEF Starts, GoesOn

LEMMA NextStored ==
  ASSUME TypeOK, OwnInv, StreamInv, StoredInv, [Next]_vars
  PROVE  StoredInv'
<1>1. ASSUME NEW c \in Chats, Alone(c), Starts(c) \/ GoesOn(c), gone' = gone,
             NEW d \in Chats
      PROVE  Stored(d)'
  <2>1. CASE d = c
    BY <1>1, <2>1, TurnStored DEF OwnInv, StreamInv, StoredInv
  <2>2. CASE d # c
    <3>1. chat'[d] = chat[d] /\ events'[d] = events[d]
      BY <1>1, <2>2 DEF Alone
    <3>2. Said(d, "user")' = Said(d, "user") /\ Said(d, "assistant")' = Said(d, "assistant")
      BY <1>1, <2>2, OthersSaid
    <3>3. Sent(d, "done")' = Sent(d, "done") /\ (Live' <=> Live)
      BY <1>1, <3>1, SentSame, LivesOn
    <3> QED
      BY <3>1, <3>2, <3>3 DEF StoredInv, Stored, Answered
  <2> QED
    BY <2>1, <2>2
<1>2. CASE Leaves \/ Regains \/ UNCHANGED vars
  <2>1. UNCHANGED <<session, messages, chat, events>>
    BY <1>2 DEF Leaves, Regains, vars, Database
  <2> QED
    BY <2>1 DEF StoredInv, Stored, Answered, Said, Sent, Live
<1>3. CASE Deletes
  <2>1. ~Live'
    BY <1>3 DEF Deletes, Live, TypeOK
  <2> QED
    BY <2>1 DEF StoredInv, Stored
<1> QED
  BY <1>1, <1>2, <1>3, StepKinds DEF StoredInv

LEMMA InitStored == ASSUME Init PROVE StoredInv
<1>1. PICK user \in [Chats -> Users] : chat = [c \in Chats |-> Fresh(user[c])]
  BY DEF Init
<1>2. ASSUME NEW c \in Chats PROVE Stored(c)
  <2>1. chat[c].at = "idle"
    BY <1>1 DEF Fresh
  <2>2. Sent(c, "done") = {}
    BY DEF Init, Sent
  <2> QED
    BY <2>1, <2>2 DEF Stored, Writing
<1> QED
  BY <1>2 DEF StoredInv

LEMMA StoredMeans == ASSUME StreamInv, StoredInv PROVE DoneMeansStored
BY DEF StreamInv, Stream, StoredInv, Stored, Answered, DoneMeansStored

(***************************************************************************)
(* A browser that reads done finds the question and, behind it, its answer *)
(* (unless the session is deleted), and a stream ends once, with done or   *)
(* with an error, its citations sent once: the safety part of TurnsEnd.    *)
(***************************************************************************)
SafeInv == TypeOK /\ OwnInv /\ StreamInv /\ StoredInv

\* Done is sent once, last, and only for a turn whose two rows are stored.
THEOREM TurnsEndSafely == Spec => [](DoneMeansStored /\ StreamEndsOnce)
<1>1. ASSUME Init PROVE SafeInv
  BY <1>1, InitTypeOK, InitOwn, InitStream, InitStored DEF SafeInv
<1>2. ASSUME SafeInv, [Next]_vars PROVE SafeInv'
  BY <1>2, NextTypeOK, NextOwn, NextStream, NextStored DEF SafeInv
<1>3. SafeInv => DoneMeansStored /\ StreamEndsOnce
  BY StoredMeans, StreamEnds DEF SafeInv
<1> QED
  BY <1>1, <1>2, <1>3, PTL DEF Spec

-----------------------------------------------------------------------------
(***************************************************************************)
(* Requests that never overlap: one at a time is served, so what it has    *)
(* read of the session still holds when it writes.  It counted the rows    *)
(* before it asked, its question is the last row when it reads the history,*)
(* and the title it saw is the session's.                                  *)
(***************************************************************************)
Turned(c) ==
  /\ chat[c].at = "ask" => Len(messages) < 2 * MaxTurns
  /\ chat[c].at \in Writing => Len(messages) <= 2 * MaxTurns
  /\ chat[c].at = "history" => \A q \in Said(c, "user") : q = Len(messages)
  /\ Live /\ chat[c].at \in Writing \cup {"count", "ask", "title"} =>
       chat[c].title = session.title

\* Until the session has a name, an answer belongs to a turn about to name it.
Unnamed ==
  Live /\ session.title = "default" /\ faults = 0 /\ gone = {} =>
    \A d \in Chats : Said(d, "assistant") # {} => chat[d].at = "title"

TurnsInv ==
  crowd <= 1 => /\ \A c, d \in Chats : Serving(c) /\ Serving(d) => c = d
                /\ \A c \in Chats : Turned(c)
                /\ Unnamed

LEMMA InitTurns == ASSUME Init PROVE TurnsInv
<1>1. PICK user \in [Chats -> Users] : chat = [c \in Chats |-> Fresh(user[c])]
  BY DEF Init
<1>2. \A c \in Chats : chat[c].at = "idle"
  BY <1>1 DEF Fresh
<1>3. \A c \in Chats : Said(c, "assistant") = {}
  BY InitRows
<1> QED
  BY <1>2, <1>3 DEF TurnsInv, Turned, Unnamed, Serving, Writing

LEMMA PairCount ==
  ASSUME NEW a, NEW b, a # b
  PROVE  IsFiniteSet({a, b}) /\ Cardinality({a, b}) = 2
<1>1. IsFiniteSet({b}) /\ Cardinality({b}) = 1
  BY FS_Singleton
<1>2. {a, b} = {b} \cup {a} /\ a \notin {b}
  OBVIOUS
<1>3. IsFiniteSet({b} \cup {a}) /\ Cardinality({b} \cup {a}) = 2
  BY <1>1, <1>2, FS_AddElement
<1> QED
  BY <1>2, <1>3

LEMMA GoingOnServes ==
  ASSUME NEW c \in Chats, GoesOn(c)
  PROVE  Serving(c) /\ crowd' = crowd
BY DEF GoesOn, Breaks, Finds, Counts, Asks, Loads, Thinks, Cites, Shows, Stores,
   Titles, Finishes, Passes, Breakable, Answering, Serving

\* A request that takes a turn while none overlap is the only one being served.
LEMMA NobodyElse ==
  ASSUME TypeOK, TurnsInv, NEW c \in Chats, Starts(c) \/ GoesOn(c), crowd' <= 1
  PROVE  /\ crowd <= 1
         /\ Refuses(c) \/ \A d \in Chats : d # c => ~Serving(d)
<1>1. CASE Refuses(c)
  BY <1>1 DEF Refuses
<1>2. CASE Accepts(c)
  <2>0. /\ crowd \in Nat /\ Cardinality(Served \cup {c}) \in Nat
        /\ crowd' = IF Cardinality(Served \cup {c}) > crowd
                      THEN Cardinality(Served \cup {c}) ELSE crowd
    BY <1>2, ServedCount DEF Accepts, TypeOK
  <2>1. Cardinality(Served \cup {c}) <= 1 /\ crowd <= 1
    BY <2>0
  <2>2. ASSUME NEW d \in Chats, d # c, Serving(d) PROVE FALSE
    <3>1. {c, d} \subseteq Served \cup {c}
      BY <2>2 DEF Served
    <3>2. IsFiniteSet({c, d}) /\ Cardinality({c, d}) = 2
      BY <2>2, PairCount
    <3>3. Cardinality({c, d}) <= Cardinality(Served \cup {c})
      BY <3>1, ServedCount, FS_Subset
    <3> QED
      BY <2>1, <3>2, <3>3, ServedCount
  <2> QED
    BY <2>1, <2>2
<1>3. CASE GoesOn(c)
  BY <1>3, GoingOnServes DEF TurnsInv
<1> QED
  BY <1>1, <1>2, <1>3 DEF Starts

LEMMA Grows ==
  ASSUME TypeOK, NEW c \in Chats, Asks(c) \/ Stores(c)
  PROVE  Len(messages') = Len(messages) + 1 /\ Len(messages) \in Nat
<1>1. messages \in Seq(Message)
  BY DEF TypeOK
<1>2. PICK m : messages' = Append(messages, m)
  BY DEF Asks, Stores
<1> QED
  BY <1>1, <1>2

LEMMA TurnTurned ==
  ASSUME TypeOK, NEW c \in Chats, Own(c), Turned(c), Starts(c) \/ GoesOn(c)
  PROVE  Turned(c)'
<1>0. Live' <=> Live
  BY LivesOn
<1>1. CASE Asks(c)
  <2>1. /\ chat[c].at = "ask" /\ chat'[c].at = "history"
        /\ chat'[c].title = chat[c].title /\ session' = session
    BY <1>1 DEF Asks, Passes
  <2>2. Len(messages) < 2 * MaxTurns /\ Len(messages') = Len(messages) + 1
        /\ Len(messages) \in Nat /\ MaxTurns \in Nat
    BY <1>1, <2>1, Grows, ChatAssumption DEF Turned
  <2>3. Said(c, "user")' = {Len(messages')}
    <3>1. Said(c, "user")' = Said(c, "user") \cup {Len(messages) + 1}
      BY <1>1, OwnSaid
    <3>2. Said(c, "user") = {}
      BY <2>1 DEF Own, Early
    <3> QED
      BY <2>2, <3>1, <3>2
  <2>4. Len(messages') <= 2 * MaxTurns
    BY <2>2
  <2>6. Live' => chat'[c].title = session'.title
    BY <1>0, <2>1 DEF Turned
  <2> QED
    BY <2>1, <2>3, <2>4, <2>6 DEF Turned
<1>2. CASE Stores(c)
  <2>1. /\ chat[c].at = "store" /\ chat'[c].at = "title"
        /\ chat'[c].title = chat[c].title /\ session' = session
    BY <1>2 DEF Stores, Passes
  <2>4. Live' => chat'[c].title = session'.title
    BY <1>0, <2>1 DEF Turned, Writing
  <2> QED
    BY <2>1, <2>4 DEF Turned, Writing
<1>3. CASE ~Asks(c) /\ ~Stores(c)
  <2>1. UNCHANGED messages
    BY <1>3, OwnSaid
  <2>2. Said(c, "user")' = Said(c, "user")
    BY <2>1, SaidSame
  <2>3. CASE Finds(c)
    <3>1. chat'[c].at = "count" /\ chat'[c].title = session'.title
      BY <2>3 DEF Finds, Database
    <3> QED
      BY <2>1, <3>1 DEF Turned, Writing
  <2>4. CASE Counts(c)
    <3>1. /\ chat[c].at = "count" /\ chat'[c].at = "ask" /\ Len(messages) < 2 * MaxTurns
          /\ chat'[c].title = chat[c].title /\ session' = session
      BY <2>4 DEF Counts, Passes, Database
    <3> QED
      BY <1>0, <2>1, <3>1 DEF Turned, Writing
  <2>5. CASE Loads(c) \/ Thinks(c) \/ Cites(c) \/ Shows(c)
    <3>1. chat[c].at \in Writing /\ chat'[c].at \in Writing \ {"history"}
      BY <2>5 DEF Loads, Thinks, Cites, Shows, Passes, Writing, Answering
    <3>2. chat'[c].title = chat[c].title /\ session' = session
      BY <2>5 DEF Loads, Thinks, Cites, Shows, Passes, Database
    <3>3. chat'[c].at # "ask"
      BY <3>1 DEF Writing
    <3> QED
      BY <1>0, <2>1, <3>1, <3>2, <3>3 DEF Turned
  <2>6. CASE Refuses(c) \/ Accepts(c) \/ Breaks(c) \/ Titles(c) \/ Finishes(c)
    <3>1. chat'[c].at \in {"ended", "verify", "done"}
      BY <2>6 DEF Refuses, Accepts, Breaks, Titles, Finishes, Over, Passes
    <3> QED
      BY <2>1, <3>1 DEF Turned, Writing
  <2> QED
    BY <1>3, <2>3, <2>4, <2>5, <2>6 DEF Starts, GoesOn
<1> QED
  BY <1>1, <1>2, <1>3

LEMMA TurnUnnamed ==
  ASSUME TypeOK, NEW c \in Chats, Own(c), Turned(c), Unnamed, Alone(c),
         Starts(c) \/ GoesOn(c), gone' = gone,
         faults' \in 0..MaxFaults, faults' >= faults
  PROVE  Unnamed'
<1> SUFFICES ASSUME Live', session'.title = "default", faults' = 0, gone' = {},
                    NEW d \in Chats, Said(d, "assistant")' # {}
             PROVE  chat'[d].at = "title"
  BY DEF Unnamed
<1>1. Live /\ faults = 0 /\ gone = {}
  BY LivesOn, SmallTypes
<1>2. session.title = "default"
  <2>1. session' = session \/ session' = [session EXCEPT !.title = c]
    BY DEF Starts, GoesOn, Refuses, Accepts, Breaks, Finds, Counts, Asks, Loads,
       Thinks, Cites, Shows, Stores, Titles, Finishes, Database
  <2>2. session' = [session EXCEPT !.title = c] => session'.title = c
    BY DEF TypeOK
  <2>3. session' = session => session.title = "default"
    OBVIOUS
  <2> QED
    BY <2>1, <2>2, <2>3, ChatAssumption
<1>3. Said(d, "assistant") # {} => chat[d].at = "title"
  BY <1>1, <1>2 DEF Unnamed
<1>4. ~Titles(c)
  <2> SUFFICES ASSUME Titles(c) PROVE FALSE
    OBVIOUS
  <2>1. chat[c].title = session.title
    BY <1>1 DEF Turned, Titles, Passes
  <2>2. Untitled(c)
    BY <1>2, <2>1 DEF Untitled
  <2>3. session' = [session EXCEPT !.title = c]
    BY <1>1, <2>2 DEF Titles
  <2>4. session'.title = c
    BY <2>3 DEF TypeOK
  <2> QED
    BY <2>4, ChatAssumption
<1>5. chat[c].at = "title" => FALSE
  BY <1>4 DEF Starts, GoesOn, Refuses, Accepts, Breaks, Finds, Counts, Asks, Loads,
     Thinks, Cites, Shows, Stores, Finishes, Passes, Breakable, Answering
<1>6. CASE d # c
  BY <1>3, <1>6, OthersSaid DEF Alone
<1>7. CASE d = c /\ Stores(c)
  BY <1>7 DEF Stores, Passes
<1>8. CASE d = c /\ ~Stores(c)
  BY <1>3, <1>5, <1>8, OwnSaid, SaidSame
<1> QED
  BY <1>6, <1>7, <1>8

LEMMA NextTurns == ASSUME TypeOK, OwnInv, TurnsInv, [Next]_vars PROVE TurnsInv'
<1>1. ASSUME NEW c \in Chats, Alone(c), Starts(c) \/ GoesOn(c), gone' = gone,
             faults' \in 0..MaxFaults, faults' >= faults
      PROVE  TurnsInv'
  <2> SUFFICES ASSUME crowd' <= 1
               PROVE  /\ \A d, e \in Chats : Serving(d)' /\ Serving(e)' => d = e
                      /\ \A d \in Chats : Turned(d)'
                      /\ Unnamed'
    BY DEF TurnsInv
  <2>1. crowd <= 1 /\ (Refuses(c) \/ \A d \in Chats : d # c => ~Serving(d))
    BY <1>1, NobodyElse
  <2>2. \A d, e \in Chats : Serving(d)' /\ Serving(e)' => d = e
    <3>1. CASE Refuses(c)
      <4>1. ~Serving(c)'
        BY <3>1 DEF Refuses, Over, Serving
      <4>2. \A d \in Chats : d # c => (Serving(d)' <=> Serving(d))
        BY <1>1 DEF Alone, Serving
      <4> QED
        BY <2>1, <4>1, <4>2 DEF TurnsInv
    <3>2. CASE \A d \in Chats : d # c => ~Serving(d)
      BY <1>1, <3>2 DEF Alone, Serving
    <3> QED
      BY <2>1, <3>1, <3>2
  <2>3. Turned(c)'
    BY <1>1, <2>1, TurnTurned DEF OwnInv, TurnsInv
  <2>4. ASSUME NEW d \in Chats, d # c PROVE Turned(d)'
    <3>1. chat'[d] = chat[d]
      BY <1>1, <2>4 DEF Alone
    <3>2. CASE Refuses(c)
      <4>1. UNCHANGED <<messages, session>>
        BY <3>2 DEF Refuses, Database
      <4> QED
        BY <2>1, <3>1, <4>1, SaidSame DEF TurnsInv, Turned, Live
    <3>3. CASE ~Serving(d)
      BY <3>1, <3>3 DEF Turned, Serving, Writing
    <3> QED
      BY <2>1, <2>4, <3>2, <3>3
  <2>5. Unnamed'
    BY <1>1, <2>1, TurnUnnamed DEF OwnInv, TurnsInv
  <2> QED
    BY <2>2, <2>3, <2>4, <2>5
<1>2. CASE Leaves
  <2>1. UNCHANGED <<session, messages, chat, faults, crowd>> /\ gone \subseteq gone'
    BY <1>2 DEF Leaves, Database
  <2> QED
    BY <2>1 DEF TurnsInv, Turned, Unnamed, Serving, Said, Live
<1>3. CASE Deletes
  <2>1. ~Live' /\ messages' = <<>> /\ UNCHANGED <<chat, crowd>>
    BY <1>3 DEF Deletes, Live, TypeOK
  <2>2. \A c, role : Said(c, role)' = {}
    BY <2>1 DEF Said
  <2>3. Len(messages') = 0
    BY <2>1
  <2>4. Len(messages') < 2 * MaxTurns /\ Len(messages') <= 2 * MaxTurns
    BY <2>3, ChatAssumption
  <2> QED
    BY <2>1, <2>2, <2>4 DEF TurnsInv, Turned, Unnamed, Serving
<1>4. CASE Regains \/ UNCHANGED vars
  <2>1. UNCHANGED <<session, messages, chat, faults, gone, crowd>>
    BY <1>4 DEF Regains, vars, Database
  <2> QED
    BY <2>1 DEF TurnsInv, Turned, Unnamed, Serving, Said, Live
<1> QED
  BY <1>1, <1>2, <1>3, <1>4, StepKinds

-----------------------------------------------------------------------------
(***************************************************************************)
(* The cap.  A request that was let in below it and has not yet stored its *)
(* question will add two rows, one that has stored it a row more.  What is *)
(* stored and what is still to come stay below the bound together: the last*)
(* request that was let in saw room for a row, and each of the others that *)
(* are served with it adds two at most.                                    *)
(***************************************************************************)
In(P) == {d \in Chats : chat[d].at \in P}
Busy == Places \ {"idle", "ended"}
Excess(n) == IF n = 0 THEN 0 ELSE 2 * n - 1

RowsInv ==
  /\ Cardinality(In(Busy)) <= crowd
  /\ Len(messages) + 2 * Cardinality(In({"ask"})) + Cardinality(In(Writing))
       <= 2 * MaxTurns + Excess(crowd)

LEMMA InFinite ==
  ASSUME NEW P
  PROVE  IsFiniteSet(In(P)) /\ Cardinality(In(P)) \in Nat
<1>1. In(P) \subseteq Chats
  BY DEF In
<1> QED
  BY <1>1, ChatAssumption, FS_Subset, FS_CardinalityType

\* The requests being served are those at a busy place.
LEMMA ServedIn == ASSUME TypeOK PROVE Served = In(Busy)
BY SmallTypes, RequestFields DEF Served, Serving, In, Busy

\* Those to come are among those being served.
LEMMA Parts ==
  ASSUME TypeOK
  PROVE  Cardinality(In({"count"})) + Cardinality(In({"ask"})) + Cardinality(In(Writing))
           <= Cardinality(In(Busy))
<1> DEFINE C == In({"count"})
           A == In({"ask"})
           W == In(Writing)
           B == In(Busy)
<1>1. C \cap A = {} /\ (C \cup A) \cap W = {} /\ (C \cup A) \cup W \subseteq B
  BY DEF In, Writing, Busy, Places
<1>2. /\ IsFiniteSet(C) /\ IsFiniteSet(A) /\ IsFiniteSet(W) /\ IsFiniteSet(B)
      /\ Cardinality(C) \in Nat /\ Cardinality(A) \in Nat /\ Cardinality(W) \in Nat
      /\ Cardinality(B) \in Nat
  BY InFinite
<1> HIDE DEF C, A, W, B
<1>3. Cardinality(C \cap A) = 0 /\ Cardinality((C \cup A) \cap W) = 0
  <2>1. Cardinality({}) = 0
    BY FS_EmptySet
  <2> QED
    BY <1>1, <2>1
<1>4. IsFiniteSet(C \cup A) /\ Cardinality(C \cup A) = Cardinality(C) + Cardinality(A)
  <2>1. Cardinality(C \cup A) = Cardinality(C) + Cardinality(A) - Cardinality(C \cap A)
        /\ IsFiniteSet(C \cup A)
    BY <1>2, FS_Union
  <2> QED
    BY <1>2, <1>3, <2>1
<1>5. /\ IsFiniteSet((C \cup A) \cup W)
      /\ Cardinality((C \cup A) \cup W) = Cardinality(C \cup A) + Cardinality(W)
  <2> DEFINE D == C \cup A
  <2>1. IsFiniteSet(D) /\ Cardinality(D) \in Nat
    BY <1>4, FS_CardinalityType
  <2> HIDE DEF D
  <2>2. Cardinality(D \cup W) = Cardinality(D) + Cardinality(W) - Cardinality(D \cap W)
        /\ IsFiniteSet(D \cup W)
    BY <1>2, <2>1, FS_Union
  <2>3. Cardinality(D \cap W) = 0
    BY <1>3 DEF D
  <2>4. Cardinality(D \cup W) = Cardinality(D) + Cardinality(W)
    BY <1>2, <2>1, <2>2, <2>3
  <2> QED
    BY <2>2, <2>4 DEF D
<1>6. Cardinality((C \cup A) \cup W) <= Cardinality(B)
  BY <1>1, <1>2, FS_Subset
<1> QED
  BY <1>2, <1>4, <1>5, <1>6 DEF C, A, W, B

\* A step of one request changes a count by that request.
LEMMA Moves ==
  ASSUME TypeOK, NEW c \in Chats, Alone(c), NEW P
  PROVE  Cardinality(In(P))' =
           IF chat'[c].at \in P /\ chat[c].at \notin P THEN Cardinality(In(P)) + 1
           ELSE IF chat'[c].at \notin P /\ chat[c].at \in P THEN Cardinality(In(P)) - 1
           ELSE Cardinality(In(P))
<1>1. \A d \in Chats : d # c => chat'[d].at = chat[d].at
  BY DEF Alone
<1>2. CASE chat'[c].at \in P /\ chat[c].at \notin P
  <2>1. In(P)' = In(P) \cup {c} /\ c \notin In(P)
    BY <1>1, <1>2 DEF In
  <2> QED
    BY <1>2, <2>1, InFinite, FS_AddElement
<1>3. CASE chat'[c].at \notin P /\ chat[c].at \in P
  <2>1. In(P)' = In(P) \ {c} /\ c \in In(P)
    BY <1>1, <1>3 DEF In
  <2> QED
    BY <1>3, <2>1, InFinite, FS_RemoveElement
<1>4. CASE chat'[c].at \in P <=> chat[c].at \in P
  <2>1. In(P)' = In(P)
    BY <1>1, <1>4 DEF In
  <2> QED
    BY <1>4, <2>1
<1> QED
  BY <1>2, <1>3, <1>4

LEMMA InitRowsInv == ASSUME Init PROVE RowsInv
<1>1. PICK user \in [Chats -> Users] : chat = [c \in Chats |-> Fresh(user[c])]
  BY DEF Init
<1>2. \A c \in Chats : chat[c].at = "idle"
  BY <1>1 DEF Fresh
<1>3. In(Busy) = {} /\ In({"ask"}) = {} /\ In(Writing) = {}
  BY <1>2 DEF In, Busy, Writing
<1>4. Cardinality({}) = 0
  BY FS_EmptySet
<1>5. crowd = 0 /\ Len(messages) <= 2 * MaxTurns /\ Len(messages) \in Nat
  BY InitRows DEF Init
<1>6. Cardinality(In(Busy)) = 0 /\ Cardinality(In({"ask"})) = 0 /\ Cardinality(In(Writing)) = 0
  BY <1>3, <1>4
<1>7. Excess(crowd) = 0 /\ 2 * MaxTurns \in Nat
  BY <1>5, ChatAssumption DEF Excess
<1> QED
  BY <1>5, <1>6, <1>7 DEF RowsInv

LEMMA TurnRows ==
  ASSUME TypeOK, RowsInv, NEW c \in Chats, Alone(c), Starts(c) \/ GoesOn(c)
  PROVE  RowsInv'
<1> DEFINE k == Cardinality(In({"count"}))
           a == Cardinality(In({"ask"}))
           w == Cardinality(In(Writing))
           b == Cardinality(In(Busy))
           n == Len(messages)
           m == 2 * MaxTurns
<1>1. /\ k \in Nat /\ a \in Nat /\ w \in Nat /\ b \in Nat /\ n \in Nat /\ m \in Nat
      /\ crowd \in Nat
  BY InFinite, ChatAssumption DEF TypeOK
<1>2. k + a + w <= b
  BY Parts
<1>3. b <= crowd /\ n + 2 * a + w <= m + Excess(crowd)
  BY DEF RowsInv
<1>4. chat[c].at = "count" => k >= 1
  <2>1. ASSUME chat[c].at = "count" PROVE In({"count"}) # {}
    BY <2>1 DEF In
  <2> QED
    BY <2>1, <1>1, InFinite, FS_EmptySet
<1>5. chat[c].at \in Places /\ chat'[c].at \in Places
  BY SmallTypes, RequestFields DEF Alone
<1>6. /\ b' = IF chat'[c].at \in Busy /\ chat[c].at \notin Busy THEN b + 1
              ELSE IF chat'[c].at \notin Busy /\ chat[c].at \in Busy THEN b - 1 ELSE b
      /\ a' = IF chat'[c].at \in {"ask"} /\ chat[c].at \notin {"ask"} THEN a + 1
              ELSE IF chat'[c].at \notin {"ask"} /\ chat[c].at \in {"ask"} THEN a - 1 ELSE a
      /\ w' = IF chat'[c].at \in Writing /\ chat[c].at \notin Writing THEN w + 1
              ELSE IF chat'[c].at \notin Writing /\ chat[c].at \in Writing THEN w - 1 ELSE w
  BY Moves
<1> HIDE DEF k, a, w, b, m
<1>7. SUFFICES b' <= crowd' /\ n' + 2 * a' + w' <= m + Excess(crowd')
  BY DEF RowsInv, a, w, b, m
<1>8. CASE Counts(c)
  <2>1. chat[c].at = "count" /\ chat'[c].at = "ask" /\ n < m /\ n' = n /\ crowd' = crowd
    BY <1>8 DEF Counts, Passes, Database, m
  <2>2. b' = b /\ a' = a + 1 /\ w' = w
    BY <1>6, <2>1 DEF Busy, Writing, Places
  <2> HIDE DEF n
  <2>3. Excess(crowd) = 2 * crowd - 1
    BY <1>1, <1>2, <1>3, <1>4, <2>1 DEF Excess
  <2> QED
    BY <1>1, <1>2, <1>3, <1>4, <2>1, <2>2, <2>3
<1>9. CASE Asks(c)
  <2>1. chat[c].at = "ask" /\ chat'[c].at = "history" /\ crowd' = crowd
    BY <1>9 DEF Asks, Passes
  <2>2. n' = n + 1
    BY <1>9, Grows
  <2>3. b' = b /\ a' = a - 1 /\ w' = w + 1
    BY <1>6, <2>1 DEF Busy, Writing, Places
  <2> HIDE DEF n
  <2>4. Excess(crowd) \in Int
    BY <1>1 DEF Excess
  <2> QED
    BY <1>1, <1>3, <2>1, <2>2, <2>3, <2>4
<1>10. CASE Stores(c)
  <2>1. chat[c].at = "store" /\ chat'[c].at = "title" /\ crowd' = crowd
    BY <1>10 DEF Stores, Passes
  <2>2. n' = n + 1
    BY <1>10, Grows
  <2>3. b' = b /\ a' = a /\ w' = w - 1
    BY <1>6, <2>1 DEF Busy, Writing, Places
  <2> HIDE DEF n
  <2>4. Excess(crowd) \in Int
    BY <1>1 DEF Excess
  <2> QED
    BY <1>1, <1>3, <2>1, <2>2, <2>3, <2>4
<1>11. CASE Accepts(c)
  <2>1. chat[c].at = "idle" /\ chat'[c].at = "verify" /\ n' = n
    BY <1>11 DEF Accepts, Passes, Database
  <2>2. b' = b + 1 /\ a' = a /\ w' = w
    BY <1>6, <2>1 DEF Busy, Writing, Places
  <2>3. Cardinality(Served \cup {c}) = b + 1
    <3>1. c \notin In(Busy)
      BY <2>1 DEF In, Busy
    <3> QED
      BY <3>1, ServedIn, InFinite, FS_AddElement DEF b
  <2>4. crowd' = IF b + 1 > crowd THEN b + 1 ELSE crowd
    BY <1>11, <2>3 DEF Accepts
  <2> HIDE DEF n
  <2>5. Excess(crowd) <= Excess(crowd') /\ Excess(crowd) \in Int /\ Excess(crowd') \in Int
        /\ crowd' \in Nat /\ b' <= crowd'
    BY <1>1, <2>2, <2>4 DEF Excess
  <2> QED
    BY <1>1, <1>3, <2>1, <2>2, <2>5
<1>12. CASE /\ ~Counts(c) /\ ~Asks(c) /\ ~Stores(c) /\ ~Accepts(c)
  <2>1. n' = n /\ crowd' = crowd
    BY <1>12 DEF Starts, GoesOn, Refuses, Breaks, Finds, Loads, Thinks, Cites, Shows, Titles,
       Finishes, Database
  <2>2. /\ chat'[c].at # "ask"
        /\ chat'[c].at \in Writing => chat[c].at \in Writing
        /\ chat'[c].at \in Busy => chat[c].at \in Busy
    BY <1>5, <1>12 DEF Starts, GoesOn, Refuses, Breaks, Finds, Loads, Thinks, Cites, Shows, Titles,
       Finishes, Passes, Over, Writing, Busy, Answering, Places, Breakable
  <2>3. b' <= b /\ a' <= a /\ w' <= w /\ b' \in Int /\ a' \in Int /\ w' \in Int
    BY <1>1, <1>6, <2>2
  <2> HIDE DEF n
  <2>4. Excess(crowd) \in Int
    BY <1>1 DEF Excess
  <2> QED
    BY <1>1, <1>3, <2>1, <2>3, <2>4
<1> QED
  BY <1>8, <1>9, <1>10, <1>11, <1>12

LEMMA NextRows == ASSUME TypeOK, RowsInv, [Next]_vars PROVE RowsInv'
<1>1. ASSUME NEW c \in Chats, Alone(c), Starts(c) \/ GoesOn(c) PROVE RowsInv'
  BY <1>1, TurnRows
<1>2. CASE Leaves \/ Regains \/ UNCHANGED vars
  <2>1. UNCHANGED <<messages, chat, crowd>>
    BY <1>2 DEF Leaves, Regains, vars, Database
  <2> QED
    BY <2>1 DEF RowsInv, In
<1>3. CASE Deletes
  <2>1. UNCHANGED <<chat, crowd>> /\ messages' = <<>>
    BY <1>3 DEF Deletes
  <2>2. Len(messages') = 0 /\ Len(messages) \in Nat
    BY <2>1 DEF TypeOK
  <2>3. \A P : In(P)' = In(P)
    BY <2>1 DEF In
  <2>4. Cardinality(In({"ask"})) \in Nat /\ Cardinality(In(Writing)) \in Nat
        /\ Excess(crowd) \in Int /\ 2 * MaxTurns \in Nat
    BY InFinite, ChatAssumption DEF Excess, TypeOK
  <2> QED
    BY <2>1, <2>2, <2>3, <2>4 DEF RowsInv, Excess
<1> QED
  BY <1>1, <1>2, <1>3, StepKinds

LEMMA RowsBound == ASSUME TypeOK, RowsInv PROVE RowsOverCap
<1>1. /\ Cardinality(In({"ask"})) \in Nat /\ Cardinality(In(Writing)) \in Nat
      /\ Excess(crowd) \in Int /\ 2 * MaxTurns \in Nat /\ Len(messages) \in Nat
  BY InFinite, ChatAssumption DEF Excess, TypeOK
<1>2. Len(messages) <= 2 * MaxTurns + Excess(crowd)
  BY <1>1 DEF RowsInv
<1> QED
  BY <1>2 DEF RowsOverCap, Excess

(***************************************************************************)
(* LimitsHold: by how much the session's cap may be exceeded, and never    *)
(* more requests than the burst and the tokens regained; for any cap,      *)
(* burst and number of requests, however many are served at once.          *)
(***************************************************************************)
LimitsInv == TypeOK /\ OwnInv /\ PaceInv /\ RowsInv

\* A session holds at most a row more than its cap, and two more for each further
\* turn that was served at the same time; and the tenant's pace is kept.
THEOREM LimitsAreKept == Spec => []LimitsHold
<1>1. ASSUME Init PROVE LimitsInv
  BY <1>1, InitTypeOK, InitOwn, InitDataPace, InitRowsInv DEF LimitsInv
<1>2. ASSUME LimitsInv, [Next]_vars PROVE LimitsInv'
  BY <1>2, NextTypeOK, NextOwn, NextPace, NextRows DEF LimitsInv
<1>3. LimitsInv => LimitsHold
  BY PaceBounds, RowsBound DEF LimitsInv, LimitsHold
<1> QED
  BY <1>1, <1>2, <1>3, PTL DEF Spec

-----------------------------------------------------------------------------
(***************************************************************************)
(* The history: all rows fit, the question, the last of them, is the one   *)
(* that is left out, and of the others the last few are quoted.            *)
(***************************************************************************)
LEMMA WithoutLast ==
  ASSUME NEW rows \in Seq(Message), NEW c \in Chats, NEW q \in DOMAIN rows,
         \A i \in DOMAIN rows : rows[i].of = c <=> i = q
  PROVE  q = Len(rows) => Without(rows, c) = SubSeq(rows, 1, q - 1)
<1> SUFFICES ASSUME q = Len(rows) PROVE Without(rows, c) = SubSeq(rows, 1, q - 1)
  OBVIOUS
<1> DEFINE own == {i \in DOMAIN rows : rows[i].of = c}
           k == CHOOSE i \in own : TRUE
<1>1. own = {q}
  OBVIOUS
<1>2. k = q
  BY <1>1
<1>3. Without(rows, c) = SubSeq(rows, 1, k - 1) \o SubSeq(rows, k + 1, Len(rows))
  BY <1>1 DEF Without, RemoveAt
<1> HIDE DEF k, own
<1>4. q \in Nat /\ q >= 1 /\ q = Len(rows)
  OBVIOUS
<1>5. SubSeq(rows, q + 1, Len(rows)) = <<>>
  BY <1>4, SubSeqEmpty
<1>6. SubSeq(rows, 1, q - 1) \in Seq(Message)
  BY <1>4
<1> QED
  BY <1>2, <1>3, <1>5, <1>6, ConcatEmptySeq

\* The rows a prompt is to quote: the last few before the question at q.
Quoted(rows, q) ==
  LET n == IF q - 1 < PromptRows THEN q - 1 ELSE PromptRows
  IN  [i \in 1..n |-> rows[q - 1 - n + i]]

LEMMA QuotedIs ==
  ASSUME NEW rows \in Seq(Message), NEW q \in DOMAIN rows
  PROVE  Prompted(SubSeq(rows, 1, q - 1)) = Quoted(rows, q)
<1> DEFINE s == SubSeq(rows, 1, q - 1)
           n == IF q - 1 < PromptRows THEN q - 1 ELSE PromptRows
<1>1. q \in Nat /\ q >= 1 /\ q <= Len(rows) /\ PromptRows \in Nat
  BY ChatAssumption
<1>2. s \in Seq(Message) /\ Len(s) = q - 1 /\ \A i \in 1..(q - 1) : s[i] = rows[i]
  BY <1>1
<1> HIDE DEF s
<1>3. Prompted(s) = [i \in 1..n |-> s[q - 1 - n + i]]
  <2>1. n \in Nat /\ n = IF Len(s) < PromptRows THEN Len(s) ELSE PromptRows
    BY <1>1, <1>2
  <2> HIDE DEF n
  <2>2. LastRows(s, PromptRows) = [i \in 1..n |-> s[Len(s) - n + i]]
    BY <1>1, <1>2, <2>1, LastRowsAre
  <2> QED
    BY <1>2, <2>2 DEF Prompted
<1>4. \A i \in 1..n : q - 1 - n + i \in 1..(q - 1)
  BY <1>1
<1>5. \A i \in 1..n : s[q - 1 - n + i] = rows[q - 1 - n + i]
  BY <1>2, <1>4
<1>6. Prompted(s) = [i \in 1..n |-> rows[q - 1 - n + i]]
  BY <1>3, <1>5
<1> QED
  BY <1>6 DEF s, Quoted

\* What is quoted stays when a row is added behind it.
LEMMA QuoteStays ==
  ASSUME NEW rows \in Seq(Message), NEW m \in Message, NEW q \in DOMAIN rows
  PROVE  Quoted(Append(rows, m), q) = Quoted(rows, q)
<1> DEFINE n == IF q - 1 < PromptRows THEN q - 1 ELSE PromptRows
           more == Append(rows, m)
<1>1. q \in Nat /\ q >= 1 /\ q <= Len(rows) /\ PromptRows \in Nat
  BY ChatAssumption
<1>2. \A i \in 1..Len(rows) : more[i] = rows[i]
  OBVIOUS
<1>3. \A i \in 1..n : q - 1 - n + i \in 1..Len(rows)
  BY <1>1
<1> HIDE DEF more
<1>4. \A i \in 1..n : more[q - 1 - n + i] = rows[q - 1 - n + i]
  BY <1>2, <1>3
<1>5. Quoted(more, q) = Quoted(rows, q)
  BY <1>4 DEF Quoted
<1> QED
  BY <1>5 DEF more

LEMMA LoadedIs ==
  ASSUME TypeOK, TurnsInv, crowd <= 1, NEW c \in Chats, Own(c), Loads(c), NEW q \in Said(c, "user")
  PROVE  chat'[c].history = Quoted(messages, q)
<1>1. messages \in Seq(Message) /\ q \in DOMAIN messages
  BY DEF TypeOK, Said
<1>2. chat[c].at = "history" /\ chat'[c].history = Prompted(Without(Recent(messages), c))
  BY DEF Loads
<1>3. Len(messages) <= 2 * MaxTurns /\ q = Len(messages)
  BY <1>2 DEF TurnsInv, Turned, Writing
<1>4. Recent(messages) = messages
  BY <1>1, <1>3, RecentRows
<1>5. \A i \in DOMAIN messages : messages[i].of = c <=> i = q
  <2>1. Said(c, "assistant") = {}
    BY <1>2 DEF Own, Writing
  <2>2. \A i \in DOMAIN messages : messages[i].role \in {"user", "assistant"}
    <3>1. \A i \in DOMAIN messages : messages[i] \in Message
      BY <1>1
    <3>2. \A m \in Message : m.role \in {"user", "assistant"}
      BY DEF Message
    <3> QED
      BY <3>1, <3>2
  <2>3. ASSUME NEW i \in DOMAIN messages, messages[i].of = c PROVE i = q
    BY <2>1, <2>2, <2>3 DEF Own, Said
  <2>4. messages[q].of = c
    BY DEF Said
  <2> QED
    BY <2>3, <2>4
<1>6. Without(messages, c) = SubSeq(messages, 1, q - 1)
  BY <1>1, <1>3, <1>5, WithoutLast
<1>7. Prompted(SubSeq(messages, 1, q - 1)) = Quoted(messages, q)
  BY <1>1, QuotedIs
<1> QED
  BY <1>2, <1>4, <1>6, <1>7

Heard(c) ==
  chat[c].at \notin {"history", "ended"} =>
    \A q \in Said(c, "user") : chat[c].history = Quoted(messages, q)

LEMMA HeardIs == HistoryIsWhole <=> (crowd <= 1 => \A c \in Chats : Heard(c))
BY DEF HistoryIsWhole, Heard, Quoted

LEMMA RowsStay ==
  ASSUME TypeOK, NEW c \in Chats, Starts(c) \/ GoesOn(c), NEW q \in DOMAIN messages
  PROVE  Quoted(messages', q) = Quoted(messages, q)
<1>1. [role |-> "user", of |-> c, text |-> <<>>] \in Message
      /\ [role |-> "assistant", of |-> c, text |-> chat[c].answer] \in Message
  BY SmallTypes, RequestFields, RowTypes
<1>2. messages' = messages \/ \E m \in Message : messages' = Append(messages, m)
  BY <1>1, OwnSaid DEF Asks, Stores
<1>3. messages \in Seq(Message)
  BY DEF TypeOK
<1> QED
  BY <1>2, <1>3, QuoteStays

LEMMA NextHeard ==
  ASSUME TypeOK, OwnInv, TurnsInv, HistoryIsWhole, [Next]_vars
  PROVE  HistoryIsWhole'
<1>1. ASSUME NEW c \in Chats, Alone(c), Starts(c) \/ GoesOn(c), crowd' <= 1, NEW d \in Chats
      PROVE  Heard(d)'
  <2>1. crowd <= 1
    BY <1>1, NobodyElse
  <2>2. Heard(d)
    BY <2>1, HeardIs
  <2>3. ASSUME chat'[d].history = chat[d].history, Said(d, "user")' = Said(d, "user"),
               chat[d].at \notin {"history", "ended"}
        PROVE  Heard(d)'
    <3>1. \A q \in Said(d, "user") : q \in DOMAIN messages
      BY DEF Said
    <3>2. \A q \in Said(d, "user") : chat[d].history = Quoted(messages', q)
      BY <1>1, <2>2, <2>3, <3>1, RowsStay DEF Heard
    <3> QED
      BY <2>3, <3>2 DEF Heard
  <2>4. ASSUME chat'[d] = chat[d], chat[d].at \in {"history", "ended"} PROVE Heard(d)'
    BY <2>4 DEF Heard
  <2>5. CASE d # c
    <3>1. chat'[d] = chat[d] /\ Said(d, "user")' = Said(d, "user")
      BY <1>1, <2>5, OthersSaid DEF Alone
    <3> QED
      BY <2>3, <2>4, <3>1
  <2>6. CASE d = c /\ Loads(c)
    <3>1. UNCHANGED messages
      BY <2>6 DEF Loads, Database
    <3>2. Said(c, "user")' = Said(c, "user")
      BY <3>1, SaidSame
    <3>3. \A q \in Said(c, "user") : chat'[c].history = Quoted(messages, q)
      BY <2>1, <2>6, LoadedIs DEF OwnInv
    <3> QED
      BY <2>6, <3>1, <3>2, <3>3 DEF Heard
  <2>7. CASE d = c /\ (Refuses(c) \/ Breaks(c) \/ Finishes(c) \/ Asks(c))
    <3>1. chat'[c].at \in {"ended", "history"}
      BY <2>7 DEF Refuses, Breaks, Finishes, Asks, Over, Passes
    <3> QED
      BY <2>7, <3>1 DEF Heard
  <2>8. CASE d = c /\ Finds(c)
    <3>1. chat[c].at = "verify" /\ UNCHANGED messages
      BY <2>8 DEF Finds, Database
    <3>2. Said(c, "user")' = {}
      BY <3>1, SaidSame DEF OwnInv, Own, Early
    <3> QED
      BY <2>8, <3>2 DEF Heard
  <2>9. CASE d = c /\ (Accepts(c) \/ Counts(c) \/ Thinks(c) \/ Cites(c) \/ Shows(c)
                         \/ Stores(c) \/ Titles(c))
    <3>1. chat'[c].history = chat[c].history /\ chat[c].at \notin {"history", "ended"}
      BY <2>9 DEF Accepts, Counts, Thinks, Cites, Shows, Stores, Titles, Passes, Answering
    <3>2. Said(c, "user")' = Said(c, "user")
      <4>1. ~Asks(c)
        BY <2>9 DEF Accepts, Counts, Thinks, Cites, Shows, Stores, Titles, Passes, Answering, Asks
      <4> QED
        BY <1>1, <4>1, OwnSaid, SaidSame
    <3> QED
      BY <2>3, <2>9, <3>1, <3>2
  <2> QED
    BY <1>1, <2>5, <2>6, <2>7, <2>8, <2>9 DEF Starts, GoesOn
<1>2. CASE Leaves \/ Regains \/ UNCHANGED vars
  <2>1. UNCHANGED <<messages, chat, crowd>>
    BY <1>2 DEF Leaves, Regains, vars, Database
  <2> QED
    BY <2>1 DEF HistoryIsWhole, Said
<1>3. CASE Deletes
  <2>1. messages' = <<>>
    BY <1>3 DEF Deletes
  <2>2. \A c, role : Said(c, role)' = {}
    BY <2>1 DEF Said
  <2>3. ASSUME NEW c \in Chats, NEW q \in Said(c, "user")' PROVE FALSE
    BY <2>2, <2>3
  <2> QED
    BY <2>3 DEF HistoryIsWhole
<1>4. ASSUME NEW c \in Chats, Alone(c), Starts(c) \/ GoesOn(c) PROVE HistoryIsWhole'
  <2>1. ASSUME crowd' <= 1, NEW d \in Chats, NEW q \in Said(d, "user")',
               chat'[d].at \notin {"history", "ended"}
        PROVE  chat'[d].history = Quoted(messages', q)
    BY <1>1, <1>4, <2>1 DEF Heard
  <2> QED
    BY <2>1 DEF HistoryIsWhole, Quoted
<1> QED
  BY <1>2, <1>3, <1>4, StepKinds

-----------------------------------------------------------------------------
(***************************************************************************)
(* The name: the turn that gives it has been answered, and if nothing      *)
(* failed it is the first that was.                                        *)
(***************************************************************************)
\* Without a fault the turn that names the session has the only answer.
LEMMA OnlyAnswer ==
  ASSUME TypeOK, OwnInv, TurnsInv, crowd <= 1, NEW c \in Chats, chat[c].at = "title",
         Live, session.title = "default", faults = 0, gone = {},
         NEW d \in Chats, NEW j \in Said(d, "assistant")
  PROVE  d = c
<1>1. chat[d].at = "title"
  BY DEF TurnsInv, Unnamed, Said
<1> QED
  BY <1>1 DEF TurnsInv, Serving

LEMMA TurnNamed ==
  ASSUME TypeOK, OwnInv, StoredInv, TurnsInv, NamedByFirstAnswer, NEW c \in Chats, Alone(c),
         Starts(c) \/ GoesOn(c), gone' = gone, faults' \in 0..MaxFaults, faults' >= faults
  PROVE  NamedByFirstAnswer'
<1> SUFFICES ASSUME crowd' <= 1, Live', session'.title \in Chats
             PROVE  /\ Said(session.title, "assistant")' # {}
                    /\ faults' = 0 /\ gone' = {} =>
                         \A i \in Said(session.title, "assistant")', d \in Chats :
                           \A j \in Said(d, "assistant")' : i <= j
  BY DEF NamedByFirstAnswer
<1>1. crowd <= 1 /\ Live
  BY NobodyElse, LivesOn
<1>2. faults' = 0 => faults = 0
  BY SmallTypes
<1>3. CASE session' = session
  <2>0. PICK n \in Chats : n = session.title
    BY <1>3
  <2>1. /\ n \in Chats /\ Said(n, "assistant") # {}
        /\ faults' = 0 /\ gone' = {} =>
             \A i \in Said(n, "assistant"), d \in Chats : \A j \in Said(d, "assistant") : i <= j
    BY <1>1, <1>2, <1>3, <2>0 DEF NamedByFirstAnswer
  <2>2. CASE ~Stores(c)
    <3>1. \A d \in Chats : Said(d, "assistant")' = Said(d, "assistant")
      BY <2>2, OthersSaid, OwnSaid, SaidSame
    <3>2. Said(n, "assistant")' = Said(n, "assistant")
      BY <2>1, <3>1
    <3>3. Said(session.title, "assistant")' = Said(n, "assistant")
      BY <1>3, <2>0, <3>2 DEF Said
    <3> QED
      BY <2>1, <3>1, <3>3
  <2>3. CASE Stores(c)
    <3>1. Said(c, "assistant") = {}
      BY <2>3 DEF Stores, Passes, OwnInv, Own, Writing
    <3>2. n # c
      BY <2>1, <3>1
    <3>3. Said(n, "assistant")' = Said(n, "assistant")
      BY <2>1, <3>2, OthersSaid
    <3>4. Said(session.title, "assistant")' = Said(n, "assistant")
      <4>1. {i \in DOMAIN messages' : messages'[i].of = session'.title /\ messages'[i].role = "assistant"}
              = {i \in DOMAIN messages' : messages'[i].of = session.title /\ messages'[i].role = "assistant"}
        BY <1>3
      <4> QED
        BY <2>0, <3>3, <4>1 DEF Said
    <3>5. Said(c, "assistant")' = {Len(messages) + 1}
      BY <2>3, <3>1, OwnSaid
    <3>6. \A i \in Said(n, "assistant") : i <= Len(messages) + 1
      <4>1. messages \in Seq(Message)
        BY DEF TypeOK
      <4> QED
        BY <4>1 DEF Said
    <3>7. ASSUME NEW d \in Chats, d # c PROVE Said(d, "assistant")' = Said(d, "assistant")
      BY <3>7, OthersSaid
    <3>8. ASSUME faults' = 0, gone' = {}, NEW i \in Said(n, "assistant"), NEW d \in Chats,
                 NEW j \in Said(d, "assistant")'
          PROVE  i <= j
      BY <2>1, <3>5, <3>6, <3>7, <3>8
    <3> QED
      BY <2>1, <3>4, <3>8
  <2> QED
    BY <2>2, <2>3
<1>4. CASE session' # session
  <2>1. Titles(c) /\ Untitled(c) /\ session' = [session EXCEPT !.title = c]
    BY <1>4 DEF Starts, GoesOn, Refuses, Accepts, Breaks, Finds, Counts, Asks, Loads,
       Thinks, Cites, Shows, Stores, Titles, Finishes, Database
  <2>2. chat[c].at = "title" /\ UNCHANGED messages
    BY <2>1 DEF Titles, Passes
  <2>3. session.title = "default" /\ session'.title = c
    <3>1. chat[c].title = session.title
      BY <1>1, <2>2 DEF TurnsInv, Turned
    <3> QED
      BY <2>1, <3>1 DEF Untitled, TypeOK
  <2>4. Said(c, "assistant") # {}
    BY <1>1, <2>2 DEF StoredInv, Stored, Answered
  <2>5. \A d : Said(d, "assistant")' = Said(d, "assistant")
    BY <2>2, SaidSame
  <2>6. Said(session.title, "assistant")' = Said(c, "assistant")
    <3>1. Said(session.title, "assistant")'
            = {i \in DOMAIN messages : messages[i].of = c /\ messages[i].role = "assistant"}
      BY <2>2, <2>3 DEF Said
    <3> QED
      BY <3>1 DEF Said
  <2>7. ASSUME faults' = 0, gone' = {}, NEW i \in Said(c, "assistant"), NEW d \in Chats,
               NEW j \in Said(d, "assistant")
        PROVE  i <= j
    <3>1. d = c
      BY <1>1, <1>2, <2>2, <2>3, <2>7, OnlyAnswer
    <3>2. i = j
      BY <2>7, <3>1 DEF OwnInv, Own
    <3>3. i \in Int
      <4>1. messages \in Seq(Message)
        BY DEF TypeOK
      <4> QED
        BY <4>1 DEF Said
    <3> QED
      BY <3>2, <3>3
  <2> QED
    BY <2>4, <2>5, <2>6, <2>7
<1> QED
  BY <1>3, <1>4

LEMMA NextNamed ==
  ASSUME TypeOK, OwnInv, StoredInv, TurnsInv, NamedByFirstAnswer, [Next]_vars
  PROVE  NamedByFirstAnswer'
<1>1. CASE Leaves
  <2>1. UNCHANGED <<session, messages, faults, crowd>> /\ gone \subseteq gone'
    BY <1>1 DEF Leaves, Database
  <2>2. \A d, role : Said(d, role)' = Said(d, role)
    BY <2>1, SaidSame
  <2>3. Said(session.title, "assistant")' = Said(session.title, "assistant")
    BY <2>1 DEF Said
  <2>4. gone' = {} => gone = {}
    BY <2>1
  <2>5. Live' <=> Live
    BY <2>1 DEF Live
  <2> QED
    BY <2>1, <2>2, <2>3, <2>4, <2>5 DEF NamedByFirstAnswer
<1>2. CASE Regains \/ UNCHANGED vars
  <2>1. UNCHANGED <<session, messages, faults, crowd, gone>>
    BY <1>2 DEF Regains, vars, Database
  <2> QED
    BY <2>1 DEF NamedByFirstAnswer, Said, Live
<1>3. CASE Deletes
  <2>1. ~Live'
    BY <1>3 DEF Deletes, Live, TypeOK
  <2> QED
    BY <2>1 DEF NamedByFirstAnswer
<1> QED
  BY <1>1, <1>2, <1>3, TurnNamed, StepKinds

(***************************************************************************)
(* The conversation is whole: a prompt quotes its end before the question, *)
(* only its owner takes part, it bears the name of an answered   *)
(* turn, and it goes as one.                                               *)
(***************************************************************************)
WholeInv ==
  /\ TypeOK /\ OwnInv /\ StreamInv /\ StoredInv /\ DataInv /\ TurnsInv
  /\ HistoryIsWhole /\ NamedByFirstAnswer

LEMMA InitWhole == ASSUME Init PROVE WholeInv
<1>1. session.title = "default" /\ \A c \in Chats : Said(c, "user") = {}
  BY InitRows DEF Init
<1>2. HistoryIsWhole
  BY <1>1 DEF HistoryIsWhole
<1>3. NamedByFirstAnswer
  BY <1>1, ChatAssumption DEF NamedByFirstAnswer
<1> QED
  BY <1>2, <1>3, InitTypeOK, InitOwn, InitStream, InitStored, InitDataPace, InitTurns DEF WholeInv

LEMMA NextWhole == ASSUME WholeInv, [Next]_vars PROVE WholeInv'
BY NextTypeOK, NextOwn, NextStream, NextStored, NextData, NextTurns, NextHeard, NextNamed
DEF WholeInv

\* A prompt quotes the rows right before its question, up to the rows it has room
\* for, only the owner takes part, the session bears the name of an answered turn,
\* and deleting it leaves no message.
THEOREM ConversationStaysWhole == Spec => []ConversationIsWhole
<1>1. WholeInv => ConversationIsWhole
  BY DEF WholeInv, DataInv, ConversationIsWhole
<1> QED
  BY <1>1, InitWhole, NextWhole, PTL DEF Spec

-----------------------------------------------------------------------------
(***************************************************************************)
(* What a browser was shown: the recursive function of Shown exists, its   *)
(* values depend on the events up to there, and an event that is added     *)
(* adds its text if it is a token and nothing otherwise.                   *)
(***************************************************************************)
Adds(es, k, x) == IF es[k].type = "token" THEN x \o es[k].text ELSE x
ShowsUpTo(f, es, n) ==
  f[0] = <<>> /\ \A k \in 0..n : k # 0 => f[k] = Adds(es, k, f[k - 1])

LEMMA AddsType ==
  ASSUME NEW es \in Seq(Event), NEW k \in 1..Len(es), NEW x \in Seq(Pieces)
  PROVE  Adds(es, k, x) \in Seq(Pieces)
<1>1. es[k] \in Event
  OBVIOUS
<1>2. CASE es[k].type = "token"
  <2>1. es[k].text \in Seq(Pieces)
    BY <1>1, <1>2 DEF Event
  <2>2. x \o es[k].text \in Seq(Pieces)
    BY <2>1
  <2> QED
    BY <1>2, <2>2 DEF Adds
<1> QED
  BY <1>2 DEF Adds

LEMMA ShownExists ==
  ASSUME NEW es \in Seq(Event), NEW n \in Nat, n <= Len(es)
  PROVE  \E f \in [0..n -> Seq(Pieces)] : ShowsUpTo(f, es, n)
<1> DEFINE S == {m \in Nat : m <= Len(es) =>
                   \E f \in [0..m -> Seq(Pieces)] : ShowsUpTo(f, es, m)}
<1>1. 0 \in S
  <2> DEFINE f == [k \in 0..0 |-> <<>>]
  <2>1. f \in [0..0 -> Seq(Pieces)] /\ ShowsUpTo(f, es, 0)
    BY DEF ShowsUpTo
  <2> QED
    BY <2>1
<1>2. ASSUME NEW m \in Nat, m \in S PROVE m + 1 \in S
  <2> SUFFICES ASSUME m + 1 <= Len(es)
               PROVE  \E f \in [0..(m + 1) -> Seq(Pieces)] : ShowsUpTo(f, es, m + 1)
    OBVIOUS
  <2>1. PICK f \in [0..m -> Seq(Pieces)] : ShowsUpTo(f, es, m)
    BY <1>2
  <2> DEFINE x == Adds(es, m + 1, f[m])
             g == [k \in 0..(m + 1) |-> IF k = m + 1 THEN x ELSE f[k]]
  <2>2. x \in Seq(Pieces)
    <3>1. m + 1 \in 1..Len(es) /\ f[m] \in Seq(Pieces)
      OBVIOUS
    <3> QED
      BY <3>1, AddsType
  <2> HIDE DEF x
  <2>3. g \in [0..(m + 1) -> Seq(Pieces)]
    BY <2>2
  <2>4. g[m + 1] = x /\ \A k \in 0..m : g[k] = f[k]
    OBVIOUS
  <2> HIDE DEF g
  <2>5. g[0] = <<>>
    BY <2>1, <2>4 DEF ShowsUpTo
  <2>6. ASSUME NEW k \in 0..(m + 1), k # 0 PROVE g[k] = Adds(es, k, g[k - 1])
    <3>1. k - 1 \in 0..m
      BY <2>6
    <3>2. g[k - 1] = f[k - 1]
      BY <2>4, <3>1
    <3>3. CASE k = m + 1
      <4>1. k - 1 = m
        BY <3>3
      <4> QED
        BY <2>4, <3>2, <3>3, <4>1 DEF x
    <3>4. CASE k # m + 1
      <4>1. k \in 0..m
        BY <2>6, <3>4
      <4>2. f[k] = Adds(es, k, f[k - 1])
        BY <2>1, <2>6, <4>1 DEF ShowsUpTo
      <4> QED
        BY <2>4, <3>2, <4>1, <4>2
    <3> QED
      BY <3>3, <3>4
  <2> QED
    BY <2>3, <2>5, <2>6 DEF ShowsUpTo
<1> HIDE DEF S
<1>3. n \in S
  BY <1>1, <1>2, NatSets
<1> QED
  BY <1>3 DEF S

\* Two sequences that agree up to a position show the same up to there.
LEMMA ShownAgrees ==
  ASSUME NEW es, NEW fs, NEW n \in Nat, NEW f, NEW g,
         ShowsUpTo(f, es, n), ShowsUpTo(g, fs, n), \A k \in 1..n : es[k] = fs[k]
  PROVE  f[n] = g[n]
<1> DEFINE S == {m \in Nat : m <= n => f[m] = g[m]}
<1>1. 0 \in S
  BY DEF ShowsUpTo
<1>2. ASSUME NEW m \in Nat, m \in S PROVE m + 1 \in S
  <2> SUFFICES ASSUME m + 1 <= n PROVE f[m + 1] = g[m + 1]
    OBVIOUS
  <2> DEFINE k == m + 1
  <2>1. k \in 0..n /\ k # 0 /\ k - 1 = m /\ k \in 1..n
    OBVIOUS
  <2> HIDE DEF k
  <2>2. f[k] = Adds(es, k, f[k - 1]) /\ g[k] = Adds(fs, k, g[k - 1])
    BY <2>1 DEF ShowsUpTo
  <2>3. f[m] = g[m]
    BY <1>2
  <2>4. es[k] = fs[k]
    BY <2>1
  <2>5. f[k] = g[k]
    BY <2>1, <2>2, <2>3, <2>4 DEF Adds
  <2> QED
    BY <2>5 DEF k
<1> HIDE DEF S
<1>3. n \in S
  BY <1>1, <1>2, NatSets
<1> QED
  BY <1>3 DEF S

LEMMA ShownIs ==
  ASSUME NEW es \in Seq(Event)
  PROVE  /\ \E f : ShowsUpTo(f, es, Len(es)) /\ Shown(es) = f[Len(es)]
         /\ Shown(es) \in Seq(Pieces)
<1> DEFINE n == Len(es)
           F(f) == [k \in 0..n |->
                      IF k = 0 THEN <<>>
                      ELSE IF es[k].type = "token" THEN f[k - 1] \o es[k].text ELSE f[k - 1]]
           s == CHOOSE f : f = F(f)
<1>0. n \in Nat
  OBVIOUS
<1>1. Shown(es) = s[n]
  BY DEF Shown
<1> HIDE DEF n
<1>2. PICK f \in [0..n -> Seq(Pieces)] : ShowsUpTo(f, es, n)
  BY <1>0, ShownExists DEF n
<1>3. f = F(f)
  <2>1. \A k \in 0..n : f[k] = F(f)[k]
    BY <1>2 DEF ShowsUpTo, Adds
  <2>2. f = [k \in 0..n |-> f[k]]
    OBVIOUS
  <2>3. [k \in 0..n |-> f[k]] = [k \in 0..n |-> F(f)[k]]
    BY <2>1
  <2>4. [k \in 0..n |-> F(f)[k]] = F(f)
    OBVIOUS
  <2> QED
    BY <2>2, <2>3, <2>4
<1>4. s = F(s)
  BY <1>3
<1> HIDE DEF s
<1>5. ShowsUpTo(s, es, n)
  <2>1. s[0] = <<>>
    BY <1>0, <1>4
  <2>2. ASSUME NEW k \in 0..n, k # 0 PROVE s[k] = Adds(es, k, s[k - 1])
    BY <1>4, <2>2 DEF Adds
  <2> QED
    BY <2>1, <2>2 DEF ShowsUpTo
<1>6. s[n] = f[n]
  BY <1>0, <1>2, <1>5, ShownAgrees
<1>7. f[n] \in Seq(Pieces)
  BY <1>0
<1> QED
  BY <1>1, <1>5, <1>6, <1>7 DEF n

LEMMA ShownEmpty == ASSUME NEW es \in Seq(Event), es = <<>> PROVE Shown(es) = <<>>
<1>1. PICK f : ShowsUpTo(f, es, Len(es)) /\ Shown(es) = f[Len(es)]
  BY ShownIs
<1>2. Len(es) = 0
  OBVIOUS
<1> QED
  BY <1>1, <1>2 DEF ShowsUpTo

LEMMA ShownAppend ==
  ASSUME NEW es \in Seq(Event), NEW e \in Event
  PROVE  Shown(Append(es, e)) = IF e.type = "token" THEN Shown(es) \o e.text ELSE Shown(es)
<1> DEFINE n == Len(es)
           fs == Append(es, e)
<1>1. n \in Nat /\ fs \in Seq(Event) /\ Len(fs) = n + 1 /\ fs[n + 1] = e
      /\ \A k \in 1..n : es[k] = fs[k]
  OBVIOUS
<1>2. PICK f : ShowsUpTo(f, es, n) /\ Shown(es) = f[n]
  BY ShownIs
<1> HIDE DEF n, fs
<1>3. PICK g : ShowsUpTo(g, fs, n + 1) /\ Shown(fs) = g[n + 1]
  BY <1>1, ShownIs
<1>4. ShowsUpTo(g, fs, n)
  BY <1>1, <1>3 DEF ShowsUpTo
<1>5. f[n] = g[n]
  BY <1>1, <1>2, <1>4, ShownAgrees
<1>6. g[n + 1] = Adds(fs, n + 1, g[n])
  <2>1. n + 1 \in 0..(n + 1) /\ n + 1 # 0 /\ (n + 1) - 1 = n
    BY <1>1
  <2> QED
    BY <1>3, <2>1 DEF ShowsUpTo
<1>7. Shown(fs) = IF e.type = "token" THEN Shown(es) \o e.text ELSE Shown(es)
  BY <1>1, <1>2, <1>3, <1>5, <1>6 DEF Adds
<1> QED
  BY <1>7 DEF fs

-----------------------------------------------------------------------------
(***************************************************************************)
(* The text of a turn: while the pieces come, the browser was shown the    *)
(* pieces; once the answer is fixed, the answer; and the row that stores   *)
(* it, for ever.                                                           *)
(***************************************************************************)
Silent == {"idle", "verify", "count", "ask", "history", "retrieve", "guardrail"}
Speaking == {"synthesis", "smalltalk", "citations", "answer"}

Spoken(c) ==
  LET shown == Shown(events[c])
  IN  /\ chat[c].at \in Silent => chat[c].text = <<>> /\ shown = <<>>
      /\ chat[c].at \in Speaking => shown = chat[c].text
      /\ chat[c].at = "store" => shown = chat[c].answer
      /\ \A i \in Said(c, "assistant") : messages[i].text = shown

SpokenInv == \A c \in Chats : Spoken(c)

\* A step shows a text more, or nothing more.
LEMMA TellsText ==
  ASSUME TypeOK, NEW c \in Chats
  PROVE  /\ \A x \in Seq(Pieces) : Says(c, x) /\ c \notin gone =>
              Shown(events'[c]) = Shown(events[c]) \o x
         /\ \A e \in Event : e.type # "token" /\ Tells(c, e) =>
              Shown(events'[c]) = Shown(events[c])
         /\ Quiet(c) => Shown(events'[c]) = Shown(events[c])
<1>0. events[c] \in Seq(Event)
  BY SmallTypes
<1>1. ASSUME NEW x \in Seq(Pieces), Says(c, x), c \notin gone
      PROVE  Shown(events'[c]) = Shown(events[c]) \o x
  <2> DEFINE e == [type |-> "token", text |-> x]
  <2>1. e \in Event /\ e.type = "token" /\ e.text = x
    BY EventTypes
  <2>2. events'[c] = Append(events[c], e)
    BY <1>1 DEF Says, Tells
  <2> HIDE DEF e
  <2> QED
    BY <1>0, <2>1, <2>2, ShownAppend
<1>2. ASSUME NEW e \in Event, e.type # "token", Tells(c, e)
      PROVE  Shown(events'[c]) = Shown(events[c])
  BY <1>0, <1>2, ShownAppend DEF Tells
<1>3. ASSUME Quiet(c) PROVE Shown(events'[c]) = Shown(events[c])
  BY <1>3 DEF Quiet
<1> QED
  BY <1>1, <1>2, <1>3

\* The answers' rows stay while nothing is stored.
LEMMA AnswersStay ==
  ASSUME TypeOK, NEW c \in Chats, NEW d \in Chats, Starts(c) \/ GoesOn(c), d # c \/ ~Stores(c)
  PROVE  /\ Said(d, "assistant")' = Said(d, "assistant")
         /\ \A i \in Said(d, "assistant") : messages'[i] = messages[i]
<1>1. Said(d, "assistant")' = Said(d, "assistant")
  <2>1. CASE d # c
    BY <2>1, OthersSaid
  <2>2. CASE d = c /\ ~Stores(c)
    BY <2>2, OwnSaid, SaidSame
  <2> QED
    BY <2>1, <2>2
<1>2. \A i \in DOMAIN messages : messages'[i] = messages[i]
  <2>1. messages' = messages \/ \E m : messages' = Append(messages, m)
    BY OwnSaid DEF Asks, Stores
  <2>2. messages \in Seq(Message)
    BY DEF TypeOK
  <2> QED
    BY <2>1, <2>2
<1> QED
  BY <1>1, <1>2 DEF Said

LEMMA TurnSpoken ==
  ASSUME TypeOK, NEW c \in Chats, Own(c), Spoken(c), Alone(c), Starts(c) \/ GoesOn(c),
         gone' = gone
  PROVE  Spoken(c)'
<1> DEFINE old == Shown(events[c])
           new == Shown(events'[c])
<1>0. /\ chat[c].text \in Seq(Pieces) /\ chat[c].answer \in Seq(Pieces)
      /\ old \in Seq(Pieces)
  BY SmallTypes, RequestFields, ShownIs
<1>1. ASSUME new = old, ~Stores(c),
             chat'[c].at \in Silent => chat[c].at \in Silent /\ chat'[c].text = chat[c].text,
             chat'[c].at \in Speaking =>
               /\ chat[c].at \in Silent \cup Speaking
               /\ chat'[c].text = chat[c].text,
             chat'[c].at = "store" => chat'[c].answer = old
      PROVE  Spoken(c)'
  <2>1. \A i \in Said(c, "assistant")' : messages'[i].text = new
    BY <1>1, AnswersStay DEF Spoken
  <2>2. chat'[c].at \in Silent => chat'[c].text = <<>> /\ new = <<>>
    BY <1>1 DEF Spoken
  <2>3. chat'[c].at \in Speaking => new = chat'[c].text
    BY <1>1 DEF Spoken
  <2> QED
    BY <1>1, <2>1, <2>2, <2>3 DEF Spoken
<1>2. CASE Refuses(c) \/ Breaks(c)
  <2>1. PICK x \in Codes : Tells(c, [type |-> "error", code |-> x])
    BY <1>2 DEF Refuses, Breaks, Codes
  <2> DEFINE e == [type |-> "error", code |-> x]
  <2>2. e \in Event /\ e.type # "token" /\ Tells(c, e)
    BY <2>1, EventTypes
  <2> HIDE DEF e
  <2>3. new = old
    BY <2>2, TellsText
  <2>4. chat'[c].at = "ended" /\ ~Stores(c)
    BY <1>2 DEF Refuses, Breaks, Over, Stores, Passes
  <2> QED
    BY <1>1, <2>3, <2>4 DEF Silent, Speaking
<1>3. CASE Finishes(c)
  <2> DEFINE x == IF chat[c].error THEN "error" ELSE "stop"
             e == [type |-> "done", reason |-> x]
  <2>1. Tells(c, e) /\ x \in {"stop", "error"}
    BY <1>3 DEF Finishes
  <2> HIDE DEF x
  <2>2. e \in Event /\ e.type # "token"
    BY <2>1, EventTypes
  <2> HIDE DEF e
  <2>3. new = old
    BY <2>1, <2>2, TellsText
  <2>4. chat'[c].at = "ended" /\ ~Stores(c)
    BY <1>3 DEF Finishes, Over, Stores, Passes
  <2> QED
    BY <1>1, <2>3, <2>4 DEF Silent, Speaking
<1>4. CASE Cites(c)
  <2> DEFINE e == [type |-> "citations"]
  <2>1. Tells(c, e) /\ e \in Event /\ e.type # "token"
    BY <1>4, EventTypes DEF Cites
  <2> HIDE DEF e
  <2>2. new = old
    BY <2>1, TellsText
  <2>3. /\ chat[c].at = "citations" /\ chat'[c].at = "answer" /\ chat'[c].text = chat[c].text
        /\ ~Stores(c)
    BY <1>4 DEF Cites, Passes, Wordless, Stores
  <2> QED
    BY <1>1, <2>2, <2>3 DEF Silent, Speaking
<1>5. CASE Accepts(c) \/ Finds(c) \/ Counts(c) \/ Asks(c) \/ Loads(c) \/ Titles(c)
  <2>1. Quiet(c)
    BY <1>5 DEF Accepts, Finds, Counts, Asks, Loads, Titles
  <2>2. new = old
    BY <2>1, TellsText
  <2>3. /\ chat'[c].text = chat[c].text
        /\ \/ chat[c].at = "idle" /\ chat'[c].at = "verify"
           \/ chat[c].at = "verify" /\ chat'[c].at = "count"
           \/ chat[c].at = "count" /\ chat'[c].at = "ask"
           \/ chat[c].at = "ask" /\ chat'[c].at = "history"
           \/ chat[c].at = "history" /\ chat'[c].at = "retrieve"
           \/ chat[c].at = "title" /\ chat'[c].at = "done"
    BY <1>5 DEF Accepts, Finds, Counts, Asks, Loads, Titles, Passes, Wordless
  <2>4. ~Stores(c)
    BY <2>3 DEF Stores, Passes
  <2> QED
    BY <1>1, <2>2, <2>3, <2>4 DEF Silent, Speaking
<1>6. CASE Thinks(c)
  <2>1. /\ chat[c].at \in Answering /\ chat'[c].at \in (Answering \ {"retrieve"}) \cup {"citations"}
        /\ chat'[c].at = "guardrail" => chat[c].at = "retrieve"
    BY <1>6 DEF Thinks
  <2>2. ~Stores(c)
    BY <2>1 DEF Stores, Passes, Answering
  <2>3. CASE Quiet(c) /\ chat'[c].text = chat[c].text
    <3>1. new = old
      BY <2>3, TellsText
    <3>2. /\ chat'[c].at \in Silent => chat[c].at \in Silent
          /\ chat'[c].at # "store" /\ chat[c].at \in Silent \cup Speaking
      BY <2>1 DEF Answering, Silent, Speaking
    <3> QED
      BY <1>1, <2>2, <2>3, <3>1, <3>2
  <2>4. CASE /\ Says(c, <<"piece">>) /\ chat'[c].text = Append(chat[c].text, "piece")
             /\ c \notin gone /\ chat[c].at \in {"synthesis", "smalltalk"}
    <3>1. <<"piece">> \in Seq(Pieces) /\ "piece" \in Pieces
      BY DEF Pieces
    <3>2. new = old \o <<"piece">>
      BY <2>4, <3>1, TellsText
    <3>3. old = chat[c].text
      BY <2>4 DEF Spoken, Speaking
    <3>4. new = chat'[c].text
      BY <1>0, <2>4, <3>1, <3>2, <3>3
    <3>5. chat'[c].at \in Speaking /\ chat'[c].at \notin Silent /\ chat'[c].at # "store"
      BY <2>1, <2>4 DEF Answering, Silent, Speaking
    <3>6. Said(c, "assistant")' = {}
      <4>1. Said(c, "assistant") = {}
        BY <2>4 DEF Own, Writing
      <4> QED
        BY <2>2, <4>1, AnswersStay
    <3> QED
      BY <3>4, <3>5, <3>6 DEF Spoken
  <2> QED
    BY <1>6, <2>3, <2>4 DEF Thinks
<1>7. CASE Shows(c)
  <2> DEFINE answer == StoredAnswer(chat[c].text, chat[c].answer)
  <2>1. /\ chat[c].at = "answer" /\ chat'[c].at = "store" /\ chat'[c].answer = answer
        /\ IF chat[c].text = <<>> /\ answer # <<>> THEN c \notin gone /\ Says(c, answer)
                                                  ELSE Quiet(c)
    BY <1>7 DEF Shows
  <2>2. answer = IF chat[c].text # <<>> THEN chat[c].text ELSE chat[c].answer
    BY DEF StoredAnswer
  <2>3. answer \in Seq(Pieces)
    BY <1>0, <2>2
  <2> HIDE DEF answer
  <2>4. old = chat[c].text
    BY <2>1 DEF Spoken, Speaking
  <2>5. new = answer
    <3>1. CASE chat[c].text = <<>> /\ answer # <<>>
      <4>1. new = old \o answer
        BY <2>1, <2>3, <3>1, TellsText
      <4> QED
        BY <2>3, <2>4, <3>1, <4>1, ConcatEmptySeq
    <3>2. CASE ~(chat[c].text = <<>> /\ answer # <<>>)
      <4>1. new = old
        BY <2>1, <3>2, TellsText
      <4> QED
        BY <2>2, <2>4, <3>2, <4>1
    <3> QED
      BY <3>1, <3>2
  <2>6. Said(c, "assistant")' = {}
    <3>1. ~Stores(c) /\ Said(c, "assistant") = {}
      BY <2>1 DEF Own, Writing, Stores, Passes
    <3> QED
      BY <3>1, AnswersStay
  <2> QED
    BY <2>1, <2>5, <2>6 DEF Spoken, Silent, Speaking
<1>8. CASE Stores(c)
  <2>1. chat[c].at = "store" /\ chat'[c].at = "title" /\ Quiet(c)
    BY <1>8 DEF Stores, Passes
  <2>2. new = old /\ old = chat[c].answer
    BY <2>1, TellsText DEF Spoken
  <2>3. Said(c, "assistant")' = {Len(messages) + 1}
    <3>1. Said(c, "assistant")' = Said(c, "assistant") \cup {Len(messages) + 1}
      BY <1>8, OwnSaid
    <3>2. Said(c, "assistant") = {}
      BY <2>1 DEF Own, Writing
    <3> QED
      BY <3>1, <3>2
  <2>4. messages'[Len(messages) + 1].text = chat[c].answer
    <3> DEFINE m == [role |-> "assistant", of |-> c, text |-> chat[c].answer]
    <3>1. m \in Message /\ messages' = Append(messages, m) /\ m.text = chat[c].answer
      BY <1>0, <1>8, RowTypes DEF Stores
    <3> HIDE DEF m
    <3> QED
      BY <3>1, SaidAppend
  <2> QED
    BY <2>1, <2>2, <2>3, <2>4 DEF Spoken, Silent, Speaking
<1> QED
  BY <1>2, <1>3, <1>4, <1>5, <1>6, <1>7, <1>8 DEF Starts, GoesOn

LEMMA NextSpoken == ASSUME TypeOK, OwnInv, SpokenInv, [Next]_vars PROVE SpokenInv'
<1>1. ASSUME NEW c \in Chats, Alone(c), Starts(c) \/ GoesOn(c), gone' = gone,
             NEW d \in Chats
      PROVE  Spoken(d)'
  <2>1. CASE d = c
    BY <1>1, <2>1, TurnSpoken DEF OwnInv, SpokenInv
  <2>2. CASE d # c
    <3>1. chat'[d] = chat[d] /\ events'[d] = events[d]
      BY <1>1, <2>2 DEF Alone
    <3>2. /\ Said(d, "assistant")' = Said(d, "assistant")
          /\ \A i \in Said(d, "assistant") : messages'[i] = messages[i]
      BY <1>1, <2>2, AnswersStay
    <3> QED
      BY <3>1, <3>2 DEF SpokenInv, Spoken
  <2> QED
    BY <2>1, <2>2
<1>2. CASE Leaves \/ Regains \/ UNCHANGED vars
  <2>1. UNCHANGED <<messages, chat, events>>
    BY <1>2 DEF Leaves, Regains, vars, Database
  <2> QED
    BY <2>1 DEF SpokenInv, Spoken, Said
<1>3. CASE Deletes
  <2>1. UNCHANGED <<chat, events>> /\ messages' = <<>>
    BY <1>3 DEF Deletes
  <2>2. \A d, role : Said(d, role)' = {}
    BY <2>1 DEF Said
  <2> QED
    BY <2>1, <2>2 DEF SpokenInv, Spoken
<1> QED
  BY <1>1, <1>2, <1>3, StepKinds DEF SpokenInv

LEMMA InitSpoken == ASSUME Init PROVE SpokenInv
<1>1. PICK user \in [Chats -> Users] : chat = [c \in Chats |-> Fresh(user[c])]
  BY DEF Init
<1>2. ASSUME NEW c \in Chats PROVE Spoken(c)
  <2>1. chat[c].at = "idle" /\ chat[c].text = <<>>
    BY <1>1 DEF Fresh
  <2>2. events[c] = <<>> /\ Said(c, "assistant") = {}
    BY InitRows DEF Init
  <2>3. Shown(events[c]) = <<>>
    BY <2>2, ShownEmpty, InitTypeOK, SmallTypes
  <2> QED
    BY <2>1, <2>2, <2>3 DEF Spoken, Silent, Speaking
<1> QED
  BY <1>2 DEF SpokenInv

(***************************************************************************)
(* What is stored as an answer is what its browser was sent, also where a  *)
(* stream broke off and a fixed answer took its place.                     *)
(***************************************************************************)
SpeechInv == TypeOK /\ OwnInv /\ SpokenInv

\* Every stored answer is the text of the token events its browser was sent.
THEOREM AnswersAreStreamed == Spec => []StoredIsStreamed
<1>1. ASSUME Init PROVE SpeechInv
  BY <1>1, InitTypeOK, InitOwn, InitSpoken DEF SpeechInv
<1>2. ASSUME SpeechInv, [Next]_vars PROVE SpeechInv'
  BY <1>2, NextTypeOK, NextOwn, NextSpoken DEF SpeechInv
<1>3. SpeechInv => StoredIsStreamed
  BY DEF StoredIsStreamed, SpeechInv, SpokenInv, Spoken
<1> QED
  BY <1>1, <1>2, <1>3, PTL DEF Spec
=============================================================================
